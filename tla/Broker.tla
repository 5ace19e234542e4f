------------------------------- MODULE Broker -------------------------------
(***************************************************************************)
(* The broker process, 02/src/broker.c.                                    *)
(*                                                                         *)
(*   off -> init -> top -> msgrcv -> handle -> fanout <-> msgsnd           *)
(*                   |<---------------+----------'                         *)
(*                   `-> kill -> wait -> rmid -> exited                    *)
(*                                                                         *)
(* The topic list of a subscriber is kept as the set of its topics: it is  *)
(* only searched, and the search stops at the first match.  malloc does    *)
(* not fail here.                                                          *)
(***************************************************************************)
EXTENDS MsgBus

CONSTANT WaitLimit   \* timeout_seconds

ASSUME WaitLimitAssumption == WaitLimit \in Nat

VARIABLES subList,   \* sub_head ... sub_tail: pids in order of arrival
          pubList,   \* pub_head ... pub_tail
          topicsOf,  \* topicsOf[s]: the topics in s's list
          buf,       \* rcv_mes, which keeps its place on the stack
          cursor,    \* the element a walk over a list has reached
          waited     \* seconds spent waiting for the clients to end

brokerVars == <<subList, pubList, topicsOf, buf, cursor, waited>>

BrokerTypeOK ==
    /\ pc[Brk] \in {"off", "init", "top", "msgrcv", "handle", "fanout",
                    "msgsnd", "kill", "wait", "rmid", "exited"}
    /\ subList \in Seq(Subs)
    /\ pubList \in Seq(Pubs)
    /\ topicsOf \in [Subs -> SUBSET Topics]
    /\ buf \in Message \cup {NoMsg}
    /\ pc[Brk] \in {"handle", "fanout", "msgsnd"} => buf # NoMsg
    /\ pc[Brk] \in {"fanout", "msgsnd"} => buf.cmd = "send"
    /\ cursor \in Nat \ {0}
    /\ pc[Brk] = "msgsnd" => cursor <= Len(subList)
    /\ waited \in 0..WaitLimit

BrokerInit ==
    /\ subList = <<>>
    /\ pubList = <<>>
    /\ topicsOf = [s \in Subs |-> {}]
    /\ buf = NoMsg
    /\ cursor = 1
    /\ waited = 0
-----------------------------------------------------------------------------
InList(list, p) == \E i \in 1..Len(list) : list[i] = p

(* Mutant: the search of the list is forgotten.                            *)
RegisterAgain(list, p) == Append(list, p)

(* is_..._in_list followed by add_...: p joins at the tail, once.          *)
Register(list, p) == IF InList(list, p) THEN list ELSE Append(list, p)

Registered == subList \o pubList

(* msgget(IPC_CREAT | IPC_EXCL), before the handler is installed.          *)
BrokerStart ==
    /\ pc[Brk] = "off"
    /\ queue' = "live"
    /\ Goto(Brk, "init")
    /\ UNCHANGED <<running, q, brokerVars>>

BrokerReady ==
    /\ pc[Brk] = "init"
    /\ Goto(Brk, "top")
    /\ UNCHANGED <<running, queueVars, brokerVars>>

(* while (running)                                                         *)
BrokerLoop ==
    /\ pc[Brk] = "top"
    /\ IF running[Brk] THEN Goto(Brk, "msgrcv") /\ UNCHANGED cursor
                       ELSE Goto(Brk, "kill") /\ cursor' = 1
    /\ UNCHANGED <<running, queueVars, subList, pubList, topicsOf, buf, waited>>

BrokerReceive ==
    /\ pc[Brk] = "msgrcv"
    /\ MsgRcv(Brk)
    /\ buf' = Head(q[Brk])
    /\ Goto(Brk, "handle")
    /\ UNCHANGED <<running, subList, pubList, topicsOf, cursor, waited>>

(* msgrcv returns -1, but it is stored in a size_t and compared with <= 0: *)
(* the return(1) meant for EINTR is not taken, and the text already in the *)
(* buffer is parsed.  Either the previous message is still there and is    *)
(* handled once more, or what is there has no newline and is refused.      *)
BrokerReceiveInterrupted ==
    /\ pc[Brk] = "msgrcv"
    /\ eintr[Brk]
    /\ \/ buf # NoMsg /\ Goto(Brk, "handle")
       \/ Goto(Brk, "top")
    /\ UNCHANGED <<running, queueVars, brokerVars>>

HandleSend ==
    /\ pc[Brk] = "handle"
    /\ buf.cmd = "send"
    /\ pubList' = Register(pubList, buf.from)
    /\ cursor' = 1
    /\ Goto(Brk, "fanout")
    /\ UNCHANGED <<running, queueVars, subList, topicsOf, buf, waited>>

(* Mutant: only the request that creates the entry adds its topic.         *)
HandleSubscribeOnce ==
    /\ pc[Brk] = "handle"
    /\ buf.cmd = "subscribe"
    /\ subList' = Register(subList, buf.from)
    /\ topicsOf' = IF InList(subList, buf.from) THEN topicsOf
                   ELSE [topicsOf EXCEPT ![buf.from] = @ \cup {buf.topic}]
    /\ Goto(Brk, "top")
    /\ UNCHANGED <<running, queueVars, pubList, buf, cursor, waited>>

HandleSubscribe ==
    /\ pc[Brk] = "handle"
    /\ buf.cmd = "subscribe"
    /\ subList' = Register(subList, buf.from)
    /\ topicsOf' = [topicsOf EXCEPT ![buf.from] = @ \cup {buf.topic}]
    /\ Goto(Brk, "top")
    /\ UNCHANGED <<running, queueVars, pubList, buf, cursor, waited>>

(* The branch only logs: the registry keeps the subscriber and its topics. *)
HandleUnsubscribe ==
    /\ pc[Brk] = "handle"
    /\ buf.cmd = "unsubscribe"
    /\ Goto(Brk, "top")
    /\ UNCHANGED <<running, queueVars, brokerVars>>

(* Mutant: the walk ends at the first subscriber without the topic.        *)
FanoutNextOrStop ==
    /\ pc[Brk] = "fanout"
    /\ cursor <= Len(subList)
    /\ Goto(Brk, IF buf.topic \in topicsOf[subList[cursor]] THEN "msgsnd" ELSE "top")
    /\ UNCHANGED <<running, queueVars, brokerVars>>

(* Mutant: the topics are not compared.                                    *)
FanoutNextToAll ==
    /\ pc[Brk] = "fanout"
    /\ cursor <= Len(subList)
    /\ Goto(Brk, "msgsnd")
    /\ UNCHANGED <<running, queueVars, brokerVars>>

(* One element of the walk over the subscribers.                           *)
FanoutNext ==
    /\ pc[Brk] = "fanout"
    /\ cursor <= Len(subList)
    /\ IF buf.topic \in topicsOf[subList[cursor]]
          THEN Goto(Brk, "msgsnd") /\ UNCHANGED cursor
          ELSE cursor' = cursor + 1 /\ UNCHANGED <<pc, eintr>>
    /\ UNCHANGED <<running, queueVars, subList, pubList, topicsOf, buf, waited>>

(* Mutant: no break, so a topic found once more is sent once more.         *)
FanoutSendAgain ==
    /\ pc[Brk] = "msgsnd"
    /\ MsgSnd(subList[cursor], buf)
    /\ cursor' \in {cursor, cursor + 1}
    /\ Goto(Brk, "fanout")
    /\ UNCHANGED <<running, subList, pubList, topicsOf, buf, waited>>

FanoutSend ==
    /\ pc[Brk] = "msgsnd"
    /\ MsgSnd(subList[cursor], buf)
    /\ cursor' = cursor + 1
    /\ Goto(Brk, "fanout")
    /\ UNCHANGED <<running, subList, pubList, topicsOf, buf, waited>>

(* return(-4): the subscribers further down the list get nothing.          *)
FanoutInterrupted ==
    /\ pc[Brk] = "msgsnd"
    /\ eintr[Brk]
    /\ Goto(Brk, "top")
    /\ UNCHANGED <<running, queueVars, brokerVars>>

FanoutDone ==
    /\ pc[Brk] = "fanout"
    /\ cursor > Len(subList)
    /\ Goto(Brk, "top")
    /\ UNCHANGED <<running, queueVars, brokerVars>>

(* Mutant: the second walk, over the publishers, is missing.               *)
KillNextSubscribers ==
    /\ pc[Brk] = "kill"
    /\ cursor <= Len(Registered)
    /\ IF cursor <= Len(subList) THEN Signal(Registered[cursor])
                                 ELSE UNCHANGED procVars
    /\ cursor' = cursor + 1
    /\ UNCHANGED <<queueVars, subList, pubList, topicsOf, buf, waited>>

(* send_sigint_to_all: the subscribers, then the publishers, one kill each. *)
KillNext ==
    /\ pc[Brk] = "kill"
    /\ cursor <= Len(Registered)
    /\ Signal(Registered[cursor])
    /\ cursor' = cursor + 1
    /\ UNCHANGED <<queueVars, subList, pubList, topicsOf, buf, waited>>

KillDone ==
    /\ pc[Brk] = "kill"
    /\ cursor > Len(Registered)
    /\ Goto(Brk, "wait")
    /\ waited' = 0
    /\ UNCHANGED <<running, queueVars, subList, pubList, topicsOf, buf, cursor>>

(* Mutants: waited++ is missing; the bound is one too high.                *)
WaitSecondForever ==
    /\ pc[Brk] = "wait"
    /\ waited < WaitLimit
    /\ Goto(Brk, IF \A i \in 1..Len(Registered) : Exited(Registered[i])
                    THEN "rmid" ELSE "wait")
    /\ UNCHANGED <<running, queueVars, brokerVars>>

WaitSecondMore ==
    /\ pc[Brk] = "wait"
    /\ waited <= WaitLimit
    /\ waited' = waited + 1
    /\ Goto(Brk, IF \A i \in 1..Len(Registered) : Exited(Registered[i])
                    THEN "rmid" ELSE "wait")
    /\ UNCHANGED <<running, queueVars, subList, pubList, topicsOf, buf, cursor>>

(* A second of waiting, then kill(pid, 0) on every registered process.     *)
WaitSecond ==
    /\ pc[Brk] = "wait"
    /\ waited < WaitLimit
    /\ waited' = waited + 1
    /\ Goto(Brk, IF \A i \in 1..Len(Registered) : Exited(Registered[i])
                    THEN "rmid" ELSE "wait")
    /\ UNCHANGED <<running, queueVars, subList, pubList, topicsOf, buf, cursor>>

WaitTimeout ==
    /\ pc[Brk] = "wait"
    /\ waited >= WaitLimit
    /\ Goto(Brk, "rmid")
    /\ UNCHANGED <<running, queueVars, brokerVars>>

(* msgctl(IPC_RMID): every message is lost, every blocked call fails.      *)
RemoveQueue ==
    /\ pc[Brk] = "rmid"
    /\ queue' = "removed"
    /\ q' = [d \in Dests |-> <<>>]
    /\ Goto(Brk, "exited")
    /\ UNCHANGED <<running, brokerVars>>

BrokerNext ==
    \/ BrokerStart \/ BrokerReady \/ BrokerLoop
    \/ BrokerReceive \/ BrokerReceiveInterrupted
    \/ HandleSend \/ HandleSubscribe \/ HandleUnsubscribe
    \/ FanoutNext \/ FanoutSend \/ FanoutInterrupted \/ FanoutDone
    \/ KillNext \/ KillDone \/ WaitSecond \/ WaitTimeout \/ RemoveQueue
=============================================================================
