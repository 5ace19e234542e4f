----------------------------- MODULE Subscriber -----------------------------
(***************************************************************************)
(* The subscriber processes, 02/src/main_sub.c.                            *)
(*                                                                         *)
(*   off -> subscribe -> top <-> msgrcv                                    *)
(*                        `-> unsubscribe -> exited                        *)
(*                                                                         *)
(* In "subscribe" and "unsubscribe" the process is in a loop around a      *)
(* blocking msgsnd.  Each topic asked for is drawn at random, and a topic  *)
(* already in the list is skipped; so the list is kept as a set.           *)
(***************************************************************************)
EXTENDS MsgBus

VARIABLES own,     \* own[s]: the topics in s's own list
          unsent,  \* unsent[s]: topics s has yet to unsubscribe from
          got      \* got[s]: the publications s has reported, in order

subVars == <<own, unsent, got>>

SubscriberTypeOK ==
    /\ \A s \in Subs : pc[s] \in {"off", "subscribe", "top", "msgrcv",
                                  "unsubscribe", "exited"}
    /\ own \in [Subs -> SUBSET Topics]
    /\ unsent \in [Subs -> SUBSET Topics]
    /\ got \in [Subs -> Seq(Publication)]

(* The Subscriber on main's stack is not initialised: where the first walk *)
(* over it does not crash, it is taken to hold no topics.                  *)
SubscriberInit ==
    /\ own = [s \in Subs |-> {}]
    /\ unsent = [s \in Subs |-> {}]
    /\ got = [s \in Subs |-> <<>>]
-----------------------------------------------------------------------------
Ask(s, c, t) == [cmd |-> c, from |-> s, topic |-> t]

(* msgget without IPC_CREAT: no queue, no subscriber.  The struct with the *)
(* topic list is never initialised: the first walk over it may crash, and  *)
(* so may a SIGINT that comes before the handler is installed.             *)
SubStart(s) ==
    /\ pc[s] = "off"
    /\ \/ queue = "live" /\ Goto(s, "subscribe")
       \/ Goto(s, "exited")
    /\ UNCHANGED <<running, queueVars, subVars>>

SubSubscribe(s) ==
    /\ pc[s] = "subscribe"
    /\ \E t \in Topics \ own[s] :
          /\ MsgSnd(Brk, Ask(s, "subscribe", t))
          /\ own' = [own EXCEPT ![s] = @ \cup {t}]
    /\ Goto(s, "subscribe")
    /\ UNCHANGED <<running, unsent, got>>

(* The first add_topic dereferences the uninitialised tail.                *)
SubSubscribeCrash(s) ==
    /\ pc[s] = "subscribe"
    /\ own[s] = {}
    /\ \E t \in Topics : MsgSnd(Brk, Ask(s, "subscribe", t))
    /\ Goto(s, "exited")
    /\ UNCHANGED <<running, subVars>>

SubSubscribeDone(s) ==
    /\ pc[s] = "subscribe"
    /\ own[s] # {}
    /\ Goto(s, "top")
    /\ UNCHANGED <<running, queueVars, subVars>>

(* msgsnd fails and init_sub_for_broker returns -1, which main ignores.    *)
SubSubscribeFails(s) ==
    /\ pc[s] = "subscribe"
    /\ eintr[s] \/ queue = "removed"
    /\ Goto(s, "top")
    /\ UNCHANGED <<running, queueVars, subVars>>

(* while (running)                                                         *)
SubLoop(s) ==
    /\ pc[s] = "top"
    /\ IF running[s]
          THEN Goto(s, "msgrcv") /\ UNCHANGED unsent
          ELSE Goto(s, "unsubscribe") /\ unsent' = [unsent EXCEPT ![s] = own[s]]
    /\ UNCHANGED <<running, queueVars, own, got>>

SubReceive(s) ==
    /\ pc[s] = "msgrcv"
    /\ MsgRcv(s)
    /\ got' = [got EXCEPT ![s] = Append(@, Head(q[s]))]
    /\ Goto(s, "top")
    /\ UNCHANGED <<running, own, unsent>>

SubReceiveInterrupted(s) ==
    /\ pc[s] = "msgrcv"
    /\ eintr[s]
    /\ Goto(s, "top")
    /\ UNCHANGED <<running, queueVars, subVars>>

(* Only EINTR returns; any other error is logged and the buffer is parsed  *)
(* all the same.  The last message may still be in it and is reported as   *)
(* received again; a buffer that never held one has no newline.            *)
SubReceiveRemoved(s) ==
    /\ pc[s] = "msgrcv"
    /\ queue = "removed"
    /\ \/ UNCHANGED got
       \/ /\ got[s] # <<>>
          /\ got' = [got EXCEPT ![s] = Append(@, got[s][Len(got[s])])]
    /\ Goto(s, "top")
    /\ UNCHANGED <<running, queueVars, own, unsent>>

SubUnsubscribe(s) ==
    /\ pc[s] = "unsubscribe"
    /\ \E t \in unsent[s] :
          /\ MsgSnd(Brk, Ask(s, "unsubscribe", t))
          /\ unsent' = [unsent EXCEPT ![s] = @ \ {t}]
    /\ Goto(s, "unsubscribe")
    /\ UNCHANGED <<running, own, got>>

SubUnsubscribeDone(s) ==
    /\ pc[s] = "unsubscribe"
    /\ unsent[s] = {}
    /\ Goto(s, "exited")
    /\ UNCHANGED <<running, queueVars, subVars>>

(* Mutant: EIDRM is taken for a full queue and the call repeated.          *)
SubUnsubscribeRetries(s) ==
    /\ pc[s] = "unsubscribe"
    /\ eintr[s]
    /\ Goto(s, "exited")
    /\ UNCHANGED <<running, queueVars, subVars>>

(* EIDRM returns 0 and anything else -1: main ends either way.             *)
SubUnsubscribeFails(s) ==
    /\ pc[s] = "unsubscribe"
    /\ eintr[s] \/ queue = "removed"
    /\ Goto(s, "exited")
    /\ UNCHANGED <<running, queueVars, subVars>>

SubNext(s) ==
    \/ SubStart(s)
    \/ SubSubscribe(s) \/ SubSubscribeCrash(s)
    \/ SubSubscribeDone(s) \/ SubSubscribeFails(s)
    \/ SubLoop(s)
    \/ SubReceive(s) \/ SubReceiveInterrupted(s) \/ SubReceiveRemoved(s)
    \/ SubUnsubscribe(s) \/ SubUnsubscribeDone(s) \/ SubUnsubscribeFails(s)
=============================================================================
