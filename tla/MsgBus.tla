------------------------------- MODULE MsgBus -------------------------------
(***************************************************************************)
(* The operating-system side of the broker in 02/: the processes, the      *)
(* SIGINT handler that every one of them installs, and the one System V    *)
(* message queue they share.                                               *)
(*                                                                         *)
(* msgrcv always asks for one type (1 for the broker, its own pid for a    *)
(* subscriber), so only the order among messages of one type can be seen:  *)
(* the queue is one FIFO per destination.  The byte limit of the kernel    *)
(* (msgmnb) counts all of them together.  Every message is sent with the   *)
(* full text buffer of 8192 bytes, so the limit is a number of messages.   *)
(***************************************************************************)
EXTENDS Naturals, Sequences, FiniteSets, FiniteSetsExt

CONSTANTS Brk,       \* the broker process; also the queue's type 1
          Subs,      \* subscriber processes; also the types that are pids
          Pubs,      \* publisher processes
          Topics,    \* lines of data/topics.txt
          QueueCap,  \* messages the kernel lets the queue hold
          Impatient, \* bound of the model: processes whose user may press Ctrl+C
          NoMsg      \* a receive buffer nothing has been received into

Clients == Subs \cup Pubs
Proc    == Clients \cup {Brk}
Dests   == Subs \cup {Brk}

(* "<command>,<pid>,<topic>\n<text>".  A publisher's messages are numbered; *)
(* n stands for the text, which the two requests do not need.              *)
Publication == [cmd : {"send"}, from : Pubs, topic : Topics, n : Nat \ {0}]
Request     == [cmd : {"subscribe", "unsubscribe"}, from : Subs, topic : Topics]
Message     == Publication \cup Request

ASSUME ProcAssumption ==
    /\ Subs \cap Pubs = {}
    /\ Brk \notin Clients
    /\ IsFiniteSet(Subs)
ASSUME QueueCapAssumption == QueueCap \in Nat \ {0}
ASSUME NoMsgAssumption == NoMsg \notin Message

VARIABLES pc,       \* where each process is in its main loop
          running,  \* the global each handler clears
          eintr,    \* a signal has interrupted the system call p is in
          queue,    \* "absent", "live" or "removed"
          q         \* q[d]: the queued messages of type d, oldest first

Place == {"off", "init", "top", "msgrcv", "handle", "fanout", "msgsnd", "kill",
          "wait", "rmid", "subscribe", "unsubscribe", "send", "exited"}

procVars  == <<pc, running, eintr>>
queueVars == <<queue, q>>

MsgBusTypeOK ==
    /\ pc \in [Proc -> Place]
    /\ running \in [Proc -> BOOLEAN]
    /\ eintr \in [Proc -> BOOLEAN]
    /\ queue \in {"absent", "live", "removed"}
    /\ q \in [Dests -> Seq(Message)]
    /\ \A s \in Subs : q[s] \in Seq(Publication)

MsgBusInit ==
    /\ pc = [p \in Proc |-> "off"]
    /\ running = [p \in Proc |-> TRUE]
    /\ eintr = [p \in Proc |-> FALSE]
    /\ queue = "absent"
    /\ q = [d \in Dests |-> <<>>]
-----------------------------------------------------------------------------
(* Processes and signals.                                                  *)

Exited(p) == pc[p] = "exited"
Alive(p)  == pc[p] \notin {"off", "exited"}

(* The places where p is in, or about to enter, msgrcv or a blocking msgsnd. *)
InCall(p) == pc[p] \in {"msgrcv", "msgsnd", "subscribe", "unsubscribe"}

(* p moves to the place l; an interruption not acted upon is forgotten.    *)
Goto(p, l) ==
    /\ pc' = [pc EXCEPT ![p] = l]
    /\ eintr' = [eintr EXCEPT ![p] = FALSE]

(* SIGINT reaches p.  The handler only clears running.  msgrcv and msgsnd  *)
(* are never restarted, so a call in progress fails with EINTR; a signal   *)
(* that lands before the call starts leaves it to block all the same.      *)
Handle(p) ==
    /\ running' = [running EXCEPT ![p] = FALSE]
    /\ \E hit \in {FALSE, InCall(p)} :
          eintr' = [eintr EXCEPT ![p] = @ \/ hit]
    /\ UNCHANGED pc

(* kill(p, SIGINT): with no process left it fails and changes nothing.     *)
Signal(p) == IF Alive(p) THEN Handle(p) ELSE UNCHANGED procVars

(* Ctrl+C in the terminal of p.  Between msgget and signal() the default   *)
(* disposition is still in force and the process dies.  Repeating the key  *)
(* matters only while p sits in a call it has not been thrown out of.      *)
Interrupt(p) ==
    /\ p \in Impatient
    /\ \/ pc[p] = "init" /\ Goto(p, "exited") /\ UNCHANGED running
       \/ /\ Alive(p) /\ pc[p] # "init"
          /\ running[p] \/ (InCall(p) /\ ~eintr[p])
          /\ Handle(p)
    /\ UNCHANGED queueVars
-----------------------------------------------------------------------------
(* The queue.                                                              *)

Queued  == MapThenSumSet(LAMBDA d : Len(q[d]), Dests)
HasRoom == queue = "live" /\ Queued < QueueCap

(* msgsnd of m with type d: enabled when it does not block.                *)
MsgSnd(d, m) ==
    /\ HasRoom
    /\ q' = [q EXCEPT ![d] = Append(@, m)]
    /\ UNCHANGED queue

(* msgrcv for type d: the oldest such message leaves the queue.            *)
MsgRcv(d) ==
    /\ q[d] # <<>>
    /\ q' = [q EXCEPT ![d] = Tail(@)]
    /\ UNCHANGED queue
=============================================================================
