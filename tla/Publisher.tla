------------------------------ MODULE Publisher ------------------------------
(***************************************************************************)
(* The publisher processes, 02/src/main_pub.c and publisher.c.             *)
(*                                                                         *)
(*   off -> top <-> send                                                   *)
(*           `-> exited                                                    *)
(*                                                                         *)
(* msgsnd is called with IPC_NOWAIT: a message that does not fit is        *)
(* dropped, and its failure is only logged.                                *)
(***************************************************************************)
EXTENDS MsgBus

CONSTANT MaxPub   \* bound of the model: messages one publisher generates

VARIABLE published   \* published[p][n]: the topic of p's n-th message

pubVars == <<published>>

PublisherTypeOK ==
    /\ \A p \in Pubs : pc[p] \in {"off", "top", "send", "exited"}
    /\ published \in [Pubs -> Seq(Topics)]

PublisherInit == published = [p \in Pubs |-> <<>>]
-----------------------------------------------------------------------------
Publish(p, t) == [cmd |-> "send", from |-> p, topic |-> t,
                  n |-> Len(published[p]) + 1]

(* msgget without IPC_CREAT; a SIGINT before the handler is installed kills. *)
PubStart(p) ==
    /\ pc[p] = "off"
    /\ \/ queue = "live" /\ Goto(p, "top")
       \/ Goto(p, "exited")
    /\ UNCHANGED <<running, queueVars, pubVars>>

(* while (running), then sleep(1..5): a publisher that has reached the     *)
(* bound sleeps until it is signalled.                                     *)
PubLoop(p) ==
    /\ pc[p] = "top"
    /\ \/ running[p] /\ Len(published[p]) < MaxPub /\ Goto(p, "send")
       \/ ~running[p] /\ Goto(p, "exited")
    /\ UNCHANGED <<running, queueVars, pubVars>>

PubSend(p) ==
    /\ pc[p] = "send"
    /\ \E t \in Topics :
          /\ published' = [published EXCEPT ![p] = Append(@, t)]
          /\ IF HasRoom THEN MsgSnd(Brk, Publish(p, t)) ELSE UNCHANGED queueVars
    /\ Goto(p, "top")
    /\ UNCHANGED running

PubNext(p) == PubStart(p) \/ PubLoop(p) \/ PubSend(p)
=============================================================================
