------------------------------- MODULE PubSub -------------------------------
(***************************************************************************)
(* The message broker of 02/ at work: one broker, its subscribers and its  *)
(* publishers, and users who start programs and press Ctrl+C.              *)
(***************************************************************************)
EXTENDS Broker, Subscriber, Publisher

vars == <<procVars, queueVars, brokerVars, subVars, pubVars>>

TypeOK ==
    /\ MsgBusTypeOK
    /\ BrokerTypeOK
    /\ SubscriberTypeOK
    /\ PublisherTypeOK

Init == MsgBusInit /\ BrokerInit /\ SubscriberInit /\ PublisherInit

BrokerStep == BrokerNext /\ UNCHANGED <<subVars, pubVars>>
SubStep(s) == SubNext(s) /\ UNCHANGED <<brokerVars, pubVars>>
PubStep(p) == PubNext(p) /\ UNCHANGED <<brokerVars, subVars>>
UserStep(p) == Interrupt(p) /\ UNCHANGED <<brokerVars, subVars, pubVars>>

(* Nothing is left to do once every program has ended.                     *)
Finished == (\A p \in Proc : Exited(p)) /\ UNCHANGED vars

Next ==
    \/ BrokerStep
    \/ \E s \in Subs : SubStep(s)
    \/ \E p \in Pubs : PubStep(p)
    \/ \E p \in Proc : UserStep(p)
    \/ Finished

Spec == Init /\ [][Next]_vars

(* A started program keeps running whenever it can; nobody has to start    *)
(* one, and nobody has to press a key.                                     *)
Fairness ==
    /\ WF_vars(pc[Brk] # "off" /\ BrokerStep)
    /\ \A s \in Subs : WF_vars(pc[s] # "off" /\ SubStep(s))
    /\ \A p \in Pubs : WF_vars(pc[p] # "off" /\ PubStep(p))

FairSpec == Spec /\ Fairness
-----------------------------------------------------------------------------
(* Safety.                                                                 *)

(* No process is in a registry list twice, however its requests arrive: a  *)
(* second entry would double every delivery and every SIGINT.              *)
RegistryDistinct ==
    \A list \in {subList, pubList} :
        \A i, j \in 1..Len(list) : list[i] = list[j] => i = j

(* The messages the broker has yet to receive, and yet to handle.          *)
Waiting   == {q[Brk][k] : k \in 1..Len(q[Brk])}
InTransit == Waiting \cup (IF pc[Brk] = "handle" THEN {buf} ELSE {})

(* The topics of s's requests of kind c that are not handled yet.          *)
Pending(s, c) == {m.topic : m \in {w \in InTransit : w.cmd = c /\ w.from = s}}

(* While the queue exists, the registry and a subscriber that has got past *)
(* its requests agree on its topics, up to the requests still on their     *)
(* way: none is lost, applied to another entry, or made up.                *)
RegistryAgrees ==
    queue = "live" =>
        \A s \in Subs : pc[s] \in {"subscribe", "top", "msgrcv", "unsubscribe"} =>
            topicsOf[s] \cup Pending(s, "subscribe") = own[s]

(* What s has been sent: what it has reported and what waits for it.       *)
Sent(s)  == got[s] \o q[s]
Given(s) == {Sent(s)[i] : i \in 1..Len(Sent(s))}

(* m is an earlier or the same publication of the same publisher as e.     *)
NotAfter(m, e)  == m.from = e.from => m.n <= e.n
Before(m, e)    == m.from = e.from => m.n < e.n

(* A publisher's messages stay in order along the whole way, from the      *)
(* queue through the broker's buffer to each subscriber.  As long as the   *)
(* broker has had no SIGINT none is sent twice to one subscriber: the walk *)
(* over the list has not yet served the subscribers from cursor on.        *)
SendsOf(list) == {i \in 1..Len(list) : list[i].cmd = "send"}

ShutdownFacts ==
    /\ eintr[Brk] => ~running[Brk]
    /\ pc[Brk] \in {"kill", "wait", "rmid"} => ~running[Brk]
    /\ queue = "removed" => ~running[Brk] /\ \A s \in Subs : q[s] = <<>>

QueueOrder ==
    /\ \A k \in SendsOf(q[Brk]) : q[Brk][k].n <= Len(published[q[Brk][k].from])
    /\ \A k, l \in SendsOf(q[Brk]) : k < l => Before(q[Brk][k], q[Brk][l])

BufOrder ==
    buf # NoMsg /\ buf.cmd = "send" =>
        /\ buf.n <= Len(published[buf.from])
        /\ \A k \in SendsOf(q[Brk]) : Before(buf, q[Brk][k])
        /\ \A s \in Subs : \A i \in 1..Len(Sent(s)) : NotAfter(Sent(s)[i], buf)

SentOrder ==
    \A s \in Subs :
        /\ \A i \in 1..Len(Sent(s)), k \in SendsOf(q[Brk]) :
              Before(Sent(s)[i], q[Brk][k])
        /\ \A i \in 1..Len(Sent(s)) :
              Sent(s)[i].n <= Len(published[Sent(s)[i].from])
        /\ \A i, j \in 1..Len(Sent(s)) : i < j => NotAfter(Sent(s)[i], Sent(s)[j])

NotYetServed(s) ==
    \/ pc[Brk] = "handle"
    \/ /\ pc[Brk] \in {"fanout", "msgsnd"}
       /\ \E k \in cursor..Len(subList) : subList[k] = s

OnceInv ==
    running[Brk] =>
        \A s \in Subs :
            /\ NotYetServed(s) /\ buf.cmd = "send" =>
                  \A i \in 1..Len(Sent(s)) : Before(Sent(s)[i], buf)
            /\ \A i, j \in 1..Len(Sent(s)) : i < j => Before(Sent(s)[i], Sent(s)[j])

OrderInv == ShutdownFacts /\ QueueOrder /\ BufOrder /\ SentOrder /\ OnceInv

(* A publication handled to the end has been sent to every subscriber that *)
(* is in the registry with its topic: the walk over the list skips nobody. *)
FanoutComplete ==
    [][pc[Brk] = "fanout" /\ pc'[Brk] = "top" =>
          \A s \in Subs : buf.topic \in topicsOf[s] => buf \in Given(s)]_vars

Told(p) == Exited(p) \/ ~running[p]

(* When the queue is removed, every registered process has had SIGINT or   *)
(* is gone: nobody who could block in msgrcv on it is left running.        *)
RegisteredAreSignalled ==
    queue = "removed" => \A i \in 1..Len(Registered) : Told(Registered[i])

(* Its inductive strengthening: whoever is in the registry has been        *)
(* started, so that kill finds it running or gone, and the walk of         *)
(* send_sigint_to_all has told all it has passed.                          *)
Started(p) == pc[p] # "off"

SendersStarted ==
    /\ \A i \in 1..Len(subList) : Started(subList[i])
    /\ \A i \in 1..Len(pubList) : Started(pubList[i])
    /\ \A k \in 1..Len(q[Brk]) : Started(q[Brk][k].from)
    /\ buf # NoMsg => Started(buf.from)

ToldUpTo(n) == \A i \in 1..Len(Registered) : i <= n => Told(Registered[i])

SignalInv ==
    /\ SendersStarted
    /\ queue = "removed" => pc[Brk] = "exited"
    /\ pc[Brk] = "kill" => ToldUpTo(cursor - 1)
    /\ pc[Brk] \in {"wait", "rmid"} \/ queue = "removed" => ToldUpTo(Len(Registered))

(* The invariant behind RegistryAgrees, FanoutComplete and the topic bus.   *)

(* The broker knows, and is being told, only topics that a live subscriber *)
(* has asked for; a request that has been handled is in the registry, so   *)
(* that an interrupted msgrcv handles it once more without effect.         *)
KnownTopics(s) == topicsOf[s] \cup Pending(s, "subscribe")

TopicsKnown ==
    /\ \A s \in Subs : pc[s] = "off" => own[s] = {}
    /\ \A s \in Subs : ~Exited(s) => KnownTopics(s) \subseteq own[s]
    /\ queue # "removed" =>
          \A s \in Subs : Alive(s) => own[s] \subseteq KnownTopics(s)
    /\ buf # NoMsg /\ buf.cmd = "subscribe" /\ pc[Brk] # "handle" =>
          buf.topic \in topicsOf[buf.from]

(* The walk over the list finds every subscriber with a topic, and has     *)
(* sent the message to all those it has passed.                            *)
WalkServes ==
    /\ \A s \in Subs : topicsOf[s] # {} => InList(subList, s)
    /\ pc[Brk] = "msgsnd" => buf.topic \in topicsOf[subList[cursor]]
    /\ pc[Brk] \in {"fanout", "msgsnd"} =>
          \A k \in 1..Len(subList) :
             k < cursor /\ buf.topic \in topicsOf[subList[k]] => buf \in Given(subList[k])

(* A message says what its publisher said, wherever it is on its way, and  *)
(* it reaches only those who asked for its topic.                          *)
Genuine(m) == m.n <= Len(published[m.from]) /\ m.topic = published[m.from][m.n]

MessagesGenuine ==
    /\ \A m \in Waiting \cup ({buf} \ {NoMsg}) : m.cmd = "send" => Genuine(m)
    /\ \A s \in Subs : \A m \in Given(s) :
          Genuine(m) /\ (~Exited(s) => m.topic \in own[s])

BusInv == TopicsKnown /\ WalkServes /\ MessagesGenuine

(* The users see a topic bus: this whole system implements TopicBus.  What *)
(* a subscriber is given was published, on a topic it asked for, and is in *)
(* its publisher's order; the bus may give the last one again, as the      *)
(* handling of rcv_mes after a failed msgrcv does (broker.c:116, and       *)
(* main_sub.c:62).                                                         *)
TB == INSTANCE TopicBus WITH Subscribers <- Subs, Publishers <- Pubs,
                             Topic <- Topics,
                             asked <- own, spoken <- published, inbox <- got
ImplementsTopicBus == TB!BusSpec
-----------------------------------------------------------------------------
(* Liveness.                                                               *)

(* A broker that has left its loop ends, though subscribers may be blocked *)
(* sending to the very queue it no longer reads: the timeout breaks that.  *)
ShutdownCompletes == pc[Brk] = "kill" ~> pc[Brk] = "exited"

(* And then so does every process that was in its registry.                *)
RegisteredClientsExit ==
    \A p \in Clients :
        (queue = "removed" /\ InList(Registered, p)) ~> Exited(p)
-----------------------------------------------------------------------------
(* What the source says of itself and the program does not do.             *)

(* types.h: "SIGINT to all users".                                         *)
AllUsersAreSignalled ==
    queue = "removed" => \A p \in Clients : Alive(p) => ~running[p]

(* broker.c: an interrupted msgrcv is logged and returns, so that it never *)
(* makes the broker deliver anything a second time.                        *)
DeliveredOnce ==
    \A s \in Subs : queue = "live" =>
        \A i, j \in 1..Len(Sent(s)) : Sent(s)[i] = Sent(s)[j] => i = j
=============================================================================
