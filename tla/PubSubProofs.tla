---------------------------- MODULE PubSubProofs ----------------------------
(***************************************************************************)
(* Proofs about the message broker of 02/: types and the registry, the     *)
(* order in which publications are delivered, who is signalled when the    *)
(* broker stops, what it knows and who is served, and the refinement of    *)
(* the topic bus.                                                          *)
(***************************************************************************)
EXTENDS PubSub, TLAPS

USE DEF Clients, Proc, Dests

LEMMA MessageKinds ==
    /\ \A m \in Message : m.cmd = "send" => m \in Publication
    /\ \A m \in Message : m.cmd # "send" => m \in Request
    /\ Publication \subseteq Message
    /\ Request \subseteq Message
  BY DEF Message, Publication, Request

LEMMA InitTypeOK == Init => TypeOK
  BY ProcAssumption, WaitLimitAssumption
     DEF Init, MsgBusInit, BrokerInit, SubscriberInit, PublisherInit, TypeOK,
         MsgBusTypeOK, BrokerTypeOK, SubscriberTypeOK, PublisherTypeOK, Place

LEMMA BrokerTypeStep == TypeOK /\ BrokerStep => TypeOK'
<1> SUFFICES ASSUME TypeOK, BrokerStep PROVE TypeOK'
  OBVIOUS
<1> USE ProcAssumption, WaitLimitAssumption, MessageKinds
    DEF TypeOK, MsgBusTypeOK, BrokerTypeOK, SubscriberTypeOK, PublisherTypeOK,
        Goto, Place, procVars, queueVars, brokerVars, subVars, pubVars
<1>u. UNCHANGED <<subVars, pubVars>>
  BY DEF BrokerStep
<1>1. CASE BrokerStart
  BY <1>u, <1>1 DEF BrokerStart
<1>2. CASE BrokerReady
  BY <1>u, <1>2 DEF BrokerReady
<1>3. CASE BrokerLoop
  <2>1. \/ Goto(Brk, "msgrcv") /\ UNCHANGED cursor
        \/ Goto(Brk, "kill") /\ cursor' = 1
    BY <1>3 DEF BrokerLoop
  <2>2. MsgBusTypeOK'
    BY <2>1, <1>3 DEF BrokerLoop
  <2>3. BrokerTypeOK'
    BY <2>1, <1>3 DEF BrokerLoop
  <2> QED
    BY <1>u, <1>3, <2>1, <2>2, <2>3 DEF BrokerLoop
<1>4. CASE BrokerReceive
  <2> USE <1>4 DEF BrokerReceive, MsgRcv
  <2>1. /\ q[Brk] \in Seq(Message) /\ q[Brk] # <<>>
        /\ buf' = Head(q[Brk])
        /\ q' = [q EXCEPT ![Brk] = Tail(@)]
    OBVIOUS
  <2>2. buf' \in Message
    BY <2>1
  <2>3. buf' # NoMsg
    BY <2>2, NoMsgAssumption
  <2>4. MsgBusTypeOK'
    BY <2>1
  <2>5. BrokerTypeOK'
    BY <2>2, <2>3
  <2> QED
    BY <1>u, <2>4, <2>5
<1>5. CASE BrokerReceiveInterrupted
  BY <1>u, <1>5 DEF BrokerReceiveInterrupted
<1>6. CASE HandleSend
  <2> USE <1>6 DEF HandleSend
  <2>1. buf \in Publication
    OBVIOUS
  <2>2. pubList' \in Seq(Pubs)
    BY <2>1 DEF Register, Publication
  <2>3. BrokerTypeOK'
    BY <2>2
  <2> QED
    BY <1>u, <2>3
<1>7. CASE HandleSubscribe
  <2> USE <1>7 DEF HandleSubscribe
  <2>1. buf \in Request
    OBVIOUS
  <2>2. /\ subList' \in Seq(Subs)
        /\ topicsOf' \in [Subs -> SUBSET Topics]
    BY <2>1 DEF Register, Request
  <2>3. BrokerTypeOK'
    BY <2>2
  <2> QED
    BY <1>u, <2>3
<1>8. CASE HandleUnsubscribe
  BY <1>u, <1>8 DEF HandleUnsubscribe
<1>9. CASE FanoutNext
  <2>1. CASE buf.topic \in topicsOf[subList[cursor]]
    <3>1. /\ pc[Brk] = "fanout" /\ cursor <= Len(subList)
          /\ Goto(Brk, "msgsnd") /\ UNCHANGED <<running, queueVars, brokerVars>>
      BY <1>9, <2>1 DEF FanoutNext
    <3> QED
      BY <1>u, <3>1
  <2>2. CASE buf.topic \notin topicsOf[subList[cursor]]
    <3>1. BrokerTypeOK' /\ UNCHANGED <<procVars, queueVars>>
      BY <1>9, <2>2, SMTT(30) DEF FanoutNext
    <3> QED
      BY <1>u, <3>1
  <2> QED
    BY <2>1, <2>2
<1>10. CASE FanoutSend
  BY <1>u, <1>10 DEF FanoutSend, MsgSnd
<1>11. CASE FanoutInterrupted
  BY <1>u, <1>11 DEF FanoutInterrupted
<1>12. CASE FanoutDone
  BY <1>u, <1>12 DEF FanoutDone
<1>13. CASE KillNext
  <2> USE <1>13 DEF KillNext, Signal
  <2>1. Registered[cursor] \in Proc
    BY DEF Registered
  <2>2. MsgBusTypeOK' /\ UNCHANGED pc
    BY <2>1 DEF Handle, InCall
  <2>3. BrokerTypeOK'
    BY <2>2
  <2> QED
    BY <1>u, <2>2, <2>3
<1>14. CASE KillDone
  BY <1>u, <1>14 DEF KillDone
<1>15. CASE WaitSecond
  BY <1>u, <1>15 DEF WaitSecond
<1>16. CASE WaitTimeout
  BY <1>u, <1>16 DEF WaitTimeout
<1>17. CASE RemoveQueue
  <2>1. q' = [d \in Subs \cup {Brk} |-> <<>>]
    BY <1>17 DEF RemoveQueue
  <2>2. /\ q' \in [Subs \cup {Brk} -> Seq(Message)]
        /\ \A s \in Subs : q'[s] \in Seq(Publication)
    BY <2>1
  <2> QED
    BY <1>u, <1>17, <2>2 DEF RemoveQueue
<1> QED
  BY <1>1, <1>2, <1>3, <1>4, <1>5, <1>6, <1>7, <1>8, <1>9, <1>10, <1>11, <1>12,
     <1>13, <1>14, <1>15, <1>16, <1>17 DEF BrokerStep, BrokerNext

LEMMA SubTypeStep ==
  ASSUME TypeOK, NEW s \in Subs, SubStep(s)
  PROVE  TypeOK'
<1> USE ProcAssumption, MessageKinds
    DEF TypeOK, MsgBusTypeOK, BrokerTypeOK, SubscriberTypeOK, PublisherTypeOK,
        Goto, Place, procVars, queueVars, brokerVars, subVars, pubVars
<1>u. UNCHANGED <<brokerVars, pubVars>>
  BY DEF SubStep
<1>r. \A t \in Topics, c \in {"subscribe", "unsubscribe"} : Ask(s, c, t) \in Message
  BY DEF Ask, Message, Request
<1>1. CASE SubStart(s)
  BY <1>u, <1>1 DEF SubStart
<1>2. CASE SubSubscribe(s)
  BY <1>u, <1>r, <1>2 DEF SubSubscribe, MsgSnd
<1>3. CASE SubSubscribeCrash(s)
  BY <1>u, <1>r, <1>3 DEF SubSubscribeCrash, MsgSnd
<1>4. CASE SubSubscribeDone(s)
  BY <1>u, <1>4 DEF SubSubscribeDone
<1>5. CASE SubSubscribeFails(s)
  BY <1>u, <1>5 DEF SubSubscribeFails
<1>6. CASE SubLoop(s)
  <2>1. \/ Goto(s, "msgrcv") /\ UNCHANGED unsent
        \/ Goto(s, "unsubscribe") /\ unsent' = [unsent EXCEPT ![s] = own[s]]
    BY <1>6 DEF SubLoop
  <2>2. CASE Goto(s, "msgrcv") /\ UNCHANGED unsent
    BY <1>u, <1>6, <2>2 DEF SubLoop
  <2>3. CASE Goto(s, "unsubscribe") /\ unsent' = [unsent EXCEPT ![s] = own[s]]
    BY <1>u, <1>6, <2>3 DEF SubLoop
  <2> QED
    BY <2>1, <2>2, <2>3
<1>7. CASE SubReceive(s)
  BY <1>u, <1>7 DEF SubReceive, MsgRcv
<1>8. CASE SubReceiveInterrupted(s)
  BY <1>u, <1>8 DEF SubReceiveInterrupted
<1>9. CASE SubReceiveRemoved(s)
  <2>1. got' \in [Subs -> Seq(Publication)]
    <3>1. CASE UNCHANGED got
      BY <3>1
    <3>2. CASE /\ got[s] # <<>>
               /\ got' = [got EXCEPT ![s] = Append(@, got[s][Len(got[s])])]
      <4>1. got[s] \in Seq(Publication) /\ Len(got[s]) \in 1..Len(got[s])
        BY <3>2
      <4>2. got[s][Len(got[s])] \in Publication
        BY <4>1
      <4> QED
        BY <3>2, <4>1, <4>2
    <3> QED
      BY <1>9, <3>1, <3>2 DEF SubReceiveRemoved
  <2> QED
    BY <1>u, <1>9, <2>1 DEF SubReceiveRemoved
<1>10. CASE SubUnsubscribe(s)
  BY <1>u, <1>r, <1>10 DEF SubUnsubscribe, MsgSnd
<1>11. CASE SubUnsubscribeDone(s)
  BY <1>u, <1>11 DEF SubUnsubscribeDone
<1>12. CASE SubUnsubscribeFails(s)
  BY <1>u, <1>12 DEF SubUnsubscribeFails
<1> QED
  BY <1>1, <1>2, <1>3, <1>4, <1>5, <1>6, <1>7, <1>8, <1>9, <1>10, <1>11, <1>12
     DEF SubStep, SubNext

LEMMA PubTypeStep ==
  ASSUME TypeOK, NEW p \in Pubs, PubStep(p)
  PROVE  TypeOK'
<1> USE ProcAssumption, MessageKinds
    DEF TypeOK, MsgBusTypeOK, BrokerTypeOK, SubscriberTypeOK, PublisherTypeOK,
        Goto, Place, procVars, queueVars, brokerVars, subVars, pubVars
<1>u. UNCHANGED <<brokerVars, subVars>>
  BY DEF PubStep
<1>1. CASE PubStart(p)
  BY <1>u, <1>1, ZenonT(60) DEF PubStart
<1>2. CASE PubLoop(p)
  BY <1>u, <1>2 DEF PubLoop
<1>3. CASE PubSend(p)
  <2>1. PICK t \in Topics :
          /\ published' = [published EXCEPT ![p] = Append(@, t)]
          /\ IF HasRoom THEN MsgSnd(Brk, Publish(p, t)) ELSE UNCHANGED queueVars
    BY <1>3 DEF PubSend
  <2>2. Publish(p, t) \in Message
    BY DEF Publish, Message, Publication
  <2>3. \/ q' = [q EXCEPT ![Brk] = Append(@, Publish(p, t))]
        \/ UNCHANGED q
    BY <2>1 DEF MsgSnd
  <2>4. UNCHANGED queue
    BY <2>1 DEF MsgSnd
  <2>5. q' \in [Dests -> Seq(Message)] /\ \A r \in Subs : q'[r] = q[r]
    <3>1. q[Brk] \in Seq(Message) /\ Append(q[Brk], Publish(p, t)) \in Seq(Message)
      BY <2>2
    <3>2. CASE UNCHANGED q
      BY <3>2
    <3>3. CASE q' = [q EXCEPT ![Brk] = Append(@, Publish(p, t))]
      BY <3>1, <3>3
    <3> QED
      BY <2>3, <3>2, <3>3
  <2>6. MsgBusTypeOK'
    BY <1>3, <2>4, <2>5 DEF PubSend
  <2> QED
    BY <1>u, <1>3, <2>1, <2>6 DEF PubSend
<1> QED
  BY <1>1, <1>2, <1>3 DEF PubStep, PubNext

LEMMA UserTypeStep ==
  ASSUME TypeOK, NEW p \in Proc, UserStep(p)
  PROVE  TypeOK'
<1> USE ProcAssumption
    DEF TypeOK, MsgBusTypeOK, BrokerTypeOK, SubscriberTypeOK, PublisherTypeOK,
        Place, procVars, queueVars, brokerVars, subVars, pubVars, UserStep, Interrupt
<1>1. CASE Handle(p)
  BY <1>1 DEF Handle, InCall
<1>2. CASE pc[p] = "init" /\ Goto(p, "exited") /\ UNCHANGED running
  BY <1>2 DEF Goto
<1> QED
  BY <1>1, <1>2

(* The types are right in every reachable state.                           *)
THEOREM TypeCorrect == Spec => []TypeOK
<1>1. TypeOK /\ [Next]_vars => TypeOK'
  <2> SUFFICES ASSUME TypeOK, [Next]_vars PROVE TypeOK'
    OBVIOUS
  <2>1. CASE UNCHANGED vars
    BY <2>1 DEF vars, procVars, queueVars, brokerVars, subVars, pubVars, TypeOK,
         MsgBusTypeOK, BrokerTypeOK, SubscriberTypeOK, PublisherTypeOK
  <2> QED
    BY <2>1, BrokerTypeStep, SubTypeStep, PubTypeStep, UserTypeStep
       DEF Next, Finished
<1> QED
  BY <1>1, InitTypeOK, PTL DEF Spec
-----------------------------------------------------------------------------
(* Order of delivery.                                                      *)

LEMMA AppendAfter ==
  ASSUME NEW S, NEW a \in Seq(S), NEW b \in Seq(S), NEW e \in S
  PROVE  a \o Append(b, e) = Append(a \o b, e)
  OBVIOUS

LEMMA PrefixOfConcat ==
  ASSUME NEW S, NEW a \in Seq(S), NEW b \in Seq(S)
  PROVE  \A i \in 1..Len(a) : i \in 1..Len(a \o b) /\ (a \o b)[i] = a[i]
  OBVIOUS

LEMMA SentType == TypeOK => \A s \in Subs : Sent(s) \in Seq(Publication)
  BY DEF TypeOK, MsgBusTypeOK, SubscriberTypeOK, Sent

(* No signal, and nothing after the end of the main loop, finds the broker *)
(* still running.                                                          *)
LEMMA ShutdownStep ==
  ASSUME TypeOK, ShutdownFacts, [Next]_vars
  PROVE  ShutdownFacts'
<1> USE ProcAssumption
    DEF TypeOK, MsgBusTypeOK, BrokerTypeOK, SubscriberTypeOK, PublisherTypeOK, ShutdownFacts,
        Goto, procVars, queueVars, brokerVars, subVars, pubVars
<1>1. ASSUME BrokerStep PROVE ShutdownFacts'
  <2> USE DEF BrokerStep, BrokerNext
  <2>1. CASE BrokerStart \/ BrokerReady \/ BrokerLoop
    BY <2>1 DEF BrokerStart, BrokerReady, BrokerLoop
  <2>2. CASE BrokerReceive \/ BrokerReceiveInterrupted
    BY <2>2 DEF BrokerReceive, BrokerReceiveInterrupted, MsgRcv
  <2>3. CASE HandleSend \/ HandleSubscribe \/ HandleUnsubscribe
    BY <2>3 DEF HandleSend, HandleSubscribe, HandleUnsubscribe
  <2>4. CASE FanoutNext \/ FanoutSend \/ FanoutInterrupted \/ FanoutDone
    BY <2>4 DEF FanoutNext, FanoutSend, FanoutInterrupted, FanoutDone, MsgSnd, HasRoom
  <2>5. CASE KillNext
    BY <2>5 DEF KillNext, Signal, Handle, InCall, Alive
  <2>6. CASE KillDone \/ WaitSecond \/ WaitTimeout
    BY <2>6 DEF KillDone, WaitSecond, WaitTimeout
  <2>7. CASE RemoveQueue
    BY <2>7 DEF RemoveQueue
  <2> QED
    BY <1>1, <2>1, <2>2, <2>3, <2>4, <2>5, <2>6, <2>7
<1>2. ASSUME NEW s \in Subs, SubStep(s) PROVE ShutdownFacts'
  <2> USE <1>2 DEF SubStep, SubNext
  <2>1. s # Brk /\ UNCHANGED running /\ UNCHANGED queue
        /\ pc'[Brk] = pc[Brk] /\ eintr'[Brk] = eintr[Brk]
    BY DEF SubStart, SubSubscribe, SubSubscribeCrash, SubSubscribeDone,
         SubSubscribeFails, SubLoop, SubReceive, SubReceiveInterrupted,
         SubReceiveRemoved, SubUnsubscribe, SubUnsubscribeDone,
         SubUnsubscribeFails, MsgSnd, MsgRcv
  <2>2. queue = "removed" => UNCHANGED q
    BY DEF SubStart, SubSubscribe, SubSubscribeCrash, SubSubscribeDone,
         SubSubscribeFails, SubLoop, SubReceive, SubReceiveInterrupted,
         SubReceiveRemoved, SubUnsubscribe, SubUnsubscribeDone,
         SubUnsubscribeFails, MsgSnd, MsgRcv, HasRoom
  <2> QED
    BY <2>1, <2>2
<1>3. ASSUME NEW p \in Pubs, PubStep(p) PROVE ShutdownFacts'
  BY <1>3 DEF PubStep, PubNext, PubStart, PubLoop, PubSend, MsgSnd, HasRoom
<1>4. ASSUME NEW p \in Proc, UserStep(p) PROVE ShutdownFacts'
  BY <1>4 DEF UserStep, Interrupt, Handle, InCall
<1>5. CASE UNCHANGED vars
  BY <1>5 DEF vars
<1> QED
  BY <1>1, <1>2, <1>3, <1>4, <1>5 DEF Next, Finished

(* A step that moves no message and marks no further subscriber as still   *)
(* to be served keeps the order.                                           *)
LEMMA QuietStep ==
  ASSUME TypeOK, OrderInv, ShutdownFacts',
         \A s \in Subs : Sent(s)' = Sent(s),
         q'[Brk] = q[Brk], UNCHANGED <<published, buf>>,
         running'[Brk] => running[Brk],
         running'[Brk] => \A s \in Subs : NotYetServed(s)' => NotYetServed(s)
  PROVE  OrderInv'
<1>1. QueueOrder' /\ BufOrder'
  BY DEF OrderInv, QueueOrder, BufOrder, SendsOf, Before, NotAfter
<1>2. SentOrder'
  BY DEF OrderInv, SentOrder, SendsOf, Before, NotAfter
<1>3. OnceInv'
  BY DEF OrderInv, OnceInv, Before
<1> QED
  BY <1>1, <1>2, <1>3 DEF OrderInv

(* What a longer queue for the broker must satisfy: its new message comes  *)
(* after everything the publisher sent before it.                          *)
LEMMA EnqueueStep ==
  ASSUME TypeOK, OrderInv, ShutdownFacts',
         NEW m \in Message,
         q' = [q EXCEPT ![Brk] = Append(@, m)],
         UNCHANGED <<got, buf, running, subList, cursor>>, pc'[Brk] = pc[Brk],
         published' \in [Pubs -> Seq(Topics)],
         \A p \in Pubs : Len(published[p]) <= Len(published'[p]),
         m.cmd = "send" => /\ m.n > Len(published[m.from])
                           /\ m.n <= Len(published'[m.from])
  PROVE  OrderInv'
<1> USE ProcAssumption
<1>q. q[Brk] \in Seq(Message) /\ q'[Brk] = Append(q[Brk], m)
  BY DEF TypeOK, MsgBusTypeOK
<1>p. \A p \in Pubs : Len(published[p]) \in Nat /\ Len(published'[p]) \in Nat
  BY DEF TypeOK, PublisherTypeOK
<1>s. \A s \in Subs : Sent(s)' = Sent(s) /\ Sent(s) \in Seq(Publication)
  BY SentType DEF Sent, TypeOK, MsgBusTypeOK
<1>k. \A k \in SendsOf(q'[Brk]) :
         \/ k \in SendsOf(q[Brk]) /\ q'[Brk][k] = q[Brk][k] /\ k <= Len(q[Brk])
         \/ k = Len(q[Brk]) + 1 /\ q'[Brk][k] = m /\ m.cmd = "send"
  BY <1>q DEF SendsOf
<1>n. \A e \in Publication : e.from \in Pubs /\ e.n \in Nat
  BY DEF Publication
<1>b. \A e \in Publication :
         e.n <= Len(published[e.from]) /\ m.cmd = "send" => Before(e, m)
  BY <1>p, <1>n, MessageKinds DEF Before
<1>e. /\ \A k \in SendsOf(q[Brk]) : q[Brk][k] \in Publication
      /\ buf # NoMsg /\ buf.cmd = "send" => buf \in Publication
      /\ \A s \in Subs : \A i \in 1..Len(Sent(s)) : Sent(s)[i] \in Publication
  BY <1>q, <1>s, MessageKinds DEF SendsOf, TypeOK, BrokerTypeOK
<1>1. QueueOrder'
  <2>1. \A k \in SendsOf(q[Brk]) : q[Brk][k].n <= Len(published'[q[Brk][k].from])
    BY <1>p, <1>e, <1>n DEF OrderInv, QueueOrder
  <2>2. \A k \in SendsOf(q'[Brk]) : q'[Brk][k].n <= Len(published'[q'[Brk][k].from])
    BY <1>k, <2>1
  <2>3. \A k, l \in SendsOf(q'[Brk]) : k < l => Before(q'[Brk][k], q'[Brk][l])
    <3> TAKE k \in SendsOf(q'[Brk]), l \in SendsOf(q'[Brk])
    <3> HAVE k < l
    <3>1. k \in SendsOf(q[Brk]) /\ q'[Brk][k] = q[Brk][k]
      BY <1>q, <1>k DEF SendsOf
    <3>2. CASE l \in SendsOf(q[Brk]) /\ q'[Brk][l] = q[Brk][l]
      BY <3>1, <3>2 DEF OrderInv, QueueOrder
    <3>3. CASE q'[Brk][l] = m /\ m.cmd = "send"
      BY <1>b, <1>e, <3>1, <3>3 DEF OrderInv, QueueOrder
    <3> QED
      BY <1>k, <3>2, <3>3
  <2> QED
    BY <2>2, <2>3 DEF QueueOrder
<1>2. BufOrder'
  <2> SUFFICES ASSUME buf # NoMsg, buf.cmd = "send" PROVE BufOrder'
    BY DEF BufOrder
  <2>1. /\ buf \in Publication
        /\ buf.n <= Len(published[buf.from])
        /\ \A k \in SendsOf(q[Brk]) : Before(buf, q[Brk][k])
        /\ \A s \in Subs : \A i \in 1..Len(Sent(s)) : NotAfter(Sent(s)[i], buf)
    BY <1>e DEF OrderInv, BufOrder
  <2>2. buf.n <= Len(published'[buf.from])
    BY <1>p, <1>n, <2>1
  <2>3. \A k \in SendsOf(q'[Brk]) : Before(buf, q'[Brk][k])
    BY <1>k, <1>b, <2>1
  <2> QED
    BY <1>s, <2>1, <2>2, <2>3 DEF BufOrder, NotAfter
<1>3. SentOrder'
  <2> SUFFICES ASSUME NEW s \in Subs
               PROVE  /\ \A i \in 1..Len(Sent(s)), k \in SendsOf(q'[Brk]) :
                            Before(Sent(s)[i], q'[Brk][k])
                      /\ \A i \in 1..Len(Sent(s)) :
                            Sent(s)[i].n <= Len(published'[Sent(s)[i].from])
                      /\ \A i, j \in 1..Len(Sent(s)) :
                            i < j => NotAfter(Sent(s)[i], Sent(s)[j])
    BY <1>s DEF SentOrder, Before, NotAfter
  <2>1. \A i \in 1..Len(Sent(s)) : /\ Sent(s)[i] \in Publication
                                  /\ Sent(s)[i].n <= Len(published[Sent(s)[i].from])
    BY <1>e DEF OrderInv, SentOrder
  <2>2. \A i \in 1..Len(Sent(s)) : Sent(s)[i].n <= Len(published'[Sent(s)[i].from])
    BY <1>p, <1>n, <2>1
  <2>3. \A i \in 1..Len(Sent(s)), k \in SendsOf(q'[Brk]) : Before(Sent(s)[i], q'[Brk][k])
    BY <1>k, <1>b, <2>1 DEF OrderInv, SentOrder
  <2> QED
    BY <2>2, <2>3 DEF OrderInv, SentOrder
<1>4. OnceInv'
  <2>1. \A s \in Subs : NotYetServed(s)' = NotYetServed(s)
    BY DEF NotYetServed
  <2> QED
    BY <1>s, <2>1 DEF OrderInv, OnceInv, Before
<1> QED
  BY <1>1, <1>2, <1>3, <1>4 DEF OrderInv

(* The broker takes the oldest message addressed to it.                    *)
LEMMA ReceiveStep ==
  ASSUME TypeOK, OrderInv, ShutdownFacts', BrokerReceive,
         UNCHANGED <<subVars, pubVars>>
  PROVE  OrderInv'
<1> USE ProcAssumption DEF subVars, pubVars
<1>q. /\ q[Brk] \in Seq(Message) /\ q[Brk] # <<>>
      /\ buf' = q[Brk][1] /\ q'[Brk] = Tail(q[Brk])
      /\ UNCHANGED <<running, got, published>> /\ pc'[Brk] = "handle"
      /\ \A s \in Subs : q'[s] = q[s]
  BY DEF BrokerReceive, MsgRcv, Goto, TypeOK, MsgBusTypeOK
<1>s. \A s \in Subs : Sent(s)' = Sent(s)
  BY <1>q DEF Sent
<1>k. \A k \in SendsOf(q'[Brk]) :
         k + 1 \in SendsOf(q[Brk]) /\ q'[Brk][k] = q[Brk][k + 1] /\ k \in Nat /\ k > 0
  BY <1>q DEF SendsOf
<1>h. buf'.cmd = "send" => 1 \in SendsOf(q[Brk])
  BY <1>q DEF SendsOf
<1>1. QueueOrder'
  <2>1. \A k \in SendsOf(q'[Brk]) : q'[Brk][k].n <= Len(published[q'[Brk][k].from])
    BY <1>k DEF OrderInv, QueueOrder
  <2>2. \A k, l \in SendsOf(q'[Brk]) : k < l => Before(q'[Brk][k], q'[Brk][l])
    <3> TAKE k \in SendsOf(q'[Brk]), l \in SendsOf(q'[Brk])
    <3> HAVE k < l
    <3>1. k + 1 \in SendsOf(q[Brk]) /\ l + 1 \in SendsOf(q[Brk]) /\ k + 1 < l + 1
      BY <1>k
    <3> QED
      BY <1>k, <3>1 DEF OrderInv, QueueOrder
  <2> QED
    BY <1>q, <2>1, <2>2 DEF QueueOrder, Before
<1>2. BufOrder'
  <2> SUFFICES ASSUME buf'.cmd = "send" PROVE BufOrder'
    BY DEF BufOrder
  <2>1. \A k \in SendsOf(q'[Brk]) : Before(buf', q'[Brk][k])
    <3> TAKE k \in SendsOf(q'[Brk])
    <3>1. 1 \in SendsOf(q[Brk]) /\ k + 1 \in SendsOf(q[Brk]) /\ 1 < k + 1
      BY <1>k, <1>h
    <3> QED
      BY <1>q, <1>k, <3>1 DEF OrderInv, QueueOrder
  <2>2. \A s \in Subs : \A i \in 1..Len(Sent(s)) : Before(Sent(s)[i], buf')
    BY <1>q, <1>h DEF OrderInv, SentOrder
  <2>3. \A s \in Subs : \A i \in 1..Len(Sent(s)) : NotAfter(Sent(s)[i], buf')
    <3> TAKE s \in Subs
    <3> TAKE i \in 1..Len(Sent(s))
    <3>1. Sent(s)[i] \in Publication /\ buf' \in Publication
      BY SentType, <1>q, MessageKinds
    <3> QED
      BY <2>2, <3>1 DEF Before, NotAfter, Publication
  <2>4. buf'.n <= Len(published[buf'.from])
    BY <1>q, <1>h DEF OrderInv, QueueOrder
  <2> QED
    BY <1>q, <1>s, <2>1, <2>3, <2>4 DEF BufOrder, NotAfter, Before
<1>3. SentOrder'
  <2>1. \A s \in Subs : \A i \in 1..Len(Sent(s)), k \in SendsOf(q'[Brk]) :
           Before(Sent(s)[i], q'[Brk][k])
    BY <1>k DEF OrderInv, SentOrder
  <2> QED
    BY <1>q, <1>s, <2>1 DEF OrderInv, SentOrder, Before, NotAfter
<1>4. OnceInv'
  <2> SUFFICES ASSUME running[Brk], NEW s \in Subs
               PROVE  /\ buf'.cmd = "send" =>
                           \A i \in 1..Len(Sent(s)) : Before(Sent(s)[i], buf')
                      /\ \A i, j \in 1..Len(Sent(s)) :
                           i < j => Before(Sent(s)[i], Sent(s)[j])
    BY <1>q, <1>s DEF OnceInv, Before
  <2>1. buf'.cmd = "send" => \A i \in 1..Len(Sent(s)) : Before(Sent(s)[i], buf')
    BY <1>q, <1>h DEF OrderInv, SentOrder
  <2> QED
    BY <2>1 DEF OrderInv, OnceInv
<1> QED
  BY <1>1, <1>2, <1>3, <1>4 DEF OrderInv

(* The broker serves the subscriber at the cursor.                         *)
LEMMA SendStep ==
  ASSUME TypeOK, RegistryDistinct, OrderInv, ShutdownFacts', FanoutSend,
         UNCHANGED <<subVars, pubVars>>
  PROVE  OrderInv'
<1> USE ProcAssumption DEF subVars, pubVars
<1> PICK to \in Subs : to = subList[cursor]
  BY DEF FanoutSend, TypeOK, BrokerTypeOK
<1>t. /\ buf \in Publication /\ buf # NoMsg /\ buf.cmd = "send"
      /\ cursor \in 1..Len(subList) /\ subList \in Seq(Subs) /\ to = subList[cursor]
      /\ q \in [Subs \cup {Brk} -> Seq(Message)]
      /\ \A s \in Subs : q[s] \in Seq(Publication) /\ got[s] \in Seq(Publication)
  BY MessageKinds DEF FanoutSend, TypeOK, MsgBusTypeOK, BrokerTypeOK, SubscriberTypeOK
<1>q. /\ q' = [q EXCEPT ![to] = Append(@, buf)] /\ q'[Brk] = q[Brk]
      /\ UNCHANGED <<running, buf, subList, got, published>>
      /\ pc[Brk] = "msgsnd" /\ pc'[Brk] = "fanout" /\ cursor' = cursor + 1
  BY <1>t DEF FanoutSend, MsgSnd, Goto, TypeOK, MsgBusTypeOK
<1>s. /\ Sent(to)' = Append(Sent(to), buf)
      /\ \A s \in Subs \ {to} : Sent(s)' = Sent(s)
      /\ \A s \in Subs : Sent(s) \in Seq(Publication)
  <2>1. \A s \in Subs : Sent(s) \in Seq(Publication)
    BY SentType
  <2>2. \A s \in Subs \ {to} : Sent(s)' = Sent(s)
    BY <1>t, <1>q DEF Sent
  <2>3. q'[to] = Append(q[to], buf) /\ got'[to] = got[to]
    BY <1>t, <1>q
  <2>4. got[to] \o Append(q[to], buf) = Append(got[to] \o q[to], buf)
    <3>1. got[to] \in Seq(Publication) /\ q[to] \in Seq(Publication) /\ buf \in Publication
      BY <1>t
    <3> HIDE <1>t, <1>q, <2>1, <2>2, <2>3
    <3>2. \A a, b \in Seq(Publication), e \in Publication :
            a \o Append(b, e) = Append(a \o b, e)
      BY AppendAfter
    <3> QED
      BY <3>1, <3>2, Zenon
  <2> QED
    BY <2>1, <2>2, <2>3, <2>4 DEF Sent
<1>i. \A i \in 1..Len(Sent(to)') :
         \/ i \in 1..Len(Sent(to)) /\ Sent(to)'[i] = Sent(to)[i]
         \/ i = Len(Sent(to)) + 1 /\ Sent(to)'[i] = buf
  BY <1>s
<1>b. /\ \A k \in SendsOf(q[Brk]) : Before(buf, q[Brk][k])
      /\ buf.n <= Len(published[buf.from])
      /\ \A s \in Subs : \A i \in 1..Len(Sent(s)) : NotAfter(Sent(s)[i], buf)
      /\ NotAfter(buf, buf)
  BY <1>t DEF OrderInv, BufOrder, NotAfter, Publication
<1>1. QueueOrder'
  BY <1>q DEF OrderInv, QueueOrder, SendsOf, Before
<1>2. BufOrder'
  <2>1. \A s \in Subs : \A i \in 1..Len(Sent(s)') : NotAfter(Sent(s)'[i], buf)
    BY <1>s, <1>i, <1>b
  <2> QED
    BY <1>q, <1>b, <2>1 DEF BufOrder, NotAfter, Before
<1>3. SentOrder'
  <2> SUFFICES ASSUME NEW s \in Subs
               PROVE  /\ \A i \in 1..Len(Sent(s)'), k \in SendsOf(q[Brk]) :
                            Before(Sent(s)'[i], q[Brk][k])
                      /\ \A i \in 1..Len(Sent(s)') :
                            Sent(s)'[i].n <= Len(published[Sent(s)'[i].from])
                      /\ \A i, j \in 1..Len(Sent(s)') :
                            i < j => NotAfter(Sent(s)'[i], Sent(s)'[j])
    BY <1>q DEF SentOrder, Before, NotAfter
  <2>1. CASE s # to
    BY <1>s, <2>1 DEF OrderInv, SentOrder
  <2>2. CASE s = to
    <3>1. /\ \A i \in 1..Len(Sent(to)'), k \in SendsOf(q[Brk]) :
               Before(Sent(to)'[i], q[Brk][k])
          /\ \A i \in 1..Len(Sent(to)') :
               Sent(to)'[i].n <= Len(published[Sent(to)'[i].from])
      BY <1>t, <1>i, <1>b DEF OrderInv, SentOrder
    <3>2. \A i, j \in 1..Len(Sent(to)') : i < j => NotAfter(Sent(to)'[i], Sent(to)'[j])
      <4> TAKE i, j \in 1..Len(Sent(to)')
      <4> HAVE i < j
      <4>1. i \in 1..Len(Sent(to)) /\ Sent(to)'[i] = Sent(to)[i]
        BY <1>s, <1>i, <1>t
      <4> QED
        BY <1>t, <1>i, <1>b, <4>1 DEF OrderInv, SentOrder
    <3> QED
      BY <2>2, <3>1, <3>2
  <2> QED
    BY <2>1, <2>2
<1>4. OnceInv'
  <2> SUFFICES ASSUME running[Brk], NEW s \in Subs
               PROVE  /\ NotYetServed(s)' =>
                           \A i \in 1..Len(Sent(s)') : Before(Sent(s)'[i], buf)
                      /\ \A i, j \in 1..Len(Sent(s)') :
                           i < j => Before(Sent(s)'[i], Sent(s)'[j])
    BY <1>q DEF OnceInv, Before
  <2>1. /\ NotYetServed(s) => \A i \in 1..Len(Sent(s)) : Before(Sent(s)[i], buf)
        /\ \A i, j \in 1..Len(Sent(s)) : i < j => Before(Sent(s)[i], Sent(s)[j])
    BY <1>t DEF OrderInv, OnceInv
  <2>d. \A i, j \in 1..Len(subList) : subList[i] = subList[j] => i = j
    BY DEF RegistryDistinct
  <2>2. NotYetServed(s)' => NotYetServed(s) /\ s # to
    <3> SUFFICES ASSUME NEW k \in (cursor + 1)..Len(subList), subList[k] = s
                 PROVE  NotYetServed(s) /\ s # to
      BY <1>q DEF NotYetServed
    <3>1. k \in cursor..Len(subList) /\ k \in 1..Len(subList) /\ k # cursor
      BY <1>t
    <3>2. s # to
      BY <1>t, <2>d, <3>1
    <3>3. NotYetServed(s)
      BY <1>q, <3>1 DEF NotYetServed
    <3> QED
      BY <3>2, <3>3
  <2>3. NotYetServed(to)
    <3>1. cursor \in cursor..Len(subList)
      BY <1>t
    <3> QED
      BY <1>t, <1>q, <3>1 DEF NotYetServed
  <2>4. CASE s # to
    BY <1>s, <2>1, <2>2, <2>4
  <2>5. CASE s = to
    <3>1. \A i, j \in 1..Len(Sent(to)') : i < j => Before(Sent(to)'[i], Sent(to)'[j])
      <4> TAKE i, j \in 1..Len(Sent(to)')
      <4> HAVE i < j
      <4>1. i \in 1..Len(Sent(to)) /\ Sent(to)'[i] = Sent(to)[i]
        BY <1>s, <1>i, <1>t
      <4> QED
        BY <1>t, <1>i, <2>1, <2>3, <2>5, <4>1
    <3> QED
      BY <2>2, <2>5, <3>1
  <2> QED
    BY <2>4, <2>5
<1> QED
  BY <1>1, <1>2, <1>3, <1>4 DEF OrderInv

(* The queue goes: what was still in it is never received.                 *)
LEMMA RemoveStep ==
  ASSUME TypeOK, OrderInv, ShutdownFacts', RemoveQueue,
         UNCHANGED <<subVars, pubVars>>
  PROVE  OrderInv'
<1> USE DEF subVars, pubVars, brokerVars
<1>q. /\ q' = [d \in Dests |-> <<>>] /\ UNCHANGED <<got, published, buf, running>>
      /\ ~running[Brk]
  BY DEF RemoveQueue, OrderInv, ShutdownFacts
<1>e. SendsOf(q'[Brk]) = {}
  BY <1>q DEF SendsOf
<1>s. \A s \in Subs : /\ got[s] \in Seq(Publication) /\ q[s] \in Seq(Publication)
                     /\ q'[s] = <<>> /\ Sent(s)' = got[s]
  BY <1>q DEF Sent, TypeOK, MsgBusTypeOK, SubscriberTypeOK
<1>p. \A s \in Subs : \A i \in 1..Len(Sent(s)') :
         i \in 1..Len(Sent(s)) /\ Sent(s)'[i] = Sent(s)[i]
  <2> TAKE s \in Subs
  <2>1. Sent(s)' = got[s] /\ got[s] \in Seq(Publication) /\ q[s] \in Seq(Publication)
    BY <1>s
  <2>2. \A i \in 1..Len(got[s]) :
           i \in 1..Len(got[s] \o q[s]) /\ (got[s] \o q[s])[i] = got[s][i]
    BY <2>1, PrefixOfConcat, Zenon
  <2>3. Sent(s) = got[s] \o q[s]
    BY DEF Sent
  <2> QED
    BY <2>1, <2>2, <2>3, Zenon
<1>1. QueueOrder' /\ OnceInv'
  BY <1>q, <1>e DEF QueueOrder, OnceInv
<1>2. BufOrder'
  BY <1>q, <1>e, <1>p DEF OrderInv, BufOrder, NotAfter
<1>3. SentOrder'
  BY <1>q, <1>e, <1>p DEF OrderInv, SentOrder, NotAfter
<1> QED
  BY <1>1, <1>2, <1>3 DEF OrderInv

(* A subscriber whose queue is gone reports its last message again.        *)
LEMMA EchoStep ==
  ASSUME TypeOK, OrderInv, ShutdownFacts', NEW to \in Subs,
         queue = "removed", got[to] # <<>>,
         got' = [got EXCEPT ![to] = Append(@, got[to][Len(got[to])])],
         UNCHANGED <<q, published, buf, running>>
  PROVE  OrderInv'
<1> DEFINE last == got[to][Len(got[to])]
<1>q. ~running[Brk] /\ \A s \in Subs : q[s] = <<>>
  BY DEF OrderInv, ShutdownFacts
<1>0. \A e \in Seq(Publication) : e \o <<>> = e
  OBVIOUS
<1>t. got[to] \in Seq(Publication) /\ Len(got[to]) \in 1..Len(got[to])
      /\ last \in Publication
  <2>1. got[to] \in Seq(Publication)
    BY DEF TypeOK, SubscriberTypeOK
  <2>2. Len(got[to]) \in 1..Len(got[to])
    BY <2>1
  <2> QED
    BY <2>1, <2>2
<1>g. \A s \in Subs : got[s] \in Seq(Publication) /\ got'[s] \in Seq(Publication)
  <2>1. got' \in [Subs -> Seq(Publication)]
    BY <1>t DEF TypeOK, SubscriberTypeOK
  <2> QED
    BY <2>1 DEF TypeOK, SubscriberTypeOK
<1>s. \A s \in Subs : got[s] \in Seq(Publication) /\ Sent(s) = got[s] /\ Sent(s)' = got'[s]
  BY <1>0, <1>g, <1>q DEF Sent
<1>l. Len(Sent(to)) \in 1..Len(Sent(to)) /\ last = Sent(to)[Len(Sent(to))]
  BY <1>s, <1>t
<1>n. last.n \in Nat
  BY <1>t DEF Publication
<1>i. \A s \in Subs : \A i \in 1..Len(Sent(s)') :
         \/ i \in 1..Len(Sent(s)) /\ Sent(s)'[i] = Sent(s)[i]
         \/ s = to /\ i = Len(Sent(s)) + 1 /\ Sent(s)'[i] = last
  <2> SUFFICES ASSUME NEW s \in Subs, NEW i \in 1..Len(got'[s])
               PROVE  \/ i \in 1..Len(got[s]) /\ got'[s][i] = got[s][i]
                      \/ s = to /\ i = Len(got[s]) + 1 /\ got'[s][i] = last
    BY <1>s
  <2>1. CASE s = to
    BY <1>s, <2>1 DEF TypeOK, SubscriberTypeOK
  <2>2. CASE s # to
    BY <1>s, <2>2 DEF TypeOK, SubscriberTypeOK
  <2> QED
    BY <2>1, <2>2
<1> HIDE DEF last
<1>1. QueueOrder' /\ OnceInv'
  BY <1>q DEF OrderInv, QueueOrder, OnceInv, SendsOf, Before
<1>2. BufOrder'
  <2>1. buf # NoMsg /\ buf.cmd = "send" =>
           \A s \in Subs : \A i \in 1..Len(Sent(s)') : NotAfter(Sent(s)'[i], buf)
    BY <1>i, <1>l DEF OrderInv, BufOrder
  <2> QED
    BY <2>1 DEF OrderInv, BufOrder, SendsOf, NotAfter, Before
<1>3. SentOrder'
  <2>1. \A s \in Subs : /\ \A i \in 1..Len(Sent(s)'), k \in SendsOf(q[Brk]) :
                            Before(Sent(s)'[i], q[Brk][k])
                       /\ \A i \in 1..Len(Sent(s)') :
                            Sent(s)'[i].n <= Len(published[Sent(s)'[i].from])
    BY <1>i, <1>l DEF OrderInv, SentOrder
  <2>2. \A s \in Subs : \A i, j \in 1..Len(Sent(s)') :
           i < j => NotAfter(Sent(s)'[i], Sent(s)'[j])
    <3> TAKE s \in Subs
    <3> TAKE i, j \in 1..Len(Sent(s)')
    <3> HAVE i < j
    <3>0. Len(Sent(s)) \in Nat
      BY <1>s
    <3>1. i \in 1..Len(Sent(s)) /\ Sent(s)'[i] = Sent(s)[i]
      BY <1>i, <1>s, <3>0
    <3>2. CASE j \in 1..Len(Sent(s)) /\ Sent(s)'[j] = Sent(s)[j]
      BY <3>1, <3>2 DEF OrderInv, SentOrder
    <3>3. CASE s = to /\ Sent(s)'[j] = last
      <4>1. CASE i = Len(Sent(to))
        BY <1>l, <1>n, <3>1, <3>3, <4>1 DEF NotAfter
      <4>2. CASE i # Len(Sent(to))
        <5>1. i < Len(Sent(to))
          BY <3>0, <3>1, <3>3, <4>2
        <5> QED
          BY <1>l, <3>1, <3>3, <5>1 DEF OrderInv, SentOrder
      <4> QED
        BY <4>1, <4>2
    <3> QED
      BY <1>i, <3>2, <3>3
  <2> QED
    BY <2>1, <2>2 DEF SentOrder, SendsOf, Before, NotAfter
<1> QED
  BY <1>1, <1>2, <1>3 DEF OrderInv
-----------------------------------------------------------------------------
LEMMA RegistryStep ==
  ASSUME TypeOK, RegistryDistinct, [Next]_vars
  PROVE  RegistryDistinct'
<1>a. \A S : \A list \in Seq(S) : \A e \in S :
         (\A i, j \in 1..Len(list) : list[i] = list[j] => i = j)
         => \A i, j \in 1..Len(Register(list, e)) :
               Register(list, e)[i] = Register(list, e)[j] => i = j
  BY DEF Register, InList
<1>1. CASE UNCHANGED <<subList, pubList>>
  BY <1>1 DEF RegistryDistinct
<1>2. CASE HandleSend
  <2>1. pubList \in Seq(Pubs) /\ buf.from \in Pubs
    BY <1>2, MessageKinds DEF HandleSend, TypeOK, BrokerTypeOK, Publication
  <2>2. pubList' = Register(pubList, buf.from) /\ subList' = subList
    BY <1>2 DEF HandleSend
  <2> QED
    BY <1>a, <2>1, <2>2 DEF RegistryDistinct
<1>3. CASE HandleSubscribe
  <2>1. subList \in Seq(Subs) /\ buf.from \in Subs
    BY <1>3, MessageKinds DEF HandleSubscribe, TypeOK, BrokerTypeOK, Request
  <2>2. subList' = Register(subList, buf.from) /\ pubList' = pubList
    BY <1>3 DEF HandleSubscribe
  <2> QED
    BY <1>a, <2>1, <2>2 DEF RegistryDistinct
<1>4. UNCHANGED <<subList, pubList>> \/ HandleSend \/ HandleSubscribe
  BY DEF Next, vars, brokerVars, BrokerStep, SubStep, PubStep, UserStep, Finished,
     BrokerNext, BrokerStart, BrokerReady, BrokerLoop, BrokerReceive,
     BrokerReceiveInterrupted, HandleUnsubscribe, FanoutNext, FanoutSend,
     FanoutInterrupted, FanoutDone, KillNext, KillDone, WaitSecond, WaitTimeout,
     RemoveQueue
<1> QED
  BY <1>1, <1>2, <1>3, <1>4

(* Every step of the system is of one of the kinds above.                  *)
LEMMA BrokerOrderStep ==
  ASSUME TypeOK, RegistryDistinct, OrderInv, ShutdownFacts', BrokerStep
  PROVE  OrderInv'
<1> USE DEF subVars, pubVars, brokerVars, queueVars
<1>u. UNCHANGED <<subVars, pubVars>>
  BY DEF BrokerStep
<1>1. CASE BrokerReceive
  BY <1>u, <1>1, ReceiveStep
<1>2. CASE FanoutSend
  BY <1>u, <1>2, SendStep
<1>3. CASE RemoveQueue
  BY <1>u, <1>3, RemoveStep
<1>4. ASSUME UNCHANGED <<q, buf>>, running'[Brk] => running[Brk],
             running'[Brk] => \A s \in Subs : NotYetServed(s)' => NotYetServed(s)
      PROVE  OrderInv'
  <2>1. \A s \in Subs : Sent(s)' = Sent(s)
    BY <1>u, <1>4 DEF Sent
  <2> QED
    BY <1>u, <1>4, <2>1, QuietStep
<1>w. running \in [Proc -> BOOLEAN] /\ pc \in [Proc -> Place] /\ Brk \in Proc
      /\ cursor \in Nat \ {0} /\ subList \in Seq(Subs)
  BY DEF TypeOK, MsgBusTypeOK, BrokerTypeOK
<1>5. CASE BrokerStart \/ BrokerReady \/ BrokerLoop
  BY <1>4, <1>5, <1>w DEF BrokerStart, BrokerReady, BrokerLoop, Goto, NotYetServed
<1>6. CASE HandleSend
  BY <1>4, <1>6, <1>w DEF HandleSend, Goto, NotYetServed
<1>7. CASE HandleSubscribe \/ HandleUnsubscribe
  BY <1>4, <1>7, <1>w DEF HandleSubscribe, HandleUnsubscribe, Goto, NotYetServed
<1>8. CASE FanoutNext
  <2>1. \A s \in Subs : NotYetServed(s)' => NotYetServed(s)
    BY <1>8, <1>w DEF FanoutNext, Goto, NotYetServed
  <2> QED
    BY <1>4, <1>8, <2>1 DEF FanoutNext
<1>9. CASE FanoutInterrupted \/ FanoutDone
  BY <1>4, <1>9, <1>w DEF FanoutInterrupted, FanoutDone, Goto, NotYetServed
<1>10. CASE BrokerReceiveInterrupted
  <2>1. ~running'[Brk]
    BY <1>10 DEF BrokerReceiveInterrupted, OrderInv, ShutdownFacts
  <2> QED
    BY <1>4, <1>10, <2>1 DEF BrokerReceiveInterrupted
<1>11. CASE KillNext \/ KillDone \/ WaitSecond \/ WaitTimeout
  <2>1. ~running[Brk]
    BY <1>11 DEF KillNext, KillDone, WaitSecond, WaitTimeout, OrderInv, ShutdownFacts
  <2>2. UNCHANGED <<q, buf>>
    BY <1>11 DEF KillNext, KillDone, WaitSecond, WaitTimeout
  <2>3. ~running'[Brk]
    BY <1>11, <1>w, <2>1
       DEF KillNext, KillDone, WaitSecond, WaitTimeout, Signal, Handle, procVars
  <2> QED
    BY <1>4, <2>2, <2>3
<1> QED
  BY <1>1, <1>2, <1>3, <1>5, <1>6, <1>7, <1>8, <1>9, <1>10, <1>11
     DEF BrokerStep, BrokerNext

LEMMA SubOrderStep ==
  ASSUME TypeOK, OrderInv, ShutdownFacts', NEW s \in Subs, SubStep(s)
  PROVE  OrderInv'
<1> USE ProcAssumption DEF brokerVars, pubVars, queueVars, subVars
<1>u. UNCHANGED <<brokerVars, pubVars>>
  BY DEF SubStep
<1>w. /\ pc \in [Proc -> Place] /\ s # Brk
      /\ q \in [Dests -> Seq(Message)] /\ got \in [Subs -> Seq(Publication)]
      /\ \A r \in Subs : q[r] \in Seq(Publication)
      /\ published \in [Pubs -> Seq(Topics)]
  BY DEF TypeOK, MsgBusTypeOK, SubscriberTypeOK, PublisherTypeOK
<1>v. UNCHANGED running /\ pc'[Brk] = pc[Brk]
  BY <1>w DEF SubStep, SubNext, SubStart, SubSubscribe, SubSubscribeCrash,
     SubSubscribeDone, SubSubscribeFails, SubLoop, SubReceive, SubReceiveInterrupted,
     SubReceiveRemoved, SubUnsubscribe, SubUnsubscribeDone, SubUnsubscribeFails, Goto
<1>n. \A r \in Subs : NotYetServed(r)' = NotYetServed(r)
  BY <1>u, <1>v DEF NotYetServed
<1>1. ASSUME NEW t \in Topics, NEW c \in {"subscribe", "unsubscribe"},
             MsgSnd(Brk, Ask(s, c, t)), UNCHANGED got
      PROVE  OrderInv'
  <2>1. Ask(s, c, t) \in Message /\ Ask(s, c, t).cmd # "send"
    BY DEF Ask, Message, Request
  <2>2. q' = [q EXCEPT ![Brk] = Append(@, Ask(s, c, t))]
    BY <1>1 DEF MsgSnd
  <2>3. /\ published' \in [Pubs -> Seq(Topics)]
        /\ \A p \in Pubs : Len(published[p]) <= Len(published'[p])
    BY <1>u, <1>w
  <2> QED
    BY <1>1, <1>u, <1>v, <2>1, <2>2, <2>3, EnqueueStep
<1>2. CASE SubSubscribe(s)
  BY <1>1, <1>2 DEF SubSubscribe
<1>3. CASE SubSubscribeCrash(s)
  BY <1>1, <1>3 DEF SubSubscribeCrash
<1>4. CASE SubUnsubscribe(s)
  <2>1. unsent[s] \subseteq Topics
    BY DEF TypeOK, SubscriberTypeOK
  <2> QED
    BY <1>1, <1>4, <2>1 DEF SubUnsubscribe
<1>5. ASSUME \A r \in Subs : Sent(r)' = Sent(r), q'[Brk] = q[Brk]
      PROVE  OrderInv'
  BY <1>5, <1>u, <1>v, <1>n, QuietStep
<1>6. CASE SubReceive(s)
  <2>1. /\ q[s] # <<>> /\ q'[s] = Tail(q[s]) /\ got'[s] = Append(got[s], Head(q[s]))
        /\ q'[Brk] = q[Brk]
        /\ \A r \in Subs \ {s} : q'[r] = q[r] /\ got'[r] = got[r]
    BY <1>6, <1>w DEF SubReceive, MsgRcv
  <2>2. Append(got[s], Head(q[s])) \o Tail(q[s]) = got[s] \o q[s]
    BY <1>w, <2>1
  <2>3. \A r \in Subs : Sent(r)' = Sent(r)
    BY <2>1, <2>2 DEF Sent
  <2> QED
    BY <1>5, <2>1, <2>3
<1>7. CASE SubReceiveRemoved(s)
  <2>1. CASE UNCHANGED got
    BY <1>5, <1>7, <2>1 DEF SubReceiveRemoved, Sent
  <2>2. CASE /\ got[s] # <<>>
             /\ got' = [got EXCEPT ![s] = Append(@, got[s][Len(got[s])])]
    BY <1>7, <1>u, <1>v, <2>2, EchoStep DEF SubReceiveRemoved
  <2> QED
    BY <1>7, <2>1, <2>2 DEF SubReceiveRemoved
<1>8. CASE SubStart(s) \/ SubSubscribeDone(s) \/ SubSubscribeFails(s) \/ SubLoop(s)
           \/ SubReceiveInterrupted(s) \/ SubUnsubscribeDone(s) \/ SubUnsubscribeFails(s)
  <2>1. UNCHANGED <<q, got>>
    BY <1>8 DEF SubStart, SubSubscribeDone, SubSubscribeFails, SubLoop,
                SubReceiveInterrupted, SubUnsubscribeDone, SubUnsubscribeFails
  <2> QED
    BY <1>5, <2>1 DEF Sent
<1> QED
  BY <1>2, <1>3, <1>4, <1>6, <1>7, <1>8 DEF SubStep, SubNext

LEMMA PubOrderStep ==
  ASSUME TypeOK, OrderInv, ShutdownFacts', NEW p \in Pubs, PubStep(p)
  PROVE  OrderInv'
<1> USE ProcAssumption DEF brokerVars, subVars, queueVars, pubVars
<1>u. UNCHANGED <<brokerVars, subVars>>
  BY DEF PubStep
<1>w. /\ pc \in [Proc -> Place] /\ p # Brk /\ q \in [Dests -> Seq(Message)]
      /\ published \in [Pubs -> Seq(Topics)]
  BY DEF TypeOK, MsgBusTypeOK, PublisherTypeOK
<1>v. UNCHANGED running /\ pc'[Brk] = pc[Brk]
  BY <1>w DEF PubStep, PubNext, PubStart, PubLoop, PubSend, Goto
<1>n. \A r \in Subs : NotYetServed(r)' = NotYetServed(r)
  BY <1>u, <1>v DEF NotYetServed
<1>1. CASE PubStart(p) \/ PubLoop(p)
  <2>1. UNCHANGED <<q, published>>
    BY <1>1 DEF PubStart, PubLoop
  <2>2. \A s \in Subs : Sent(s)' = Sent(s)
    BY <1>u, <2>1 DEF Sent
  <2> QED
    BY <1>u, <1>v, <1>n, <2>1, <2>2, QuietStep
<1>2. CASE PubSend(p)
  <2>1. PICK t \in Topics :
          /\ published' = [published EXCEPT ![p] = Append(@, t)]
          /\ IF HasRoom THEN MsgSnd(Brk, Publish(p, t)) ELSE UNCHANGED queueVars
    BY <1>2 DEF PubSend
  <2>2. /\ published' \in [Pubs -> Seq(Topics)]
        /\ \A r \in Pubs : Len(published[r]) \in Nat /\ Len(published[r]) <= Len(published'[r])
        /\ Len(published'[p]) = Len(published[p]) + 1
    BY <1>w, <2>1
  <2>3. CASE MsgSnd(Brk, Publish(p, t))
    <3>1. /\ Publish(p, t) \in Message
          /\ Publish(p, t).n > Len(published[Publish(p, t).from])
          /\ Publish(p, t).n <= Len(published'[Publish(p, t).from])
      BY <2>2 DEF Publish, Message, Publication
    <3>2. q' = [q EXCEPT ![Brk] = Append(@, Publish(p, t))]
      BY <2>3 DEF MsgSnd
    <3> HIDE DEF Publish
    <3> QED
      BY <1>u, <1>v, <2>2, <3>1, <3>2, EnqueueStep
  <2>4. CASE UNCHANGED queueVars
    \* the message is dropped: a later number, and nothing else
    <3>1. \A s \in Subs : Sent(s)' = Sent(s) /\ Sent(s) \in Seq(Publication)
      BY <1>u, <2>4, SentType DEF Sent
    <3>2. /\ \A k \in SendsOf(q[Brk]) : q[Brk][k] \in Publication
          /\ buf # NoMsg /\ buf.cmd = "send" => buf \in Publication
          /\ \A e \in Publication : e.from \in Pubs /\ e.n \in Nat
      BY <1>w, MessageKinds DEF SendsOf, TypeOK, BrokerTypeOK, Publication
    <3>3. \A e \in Publication : e.n <= Len(published[e.from]) => e.n <= Len(published'[e.from])
      <4> TAKE e \in Publication
      <4>1. e.n \in Nat /\ Len(published[e.from]) \in Nat /\ Len(published'[e.from]) \in Nat
            /\ Len(published[e.from]) <= Len(published'[e.from])
        BY <2>2, <3>2
      <4> QED
        BY <4>1
    <3>4. QueueOrder'
      BY <2>4, <3>2, <3>3 DEF OrderInv, QueueOrder, SendsOf, Before
    <3>5. BufOrder'
      BY <1>u, <2>4, <3>1, <3>2, <3>3 DEF OrderInv, BufOrder, SendsOf, Before, NotAfter
    <3>6. SentOrder'
      <4>1. \A s \in Subs : \A i \in 1..Len(Sent(s)) :
               Sent(s)[i].n <= Len(published'[Sent(s)[i].from])
        <5> TAKE s \in Subs
        <5> TAKE i \in 1..Len(Sent(s))
        <5>0. Sent(s)[i] \in Publication
          BY <3>1
        <5>1. Sent(s)[i] \in Publication /\ Sent(s)[i].n <= Len(published[Sent(s)[i].from])
          BY <5>0 DEF OrderInv, SentOrder
        <5>2. \A e \in Publication : e.n <= Len(published[e.from]) => e.n <= Len(published'[e.from])
          BY <3>3
        <5> QED
          BY <5>1, <5>2, Zenon
      <4> QED
        BY <2>4, <3>1, <4>1 DEF OrderInv, SentOrder, SendsOf, Before, NotAfter
    <3>7. OnceInv'
      BY <1>u, <1>v, <1>n, <3>1 DEF OrderInv, OnceInv, Before
    <3> QED
      BY <3>4, <3>5, <3>6, <3>7 DEF OrderInv
  <2> QED
    BY <2>1, <2>3, <2>4
<1> QED
  BY <1>1, <1>2 DEF PubStep, PubNext

LEMMA UserOrderStep ==
  ASSUME TypeOK, OrderInv, ShutdownFacts', NEW p \in Proc, UserStep(p)
  PROVE  OrderInv'
<1>1. UNCHANGED <<q, got, published, buf, subList, cursor>>
  BY DEF UserStep, Interrupt, queueVars, brokerVars, subVars, pubVars
<1>2. running'[Brk] => running[Brk]
  BY DEF UserStep, Interrupt, Handle, TypeOK, MsgBusTypeOK
<1>3. \A s \in Subs : NotYetServed(s)' => NotYetServed(s)
  BY <1>1 DEF UserStep, Interrupt, Handle, Goto, NotYetServed, TypeOK, MsgBusTypeOK
<1>4. \A s \in Subs : Sent(s)' = Sent(s)
  BY <1>1 DEF Sent
<1> QED
  BY <1>1, <1>2, <1>3, <1>4, QuietStep

LEMMA InitOrder == Init => RegistryDistinct /\ OrderInv
<1> SUFFICES ASSUME Init PROVE RegistryDistinct /\ OrderInv
  OBVIOUS
<1>1. /\ subList = <<>> /\ pubList = <<>> /\ queue = "absent" /\ buf = NoMsg
      /\ pc[Brk] = "off" /\ eintr[Brk] = FALSE /\ q[Brk] = <<>>
      /\ \A s \in Subs : q[s] = <<>> /\ got[s] = <<>>
  BY DEF Init, MsgBusInit, BrokerInit, SubscriberInit
<1>2. \A s \in Subs : Len(Sent(s)) = 0
  <2>1. <<>> \o <<>> = <<>> /\ Len(<<>>) = 0
    OBVIOUS
  <2> QED
    BY <1>1, <2>1 DEF Sent
<1>3. RegistryDistinct
  BY <1>1 DEF RegistryDistinct
<1>4. ShutdownFacts /\ QueueOrder /\ BufOrder
  BY <1>1 DEF ShutdownFacts, QueueOrder, BufOrder, SendsOf
<1>5. SentOrder /\ OnceInv
  BY <1>2 DEF SentOrder, OnceInv
<1> QED
  BY <1>3, <1>4, <1>5 DEF OrderInv

(* Nobody enters a registry list twice.                                    *)
THEOREM RegistryCorrect == Spec => []RegistryDistinct
<1>1. Init => RegistryDistinct
  BY InitOrder
<1>2. TypeOK /\ RegistryDistinct /\ [Next]_vars => RegistryDistinct'
  BY RegistryStep
<1> QED
  BY <1>1, <1>2, TypeCorrect, PTL DEF Spec

(* The inductive invariant of the order of delivery, from a publisher's    *)
(* msgsnd through rcv_mes (broker.c:116) to each subscriber's msgrcv, and  *)
(* that until the broker has SIGINT nothing is sent twice.                 *)
THEOREM OrderInvariant == Spec => []OrderInv
<1>1. Init => OrderInv
  BY InitOrder
<1>2. TypeOK /\ RegistryDistinct /\ OrderInv /\ [Next]_vars => OrderInv'
  <2> SUFFICES ASSUME TypeOK, RegistryDistinct, OrderInv, [Next]_vars PROVE OrderInv'
    OBVIOUS
  <2>1. ShutdownFacts'
    BY ShutdownStep DEF OrderInv
  <2>2. CASE UNCHANGED vars
    <3>1. UNCHANGED <<q, got, published, buf, running, pc, subList, cursor>>
      BY <2>2 DEF vars, procVars, queueVars, brokerVars, subVars, pubVars
    <3>2. \A s \in Subs : Sent(s)' = Sent(s) /\ NotYetServed(s)' = NotYetServed(s)
      BY <3>1 DEF Sent, NotYetServed
    <3> QED
      BY <2>1, <3>1, <3>2, QuietStep
  <2> QED
    BY <2>1, <2>2, BrokerOrderStep, SubOrderStep, PubOrderStep, UserOrderStep
       DEF Next, Finished
<1> QED
  BY <1>1, <1>2, TypeCorrect, RegistryCorrect, PTL DEF Spec

-----------------------------------------------------------------------------
(***************************************************************************)
(* What the broker owes its clients: by the time it removes the queue,     *)
(* everyone in its registry has been signalled; until then it knows the    *)
(* topics each subscriber has asked for and serves all who asked; and the  *)
(* whole system is the topic bus its users see.                            *)
(***************************************************************************)

(* The two lists one after the other, as the walks see them.               *)
LEMMA RegisteredType ==
  ASSUME TypeOK
  PROVE  /\ Registered \in Seq(Clients)
         /\ \A i \in 1..Len(Registered) :
               \/ \E j \in 1..Len(subList) : Registered[i] = subList[j]
               \/ \E j \in 1..Len(pubList) : Registered[i] = pubList[j]
<1>1. subList \in Seq(Clients) /\ pubList \in Seq(Clients)
  BY DEF TypeOK, BrokerTypeOK
<1>2. \A a, b \in Seq(Clients) :
         /\ a \o b \in Seq(Clients)
         /\ \A i \in 1..Len(a \o b) : \/ \E j \in 1..Len(a) : (a \o b)[i] = a[j]
                                      \/ \E j \in 1..Len(b) : (a \o b)[i] = b[j]
  <2> SUFFICES ASSUME NEW a \in Seq(Clients), NEW b \in Seq(Clients)
               PROVE  /\ a \o b \in Seq(Clients)
                      /\ \A i \in 1..Len(a \o b) :
                            \/ \E j \in 1..Len(a) : (a \o b)[i] = a[j]
                            \/ \E j \in 1..Len(b) : (a \o b)[i] = b[j]
    OBVIOUS
  <2>1. a \o b \in Seq(Clients) /\ Len(a \o b) = Len(a) + Len(b)
        /\ Len(a) \in Nat /\ Len(b) \in Nat
    OBVIOUS
  <2>2. ASSUME NEW i \in 1..Len(a \o b), i <= Len(a)
        PROVE  \E j \in 1..Len(a) : (a \o b)[i] = a[j]
    <3>1. (a \o b)[i] = a[i]
      BY <2>2
    <3> QED
      BY <2>1, <2>2, <3>1
  <2>3. ASSUME NEW i \in 1..Len(a \o b), ~(i <= Len(a))
        PROVE  \E j \in 1..Len(b) : (a \o b)[i] = b[j]
    <3>1. (a \o b)[i] = b[i - Len(a)] /\ i - Len(a) \in 1..Len(b)
      BY <2>1, <2>3
    <3> QED
      BY <3>1
  <2> QED
    BY <2>1, <2>2, <2>3
<1> QED
  BY <1>1, <1>2 DEF Registered

(* A started process stays started, a process that has been told stays so. *)
LEMMA StableStep ==
  ASSUME TypeOK, [Next]_vars
  PROVE  \A p \in Proc : (Started(p) => Started(p)') /\ (Told(p) => Told(p)')
<1> USE ProcAssumption DEF Started, Told, Exited, Goto, TypeOK, MsgBusTypeOK
<1>1. CASE UNCHANGED vars
  BY <1>1 DEF vars, procVars
<1>2. CASE BrokerStep
  BY <1>2 DEF BrokerStep, BrokerNext, BrokerStart, BrokerReady, BrokerLoop, BrokerReceive,
     BrokerReceiveInterrupted, HandleSend, HandleSubscribe, HandleUnsubscribe,
     FanoutNext, FanoutSend, FanoutInterrupted, FanoutDone, KillNext, KillDone,
     WaitSecond, WaitTimeout, RemoveQueue, Signal, Handle, procVars
<1>3. ASSUME NEW s \in Subs, SubStep(s)
      PROVE  \A p \in Proc : (Started(p) => Started(p)') /\ (Told(p) => Told(p)')
  BY <1>3 DEF SubStep, SubNext, SubStart, SubSubscribe, SubSubscribeCrash,
     SubSubscribeDone, SubSubscribeFails, SubLoop, SubReceive, SubReceiveInterrupted,
     SubReceiveRemoved, SubUnsubscribe, SubUnsubscribeDone, SubUnsubscribeFails
<1>4. ASSUME NEW r \in Pubs, PubStep(r)
      PROVE  \A p \in Proc : (Started(p) => Started(p)') /\ (Told(p) => Told(p)')
  BY <1>4 DEF PubStep, PubNext, PubStart, PubLoop, PubSend
<1>5. ASSUME NEW r \in Proc, UserStep(r)
      PROVE  \A p \in Proc : (Started(p) => Started(p)') /\ (Told(p) => Told(p)')
  BY <1>5 DEF UserStep, Interrupt, Handle
<1> QED
  BY <1>1, <1>2, <1>3, <1>4, <1>5 DEF Next, Finished

(* Whoever a message is from has been started, wherever the message is.    *)
LEMMA SendersStep ==
  ASSUME TypeOK, SendersStarted, [Next]_vars
  PROVE  SendersStarted'
<1>s. \A p \in Proc : Started(p) => Started(p)'
  BY StableStep
<1>m. \A m \in Message : m.from \in Proc
  BY DEF Message, Publication, Request
<1>t. /\ subList \in Seq(Subs) /\ pubList \in Seq(Pubs)
      /\ q[Brk] \in Seq(Message) /\ buf \in Message \cup {NoMsg}
      /\ \A i \in 1..Len(subList) : subList[i] \in Proc
      /\ \A i \in 1..Len(pubList) : pubList[i] \in Proc
      /\ \A k \in 1..Len(q[Brk]) : q[Brk][k] \in Message
  BY DEF TypeOK, MsgBusTypeOK, BrokerTypeOK
<1>1. CASE UNCHANGED <<subList, pubList, buf>> /\ q'[Brk] = q[Brk]
  BY <1>1, <1>s, <1>m, <1>t DEF SendersStarted
<1>2. ASSUME NEW m \in Message, Started(m.from), q'[Brk] = Append(q[Brk], m),
             UNCHANGED <<subList, pubList, buf>>
      PROVE  SendersStarted'
  <2>1. \A k \in 1..Len(q'[Brk]) : q'[Brk][k] \in Message /\ Started(q'[Brk][k].from)
    BY <1>2, <1>t DEF SendersStarted
  <2> QED
    BY <1>2, <2>1, <1>s, <1>m, <1>t DEF SendersStarted
<1>3. CASE BrokerReceive
  <2>1. /\ \A k \in 1..Len(q'[Brk]) : q'[Brk][k] \in Message /\ Started(q'[Brk][k].from)
        /\ buf' \in Message /\ Started(buf'.from)
    BY <1>3, <1>t DEF BrokerReceive, MsgRcv, SendersStarted, TypeOK, MsgBusTypeOK
  <2>2. UNCHANGED <<subList, pubList>>
    BY <1>3 DEF BrokerReceive
  <2> QED
    BY <2>1, <2>2, <1>s, <1>m, <1>t DEF SendersStarted
<1>r. ASSUME NEW list \in Seq(Clients), NEW p \in Clients, Started(p),
             \A i \in 1..Len(list) : Started(list[i])
      PROVE  \A i \in 1..Len(Register(list, p)) :
                Register(list, p)[i] \in Proc /\ Started(Register(list, p)[i])
  BY <1>r DEF Register
<1>4. CASE HandleSend
  <2>1. buf.from \in Pubs /\ pubList' = Register(pubList, buf.from) /\ buf # NoMsg
        /\ UNCHANGED <<subList, q, buf>>
    BY <1>4, MessageKinds DEF HandleSend, queueVars, TypeOK, BrokerTypeOK, Publication
  <2>2. \A i \in 1..Len(pubList') : pubList'[i] \in Proc /\ Started(pubList'[i])
    BY <1>r, <1>t, <2>1 DEF SendersStarted
  <2> QED
    BY <2>1, <2>2, <1>s, <1>m, <1>t DEF SendersStarted
<1>5. CASE HandleSubscribe
  <2>1. buf.from \in Subs /\ subList' = Register(subList, buf.from) /\ buf # NoMsg
        /\ UNCHANGED <<pubList, q, buf>>
    BY <1>5, MessageKinds DEF HandleSubscribe, queueVars, TypeOK, BrokerTypeOK, Request
  <2>2. \A i \in 1..Len(subList') : subList'[i] \in Proc /\ Started(subList'[i])
    BY <1>r, <1>t, <2>1 DEF SendersStarted
  <2> QED
    BY <2>1, <2>2, <1>s, <1>m, <1>t DEF SendersStarted
<1>6. CASE RemoveQueue
  <2>1. q'[Brk] = <<>> /\ UNCHANGED <<subList, pubList, buf>>
    BY <1>6 DEF RemoveQueue, brokerVars
  <2> QED
    BY <2>1, <1>s, <1>m, <1>t DEF SendersStarted
<1>7. CASE FanoutSend
  <2>1. subList[cursor] \in Subs /\ subList[cursor] # Brk
    BY <1>7, ProcAssumption DEF FanoutSend, TypeOK, BrokerTypeOK
  <2>2. q'[Brk] = q[Brk]
    BY <1>7, <2>1 DEF FanoutSend, MsgSnd, TypeOK, MsgBusTypeOK
  <2> QED
    BY <1>1, <1>7, <2>2 DEF FanoutSend
<1>8. CASE BrokerStep
  BY <1>1, <1>3, <1>4, <1>5, <1>6, <1>7, <1>8
     DEF BrokerStep, BrokerNext, BrokerStart, BrokerReady, BrokerLoop,
     BrokerReceiveInterrupted, HandleUnsubscribe, FanoutNext, FanoutInterrupted,
     FanoutDone, KillNext, KillDone, WaitSecond, WaitTimeout, brokerVars, queueVars
<1>9. ASSUME NEW s \in Subs, SubStep(s) PROVE SendersStarted'
  <2>1. UNCHANGED <<subList, pubList, buf>>
    BY <1>9 DEF SubStep, brokerVars
  <2>2. ASSUME NEW t \in Topics, NEW c \in {"subscribe", "unsubscribe"},
               MsgSnd(Brk, Ask(s, c, t)), pc[s] # "off"
        PROVE  SendersStarted'
    <3>1. Ask(s, c, t) \in Message /\ Ask(s, c, t).from = s
      BY DEF Ask, Message, Request
    <3>2. q'[Brk] = Append(q[Brk], Ask(s, c, t))
      BY <2>2 DEF MsgSnd, TypeOK, MsgBusTypeOK
    <3> QED
      BY <1>2, <2>1, <2>2, <3>1, <3>2 DEF Started
  <2>3. CASE SubSubscribe(s)
    BY <2>2, <2>3 DEF SubSubscribe
  <2>4. CASE SubSubscribeCrash(s)
    BY <2>2, <2>4 DEF SubSubscribeCrash
  <2>5. CASE SubUnsubscribe(s)
    <3>1. unsent[s] \subseteq Topics
      BY DEF TypeOK, SubscriberTypeOK
    <3> QED
      BY <2>2, <2>5, <3>1 DEF SubUnsubscribe
  <2>6. CASE SubReceive(s)
    <3>1. q'[Brk] = q[Brk]
      BY <2>6, ProcAssumption DEF SubReceive, MsgRcv, TypeOK, MsgBusTypeOK
    <3> QED
      BY <1>1, <2>1, <3>1
  <2> QED
    BY <1>1, <1>9, <2>1, <2>3, <2>4, <2>5, <2>6
       DEF SubStep, SubNext, SubStart, SubSubscribeDone, SubSubscribeFails, SubLoop,
       SubReceiveInterrupted, SubReceiveRemoved, SubUnsubscribeDone,
       SubUnsubscribeFails, queueVars
<1>10. ASSUME NEW r \in Pubs, PubStep(r) PROVE SendersStarted'
  <2>1. UNCHANGED <<subList, pubList, buf>>
    BY <1>10 DEF PubStep, brokerVars
  <2>2. ASSUME NEW t \in Topics, MsgSnd(Brk, Publish(r, t)), pc[r] # "off"
        PROVE  SendersStarted'
    <3>1. Publish(r, t) \in Message /\ Publish(r, t).from = r
      BY DEF Publish, Message, Publication, TypeOK, PublisherTypeOK
    <3>2. q'[Brk] = Append(q[Brk], Publish(r, t))
      BY <2>2 DEF MsgSnd, TypeOK, MsgBusTypeOK
    <3> QED
      BY <1>2, <2>1, <2>2, <3>1, <3>2 DEF Started
  <2>3. CASE PubSend(r)
    BY <1>1, <2>1, <2>2, <2>3 DEF PubSend, queueVars
  <2> QED
    BY <1>1, <1>10, <2>1, <2>3 DEF PubStep, PubNext, PubStart, PubLoop, queueVars
<1>11. ASSUME NEW r \in Proc, UserStep(r) PROVE SendersStarted'
  BY <1>1, <1>11 DEF UserStep, Interrupt, brokerVars, queueVars
<1>12. CASE UNCHANGED vars
  BY <1>1, <1>12 DEF vars, brokerVars, queueVars
<1> QED
  BY <1>8, <1>9, <1>10, <1>11, <1>12 DEF Next, Finished

(* The walk tells the registered processes one by one, and nobody joins    *)
(* once it has begun.                                                      *)
LEMMA SignalStep ==
  ASSUME TypeOK, SignalInv, [Next]_vars
  PROVE  SignalInv'
<1>s. SendersStarted'
  BY SendersStep DEF SignalInv
<1>t. \A p \in Proc : Told(p) => Told(p)'
  BY StableStep
<1>r. /\ \A i \in 1..Len(Registered) : Registered[i] \in Clients
      /\ \A i \in 1..Len(Registered) : Started(Registered[i])
      /\ Len(Registered) \in Nat
  BY RegisteredType DEF SignalInv, SendersStarted
<1>w. /\ cursor \in Nat \ {0}
      /\ pc \in [Proc -> Place] /\ Brk \in Proc /\ running \in [Proc -> BOOLEAN]
  BY DEF TypeOK, MsgBusTypeOK, BrokerTypeOK
<1> USE DEF Told, Exited, ToldUpTo
<1>k. ASSUME UNCHANGED <<subList, pubList>>
      PROVE  /\ Registered' = Registered
             /\ \A i \in 1..Len(Registered) :
                   Told(Registered[i]) =>
                      pc'[Registered[i]] = "exited" \/ ~running'[Registered[i]]
  <2>1. Registered' = Registered
    BY <1>k DEF Registered
  <2> QED
    BY <2>1, <1>r, <1>t
<1>1. CASE UNCHANGED <<subList, pubList, cursor, queue>> /\ pc'[Brk] = pc[Brk]
  BY <1>1, <1>k, <1>r, <1>s, <1>w DEF SignalInv
<1>2. CASE KillNext
  <2>1. pc[Brk] = "kill" /\ cursor' = cursor + 1 /\ Signal(Registered[cursor])
        /\ UNCHANGED <<subList, pubList, queue>> /\ cursor <= Len(Registered)
    BY <1>2 DEF KillNext, queueVars
  <2>2. pc' = pc
    BY <2>1 DEF Signal, Handle, procVars
  <2>3. pc'[Registered[cursor]] = "exited" \/ ~running'[Registered[cursor]]
    BY <2>1, <1>r, <1>w DEF Signal, Handle, procVars, Alive, Started
  <2>4. (ToldUpTo(cursor - 1))'
    BY <2>1, <2>3, <1>k, <1>r, <1>w DEF SignalInv
  <2> QED
    BY <2>1, <2>2, <2>4, <1>s DEF SignalInv
<1>3. CASE KillDone
  BY <1>3, <1>k, <1>r, <1>s, <1>w DEF KillDone, Goto, queueVars, SignalInv
<1>4. CASE WaitSecond \/ WaitTimeout \/ RemoveQueue
  <2>1. /\ UNCHANGED <<subList, pubList>>
        /\ pc[Brk] \in {"wait", "rmid"} /\ pc'[Brk] \in {"wait", "rmid", "exited"}
        /\ queue' = "removed" => queue = "removed" \/ pc'[Brk] = "exited"
    BY <1>4, <1>w DEF WaitSecond, WaitTimeout, RemoveQueue, Goto, queueVars, brokerVars
  <2> QED
    BY <2>1, <1>k, <1>r, <1>s DEF SignalInv
<1>5. CASE BrokerLoop
  <2>1. /\ UNCHANGED queue /\ pc[Brk] = "top"
        /\ pc'[Brk] = "msgrcv" \/ (pc'[Brk] = "kill" /\ cursor' = 1)
    BY <1>5, <1>w DEF BrokerLoop, Goto, queueVars
  <2> QED
    BY <2>1, <1>s DEF SignalInv
<1>6. ASSUME pc[Brk] # "exited", pc'[Brk] \notin {"kill", "wait", "rmid"},
             queue' \in {queue, "live"}
      PROVE  SignalInv'
  BY <1>6, <1>s DEF SignalInv
<1>7. CASE \/ BrokerStart \/ BrokerReady \/ BrokerReceive \/ BrokerReceiveInterrupted
           \/ HandleSend \/ HandleSubscribe \/ HandleUnsubscribe
           \/ FanoutNext \/ FanoutSend \/ FanoutInterrupted \/ FanoutDone
  BY <1>6, <1>7, <1>w DEF BrokerStart, BrokerReady, BrokerReceive,
     BrokerReceiveInterrupted, HandleSend, HandleSubscribe, HandleUnsubscribe,
     FanoutNext, FanoutSend, FanoutInterrupted, FanoutDone, Goto, MsgRcv, MsgSnd, queueVars
<1>8. ASSUME NEW s \in Subs, SubStep(s) PROVE SignalInv'
  <2>1. s # Brk
    BY ProcAssumption
  <2> QED
    BY <1>1, <1>8, <1>w, <2>1 DEF SubStep, SubNext, SubStart, SubSubscribe, SubSubscribeCrash,
       SubSubscribeDone, SubSubscribeFails, SubLoop, SubReceive, SubReceiveInterrupted,
       SubReceiveRemoved, SubUnsubscribe, SubUnsubscribeDone, SubUnsubscribeFails, Goto,
       MsgSnd, MsgRcv, queueVars, brokerVars
<1>9. ASSUME NEW r \in Pubs, PubStep(r) PROVE SignalInv'
  <2>1. r # Brk
    BY ProcAssumption
  <2> QED
    BY <1>1, <1>9, <1>w, <2>1 DEF PubStep, PubNext, PubStart, PubLoop, PubSend, Goto,
       MsgSnd, queueVars, brokerVars
<1>10. ASSUME NEW r \in Proc, UserStep(r) PROVE SignalInv'
  <2>1. UNCHANGED <<subList, pubList, cursor, queue>>
    BY <1>10 DEF UserStep, Interrupt, queueVars, brokerVars
  <2>2. pc'[Brk] = pc[Brk] \/ (pc[Brk] = "init" /\ pc'[Brk] = "exited")
    BY <1>10, <1>w DEF UserStep, Interrupt, Handle, Goto
  <2> QED
    BY <1>1, <1>6, <2>1, <2>2
<1>11. CASE UNCHANGED vars
  BY <1>1, <1>11 DEF vars, brokerVars, procVars, queueVars
<1> QED
  BY <1>2, <1>3, <1>4, <1>5, <1>7, <1>8, <1>9, <1>10, <1>11
     DEF Next, Finished, BrokerStep, BrokerNext

(* The inductive invariant of the shutdown.                                *)
THEOREM SignalInvariant == Spec => []SignalInv
<1>1. Init => SignalInv
  <2> SUFFICES ASSUME Init PROVE SignalInv
    OBVIOUS
  <2>1. /\ subList = <<>> /\ pubList = <<>> /\ q[Brk] = <<>> /\ buf = NoMsg
        /\ queue = "absent" /\ pc[Brk] = "off"
    BY DEF Init, MsgBusInit, BrokerInit
  <2> QED
    BY <2>1 DEF SignalInv, SendersStarted
<1>2. TypeOK /\ SignalInv /\ [Next]_vars => SignalInv'
  BY SignalStep
<1> QED
  BY <1>1, <1>2, TypeCorrect, PTL DEF Spec

(* Whoever is registered when the broker removes its queue has been told.  *)
THEOREM AllRegisteredSignalled == Spec => []RegisteredAreSignalled
<1>1. TypeOK /\ SignalInv => RegisteredAreSignalled
  <2> SUFFICES ASSUME TypeOK, SignalInv, queue = "removed"
               PROVE  \A i \in 1..Len(Registered) : Told(Registered[i])
    BY DEF RegisteredAreSignalled
  <2> QED
    BY RegisteredType DEF SignalInv, ToldUpTo
<1> QED
  BY <1>1, SignalInvariant, TypeCorrect, PTL
-----------------------------------------------------------------------------
(* What the registry knows.                                                *)

LEMMA PendingTopic ==
  \A s \in Subs : \A t : t \in Pending(s, "subscribe") <=>
     \E m \in InTransit : m.cmd = "subscribe" /\ m.from = s /\ m.topic = t
  BY DEF Pending

(* A step that brings no request for a topic and handles none.             *)
LEMMA SameTransit ==
  ASSUME TypeOK, TopicsKnown, UNCHANGED <<topicsOf, own>>,
         \A m : m \in InTransit /\ m.cmd = "subscribe" <=>
                m \in InTransit' /\ m.cmd = "subscribe",
         \/ pc'[Brk] = "handle"
         \/ buf' = buf /\ (pc[Brk] # "handle" \/ buf.cmd # "subscribe"),
         queue' # "removed" => queue # "removed",
         \A s \in Subs : /\ pc'[s] = "off" => pc[s] = "off"
                         /\ Exited(s) => Exited(s)'
  PROVE  TopicsKnown'
<1>1. \A s \in Subs : Pending(s, "subscribe")' = Pending(s, "subscribe")
  BY DEF Pending
<1>2. \A s \in Subs : KnownTopics(s)' = KnownTopics(s)
  BY <1>1 DEF KnownTopics
<1>3. \A s \in Subs : pc[s] = "off" => KnownTopics(s) = {} /\ own[s] = {}
  BY DEF TopicsKnown, Exited
<1> QED
  BY <1>2, <1>3 DEF TopicsKnown, Exited, Alive

(* A new message for the broker; a request for a topic is written down by  *)
(* its sender too, unless the sender is ending.                            *)
LEMMA NewTransit ==
  ASSUME TypeOK, TopicsKnown, NEW m \in Message, InTransit' = InTransit \cup {m},
         UNCHANGED <<topicsOf, buf, queue>>, pc'[Brk] = pc[Brk],
         \A s \in Subs : /\ pc'[s] = "off" => pc[s] = "off"
                         /\ Exited(s) => Exited(s)'
                         /\ Alive(s)' => Alive(s)
                         /\ own'[s] = IF m.cmd = "subscribe" /\ m.from = s /\ ~Exited(s)'
                                         THEN own[s] \cup {m.topic} ELSE own[s],
         m.cmd = "subscribe" => Alive(m.from)
  PROVE  TopicsKnown'
<1>1. \A s \in Subs : \A t : t \in Pending(s, "subscribe")' <=>
         t \in Pending(s, "subscribe") \/ (m.cmd = "subscribe" /\ m.from = s /\ m.topic = t)
  <2>1. \A s \in Subs : \A t : t \in Pending(s, "subscribe")' <=>
           \E w \in InTransit' : w.cmd = "subscribe" /\ w.from = s /\ w.topic = t
    BY DEF Pending
  <2> QED
    BY <2>1, PendingTopic
<1>2. \A s \in Subs : \A t : t \in KnownTopics(s)' <=>
         t \in KnownTopics(s) \/ (m.cmd = "subscribe" /\ m.from = s /\ m.topic = t)
  BY <1>1 DEF KnownTopics
<1>3. \A s \in Subs : pc'[s] = "off" => own'[s] = {}
  BY DEF TopicsKnown, Alive
<1>4. ASSUME NEW s \in Subs, ~Exited(s)' PROVE KnownTopics(s)' \subseteq own'[s]
  <2>1. ~Exited(s) /\ KnownTopics(s) \subseteq own[s]
    BY <1>4 DEF TopicsKnown
  <2> QED
    BY <1>2, <1>4, <2>1
<1>5. ASSUME NEW s \in Subs, queue # "removed", Alive(s)'
      PROVE  own'[s] \subseteq KnownTopics(s)'
  <2>1. own[s] \subseteq KnownTopics(s)
    BY <1>5 DEF TopicsKnown
  <2>2. \A t \in own'[s] :
           t \in own[s] \/ (m.cmd = "subscribe" /\ m.from = s /\ m.topic = t)
    OBVIOUS
  <2> QED
    BY <1>2, <2>1, <2>2
<1> QED
  BY <1>3, <1>4, <1>5 DEF TopicsKnown

(* Which messages are in transit after each step of the broker.            *)
LEMMA WaitingType ==
  ASSUME TypeOK
  PROVE  /\ Waiting \subseteq Message
         /\ InTransit \subseteq Message
  BY DEF Waiting, InTransit, TypeOK, MsgBusTypeOK, BrokerTypeOK

LEMMA ReceiveTransit ==
  ASSUME TypeOK, BrokerReceive
  PROVE  InTransit' = InTransit /\ Waiting = Waiting' \cup {buf'} /\ buf' # NoMsg
<1>1. /\ q[Brk] \in Seq(Message) /\ q[Brk] # <<>> /\ q'[Brk] = Tail(q[Brk])
      /\ buf' = Head(q[Brk]) /\ pc[Brk] = "msgrcv" /\ pc'[Brk] = "handle"
  BY DEF BrokerReceive, MsgRcv, Goto, TypeOK, MsgBusTypeOK
<1>2. \A i \in 1..Len(q'[Brk]) : i + 1 \in 1..Len(q[Brk]) /\ q'[Brk][i] = q[Brk][i + 1]
  BY <1>1
<1>3. ASSUME NEW i \in 1..Len(q[Brk])
      PROVE  q[Brk][i] = buf' \/ \E j \in 1..Len(q'[Brk]) : q'[Brk][j] = q[Brk][i]
  <2>1. CASE i = 1
    BY <1>1, <2>1
  <2>2. CASE i # 1
    <3>1. i - 1 \in 1..Len(q'[Brk]) /\ q'[Brk][i - 1] = q[Brk][i]
      BY <1>1, <2>2
    <3> QED
      BY <3>1
  <2> QED
    BY <2>1, <2>2
<1>4. 1 \in 1..Len(q[Brk]) /\ q[Brk][1] = buf'
  BY <1>1
<1>5. Waiting = Waiting' \cup {buf'}
  BY <1>2, <1>3, <1>4 DEF Waiting
<1>6. buf' # NoMsg
  BY <1>1, <1>4, NoMsgAssumption
<1> QED
  BY <1>1, <1>5, <1>6 DEF InTransit

LEMMA TopicsBrokerStep ==
  ASSUME TypeOK, SignalInv, TopicsKnown, BrokerStep
  PROVE  TopicsKnown'
<1> USE ProcAssumption DEF subVars, pubVars, brokerVars, queueVars
<1>u. UNCHANGED <<subVars, pubVars>>
  BY DEF BrokerStep
<1>w. /\ running \in [Proc -> BOOLEAN] /\ pc \in [Proc -> Place] /\ Brk \in Proc
      /\ buf \in Message \cup {NoMsg} /\ q \in [Dests -> Seq(Message)]
      /\ topicsOf \in [Subs -> SUBSET Topics]
      /\ subList \in Seq(Subs)
  BY DEF TypeOK, MsgBusTypeOK, BrokerTypeOK
<1>s. \A s \in Subs : s \in Proc /\ s # Brk
  BY ProcAssumption
<1>1. CASE BrokerReceive
  <2>1. UNCHANGED <<topicsOf, own, queue>> /\ pc'[Brk] = "handle"
        /\ \A s \in Subs : pc'[s] = pc[s]
    BY <1>u, <1>w, <1>s, <1>1 DEF BrokerReceive, MsgRcv, Goto
  <2> QED
    BY <1>1, <2>1, ReceiveTransit, SameTransit DEF Exited
<1>2. CASE BrokerReceiveInterrupted
  <2>1. UNCHANGED <<topicsOf, own, buf, q, queue>> /\ pc[Brk] = "msgrcv"
        /\ \/ pc'[Brk] = "handle" /\ buf # NoMsg
           \/ pc'[Brk] = "top"
        /\ \A s \in Subs : pc'[s] = pc[s]
    BY <1>u, <1>w, <1>s, <1>2 DEF BrokerReceiveInterrupted, Goto
  <2>2. CASE pc'[Brk] = "handle" /\ buf # NoMsg
    <3>1. InTransit' = InTransit \cup {buf}
      BY <2>1, <2>2 DEF InTransit, Waiting
    <3>2. \A s \in Subs : \A t :
             t \in Pending(s, "subscribe")' => t \in Pending(s, "subscribe") \cup topicsOf[s]
      <4>1. \A s \in Subs : \A t : t \in Pending(s, "subscribe")' <=>
               \E m \in InTransit' : m.cmd = "subscribe" /\ m.from = s /\ m.topic = t
        BY DEF Pending
      <4>2. buf.cmd = "subscribe" => buf.topic \in topicsOf[buf.from]
        BY <2>1, <2>2 DEF TopicsKnown
      <4> QED
        BY <3>1, <4>1, <4>2, PendingTopic
    <3>3. \A s \in Subs : Pending(s, "subscribe") \subseteq Pending(s, "subscribe")'
      BY <3>1 DEF Pending
    <3>4. \A s \in Subs : KnownTopics(s)' = KnownTopics(s)
      BY <2>1, <3>2, <3>3 DEF KnownTopics
    <3> QED
      BY <2>1, <2>2, <3>4 DEF TopicsKnown, Exited, Alive
  <2>3. CASE pc'[Brk] = "top"
    <3>1. InTransit' = InTransit
      BY <2>1, <2>3 DEF InTransit, Waiting
    <3> QED
      BY <2>1, <3>1, SameTransit DEF Exited
  <2> QED
    BY <2>1, <2>2, <2>3
<1>3. CASE HandleSubscribe
  <2>1. /\ UNCHANGED <<own, buf, q, queue>> /\ pc[Brk] = "handle" /\ pc'[Brk] = "top"
        /\ buf.cmd = "subscribe" /\ buf.from \in Subs
        /\ topicsOf' = [topicsOf EXCEPT ![buf.from] = @ \cup {buf.topic}]
        /\ \A s \in Subs : pc'[s] = pc[s]
    BY <1>u, <1>w, <1>s, <1>3, MessageKinds
       DEF HandleSubscribe, Goto, Request, TypeOK, BrokerTypeOK
  <2>2. InTransit = InTransit' \cup {buf}
    BY <2>1 DEF InTransit, Waiting
  <2>3. \A s \in Subs : \A t : t \in Pending(s, "subscribe") <=>
           t \in Pending(s, "subscribe")' \/ (buf.from = s /\ buf.topic = t)
    <3>1. \A s \in Subs : \A t : t \in Pending(s, "subscribe")' <=>
             \E m \in InTransit' : m.cmd = "subscribe" /\ m.from = s /\ m.topic = t
      BY DEF Pending
    <3> QED
      BY <2>1, <2>2, <3>1, PendingTopic
  <2>4. \A s \in Subs : KnownTopics(s)' = KnownTopics(s)
    BY <1>w, <2>1, <2>3 DEF KnownTopics
  <2>5. buf'.topic \in topicsOf'[buf'.from]
    BY <1>w, <2>1
  <2> QED
    BY <2>1, <2>4, <2>5 DEF TopicsKnown, Exited, Alive
<1>4. CASE HandleSend \/ HandleUnsubscribe
  <2>1. /\ UNCHANGED <<own, topicsOf, buf, q, queue>> /\ pc[Brk] = "handle"
        /\ pc'[Brk] # "handle" /\ buf.cmd # "subscribe"
        /\ \A s \in Subs : pc'[s] = pc[s]
    BY <1>u, <1>w, <1>s, <1>4 DEF HandleSend, HandleUnsubscribe, Goto
  <2>2. InTransit = InTransit' \cup {buf}
    BY <2>1 DEF InTransit, Waiting
  <2> QED
    BY <2>1, <2>2, SameTransit DEF Exited
<1>5. CASE RemoveQueue
  <2>1. /\ UNCHANGED <<own, topicsOf, buf>> /\ queue' = "removed"
        /\ pc[Brk] = "rmid" /\ pc'[Brk] = "exited" /\ q'[Brk] = <<>>
        /\ \A s \in Subs : pc'[s] = pc[s]
    BY <1>u, <1>w, <1>s, <1>5 DEF RemoveQueue, Goto
  <2>2. InTransit' = {}
    BY <2>1 DEF InTransit, Waiting
  <2>3. \A s \in Subs : Pending(s, "subscribe")' = {}
    BY <2>2 DEF Pending
  <2> QED
    BY <2>1, <2>3 DEF TopicsKnown, KnownTopics, Exited
<1>6. ASSUME UNCHANGED <<own, topicsOf, buf>>, pc[Brk] # "handle", pc'[Brk] # "handle",
             q'[Brk] = q[Brk], queue' # "removed" => queue # "removed",
             \A s \in Subs : pc'[s] = pc[s]
      PROVE  TopicsKnown'
  <2>1. InTransit' = InTransit
    BY <1>6 DEF InTransit, Waiting
  <2> QED
    BY <1>6, <2>1, SameTransit DEF Exited
<1>7. CASE BrokerStart \/ BrokerReady \/ BrokerLoop
  <2>1. pc[Brk] = "off" => queue # "removed"
    BY DEF SignalInv
  <2> QED
    BY <1>6, <1>7, <1>u, <1>w, <1>s, <2>1 DEF BrokerStart, BrokerReady, BrokerLoop, Goto
<1>8. CASE FanoutSend
  <2>1. subList[cursor] # Brk
    BY <1>8, <1>s DEF FanoutSend, TypeOK, BrokerTypeOK
  <2> QED
    BY <1>6, <1>8, <1>u, <1>w, <1>s, <2>1 DEF FanoutSend, MsgSnd, Goto
<1>9. CASE FanoutNext \/ FanoutInterrupted \/ FanoutDone
  BY <1>6, <1>9, <1>u, <1>w, <1>s DEF FanoutNext, FanoutInterrupted, FanoutDone, Goto
<1>10. CASE KillNext
  BY <1>6, <1>10, <1>u DEF KillNext, Signal, Handle, procVars
<1>11. CASE KillDone \/ WaitSecond \/ WaitTimeout
  BY <1>6, <1>11, <1>u, <1>w, <1>s DEF KillDone, WaitSecond, WaitTimeout, Goto
<1> QED
  BY <1>1, <1>2, <1>3, <1>4, <1>5, <1>7, <1>8, <1>9, <1>10, <1>11
     DEF BrokerStep, BrokerNext

LEMMA EnqueueTransit ==
  ASSUME TypeOK, NEW m \in Message, MsgSnd(Brk, m), UNCHANGED buf, pc'[Brk] = pc[Brk]
  PROVE  Waiting' = Waiting \cup {m} /\ InTransit' = InTransit \cup {m}
<1>1. q[Brk] \in Seq(Message) /\ q'[Brk] = Append(q[Brk], m)
  BY DEF MsgSnd, TypeOK, MsgBusTypeOK
<1>2. /\ Len(q'[Brk]) = Len(q[Brk]) + 1 /\ Len(q[Brk]) \in Nat
      /\ \A i \in 1..Len(q[Brk]) : i \in 1..Len(q'[Brk]) /\ q'[Brk][i] = q[Brk][i]
      /\ q'[Brk][Len(q[Brk]) + 1] = m
  BY <1>1
<1>3. Len(q[Brk]) + 1 \in 1..Len(q'[Brk])
  BY <1>2
<1>4. \A i \in 1..Len(q'[Brk]) : i \in 1..Len(q[Brk]) \/ i = Len(q[Brk]) + 1
  BY <1>2
<1>5. Waiting' = Waiting \cup {m}
  BY <1>2, <1>3, <1>4 DEF Waiting
<1> QED
  BY <1>5 DEF InTransit

LEMMA SameWaiting ==
  ASSUME q'[Brk] = q[Brk], UNCHANGED buf, pc'[Brk] = pc[Brk]
  PROVE  Waiting' = Waiting /\ InTransit' = InTransit
  BY DEF Waiting, InTransit

LEMMA TopicsSubStep ==
  ASSUME TypeOK, TopicsKnown, NEW s \in Subs, SubStep(s)
  PROVE  TopicsKnown'
<1> USE ProcAssumption DEF brokerVars, pubVars, queueVars, subVars
<1>u. UNCHANGED <<topicsOf, buf>>
  BY DEF SubStep
<1>w. /\ pc \in [Proc -> Place] /\ s # Brk /\ s \in Proc
      /\ q \in [Dests -> Seq(Message)] /\ own \in [Subs -> SUBSET Topics]
  BY DEF TypeOK, MsgBusTypeOK, SubscriberTypeOK
<1>v. /\ pc'[Brk] = pc[Brk] /\ UNCHANGED queue
      /\ \A r \in Subs \ {s} : pc'[r] = pc[r]
      /\ pc[s] # "exited" /\ pc'[s] # "off"
  BY <1>w DEF SubStep, SubNext, SubStart, SubSubscribe, SubSubscribeCrash,
     SubSubscribeDone, SubSubscribeFails, SubLoop, SubReceive, SubReceiveInterrupted,
     SubReceiveRemoved, SubUnsubscribe, SubUnsubscribeDone, SubUnsubscribeFails, Goto,
     MsgSnd, MsgRcv
<1>p. \A r \in Subs : /\ pc'[r] = "off" => pc[r] = "off"
                      /\ Exited(r) => Exited(r)'
  BY <1>v DEF Exited
<1>1. ASSUME NEW t \in Topics, NEW c \in {"subscribe", "unsubscribe"},
             MsgSnd(Brk, Ask(s, c, t)), Alive(s), Alive(s)' \/ UNCHANGED own,
             \A r \in Subs : own'[r] = IF c = "subscribe" /\ r = s /\ ~Exited(s)'
                                         THEN own[r] \cup {t} ELSE own[r]
      PROVE  TopicsKnown'
  <2> DEFINE m == Ask(s, c, t)
  <2>1. m \in Message /\ m.cmd = c /\ m.from = s /\ m.topic = t
    BY DEF Ask, Message, Request
  <2> HIDE DEF m
  <2>2. InTransit' = InTransit \cup {m}
    BY <1>1, <1>u, <1>v, <2>1, EnqueueTransit DEF m
  <2>3. \A r \in Subs : /\ Alive(r)' => Alive(r)
                        /\ own'[r] = IF m.cmd = "subscribe" /\ m.from = r /\ ~Exited(r)'
                                       THEN own[r] \cup {m.topic} ELSE own[r]
    BY <1>1, <1>v, <2>1 DEF Alive, Exited
  <2> QED
    BY <1>1, <1>u, <1>v, <1>p, <2>1, <2>2, <2>3, NewTransit
<1>2. CASE SubSubscribe(s)
  <2>1. PICK t \in Topics : /\ MsgSnd(Brk, Ask(s, "subscribe", t))
                            /\ own' = [own EXCEPT ![s] = @ \cup {t}]
    BY <1>2 DEF SubSubscribe
  <2>2. pc[s] = "subscribe" /\ pc'[s] = "subscribe"
    BY <1>2, <1>w DEF SubSubscribe, Goto
  <2>3. \A r \in Subs : own'[r] = IF r = s THEN own[r] \cup {t} ELSE own[r]
    BY <1>w, <2>1
  <2> QED
    BY <1>1, <2>1, <2>2, <2>3 DEF Alive, Exited
<1>3. CASE SubSubscribeCrash(s)
  <2>1. /\ pc[s] = "subscribe" /\ pc'[s] = "exited" /\ UNCHANGED own
        /\ \E t \in Topics : MsgSnd(Brk, Ask(s, "subscribe", t))
    BY <1>3, <1>w DEF SubSubscribeCrash, Goto
  <2> QED
    BY <1>1, <2>1 DEF Alive, Exited
<1>4. CASE SubUnsubscribe(s)
  <2>1. unsent[s] \subseteq Topics
    BY DEF TypeOK, SubscriberTypeOK
  <2>2. /\ pc[s] = "unsubscribe" /\ UNCHANGED own
        /\ \E t \in Topics : MsgSnd(Brk, Ask(s, "unsubscribe", t))
    BY <1>4, <2>1 DEF SubUnsubscribe
  <2> QED
    BY <1>1, <2>2 DEF Alive, Exited
<1>5. ASSUME q'[Brk] = q[Brk], UNCHANGED own PROVE TopicsKnown'
  <2>1. InTransit' = InTransit
    BY <1>5, <1>u, <1>v, SameWaiting
  <2>2. CASE pc[Brk] # "handle"
    BY <1>5, <1>u, <1>v, <1>p, <2>1, <2>2, SameTransit
  <2>3. CASE pc[Brk] = "handle"
    BY <1>5, <1>u, <1>v, <1>p, <2>1, <2>3, SameTransit
  <2> QED
    BY <2>2, <2>3
<1>6. CASE SubReceive(s)
  BY <1>5, <1>6, <1>w DEF SubReceive, MsgRcv
<1>7. CASE \/ SubStart(s) \/ SubSubscribeDone(s) \/ SubSubscribeFails(s) \/ SubLoop(s)
           \/ SubReceiveInterrupted(s) \/ SubReceiveRemoved(s)
           \/ SubUnsubscribeDone(s) \/ SubUnsubscribeFails(s)
  BY <1>5, <1>7 DEF SubStart, SubSubscribeDone, SubSubscribeFails, SubLoop,
     SubReceiveInterrupted, SubReceiveRemoved, SubUnsubscribeDone, SubUnsubscribeFails
<1> QED
  BY <1>2, <1>3, <1>4, <1>6, <1>7 DEF SubStep, SubNext

LEMMA TopicsStep ==
  ASSUME TypeOK, SignalInv, TopicsKnown, [Next]_vars
  PROVE  TopicsKnown'
<1> USE ProcAssumption DEF brokerVars, queueVars, subVars
<1>w. pc \in [Proc -> Place] /\ q \in [Dests -> Seq(Message)]
      /\ published \in [Pubs -> Seq(Topics)]
  BY DEF TypeOK, MsgBusTypeOK, PublisherTypeOK
<1>1. ASSUME q'[Brk] = q[Brk], UNCHANGED <<buf, topicsOf, own, queue>>, pc'[Brk] = pc[Brk],
             \A s \in Subs : pc'[s] = pc[s]
      PROVE  TopicsKnown'
  BY <1>1, SameWaiting, SameTransit DEF Exited
<1>2. ASSUME NEW p \in Pubs, PubStep(p) PROVE TopicsKnown'
  <2>1. UNCHANGED <<buf, topicsOf, own>>
    BY <1>2 DEF PubStep
  <2>2. pc'[Brk] = pc[Brk] /\ UNCHANGED queue /\ \A s \in Subs : pc'[s] = pc[s]
    BY <1>2, <1>w DEF PubStep, PubNext, PubStart, PubLoop, PubSend, Goto, MsgSnd
  <2>3. CASE q'[Brk] = q[Brk]
    BY <1>1, <2>1, <2>2, <2>3
  <2>4. ASSUME NEW t \in Topics, MsgSnd(Brk, Publish(p, t)) PROVE TopicsKnown'
    <3> DEFINE m == Publish(p, t)
    <3>1. m \in Message /\ m.cmd = "send"
      BY <1>w DEF Publish, Message, Publication
    <3> HIDE DEF m
    <3>2. InTransit' = InTransit \cup {m}
      BY <2>1, <2>2, <2>4, <3>1, EnqueueTransit DEF m
    <3> QED
      BY <2>1, <2>2, <3>1, <3>2, NewTransit DEF Exited, Alive
  <2> QED
    BY <1>2, <2>3, <2>4 DEF PubStep, PubNext, PubStart, PubLoop, PubSend
<1>3. ASSUME NEW p \in Proc, UserStep(p) PROVE TopicsKnown'
  <2>1. UNCHANGED <<q, buf, topicsOf, own, queue>>
    BY <1>3 DEF UserStep, Interrupt
  <2>2. CASE UNCHANGED pc
    BY <1>1, <2>1, <2>2
  <2>3. CASE pc[p] = "init" /\ Goto(p, "exited")
    <3>1. p = Brk
      BY <2>3 DEF TypeOK, SubscriberTypeOK, PublisherTypeOK
    <3>2. /\ pc[Brk] # "handle" /\ pc'[Brk] # "handle"
          /\ \A s \in Subs : pc'[s] = pc[s]
      BY <1>w, <2>3, <3>1 DEF Goto
    <3>3. InTransit' = InTransit
      BY <2>1, <3>2 DEF InTransit, Waiting
    <3> QED
      BY <2>1, <3>2, <3>3, SameTransit DEF Exited
  <2> QED
    BY <1>3, <2>2, <2>3 DEF UserStep, Interrupt, Handle
<1>4. CASE UNCHANGED vars
  BY <1>1, <1>4 DEF vars, procVars
<1> QED
  BY <1>2, <1>3, <1>4, TopicsBrokerStep, TopicsSubStep DEF Next, Finished
-----------------------------------------------------------------------------
(* What the subscribers are given.                                         *)

LEMMA AppendElements ==
  \A a \in Seq(Publication), e \in Publication :
     {Append(a, e)[i] : i \in 1..Len(Append(a, e))} = {a[i] : i \in 1..Len(a)} \cup {e}
<1> TAKE a \in Seq(Publication), e \in Publication
<1>1. /\ Len(Append(a, e)) = Len(a) + 1 /\ Len(a) \in Nat
      /\ \A i \in 1..Len(a) : Append(a, e)[i] = a[i]
      /\ Append(a, e)[Len(a) + 1] = e
  OBVIOUS
<1>2. \A i \in 1..Len(Append(a, e)) : i \in 1..Len(a) \/ i = Len(a) + 1
  BY <1>1
<1>3. /\ \A i \in 1..Len(a) : i \in 1..Len(Append(a, e))
      /\ Len(a) + 1 \in 1..Len(Append(a, e))
  BY <1>1
<1> HIDE <1>1
<1>4. /\ \A i \in 1..Len(a) : Append(a, e)[i] = a[i]
      /\ Append(a, e)[Len(a) + 1] = e
  BY <1>1
<1> QED
  BY <1>2, <1>3, <1>4

(* The broker gives the subscriber at the cursor what is in its buffer.    *)
LEMMA GivenBySend ==
  ASSUME TypeOK, FanoutSend, UNCHANGED subVars, NEW s \in Subs
  PROVE  IF s = subList[cursor] THEN Given(s)' = Given(s) \cup {buf}
                                ELSE Given(s)' = Given(s)
<1> USE ProcAssumption DEF subVars
<1>t. /\ buf \in Publication
      /\ q \in [Subs \cup {Brk} -> Seq(Message)]
      /\ q[s] \in Seq(Publication) /\ got[s] \in Seq(Publication) /\ got'[s] = got[s]
  BY MessageKinds DEF FanoutSend, TypeOK, MsgBusTypeOK, BrokerTypeOK, SubscriberTypeOK
<1>q. q' = [q EXCEPT ![subList[cursor]] = Append(@, buf)]
  BY DEF FanoutSend, MsgSnd
<1>1. CASE s # subList[cursor]
  <2>1. q'[s] = q[s]
    BY <1>t, <1>q, <1>1
  <2> QED
    BY <1>1, <1>t, <2>1 DEF Given, Sent
<1>2. CASE s = subList[cursor]
  <2>1. q'[s] = Append(q[s], buf)
    BY <1>t, <1>q, <1>2
  <2>2. got[s] \o Append(q[s], buf) = Append(got[s] \o q[s], buf)
    <3>1. got[s] \in Seq(Publication) /\ q[s] \in Seq(Publication) /\ buf \in Publication
      BY <1>t
    <3> HIDE <1>t, <1>q, <2>1
    <3>2. \A a, b \in Seq(Publication), e \in Publication :
            a \o Append(b, e) = Append(a \o b, e)
      BY AppendAfter
    <3> QED
      BY <3>1, <3>2, Zenon
  <2>3. Sent(s)' = Append(Sent(s), buf)
    BY <1>t, <2>1, <2>2 DEF Sent
  <2>4. Given(s)' = {Append(Sent(s), buf)[i] : i \in 1..Len(Append(Sent(s), buf))}
    BY <2>3, Zenon DEF Given
  <2>5. Sent(s) \in Seq(Publication)
    BY SentType
  <2>6. {Append(Sent(s), buf)[i] : i \in 1..Len(Append(Sent(s), buf))}
           = {Sent(s)[i] : i \in 1..Len(Sent(s))} \cup {buf}
    <3>1. buf \in Publication
      BY <1>t
    <3> QED
      BY <2>5, <3>1, AppendElements, Zenon
  <2> QED
    BY <1>2, <2>4, <2>6, Zenon DEF Given
<1> QED
  BY <1>1, <1>2

(* Reporting a message, or the last one again, gives nothing new.          *)
LEMMA GivenByReport ==
  ASSUME TypeOK, ShutdownFacts, NEW s \in Subs, SubStep(s), NEW r \in Subs
  PROVE  Given(r)' = Given(r)
<1> USE ProcAssumption DEF brokerVars, pubVars, queueVars, subVars
<1>w. /\ s # Brk /\ q \in [Dests -> Seq(Message)] /\ got \in [Subs -> Seq(Publication)]
      /\ q[r] \in Seq(Publication) /\ q[s] \in Seq(Publication)
      /\ got[s] \in Seq(Publication)
  BY DEF TypeOK, MsgBusTypeOK, SubscriberTypeOK
<1>1. CASE Sent(r)' = Sent(r)
  BY <1>1, Zenon DEF Given
<1>2. CASE SubReceive(s)
  <2>1. /\ q[s] # <<>> /\ q'[s] = Tail(q[s]) /\ got'[s] = Append(got[s], Head(q[s]))
        /\ r # s => q'[r] = q[r] /\ got'[r] = got[r]
    BY <1>2, <1>w DEF SubReceive, MsgRcv
  <2>2. Append(got[s], Head(q[s])) \o Tail(q[s]) = got[s] \o q[s]
    BY <1>w, <2>1
  <2> QED
    BY <1>1, <2>1, <2>2 DEF Sent
<1>3. CASE SubReceiveRemoved(s)
  <2>1. UNCHANGED q /\ q[s] = <<>>
    BY <1>3 DEF SubReceiveRemoved, ShutdownFacts
  <2>2. CASE UNCHANGED got
    BY <1>1, <2>1, <2>2 DEF Sent
  <2>3. CASE /\ got[s] # <<>>
             /\ got' = [got EXCEPT ![s] = Append(@, got[s][Len(got[s])])]
    <3>1. CASE r # s
      <4>1. got'[r] = got[r]
        BY <1>w, <2>3, <3>1
      <4> QED
        BY <1>1, <2>1, <4>1 DEF Sent
    <3>2. CASE r = s
      <4> DEFINE last == got[s][Len(got[s])]
      <4>1. Len(got[s]) \in 1..Len(got[s])
        BY <1>w, <2>3
      <4>2. last \in Publication
        BY <1>w, <4>1
      <4>3. got'[s] = Append(got[s], last)
        BY <1>w, <2>3
      <4>4. Append(got[s], last) \in Seq(Publication)
        BY <1>w, <4>2
      <4> HIDE DEF last
      <4>5. \A e \in Seq(Publication) : e \o <<>> = e
        OBVIOUS
      <4>6. Sent(s) = got[s] /\ Sent(s)' = Append(got[s], last)
        BY <1>w, <2>1, <4>3, <4>4, <4>5 DEF Sent
      <4>7. {Append(got[s], last)[i] : i \in 1..Len(Append(got[s], last))}
               = {got[s][i] : i \in 1..Len(got[s])} \cup {last}
        <5>1. got[s] \in Seq(Publication)
          BY <1>w
        <5> QED
          BY <4>2, <5>1, AppendElements, Zenon
      <4>8. last \in {got[s][i] : i \in 1..Len(got[s])}
        BY <4>1 DEF last
      <4>9. Given(s)' = {Append(got[s], last)[i] : i \in 1..Len(Append(got[s], last))}
        BY <4>6, Zenon DEF Given
      <4>10. Given(s) = {got[s][i] : i \in 1..Len(got[s])}
        BY <4>6, Zenon DEF Given
      <4> QED
        BY <3>2, <4>7, <4>8, <4>9, <4>10
    <3> QED
      BY <3>1, <3>2
  <2> QED
    BY <1>3, <2>2, <2>3 DEF SubReceiveRemoved
<1>4. ASSUME q'[r] = q[r], got'[r] = got[r] PROVE Given(r)' = Given(r)
  BY <1>1, <1>4 DEF Sent
<1>5. ASSUME NEW m, MsgSnd(Brk, m), UNCHANGED got PROVE Given(r)' = Given(r)
  <2>1. q'[r] = q[r]
    BY <1>5, <1>w DEF MsgSnd
  <2> QED
    BY <1>4, <1>5, <2>1
<1> QED
  BY <1>2, <1>3, <1>4, <1>5 DEF SubStep, SubNext, SubStart, SubSubscribe,
     SubSubscribeCrash, SubSubscribeDone, SubSubscribeFails, SubLoop,
     SubReceiveInterrupted, SubUnsubscribe, SubUnsubscribeDone, SubUnsubscribeFails

LEMMA GivenStep ==
  ASSUME TypeOK, ShutdownFacts, [Next]_vars, NEW s \in Subs
  PROVE  \/ Given(s)' = Given(s)
         \/ FanoutSend /\ s = subList[cursor] /\ Given(s)' = Given(s) \cup {buf}
         \/ RemoveQueue /\ Given(s)' \subseteq Given(s)
<1> USE ProcAssumption DEF brokerVars, pubVars, queueVars, subVars
<1>w. /\ s # Brk /\ q \in [Dests -> Seq(Message)] /\ got \in [Subs -> Seq(Publication)]
      /\ q[s] \in Seq(Publication) /\ got[s] \in Seq(Publication)
  BY DEF TypeOK, MsgBusTypeOK, SubscriberTypeOK
<1>1. ASSUME q'[s] = q[s], got'[s] = got[s] PROVE Given(s)' = Given(s)
  BY <1>1 DEF Given, Sent
<1>2. CASE UNCHANGED vars
  BY <1>1, <1>2 DEF vars
<1>3. CASE BrokerStep
  <2>1. UNCHANGED <<got, subVars>>
    BY <1>3 DEF BrokerStep
  <2>2. CASE FanoutSend
    BY <2>1, <2>2, GivenBySend
  <2>3. CASE RemoveQueue
    <3>1. q'[s] = <<>> /\ \A e \in Seq(Publication) : e \o <<>> = e
      BY <2>3 DEF RemoveQueue
    <3>2. Sent(s)' = got[s]
      BY <1>w, <2>1, <3>1 DEF Sent
    <3>3. \A i \in 1..Len(got[s]) : i \in 1..Len(Sent(s)) /\ Sent(s)[i] = got[s][i]
      <4>1. got[s] \in Seq(Publication) /\ q[s] \in Seq(Publication)
        BY <1>w
      <4>2. \A i \in 1..Len(got[s]) :
               i \in 1..Len(got[s] \o q[s]) /\ (got[s] \o q[s])[i] = got[s][i]
        <5>1. \A a, b \in Seq(Publication) : \A i \in 1..Len(a) :
                 i \in 1..Len(a \o b) /\ (a \o b)[i] = a[i]
          BY PrefixOfConcat
        <5> QED
          BY <4>1, <5>1, Zenon
      <4> QED
        BY <4>2, Zenon DEF Sent
    <3>4. Given(s)' \subseteq Given(s)
      BY <3>2, <3>3 DEF Given
    <3> QED
      BY <2>3, <3>4
  <2>4. CASE BrokerReceive
    BY <1>1, <1>w, <2>1, <2>4 DEF BrokerReceive, MsgRcv
  <2> QED
    BY <1>1, <1>3, <2>1, <2>2, <2>3, <2>4 DEF BrokerStep, BrokerNext, BrokerStart,
       BrokerReady, BrokerLoop, BrokerReceiveInterrupted, HandleSend, HandleSubscribe,
       HandleUnsubscribe, FanoutNext, FanoutInterrupted, FanoutDone, KillNext, KillDone,
       WaitSecond, WaitTimeout
<1>4. ASSUME NEW r \in Subs, SubStep(r) PROVE Given(s)' = Given(s)
  BY <1>4, GivenByReport
<1>5. ASSUME NEW p \in Pubs, PubStep(p) PROVE Given(s)' = Given(s)
  <2>1. UNCHANGED got
    BY <1>5 DEF PubStep
  <2>2. q'[s] = q[s]
    BY <1>5, <1>w DEF PubStep, PubNext, PubStart, PubLoop, PubSend, MsgSnd
  <2> QED
    BY <1>1, <2>1, <2>2
<1>6. ASSUME NEW p \in Proc, UserStep(p) PROVE Given(s)' = Given(s)
  BY <1>1, <1>6 DEF UserStep, Interrupt
<1> QED
  BY <1>2, <1>3, <1>4, <1>5, <1>6 DEF Next, Finished

(* The walk serves one subscriber after the other, and while it is under   *)
(* way nobody joins the list and nobody's topics change.                   *)
LEMMA WalkStep ==
  ASSUME TypeOK, ShutdownFacts, WalkServes, [Next]_vars
  PROVE  WalkServes'
<1> USE ProcAssumption DEF brokerVars, pubVars, queueVars, subVars
<1>w. /\ pc \in [Proc -> Place] /\ subList \in Seq(Subs) /\ cursor \in Nat \ {0}
      /\ topicsOf \in [Subs -> SUBSET Topics] /\ Len(subList) \in Nat
      /\ \A k \in 1..Len(subList) : subList[k] \in Subs
  BY DEF TypeOK, MsgBusTypeOK, BrokerTypeOK
<1>1. ASSUME UNCHANGED <<subList, topicsOf>>, pc'[Brk] \notin {"fanout", "msgsnd"}
      PROVE  WalkServes'
  BY <1>1 DEF WalkServes, InList
<1>2. ASSUME UNCHANGED <<subList, topicsOf, buf, cursor>>, pc'[Brk] = pc[Brk],
             ~FanoutSend, ~RemoveQueue
      PROVE  WalkServes'
  <2>1. \A s \in Subs : Given(s)' = Given(s)
    BY <1>2, GivenStep
  <2> QED
    BY <1>2, <1>w, <2>1 DEF WalkServes, InList
<1>3. CASE BrokerStart \/ BrokerReady \/ BrokerLoop \/ BrokerReceive
           \/ BrokerReceiveInterrupted \/ HandleUnsubscribe \/ FanoutInterrupted
           \/ FanoutDone \/ KillDone \/ WaitSecond \/ WaitTimeout \/ RemoveQueue
  BY <1>1, <1>3, <1>w DEF BrokerStart, BrokerReady, BrokerLoop, BrokerReceive,
     BrokerReceiveInterrupted, HandleUnsubscribe, FanoutInterrupted, FanoutDone,
     KillDone, WaitSecond, WaitTimeout, RemoveQueue, Goto
<1>4. CASE KillNext
  BY <1>1, <1>4 DEF KillNext, Signal, Handle, procVars
<1>5. CASE HandleSend
  <2>1. UNCHANGED <<subList, topicsOf>> /\ cursor' = 1 /\ pc'[Brk] = "fanout"
    BY <1>5, <1>w DEF HandleSend, Goto
  <2> QED
    BY <1>w, <2>1 DEF WalkServes, InList
<1>6. CASE HandleSubscribe
  <2>1. /\ subList' = Register(subList, buf.from) /\ buf.from \in Subs
        /\ topicsOf' = [topicsOf EXCEPT ![buf.from] = @ \cup {buf.topic}]
        /\ pc'[Brk] = "top"
    BY <1>6, <1>w, MessageKinds
       DEF HandleSubscribe, Goto, Request, TypeOK, BrokerTypeOK
  <2>2. \A s \in Subs : InList(subList, s) \/ s = buf.from => InList(subList', s)
    <3>1. CASE InList(subList, buf.from)
      BY <2>1, <3>1 DEF Register
    <3>2. CASE ~InList(subList, buf.from)
      <4>1. subList' = Append(subList, buf.from)
        BY <2>1, <3>2 DEF Register
      <4>2. /\ \A k \in 1..Len(subList) : k \in 1..Len(subList') /\ subList'[k] = subList[k]
            /\ Len(subList) + 1 \in 1..Len(subList') /\ subList'[Len(subList) + 1] = buf.from
        BY <1>w, <2>1, <4>1
      <4> QED
        BY <4>2 DEF InList
    <3> QED
      BY <3>1, <3>2
  <2>3. \A s \in Subs : topicsOf'[s] # {} => topicsOf[s] # {} \/ s = buf.from
    BY <1>w, <2>1
  <2> QED
    BY <2>1, <2>2, <2>3 DEF WalkServes, InList
<1>7. CASE FanoutNext
  <2>1. /\ UNCHANGED <<q, subList, topicsOf, buf>> /\ pc[Brk] = "fanout"
        /\ cursor \in 1..Len(subList) /\ ~FanoutSend /\ ~RemoveQueue
    BY <1>7, <1>w DEF FanoutNext, FanoutSend, RemoveQueue
  <2>2. \A s \in Subs : Given(s)' = Given(s)
    BY <2>1, GivenStep
  <2>3. CASE buf.topic \in topicsOf[subList[cursor]]
    <3>1. pc'[Brk] = "msgsnd" /\ cursor' = cursor
      BY <1>7, <1>w, <2>3 DEF FanoutNext, Goto
    <3> QED
      BY <1>w, <2>1, <2>2, <2>3, <3>1 DEF WalkServes, InList
  <2>4. CASE buf.topic \notin topicsOf[subList[cursor]]
    <3>1. pc'[Brk] = "fanout" /\ cursor' = cursor + 1
      BY <1>7, <1>w, <2>1, <2>4 DEF FanoutNext
    <3>2. \A k \in 1..Len(subList) : k < cursor + 1 => k < cursor \/ k = cursor
      BY <1>w
    <3> QED
      BY <1>w, <2>1, <2>2, <2>4, <3>1, <3>2 DEF WalkServes, InList
  <2> QED
    BY <2>3, <2>4
<1>8. CASE FanoutSend /\ UNCHANGED subVars
  <2>1. /\ UNCHANGED <<subList, topicsOf, buf>> /\ pc[Brk] = "msgsnd"
        /\ pc'[Brk] = "fanout" /\ cursor' = cursor + 1
    BY <1>8, <1>w DEF FanoutSend, Goto
  <2>2. \A s \in Subs : /\ Given(s) \subseteq Given(s)'
                        /\ s = subList[cursor] => buf \in Given(s)'
    BY <1>8, GivenBySend
  <2>3. \A k \in 1..Len(subList) : k < cursor + 1 => k < cursor \/ k = cursor
    BY <1>w
  <2> QED
    BY <1>w, <2>1, <2>2, <2>3 DEF WalkServes, InList
<1>9. ASSUME NEW s \in Subs, SubStep(s) PROVE WalkServes'
  <2>1. UNCHANGED <<subList, topicsOf, buf, cursor>>
    BY <1>9 DEF SubStep
  <2>2. pc'[Brk] = pc[Brk]
    BY <1>9, <1>w DEF SubStep, SubNext, SubStart, SubSubscribe, SubSubscribeCrash,
       SubSubscribeDone, SubSubscribeFails, SubLoop, SubReceive, SubReceiveInterrupted,
       SubReceiveRemoved, SubUnsubscribe, SubUnsubscribeDone, SubUnsubscribeFails, Goto
  <2>3. ~FanoutSend /\ ~RemoveQueue
    BY <1>w, <2>2 DEF FanoutSend, RemoveQueue, Goto
  <2> QED
    BY <1>2, <2>1, <2>2, <2>3
<1>10. ASSUME NEW p \in Pubs, PubStep(p) PROVE WalkServes'
  <2>1. UNCHANGED <<subList, topicsOf, buf, cursor>>
    BY <1>10 DEF PubStep
  <2>2. pc'[Brk] = pc[Brk]
    BY <1>10, <1>w DEF PubStep, PubNext, PubStart, PubLoop, PubSend, Goto
  <2>3. ~FanoutSend /\ ~RemoveQueue
    BY <1>w, <2>2 DEF FanoutSend, RemoveQueue, Goto
  <2> QED
    BY <1>2, <2>1, <2>2, <2>3
<1>11. ASSUME NEW p \in Proc, UserStep(p) PROVE WalkServes'
  <2>1. UNCHANGED <<subList, topicsOf, buf, cursor, q>>
    BY <1>11 DEF UserStep, Interrupt
  <2>2. pc'[Brk] = pc[Brk] \/ (pc[Brk] = "init" /\ pc'[Brk] = "exited")
    BY <1>11, <1>w DEF UserStep, Interrupt, Handle, Goto
  <2>3. ~FanoutSend /\ ~RemoveQueue
    BY <1>w, <2>2 DEF FanoutSend, RemoveQueue, Goto
  <2> QED
    BY <1>1, <1>2, <2>1, <2>2, <2>3
<1>12. CASE UNCHANGED vars
  <2>1. pc'[Brk] = pc[Brk] /\ UNCHANGED <<subList, topicsOf, buf, cursor>>
    BY <1>12 DEF vars, procVars
  <2>2. ~FanoutSend /\ ~RemoveQueue
    BY <1>w, <2>1 DEF FanoutSend, RemoveQueue, Goto
  <2> QED
    BY <1>2, <2>1, <2>2
<1> QED
  BY <1>3, <1>4, <1>5, <1>6, <1>7, <1>8, <1>9, <1>10, <1>11, <1>12
     DEF Next, Finished, BrokerStep, BrokerNext

LEMMA GivenType == TypeOK => \A s \in Subs : Given(s) \subseteq Publication
  BY SentType DEF Given

(* What a publisher has said is never unsaid.                              *)
LEMMA GenuineStays ==
  ASSUME TypeOK, [Next]_vars
  PROVE  \A m \in Publication : Genuine(m) => Genuine(m)'
<1>w. published \in [Pubs -> Seq(Topics)]
  BY DEF TypeOK, PublisherTypeOK
<1>1. CASE UNCHANGED published
  BY <1>1 DEF Genuine
<1>2. ASSUME NEW p \in Pubs, NEW t \in Topics,
             published' = [published EXCEPT ![p] = Append(@, t)],
             NEW m \in Publication, Genuine(m)
      PROVE  Genuine(m)'
  <2>1. m.from \in Pubs /\ m.n \in Nat \ {0} /\ published[m.from] \in Seq(Topics)
    BY <1>w, <1>2 DEF Publication
  <2>2. m.n \in 1..Len(published[m.from]) /\ m.topic = published[m.from][m.n]
    BY <1>2, <2>1 DEF Genuine
  <2>3. /\ m.n <= Len(published'[m.from])
        /\ published'[m.from][m.n] = published[m.from][m.n]
    <3>1. CASE m.from = p
      <4>1. published'[p] = Append(published[p], t)
        BY <1>w, <1>2
      <4> QED
        BY <1>2, <2>1, <2>2, <3>1, <4>1
    <3>2. CASE m.from # p
      <4>1. published'[m.from] = published[m.from]
        BY <1>w, <1>2, <2>1, <3>2
      <4> QED
        BY <2>1, <2>2, <4>1
    <3> QED
      BY <3>1, <3>2
  <2> QED
    BY <2>2, <2>3 DEF Genuine
<1>3. UNCHANGED published \/ \E p \in Pubs, t \in Topics :
                                published' = [published EXCEPT ![p] = Append(@, t)]
  BY DEF Next, vars, pubVars, BrokerStep, SubStep, UserStep, PubStep, PubNext, PubStart,
     PubLoop, PubSend, Finished
<1> QED
  BY <1>1, <1>2, <1>3

(* A subscriber writes its topics down for good, until it ends.            *)
LEMMA OwnStays ==
  ASSUME TypeOK, [Next]_vars
  PROVE  \A s \in Subs : own[s] \subseteq own'[s] /\ (Exited(s) => Exited(s)')
<1> USE ProcAssumption DEF Exited
<1>w. own \in [Subs -> SUBSET Topics] /\ pc \in [Proc -> Place] /\ Subs \subseteq Proc
      /\ \A s \in Subs : s # Brk
  BY ProcAssumption DEF TypeOK, MsgBusTypeOK, SubscriberTypeOK
<1>1. ASSUME UNCHANGED own PROVE \A r \in Subs : own[r] \subseteq own'[r]
  BY <1>1
<1>2. ASSUME NEW s \in Subs, SubSubscribe(s) PROVE \A r \in Subs : own[r] \subseteq own'[r]
  BY <1>2, <1>w DEF SubSubscribe
<1>3. UNCHANGED own \/ \E s \in Subs : SubSubscribe(s)
  BY DEF Next, vars, subVars, BrokerStep, SubStep, UserStep, PubStep, Finished, SubNext,
     SubStart, SubSubscribeCrash, SubSubscribeDone, SubSubscribeFails, SubLoop,
     SubReceive, SubReceiveInterrupted, SubReceiveRemoved, SubUnsubscribe,
     SubUnsubscribeDone, SubUnsubscribeFails
<1>4. \A s \in Subs : Exited(s) => Exited(s)'
  <2>1. CASE BrokerStep
    BY <2>1, <1>w DEF BrokerStep, BrokerNext, BrokerStart, BrokerReady, BrokerLoop,
       BrokerReceive, BrokerReceiveInterrupted, HandleSend, HandleSubscribe,
       HandleUnsubscribe, FanoutNext, FanoutSend, FanoutInterrupted, FanoutDone, KillNext,
       KillDone, WaitSecond, WaitTimeout, RemoveQueue, Signal, Handle, procVars, Goto
  <2>2. ASSUME NEW r \in Subs, SubStep(r) PROVE \A s \in Subs : Exited(s) => Exited(s)'
    BY <2>2, <1>w DEF SubStep, SubNext, SubStart, SubSubscribe, SubSubscribeCrash,
       SubSubscribeDone, SubSubscribeFails, SubLoop, SubReceive, SubReceiveInterrupted,
       SubReceiveRemoved, SubUnsubscribe, SubUnsubscribeDone, SubUnsubscribeFails, Goto
  <2>3. ASSUME NEW p \in Pubs, PubStep(p) PROVE \A s \in Subs : Exited(s) => Exited(s)'
    BY <2>3, <1>w DEF PubStep, PubNext, PubStart, PubLoop, PubSend, Goto
  <2>4. ASSUME NEW p \in Proc, UserStep(p) PROVE \A s \in Subs : Exited(s) => Exited(s)'
    BY <2>4, <1>w DEF UserStep, Interrupt, Handle, Goto
  <2>5. CASE UNCHANGED vars
    BY <2>5 DEF vars, procVars
  <2> QED
    BY <2>1, <2>2, <2>3, <2>4, <2>5 DEF Next, Finished
<1> QED
  BY <1>1, <1>2, <1>3, <1>4

(* What a step brings into the queue or the buffer that was in neither.    *)
LEMMA NewMessage ==
  ASSUME TypeOK, [Next]_vars,
         NEW m \in Waiting' \cup ({buf'} \ {NoMsg}), m.cmd = "send"
  PROVE  m \in Waiting \cup ({buf} \ {NoMsg}) \/ (m \in Publication /\ Genuine(m)')
<1> USE ProcAssumption DEF brokerVars, pubVars, queueVars, subVars
<1>w. /\ pc \in [Proc -> Place] /\ q \in [Dests -> Seq(Message)] /\ Brk \in Proc
      /\ published \in [Pubs -> Seq(Topics)]
  BY DEF TypeOK, MsgBusTypeOK, PublisherTypeOK
<1> DEFINE Goal == m \in Waiting \cup ({buf} \ {NoMsg}) \/ (m \in Publication /\ Genuine(m)')
<1> SUFFICES Goal
  OBVIOUS
<1>1. ASSUME q'[Brk] = q[Brk], UNCHANGED buf PROVE Goal
  BY <1>1 DEF Waiting
<1>2. CASE BrokerReceive
  BY <1>2, ReceiveTransit
<1>3. CASE RemoveQueue
  BY <1>3 DEF RemoveQueue, Waiting
<1>4. CASE FanoutSend
  <2>1. subList[cursor] # Brk
    BY <1>4 DEF FanoutSend, TypeOK, BrokerTypeOK
  <2> QED
    BY <1>1, <1>4, <1>w, <2>1 DEF FanoutSend, MsgSnd
<1>5. ASSUME NEW s \in Subs, SubStep(s) PROVE Goal
  <2>1. UNCHANGED buf /\ s # Brk
    BY <1>5 DEF SubStep
  <2>2. pc'[Brk] = pc[Brk]
    BY <1>5, <1>w, <2>1 DEF SubStep, SubNext, SubStart, SubSubscribe, SubSubscribeCrash,
       SubSubscribeDone, SubSubscribeFails, SubLoop, SubReceive, SubReceiveInterrupted,
       SubReceiveRemoved, SubUnsubscribe, SubUnsubscribeDone, SubUnsubscribeFails, Goto
  <2>3. ASSUME NEW t \in Topics, NEW c \in {"subscribe", "unsubscribe"},
               MsgSnd(Brk, Ask(s, c, t))
        PROVE  Goal
    <3>1. Ask(s, c, t) \in Message /\ Ask(s, c, t).cmd # "send"
      BY DEF Ask, Message, Request
    <3>2. Waiting' = Waiting \cup {Ask(s, c, t)}
      BY <2>1, <2>2, <2>3, <3>1, EnqueueTransit
    <3> QED
      BY <2>1, <3>1, <3>2
  <2>4. unsent[s] \subseteq Topics
    BY DEF TypeOK, SubscriberTypeOK
  <2>5. CASE SubReceive(s)
    BY <1>1, <1>w, <2>1, <2>5 DEF SubReceive, MsgRcv
  <2> HIDE DEF Goal
  <2> QED
    BY <1>1, <1>5, <2>1, <2>3, <2>4, <2>5 DEF SubStep, SubNext, SubStart, SubSubscribe,
       SubSubscribeCrash, SubSubscribeDone, SubSubscribeFails, SubLoop,
       SubReceiveInterrupted, SubReceiveRemoved, SubUnsubscribe, SubUnsubscribeDone,
       SubUnsubscribeFails
<1>6. ASSUME NEW p \in Pubs, PubStep(p) PROVE Goal
  <2>1. UNCHANGED buf /\ p # Brk
    BY <1>6 DEF PubStep
  <2>2. pc'[Brk] = pc[Brk]
    BY <1>6, <1>w, <2>1 DEF PubStep, PubNext, PubStart, PubLoop, PubSend, Goto
  <2>3. ASSUME NEW t \in Topics, MsgSnd(Brk, Publish(p, t)),
               published' = [published EXCEPT ![p] = Append(@, t)]
        PROVE  Goal
    <3> DEFINE e == Publish(p, t)
    <3>1. /\ e \in Message /\ e \in Publication
          /\ e.from = p /\ e.topic = t /\ e.n = Len(published[p]) + 1
      BY <1>w DEF Publish, Message, Publication
    <3> HIDE DEF e
    <3>2. Waiting' = Waiting \cup {e}
      BY <2>1, <2>2, <2>3, <3>1, EnqueueTransit DEF e
    <3>3. published'[p] = Append(published[p], t) /\ published[p] \in Seq(Topics)
      BY <1>w, <2>3
    <3>4. e.n <= Len(published'[p]) /\ published'[p][e.n] = t
      BY <3>1, <3>3
    <3> QED
      BY <2>1, <3>1, <3>2, <3>4 DEF Genuine
  <2> HIDE DEF Goal
  <2> QED
    BY <1>1, <1>6, <2>1, <2>3 DEF PubStep, PubNext, PubStart, PubLoop, PubSend
<1>7. ASSUME NEW p \in Proc, UserStep(p) PROVE Goal
  BY <1>1, <1>7 DEF UserStep, Interrupt
<1>8. CASE UNCHANGED vars
  BY <1>1, <1>8 DEF vars
<1> HIDE DEF Goal
<1>9. CASE BrokerStep
  BY <1>1, <1>2, <1>3, <1>4, <1>9 DEF BrokerStep, BrokerNext, BrokerStart, BrokerReady,
     BrokerLoop, BrokerReceiveInterrupted, HandleSend, HandleSubscribe, HandleUnsubscribe,
     FanoutNext, FanoutInterrupted, FanoutDone, KillNext, KillDone, WaitSecond, WaitTimeout
<1> QED
  BY <1>5, <1>6, <1>7, <1>8, <1>9 DEF Next, Finished

LEMMA GenuineStep ==
  ASSUME TypeOK, ShutdownFacts, TopicsKnown, WalkServes, MessagesGenuine, [Next]_vars
  PROVE  MessagesGenuine'
<1>t. Waiting \cup ({buf} \ {NoMsg}) \subseteq Message
  BY WaitingType DEF TypeOK, BrokerTypeOK
<1>1. \A m \in Waiting' \cup ({buf'} \ {NoMsg}) : m.cmd = "send" => Genuine(m)'
  <2> SUFFICES ASSUME NEW m \in Waiting' \cup ({buf'} \ {NoMsg}), m.cmd = "send"
               PROVE  Genuine(m)'
    OBVIOUS
  <2>1. CASE m \in Waiting \cup ({buf} \ {NoMsg})
    <3>1. Genuine(m) /\ m \in Publication
      BY <1>t, <2>1, MessageKinds DEF MessagesGenuine
    <3> QED
      BY <3>1, GenuineStays
  <2> QED
    BY <2>1, NewMessage
<1>2. ASSUME NEW s \in Subs, NEW m \in Given(s)'
      PROVE  Genuine(m)' /\ (~Exited(s)' => m.topic \in own'[s])
  <2>1. m \in Publication /\ Genuine(m) /\ (~Exited(s) => m.topic \in own[s])
    <3>1. CASE m \in Given(s)
      BY <3>1, GivenType DEF MessagesGenuine
    <3>2. CASE FanoutSend /\ s = subList[cursor] /\ m = buf
      <4>1. buf \in Publication /\ buf # NoMsg /\ buf.cmd = "send"
        BY <3>2, MessageKinds DEF FanoutSend, TypeOK, BrokerTypeOK
      <4>2. Genuine(buf)
        BY <4>1 DEF MessagesGenuine
      <4>3. buf.topic \in topicsOf[s]
        BY <3>2 DEF FanoutSend, WalkServes
      <4> QED
        BY <3>2, <4>1, <4>2, <4>3 DEF TopicsKnown, KnownTopics
    <3> QED
      BY <1>2, <3>1, <3>2, GivenStep
  <2> QED
    BY <2>1, GenuineStays, OwnStays
<1> QED
  BY <1>1, <1>2 DEF MessagesGenuine

LEMMA InitBus == Init => BusInv
<1> SUFFICES ASSUME Init PROVE BusInv
  OBVIOUS
<1>1. /\ subList = <<>> /\ queue = "absent" /\ buf = NoMsg /\ pc[Brk] = "off"
      /\ q[Brk] = <<>>
      /\ \A s \in Subs : /\ q[s] = <<>> /\ got[s] = <<>> /\ own[s] = {}
                         /\ topicsOf[s] = {} /\ pc[s] = "off"
  BY DEF Init, MsgBusInit, BrokerInit, SubscriberInit
<1>2. \A s \in Subs : Given(s) = {}
  <2>1. <<>> \o <<>> = <<>> /\ Len(<<>>) = 0
    OBVIOUS
  <2>2. \A s \in Subs : Len(Sent(s)) = 0
    BY <1>1, <2>1 DEF Sent
  <2> QED
    BY <2>2 DEF Given
<1>3. Waiting = {} /\ InTransit = {}
  BY <1>1 DEF Waiting, InTransit
<1>4. \A s \in Subs : Pending(s, "subscribe") = {}
  BY <1>3 DEF Pending
<1>5. TopicsKnown
  BY <1>1, <1>4 DEF TopicsKnown, KnownTopics, Alive
<1>6. WalkServes
  BY <1>1 DEF WalkServes
<1>7. MessagesGenuine
  BY <1>1, <1>2, <1>3 DEF MessagesGenuine
<1> QED
  BY <1>5, <1>6, <1>7 DEF BusInv

(* The inductive invariant of the registry, the walk and the messages.     *)
THEOREM BusInvariant == Spec => []BusInv
<1>1. TypeOK /\ OrderInv /\ SignalInv /\ BusInv /\ [Next]_vars => BusInv'
  BY TopicsStep, WalkStep, GenuineStep DEF BusInv, OrderInv
<1> QED
  BY <1>1, InitBus, TypeCorrect, OrderInvariant, SignalInvariant, PTL DEF Spec

(* While there is a queue, the registry and a subscriber agree on what it  *)
(* has asked for, up to the requests the broker has yet to handle.         *)
THEOREM RegistryUpToDate == Spec => []RegistryAgrees
<1>1. BusInv => RegistryAgrees
  <2> SUFFICES ASSUME TopicsKnown, queue = "live", NEW s \in Subs,
                      pc[s] \in {"subscribe", "top", "msgrcv", "unsubscribe"}
               PROVE  topicsOf[s] \cup Pending(s, "subscribe") = own[s]
    BY DEF BusInv, RegistryAgrees
  <2>1. Alive(s) /\ ~Exited(s)
    BY DEF Alive, Exited
  <2> QED
    BY <2>1 DEF TopicsKnown, KnownTopics
<1> QED
  BY <1>1, BusInvariant, PTL

(* A publication handled to the end has been sent to all who asked for it. *)
THEOREM WholeListServed == Spec => FanoutComplete
<1>1. TypeOK /\ BusInv /\ [Next]_vars =>
         [pc[Brk] = "fanout" /\ pc'[Brk] = "top" =>
            \A s \in Subs : buf.topic \in topicsOf[s] => buf \in Given(s)]_vars
  <2> SUFFICES ASSUME TypeOK, WalkServes, [Next]_vars,
                      pc[Brk] = "fanout", pc'[Brk] = "top",
                      NEW s \in Subs, buf.topic \in topicsOf[s]
               PROVE  buf \in Given(s)
    BY DEF BusInv
  <2> USE ProcAssumption
  <2>w. pc \in [Proc -> Place] /\ \A p \in Clients : p # Brk
    BY DEF TypeOK, MsgBusTypeOK
  <2>1. BrokerStep
    <3>1. ASSUME NEW r \in Subs, SubStep(r) PROVE FALSE
      BY <2>w, <3>1 DEF SubStep, SubNext, SubStart, SubSubscribe, SubSubscribeCrash,
         SubSubscribeDone, SubSubscribeFails, SubLoop, SubReceive, SubReceiveInterrupted,
         SubReceiveRemoved, SubUnsubscribe, SubUnsubscribeDone, SubUnsubscribeFails, Goto
    <3>2. ASSUME NEW p \in Pubs, PubStep(p) PROVE FALSE
      BY <2>w, <3>2 DEF PubStep, PubNext, PubStart, PubLoop, PubSend, Goto
    <3>3. ASSUME NEW p \in Proc, UserStep(p) PROVE FALSE
      BY <2>w, <3>3 DEF UserStep, Interrupt, Handle, Goto
    <3>4. ~UNCHANGED vars
      BY DEF vars, procVars
    <3> QED
      BY <3>1, <3>2, <3>3, <3>4 DEF Next, Finished
  <2>2. FanoutDone
    <3>1. FanoutNext \/ FanoutDone
      BY <2>1 DEF BrokerStep, BrokerNext, BrokerStart, BrokerReady, BrokerLoop,
         BrokerReceive, BrokerReceiveInterrupted, HandleSend, HandleSubscribe,
         HandleUnsubscribe, FanoutSend, FanoutInterrupted, KillNext, KillDone,
         WaitSecond, WaitTimeout, RemoveQueue
    <3>2. ~FanoutNext
      BY <2>w DEF FanoutNext, Goto
    <3> QED
      BY <3>1, <3>2
  <2>3. cursor > Len(subList) /\ cursor \in Nat /\ subList \in Seq(Subs)
    BY <2>2 DEF FanoutDone, TypeOK, BrokerTypeOK
  <2>4. PICK k \in 1..Len(subList) : subList[k] = s
    BY DEF WalkServes, InList
  <2>5. k < cursor
    BY <2>3
  <2> QED
    BY <2>4, <2>5 DEF WalkServes
<1> QED
  BY <1>1, TypeCorrect, BusInvariant, PTL DEF Spec, FanoutComplete
-----------------------------------------------------------------------------
(* The users' view.                                                        *)

(* m may be given to s: it is genuine, asked for, and not out of order.    *)
LEMMA GiveMessage ==
  ASSUME TypeOK, BusInv, NEW s \in Subs, ~Exited(s), NEW m \in Given(s),
         \A i \in 1..Len(got[s]) : NotAfter(got[s][i], m),
         got' = [got EXCEPT ![s] = Append(@, m)], UNCHANGED <<own, published>>
  PROVE  TB!BusNext
<1>1. /\ m \in Publication /\ m.from \in Pubs /\ m.n \in Nat \ {0}
      /\ m = [cmd |-> "send", from |-> m.from, topic |-> m.topic, n |-> m.n]
  <2>1. m \in Publication
    BY GivenType
  <2> QED
    BY <2>1 DEF Publication
<1>2. /\ m.n <= Len(published[m.from]) /\ m.topic = published[m.from][m.n]
      /\ m.topic \in own[s]
  BY DEF BusInv, MessagesGenuine, Genuine
<1>3. m.n \in 1..Len(published[m.from])
  <2>1. published[m.from] \in Seq(Topics)
    BY <1>1 DEF TypeOK, PublisherTypeOK
  <2> QED
    BY <1>1, <1>2, <2>1
<1>4. \A i \in 1..Len(got[s]) : got[s][i].from = m.from => got[s][i].n <= m.n
  BY DEF NotAfter
<1>5. TB!Give(s, m.from, m.n)
  BY <1>1, <1>2, <1>3, <1>4 DEF TB!Give
<1> QED
  BY <1>1, <1>3, <1>5 DEF TB!BusNext

LEMMA BusRefinement ==
  ASSUME TypeOK, OrderInv, BusInv, [Next]_vars
  PROVE  [TB!BusNext]_(TB!busVars)
<1> USE ProcAssumption DEF brokerVars, pubVars, queueVars, subVars
<1>1. CASE UNCHANGED <<own, published, got>>
  BY <1>1 DEF TB!busVars
<1>w. /\ got \in [Subs -> Seq(Publication)] /\ q \in [Dests -> Seq(Message)]
      /\ \A s \in Subs : got[s] \in Seq(Publication) /\ q[s] \in Seq(Publication)
  BY DEF TypeOK, MsgBusTypeOK, SubscriberTypeOK
<1>2. ASSUME NEW s \in Subs, SubStep(s) PROVE [TB!BusNext]_(TB!busVars)
  <2>1. UNCHANGED published
    BY <1>2 DEF SubStep
  <2>2. CASE SubSubscribe(s)
    <3>1. PICK t \in Topics : own' = [own EXCEPT ![s] = @ \cup {t}]
      BY <2>2 DEF SubSubscribe
    <3>2. TB!AskFor(s, t)
      BY <2>1, <2>2, <3>1 DEF SubSubscribe, TB!AskFor
    <3> QED
      BY <3>2 DEF TB!BusNext
  <2>3. CASE SubReceive(s)
    <3> DEFINE m == Head(q[s])
    <3>1. /\ q[s] # <<>> /\ got' = [got EXCEPT ![s] = Append(@, m)]
          /\ UNCHANGED own /\ pc[s] = "msgrcv"
      BY <2>3 DEF SubReceive, MsgRcv
    <3>2. /\ Len(got[s]) + 1 \in 1..Len(Sent(s)) /\ Sent(s)[Len(got[s]) + 1] = m
          /\ \A i \in 1..Len(got[s]) : /\ i \in 1..Len(Sent(s)) /\ i < Len(got[s]) + 1
                                       /\ Sent(s)[i] = got[s][i]
      BY <1>w, <3>1 DEF Sent
    <3> HIDE DEF m
    <3>3. m \in Given(s)
      BY <3>2 DEF Given
    <3>4. \A i \in 1..Len(got[s]) : NotAfter(got[s][i], m)
      BY <3>2 DEF OrderInv, SentOrder
    <3> QED
      BY <2>1, <3>1, <3>3, <3>4, GiveMessage DEF Exited
  <2>4. CASE SubReceiveRemoved(s)
    <3>1. CASE UNCHANGED got
      BY <1>1, <2>1, <2>4, <3>1 DEF SubReceiveRemoved
    <3>2. CASE /\ got[s] # <<>>
               /\ got' = [got EXCEPT ![s] = Append(@, got[s][Len(got[s])])]
      <4> DEFINE m == got[s][Len(got[s])]
      <4>1. UNCHANGED own /\ pc[s] = "msgrcv"
        BY <2>4 DEF SubReceiveRemoved
      <4>2. Len(got[s]) \in Nat /\ Len(got[s]) \in 1..Len(got[s])
        BY <1>w, <3>2
      <4>3. m \in Publication /\ m.n \in Nat
        <5>1. m \in Publication
          BY <1>w, <4>2
        <5> QED
          BY <5>1 DEF Publication
      <4>4. \A i \in 1..Len(got[s]) : i \in 1..Len(Sent(s)) /\ Sent(s)[i] = got[s][i]
        BY <1>w DEF Sent
      <4>5. m \in Given(s)
        BY <4>2, <4>4 DEF Given
      <4>6. ASSUME NEW i \in 1..Len(got[s]) PROVE NotAfter(got[s][i], m)
        <5>1. CASE i = Len(got[s])
          BY <4>3, <5>1 DEF NotAfter
        <5>2. CASE i # Len(got[s])
          <6>1. i < Len(got[s])
            BY <4>2, <5>2
          <6> QED
            BY <4>2, <4>4, <6>1 DEF OrderInv, SentOrder
        <5> QED
          BY <5>1, <5>2
      <4>7. got' = [got EXCEPT ![s] = Append(@, m)]
        BY <3>2
      <4> HIDE DEF m
      <4> QED
        BY <2>1, <4>1, <4>5, <4>6, <4>7, GiveMessage DEF Exited
    <3> QED
      BY <2>4, <3>1, <3>2 DEF SubReceiveRemoved
  <2> QED
    BY <1>1, <1>2, <2>1, <2>2, <2>3, <2>4 DEF SubStep, SubNext, SubStart,
       SubSubscribeCrash, SubSubscribeDone, SubSubscribeFails, SubLoop,
       SubReceiveInterrupted, SubUnsubscribe, SubUnsubscribeDone, SubUnsubscribeFails
<1>3. ASSUME NEW p \in Pubs, PubStep(p) PROVE [TB!BusNext]_(TB!busVars)
  <2>1. UNCHANGED <<own, got>>
    BY <1>3 DEF PubStep
  <2>2. CASE PubSend(p)
    <3>1. PICK t \in Topics : published' = [published EXCEPT ![p] = Append(@, t)]
      BY <2>2 DEF PubSend
    <3>2. TB!Speak(p, t)
      BY <2>1, <3>1 DEF TB!Speak
    <3> QED
      BY <3>2 DEF TB!BusNext
  <2> QED
    BY <1>1, <1>3, <2>1, <2>2 DEF PubStep, PubNext, PubStart, PubLoop
<1>4. CASE BrokerStep \/ (\E p \in Proc : UserStep(p)) \/ UNCHANGED vars
  BY <1>1, <1>4 DEF BrokerStep, UserStep, vars
<1> QED
  BY <1>2, <1>3, <1>4 DEF Next, Finished

(* The whole system is the topic bus its users see: whatever is given was  *)
(* published by its sender on a topic asked for, and no earlier message of *)
(* a publisher follows a later one.  The bus does not promise "once".      *)
THEOREM TopicBusImplemented == Spec => ImplementsTopicBus
<1>1. Init => TB!BusInit
  BY DEF Init, SubscriberInit, PublisherInit, TB!BusInit
<1>2. TypeOK /\ OrderInv /\ BusInv /\ [Next]_vars => [TB!BusNext]_(TB!busVars)
  BY BusRefinement
<1> QED
  BY <1>1, <1>2, TypeCorrect, OrderInvariant, BusInvariant, PTL
     DEF Spec, ImplementsTopicBus, TB!BusSpec
=============================================================================
