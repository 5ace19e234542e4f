------------------------------ MODULE TopicBus ------------------------------
(***************************************************************************)
(* What the broker of 02/ promises its users, with no queue, no broker and *)
(* no signals: a subscriber is given publications on topics it has asked   *)
(* for, and those of one publisher in the order they were published.  A    *)
(* publication may be lost, and one may be given again, but no publisher's *)
(* earlier message ever follows a later one of the same publisher.         *)
(***************************************************************************)
EXTENDS Naturals, Sequences

CONSTANTS Subscribers, Publishers, Topic

VARIABLES asked,     \* asked[s]: the topics s has asked for
          spoken,    \* spoken[p][n]: the topic of p's n-th publication
          inbox      \* inbox[s]: what s has been given, in order

busVars == <<asked, spoken, inbox>>

BusInit ==
    /\ asked = [s \in Subscribers |-> {}]
    /\ spoken = [p \in Publishers |-> <<>>]
    /\ inbox = [s \in Subscribers |-> <<>>]

AskFor(s, t) ==
    /\ asked' = [asked EXCEPT ![s] = @ \cup {t}]
    /\ UNCHANGED <<spoken, inbox>>

Speak(p, t) ==
    /\ spoken' = [spoken EXCEPT ![p] = Append(@, t)]
    /\ UNCHANGED <<asked, inbox>>

Give(s, p, n) ==
    /\ n \in 1..Len(spoken[p])
    /\ spoken[p][n] \in asked[s]
    /\ \A i \in 1..Len(inbox[s]) : inbox[s][i].from = p => inbox[s][i].n <= n
    /\ inbox' = [inbox EXCEPT ![s] =
          Append(@, [cmd |-> "send", from |-> p, topic |-> spoken[p][n], n |-> n])]
    /\ UNCHANGED <<asked, spoken>>

BusNext ==
    \/ \E s \in Subscribers, t \in Topic : AskFor(s, t)
    \/ \E p \in Publishers, t \in Topic : Speak(p, t)
    \/ \E s \in Subscribers, p \in Publishers :
          \E n \in 1..Len(spoken[p]) : Give(s, p, n)

BusSpec == BusInit /\ [][BusNext]_busVars
=============================================================================
