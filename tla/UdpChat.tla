------------------------------- MODULE UdpChat -------------------------------
(***************************************************************************)
(* 06/main.c: everybody on the network broadcasts what is typed, and shows *)
(* what the others (and it itself) broadcast.  One buffer serves the       *)
(* network and the keyboard.                                               *)
(*                                                                         *)
(* wire is all that has ever been sent, in order.  Who receives skips what *)
(* is lost on its way.  Left out: another port than the default;           *)
(* reordering; a datagram that sendto does not get onto the wire; the      *)
(* prompt and what is printed.                                             *)
(***************************************************************************)
EXTENDS Naturals, SequencesExt

CONSTANTS Peers,
          MaxWire   \* bound: packets on the network

ASSUME UdpAssumption == MaxWire \in Nat

VARIABLES wire,
          ppc,      \* where each peer is
          pos,      \* how far it has read
          buf,      \* buffer: a text, or what was on the stack
          typed,    \* lines that it has been given
          eof       \* whether its stdin has ended

peerVars == <<ppc, pos, buf, typed, eof>>

Chat == 8888
Packet(p, text) == [from |-> p, ether |-> "ip", proto |-> "udp",
                    source |-> Chat, dest |-> Chat, text |-> text]

(* What the socket bound to the port is given.                             *)
ForChat(m) == m.ether = "ip" /\ m.proto = "udp" /\ m.dest = Chat

Line(p, n) == <<"line", p, n>>
Note(what) == <<what>>
Empty == <<>>

PeerInit ==
    /\ wire = <<>>
    /\ ppc = [p \in Peers |-> "off"]
    /\ pos = [p \in Peers |-> 0]
    /\ buf = [p \in Peers |-> Note("junk")]
    /\ typed = [p \in Peers |-> 0]
    /\ eof = [p \in Peers |-> FALSE]

Goto(p, l) == ppc' = [ppc EXCEPT ![p] = l]

(* sendto(sockfd, text, ...)                                               *)
Broadcast(p, text) ==
    /\ Len(wire) < MaxWire
    /\ wire' = Append(wire, Packet(p, text))

(* From bind on the socket receives.                                       *)
Bind(p) ==
    /\ ppc[p] = "off"
    /\ Goto(p, "bound")
    /\ pos' = [pos EXCEPT ![p] = Len(wire)]
    /\ UNCHANGED <<wire, buf, typed, eof>>

(* signal()                                                                *)
Install(p) ==
    /\ ppc[p] = "bound"
    /\ Goto(p, "joining")
    /\ UNCHANGED <<wire, pos, buf, typed, eof>>

Join(p) ==
    /\ ppc[p] = "joining"
    /\ Broadcast(p, Note("join"))
    /\ Goto(p, "select")
    /\ UNCHANGED <<pos, buf, typed, eof>>

Receive(p) ==
    /\ ppc[p] = "select"
    /\ \E i \in pos[p] + 1..Len(wire) :
          /\ ForChat(wire[i])
          /\ pos' = [pos EXCEPT ![p] = i]
          /\ buf' = [buf EXCEPT ![p] = wire[i].text]
    /\ UNCHANGED <<wire, ppc, typed, eof>>

SendLine(p) ==
    /\ ppc[p] = "select" /\ ~eof[p]
    /\ Broadcast(p, Line(p, typed[p] + 1))
    /\ typed' = [typed EXCEPT ![p] = @ + 1]
    /\ buf' = [buf EXCEPT ![p] = Line(p, typed[p] + 1)]
    /\ UNCHANGED <<ppc, pos, eof>>

(* As the code that sends whatever it has when the user just hits enter.   *)
EmptyLineSent(p) ==
    /\ ppc[p] = "select" /\ ~eof[p]
    /\ Broadcast(p, buf[p])
    /\ UNCHANGED peerVars

EmptyLine(p) ==
    /\ ppc[p] = "select" /\ ~eof[p]
    /\ buf' = [buf EXCEPT ![p] = Empty]
    /\ UNCHANGED <<wire, ppc, pos, typed, eof>>

(* fgets fails, now and from now on, and leaves the buffer as it is.       *)
AtEof(p) ==
    /\ ppc[p] = "select"
    /\ eof' = [eof EXCEPT ![p] = TRUE]
    /\ IF buf[p] # Empty THEN Broadcast(p, buf[p]) ELSE UNCHANGED wire
    /\ UNCHANGED <<ppc, pos, buf, typed>>

(* SIGINT: before signal() it kills, after it the handler sends and exits. *)
Interrupt(p) ==
    /\ ppc[p] \notin {"off", "gone"}
    /\ IF ppc[p] = "bound" THEN UNCHANGED wire ELSE Broadcast(p, Note("leave"))
    /\ Goto(p, "gone")
    /\ pos' = [pos EXCEPT ![p] = 0] /\ buf' = [buf EXCEPT ![p] = Empty]
    /\ UNCHANGED <<typed, eof>>

Peer(p) ==
    \/ Bind(p) \/ Install(p) \/ Join(p) \/ Receive(p)
    \/ SendLine(p) \/ EmptyLine(p) \/ AtEof(p) \/ Interrupt(p)

(* What a peer sends is its own: a line that was typed at it, a note that  *)
(* it joins or that it leaves, and then it is gone.  Only after the end of *)
(* its stdin (06/main.c:118-123) it may be anything that it has received,  *)
(* somebody else's leave-taking included, or what was on the stack; and    *)
(* what is passed on was sent by somebody before.                          *)
TextsAreOwn == \A i \in DOMAIN wire :
    LET p == wire[i].from
        text == wire[i].text
        own == \/ text = Note("join")
               \/ text = Note("leave") /\ ppc[p] = "gone"
               \/ \E n \in 1..typed[p] : text = Line(p, n)
        said == \E j \in 1..i - 1 : wire[j].text = text
    IN  p \in Peers => own \/ (eof[p] /\ (said \/ text = Note("junk")))
=============================================================================
