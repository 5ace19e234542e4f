------------------------------ MODULE UdpProofs ------------------------------
(***************************************************************************)
(* Proofs about 06/main.c and 08/udp_sniffer.c: where the texts on the     *)
(* network come from, and that a capture has all of them that its filter   *)
(* is about, for any number of peers and of packets.                       *)
(***************************************************************************)
EXTENDS UdpSniffer, TLAPS

Texts == {Empty} \cup {Note(what) : what \in {"junk", "join", "leave", "data"}}
         \cup {Line(p, n) : p \in Peers, n \in Nat}
Packets == [from : Peers \cup {None}, ether : {"ip", "ipv6", "arp"}, proto : {"udp", "tcp", "icmp"},
            source : Port, dest : Port, text : Texts]

Types ==
    /\ wire \in Seq(Packets)
    /\ ppc \in [Peers -> {"off", "bound", "joining", "select", "gone"}]
    /\ pos \in [Peers -> Nat]
    /\ buf \in [Peers -> Texts]
    /\ typed \in [Peers -> Nat]
    /\ eof \in [Peers -> BOOLEAN]

(* The buffer holds nothing, what was on the stack, or what somebody sent. *)
BufferInv == \A p \in Peers :
    \/ buf[p] \in {Empty, Note("junk")}
    \/ \E j \in 1..Len(wire) : wire[j].text = buf[p]

OwnInv == Types /\ BufferInv /\ TextsAreOwn

(* What p may put on the wire now.                                         *)
May(p, text) ==
    \/ text = Note("join")
    \/ text = Note("leave") /\ ppc'[p] = "gone"
    \/ \E n \in 1..typed'[p] : text = Line(p, n)
    \/ eof'[p] /\ (text = Note("junk") \/ \E j \in 1..Len(wire) : wire[j].text = text)

(* What lets an old packet pass now lets it pass later.                    *)
Monotone ==
    \A p \in Peers : /\ ppc[p] = "gone" => ppc'[p] = "gone"
                     /\ typed[p] <= typed'[p]
                     /\ eof[p] => eof'[p]

(* Sequences grow at their end.                                            *)
LEMMA Appended ==
    ASSUME NEW S, NEW s \in Seq(S), NEW m \in S
    PROVE  /\ Append(s, m) \in Seq(S)
           /\ Len(Append(s, m)) = Len(s) + 1 /\ Len(s) \in Nat
           /\ \A i \in 1..Len(s) : Append(s, m)[i] = s[i]
           /\ Append(s, m)[Len(s) + 1] = m
           /\ DOMAIN s = 1..Len(s)
           /\ DOMAIN Append(s, m) = 1..Len(s) + 1
  OBVIOUS

LEMMA Notes == Empty \in Texts /\ \A what \in {"junk", "join", "leave"} : Note(what) \in Texts
  BY DEF Texts

LEMMA PacketTyped ==
    ASSUME NEW p \in Peers, NEW text \in Texts
    PROVE  Packet(p, text) \in Packets
  <1>1. Chat \in Port
    BY DEF Chat, Port
  <1> QED
    BY <1>1 DEF Packet, Packets

(* A step that sends nothing leaves every packet accounted for.            *)
LEMMA Silent ==
    ASSUME Types, Types', TextsAreOwn, wire' = wire, Monotone
    PROVE  TextsAreOwn'
  <1> SUFFICES ASSUME NEW i \in DOMAIN wire, wire[i].from \in Peers
               PROVE  (LET p == wire[i].from
                           text == wire[i].text
                           own == \/ text = Note("join")
                                  \/ text = Note("leave") /\ ppc'[p] = "gone"
                                  \/ \E n \in 1..typed'[p] : text = Line(p, n)
                           said == \E j \in 1..i - 1 : wire[j].text = text
                       IN  own \/ (eof'[p] /\ (said \/ text = Note("junk"))))
    BY DEF TextsAreOwn
  <1> DEFINE p == wire[i].from
  <1>1. ppc[p] = "gone" => ppc'[p] = "gone"
    BY DEF Monotone
  <1>2. \A n \in 1..typed[p] : n \in 1..typed'[p]
    BY DEF Monotone, Types
  <1>3. eof[p] => eof'[p]
    BY DEF Monotone
  <1> QED
    BY <1>1, <1>2, <1>3 DEF TextsAreOwn

(* A packet that its sender may send keeps them all accounted for.         *)
LEMMA Sent ==
    ASSUME Types, Types', TextsAreOwn, Monotone,
           NEW m \in Packets, wire' = Append(wire, m),
           m.from \in Peers => May(m.from, m.text)
    PROVE  TextsAreOwn'
  <1> SUFFICES ASSUME NEW i \in DOMAIN wire', wire'[i].from \in Peers
               PROVE  (LET p == wire'[i].from
                           text == wire'[i].text
                           own == \/ text = Note("join")
                                  \/ text = Note("leave") /\ ppc'[p] = "gone"
                                  \/ \E n \in 1..typed'[p] : text = Line(p, n)
                           said == \E j \in 1..i - 1 : wire'[j].text = text
                       IN  own \/ (eof'[p] /\ (said \/ text = Note("junk"))))
    BY DEF TextsAreOwn
  <1> DEFINE p == wire'[i].from
  <1>0. /\ Len(wire) \in Nat /\ DOMAIN wire = 1..Len(wire)
        /\ DOMAIN wire' = 1..Len(wire) + 1
        /\ \A j \in 1..Len(wire) : wire'[j] = wire[j]
        /\ wire'[Len(wire) + 1] = m
    BY Appended DEF Types
  <1>1. CASE i = Len(wire) + 1
    <2>1. wire'[i] = m /\ i - 1 = Len(wire)
      BY <1>0, <1>1
    <2>2. May(p, m.text)
      BY <2>1
    <2>3. \A j \in 1..Len(wire) : wire'[j].text = wire[j].text
      BY <1>0
    <2> QED
      BY <2>1, <2>2, <2>3 DEF May
  <1>2. CASE i \in 1..Len(wire)
    <2>1. wire'[i] = wire[i] /\ i \in DOMAIN wire
      BY <1>0, <1>2
    <2>2. \A j \in 1..i - 1 : wire'[j] = wire[j]
      BY <1>0, <1>2
    <2>3. ppc[p] = "gone" => ppc'[p] = "gone"
      BY DEF Monotone
    <2>4. \A n \in 1..typed[p] : n \in 1..typed'[p]
      BY DEF Monotone, Types
    <2>5. eof[p] => eof'[p]
      BY DEF Monotone
    <2> QED
      BY <2>1, <2>2, <2>3, <2>4, <2>5 DEF TextsAreOwn
  <1> QED
    BY <1>0, <1>1, <1>2

(* What p's buffer holds may come from the network only if it is there.    *)
LEMMA BufferStep ==
    ASSUME Types, BufferInv,
           \/ wire' = wire
           \/ \E m \in Packets : wire' = Append(wire, m),
           \A p \in Peers :
               \/ buf'[p] = buf[p]
               \/ buf'[p] \in {Empty, Note("junk")}
               \/ \E j \in 1..Len(wire') : wire'[j].text = buf'[p]
    PROVE  BufferInv'
  <1>1. \A j \in 1..Len(wire) : j \in 1..Len(wire') /\ wire'[j] = wire[j]
    <2>1. CASE wire' = wire
      BY <2>1 DEF Types
    <2>2. CASE \E m \in Packets : wire' = Append(wire, m)
      BY <2>2, Appended DEF Types
    <2> QED
      BY <2>1, <2>2
  <1> QED
    BY <1>1 DEF BufferInv

LEMMA OwnStep ==
    ASSUME OwnInv, NEW p \in Peers, Peer(p)
    PROVE  OwnInv'
  <1> USE DEF OwnInv
  <1>0. Len(wire) \in Nat
    BY DEF Types
  <1>1. CASE Bind(p)
    <2>1. Types' /\ Monotone /\ wire' = wire /\ buf' = buf
      BY <1>1 DEF Bind, Goto, Types, Monotone
    <2> QED
      BY <2>1, Silent, BufferStep
  <1>2. CASE Install(p)
    <2>1. Types' /\ Monotone /\ wire' = wire /\ buf' = buf
      BY <1>2 DEF Install, Goto, Types, Monotone
    <2> QED
      BY <2>1, Silent, BufferStep
  <1>3. CASE Join(p)
    <2> DEFINE m == Packet(p, Note("join"))
    <2>1. m \in Packets /\ m.from = p /\ m.text = Note("join") /\ wire' = Append(wire, m)
      BY <1>3, Notes, PacketTyped DEF Join, Broadcast, Packet
    <2>2. Types' /\ Monotone /\ buf' = buf
      BY <1>3, <2>1, Appended DEF Join, Goto, Types, Monotone
    <2>3. May(m.from, m.text)
      BY <2>1 DEF May
    <2> HIDE DEF m
    <2> QED
      BY <2>1, <2>2, <2>3, Sent, BufferStep
  <1>4. CASE Receive(p)
    <2>0. pos[p] \in Nat
      BY DEF Types
    <2>1. PICK i \in pos[p] + 1..Len(wire) : /\ pos' = [pos EXCEPT ![p] = i]
                                             /\ buf' = [buf EXCEPT ![p] = wire[i].text]
      BY <1>4 DEF Receive
    <2>2. i \in Nat /\ i \in 1..Len(wire) /\ wire[i] \in Packets
      BY <1>0, <2>0 DEF Types
    <2>5. wire[i].text \in Texts
      BY <2>2 DEF Packets
    <2>3. Types' /\ Monotone /\ wire' = wire
      BY <1>4, <2>1, <2>2, <2>5 DEF Receive, Types, Monotone
    <2>4. \A q \in Peers : buf'[q] = buf[q] \/ wire[i].text = buf'[q]
      BY <2>1 DEF Types
    <2> QED
      BY <2>2, <2>3, <2>4, Silent, BufferStep
  <1>5. CASE SendLine(p)
    <2> DEFINE n == typed[p] + 1
               m == Packet(p, Line(p, n))
    <2>1. n \in Nat /\ Line(p, n) \in Texts
      BY DEF Types, Texts
    <2>2. m \in Packets /\ m.from = p /\ m.text = Line(p, n) /\ wire' = Append(wire, m)
      BY <1>5, <2>1, PacketTyped DEF SendLine, Broadcast, Packet
    <2>3. Types' /\ Monotone /\ typed'[p] = n /\ buf' = [buf EXCEPT ![p] = m.text]
      <3>1. typed' = [typed EXCEPT ![p] = n] /\ buf' = [buf EXCEPT ![p] = m.text]
        BY <1>5, <2>2 DEF SendLine
      <3>2. UNCHANGED <<ppc, pos, eof>>
        BY <1>5 DEF SendLine
      <3>3. wire' \in Seq(Packets) /\ m.text \in Texts
        BY <2>1, <2>2, Appended DEF Types
      <3> QED
        BY <2>1, <3>1, <3>2, <3>3 DEF Types, Monotone
    <2>4. May(m.from, m.text)
      <3>1. n \in 1..typed'[p]
        BY <2>1, <2>3 DEF Types
      <3> QED
        BY <2>2, <3>1 DEF May
    <2>5. Len(wire) + 1 \in 1..Len(wire') /\ wire'[Len(wire) + 1] = m
      BY <2>2, Appended DEF Types
    <2>6. \A q \in Peers : buf'[q] = buf[q]
                           \/ \E j \in 1..Len(wire') : wire'[j].text = buf'[q]
      BY <2>3, <2>5 DEF Types
    <2> HIDE DEF m, n
    <2> QED
      BY <2>2, <2>3, <2>4, <2>6, Sent, BufferStep
  <1>6. CASE EmptyLine(p)
    <2>1. Empty \in Texts
      BY Notes
    <2>2. /\ Types' /\ Monotone /\ wire' = wire
          /\ \A q \in Peers : buf'[q] = buf[q] \/ buf'[q] = Empty
      BY <1>6, <2>1 DEF EmptyLine, Types, Monotone
    <2> QED
      BY <2>2, Silent, BufferStep
  <1>7. CASE AtEof(p)
    <2>1. Monotone /\ buf' = buf /\ eof'[p]
      BY <1>7 DEF AtEof, Types, Monotone
    <2>2. CASE buf[p] = Empty
      <3>1. Types' /\ wire' = wire
        BY <1>7, <2>2 DEF AtEof, Types
      <3> QED
        BY <2>1, <3>1, Silent, BufferStep
    <2>3. CASE buf[p] # Empty
      <3> DEFINE m == Packet(p, buf[p])
      <3>1. m \in Packets /\ m.from = p /\ m.text = buf[p] /\ wire' = Append(wire, m)
        BY <1>7, <2>3, PacketTyped DEF AtEof, Broadcast, Packet, Types
      <3>2. Types'
        BY <1>7, <3>1, Appended DEF AtEof, Types
      <3>3. May(m.from, m.text)
        BY <2>1, <2>3, <3>1 DEF May, BufferInv
      <3> HIDE DEF m
      <3> QED
        BY <2>1, <3>1, <3>2, <3>3, Sent, BufferStep
    <2> QED
      BY <2>2, <2>3
  <1>8. CASE Interrupt(p)
    <2>1. Empty \in Texts
      BY Notes
    <2>2. /\ Monotone /\ ppc'[p] = "gone"
          /\ \A q \in Peers : buf'[q] = buf[q] \/ buf'[q] = Empty
      BY <1>8 DEF Interrupt, Goto, Types, Monotone
    <2>3. CASE ppc[p] = "bound"
      <3>1. Types' /\ wire' = wire
        BY <1>8, <2>1, <2>3 DEF Interrupt, Goto, Types
      <3> QED
        BY <2>2, <3>1, Silent, BufferStep
    <2>4. CASE ppc[p] # "bound"
      <3> DEFINE m == Packet(p, Note("leave"))
      <3>1. m \in Packets /\ m.from = p /\ m.text = Note("leave") /\ wire' = Append(wire, m)
        BY <1>8, <2>4, Notes, PacketTyped DEF Interrupt, Broadcast, Packet
      <3>2. Types'
        BY <1>8, <2>1, <3>1, Appended DEF Interrupt, Goto, Types
      <3>3. May(m.from, m.text)
        BY <2>2, <3>1 DEF May
      <3> HIDE DEF m
      <3> QED
        BY <2>2, <3>1, <3>2, <3>3, Sent, BufferStep
    <2> QED
      BY <2>3, <2>4
  <1> QED
    BY <1>1, <1>2, <1>3, <1>4, <1>5, <1>6, <1>7, <1>8 DEF Peer

LEMMA OwnInvariant == Spec => []OwnInv
  <1>1. Init => OwnInv
    <2> SUFFICES ASSUME Init PROVE OwnInv
      OBVIOUS
    <2>0. wire = <<>>
      BY DEF Init, PeerInit
    <2>1. Types
      <3>1. Note("junk") \in Texts
        BY Notes
      <3>2. wire \in Seq(Packets)
        BY <2>0
      <3> QED
        BY <3>1, <3>2 DEF Init, PeerInit, Types
    <2>2. BufferInv
      BY DEF Init, PeerInit, BufferInv
    <2>3. TextsAreOwn
      <3>1. DOMAIN wire = {}
        BY <2>0
      <3> QED
        BY <3>1 DEF TextsAreOwn
    <2> QED
      BY <2>1, <2>2, <2>3 DEF OwnInv
  <1>2. OwnInv /\ [Next]_vars => OwnInv'
    <2> SUFFICES ASSUME OwnInv, [Next]_vars PROVE OwnInv'
      OBVIOUS
    <2>1. ASSUME NEW p \in Peers, Peer(p) PROVE OwnInv'
      BY <2>1, OwnStep
    <2>2. CASE OtherTraffic
      <3>1. PICK m \in Traffic : wire' = Append(wire, m)
        BY <2>2 DEF OtherTraffic
      <3>2. m \in Packets /\ m.from \notin Peers
        BY TrafficAssumption DEF Packets, Frame, Texts
      <3>3. UNCHANGED <<ppc, pos, buf, typed, eof>>
        BY <2>2 DEF OtherTraffic, peerVars
      <3>4. wire' \in Seq(Packets)
        BY <3>1, <3>2, Appended DEF OwnInv, Types
      <3>5. Types' /\ Monotone
        BY <3>3, <3>4 DEF OwnInv, Types, Monotone
      <3> QED
        BY <3>1, <3>2, <3>3, <3>5, Sent, BufferStep DEF OwnInv
    <2>3. CASE UNCHANGED <<wire, peerVars>>
      <3>1. Types' /\ Monotone /\ wire' = wire /\ buf' = buf
        BY <2>3 DEF peerVars, OwnInv, Types, Monotone
      <3> QED
        BY <3>1, Silent, BufferStep DEF OwnInv
    <2>4. Sniffer \/ signal_handler => UNCHANGED <<wire, peerVars>>
      BY DEF Sniffer, signal_handler, create_raw_socket, select_filter, setup_output_file,
             While, Capture
    <2> QED
      BY <2>1, <2>2, <2>3, <2>4 DEF Next, vars
  <1> QED
    BY <1>1, <1>2, PTL DEF Spec

(* Whoever is on the network, with whatever others send there: what a peer *)
(* sends is its own until its stdin ends, and what it sends then somebody  *)
(* had sent before, or it was on its stack (06/main.c:18-24, 72-128).      *)
THEOREM OwnTexts == Spec => []TextsAreOwn
  <1>1. OwnInv => TextsAreOwn
    BY DEF OwnInv
  <1> QED
    BY <1>1, OwnInvariant, PTL
-----------------------------------------------------------------------------
(* The capture.                                                            *)

CaptureInv ==
    /\ wire \in Seq(Packets)
    /\ opened \in Nat /\ next \in Nat /\ opened <= next /\ next <= Len(wire)
    /\ spc \in {"off", "filter", "file", "loop", "recvfrom", "exited"}
    /\ printed \in Seq(Nat)
    /\ spc \in {"off", "filter", "file"} => printed = <<>> /\ next = opened
    /\ spc \notin {"off", "filter"} => filter_type \in Filters
    /\ CaptureIsTheTraffic

(* parse_packet and check_filter together tell what the filter is about.   *)
LEMMA FilterTells ==
    ASSUME NEW m, filter_type \in Filters
    PROVE  parse_packet(m) /\ check_filter(filter_type, m) <=> Matches(m)
  BY DEF parse_packet, check_filter, Matches, FilterPort, Filters, Chat

(* More packets on the network change nothing of what has been captured.   *)
LEMMA WireStep ==
    ASSUME CaptureInv, NEW m \in Packets, wire' = Append(wire, m), UNCHANGED snifferVars
    PROVE  CaptureInv'
  <1>1. UNCHANGED <<spc, filter_type, opened, next, printed, output_file>>
    BY DEF snifferVars
  <1>2. /\ wire' \in Seq(Packets) /\ Len(wire) \in Nat /\ Len(wire') = Len(wire) + 1
        /\ \A n \in 1..Len(wire) : wire'[n] = wire[n]
        /\ wire'[Len(wire) + 1] = m
    BY Appended DEF CaptureInv
  <1>4. \A n \in opened + 1..next : wire'[n] = wire[n]
    BY <1>2 DEF CaptureInv
  <1>5. \A x : Matches(x)' <=> Matches(x)
    BY <1>1 DEF Matches
  <1>6. {n \in opened + 1..next : Matches(wire[n])}'
           = {n \in opened + 1..next : Matches(wire[n])}
    BY <1>1, <1>4, <1>5
  <1>7. CaptureIsTheTraffic'
    BY <1>1, <1>6 DEF CaptureInv, CaptureIsTheTraffic
  <1> QED
    BY <1>1, <1>2, <1>7 DEF CaptureInv

(* What a peer sends is a packet like the others.                          *)
LEMMA PeerSends ==
    ASSUME Types, NEW p \in Peers, Peer(p)
    PROVE  wire' = wire \/ \E m \in Packets : wire' = Append(wire, m)
  <1>1. ASSUME NEW text \in Texts, Broadcast(p, text)
        PROVE  \E m \in Packets : wire' = Append(wire, m)
    <2> DEFINE m == Packet(p, text)
    <2>1. m \in Packets /\ wire' = Append(wire, m)
      BY <1>1, PacketTyped DEF Broadcast
    <2> HIDE DEF m
    <2> QED
      BY <2>1
  <1>2. /\ Note("join") \in Texts /\ Note("leave") \in Texts /\ buf[p] \in Texts
        /\ Line(p, typed[p] + 1) \in Texts
    <2>1. typed[p] + 1 \in Nat /\ buf[p] \in Texts
      BY DEF Types
    <2> QED
      BY <2>1, Notes DEF Texts
  <1>3. wire' = wire \/ \E text \in Texts : Broadcast(p, text)
    BY <1>2 DEF Peer, Bind, Install, Join, Receive, SendLine, EmptyLine, AtEof, Interrupt
  <1> QED
    BY <1>1, <1>3

LEMMA PrintStep ==
    ASSUME CaptureInv, spc = "recvfrom", Capture
    PROVE  CaptureInv'
  <1>1. /\ next < Len(wire) /\ next' = next + 1 /\ spc' = "loop"
        /\ UNCHANGED <<wire, filter_type, opened>>
    BY DEF Capture
  <1>2. /\ opened \in Nat /\ next \in Nat /\ opened <= next /\ Len(wire) \in Nat
        /\ printed \in Seq(Nat) /\ filter_type \in Filters
    BY DEF CaptureInv
  <1> DEFINE m == wire[next + 1]
             old == {n \in opened + 1..next : Matches(wire[n])}
             new == {n \in opened + 1..next' : Matches(wire[n])}
             seen == {n \in opened + 1..next : Matches(wire[n])}'
  <1>4. parse_packet(m) /\ check_filter(filter_type, m) <=> Matches(m)
    BY <1>2, FilterTells
  <1>5. \A x : Matches(x)' <=> Matches(x)
    BY <1>1 DEF Matches
  <1>6. new = IF Matches(m) THEN old \cup {next + 1} ELSE old
    <2>1. opened + 1..next' = (opened + 1..next) \cup {next + 1}
      BY <1>1, <1>2
    <2>2. \A n \in opened + 1..next : n # next + 1
      BY <1>2
    <2> QED
      BY <2>1, <2>2
  <1>s. seen = new
    BY <1>1, <1>5
  <1>7. /\ {printed[i] : i \in DOMAIN printed} = old
        /\ \A i, j \in DOMAIN printed : i < j => printed[i] < printed[j]
        /\ output_file \in {None, printed}
    BY DEF CaptureInv, CaptureIsTheTraffic
  <1>8. CASE ~Matches(m)
    <2>1. UNCHANGED <<printed, output_file>>
      BY <1>4, <1>8 DEF Capture
    <2>2. {printed'[i] : i \in DOMAIN printed'} = new
      BY <1>6, <1>7, <1>8, <2>1
    <2>3. CaptureIsTheTraffic'
      BY <1>s, <1>7, <2>1, <2>2 DEF CaptureIsTheTraffic
    <2>4. next' \in Nat /\ opened <= next' /\ next' <= Len(wire)
      BY <1>1, <1>2
    <2> QED
      BY <1>1, <1>2, <2>1, <2>3, <2>4 DEF CaptureInv
  <1>9. CASE Matches(m)
    <2>1. print_packet_info(next')
      BY <1>4, <1>9 DEF Capture
    <2>2. /\ printed' = Append(printed, next + 1)
          /\ output_file' = IF output_file = None THEN None ELSE Append(output_file, next + 1)
      BY <1>1, <2>1 DEF print_packet_info
    <2>3. /\ printed' \in Seq(Nat) /\ Len(printed) \in Nat
          /\ \A i \in 1..Len(printed) : printed'[i] = printed[i]
          /\ printed'[Len(printed) + 1] = next + 1
          /\ DOMAIN printed = 1..Len(printed) /\ DOMAIN printed' = 1..Len(printed) + 1
      BY <1>2, <2>2, Appended
    <2>4. \A i \in DOMAIN printed : printed[i] \in old /\ printed[i] < next + 1
      <3>1. \A i \in DOMAIN printed : printed[i] \in old
        BY <1>7
      <3>2. \A n \in old : n < next + 1
        BY <1>2
      <3> QED
        BY <3>1, <3>2
    <2>5. \A i, j \in DOMAIN printed' : i < j => printed'[i] < printed'[j]
      <3> SUFFICES ASSUME NEW i \in 1..Len(printed) + 1, NEW j \in 1..Len(printed) + 1, i < j
                   PROVE  printed'[i] < printed'[j]
        BY <2>3
      <3>1. i \in 1..Len(printed)
        BY <2>3
      <3>2. CASE j \in 1..Len(printed)
        BY <1>7, <2>3, <3>1, <3>2
      <3>3. CASE j = Len(printed) + 1
        BY <2>3, <2>4, <3>1, <3>3
      <3> QED
        BY <2>3, <3>2, <3>3
    <2>6. {printed'[i] : i \in DOMAIN printed'} = {printed[i] : i \in DOMAIN printed} \cup {next + 1}
      <3>1. DOMAIN printed' = DOMAIN printed \cup {Len(printed) + 1}
        BY <2>3
      <3> QED
        BY <2>3, <3>1
    <2>7. {printed'[i] : i \in DOMAIN printed'} = new
      BY <1>6, <1>7, <1>9, <2>6
    <2>8. output_file' \in {None, printed'}
      BY <1>7, <2>2
    <2>9. CaptureIsTheTraffic'
      BY <1>s, <2>5, <2>7, <2>8 DEF CaptureIsTheTraffic
    <2>10. next' \in Nat /\ opened <= next' /\ next' <= Len(wire)
      BY <1>1, <1>2
    <2> QED
      BY <1>1, <1>2, <2>3, <2>9, <2>10 DEF CaptureInv
  <1> QED
    BY <1>8, <1>9

(* Nothing has been got yet.                                               *)
LEMMA NothingYet ==
    ASSUME printed' = <<>>, opened' \in Nat, next' = opened', output_file' \in {None, <<>>}
    PROVE  CaptureIsTheTraffic'
  <1>1. DOMAIN printed' = {}
    OBVIOUS
  <1>2. opened' + 1..next' = {}
    <2> DEFINE o == opened'
    <2>1. o \in Nat /\ next' = o
      OBVIOUS
    <2> HIDE DEF o
    <2>2. o + 1..o = {}
      BY <2>1
    <2> QED
      BY <2>1, <2>2 DEF o
  <1> QED
    BY <1>1, <1>2 DEF CaptureIsTheTraffic

LEMMA SnifferStep ==
    ASSUME CaptureInv, Sniffer \/ signal_handler
    PROVE  CaptureInv'
  <1>1. wire' = wire
    BY DEF Sniffer, signal_handler, create_raw_socket, select_filter, setup_output_file,
           While, Capture
  <1>2. /\ Len(wire) \in Nat /\ opened \in Nat /\ output_file \in {None, printed}
    BY DEF CaptureInv, CaptureIsTheTraffic
  <1>3. CASE create_raw_socket
    <2>1. /\ printed' = <<>> /\ opened' \in Nat /\ next' = opened'
          /\ output_file' \in {None, <<>>} /\ next' = Len(wire)
      BY <1>2, <1>3 DEF create_raw_socket, CaptureInv
    <2>2. CaptureIsTheTraffic'
      BY <2>1, NothingYet
    <2> QED
      BY <1>1, <1>3, <2>1, <2>2 DEF create_raw_socket, CaptureInv
  <1>4. CASE select_filter
    <2>1. /\ printed' = <<>> /\ opened' \in Nat /\ next' = opened'
          /\ output_file' \in {None, <<>>}
      BY <1>2, <1>4 DEF select_filter, CaptureInv
    <2>2. CaptureIsTheTraffic'
      BY <2>1, NothingYet
    <2> QED
      BY <1>1, <1>4, <2>1, <2>2 DEF select_filter, CaptureInv
  <1>5. CASE setup_output_file
    <2>1. /\ printed' = <<>> /\ opened' \in Nat /\ next' = opened'
          /\ output_file' \in {None, <<>>}
      BY <1>2, <1>5 DEF setup_output_file, CaptureInv
    <2>2. CaptureIsTheTraffic'
      BY <2>1, NothingYet
    <2> QED
      BY <1>1, <1>5, <2>1, <2>2 DEF setup_output_file, CaptureInv
  <1>6. CASE While \/ signal_handler
    <2>1. UNCHANGED <<wire, filter_type, opened, next, printed, output_file>>
      BY <1>6 DEF While, signal_handler
    <2>2. \A x : Matches(x)' <=> Matches(x)
      BY <2>1 DEF Matches
    <2>3. {n \in opened + 1..next : Matches(wire[n])}'
             = {n \in opened + 1..next : Matches(wire[n])}
      BY <2>1, <2>2
    <2>4. CaptureIsTheTraffic'
      BY <2>1, <2>3 DEF CaptureInv, CaptureIsTheTraffic
    <2> QED
      BY <1>6, <2>1, <2>4 DEF CaptureInv, While, signal_handler
  <1>7. CASE Capture
    BY <1>7, PrintStep DEF Capture
  <1> QED
    BY <1>3, <1>4, <1>5, <1>6, <1>7 DEF Sniffer

(* What the sniffer prints, and writes to its file, is once and in order   *)
(* all UDP over IPv4 from or to its filter's port that came by since its   *)
(* socket was made, whatever Traffic there is of any protocol and port,    *)
(* and whenever the user answers or stops it (08/udp_sniffer.c:54-68,      *)
(* 104-125, 135-146, 188-218).                                             *)
THEOREM CapturesTheTraffic == Spec => []CaptureIsTheTraffic
  <1>1. Init => CaptureInv
    <2> SUFFICES ASSUME Init PROVE CaptureInv
      OBVIOUS
    <2>1. /\ wire = <<>> /\ spc = "off" /\ opened = 0 /\ next = 0 /\ printed = <<>>
          /\ output_file = None
      BY DEF Init, PeerInit
    <2>2. CaptureIsTheTraffic
      <3>1. DOMAIN printed = {} /\ opened + 1..next = {}
        BY <2>1
      <3> QED
        BY <2>1, <3>1 DEF CaptureIsTheTraffic
    <2> QED
      BY <2>1, <2>2 DEF CaptureInv
  <1>2. OwnInv /\ CaptureInv /\ [Next]_vars => CaptureInv'
    <2> SUFFICES ASSUME Types, CaptureInv, [Next]_vars PROVE CaptureInv'
      BY DEF OwnInv
    <2>s. ASSUME UNCHANGED <<wire, snifferVars>> PROVE CaptureInv'
      <3>1. UNCHANGED <<wire, spc, filter_type, opened, next, printed, output_file>>
        BY <2>s DEF snifferVars
      <3> QED
        BY <3>1 DEF CaptureInv, CaptureIsTheTraffic, Matches
    <2>1. CASE Sniffer \/ signal_handler
      BY <2>1, SnifferStep
    <2>2. CASE OtherTraffic
      <3>1. PICK m \in Traffic : wire' = Append(wire, m) /\ UNCHANGED snifferVars
        BY <2>2 DEF OtherTraffic
      <3>2. m \in Packets
        BY TrafficAssumption DEF Packets, Frame, Texts
      <3> QED
        BY <3>1, <3>2, WireStep
    <2>3. CASE \E p \in Peers : Peer(p) /\ UNCHANGED snifferVars
      BY <2>3, <2>s, PeerSends, WireStep
    <2>4. CASE UNCHANGED vars
      BY <2>4, <2>s DEF vars
    <2> QED
      BY <2>1, <2>2, <2>3, <2>4 DEF Next
  <1>3. CaptureInv => CaptureIsTheTraffic
    BY DEF CaptureInv
  <1> QED
    BY <1>1, <1>2, <1>3, OwnInvariant, PTL DEF Spec
=============================================================================
