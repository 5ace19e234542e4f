------------------------------ MODULE TcpProofs ------------------------------
(***************************************************************************)
(* Proofs about 07/server.c and client.c, for any number of clients and of *)
(* slots: slots, client_count and the open descriptors agree, nobody is    *)
(* connected to a server that does not know of it, what a client is sent   *)
(* ends with the leave of whoever has gone, and only who has gone is       *)
(* dropped.                                                                *)
(***************************************************************************)
EXTENDS TcpChat, FiniteSetTheorems, SequenceTheorems, TLAPS

Waiting(c) == \E i \in 1..Len(backlog) : backlog[i] = c
Known(c) == \E f \in Fd : fds[f] = c

NetTypes ==
    /\ backlog \in Seq(Clients)
    /\ shut \in [Clients -> BOOLEAN]
    /\ cpc \in [Clients -> {"off", "init", "select", "stdin", "data", "receive", "leave", "exited"}]
    /\ slots \in [Slots -> Fd \cup {0}]
    /\ fds \in [Fd -> Clients \cup {None}]

(* Every slot that is in use has an open descriptor of its own, and every  *)
(* open descriptor a slot and a connection of its own.                     *)
Matched ==
    /\ count = Cardinality(Active)
    /\ \A i, j \in Active : i # j => slots[i] # slots[j]
    /\ \A i \in Active : fds[slots[i]] # None
    /\ \A f \in Fd : fds[f] # None => \E i \in Active : slots[i] = f
    /\ \A f, g \in Fd : fds[f] # None /\ fds[f] = fds[g] => f = g

(* A connection is new, waits for accept once, has a slot, or is closed.   *)
OneStage ==
    /\ \A c \in Clients : Known(c) \/ Waiting(c) => ~shut[c] /\ cpc[c] # "off"
    /\ \A c \in Clients : shut[c] => cpc[c] # "off"
    /\ \A c \in Clients : ~(Known(c) /\ Waiting(c))
    /\ \A i, j \in 1..Len(backlog) : backlog[i] = backlog[j] => i = j

(* There is somebody to accept when the batch says so.                     *)
BatchInv ==
    /\ batch \in Seq(Fd \cup {Listen})
    /\ \A i, j \in 1..Len(batch) : batch[i] = Listen /\ batch[j] = Listen => i = j
    /\ \A i \in 1..Len(batch) : batch[i] = Listen => backlog # <<>>

SlotsInv == NetTypes /\ (ServerGone \/ (Matched /\ OneStage /\ BatchInv))

(* The pieces of the two streams.                                          *)
Upward   == Pieces(Texts \cup {"init"}) \cup FileBytes
Downward == Pieces(Texts \cup {"join", "leave", "full"}) \cup FileBytes

StreamTypes ==
    /\ up \in [Clients -> Seq(Upward)] /\ down \in [Clients -> Seq(Downward)]
    /\ \A c \in Clients : Len(up[c]) <= Cap /\ Len(down[c]) <= Cap
    /\ gone \in [Clients -> 0..2] /\ todo \in [Clients -> 0..FileLen]
    /\ spc \in {"wait", "batch", "exited", "killed"} /\ count \in 0..MaxClients

(* What a client sends is its own; INIT is the first of it and gone before *)
(* there is a descriptor, CLOSE and the closing of the stream are the last *)
(* thing that it does.                                                     *)
UpInv == \A c \in Clients :
    /\ cpc[c] \in {"off", "init"} => up[c] = <<>> /\ ~Known(c)
    /\ gone[c] > 0 => cpc[c] = "exited"
    /\ \A i \in 1..Len(up[c]) :
          /\ up[c][i].from = c
          /\ up[c][i].type = "init" => i = 1 /\ ~Known(c)
          /\ up[c][i].type = "close" => cpc[c] = "exited"

(* Nothing of a client comes behind its LEAVE, which the server gives when *)
(* it closes.                                                              *)
LeaveInv == \A w, c \in Clients : \A i \in 1..Len(down[w]) :
    down[w][i] = Piece("leave", c) =>
       /\ shut[c]
       /\ \A j \in i + 1..Len(down[w]) : down[w][j].from # c

(* The events of a batch are those of different descriptors, all open, and *)
(* none of them has been dealt with.                                       *)
EventsInv ==
    /\ \A i, j \in 1..Len(batch) : batch[i] = batch[j] => i = j
    /\ \A i \in 1..Len(batch) : batch[i] # Listen =>
          /\ fds[batch[i]] # None
          /\ up[fds[batch[i]]] # <<>> \/ gone[fds[batch[i]]] > 0

Placed == \A c \in Clients :
    cpc[c] \in {"off", "exited"} \/ shut[c] \/ Known(c) \/ Waiting(c)

ChatInv ==
    /\ SlotsInv /\ StreamTypes /\ UpInv /\ LeaveInv
    /\ ServerGone \/ (EventsInv /\ Placed)

-----------------------------------------------------------------------------
(* Facts about the sets.                                                   *)

LEMMA LowestIn ==
    ASSUME NEW S \in SUBSET Nat, S # {}
    PROVE  Lowest(S) \in S
  <1>1. PICK x \in S : \A y \in S : ~(<<y, x>> \in OpToRel(<, Nat))
    BY WFMin, NatLessThanWellFounded
  <1>2. ASSUME NEW y \in S, y < x PROVE <<y, x>> \in OpToRel(<, Nat)
    BY <1>2 DEF OpToRel
  <1>3. ASSUME NEW y \in S PROVE x <= y
    <2>1. ~(y < x)
      BY <1>1, <1>2
    <2>2. x \in Nat /\ y \in Nat
      OBVIOUS
    <2> QED
      BY <2>1, <2>2
  <1> QED
    BY <1>3 DEF Lowest

LEMMA FdFinite == Cardinality(Clients) \in Nat /\ Fd \subseteq Nat \ {0} /\ IsFiniteSet(Fd)
                  /\ Cardinality(Fd) = Cardinality(Clients)
  <1>1. Cardinality(Clients) \in Nat
    BY TcpAssumption, FS_CardinalityType
  <1>2. IsFiniteSet(1..Cardinality(Clients))
        /\ Cardinality(1..Cardinality(Clients)) = Cardinality(Clients)
    BY <1>1, FS_Interval
  <1> QED
    BY <1>1, <1>2 DEF Fd

LEMMA ActiveFinite == IsFiniteSet(Active) /\ Active \subseteq Slots /\ Cardinality(Active) \in Nat
  <1>1. IsFiniteSet(Slots)
    BY TcpAssumption, FS_Interval DEF Slots
  <1>2. Active \in SUBSET Slots
    BY DEF Active
  <1> QED
    BY <1>1, <1>2, FS_Subset, FS_CardinalityType

(* Connections that have no descriptor leave a descriptor free.            *)
LEMMA FreeFd ==
    ASSUME NetTypes, Matched, NEW c \in Clients, ~Known(c)
    PROVE  Lowest({f \in Fd : fds[f] = None}) \in {f \in Fd : fds[f] = None}
  <1>1. {f \in Fd : fds[f] = None} # {}
    <2> SUFFICES ASSUME \A f \in Fd : fds[f] # None PROVE FALSE
      OBVIOUS
    <2> DEFINE T == Clients \ {c}
    <2>1. fds \in [Fd -> T]
      BY DEF NetTypes, Known
    <2>2. IsFiniteSet(T) /\ Cardinality(T) = Cardinality(Clients) - 1
      BY TcpAssumption, FS_RemoveElement
    <2>3. Cardinality(T) < Cardinality(Fd) /\ IsFiniteSet(Fd)
      BY <2>2, FdFinite
    <2> HIDE DEF T
    <2>4. \E f, g \in Fd : f # g /\ fds[f] = fds[g]
      BY <2>1, <2>2, <2>3, FS_PigeonHole
    <2> QED
      BY <2>4 DEF Matched
  <1>2. {f \in Fd : fds[f] = None} \in SUBSET Nat
    BY FdFinite
  <1> QED
    BY <1>1, <1>2, LowestIn

LEMMA FreeSlot ==
    ASSUME Slots \ Active # {}
    PROVE  Lowest(Slots \ Active) \in Slots \ Active
  <1>1. Slots \ Active \in SUBSET Nat
    BY TcpAssumption DEF Slots
  <1> QED
    BY <1>1, LowestIn

-----------------------------------------------------------------------------
(* What the steps do to slots and connections.                             *)

(* A client goes from place to place.                                      *)
LEMMA QuietStep ==
    ASSUME SlotsInv, UNCHANGED <<slots, count, fds, shut, backlog, batch>>,
           ServerGone => ServerGone',
           cpc' \in [Clients -> {"off", "init", "select", "stdin", "data", "receive", "leave",
                                 "exited"}],
           \A c \in Clients : cpc[c] # "off" => cpc'[c] # "off"
    PROVE  SlotsInv'
  <1>1. NetTypes'
    BY DEF SlotsInv, NetTypes
  <1>3. Matched => Matched'
    BY DEF Matched, Active
  <1>4. OneStage => OneStage'
    BY DEF OneStage, Known, Waiting
  <1>5. BatchInv => BatchInv'
    BY DEF BatchInv
  <1> QED
    BY <1>1, <1>3, <1>4, <1>5 DEF SlotsInv

LEMMA BatchStep ==
    ASSUME BatchInv, batch # <<>>, batch' = Tail(batch),
           Head(batch) # Listen => backlog' = backlog
    PROVE  BatchInv'
  <1> USE DEF BatchInv
  <1>1. /\ Len(batch) \in Nat \ {0} /\ Head(batch) = batch[1]
        /\ batch' \in Seq(Fd \cup {Listen})
        /\ Len(batch') = Len(batch) - 1
        /\ \A i \in 1..Len(batch') : batch'[i] = batch[i + 1]
    OBVIOUS
  <1>2. \A i, j \in 1..Len(batch') : batch'[i] = Listen /\ batch'[j] = Listen => i = j
    BY <1>1
  <1>3. ASSUME NEW i \in 1..Len(batch'), batch'[i] = Listen PROVE backlog' # <<>>
    BY <1>1, <1>3
  <1> QED
    BY <1>1, <1>2, <1>3

LEMMA ClosedFacts ==
    ASSUME NetTypes, NEW c, Closed(c)
    PROVE  /\ shut' \in [Clients -> BOOLEAN]
           /\ spc' # "killed" => \A d \in Clients : shut'[d] <=> shut[d] \/ d = c
  BY DEF NetTypes, Closed

(* The server lets go of the connection of slot i.                         *)
LEMMA DropStep ==
    ASSUME NetTypes, Matched, OneStage, NEW i \in Active,
           slots' = [j \in Slots |-> IF slots[j] = slots[i] THEN 0 ELSE slots[j]],
           count' = count - 1,
           fds' = [fds EXCEPT ![slots[i]] = None],
           Closed(fds[slots[i]]),
           UNCHANGED <<backlog, cpc>>
    PROVE  NetTypes' /\ Matched' /\ (spc' # "killed" => OneStage')
  <1> DEFINE fd == slots[i]
  <1>1. i \in Slots /\ fd \in Fd /\ fd # 0 /\ Active \subseteq Slots
    BY DEF Active, NetTypes
  <1>2. NetTypes'
    BY <1>1, ClosedFacts DEF NetTypes
  <1>3. Active' = Active \ {i}
    BY <1>1 DEF Active, Matched
  <1>4. Cardinality(Active') = count - 1
    BY <1>3, ActiveFinite, FS_RemoveElement DEF Matched
  <1>5. \A j \in Active' : slots'[j] = slots[j] /\ slots[j] # fd /\ j \in Active
    BY <1>1, <1>3 DEF Matched
  <1>6. \A f \in Fd : fds'[f] # None => f # fd /\ fds'[f] = fds[f]
    BY <1>1 DEF NetTypes
  <1>7. \A f \in Fd : f # fd => fds'[f] = fds[f]
    BY <1>1 DEF NetTypes
  <1>8. Matched'
    <2>1. \A j \in Active' : fds'[slots'[j]] # None
      <3> SUFFICES ASSUME NEW j \in Active' PROVE fds'[slots'[j]] # None
        OBVIOUS
      <3>1. slots[j] \in Fd /\ fds[slots[j]] # None
        BY <1>1, <1>5 DEF Matched, Active, NetTypes
      <3> QED
        BY <1>5, <1>7, <3>1
    <2>2. \A f \in Fd : fds'[f] # None => \E j \in Active' : slots'[j] = f
      <3> SUFFICES ASSUME NEW f \in Fd, fds'[f] # None
                   PROVE  \E j \in Active' : slots'[j] = f
        OBVIOUS
      <3>1. f # fd /\ fds[f] # None
        BY <1>6
      <3>2. PICK j \in Active : slots[j] = f
        BY <3>1 DEF Matched
      <3> QED
        BY <1>3, <1>5, <3>1, <3>2
    <2> QED
      BY <1>4, <1>5, <1>6, <2>1, <2>2 DEF Matched
  <1>9. ASSUME spc' # "killed" PROVE OneStage'
    <2>1. \A c \in Clients : Known(c)' => Known(c) /\ c # fds[fd]
      BY <1>1, <1>6, TcpAssumption DEF Known, Matched
    <2>2. \A c \in Clients : Waiting(c)' <=> Waiting(c)
      BY DEF Waiting
    <2>3. Known(fds[fd])
      BY <1>1 DEF Known
    <2>4. fds[fd] \in Clients /\ cpc[fds[fd]] # "off" /\ ~Waiting(fds[fd])
      BY <1>1, <2>3 DEF OneStage, NetTypes, Matched, Active
    <2>5. \A c \in Clients : shut'[c] <=> shut[c] \/ c = fds[fd]
      BY <1>9, ClosedFacts
    <2> QED
      BY <2>1, <2>2, <2>4, <2>5 DEF OneStage
  <1> QED
    BY <1>2, <1>8, <1>9

(* The server accepts the first connection that waits and gives it a slot. *)
LEMMA JoinStep ==
    ASSUME NetTypes, Matched, OneStage, backlog # <<>>, NEW c, c = Head(backlog),
           NEW i \in Slots \ Active, NEW fd \in Fd, fds[fd] = None,
           backlog' = Tail(backlog),
           slots' = [slots EXCEPT ![i] = fd], count' = count + 1,
           fds' = [fds EXCEPT ![fd] = c],
           Closed(None), UNCHANGED cpc
    PROVE  NetTypes' /\ Matched' /\ (spc' # "killed" => OneStage')
  <1>1. /\ c \in Clients /\ c # None /\ fd # 0
        /\ Len(backlog) \in Nat \ {0} /\ c = backlog[1]
        /\ backlog' \in Seq(Clients) /\ Len(backlog') = Len(backlog) - 1
        /\ \A j \in 1..Len(backlog') : backlog'[j] = backlog[j + 1]
    BY TcpAssumption, FdFinite DEF NetTypes
  <1>2. NetTypes'
    BY <1>1, ClosedFacts DEF NetTypes
  <1>3. Active' = Active \cup {i}
    BY <1>1 DEF Active, NetTypes
  <1>4. Cardinality(Active') = count + 1
    BY <1>3, ActiveFinite, FS_AddElement DEF Matched
  <1>5. slots'[i] = fd /\ \A j \in Active : slots'[j] = slots[j] /\ slots[j] # fd /\ slots[j] \in Fd
    BY DEF NetTypes, Active, Matched
  <1>6. fds'[fd] = c /\ \A f \in Fd : f # fd => fds'[f] = fds[f]
    BY DEF NetTypes
  <1>7. Waiting(c)
    BY <1>1 DEF Waiting
  <1>8. ~Known(c)
    BY <1>1, <1>7 DEF OneStage
  <1>9. Matched'
    <2>1. \A j \in Active' : fds'[slots'[j]] # None
      BY <1>1, <1>3, <1>5, <1>6 DEF Matched
    <2>2. \A j, k \in Active' : j # k => slots'[j] # slots'[k]
      BY <1>3, <1>5 DEF Matched
    <2>3. \A f \in Fd : fds'[f] # None => \E j \in Active' : slots'[j] = f
      BY <1>3, <1>5, <1>6 DEF Matched
    <2>4. \A f, g \in Fd : fds'[f] # None /\ fds'[f] = fds'[g] => f = g
      BY <1>6, <1>8 DEF Matched, Known
    <2> QED
      BY <1>4, <2>1, <2>2, <2>3, <2>4 DEF Matched
  <1>10. ASSUME spc' # "killed" PROVE OneStage'
    <2>1. \A d \in Clients : Known(d)' => Known(d) \/ d = c
      BY <1>6 DEF Known
    <2>2. \A d \in Clients : Waiting(d)' => Waiting(d)
      BY <1>1 DEF Waiting
    <2>3. ~Waiting(c)'
      <3> SUFFICES ASSUME NEW j \in 1..Len(backlog'), backlog'[j] = c PROVE FALSE
        BY DEF Waiting
      <3>1. backlog[j + 1] = backlog[1] /\ j + 1 \in 1..Len(backlog) /\ 1 \in 1..Len(backlog)
        BY <1>1
      <3> QED
        BY <3>1 DEF OneStage
    <2>4. \A j, k \in 1..Len(backlog') : backlog'[j] = backlog'[k] => j = k
      BY <1>1 DEF OneStage
    <2>5. ~shut[c] /\ cpc[c] # "off"
      BY <1>1, <1>7 DEF OneStage
    <2>6. \A d \in Clients : shut'[d] <=> shut[d]
      BY <1>10, ClosedFacts, TcpAssumption
    <2> QED
      BY <2>1, <2>2, <2>3, <2>4, <2>5, <2>6 DEF OneStage
  <1> QED
    BY <1>2, <1>9, <1>10

(* The server accepts it and closes it.                                    *)
LEMMA RefuseStep ==
    ASSUME NetTypes, Matched, OneStage, backlog # <<>>, NEW c, c = Head(backlog),
           backlog' = Tail(backlog),
           Closed(c),
           UNCHANGED <<slots, count, fds, cpc>>
    PROVE  NetTypes' /\ Matched' /\ (spc' # "killed" => OneStage')
  <1>1. /\ c \in Clients
        /\ Len(backlog) \in Nat \ {0} /\ c = backlog[1]
        /\ backlog' \in Seq(Clients) /\ Len(backlog') = Len(backlog) - 1
        /\ \A j \in 1..Len(backlog') : backlog'[j] = backlog[j + 1]
    BY DEF NetTypes
  <1>2. NetTypes'
    BY <1>1, ClosedFacts DEF NetTypes
  <1>3. Matched'
    BY DEF Matched, Active
  <1>4. ASSUME spc' # "killed" PROVE OneStage'
    <2>1. \A d \in Clients : Known(d)' <=> Known(d)
      BY DEF Known
    <2>2. \A d \in Clients : Waiting(d)' => Waiting(d)
      BY <1>1 DEF Waiting
    <2>3. ~Waiting(c)'
      <3> SUFFICES ASSUME NEW j \in 1..Len(backlog'), backlog'[j] = c PROVE FALSE
        BY DEF Waiting
      <3>1. backlog[j + 1] = backlog[1] /\ j + 1 \in 1..Len(backlog) /\ 1 \in 1..Len(backlog)
        BY <1>1
      <3> QED
        BY <3>1 DEF OneStage
    <2>4. \A j, k \in 1..Len(backlog') : backlog'[j] = backlog'[k] => j = k
      BY <1>1 DEF OneStage
    <2>5. Waiting(c)
      BY <1>1 DEF Waiting
    <2>6. cpc[c] # "off" /\ ~Known(c)
      BY <1>1, <2>5 DEF OneStage
    <2>7. \A d \in Clients : shut'[d] <=> shut[d] \/ d = c
      BY <1>4, ClosedFacts
    <2> QED
      BY <2>1, <2>2, <2>3, <2>4, <2>6, <2>7 DEF OneStage
  <1> QED
    BY <1>2, <1>3, <1>4

-----------------------------------------------------------------------------
(* The server's steps.                                                     *)

LEMMA BroadcastPlace ==
    ASSUME NEW s, NEW pieces, NEW cut, Broadcast(s, pieces, cut)
    PROVE  spc' \in {spc, "killed"}
  BY DEF Broadcast

(* The end of the server leaves it with its types.                         *)
LEMMA HandleStep ==
    ASSUME SlotsInv, Handle, UNCHANGED clientVars
    PROVE  SlotsInv'
  <1>1. /\ NetTypes /\ Matched /\ OneStage /\ BatchInv
        /\ spc = "batch" /\ batch # <<>> /\ batch' = Tail(batch) /\ cpc' = cpc
    BY DEF SlotsInv, Handle, ServerGone, clientVars
  <1> DEFINE fd == Head(batch)
  <1>2. fd \in Fd \cup {Listen} /\ (fd = Listen => backlog # <<>>)
    BY <1>1 DEF BatchInv
  <1>3. CASE fd = Listen
    <2> DEFINE c == Head(backlog)
    <2>1. HandleConnection
      BY <1>3 DEF Handle
    <2>2. c \in Clients /\ backlog # <<>> /\ backlog' = Tail(backlog)
      BY <1>1, <1>2, <1>3, <2>1 DEF HandleConnection, NetTypes
    <2>3. BatchInv'
      BY <1>1, <1>3, BatchStep
    <2>4. CASE Closed(c) /\ UNCHANGED <<spc, slots, count, fds>>
      <3>1. NetTypes' /\ Matched' /\ OneStage'
        BY <1>1, <2>2, <2>4, RefuseStep
      <3> QED
        BY <2>3, <3>1 DEF SlotsInv
    <2>5. CASE \E k \in 1..Len(up[c]) :
                 /\ slots' = [slots EXCEPT ![Lowest(Slots \ Active)] =
                                              Lowest({f \in Fd : fds[f] = None})]
                 /\ Slots \ Active # {}
                 /\ count' = count + 1
                 /\ fds' = [fds EXCEPT ![Lowest({f \in Fd : fds[f] = None})] = c]
                 /\ Broadcast(c, <<Piece("join", c)>>, k > 1)
                 /\ Closed(None)
      <3> DEFINE d == Lowest({f \in Fd : fds[f] = None})
                 i == Lowest(Slots \ Active)
      <3>1. ~Known(c)
        <4>1. c = backlog[1] /\ 1 \in 1..Len(backlog)
          BY <1>1, <2>2 DEF NetTypes
        <4>2. Waiting(c)
          BY <4>1 DEF Waiting
        <4> QED
          BY <1>1, <2>2, <4>2 DEF OneStage
      <3>2. d \in Fd /\ fds[d] = None
        BY <1>1, <2>2, <3>1, FreeFd
      <3>3. i \in Slots \ Active
        BY <2>5, FreeSlot
      <3>4. spc' \in {spc, "killed"}
        BY <2>5, BroadcastPlace
      <3> HIDE DEF d, i
      <3>5. /\ slots' = [slots EXCEPT ![i] = d] /\ count' = count + 1
            /\ fds' = [fds EXCEPT ![d] = c] /\ Closed(None)
        BY <2>5 DEF d, i
      <3>6. NetTypes' /\ Matched' /\ (spc' # "killed" => OneStage')
        BY <1>1, <2>2, <3>2, <3>3, <3>5, JoinStep
      <3> QED
        BY <2>3, <3>4, <3>6 DEF SlotsInv, ServerGone
    <2> QED
      BY <2>1, <2>4, <2>5 DEF HandleConnection, Refuse
  <1>4. CASE fd # Listen /\ \E i \in Slots : slots[i] = fd
    <2>1. HandleMessage(fd) /\ backlog' = backlog
      BY <1>4 DEF Handle
    <2>2. BatchInv'
      BY <1>1, <2>1, BatchStep
    <2>3. fd \in Fd /\ fd # 0
      BY <1>2, <1>4, FdFinite DEF Listen
    <2>4. PICK i \in Active : slots[i] = fd
      BY <1>4, <2>3 DEF Active
    <2>5. ASSUME NEW cut, Drop(fds[fd], fd, cut)
          PROVE  SlotsInv'
      <3>1. spc' \in {spc, "killed"}
        BY <2>5, BroadcastPlace DEF Drop
      <3>2. /\ slots' = [j \in Slots |-> IF slots[j] = slots[i] THEN 0 ELSE slots[j]]
            /\ count' = count - 1 /\ fds' = [fds EXCEPT ![slots[i]] = None]
            /\ Closed(fds[slots[i]])
        BY <2>4, <2>5 DEF Drop
      <3>3. NetTypes' /\ Matched' /\ (spc' # "killed" => OneStage')
        BY <1>1, <2>1, <2>4, <3>2, DropStep
      <3> QED
        BY <2>2, <3>1, <3>3 DEF SlotsInv, ServerGone
    <2>6. CASE /\ \E s, pieces, cut : Broadcast(s, pieces, cut)
               /\ Closed(None) /\ UNCHANGED <<slots, count, fds>>
      <3>1. spc' \in {spc, "killed"}
        BY <2>6, BroadcastPlace
      <3>2. NetTypes' /\ Matched'
        BY <1>1, <2>1, <2>6, ClosedFacts DEF NetTypes, Matched, Active
      <3>3. spc' # "killed" => OneStage'
        BY <1>1, <2>1, <2>6, ClosedFacts, TcpAssumption DEF OneStage, Known, Waiting
      <3> QED
        BY <2>2, <3>1, <3>2, <3>3 DEF SlotsInv, ServerGone
    <2> QED
      BY <2>1, <2>5, <2>6 DEF HandleMessage
  <1>5. CASE UNCHANGED <<spc, slots, count, fds, netVars>>
    <2>1. BatchInv'
      BY <1>1, <1>5, BatchStep DEF netVars
    <2>2. NetTypes' /\ Matched' /\ OneStage'
      BY <1>1, <1>5 DEF netVars, NetTypes, Matched, Active, OneStage, Known, Waiting
    <2> QED
      BY <2>1, <2>2 DEF SlotsInv
  <1> QED
    BY <1>3, <1>4, <1>5 DEF Handle

LEMMA ServerStep ==
    ASSUME SlotsInv, Server \/ ServerInterrupt, UNCHANGED clientVars
    PROVE  SlotsInv'
  <1>0. cpc' = cpc /\ cpc \in [Clients -> {"off", "init", "select", "stdin", "data", "receive",
                                           "leave", "exited"}]
    BY DEF clientVars, SlotsInv, NetTypes
  <1>1. CASE Handle
    BY <1>1, HandleStep
  <1>2. CASE EpollWait
    <2>1. /\ NetTypes /\ Matched /\ OneStage
          /\ UNCHANGED <<slots, count, fds, shut, backlog>>
      BY <1>2 DEF SlotsInv, EpollWait, ServerGone, netVars
    <2>2. NetTypes' /\ Matched' /\ OneStage'
      BY <1>0, <2>1 DEF NetTypes, Matched, Active, OneStage, Known, Waiting
    <2>3. BatchInv'
      <3> DEFINE ready == {f \in Fd \cup {Listen} : Ready(f)}
                 n == IF Cardinality(ready) < MaxEvents THEN Cardinality(ready) ELSE MaxEvents
      <3>1. IsFiniteSet(Fd \cup {Listen}) /\ ready \in SUBSET (Fd \cup {Listen})
        BY FdFinite, FS_AddElement
      <3>2. Cardinality(ready) \in Nat
        BY <3>1, FS_Subset, FS_CardinalityType
      <3>3. n \in Nat
        BY <3>2, TcpAssumption
      <3>4. batch' \in [1..n -> ready] /\ \A i, j \in 1..n : batch'[i] = batch'[j] => i = j
        BY <1>2 DEF EpollWait
      <3>5. Listen \in ready => backlog # <<>>
        BY DEF Ready
      <3> HIDE DEF ready, n
      <3>6. batch' \in Seq(Fd \cup {Listen}) /\ Len(batch') = n
        BY <3>1, <3>3, <3>4
      <3> QED
        BY <2>1, <3>4, <3>5, <3>6 DEF BatchInv
    <2> QED
      BY <2>2, <2>3 DEF SlotsInv
  <1>3. CASE BatchEnd
    <2>1. CASE srun
      <3>1. UNCHANGED <<slots, count, fds, shut, backlog, batch>> /\ ~ServerGone
        BY <1>3, <2>1 DEF BatchEnd, netVars, ServerGone
      <3> QED
        BY <1>0, <3>1, QuietStep
    <2>2. CASE ~srun
      <3>1. ServerGone'
        BY <1>3, <2>2 DEF BatchEnd, ServerGone
      <3>2. /\ backlog' = <<>> /\ shut' = [c \in Clients |-> TRUE]
            /\ UNCHANGED <<slots, fds>>
        BY <1>3, <2>2 DEF BatchEnd
      <3>3. shut' \in [Clients -> BOOLEAN] /\ backlog' \in Seq(Clients)
        BY <3>2
      <3>4. NetTypes'
        BY <1>0, <3>2, <3>3 DEF SlotsInv, NetTypes
      <3> QED
        BY <3>1, <3>4 DEF SlotsInv
    <2> QED
      BY <2>1, <2>2
  <1>4. CASE ServerInterrupt
    <2>1. UNCHANGED <<slots, count, fds, shut, backlog, batch>> /\ ~ServerGone
      BY <1>4 DEF ServerInterrupt, netVars, ServerGone
    <2> QED
      BY <1>0, <2>1, QuietStep
  <1> QED
    BY <1>1, <1>2, <1>3, <1>4 DEF Server

-----------------------------------------------------------------------------
(* The clients' steps.                                                     *)

Places == {"init", "select", "stdin", "data", "receive", "leave", "exited"}

(* A client that has connected never is as before again.                   *)
LEMMA ClientPlace ==
    ASSUME NEW c \in Clients, Runs(c) \/ Type(c) \/ Interrupt(c) \/ Crash(c)
    PROVE  /\ cpc[c] # "off" /\ UNCHANGED <<shut, backlog>>
           /\ cpc' = cpc \/ \E l \in Places : cpc' = [cpc EXCEPT ![c] = l]
  <1> USE DEF Places, Goto
  <1>1. \A run : Round(run) \in Places
    BY DEF Round
  <1>2. ASSUME NEW run, Continue(c, run)
        PROVE  \E l \in Places : cpc' = [cpc EXCEPT ![c] = l]
    BY <1>1, <1>2 DEF Continue, Keyboard
  <1>3. CASE SendInit(c) \/ Leave(c)
    BY <1>3 DEF SendInit, Leave
  <1>4. CASE FromServer(c)
    BY <1>2, <1>4 DEF FromServer
  <1>5. CASE ReceiveFile(c)
    BY <1>2, <1>5 DEF ReceiveFile
  <1>6. CASE Command(c) \/ SendData(c)
    BY <1>1, <1>6 DEF Command, SendData
  <1>7. CASE Type(c)
    BY <1>7 DEF Type, Keyboard, netVars
  <1>8. CASE Interrupt(c) \/ Crash(c)
    BY <1>8 DEF Interrupt, Crash, netVars
  <1> QED
    BY <1>3, <1>4, <1>5, <1>6, <1>7, <1>8 DEF Runs

(* A connection that is made waits for accept.                             *)
LEMMA ConnectStep ==
    ASSUME SlotsInv, NEW c \in Clients, Connect(c, ~ServerGone), UNCHANGED serverVars
    PROVE  SlotsInv'
  <1>1. /\ UNCHANGED <<spc, slots, count, fds, batch, shut>> /\ cpc[c] = "off"
        /\ ServerGone' = ServerGone
    BY DEF serverVars, Connect, ServerGone
  <1>2. CASE ServerGone
    <2>1. backlog' = backlog /\ cpc' = [cpc EXCEPT ![c] = "exited"]
      BY <1>2 DEF Connect, Goto
    <2>2. NetTypes'
      BY <1>1, <2>1 DEF SlotsInv, NetTypes
    <2> QED
      BY <1>1, <1>2, <2>2 DEF SlotsInv
  <1>3. CASE ~ServerGone
    <2>1. /\ NetTypes /\ Matched /\ OneStage /\ BatchInv
          /\ backlog' = Append(backlog, c) /\ cpc' = [cpc EXCEPT ![c] = "init"]
      BY <1>3 DEF SlotsInv, Connect, Goto
    <2>2. /\ Len(backlog) \in Nat /\ Len(backlog') = Len(backlog) + 1
          /\ backlog' \in Seq(Clients) /\ backlog' # <<>>
          /\ \A i \in 1..Len(backlog) : backlog'[i] = backlog[i]
          /\ backlog'[Len(backlog) + 1] = c
      BY <2>1 DEF NetTypes
    <2>3. ~Known(c) /\ ~Waiting(c) /\ ~shut[c]
      BY <1>1, <2>1 DEF OneStage
    <2>4. NetTypes'
      BY <1>1, <2>1, <2>2 DEF NetTypes
    <2>5. Matched' /\ BatchInv'
      BY <1>1, <2>1, <2>2 DEF Matched, Active, BatchInv
    <2>6. OneStage'
      <3>1. \A d \in Clients : Known(d)' <=> Known(d)
        BY <1>1 DEF Known
      <3>2. \A d \in Clients : Waiting(d)' => Waiting(d) \/ d = c
        BY <2>2 DEF Waiting
      <3>3. \A d \in Clients : cpc'[d] # "off" <=> cpc[d] # "off" \/ d = c
        BY <2>1 DEF NetTypes
      <3>4. ASSUME NEW i \in 1..Len(backlog'), NEW j \in 1..Len(backlog'),
                   backlog'[i] = backlog'[j]
            PROVE  i = j
        BY <2>1, <2>2, <2>3, <3>4 DEF OneStage, Waiting
      <3> QED
        BY <1>1, <2>1, <2>3, <3>1, <3>2, <3>3, <3>4 DEF OneStage
    <2> QED
      BY <2>4, <2>5, <2>6 DEF SlotsInv
  <1> QED
    BY <1>2, <1>3

LEMMA ClientStep ==
    ASSUME SlotsInv, NEW c \in Clients,
           Runs(c) \/ Type(c) \/ Interrupt(c) \/ Crash(c), UNCHANGED serverVars
    PROVE  SlotsInv'
  <1>1. UNCHANGED <<slots, count, fds, batch>> /\ ServerGone' = ServerGone
    BY DEF serverVars, ServerGone
  <1>2. /\ cpc[c] # "off" /\ UNCHANGED <<shut, backlog>>
        /\ cpc' = cpc \/ \E l \in Places : cpc' = [cpc EXCEPT ![c] = l]
    BY ClientPlace
  <1>3. cpc \in [Clients -> {"off", "init", "select", "stdin", "data", "receive", "leave",
                             "exited"}]
    BY DEF SlotsInv, NetTypes
  <1>4. cpc' \in [Clients -> {"off", "init", "select", "stdin", "data", "receive", "leave",
                              "exited"}]
    BY <1>2, <1>3 DEF Places
  <1>5. \A d \in Clients : cpc[d] # "off" => cpc'[d] # "off"
    BY <1>2, <1>3 DEF Places
  <1> QED
    BY <1>1, <1>2, <1>4, <1>5, QuietStep

-----------------------------------------------------------------------------
LEMMA SlotsInitially == Init => SlotsInv
  <1> SUFFICES ASSUME Init PROVE SlotsInv
    OBVIOUS
  <1>1. NetTypes
    BY DEF Init, NetInit, ServerInit, ClientInit, NetTypes
  <1>2. Active = {} /\ ~\E f \in Fd : fds[f] # None
    BY DEF Init, ServerInit, Active
  <1>3. Matched
    BY <1>2, FS_EmptySet DEF Init, ServerInit, Matched
  <1>4. \A c \in Clients : ~Known(c) /\ ~Waiting(c) /\ ~shut[c]
    BY <1>2, TcpAssumption DEF Init, NetInit, Known, Waiting
  <1>5. OneStage
    BY <1>4 DEF Init, NetInit, OneStage
  <1>6. BatchInv
    BY DEF Init, ServerInit, BatchInv
  <1> QED
    BY <1>1, <1>3, <1>5, <1>6 DEF SlotsInv

LEMMA SlotsNext == SlotsInv /\ [Next]_vars => SlotsInv'
  <1> SUFFICES ASSUME SlotsInv, [Next]_vars PROVE SlotsInv'
    OBVIOUS
  <1>1. CASE (Server \/ ServerInterrupt) /\ UNCHANGED clientVars
    BY <1>1, ServerStep
  <1>2. CASE \E c \in Clients : Connect(c, ~ServerGone) /\ UNCHANGED serverVars
    BY <1>2, ConnectStep
  <1>3. CASE \E c \in Clients : /\ Runs(c) \/ Type(c) \/ Interrupt(c) \/ Crash(c)
                                /\ UNCHANGED serverVars
    BY <1>3, ClientStep
  <1>4. CASE UNCHANGED vars
    <2>1. /\ UNCHANGED <<slots, count, fds, shut, backlog, batch, cpc>>
          /\ ServerGone' = ServerGone
      BY <1>4 DEF vars, netVars, serverVars, clientVars, ServerGone
    <2> QED
      BY <2>1, QuietStep DEF SlotsInv, NetTypes
  <1> QED
    BY <1>1, <1>2, <1>3, <1>4 DEF Next

LEMMA SlotsInvAgree == SlotsInv => SlotsAgree
  <1> SUFFICES ASSUME SlotsInv, ~ServerGone PROVE SlotsAgree
    BY DEF SlotsAgree
  <1>1. NetTypes /\ Matched /\ OneStage
    BY DEF SlotsInv
  <1>2. \A i \in Active : slots[i] \in Fd
    BY <1>1 DEF NetTypes, Active
  <1>3. {slots[i] : i \in Active} = {f \in Fd : fds[f] # None}
    BY <1>1, <1>2 DEF Matched
  <1>4. \A c \in Clients : Registered(c) => ~shut[c]
    BY <1>1, <1>2 DEF Registered, OneStage, Known
  <1> QED
    BY <1>1, <1>3, <1>4 DEF SlotsAgree, Matched

(* With any number of clients and slots, client_count is the number of     *)
(* slots in use, every slot has an open descriptor of its own and no open  *)
(* descriptor is without a slot, and whoever has a slot has not been       *)
(* closed: accept, refusals, CLOSE, EOF and the events of one epoll_wait   *)
(* (07/server.c:150-153, 179-185, 238-284, 350-370) neither leak nor share *)
(* a descriptor.                                                           *)
THEOREM SlotsCorrect == Spec => []SlotsAgree
  <1>1. Spec => []SlotsInv
    BY SlotsInitially, SlotsNext, PTL DEF Spec
  <1> QED
    BY <1>1, SlotsInvAgree, PTL

-----------------------------------------------------------------------------
(* The streams.                                                            *)

LEMMA PieceFacts ==
    ASSUME NEW types, NEW m \in Pieces(types) \cup FileBytes
    PROVE  /\ m.from \in Clients
           /\ \/ m.type \in types /\ m.as = m.type /\ m = Piece(m.type, m.from)
              \/ m \in FileBytes /\ m.type = "bytes" /\ m = Bytes(m.as, m.from) /\ m.as \in FileWords
  BY DEF Pieces, Piece, FileBytes, Bytes

LEMMA PieceMade ==
    ASSUME NEW types, NEW t \in types, NEW c \in Clients
    PROVE  Piece(t, c) \in Pieces(types) \cup FileBytes /\ Piece(t, c).type = t /\ Piece(t, c).from = c
  BY DEF Pieces, Piece

LEMMA RestFacts ==
    ASSUME NEW S, NEW s \in Seq(S), NEW k \in 1..Len(s)
    PROVE  /\ Rest(s, k) \in Seq(S) /\ Len(Rest(s, k)) = Len(s) - k
           /\ \A i \in 1..Len(Rest(s, k)) : i + k \in 1..Len(s) /\ Rest(s, k)[i] = s[i + k]
  <1>1. Len(s) \in Nat /\ k \in Nat /\ k >= 1 /\ k <= Len(s)
    OBVIOUS
  <1>2. \A i \in k + 1..Len(s) : s[i] \in S
    BY <1>1
  <1>3. /\ Rest(s, k) \in Seq(S)
        /\ Len(Rest(s, k)) = IF k + 1 <= Len(s) THEN Len(s) - (k + 1) + 1 ELSE 0
        /\ \A i \in 1..Len(s) - (k + 1) + 1 : Rest(s, k)[i] = s[k + 1 + i - 1]
    BY <1>1, <1>2, SubSeqProperties DEF Rest
  <1>4. Len(Rest(s, k)) = Len(s) - k
    BY <1>1, <1>3
  <1>5. ASSUME NEW i \in 1..Len(Rest(s, k))
        PROVE  i + k \in 1..Len(s) /\ Rest(s, k)[i] = s[i + k]
    <2>1. i \in 1..Len(s) - (k + 1) + 1 /\ k + 1 + i - 1 = i + k /\ i + k \in 1..Len(s)
      BY <1>1, <1>4
    <2> QED
      BY <1>3, <2>1
  <1> QED
    BY <1>3, <1>4, <1>5

LEMMA BroadcastFacts ==
    ASSUME StreamTypes, NEW s, NEW pieces \in Seq(Downward), NEW cut, Broadcast(s, pieces, cut)
    PROVE  /\ spc' \in {spc, "killed"}
           /\ gone' \in [Clients -> 0..2]
           /\ \A c \in Clients : gone'[c] = gone[c] \/ (gone[c] = 1 /\ gone'[c] = 2)
           /\ down' \in [Clients -> Seq(Downward)]
           /\ \A w \in Clients : \/ down'[w] = down[w]
                                 \/ /\ down'[w] = down[w] \o pieces
                                    /\ Len(down[w]) + Len(pieces) <= Cap
  <1>1. /\ down \in [Clients -> Seq(Downward)] /\ gone \in [Clients -> 0..2]
    BY DEF StreamTypes
  <1>2. spc' \in {spc, "killed"}
    BY DEF Broadcast
  <1>3. /\ gone' \in [Clients -> 0..2]
        /\ \A c \in Clients : gone'[c] = gone[c] \/ (gone[c] = 1 /\ gone'[c] = 2)
    BY <1>1 DEF Broadcast
  <1>4. PICK served \in SUBSET Clients :
           /\ \A w \in served : Room(w, pieces)
           /\ down' = [c \in Clients |-> IF c \in served THEN down[c] \o pieces ELSE down[c]]
    <2> DEFINE reached == {fds[slots[i]] : i \in {j \in {i \in Active : fds[slots[i]] # s} :
                             \A d \in {i \in {i \in Active : fds[slots[i]] # s} :
                                          gone[fds[slots[i]]] = 2} : j < d}}
               served == {c \in reached : gone[c] = 0 /\ Room(c, pieces)}
    <2>1. down' = [c \in Clients |-> IF c \in served THEN down[c] \o pieces ELSE down[c]]
      BY DEF Broadcast
    <2>2. down' = [c \in Clients |-> IF c \in served \cap Clients THEN down[c] \o pieces ELSE down[c]]
      BY <2>1
    <2>3. \A w \in served \cap Clients : Room(w, pieces)
      OBVIOUS
    <2> HIDE DEF served
    <2> QED
      BY <2>2, <2>3
  <1>5. \A w \in Clients : \/ down'[w] = down[w]
                           \/ /\ down'[w] = down[w] \o pieces
                              /\ Len(down[w]) + Len(pieces) <= Cap
    BY <1>4 DEF Room
  <1>6. \A w \in Clients : down[w] \o pieces \in Seq(Downward)
    BY <1>1
  <1>7. down' \in [Clients -> Seq(Downward)]
    BY <1>1, <1>4, <1>6
  <1> QED
    BY <1>2, <1>3, <1>5, <1>7

(* What is passed on of a registered client's stream is all its own.       *)
LEMMA PassedOnFacts ==
    ASSUME StreamTypes, UpInv, NEW c \in Clients, Known(c), NEW k \in 1..Len(up[c])
    PROVE  /\ PassedOn(SubSeq(up[c], 1, k)) \in Seq(Downward)
           /\ \A i \in 1..Len(PassedOn(SubSeq(up[c], 1, k))) :
                 /\ PassedOn(SubSeq(up[c], 1, k))[i].from = c
                 /\ PassedOn(SubSeq(up[c], 1, k))[i].type # "leave"
  <1> DEFINE s == SubSeq(up[c], 1, k)
  <1>1. up[c] \in Seq(Upward) /\ Len(up[c]) \in Nat /\ k \in Nat /\ 1 <= k /\ k <= Len(up[c])
    BY DEF StreamTypes
  <1>2. Len(s) = k /\ \A i \in 1..k : s[i] = up[c][i] /\ i \in 1..Len(up[c])
    BY <1>1
  <1>p. \A t \in Texts \cup {"join", "leave", "full"} : Piece(t, c) \in Downward
    BY PieceMade DEF Downward
  <1>3. \A i \in 1..Len(up[c]) :
           /\ up[c][i] \in Downward /\ up[c][i].from = c /\ up[c][i].type # "leave"
    <2> TAKE i \in 1..Len(up[c])
    <2>1. up[c][i] \in Upward
      BY <1>1
    <2>2. up[c][i].from = c /\ up[c][i].type # "init"
      BY DEF UpInv
    <2>3. \/ /\ up[c][i].type \in Texts \cup {"init"}
             /\ up[c][i] = Piece(up[c][i].type, up[c][i].from)
          \/ up[c][i] \in FileBytes /\ up[c][i].type = "bytes"
      BY <2>1, PieceFacts DEF Upward
    <2>4. CASE up[c][i] \in FileBytes /\ up[c][i].type = "bytes"
      BY <2>2, <2>4 DEF Downward
    <2>5. CASE up[c][i].type \in Texts \cup {"init"} /\ up[c][i] = Piece(up[c][i].type, up[c][i].from)
      <3>1. up[c][i].type \in Texts \cup {"join", "leave", "full"} /\ up[c][i].type # "leave"
        BY <2>2, <2>5 DEF Texts
      <3> QED
        BY <1>p, <2>2, <2>5, <3>1
    <2> QED
      BY <2>3, <2>4, <2>5
  <1>4. s \in Seq(Downward)
    <2>1. \A i \in 1..k : up[c][i] \in Downward
      BY <1>2, <1>3
    <2> QED
      BY <1>1, <2>1, SubSeqProperties
  <1> HIDE DEF s
  <1>5. CASE s[1].as # "start"
    <2> DEFINE ends == {i \in 1..Len(s) : s[i].as = "zero"} \cup {Len(s) + 1}
               n    == Lowest(ends) - 1
    <2>1. ends \in SUBSET Nat /\ ends # {} /\ \A e \in ends : 1 <= e /\ e <= k + 1
      BY <1>1, <1>2 DEF s
    <2> HIDE DEF ends
    <2>2. Lowest(ends) \in ends
      BY <2>1, LowestIn
    <2>3. n \in Nat /\ n <= k
      <3>1. Lowest(ends) \in Nat /\ 1 <= Lowest(ends) /\ Lowest(ends) <= k + 1
        BY <2>1, <2>2
      <3> QED
        BY <1>1, <3>1
    <2>4. PassedOn(s) = SubSeq(s, 1, n)
      BY <1>5 DEF PassedOn, ends
    <2> HIDE DEF n
    <2>5. \A i \in 1..n : s[i] \in Downward
      BY <1>2, <1>3, <2>3, <1>1 DEF s
    <2>6. /\ SubSeq(s, 1, n) \in Seq(Downward)
          /\ Len(SubSeq(s, 1, n)) = n
          /\ \A i \in 1..n : SubSeq(s, 1, n)[i] = s[i]
      BY <1>1, <2>3, <2>5, SubSeqProperties
    <2> QED
      BY <1>1, <1>2, <1>3, <2>3, <2>4, <2>6 DEF s
  <1>6. CASE s[1].as = "start"
    <2>1. 1 \in 1..k
      BY <1>1
    <2>2. s[1] \in Downward /\ s[1].from = c /\ s[1].type # "leave"
      BY <1>2, <1>3, <2>1
    <2> DEFINE e == s[1]
    <2>3. e \in Downward /\ e.from = c /\ e.type # "leave" /\ PassedOn(s) = <<e>>
      BY <1>6, <2>2 DEF PassedOn
    <2> HIDE DEF e
    <2>4. PassedOn(s) \in Seq(Downward) /\ Len(PassedOn(s)) = 1 /\ PassedOn(s)[1] = e
      BY <2>3
    <2> QED
      BY <2>3, <2>4 DEF s
  <1> QED
    BY <1>5, <1>6 DEF s

(* What the server does with one event.                                    *)
Received(c, k) == k \in 1..Len(up[c]) /\ up' = [up EXCEPT ![c] = Rest(@, k)]

Refused(c) ==
    /\ Head(batch) = Listen /\ Waiting(c) /\ c = Head(backlog) /\ backlog' = Tail(backlog)
    /\ Closed(c) /\ UNCHANGED <<spc, slots, count, fds, gone>>
    /\ \/ up' = up /\ (down' = down \/ down' = [down EXCEPT ![c] = <<Piece("full", c)>>])
       \/ down' = down /\ up[c][1].as # "init" /\ \E k \in 1..Len(up[c]) : Received(c, k)

Accepted(c, fd, k) ==
    /\ Head(batch) = Listen /\ Waiting(c) /\ c = Head(backlog) /\ backlog' = Tail(backlog)
    /\ Received(c, k)
    /\ fds[fd] = None /\ fds' = [fds EXCEPT ![fd] = c]
    /\ \E i \in Slots \ Active : slots' = [slots EXCEPT ![i] = fd]
    /\ count < MaxClients /\ count' = count + 1
    /\ Broadcast(c, <<Piece("join", c)>>, k > 1) /\ Closed(None)

Dropped(c, fd) ==
    /\ Head(batch) = fd /\ fds[fd] = c /\ backlog' = backlog
    /\ \/ up[c] = <<>> /\ up' = up
       \/ up[c] # <<>> /\ up[c][1].as = "close" /\ \E k \in 1..Len(up[c]) : Received(c, k)
    /\ slots' = [i \in Slots |-> IF slots[i] = fd THEN 0 ELSE slots[i]]
    /\ fds' = [fds EXCEPT ![fd] = None]
    /\ count > 0 /\ count' = count - 1
    /\ \E cut : Broadcast(c, <<Piece("leave", c)>>, cut)
    /\ Closed(c)

Relayed(c, fd, k) ==
    /\ Head(batch) = fd /\ fds[fd] = c /\ backlog' = backlog
    /\ Received(c, k)
    /\ \E cut : Broadcast(c, PassedOn(SubSeq(up[c], 1, k)), cut)
    /\ Closed(None) /\ UNCHANGED <<slots, count, fds>>

LEMMA HandleKinds ==
    ASSUME SlotsInv, StreamTypes, Handle
    PROVE  /\ ~ServerGone /\ Matched /\ OneStage /\ BatchInv
           /\ batch # <<>> /\ batch' = Tail(batch)
           /\ \/ \E c \in Clients : Refused(c)
              \/ \E c \in Clients, fd \in Fd : \E k \in 1..Len(up[c]) : Accepted(c, fd, k)
              \/ \E c \in Clients, fd \in Fd : Dropped(c, fd)
              \/ \E c \in Clients, fd \in Fd : \E k \in 1..Len(up[c]) : Relayed(c, fd, k)
              \/ UNCHANGED <<spc, slots, count, fds, netVars>>
  <1>1. /\ NetTypes /\ Matched /\ OneStage /\ BatchInv /\ ~ServerGone
        /\ spc = "batch" /\ batch # <<>> /\ batch' = Tail(batch)
    BY DEF SlotsInv, Handle, ServerGone
  <1> DEFINE e == Head(batch)
  <1>2. e \in Fd \cup {Listen} /\ (e = Listen => backlog # <<>>)
    BY <1>1 DEF BatchInv
  <1>t. \A c \in Clients : up[c] \in Seq(Upward)
    BY DEF StreamTypes
  <1>3. CASE e = Listen
    <2> DEFINE c == Head(backlog)
               d == Lowest({f \in Fd : fds[f] = None})
    <2>1. HandleConnection
      BY <1>3 DEF Handle
    <2>2. c \in Clients /\ Waiting(c) /\ backlog' = Tail(backlog)
      <3>1. c = backlog[1] /\ 1 \in 1..Len(backlog) /\ c \in Clients
        BY <1>1, <1>2, <1>3 DEF NetTypes
      <3> QED
        BY <2>1, <3>1 DEF Waiting, HandleConnection
    <2>3. d \in Fd /\ fds[d] = None
      <3>1. ~Known(c)
        BY <1>1, <2>2 DEF OneStage
      <3> QED
        BY <1>1, <2>2, <3>1, FreeFd
    <2>4. CASE Refuse(c)
      <3>1. up' = up /\ (down' = down \/ down' = [down EXCEPT ![c] = <<Piece("full", c)>>])
        BY <2>4, <2>2 DEF Refuse, StreamTypes
      <3>2. Refused(c)
        BY <1>3, <2>2, <2>4, <3>1 DEF Refuse, Refused
      <3> QED
        BY <1>1, <2>2, <3>2
    <2>5. CASE /\ up[c] # <<>> /\ ~(count >= MaxClients) /\ Slots \ Active # {}
               /\ \E k \in 1..Len(up[c]) :
                    /\ up' = [up EXCEPT ![c] = Rest(@, k)]
                    /\ up[c][1].as = "init"
                    /\ slots' = [slots EXCEPT ![Lowest(Slots \ Active)] = d]
                    /\ count' = count + 1
                    /\ fds' = [fds EXCEPT ![d] = c]
                    /\ Broadcast(c, <<Piece("join", c)>>, k > 1)
                    /\ Closed(None)
      <3>1. count < MaxClients
        BY <2>5, TcpAssumption DEF StreamTypes
      <3>s. Lowest(Slots \ Active) \in Slots \ Active
        BY <2>5, FreeSlot
      <3> HIDE DEF d
      <3>2. \E k \in 1..Len(up[c]) : Accepted(c, d, k)
        BY <1>3, <2>2, <2>3, <2>5, <3>1, <3>s DEF Accepted, Received
      <3> QED
        BY <1>1, <2>2, <2>3, <3>2
    <2>6. CASE \E k \in 1..Len(up[c]) :
                 /\ up' = [up EXCEPT ![c] = Rest(@, k)]
                 /\ up[c][1].as # "init"
                 /\ UNCHANGED <<spc, down, gone, lost, slots, count, fds>> /\ Closed(c)
      <3>1. Refused(c)
        BY <1>3, <2>2, <2>6 DEF Refused, Received
      <3> QED
        BY <1>1, <2>2, <3>1
    <2> HIDE DEF c, d
    <2> QED
      BY <2>1, <2>4, <2>5, <2>6 DEF HandleConnection, c, d
  <1>4. CASE e # Listen /\ \E i \in Slots : slots[i] = e
    <2>1. HandleMessage(e) /\ backlog' = backlog
      BY <1>4 DEF Handle
    <2>2. e \in Fd /\ e # 0
      BY <1>2, <1>4, FdFinite DEF Listen
    <2>3. PICK i \in Active : slots[i] = e
      BY <1>4, <2>2 DEF Active
    <2> DEFINE c == fds[e]
    <2>4. c \in Clients
      BY <1>1, <2>2, <2>3 DEF Matched, NetTypes
    <2>5. count > 0
      BY <1>1, <2>3, ActiveFinite, FS_EmptySet DEF Matched
    <2>r. ASSUME NEW k \in 1..Len(up[c]) PROVE up[c] # <<>> /\ SubSeq(up[c], 1, k)[1] = up[c][1]
      <3>1. up[c] \in Seq(Upward) /\ 1 \in 1..k /\ k <= Len(up[c]) /\ k \in Nat
        BY <1>t, <2>4
      <3>2. \A j \in 1..k : up[c][j] \in Upward
        BY <3>1
      <3> QED
        BY <3>1, <3>2, SubSeqProperties
    <2>6. CASE up[c] = <<>> /\ Drop(c, e, FALSE) /\ UNCHANGED up
      <3>1. Dropped(c, e)
        BY <2>1, <2>2, <2>5, <2>6 DEF Drop, Dropped
      <3> QED
        BY <1>1, <2>2, <2>4, <3>1
    <2>7. ASSUME NEW k \in 1..Len(up[c]), up' = [up EXCEPT ![c] = Rest(@, k)],
                 SubSeq(up[c], 1, k)[1].as = "close", NEW cut, Drop(c, e, cut)
          PROVE  Dropped(c, e)
      BY <2>1, <2>2, <2>5, <2>7, <2>r DEF Drop, Dropped, Received
    <2>8. ASSUME NEW k \in 1..Len(up[c]), up' = [up EXCEPT ![c] = Rest(@, k)],
                 NEW cut, Broadcast(c, PassedOn(SubSeq(up[c], 1, k)), cut),
                 Closed(None), UNCHANGED <<slots, count, fds>>
          PROVE  Relayed(c, e, k)
      BY <2>1, <2>8 DEF Relayed, Received
    <2> HIDE DEF c
    <2>9. \/ up[c] = <<>> /\ Drop(c, e, FALSE) /\ UNCHANGED up
          \/ Dropped(c, e)
          \/ \E k \in 1..Len(up[c]) : Relayed(c, e, k)
      BY <2>1, <2>7, <2>8 DEF HandleMessage, c
    <2> QED
      BY <1>1, <2>2, <2>4, <2>6, <2>9
  <1>5. CASE UNCHANGED <<spc, slots, count, fds, netVars>>
    BY <1>1, <1>5
  <1> QED
    BY <1>3, <1>4, <1>5 DEF Handle

(* What is left of the streams to the server, and whose they are.          *)
LEMMA HandleUp ==
    ASSUME SlotsInv, StreamTypes, UpInv, Handle
    PROVE  /\ up' \in [Clients -> Seq(Upward)]
           /\ \A d \in Clients : gone'[d] = gone[d] \/ (gone[d] = 1 /\ gone'[d] = 2)
           /\ \/ up' = up /\ fds' = fds
              \/ \E c \in Clients :
                /\ \A d \in Clients : d # c => up'[d] = up[d]
                /\ \/ up'[c] = up[c] /\ (Known(c)' => Known(c))
                   \/ \E k \in 1..Len(up[c]) : up'[c] = Rest(up[c], k)
                /\ \A d \in Clients : d # c /\ Known(d)' => Known(d)
                /\ \A f \in Fd : f # Head(batch) /\ fds[f] # None => fds'[f] = fds[f] /\ fds[f] # c
  <1>1. /\ NetTypes /\ Matched /\ OneStage /\ BatchInv /\ batch # <<>>
    BY HandleKinds DEF SlotsInv
  <1>t. up \in [Clients -> Seq(Upward)] /\ fds \in [Fd -> Clients \cup {None}]
    BY <1>1 DEF StreamTypes, NetTypes
  <1>o. None \notin Clients
    BY TcpAssumption
  <1>2. ASSUME NEW c \in Clients, NEW k \in 1..Len(up[c]), Received(c, k)
        PROVE  /\ up' \in [Clients -> Seq(Upward)] /\ up'[c] = Rest(up[c], k)
               /\ \A d \in Clients : d # c => up'[d] = up[d]
    <2>1. Rest(up[c], k) \in Seq(Upward)
      BY <1>t, RestFacts
    <2> QED
      BY <1>t, <1>2, <2>1 DEF Received
  <1>3. ASSUME NEW s, NEW pieces, NEW cut, Broadcast(s, pieces, cut)
        PROVE  \A d \in Clients : gone'[d] = gone[d] \/ (gone[d] = 1 /\ gone'[d] = 2)
    BY <1>3 DEF Broadcast, StreamTypes
  <1>4. ASSUME NEW c \in Clients, Refused(c)
        PROVE  /\ up' \in [Clients -> Seq(Upward)] /\ \A d \in Clients : d # c => up'[d] = up[d]
               /\ up'[c] = up[c] \/ \E k \in 1..Len(up[c]) : up'[c] = Rest(up[c], k)
               /\ gone' = gone /\ fds' = fds /\ ~Known(c)
    <2>1. \/ up' = up
          \/ \E k \in 1..Len(up[c]) : Received(c, k)
      BY <1>4 DEF Refused
    <2>2. gone' = gone /\ fds' = fds /\ Waiting(c)
      BY <1>4 DEF Refused
    <2>3. ~Known(c)
      BY <1>1, <2>2 DEF OneStage
    <2> QED
      BY <1>t, <1>2, <2>1, <2>2, <2>3
  <1>5. CASE \E c \in Clients : Refused(c)
    BY <1>4, <1>5 DEF Known
  <1>6. ASSUME NEW c \in Clients, NEW fd \in Fd, NEW k \in 1..Len(up[c]), Accepted(c, fd, k)
        PROVE  /\ ~Known(c) /\ Received(c, k) /\ \E cut : Broadcast(c, <<Piece("join", c)>>, cut)
               /\ \A d \in Clients : d # c /\ Known(d)' => Known(d)
               /\ \A f \in Fd : fds[f] # None => fds'[f] = fds[f] /\ fds[f] # c
    <2>1. Waiting(c) /\ Received(c, k) /\ (\E cut : Broadcast(c, <<Piece("join", c)>>, cut))
          /\ fds[fd] = None /\ fds' = [fds EXCEPT ![fd] = c]
      BY <1>6 DEF Accepted
    <2>2. ~Known(c)
      BY <1>1, <2>1 DEF OneStage
    <2>3. \A f \in Fd : fds'[f] = IF f = fd THEN c ELSE fds[f]
      BY <1>t, <2>1
    <2> QED
      BY <2>1, <2>2, <2>3 DEF Known
  <1>7. CASE \E c \in Clients, fd \in Fd : \E k \in 1..Len(up[c]) : Accepted(c, fd, k)
    <2>1. PICK c \in Clients, fd \in Fd : \E k \in 1..Len(up[c]) : Accepted(c, fd, k)
      BY <1>7
    <2>k. PICK k \in 1..Len(up[c]) : Accepted(c, fd, k)
      BY <2>1
    <2>2. /\ \A d \in Clients : gone'[d] = gone[d] \/ (gone[d] = 1 /\ gone'[d] = 2)
      BY <1>3, <1>6, <2>k
    <2>3. /\ up' \in [Clients -> Seq(Upward)] /\ up'[c] = Rest(up[c], k)
          /\ \A d \in Clients : d # c => up'[d] = up[d]
      BY <1>2, <1>6, <2>k
    <2> QED
      BY <1>6, <2>k, <2>2, <2>3
  <1>8. ASSUME NEW c \in Clients, NEW fd \in Fd, fd = Head(batch), fds[fd] = c,
               fds' = fds \/ fds' = [fds EXCEPT ![fd] = None]
        PROVE  /\ \A d \in Clients : Known(d)' => Known(d)
               /\ \A f \in Fd : f # Head(batch) /\ fds[f] # None => fds'[f] = fds[f] /\ fds[f] # c
    <2>1. \A f \in Fd : fds'[f] = fds[f] \/ (f = fd /\ fds'[f] = None)
      BY <1>t, <1>8
    <2>2. \A f \in Fd : f # fd => fds[f] # c
      BY <1>1, <1>8, <1>o DEF Matched
    <2> QED
      BY <1>8, <1>o, <2>1, <2>2 DEF Known
  <1>9. CASE \E c \in Clients, fd \in Fd : Dropped(c, fd)
    <2>1. PICK c \in Clients, fd \in Fd : Dropped(c, fd)
      BY <1>9
    <2>2. /\ fd = Head(batch) /\ fds[fd] = c /\ fds' = [fds EXCEPT ![fd] = None]
          /\ up' = up \/ \E k \in 1..Len(up[c]) : Received(c, k)
          /\ \E cut : Broadcast(c, <<Piece("leave", c)>>, cut)
      BY <2>1 DEF Dropped
    <2>3. \A d \in Clients : gone'[d] = gone[d] \/ (gone[d] = 1 /\ gone'[d] = 2)
      BY <1>3, <2>2
    <2>4. /\ up' \in [Clients -> Seq(Upward)] /\ \A d \in Clients : d # c => up'[d] = up[d]
          /\ up'[c] = up[c] \/ \E k \in 1..Len(up[c]) : up'[c] = Rest(up[c], k)
      BY <1>t, <1>2, <2>2
    <2>5. /\ \A d \in Clients : Known(d)' => Known(d)
          /\ \A f \in Fd : f # Head(batch) /\ fds[f] # None => fds'[f] = fds[f] /\ fds[f] # c
      BY <1>8, <2>2
    <2> QED
      BY <2>3, <2>4, <2>5
  <1>10. CASE \E c \in Clients, fd \in Fd : \E k \in 1..Len(up[c]) : Relayed(c, fd, k)
    <2>1. PICK c \in Clients, fd \in Fd : \E k \in 1..Len(up[c]) : Relayed(c, fd, k)
      BY <1>10
    <2>k. PICK k \in 1..Len(up[c]) : Relayed(c, fd, k)
      BY <2>1
    <2>2. /\ fd = Head(batch) /\ fds[fd] = c /\ fds' = fds /\ Received(c, k)
          /\ \E cut : Broadcast(c, PassedOn(SubSeq(up[c], 1, k)), cut)
      BY <2>k DEF Relayed
    <2>3. \A d \in Clients : gone'[d] = gone[d] \/ (gone[d] = 1 /\ gone'[d] = 2)
      BY <1>3, <2>2
    <2>4. /\ up' \in [Clients -> Seq(Upward)] /\ up'[c] = Rest(up[c], k)
          /\ \A d \in Clients : d # c => up'[d] = up[d]
      BY <1>2, <2>2
    <2>5. /\ \A d \in Clients : Known(d)' => Known(d)
          /\ \A f \in Fd : f # Head(batch) /\ fds[f] # None => fds'[f] = fds[f] /\ fds[f] # c
      BY <1>8, <2>2
    <2> QED
      BY <2>3, <2>4, <2>5
  <1>11. CASE UNCHANGED <<spc, slots, count, fds, netVars>>
    <2> QED
      BY <1>t, <1>11 DEF netVars
  <1> QED
    BY <1>5, <1>7, <1>9, <1>10, <1>11, HandleKinds
LEMMA HandleUpInv ==
    ASSUME SlotsInv, StreamTypes, UpInv, Handle, UNCHANGED clientVars
    PROVE  UpInv'
  <1>0. cpc' = cpc
    BY DEF clientVars
  <1>t. \A c \in Clients : up[c] \in Seq(Upward) /\ Len(up[c]) \in Nat
    BY DEF StreamTypes
  <1>1. \A d \in Clients : gone'[d] > 0 => gone[d] > 0
    <2>1. \A d \in Clients : gone'[d] = gone[d] \/ (gone[d] = 1 /\ gone'[d] = 2)
      BY HandleUp
    <2> QED
      BY <2>1
  <1>2. CASE up' = up /\ fds' = fds
    BY <1>0, <1>1, <1>2 DEF UpInv, Known
  <1>3. ASSUME NEW c \in Clients,
               \A d \in Clients : d # c => up'[d] = up[d],
               \/ up'[c] = up[c] /\ (Known(c)' => Known(c))
               \/ \E k \in 1..Len(up[c]) : up'[c] = Rest(up[c], k),
               \A d \in Clients : d # c /\ Known(d)' => Known(d)
        PROVE  UpInv'
    <2>1. ASSUME NEW d \in Clients, up'[d] = up[d], Known(d)' => Known(d)
          PROVE  /\ cpc[d] \in {"off", "init"} => up'[d] = <<>> /\ ~Known(d)'
                 /\ \A i \in 1..Len(up'[d]) :
                       /\ up'[d][i].from = d
                       /\ up'[d][i].type = "init" => i = 1 /\ ~Known(d)'
                       /\ up'[d][i].type = "close" => cpc[d] = "exited"
      BY <2>1 DEF UpInv
    <2>2. ASSUME NEW k \in 1..Len(up[c]), up'[c] = Rest(up[c], k)
          PROVE  /\ cpc[c] \in {"off", "init"} => up'[c] = <<>> /\ ~Known(c)'
                 /\ \A i \in 1..Len(up'[c]) :
                       /\ up'[c][i].from = c
                       /\ up'[c][i].type = "init" => i = 1 /\ ~Known(c)'
                       /\ up'[c][i].type = "close" => cpc[c] = "exited"
      <3>1. \A i \in 1..Len(up'[c]) : i + k \in 1..Len(up[c]) /\ up'[c][i] = up[c][i + k]
        BY <1>t, <2>2, RestFacts
      <3>2. \A i \in 1..Len(up'[c]) : i + k # 1
        BY <1>t
      <3>3. up[c] # <<>>
        BY <1>t
      <3>4. cpc[c] \notin {"off", "init"}
        BY <3>3 DEF UpInv
      <3>5. ASSUME NEW i \in 1..Len(up'[c])
            PROVE  /\ up'[c][i].from = c /\ up'[c][i].type # "init"
                   /\ up'[c][i].type = "close" => cpc[c] = "exited"
        <4>1. i + k \in 1..Len(up[c]) /\ up'[c][i] = up[c][i + k] /\ i + k # 1
          BY <3>1, <3>2
        <4> QED
          BY <4>1 DEF UpInv
      <3> QED
        BY <3>4, <3>5
    <2>3. \A d \in Clients :
             /\ cpc[d] \in {"off", "init"} => up'[d] = <<>> /\ ~Known(d)'
             /\ \A i \in 1..Len(up'[d]) :
                   /\ up'[d][i].from = d
                   /\ up'[d][i].type = "init" => i = 1 /\ ~Known(d)'
                   /\ up'[d][i].type = "close" => cpc[d] = "exited"
      BY <1>3, <2>1, <2>2
    <2> QED
      BY <1>0, <1>1, <2>3 DEF UpInv
  <1> QED
    BY <1>2, <1>3, HandleUp

LEMMA HandleEvents ==
    ASSUME SlotsInv, StreamTypes, UpInv, EventsInv, Handle
    PROVE  EventsInv'
  <1>1. batch # <<>> /\ batch' = Tail(batch) /\ batch \in Seq(Fd \cup {Listen}) /\ NetTypes
    BY HandleKinds DEF BatchInv, SlotsInv
  <1>2. /\ Len(batch) \in Nat \ {0} /\ Head(batch) = batch[1] /\ Len(batch') = Len(batch) - 1
        /\ \A i \in 1..Len(batch') : /\ i + 1 \in 1..Len(batch)
                                     /\ batch'[i] = batch[i + 1]
    BY <1>1
  <1>3. \A i, j \in 1..Len(batch') : batch'[i] = batch'[j] => i = j
    BY <1>2 DEF EventsInv
  <1>g. \A d \in Clients : gone[d] > 0 => gone'[d] > 0
    <2>1. \A d \in Clients : gone'[d] = gone[d] \/ (gone[d] = 1 /\ gone'[d] = 2)
      BY HandleUp
    <2> QED
      BY <2>1
  <1>4. ASSUME NEW i \in 1..Len(batch'), batch'[i] # Listen
        PROVE  /\ fds'[batch'[i]] # None
               /\ up'[fds'[batch'[i]]] # <<>> \/ gone'[fds'[batch'[i]]] > 0
    <2> DEFINE f == batch'[i]
    <2>1. f = batch[i + 1] /\ i + 1 \in 1..Len(batch) /\ f \in Fd
      BY <1>1, <1>2, <1>4
    <2>2. f # Head(batch)
      <3>1. 1 \in 1..Len(batch) /\ i + 1 # 1
        BY <1>2
      <3> QED
        BY <1>2, <2>1, <3>1 DEF EventsInv
    <2>3. fds[f] # None /\ (up[fds[f]] # <<>> \/ gone[fds[f]] > 0)
      BY <1>4, <2>1 DEF EventsInv
    <2>4. fds[f] \in Clients
      BY <1>1, <2>1, <2>3 DEF NetTypes
    <2> HIDE DEF f
    <2>5. fds'[f] = fds[f] /\ up'[fds[f]] = up[fds[f]]
      BY <2>1, <2>2, <2>3, <2>4, HandleUp
    <2> QED
      BY <1>g, <2>3, <2>4, <2>5 DEF f
  <1> QED
    BY <1>3, <1>4 DEF EventsInv

LEMMA HandlePlaced ==
    ASSUME SlotsInv, StreamTypes, Placed, Handle, UNCHANGED clientVars
    PROVE  Placed'
  <1>0. cpc' = cpc
    BY DEF clientVars
  <1>1. NetTypes /\ Matched /\ OneStage
    BY HandleKinds DEF SlotsInv
  <1>o. fds \in [Fd -> Clients \cup {None}] /\ None \notin Clients
    BY <1>1, TcpAssumption DEF NetTypes
  <1>2. ASSUME NEW x, Closed(x) PROVE \A d \in Clients : /\ shut[d] => shut'[d]
                                                         /\ d = x => shut'[d]
    BY <1>2 DEF Closed
  <1>3. ASSUME NEW c \in Clients, Waiting(c), c = Head(backlog), backlog' = Tail(backlog)
        PROVE  \A d \in Clients : Waiting(d) => d = c \/ Waiting(d)'
    <2>1. backlog \in Seq(Clients) /\ backlog # <<>>
      BY <1>1, <1>3 DEF Waiting, NetTypes
    <2>2. /\ Len(backlog) \in Nat \ {0} /\ Head(backlog) = backlog[1]
          /\ Len(backlog') = Len(backlog) - 1
          /\ \A i \in 1..Len(backlog') : backlog'[i] = backlog[i + 1]
      BY <1>3, <2>1
    <2>3. ASSUME NEW d \in Clients, NEW i \in 1..Len(backlog), backlog[i] = d, d # c
          PROVE  Waiting(d)'
      <3>1. i # 1
        BY <1>3, <2>2, <2>3
      <3>2. i - 1 \in 1..Len(backlog') /\ i - 1 + 1 = i
        BY <2>2, <3>1
      <3>3. backlog'[i - 1] = d
        BY <2>2, <2>3, <3>2
      <3> QED
        BY <3>2, <3>3 DEF Waiting
    <2> QED
      BY <2>3 DEF Waiting
  <1>4. CASE \E c \in Clients : Refused(c)
    <2>1. PICK c \in Clients : Refused(c)
      BY <1>4
    <2>2. Closed(c) /\ Waiting(c) /\ c = Head(backlog) /\ backlog' = Tail(backlog) /\ fds' = fds
      BY <2>1 DEF Refused
    <2> QED
      BY <1>0, <1>2, <1>3, <2>2 DEF Placed, Known
  <1>5. CASE \E c \in Clients, fd \in Fd : \E k \in 1..Len(up[c]) : Accepted(c, fd, k)
    <2>1. PICK c \in Clients, fd \in Fd : \E k \in 1..Len(up[c]) : Accepted(c, fd, k)
      BY <1>5
    <2>2. /\ Closed(None) /\ Waiting(c) /\ c = Head(backlog) /\ backlog' = Tail(backlog)
          /\ fds[fd] = None /\ fds' = [fds EXCEPT ![fd] = c]
      BY <2>1 DEF Accepted
    <2>3. fds'[fd] = c /\ \A f \in Fd : fds[f] # None => fds'[f] = fds[f]
      BY <1>o, <2>2
    <2>4. Known(c)' /\ \A d \in Clients : Known(d) => Known(d)'
      BY <1>o, <2>3 DEF Known
    <2> QED
      BY <1>0, <1>2, <1>3, <2>2, <2>4 DEF Placed
  <1>6. CASE \E c \in Clients, fd \in Fd : Dropped(c, fd)
    <2>1. PICK c \in Clients, fd \in Fd : Dropped(c, fd)
      BY <1>6
    <2>2. Closed(c) /\ backlog' = backlog /\ fds[fd] = c /\ fds' = [fds EXCEPT ![fd] = None]
      BY <2>1 DEF Dropped
    <2>3. \A f \in Fd : fds[f] # c => fds'[f] = fds[f]
      BY <1>o, <2>2
    <2>4. \A d \in Clients : Known(d) => d = c \/ Known(d)'
      BY <2>3 DEF Known
    <2> QED
      BY <1>0, <1>2, <2>2, <2>4 DEF Placed, Waiting
  <1>7. CASE \E c \in Clients, fd \in Fd : \E k \in 1..Len(up[c]) : Relayed(c, fd, k)
    <2>1. backlog' = backlog /\ fds' = fds /\ Closed(None)
      BY <1>7 DEF Relayed
    <2> QED
      BY <1>0, <1>2, <2>1 DEF Placed, Known, Waiting
  <1>8. CASE UNCHANGED <<spc, slots, count, fds, netVars>>
    BY <1>0, <1>8 DEF Placed, Known, Waiting, netVars
  <1> QED
    BY <1>4, <1>5, <1>6, <1>7, <1>8, HandleKinds
(* Reading takes from the front of a stream.                               *)
LEMMA LeaveSuffix ==
    ASSUME StreamTypes, LeaveInv, \A c \in Clients : shut[c] => shut'[c],
           \A w \in Clients : \E k \in Nat :
              /\ Len(down'[w]) \in Nat /\ Len(down'[w]) + k <= Len(down[w])
              /\ \A i \in 1..Len(down'[w]) : down'[w][i] = down[w][i + k]
    PROVE  LeaveInv'
  <1> SUFFICES ASSUME NEW w \in Clients, NEW c \in Clients, NEW i \in 1..Len(down'[w]),
                      down'[w][i] = Piece("leave", c)
               PROVE  shut'[c] /\ \A j \in i + 1..Len(down'[w]) : down'[w][j].from # c
    BY DEF LeaveInv, Piece
  <1>1. PICK k \in Nat : /\ Len(down'[w]) \in Nat /\ Len(down'[w]) + k <= Len(down[w])
                         /\ \A l \in 1..Len(down'[w]) : down'[w][l] = down[w][l + k]
    OBVIOUS
  <1>2. Len(down[w]) \in Nat
    BY DEF StreamTypes
  <1>3. i + k \in 1..Len(down[w]) /\ down[w][i + k] = Piece("leave", c)
    BY <1>1, <1>2
  <1>4. shut[c] /\ \A j \in i + k + 1..Len(down[w]) : down[w][j].from # c
    BY <1>3 DEF LeaveInv
  <1>5. ASSUME NEW j \in i + 1..Len(down'[w]) PROVE down'[w][j].from # c
    <2>1. j + k \in i + k + 1..Len(down[w]) /\ j \in 1..Len(down'[w])
      BY <1>1, <1>2
    <2>2. down'[w][j] = down[w][j + k]
      BY <1>1, <2>1
    <2> QED
      BY <1>4, <2>1, <2>2
  <1> QED
    BY <1>4, <1>5

(* The server passes on what comes of somebody it has not closed, and says *)
(* that somebody leaves only when it closes.                               *)
LEMMA LeaveAppend ==
    ASSUME StreamTypes, LeaveInv, NEW c \in Clients, ~shut[c],
           \A d \in Clients : shut[d] => shut'[d],
           NEW pieces \in Seq(Downward),
           \A i \in 1..Len(pieces) : pieces[i].from = c,
           \/ \A i \in 1..Len(pieces) : pieces[i].type # "leave"
           \/ Len(pieces) = 1 /\ shut'[c],
           \A w \in Clients : down'[w] = down[w] \/ down'[w] = down[w] \o pieces
    PROVE  LeaveInv'
  <1> SUFFICES ASSUME NEW w \in Clients, NEW d \in Clients, NEW i \in 1..Len(down'[w]),
                      down'[w][i] = Piece("leave", d)
               PROVE  shut'[d] /\ \A j \in i + 1..Len(down'[w]) : down'[w][j].from # d
    BY DEF LeaveInv, Piece
  <1>1. CASE down'[w] = down[w]
    BY <1>1 DEF LeaveInv
  <1>2. CASE down'[w] = down[w] \o pieces
    <2>1. /\ Len(down[w]) \in Nat /\ Len(pieces) \in Nat /\ down[w] \in Seq(Downward)
          /\ Len(down'[w]) = Len(down[w]) + Len(pieces)
          /\ \A j \in 1..Len(down[w]) : down'[w][j] = down[w][j]
          /\ \A j \in 1..Len(pieces) : down'[w][Len(down[w]) + j] = pieces[j]
      BY <1>2 DEF StreamTypes
    <2>2. \A j \in Len(down[w]) + 1..Len(down'[w]) :
             j - Len(down[w]) \in 1..Len(pieces) /\ down'[w][j] = pieces[j - Len(down[w])]
      <3> TAKE j \in Len(down[w]) + 1..Len(down'[w])
      <3>1. j - Len(down[w]) \in 1..Len(pieces) /\ Len(down[w]) + (j - Len(down[w])) = j
        BY <2>1
      <3> QED
        BY <2>1, <3>1
    <2>3. CASE i <= Len(down[w])
      <3>1. i \in 1..Len(down[w]) /\ down[w][i] = Piece("leave", d)
        BY <2>1, <2>3
      <3>2. shut[d] /\ \A j \in i + 1..Len(down[w]) : down[w][j].from # d
        BY <3>1 DEF LeaveInv
      <3>3. d # c
        BY <3>2
      <3>4. ASSUME NEW j \in i + 1..Len(down'[w]) PROVE down'[w][j].from # d
        <4>1. CASE j <= Len(down[w])
          <5>1. j \in i + 1..Len(down[w]) /\ j \in 1..Len(down[w])
            BY <2>1, <3>1, <4>1
          <5> QED
            BY <2>1, <3>2, <5>1
        <4>2. CASE ~(j <= Len(down[w]))
          <5>1. j \in Len(down[w]) + 1..Len(down'[w])
            BY <2>1, <4>2
          <5>2. down'[w][j].from = c
            BY <2>2, <5>1
          <5> QED
            BY <3>3, <5>2
        <4> QED
          BY <4>1, <4>2
      <3> QED
        BY <3>2, <3>4
    <2>4. CASE ~(i <= Len(down[w]))
      <3>1. i - Len(down[w]) \in 1..Len(pieces) /\ pieces[i - Len(down[w])] = Piece("leave", d)
        <4>1. i \in Len(down[w]) + 1..Len(down'[w])
          BY <2>1, <2>4
        <4> QED
          BY <2>2, <4>1
      <3>2. pieces[i - Len(down[w])].type = "leave" /\ pieces[i - Len(down[w])].from = d
        BY <3>1 DEF Piece
      <3>3. Len(pieces) = 1 /\ shut'[c] /\ d = c
        BY <3>1, <3>2
      <3>4. i = Len(down'[w])
        BY <2>1, <2>4, <3>3
      <3> QED
        BY <2>1, <3>3, <3>4
    <2> QED
      BY <2>3, <2>4
  <1> QED
    BY <1>1, <1>2

(* What comes to the clients of the server.                                *)
LEMMA HandleDown ==
    ASSUME SlotsInv, StreamTypes, UpInv, LeaveInv, Handle
    PROVE  /\ down' \in [Clients -> Seq(Downward)]
           /\ \A c \in Clients : Len(down'[c]) <= Cap
           /\ gone' \in [Clients -> 0..2]
           /\ LeaveInv'
  <1>1. NetTypes /\ Matched /\ OneStage
    BY HandleKinds DEF SlotsInv
  <1>t. /\ down \in [Clients -> Seq(Downward)] /\ \A c \in Clients : Len(down[c]) <= Cap
        /\ \A c \in Clients : Len(down[c]) \in Nat
        /\ gone \in [Clients -> 0..2] /\ Cap \in Nat \ {0}
    BY TcpAssumption DEF StreamTypes
  <1>2. ASSUME NEW x, Closed(x) PROVE \A d \in Clients : /\ shut[d] => shut'[d]
                                                         /\ d = x => shut'[d]
    BY <1>2 DEF Closed
  <1>p. \A t \in {"join", "leave", "full"}, c \in Clients :
           Piece(t, c) \in Downward /\ Piece(t, c).type = t /\ Piece(t, c).from = c
    BY PieceMade DEF Downward
  <1>3. ASSUME NEW c \in Clients, ~shut[c], NEW s, NEW cut, NEW pieces \in Seq(Downward),
               Broadcast(s, pieces, cut), \A d \in Clients : shut[d] => shut'[d],
               \A i \in 1..Len(pieces) : pieces[i].from = c,
               \/ \A i \in 1..Len(pieces) : pieces[i].type # "leave"
               \/ Len(pieces) = 1 /\ shut'[c]
        PROVE  /\ down' \in [Clients -> Seq(Downward)]
               /\ \A d \in Clients : Len(down'[d]) <= Cap
               /\ gone' \in [Clients -> 0..2]
               /\ LeaveInv'
    <2>1. /\ gone' \in [Clients -> 0..2] /\ down' \in [Clients -> Seq(Downward)]
          /\ \A w \in Clients : \/ down'[w] = down[w]
                                \/ /\ down'[w] = down[w] \o pieces
                                   /\ Len(down[w]) + Len(pieces) <= Cap
      BY <1>3, BroadcastFacts
    <2>2. \A w \in Clients : Len(down[w] \o pieces) = Len(down[w]) + Len(pieces)
      BY <1>t
    <2>3. \A w \in Clients : Len(down'[w]) <= Cap
      BY <1>t, <2>1, <2>2
    <2>4. LeaveInv'
      BY <1>3, <2>1, LeaveAppend
    <2> QED
      BY <2>1, <2>3, <2>4
  <1>4. ASSUME down' = down, \A d \in Clients : shut[d] => shut'[d] PROVE LeaveInv'
    BY <1>4 DEF LeaveInv, Piece
  <1>5. CASE \E c \in Clients : Refused(c)
    <2>1. PICK c \in Clients : Refused(c)
      BY <1>5
    <2>2. /\ Closed(c) /\ gone' = gone
          /\ down' = down \/ down' = [down EXCEPT ![c] = <<Piece("full", c)>>]
      BY <2>1 DEF Refused
    <2>3. CASE down' = down
      BY <1>2, <1>4, <1>t, <2>2, <2>3
    <2>4. CASE down' = [down EXCEPT ![c] = <<Piece("full", c)>>]
      <3> DEFINE m == Piece("full", c)
      <3>1. m \in Downward /\ m.type = "full"
        BY <1>p
      <3>2. down'[c] = <<m>> /\ \A w \in Clients : w # c => down'[w] = down[w]
        BY <1>t, <2>4
      <3> HIDE DEF m
      <3>3. <<m>> \in Seq(Downward) /\ Len(<<m>>) = 1 /\ <<m>>[1] = m
        BY <3>1
      <3>4. down' \in [Clients -> Seq(Downward)]
        BY <1>t, <2>4, <3>3 DEF m
      <3>5. \A w \in Clients : Len(down'[w]) <= Cap
        <4> TAKE w \in Clients
        <4>1. CASE w = c
          <5>1. Len(down'[w]) = 1
            BY <3>2, <3>3, <4>1
          <5> QED
            BY <1>t, <5>1
        <4>2. CASE w # c
          BY <1>t, <3>2, <4>2
        <4> QED
          BY <4>1, <4>2
      <3>6. LeaveInv'
        <4> SUFFICES ASSUME NEW w \in Clients, NEW d \in Clients, NEW i \in 1..Len(down'[w]),
                            down'[w][i] = Piece("leave", d)
                     PROVE  shut'[d] /\ \A j \in i + 1..Len(down'[w]) : down'[w][j].from # d
          BY DEF LeaveInv, Piece
        <4>1. w # c
          <5> SUFFICES ASSUME w = c PROVE FALSE
            OBVIOUS
          <5>1. i = 1 /\ m = Piece("leave", d)
            BY <3>2, <3>3
          <5>2. Piece("leave", d).type = "leave"
            BY DEF Piece
          <5> QED
            BY <3>1, <5>1, <5>2
        <4>2. down'[w] = down[w]
          BY <3>2, <4>1
        <4> QED
          BY <1>2, <2>2, <4>2 DEF LeaveInv
      <3> QED
        BY <1>t, <2>2, <3>4, <3>5, <3>6
    <2> QED
      BY <2>2, <2>3, <2>4
  <1>6. CASE \E c \in Clients, fd \in Fd : \E k \in 1..Len(up[c]) : Accepted(c, fd, k)
    <2>1. PICK c \in Clients, fd \in Fd : \E k \in 1..Len(up[c]) : Accepted(c, fd, k)
      BY <1>6
    <2> DEFINE m == Piece("join", c)
    <2>2. Waiting(c) /\ Closed(None) /\ \E cut : Broadcast(c, <<m>>, cut)
      BY <2>1 DEF Accepted
    <2>3. ~shut[c]
      BY <1>1, <2>2 DEF OneStage
    <2>4. m \in Downward /\ m.type = "join" /\ m.from = c
      BY <1>p
    <2> HIDE DEF m
    <2>5. <<m>> \in Seq(Downward) /\ Len(<<m>>) = 1 /\ \A i \in 1..1 : <<m>>[i] = m
      BY <2>4
    <2> QED
      BY <1>2, <1>3, <2>2, <2>3, <2>4, <2>5
  <1>7. CASE \E c \in Clients, fd \in Fd : Dropped(c, fd)
    <2>1. PICK c \in Clients, fd \in Fd : Dropped(c, fd)
      BY <1>7
    <2> DEFINE m == Piece("leave", c)
    <2>2. fds[fd] = c /\ Closed(c) /\ \E cut : Broadcast(c, <<m>>, cut)
      BY <2>1 DEF Dropped
    <2>3. ~shut[c]
      BY <1>1, <2>2 DEF OneStage, Known
    <2>4. m \in Downward /\ m.from = c
      BY <1>p
    <2> HIDE DEF m
    <2>5. <<m>> \in Seq(Downward) /\ Len(<<m>>) = 1 /\ \A i \in 1..1 : <<m>>[i] = m
      BY <2>4
    <2> QED
      BY <1>2, <1>3, <2>2, <2>3, <2>4, <2>5
  <1>8. CASE \E c \in Clients, fd \in Fd : \E k \in 1..Len(up[c]) : Relayed(c, fd, k)
    <2>1. PICK c \in Clients, fd \in Fd : \E k \in 1..Len(up[c]) : Relayed(c, fd, k)
      BY <1>8
    <2>2. PICK k \in 1..Len(up[c]) : Relayed(c, fd, k)
      BY <2>1
    <2> DEFINE pieces == PassedOn(SubSeq(up[c], 1, k))
    <2>3. fds[fd] = c /\ Closed(None) /\ \E cut : Broadcast(c, pieces, cut)
      BY <2>2 DEF Relayed
    <2>4. Known(c)
      BY <2>3 DEF Known
    <2>5. ~shut[c]
      BY <1>1, <2>4 DEF OneStage
    <2>6. pieces \in Seq(Downward) /\ \A i \in 1..Len(pieces) : pieces[i].from = c /\ pieces[i].type # "leave"
      BY <2>4, PassedOnFacts
    <2> HIDE DEF pieces
    <2> QED
      BY <1>2, <1>3, <2>3, <2>5, <2>6
  <1>9. CASE UNCHANGED <<spc, slots, count, fds, netVars>>
    BY <1>4, <1>9, <1>t DEF netVars
  <1> QED
    BY <1>5, <1>6, <1>7, <1>8, <1>9, HandleKinds
(* What one step of a client does to its two streams.                      *)
Sent(c, m) ==
    /\ up' = [up EXCEPT ![c] = Append(@, m)] /\ Len(up[c]) < Cap
    /\ m.from = c
    /\ m.type = "init" => cpc[c] = "init"
    /\ m.type = "close" => cpc'[c] = "exited"

Moves(c) ==
    /\ cpc[c] \notin {"off", "exited"}
    /\ \E l \in Places \ {"init"} : cpc' = [cpc EXCEPT ![c] = l]
    /\ UNCHANGED <<shut, backlog>>
    /\ up' = up \/ \E m \in Upward : Sent(c, m)
    /\ \/ down' = down \/ down' = [down EXCEPT ![c] = <<>>]
       \/ \E k \in 1..Len(down[c]) : down' = [down EXCEPT ![c] = Rest(@, k)]
    /\ gone' = gone \/ (gone' = [gone EXCEPT ![c] = 1] /\ cpc'[c] = "exited")
    /\ todo' \in [Clients -> 0..FileLen]

LEMMA ClientMoves ==
    ASSUME SlotsInv, StreamTypes, NEW c \in Clients,
           Runs(c) \/ Type(c) \/ Interrupt(c) \/ Crash(c)
    PROVE  Moves(c)
  <1>t. /\ cpc \in [Clients -> Places \cup {"off"}] /\ up \in [Clients -> Seq(Upward)]
        /\ todo \in [Clients -> 0..FileLen] /\ FileLen \in Nat
    BY TcpAssumption DEF SlotsInv, NetTypes, StreamTypes, Places
  <1> USE DEF Places, Goto
  <1>1. \A run : Round(run) \in Places \ {"init", "exited"}
    BY DEF Round
  <1>2. ASSUME NEW run, Continue(c, run)
        PROVE  \E l \in Places \ {"init"} : cpc' = [cpc EXCEPT ![c] = l]
    BY <1>1, <1>2 DEF Continue, Keyboard
  <1>3. ASSUME cpc' = cpc, cpc[c] \notin {"off", "init"}
        PROVE  \E l \in Places \ {"init"} : cpc' = [cpc EXCEPT ![c] = l]
    <2>1. cpc' = [cpc EXCEPT ![c] = cpc[c]] /\ cpc[c] \in Places \ {"init"}
      BY <1>t, <1>3
    <2> QED
      BY <2>1
  <1>e. /\ \A n \in 0..FileLen : [todo EXCEPT ![c] = n] \in [Clients -> 0..FileLen]
        /\ 0 \in 0..FileLen /\ FileLen \in 0..FileLen
        /\ todo[c] > 0 => todo[c] - 1 \in 0..FileLen
    BY <1>t
  <1>s. ASSUME NEW t \in Texts \cup {"init"}, Send(c, Piece(t, c)),
               t = "init" => cpc[c] = "init", t = "close" => cpc'[c] = "exited"
        PROVE  up' = up \/ \E m \in Upward : Sent(c, m)
    <2> DEFINE m == Piece(t, c)
    <2>1. m \in Upward /\ m.type = t /\ m.from = c
      BY PieceMade DEF Upward
    <2>2. Send(c, m)
      BY <1>s
    <2> HIDE DEF m
    <2> QED
      BY <1>s, <2>1, <2>2 DEF Send, Sent
  <1>b. ASSUME SendBytes(c)
        PROVE  up' = up \/ \E m \in Upward : Sent(c, m)
    <2>1. PICK w \in FileWords : Send(c, Bytes(w, c))
      BY <1>b DEF SendBytes
    <2> DEFINE m == Bytes(w, c)
    <2>2. m \in Upward /\ m.type = "bytes" /\ m.from = c /\ Send(c, m)
      BY <2>1 DEF Upward, FileBytes, Bytes
    <2> HIDE DEF m
    <2> QED
      BY <2>2 DEF Send, Sent
  <1>4. CASE SendInit(c)
    <2>1. up' = up \/ \E m \in Upward : Sent(c, m)
      BY <1>4, <1>s DEF SendInit
    <2> QED
      BY <1>4, <1>t, <2>1 DEF SendInit, Moves
  <1>5. CASE Leave(c)
    <2>1. cpc' = [cpc EXCEPT ![c] = "exited"] /\ cpc'[c] = "exited" /\ Send(c, Piece("close", c))
      BY <1>5, <1>t DEF Leave
    <2>2. up' = up \/ \E m \in Upward : Sent(c, m)
      BY <1>s, <2>1 DEF Texts
    <2> QED
      BY <1>5, <1>t, <2>1, <2>2 DEF Leave, Moves
  <1>6. CASE FromServer(c)
    <2>1. \E l \in Places \ {"init"} : cpc' = [cpc EXCEPT ![c] = l]
      BY <1>2, <1>6 DEF FromServer
    <2>2. todo' \in [Clients -> 0..FileLen]
      <3>1. todo' = todo \/ \E n \in 0..FileLen : todo' = [todo EXCEPT ![c] = n]
        BY <1>6, <1>e DEF FromServer, Size
      <3> QED
        BY <1>t, <1>e, <3>1
    <2>3. /\ cpc[c] \notin {"off", "exited"} /\ UNCHANGED <<shut, backlog, up, gone>>
          /\ \/ down' = down
             \/ \E k \in 1..Len(down[c]) : down' = [down EXCEPT ![c] = Rest(@, k)]
      BY <1>6 DEF FromServer
    <2> QED
      BY <2>1, <2>2, <2>3 DEF Moves
  <1>7. CASE ReceiveFile(c)
    <2>1. \E l \in Places \ {"init"} : cpc' = [cpc EXCEPT ![c] = l]
      <3>1. cpc' = cpc \/ \E run : Continue(c, run)
        BY <1>7 DEF ReceiveFile
      <3> QED
        BY <1>2, <1>3, <1>7, <3>1 DEF ReceiveFile
    <2>2. todo' \in [Clients -> 0..FileLen]
      <3>1. CASE todo' = [todo EXCEPT ![c] = 0]
        BY <1>t, <3>1
      <3>2. CASE \E k \in 1..Len(down[c]) : todo' = [todo EXCEPT ![c] = IF k < @ THEN @ - k ELSE 0]
        <4>1. PICK k \in 1..Len(down[c]) : todo' = [todo EXCEPT ![c] = IF k < @ THEN @ - k ELSE 0]
          BY <3>2
        <4>2. todo[c] \in 0..FileLen /\ k \in Nat
          BY <1>t DEF StreamTypes
        <4>3. (IF k < todo[c] THEN todo[c] - k ELSE 0) \in 0..FileLen
          BY <1>t, <4>2
        <4> QED
          BY <1>t, <4>1, <4>3
      <3> QED
        BY <1>7, <3>1, <3>2 DEF ReceiveFile
    <2>3. /\ cpc[c] \notin {"off", "exited"} /\ UNCHANGED <<shut, backlog, up, gone>>
          /\ \/ down' = down
             \/ \E k \in 1..Len(down[c]) : down' = [down EXCEPT ![c] = Rest(@, k)]
      BY <1>7 DEF ReceiveFile
    <2> QED
      BY <2>1, <2>2, <2>3 DEF Moves
  <1>8. CASE Command(c)
    <2>1. \E l \in Places \ {"init"} : cpc' = [cpc EXCEPT ![c] = l]
      BY <1>1, <1>8 DEF Command
    <2>2. todo' \in [Clients -> 0..FileLen]
      <3>1. todo' = todo \/ todo' = [todo EXCEPT ![c] = FileLen]
        BY <1>8 DEF Command
      <3> QED
        BY <1>t, <1>e, <3>1
    <2>3. /\ cpc[c] \notin {"off", "exited"} /\ UNCHANGED <<shut, backlog, down, gone>>
          /\ up' = up \/ Send(c, Piece("mes", c)) \/ Send(c, Piece("start", c))
      BY <1>8 DEF Command
    <2>4. up' = up \/ \E m \in Upward : Sent(c, m)
      BY <1>s, <2>3 DEF Texts
    <2> QED
      BY <2>1, <2>2, <2>3, <2>4 DEF Moves
  <1>9. CASE SendData(c)
    <2>1. \E l \in Places \ {"init"} : cpc' = [cpc EXCEPT ![c] = l]
      BY <1>1, <1>3, <1>9 DEF SendData
    <2>2. todo' \in [Clients -> 0..FileLen]
      <3>1. todo' = todo \/ (todo[c] > 0 /\ todo' = [todo EXCEPT ![c] = todo[c] - 1])
        BY <1>9 DEF SendData
      <3> QED
        BY <1>t, <1>e, <3>1
    <2>3. /\ cpc[c] \notin {"off", "exited"} /\ UNCHANGED <<shut, backlog, down, gone>>
          /\ SendBytes(c) \/ Send(c, Piece("end", c))
      BY <1>9 DEF SendData
    <2>4. up' = up \/ \E m \in Upward : Sent(c, m)
      BY <1>s, <1>b, <2>3 DEF Texts
    <2> QED
      BY <2>1, <2>2, <2>3, <2>4 DEF Moves
  <1>10. CASE Type(c)
    BY <1>10, <1>t DEF Type, Keyboard, Moves, netVars
  <1>11. CASE Interrupt(c)
    <2>1. \E l \in Places \ {"init"} : cpc' = [cpc EXCEPT ![c] = l]
      BY <1>3, <1>11 DEF Interrupt
    <2> QED
      BY <1>11, <1>t, <2>1 DEF Interrupt, Moves, netVars
  <1>12. CASE Crash(c)
    <2>1. cpc' = [cpc EXCEPT ![c] = "exited"] /\ cpc'[c] = "exited"
      BY <1>12, <1>t DEF Crash
    <2>2. todo' \in [Clients -> 0..FileLen]
      BY <1>12, <1>t DEF Crash
    <2> QED
      BY <1>12, <2>1, <2>2 DEF Crash, Moves
  <1> QED
    BY <1>4, <1>5, <1>6, <1>7, <1>8, <1>9, <1>10, <1>11, <1>12 DEF Runs
LEMMA ClientChat ==
    ASSUME ChatInv, NEW c \in Clients, Runs(c) \/ Type(c) \/ Interrupt(c) \/ Crash(c),
           UNCHANGED serverVars
    PROVE  ChatInv'
  <1>1. SlotsInv /\ StreamTypes /\ UpInv /\ LeaveInv
    BY DEF ChatInv
  <1>2. SlotsInv' /\ Moves(c)
    BY <1>1, ClientStep, ClientMoves
  <1>3. UNCHANGED <<spc, count, fds, batch, shut, backlog>> /\ (ServerGone' <=> ServerGone)
    BY <1>2 DEF serverVars, Moves, ServerGone
  <1>t. /\ up \in [Clients -> Seq(Upward)] /\ down \in [Clients -> Seq(Downward)]
        /\ \A d \in Clients : /\ Len(up[d]) <= Cap /\ Len(down[d]) <= Cap
                              /\ Len(up[d]) \in Nat /\ Len(down[d]) \in Nat
        /\ gone \in [Clients -> 0..2] /\ Cap \in Nat \ {0}
        /\ cpc \in [Clients -> Places \cup {"off"}]
    BY <1>1, TcpAssumption DEF StreamTypes, SlotsInv, NetTypes, Places
  <1>4. PICK l \in Places \ {"init"} : cpc' = [cpc EXCEPT ![c] = l]
    BY <1>2 DEF Moves
  <1>5. cpc'[c] = l /\ \A d \in Clients : d # c => cpc'[d] = cpc[d]
    BY <1>4, <1>t
  <1>6. /\ up' \in [Clients -> Seq(Upward)] /\ \A d \in Clients : d # c => up'[d] = up[d]
        /\ \/ up'[c] = up[c]
           \/ \E m \in Upward :
                /\ up'[c] = Append(up[c], m) /\ Len(up[c]) < Cap
                /\ m.from = c
                /\ m.type = "init" => cpc[c] = "init"
                /\ m.type = "close" => cpc'[c] = "exited"
    <2>1. CASE up' = up
      BY <1>t, <2>1
    <2>2. ASSUME NEW m \in Upward, Sent(c, m)
          PROVE  /\ up' \in [Clients -> Seq(Upward)] /\ \A d \in Clients : d # c => up'[d] = up[d]
                 /\ up'[c] = Append(up[c], m) /\ Len(up[c]) < Cap
      <3>1. up' = [up EXCEPT ![c] = Append(up[c], m)]
        BY <2>2 DEF Sent
      <3> QED
        BY <1>t, <2>2, <3>1 DEF Sent
    <2> QED
      BY <1>2, <2>1, <2>2 DEF Moves, Sent
  <1>7. \A d \in Clients : Len(up'[d]) <= Cap
    <2>1. ASSUME NEW m, up'[c] = Append(up[c], m), Len(up[c]) < Cap PROVE Len(up'[c]) <= Cap
      <3>1. Len(up'[c]) = Len(up[c]) + 1
        BY <1>t, <2>1
      <3> QED
        BY <1>t, <2>1, <3>1
    <2>2. up'[c] = up[c] \/ \E m : up'[c] = Append(up[c], m) /\ Len(up[c]) < Cap
      BY <1>6
    <2>3. Len(up'[c]) <= Cap
      BY <1>t, <2>1, <2>2
    <2> QED
      BY <1>t, <1>6, <2>3
  <1>8. /\ down' \in [Clients -> Seq(Downward)]
        /\ \A w \in Clients : \E k \in Nat :
              /\ Len(down'[w]) \in Nat /\ Len(down'[w]) + k <= Len(down[w])
              /\ \A i \in 1..Len(down'[w]) : down'[w][i] = down[w][i + k]
    <2>s. ASSUME NEW w \in Clients, down'[w] = down[w]
          PROVE  \E k \in Nat :
                   /\ Len(down'[w]) \in Nat /\ Len(down'[w]) + k <= Len(down[w])
                   /\ \A i \in 1..Len(down'[w]) : down'[w][i] = down[w][i + k]
      <3>1. Len(down'[w]) \in Nat /\ Len(down'[w]) + 0 <= Len(down[w]) /\ 0 \in Nat
        BY <1>t, <2>s
      <3>2. \A i \in 1..Len(down'[w]) : down'[w][i] = down[w][i + 0]
        BY <2>s
      <3> QED
        BY <3>1, <3>2
    <2>1. CASE down' = down
      BY <1>t, <2>1, <2>s
    <2>2. CASE down' = [down EXCEPT ![c] = <<>>]
      <3>1. /\ down' \in [Clients -> Seq(Downward)] /\ down'[c] = <<>>
            /\ \A w \in Clients : w # c => down'[w] = down[w]
        BY <1>t, <2>2
      <3>2. Len(down'[c]) = 0 /\ 0 + 0 <= Len(down[c]) /\ 0 \in Nat
        BY <1>t, <3>1
      <3>3. \E k \in Nat :
                   /\ Len(down'[c]) \in Nat /\ Len(down'[c]) + k <= Len(down[c])
                   /\ \A i \in 1..Len(down'[c]) : down'[c][i] = down[c][i + k]
        BY <3>2
      <3> QED
        BY <2>s, <3>1, <3>3
    <2>3. CASE \E k \in 1..Len(down[c]) : down' = [down EXCEPT ![c] = Rest(@, k)]
      <3>1. PICK k \in 1..Len(down[c]) : down' = [down EXCEPT ![c] = Rest(@, k)]
        BY <2>3
      <3>2. /\ Rest(down[c], k) \in Seq(Downward) /\ Len(Rest(down[c], k)) = Len(down[c]) - k
            /\ \A i \in 1..Len(Rest(down[c], k)) : Rest(down[c], k)[i] = down[c][i + k]
        BY <1>t, RestFacts
      <3>3. /\ down' \in [Clients -> Seq(Downward)] /\ down'[c] = Rest(down[c], k)
            /\ \A w \in Clients : w # c => down'[w] = down[w]
        BY <1>t, <3>1, <3>2
      <3>4. k \in Nat /\ Len(down'[c]) \in Nat /\ Len(down'[c]) + k <= Len(down[c])
        BY <1>t, <3>2, <3>3
      <3>5. \A i \in 1..Len(down'[c]) : down'[c][i] = down[c][i + k]
        BY <3>2, <3>3
      <3> QED
        BY <2>s, <3>3, <3>4, <3>5
    <2> QED
      BY <1>2, <2>1, <2>2, <2>3 DEF Moves
  <1>9. \A w \in Clients : Len(down'[w]) <= Cap
    <2> TAKE w \in Clients
    <2>1. PICK k \in Nat : Len(down'[w]) \in Nat /\ Len(down'[w]) + k <= Len(down[w])
      BY <1>8
    <2> QED
      BY <1>t, <2>1
  <1>10. LeaveInv'
    BY <1>1, <1>3, <1>8, LeaveSuffix
  <1>11. /\ gone' \in [Clients -> 0..2]
         /\ \A d \in Clients : d # c => gone'[d] = gone[d]
         /\ gone'[c] = gone[c] \/ (gone'[c] = 1 /\ cpc'[c] = "exited")
    <2>1. CASE gone' = gone
      BY <1>t, <2>1
    <2>2. CASE gone' = [gone EXCEPT ![c] = 1] /\ cpc'[c] = "exited"
      BY <1>t, <2>2
    <2> QED
      BY <1>2, <2>1, <2>2 DEF Moves
  <1>12. StreamTypes'
    <2>1. todo' \in [Clients -> 0..FileLen]
      BY <1>2 DEF Moves
    <2> QED
      BY <1>1, <1>3, <1>6, <1>7, <1>8, <1>9, <1>11, <2>1 DEF StreamTypes
  <1>k. \A d \in Clients : Known(d)' <=> Known(d)
    BY <1>3 DEF Known
  <1>13. UpInv'
    <2>1. ASSUME NEW d \in Clients, d # c
          PROVE  /\ cpc'[d] \in {"off", "init"} => up'[d] = <<>> /\ ~Known(d)'
                 /\ gone'[d] > 0 => cpc'[d] = "exited"
                 /\ \A i \in 1..Len(up'[d]) :
                       /\ up'[d][i].from = d
                       /\ up'[d][i].type = "init" => i = 1 /\ ~Known(d)'
                       /\ up'[d][i].type = "close" => cpc'[d] = "exited"
      <3>1. cpc'[d] = cpc[d] /\ up'[d] = up[d] /\ gone'[d] = gone[d] /\ (Known(d)' <=> Known(d))
        BY <1>5, <1>6, <1>11, <1>k, <2>1
      <3> QED
        BY <1>1, <3>1 DEF UpInv
    <2>2. cpc'[c] \notin {"off", "init"}
      BY <1>5 DEF Places
    <2>3. gone'[c] > 0 => cpc'[c] = "exited"
      <3>1. cpc[c] # "exited"
        BY <1>2 DEF Moves
      <3>2. gone[c] \in 0..2 /\ ~(gone[c] > 0)
        BY <1>1, <1>t, <3>1 DEF UpInv
      <3> QED
        BY <1>11, <3>2
    <2>4. \A i \in 1..Len(up[c]) :
             /\ up[c][i].from = c
             /\ up[c][i].type = "init" => i = 1 /\ ~Known(c)'
             /\ up[c][i].type # "close"
      <3>1. cpc[c] # "exited"
        BY <1>2 DEF Moves
      <3> QED
        BY <1>1, <1>k, <3>1 DEF UpInv
    <2>5. \A i \in 1..Len(up'[c]) :
             /\ up'[c][i].from = c
             /\ up'[c][i].type = "init" => i = 1 /\ ~Known(c)'
             /\ up'[c][i].type = "close" => cpc'[c] = "exited"
      <3>1. CASE up'[c] = up[c]
        BY <2>4, <3>1
      <3>2. ASSUME NEW m \in Upward, up'[c] = Append(up[c], m), m.from = c,
                   m.type = "init" => cpc[c] = "init", m.type = "close" => cpc'[c] = "exited",
                   NEW i \in 1..Len(up'[c])
            PROVE  /\ up'[c][i].from = c
                   /\ up'[c][i].type = "init" => i = 1 /\ ~Known(c)'
                   /\ up'[c][i].type = "close" => cpc'[c] = "exited"
        <4>3. /\ Len(up'[c]) = Len(up[c]) + 1
              /\ up'[c][Len(up[c]) + 1] = m
              /\ \A j \in 1..Len(up[c]) : up'[c][j] = up[c][j]
          BY <1>t, <3>2
        <4>4. CASE i \in 1..Len(up[c])
          BY <2>4, <4>3, <4>4
        <4>5. CASE i \notin 1..Len(up[c])
          <5>1. i = Len(up[c]) + 1 /\ up'[c][i] = m
            BY <1>t, <4>3, <4>5
          <5>2. ASSUME m.type = "init" PROVE i = 1 /\ ~Known(c)'
            <6>1. cpc[c] = "init"
              BY <3>2, <5>2
            <6>2. up[c] = <<>> /\ ~Known(c)
              BY <1>1, <6>1 DEF UpInv
            <6> QED
              BY <1>k, <5>1, <6>2
          <5> QED
            BY <3>2, <5>1, <5>2
        <4> QED
          BY <4>4, <4>5
      <3> QED
        BY <1>6, <3>1, <3>2
    <2> QED
      BY <2>1, <2>2, <2>3, <2>5 DEF UpInv
  <1>14. ASSUME ~ServerGone', EventsInv PROVE EventsInv'
    <2>1. \A d \in Clients : up[d] # <<>> => up'[d] # <<>>
      <3>1. \A d \in Clients : d # c => up'[d] = up[d]
        BY <1>6
      <3>2. up'[c] = up[c] \/ up'[c] # <<>>
        <4>1. ASSUME NEW m \in Upward, up'[c] = Append(up[c], m) PROVE up'[c] # <<>>
          <5>1. Len(up'[c]) = Len(up[c]) + 1
            BY <1>t, <4>1
          <5> QED
            BY <1>t, <5>1
        <4> QED
          BY <1>6, <4>1
      <3> QED
        BY <3>1, <3>2
    <2>2. \A d \in Clients : gone[d] > 0 => gone'[d] > 0
      BY <1>11
    <2>3. ASSUME NEW i \in 1..Len(batch), batch[i] # Listen
          PROVE  /\ fds[batch[i]] \in Clients
      <3>1. NetTypes /\ BatchInv
        BY <1>1, <1>3, <1>14 DEF SlotsInv
      <3>2. batch[i] \in Fd /\ fds[batch[i]] # None
        BY <1>14, <2>3, <3>1 DEF BatchInv, EventsInv
      <3> QED
        BY <3>1, <3>2 DEF NetTypes
    <2> QED
      BY <1>3, <1>14, <2>1, <2>2, <2>3 DEF EventsInv
  <1>15. Placed => Placed'
    <2>1. \A d \in Clients : Waiting(d)' <=> Waiting(d)
      BY <1>3 DEF Waiting
    <2>2. \A d \in Clients : cpc[d] \in {"off", "exited"} => cpc'[d] \in {"off", "exited"}
      <3>1. cpc[c] \notin {"off", "exited"}
        BY <1>2 DEF Moves
      <3> QED
        BY <1>5, <3>1
    <2> QED
      BY <1>3, <1>k, <2>1, <2>2 DEF Placed
  <1> QED
    BY <1>2, <1>3, <1>10, <1>12, <1>13, <1>14, <1>15 DEF ChatInv
LEMMA ConnectChat ==
    ASSUME ChatInv, NEW c \in Clients, Connect(c, ~ServerGone), UNCHANGED serverVars
    PROVE  ChatInv'
  <1>1. SlotsInv /\ StreamTypes /\ UpInv /\ LeaveInv
    BY DEF ChatInv
  <1>2. SlotsInv'
    BY <1>1, ConnectStep
  <1>3. /\ UNCHANGED <<spc, count, fds, batch, shut, up, down, gone, todo>>
        /\ (ServerGone' <=> ServerGone) /\ cpc[c] = "off"
    BY DEF serverVars, Connect, ServerGone
  <1>4. /\ cpc'[c] = IF ServerGone THEN "exited" ELSE "init"
        /\ \A d \in Clients : d # c => cpc'[d] = cpc[d]
    BY <1>1 DEF Connect, Goto, SlotsInv, NetTypes
  <1>5. StreamTypes' /\ LeaveInv'
    BY <1>1, <1>3 DEF StreamTypes, LeaveInv, Piece
  <1>6. \A d \in Clients : Known(d)' <=> Known(d)
    BY <1>3 DEF Known
  <1>7. UpInv'
    <2>1. up[c] = <<>> /\ ~Known(c) /\ ~(gone[c] > 0)
      BY <1>1, <1>3 DEF UpInv
    <2>2. \A i \in 1..Len(up[c]) : FALSE
      BY <2>1
    <2> QED
      BY <1>1, <1>3, <1>4, <1>6, <2>1, <2>2 DEF UpInv
  <1>8. EventsInv => EventsInv'
    BY <1>3 DEF EventsInv
  <1>9. ~ServerGone /\ Placed => Placed'
    <2> SUFFICES ASSUME ~ServerGone, Placed PROVE Placed'
      OBVIOUS
    <2>1. backlog' = Append(backlog, c) /\ backlog \in Seq(Clients)
      BY <1>1 DEF Connect, SlotsInv, NetTypes
    <2>2. /\ Len(backlog) \in Nat /\ Len(backlog') = Len(backlog) + 1
          /\ \A i \in 1..Len(backlog) : backlog'[i] = backlog[i] /\ i \in 1..Len(backlog')
          /\ backlog'[Len(backlog) + 1] = c /\ Len(backlog) + 1 \in 1..Len(backlog')
      BY <2>1
    <2>3. Waiting(c)' /\ \A d \in Clients : Waiting(d) => Waiting(d)'
      BY <2>2 DEF Waiting
    <2> QED
      BY <1>3, <1>4, <1>6, <2>3 DEF Placed
  <1> QED
    BY <1>2, <1>3, <1>5, <1>7, <1>8, <1>9 DEF ChatInv

(* Steps that leave the streams and the connections alone.                 *)
LEMMA SameChat ==
    ASSUME ChatInv, SlotsInv', UNCHANGED <<netVars, fds, count, cpc, todo>>,
           spc' \in {"wait", "batch", "exited", "killed"}, ServerGone => ServerGone',
           ServerGone \/ EventsInv'
    PROVE  ChatInv'
  <1>1. SlotsInv /\ StreamTypes /\ UpInv /\ LeaveInv
    BY DEF ChatInv
  <1>2. StreamTypes' /\ LeaveInv'
    BY <1>1 DEF StreamTypes, LeaveInv, Piece, netVars
  <1>3. UpInv'
    BY <1>1 DEF UpInv, Known, netVars
  <1>4. Placed => Placed'
    BY DEF Placed, Known, Waiting, netVars
  <1> QED
    BY <1>1, <1>2, <1>3, <1>4 DEF ChatInv

LEMMA HandleChat ==
    ASSUME ChatInv, Handle, UNCHANGED clientVars
    PROVE  ChatInv'
  <1>1. SlotsInv /\ StreamTypes /\ UpInv /\ LeaveInv /\ ~ServerGone
    BY DEF ChatInv, Handle, ServerGone
  <1>2. EventsInv /\ Placed
    BY <1>1 DEF ChatInv
  <1>3. SlotsInv' /\ UpInv' /\ LeaveInv' /\ EventsInv' /\ Placed'
    BY <1>1, <1>2, HandleStep, HandleUpInv, HandleDown, HandleEvents, HandlePlaced
  <1>t. /\ spc \in {"wait", "batch", "exited", "killed"} /\ count \in 0..MaxClients
        /\ MaxClients \in Nat
        /\ \A c \in Clients : Len(up[c]) <= Cap /\ Len(up[c]) \in Nat /\ up[c] \in Seq(Upward)
        /\ Cap \in Nat
    BY <1>1, TcpAssumption DEF StreamTypes
  <1>4. spc' \in {"wait", "batch", "exited", "killed"} /\ count' \in 0..MaxClients
    <2>1. ASSUME NEW s, NEW pieces, NEW cut, Broadcast(s, pieces, cut)
          PROVE  spc' \in {"wait", "batch", "exited", "killed"}
      BY <1>t, <2>1, BroadcastPlace
    <2>2. CASE \E c \in Clients : Refused(c)
      BY <1>t, <2>2 DEF Refused
    <2>3. CASE \E c \in Clients, fd \in Fd : \E k \in 1..Len(up[c]) : Accepted(c, fd, k)
      <3>1. \E s, pieces, cut : Broadcast(s, pieces, cut)
        BY <2>3 DEF Accepted
      <3>2. count < MaxClients /\ count' = count + 1
        BY <2>3 DEF Accepted
      <3> QED
        BY <1>t, <2>1, <3>1, <3>2
    <2>4. CASE \E c \in Clients, fd \in Fd : Dropped(c, fd)
      <3>1. \E s, pieces, cut : Broadcast(s, pieces, cut)
        BY <2>4 DEF Dropped
      <3>2. count > 0 /\ count' = count - 1
        BY <2>4 DEF Dropped
      <3> QED
        BY <1>t, <2>1, <3>1, <3>2
    <2>5. CASE \E c \in Clients, fd \in Fd : \E k \in 1..Len(up[c]) : Relayed(c, fd, k)
      <3>1. \E s, pieces, cut : Broadcast(s, pieces, cut)
        BY <2>5 DEF Relayed
      <3>2. count' = count
        BY <2>5 DEF Relayed
      <3> QED
        BY <1>t, <2>1, <3>1, <3>2
    <2>6. CASE UNCHANGED <<spc, slots, count, fds, netVars>>
      BY <1>t, <2>6
    <2> QED
      BY <1>1, <2>2, <2>3, <2>4, <2>5, <2>6, HandleKinds
  <1>5. \A c \in Clients : Len(up'[c]) <= Cap
    <2>1. ASSUME NEW c \in Clients, NEW k \in 1..Len(up[c]), up'[c] = Rest(up[c], k)
          PROVE  Len(up'[c]) <= Cap
      <3>1. Len(up'[c]) = Len(up[c]) - k
        BY <1>t, <2>1, RestFacts
      <3> QED
        BY <1>t, <3>1
    <2>2. \/ up' = up
          \/ \E c \in Clients :
                /\ \A d \in Clients : d # c => up'[d] = up[d]
                /\ up'[c] = up[c] \/ \E k \in 1..Len(up[c]) : up'[c] = Rest(up[c], k)
      BY <1>1, HandleUp
    <2> QED
      BY <1>t, <2>1, <2>2
  <1>6. StreamTypes'
    <2>1. up' \in [Clients -> Seq(Upward)]
      BY <1>1, HandleUp
    <2>2. down' \in [Clients -> Seq(Downward)] /\ gone' \in [Clients -> 0..2]
          /\ \A c \in Clients : Len(down'[c]) <= Cap
      BY <1>1, HandleDown
    <2>3. todo' = todo
      BY DEF clientVars
    <2> QED
      BY <1>1, <1>4, <1>5, <2>1, <2>2, <2>3 DEF StreamTypes
  <1> QED
    BY <1>3, <1>6 DEF ChatInv

LEMMA ServerChat ==
    ASSUME ChatInv, Server \/ ServerInterrupt, UNCHANGED clientVars
    PROVE  ChatInv'
  <1>1. SlotsInv /\ StreamTypes /\ UpInv /\ LeaveInv /\ SlotsInv'
    BY ServerStep DEF ChatInv
  <1>2. UNCHANGED <<cpc, todo>>
    BY DEF clientVars
  <1>3. CASE Handle
    BY <1>3, HandleChat
  <1>4. CASE ServerInterrupt
    <2>1. /\ UNCHANGED <<netVars, fds, count, batch>> /\ ~ServerGone
          /\ spc' \in {"wait", "batch", "exited", "killed"}
      BY <1>1, <1>4 DEF ServerInterrupt, ServerGone, StreamTypes
    <2>2. EventsInv'
      BY <2>1 DEF ChatInv, EventsInv, netVars
    <2> QED
      BY <1>1, <1>2, <2>1, <2>2, SameChat
  <1>5. CASE EpollWait
    <2>1. /\ UNCHANGED <<netVars, fds, count>> /\ ~ServerGone /\ spc' = "batch"
      BY <1>5 DEF EpollWait, ServerGone
    <2> DEFINE ready == {f \in Fd \cup {Listen} : Ready(f)}
               n == IF Cardinality(ready) < MaxEvents THEN Cardinality(ready) ELSE MaxEvents
    <2>2. ready \in SUBSET (Fd \cup {Listen}) /\ IsFiniteSet(Fd \cup {Listen})
      BY FdFinite, FS_AddElement
    <2>3. Cardinality(ready) \in Nat
      BY <2>2, FS_Subset, FS_CardinalityType
    <2>4. n \in Nat
      BY <2>3, TcpAssumption
    <2>5. batch' \in [1..n -> ready] /\ \A i, j \in 1..n : batch'[i] = batch'[j] => i = j
      BY <1>5 DEF EpollWait
    <2>6. \A f \in ready : f # Listen => fds[f] # None /\ (up[fds[f]] # <<>> \/ gone[fds[f]] > 0)
      BY DEF Ready
    <2> HIDE DEF ready, n
    <2>7. Len(batch') = n
      BY <2>4, <2>5
    <2>8. EventsInv'
      BY <2>1, <2>5, <2>6, <2>7 DEF EventsInv, netVars
    <2> QED
      BY <1>1, <1>2, <2>1, <2>8, SameChat
  <1>6. CASE BatchEnd /\ srun
    <2>1. UNCHANGED <<netVars, fds, count, batch>> /\ ~ServerGone /\ spc' = "wait"
      BY <1>6 DEF BatchEnd, ServerGone
    <2>2. EventsInv'
      BY <2>1 DEF ChatInv, EventsInv, netVars
    <2> QED
      BY <1>1, <1>2, <2>1, <2>2, SameChat
  <1>7. CASE BatchEnd /\ ~srun
    <2>1. /\ ServerGone' /\ spc' = "exited" /\ UNCHANGED <<down, gone, fds, count>>
          /\ shut' = [c \in Clients |-> TRUE] /\ up' = [c \in Clients |-> <<>>]
      BY <1>7 DEF BatchEnd, ServerGone
    <2>2. up' \in [Clients -> Seq(Upward)] /\ \A c \in Clients : up'[c] = <<>> /\ Len(up'[c]) = 0
      BY <2>1
    <2>3. StreamTypes'
      <3>1. \A c \in Clients : Len(up'[c]) <= Cap
        BY <2>2, TcpAssumption
      <3> QED
        BY <1>1, <1>2, <2>1, <2>2, <3>1 DEF StreamTypes
    <2>4. UpInv'
      BY <1>1, <1>2, <2>1, <2>2 DEF UpInv, Known
    <2>5. LeaveInv'
      BY <1>1, <2>1 DEF LeaveInv, Piece
    <2> QED
      BY <1>1, <2>1, <2>3, <2>4, <2>5 DEF ChatInv
  <1> QED
    BY <1>3, <1>4, <1>5, <1>6, <1>7 DEF Server

-----------------------------------------------------------------------------
LEMMA ChatInitially == Init => ChatInv
  <1> SUFFICES ASSUME Init PROVE ChatInv
    OBVIOUS
  <1>1. SlotsInv
    BY SlotsInitially
  <1>2. \A c \in Clients : /\ up[c] = <<>> /\ down[c] = <<>> /\ gone[c] = 0 /\ todo[c] = 0
                           /\ Len(up[c]) = 0 /\ Len(down[c]) = 0 /\ cpc[c] = "off"
    BY DEF Init, NetInit, ClientInit
  <1>3. StreamTypes
    <2>1. up \in [Clients -> Seq(Upward)] /\ down \in [Clients -> Seq(Downward)]
      BY DEF Init, NetInit
    <2>2. gone \in [Clients -> 0..2] /\ todo \in [Clients -> 0..FileLen]
      BY TcpAssumption DEF Init, NetInit, ClientInit
    <2>3. \A c \in Clients : Len(up[c]) <= Cap /\ Len(down[c]) <= Cap
      BY <1>2, TcpAssumption
    <2>4. spc = "batch" /\ count \in 0..MaxClients
      BY TcpAssumption DEF Init, ServerInit
    <2> QED
      BY <2>1, <2>2, <2>3, <2>4 DEF StreamTypes
  <1>4. UpInv
    <2>1. \A c \in Clients : ~Known(c)
      BY TcpAssumption DEF Init, ServerInit, Known
    <2>2. \A c \in Clients : ~(gone[c] > 0) /\ \A i \in 1..Len(up[c]) : FALSE
      BY <1>2
    <2> QED
      BY <1>2, <2>1, <2>2 DEF UpInv
  <1>5. LeaveInv
    <2>1. \A c \in Clients : \A i \in 1..Len(down[c]) : FALSE
      BY <1>2
    <2> QED
      BY <2>1 DEF LeaveInv
  <1>6. EventsInv /\ Placed
    <2>1. \A i \in 1..Len(batch) : FALSE
      BY DEF Init, ServerInit
    <2> QED
      BY <1>2, <2>1 DEF EventsInv, Placed
  <1> QED
    BY <1>1, <1>3, <1>4, <1>5, <1>6 DEF ChatInv

LEMMA ChatNext == ChatInv /\ [Next]_vars => ChatInv'
  <1> SUFFICES ASSUME ChatInv, [Next]_vars PROVE ChatInv'
    OBVIOUS
  <1>1. CASE (Server \/ ServerInterrupt) /\ UNCHANGED clientVars
    BY <1>1, ServerChat
  <1>2. CASE \E c \in Clients : Connect(c, ~ServerGone) /\ UNCHANGED serverVars
    BY <1>2, ConnectChat
  <1>3. CASE \E c \in Clients : /\ Runs(c) \/ Type(c) \/ Interrupt(c) \/ Crash(c)
                                /\ UNCHANGED serverVars
    BY <1>3, ClientChat
  <1>4. CASE UNCHANGED vars
    <2>1. UNCHANGED <<netVars, fds, count, batch, cpc, todo, spc>> /\ (ServerGone' <=> ServerGone)
      BY <1>4 DEF vars, serverVars, clientVars, ServerGone
    <2>2. SlotsInv' /\ StreamTypes
      BY <1>4, SlotsNext DEF ChatInv
    <2>3. ServerGone \/ EventsInv'
      BY <2>1 DEF ChatInv, EventsInv, netVars
    <2> QED
      BY <2>1, <2>2, <2>3, SameChat DEF StreamTypes
  <1> QED
    BY <1>1, <1>2, <1>3, <1>4 DEF Next

(* Every piece on the streams is what was given to send by whom it says,   *)
(* INIT first and CLOSE last; nothing of a client is behind its LEAVE; the *)
(* events of a batch are still there when their turn comes; and nobody is  *)
(* left without a place (07/server.c:142-284, 350-370, 07/client.c).       *)
THEOREM ChatInvariant == Spec => []ChatInv
  BY ChatInitially, ChatNext, PTL DEF Spec

LEMMA SeqDomain ==
    ASSUME NEW S, NEW s \in Seq(S)
    PROVE  DOMAIN s = 1..Len(s) /\ \A i \in DOMAIN s : s[i] \in S
  OBVIOUS

LEMMA KnownHasSlot ==
    ASSUME NetTypes, Matched, NEW c \in Clients
    PROVE  Registered(c) <=> Known(c)
  BY TcpAssumption DEF NetTypes, Matched, Active, Registered, Known

LEMMA ChatTypes == ChatInv => TypeOK
  <1> SUFFICES ASSUME ChatInv PROVE TypeOK
    OBVIOUS
  <1>1. StreamTypes /\ NetTypes
    BY DEF ChatInv, SlotsInv
  <1>2. \A c \in Clients : /\ \A i \in DOMAIN up[c] : up[c][i] \in Upward
                           /\ \A i \in DOMAIN down[c] : down[c][i] \in Downward
    BY <1>1, SeqDomain DEF StreamTypes
  <1>5. /\ spc \in {"wait", "batch", "exited", "killed"}
        /\ slots \in [Slots -> Fd \cup {0}] /\ count \in 0..MaxClients
        /\ fds \in [Fd -> Clients \cup {None}]
        /\ cpc \in [Clients -> {"off", "init", "select", "stdin", "data", "receive",
                                 "leave", "exited"}]
        /\ todo \in [Clients -> 0..FileLen]
    BY <1>1 DEF StreamTypes, NetTypes
  <1>6. \A c \in Clients : Len(up[c]) <= Cap /\ Len(down[c]) <= Cap
    BY <1>1 DEF StreamTypes
  <1> QED
    BY <1>2, <1>5, <1>6 DEF TypeOK, Upward, Downward

LEMMA ChatPlaces == ChatInv => NoLimbo
  <1> SUFFICES ASSUME ChatInv, NEW c \in Clients,
                      cpc[c] \notin {"off", "exited"}, ~ServerGone, ~shut[c]
               PROVE  Registered(c) \/ \E i \in DOMAIN backlog : backlog[i] = c
    BY DEF NoLimbo
  <1>1. NetTypes /\ Matched /\ Placed
    BY DEF ChatInv, SlotsInv
  <1>2. Known(c) \/ Waiting(c)
    BY <1>1 DEF Placed
  <1>3. DOMAIN backlog = 1..Len(backlog)
    BY <1>1 DEF NetTypes
  <1> QED
    BY <1>1, <1>2, <1>3, KnownHasSlot DEF Waiting

LEMMA ChatLeaves == ChatInv => LeaveIsLast
  <1> SUFFICES ASSUME ChatInv, NEW w \in Clients, NEW c \in Clients,
                      NEW i \in DOMAIN down[w], down[w][i] = Piece("leave", c)
               PROVE  /\ ServerGone \/ ~Registered(c)
                      /\ \A j \in i + 1..Len(down[w]) : down[w][j].from # c
    BY DEF LeaveIsLast
  <1>1. StreamTypes /\ LeaveInv /\ SlotsInv
    BY DEF ChatInv
  <1>2. i \in 1..Len(down[w])
    BY <1>1, SeqDomain DEF StreamTypes
  <1>3. shut[c] /\ \A j \in i + 1..Len(down[w]) : down[w][j].from # c
    BY <1>1, <1>2 DEF LeaveInv
  <1>4. ServerGone \/ ~Registered(c)
    BY <1>1, <1>3, SlotsInvAgree DEF SlotsAgree
  <1> QED
    BY <1>3, <1>4

(* The server lets go of a registered client in one way only: CLOSE has    *)
(* been read, its own or spelled by its file, or recv has returned nothing *)
(* after an event.                                                         *)
LEMMA OnlyDropped ==
    ASSUME ChatInv, [Next]_vars, NEW c \in Clients, Registered(c), ~Registered(c)'
    PROVE  cpc[c] = "exited" \/ (up[c] # <<>> /\ up[c][1] = Bytes("close", c))
  <1>1. SlotsInv /\ StreamTypes /\ UpInv
    BY DEF ChatInv
  <1>n. None \notin Clients
    BY TcpAssumption
  <1>2. Handle
    <2>1. ~(UNCHANGED <<slots, fds>>)
      BY DEF Registered, Active
    <2> QED
      BY <2>1 DEF Next, Server, EpollWait, BatchEnd, ServerInterrupt, serverVars, vars
  <1>3. /\ ~ServerGone /\ NetTypes /\ Matched /\ EventsInv /\ batch \in Seq(Fd \cup {Listen})
        /\ batch # <<>>
    BY <1>1, <1>2, HandleKinds DEF SlotsInv, ChatInv, BatchInv
  <1>4. PICK i \in Active : fds[slots[i]] = c
    BY DEF Registered
  <1>5. i \in Slots /\ slots[i] \in Fd /\ slots[i] # 0 /\ 0 \notin Fd
    BY <1>3, <1>4, FdFinite DEF Active, NetTypes
  <1>6. ~(slots'[i] = slots[i] /\ fds'[slots[i]] = c)
    BY <1>4, <1>5 DEF Registered, Active
  <1>7. ~(\E d \in Clients : Refused(d))
    BY <1>4, <1>6 DEF Refused
  <1>8. ~(\E d \in Clients, fd \in Fd : \E k \in 1..Len(up[d]) : Relayed(d, fd, k))
    BY <1>4, <1>6 DEF Relayed
  <1>9. ~(\E d \in Clients, fd \in Fd : \E k \in 1..Len(up[d]) : Accepted(d, fd, k))
    <2> SUFFICES ASSUME NEW fd \in Fd, fds[fd] = None, NEW d, fds' = [fds EXCEPT ![fd] = d],
                        NEW j \in Slots \ Active, slots' = [slots EXCEPT ![j] = fd]
                 PROVE  FALSE
      BY DEF Accepted
    <2>1. i # j /\ slots[i] # fd
      BY <1>4, <1>n
    <2> QED
      BY <1>3, <1>4, <1>5, <1>6, <2>1 DEF NetTypes
  <1>10. ~(UNCHANGED <<spc, slots, count, fds, netVars>>)
    BY <1>4, <1>6
  <1>11. PICK d \in Clients, fd \in Fd : Dropped(d, fd)
    BY <1>1, <1>2, <1>7, <1>8, <1>9, <1>10, HandleKinds
  <1>12. /\ fds[fd] = d /\ Head(batch) = fd
         /\ slots' = [j \in Slots |-> IF slots[j] = fd THEN 0 ELSE slots[j]]
         /\ fds' = [fds EXCEPT ![fd] = None]
         /\ up[d] = <<>> \/ (up[d] # <<>> /\ up[d][1].as = "close")
    BY <1>11 DEF Dropped
  <1>13. slots[i] = fd /\ d = c
    BY <1>3, <1>4, <1>5, <1>6, <1>12 DEF NetTypes
  <1>14. CASE up[c] = <<>>
    <2>1. 1 \in 1..Len(batch) /\ batch[1] = fd
      BY <1>3, <1>12
    <2>2. fd # Listen
      BY <1>5, <1>13 DEF Listen
    <2>3. gone[c] > 0
      BY <1>3, <1>12, <1>13, <1>14, <2>1, <2>2 DEF EventsInv
    <2> QED
      BY <1>1, <2>3 DEF UpInv
  <1>15. CASE up[c] # <<>> /\ up[c][1].as = "close"
    <2>1. 1 \in 1..Len(up[c]) /\ up[c][1] \in Upward
      BY <1>1, <1>15 DEF StreamTypes
    <2>2. /\ up[c][1].from = c
          /\ up[c][1].type = "close" => cpc[c] = "exited"
      BY <1>1, <2>1 DEF UpInv
    <2>3. \/ up[c][1].as = up[c][1].type
          \/ up[c][1] = Bytes(up[c][1].as, up[c][1].from)
      BY <2>1, PieceFacts DEF Upward
    <2> QED
      BY <1>15, <2>2, <2>3
  <1> QED
    BY <1>12, <1>13, <1>14, <1>15

(* All that the model keeps stays in its bounds: the buffers, client_count *)
(* and the slots (MAX_CLIENTS), and the rest of a file that a client       *)
(* counts down (07/client.c:51-56).                                        *)
THEOREM TcpTypes == Spec => []TypeOK
  BY ChatInvariant, ChatTypes, PTL

(* Whoever has connected waits for accept, has a slot, or is told that it  *)
(* is closed, however many connect (07/server.c:238-279).                  *)
THEOREM NobodyInLimbo == Spec => []NoLimbo
  BY ChatInvariant, ChatPlaces, PTL

(* Nothing of a client is delivered behind its LEAVE, and by then it has   *)
(* no slot (07/server.c:142-156, 165-186).                                 *)
THEOREM LeaveComesLast == Spec => []LeaveIsLast
  BY ChatInvariant, ChatLeaves, PTL

(* Only a client that has ended loses its slot, or one whose file spells   *)
(* CLOSE: where the server begins to read (07/server.c:165): no event of a *)
(* batch is about a connection that the batch itself has closed or whose   *)
(* descriptor has a new owner, so recv never finds EAGAIN (07/server.c:    *)
(* 138-140, 358-369).                                                      *)
THEOREM OnlyGoneDropped == Spec => OnlyTheGoneAreDropped
  <1>1. ChatInv /\ [Next]_vars
           => [\A c \in Clients : Registered(c) /\ ~Registered(c)' =>
                 cpc[c] = "exited" \/ (up[c] # <<>> /\ up[c][1] = Bytes("close", c))]_vars
    BY OnlyDropped
  <1> QED
    BY <1>1, ChatInvariant, PTL DEF Spec, OnlyTheGoneAreDropped
=============================================================================
