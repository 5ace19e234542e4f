----------------------------- MODULE PipeProofs -----------------------------
(***************************************************************************)
(* Proofs about 01/main.c: what the child makes of the stream, for any     *)
(* number of files, of any length, and any sizes of header, block and pipe.*)
(*                                                                         *)
(* Nothing in the pipe says where a header ends and bytes begin.  StreamInv*)
(* says it: a header's first cell is followed by the rest of it, then by   *)
(* what the parent sends next, or by the end, where the parent still is.   *)
(* Tracking is the child's side: in the middle of a file it reads on at a  *)
(* block's edge, and the copy has just what came before.  It is kept as    *)
(* long as the announced length is not above the real one.  FaithInv lists *)
(* where the two can be while every file up to n was sound.                *)
(***************************************************************************)
EXTENDS PipeCopy, SequenceTheorems, TLAPS

Info(f) == Msg("info", f, ToInt(disk[f].size))
Done == Msg("done", 0, 0)
Size(f, k) == Min2(Chunk, disk[f].length - k)
Byte(f, k) == [msg |-> Msg("bytes", f, 0), at |-> k]

-----------------------------------------------------------------------------
(* What can be in the pipe behind its first i cells.                       *)

HeaderAfter(i, m) ==
    /\ i + Header <= Len(pipe)
    /\ \A j \in 1..Header : pipe[i + j] = [msg |-> m, at |-> j]

BytesAfter(i, f, k, n) ==
    /\ i + n <= Len(pipe)
    /\ \A j \in 1..n : pipe[i + j] = Byte(f, k + j)

(* Nothing yet, or what the first file after f begins with, or the end.    *)
FileAfter(i, f) ==
    \/ /\ i = Len(pipe)
       /\ \/ ppc = "data" /\ file = f /\ sent = disk[f].length
          \/ /\ ppc \in {"create", "open1", "open2", "ready", "file"}
             /\ file > f
             /\ \A g \in f + 1..file - 1 : ~disk[g].exists
    \/ \E g \in f + 1..Files :
          /\ disk[g].exists /\ \A h \in f + 1..g - 1 : ~disk[h].exists
          /\ HeaderAfter(i, Info(g))
    \/ /\ \A g \in f + 1..Files : ~disk[g].exists
       /\ HeaderAfter(i, Done)

(* The block of f that starts behind byte k, as far as it is written.      *)
Whole(i, f, k) ==
    /\ k < disk[f].length
    /\ HeaderAfter(i, Msg("data", f, Size(f, k)))
    /\ BytesAfter(i + Header, f, k, Size(f, k))

BlockAfter(i, f, k) ==
    \/ i = Len(pipe) /\ ppc = "data" /\ file = f /\ sent = k
    \/ /\ k < disk[f].length
       /\ HeaderAfter(i, Msg("data", f, Size(f, k)))
       /\ i + Header = Len(pipe) /\ ppc = "bytes" /\ file = f /\ sent = k
    \/ Whole(i, f, k)
    \/ k = disk[f].length /\ FileAfter(i, f)

(* The stream: what follows a header, and what follows a block.            *)
StreamInv ==
    /\ \A i \in 1..Len(pipe) : pipe[i].msg.type # "bytes" /\ pipe[i].at = 1
          => HeaderAfter(i - 1, pipe[i].msg)
    /\ \A i \in 0..Len(pipe), f \in F :
          HeaderAfter(i, Info(f)) => BlockAfter(i + Header, f, 0)
    /\ \A i \in 0..Len(pipe), f \in F, n \in 1..Chunk : HeaderAfter(i, Msg("data", f, n)) =>
          \/ i + Header = Len(pipe) /\ ppc = "bytes" /\ file = f /\ n = Block
          \/ \E k \in 0..disk[f].length :
                n = Size(f, k) /\ Whole(i, f, k) /\ BlockAfter(i + Header + n, f, k + n)

(* The files are announced in order.                                       *)
Announced(i) == pipe[i].msg.type = "info"
InfoOrder ==
    /\ \A i, j \in 1..Len(pipe) : i < j /\ Announced(i) /\ Announced(j)
          => pipe[i].msg.file <= pipe[j].msg.file
    /\ \A i \in 1..Len(pipe) : Announced(i) =>
          pipe[i].msg.file <= file /\ (ppc = "file" => pipe[i].msg.file < file)

(* Types.                                                                  *)
Messages ==
    [type : {"info"}, file : {f \in F : disk[f].exists}, length : -IntLimit..IntLimit - 1]
    \cup [type : {"data"}, file : F, length : 1..Chunk]
    \cup [type : {"bytes"}, file : F, length : {0}]
    \cup {Done}
Cell == [msg : Messages, at : Nat \ {0}]

Types ==
    /\ TypeOK
    /\ disk \in [F -> File] /\ copy \in [F \cup {0} -> Seq(Cell)]
    /\ pipe \in Seq(Cell) /\ got \in Nat
    /\ \A i \in 1..Len(pipe) : (Announced(i) => pipe[i].msg = Info(pipe[i].msg.file))
    /\ \A f \in F \ Odd : ~disk[f].exists => copy[f] = <<>>
    /\ ppc \in {"data", "bytes"} => file \in F /\ disk[file].exists /\ sent <= disk[file].length
    /\ ppc = "bytes" => Block > 0
    /\ cpc = "none" => ppc \in {"create", "exited"} /\ pipe = <<>>
    /\ ppc = "create" => cpc = "none"
    /\ ppc \in {"create", "open1", "open2", "ready"} => pipe = <<>>
    /\ cpc \in {"copy", "body"} => cur \in Odd \/ (cur \in F /\ disk[cur].exists)
    /\ cpc = "body" => want > 0

-----------------------------------------------------------------------------
(* The child knows where in a file it is.                                  *)
Copied(f, n) == Len(copy[f]) = n /\ \A j \in 1..n : copy[f][j] = Byte(f, j)

Tracking ==
    /\ cur \in F
    /\ total <= disk[cur].length
    /\ Copied(cur, got)
    /\ got <= disk[cur].length
    /\ cpc = "copy" => BlockAfter(0, cur, got)
    /\ cpc = "body" =>
          /\ got < total /\ want = Size(cur, got)
          /\ \/ pipe = <<>> /\ ppc = "bytes" /\ file = cur /\ sent = got
             \/ BytesAfter(0, cur, got, want) /\ BlockAfter(want, cur, got + want)

NoneShrank == \A f \in F : disk[f].length >= disk[f].size

OwnInv == NoneShrank =>
    /\ \A f \in F \ Odd : \E n \in 0..disk[f].length : Copied(f, n)
    /\ cpc \in {"copy", "body"} => cur \in Odd \/ Tracking

(* The files up to n are done with; what follows is the next, which is     *)
(* about to come, being copied, or the first that the child cannot follow. *)
(* From there on it may read bytes as headers, and begin a copy again.     *)
Finished(n) == \A f \in 1..n : Sound(f) /\ Copied(f, disk[f].length)
Spared(n) == \A f \in (1..n) \ Odd : Copied(f, disk[f].length)
Missing == \A f \in F : ~disk[f].exists => copy[f] = <<>>
Skipped(n, f) == \A g \in n + 1..f - 1 : ~disk[g].exists

Unborn(n) == cpc = "none" /\ (ppc = "exited" \/ FileAfter(0, n))
Awaiting(n) == cpc \in {"open1", "open2", "greet", "header"} /\ FileAfter(0, n)
Copying(n) ==
    /\ cpc \in {"copy", "body"} /\ cur > n /\ Skipped(n, cur) /\ Sound(cur)
    /\ total = disk[cur].length /\ Tracking
Over(n) == cpc = "exited" /\ Skipped(n, Files + 1)
Lost(n) == \E u \in n + 1..Files :
    /\ ~Sound(u) /\ Skipped(n, u)
    /\ cpc \in {"copy", "body"} => cur >= u \/ cur \in Odd
    /\ \A i \in 1..Len(pipe) : (Announced(i) => pipe[i].msg.file >= u)
    /\ file >= u

FaithInv == \E n \in 0..Files :
    \/ /\ Finished(n) /\ Missing
       /\ Unborn(n) \/ Awaiting(n) \/ Copying(n) \/ Over(n)
    \/ Spared(n) /\ Lost(n)

(* A child that has ended leaves the pipe as it is.                        *)
PipeInv ==
    /\ Types
    /\ cpc # "exited" => StreamInv /\ InfoOrder
    /\ OwnInv /\ FaithInv
-----------------------------------------------------------------------------
(* The operators of the model.                                             *)

(* The constants, but for what is spelled.                                 *)
LEMMA Bounds ==
    /\ Files \in Nat \ {0} /\ MaxLen \in Nat /\ IntLimit \in Nat \ {0}
    /\ Chunk \in Nat \ {0} /\ Header \in Nat /\ Header > Chunk
    /\ PipeCap \in Nat /\ PipeCap >= Header
  BY PipeAssumption

(* (int)size is the size, or less.                                         *)
LEMMA ToIntFacts ==
    ASSUME NEW n \in Nat
    PROVE  /\ ToInt(n) \in -IntLimit..IntLimit - 1
           /\ ToInt(n) <= n
           /\ n < IntLimit => ToInt(n) = n
  <1> USE Bounds
  <1> DEFINE a == n + IntLimit
             b == 2 * IntLimit
             c == a % b
  <1>1. a \in Nat /\ b \in Nat \ {0} /\ b = IntLimit + IntLimit
    OBVIOUS
  <1>2. (n < IntLimit => a < b) /\ ToInt(n) = c - IntLimit
    BY <1>1 DEF ToInt
  <1> HIDE DEF a, b
  <1>3. c \in 0..b - 1 /\ c <= a /\ (a < b => c = a)
    BY <1>1
  <1> HIDE DEF c
  <1>4. a = n + IntLimit
    BY DEF a
  <1> QED
    BY <1>1, <1>2, <1>3, <1>4

LEMMA CellsFacts ==
    ASSUME NEW m \in Messages, NEW from \in Nat, NEW n \in Nat
    PROVE  /\ Cells(m, from, n) \in Seq(Cell) /\ Len(Cells(m, from, n)) = n
           /\ \A k \in 1..n : Cells(m, from, n)[k] = [msg |-> m, at |-> from + k]
  <1>1. \A k \in 1..n : [msg |-> m, at |-> from + k] \in Cell
    BY DEF Cell
  <1>2. Cells(m, from, n) \in [1..n -> Cell]
    BY <1>1 DEF Cells
  <1> QED
    BY <1>2 DEF Cells

(* What is written goes behind what there is.                              *)
LEMMA WriteFacts ==
    ASSUME pipe \in Seq(Cell), NEW m \in Messages, NEW from \in Nat, NEW n \in Nat,
           Write(Cells(m, from, n))
    PROVE  /\ pipe' \in Seq(Cell) /\ Len(pipe') = Len(pipe) + n /\ Len(pipe') <= PipeCap
           /\ \A i \in 1..Len(pipe) : pipe'[i] = pipe[i]
           /\ \A k \in 1..n : pipe'[Len(pipe) + k] = [msg |-> m, at |-> from + k]
  <1> DEFINE c == Cells(m, from, n)
  <1>1. c \in Seq(Cell) /\ Len(c) = n /\ \A k \in 1..n : c[k] = [msg |-> m, at |-> from + k]
    BY CellsFacts
  <1>2. Len(pipe) + Len(c) <= PipeCap /\ pipe' = pipe \o c
    BY DEF Write
  <1> HIDE DEF c
  <1>3. /\ pipe \o c \in Seq(Cell) /\ Len(pipe \o c) = Len(pipe) + Len(c)
        /\ \A i \in 1..Len(pipe) : (pipe \o c)[i] = pipe[i]
        /\ \A k \in 1..Len(c) : (pipe \o c)[Len(pipe) + k] = c[k]
    <2>1. /\ pipe \o c \in Seq(Cell) /\ Len(pipe \o c) = Len(pipe) + Len(c)
          /\ \A i \in 1..Len(pipe) + Len(c) :
                (pipe \o c)[i] = IF i <= Len(pipe) THEN pipe[i] ELSE c[i - Len(pipe)]
      BY <1>1, ConcatProperties
    <2> DEFINE d == pipe \o c
               l == Len(pipe)
    <2>2. l \in Nat /\ Len(c) \in Nat
      BY <1>1
    <2> HIDE DEF d, l
    <2>3. \A i \in 1..l + Len(c) : d[i] = IF i <= l THEN pipe[i] ELSE c[i - l]
      BY <2>1 DEF d, l
    <2>4. ASSUME NEW k \in 1..Len(c) PROVE d[l + k] = c[k]
      <3> DEFINE j == l + k
      <3>1. j \in 1..l + Len(c) /\ ~(j <= l) /\ j - l = k
        BY <2>2
      <3> HIDE DEF j
      <3>2. d[j] = c[k]
        BY <2>3, <3>1
      <3> QED
        BY <3>2 DEF j
    <2>5. \A i \in 1..l : d[i] = pipe[i]
      BY <2>2, <2>3
    <2> QED
      BY <2>1, <2>4, <2>5 DEF d, l
  <1> QED
    BY <1>1, <1>2, <1>3

(* What is read is taken from the front.                                   *)
LEMMA TakeFacts ==
    ASSUME pipe \in Seq(Cell), NEW n \in Nat \ {0}, Take(n)
    PROVE  LET k == Min2(n, Len(pipe))
           IN  /\ k \in 1..Len(pipe) /\ k <= n /\ (n <= Len(pipe) => k = n)
               /\ pipe' \in Seq(Cell) /\ Len(pipe') = Len(pipe) - k
               /\ \A i \in 1..Len(pipe) - k : pipe'[i] = pipe[i + k]
               /\ Got(n) \in Seq(Cell) /\ Len(Got(n)) = k
               /\ \A i \in 1..k : Got(n)[i] = pipe[i]
  <1> DEFINE l == Len(pipe)
             k == Min2(n, l)
  <1>1. pipe # <<>> /\ pipe' = SubSeq(pipe, k + 1, l) /\ Got(n) = SubSeq(pipe, 1, k)
    BY DEF Take, Got
  <1>2. l \in Nat /\ l >= 1 /\ \A i \in 1..l : pipe[i] \in Cell
    BY <1>1
  <1>3. k \in 1..l /\ k <= n /\ (n <= l => k = n)
    BY <1>2 DEF Min2
  <1> HIDE DEF l, k
  <1>4. /\ SubSeq(pipe, 1, k) \in Seq(Cell) /\ Len(SubSeq(pipe, 1, k)) = k
        /\ \A i \in 1..k : SubSeq(pipe, 1, k)[i] = pipe[i]
    <2>1. \A i \in 1..k : pipe[i] \in Cell
      BY <1>2, <1>3
    <2>2. /\ SubSeq(pipe, 1, k) \in Seq(Cell)
          /\ Len(SubSeq(pipe, 1, k)) = IF 1 <= k THEN k - 1 + 1 ELSE 0
          /\ \A i \in 1..k - 1 + 1 : SubSeq(pipe, 1, k)[i] = pipe[1 + i - 1]
      BY <1>3, <2>1, SubSeqProperties
    <2> QED
      BY <1>3, <2>2
  <1> DEFINE t == SubSeq(pipe, k + 1, l)
  <1>5. t \in Seq(Cell) /\ Len(t) = l - k /\ \A i \in 1..l - k : t[i] = pipe[i + k]
    <2>1. \A i \in k + 1..l : pipe[i] \in Cell
      BY <1>2, <1>3
    <2>2. /\ t \in Seq(Cell) /\ Len(t) = IF k + 1 <= l THEN l - (k + 1) + 1 ELSE 0
          /\ \A i \in 1..l - (k + 1) + 1 : t[i] = pipe[k + 1 + i - 1]
      BY <1>2, <1>3, <2>1, SubSeqProperties
    <2> HIDE DEF t
    <2>3. Len(t) = l - k
      <3>1. CASE k + 1 <= l
        BY <1>2, <1>3, <2>2, <3>1
      <3>2. CASE ~(k + 1 <= l)
        <4>1. l - k = 0
          BY <1>2, <1>3, <3>2
        <4> QED
          BY <2>2, <3>2, <4>1
      <3> QED
        BY <3>1, <3>2
    <2>4. ASSUME NEW i \in 1..l - k PROVE t[i] = pipe[i + k]
      <3>1. i \in 1..l - (k + 1) + 1 /\ k + 1 + i - 1 = i + k
        BY <1>2, <1>3
      <3> QED
        BY <2>2, <3>1
    <2> QED
      BY <2>2, <2>3, <2>4
  <1> QED
    BY <1>1, <1>3, <1>4, <1>5 DEF l, k

LEMMA DiskFacts ==
    ASSUME Types, NEW f \in F
    PROVE  /\ disk[f].size \in 0..MaxLen /\ disk[f].length \in 0..MaxLen
           /\ disk[f].exists \in BOOLEAN
           /\ ~disk[f].exists => disk[f].size = 0 /\ disk[f].length = 0 /\ disk[f].creatable
  <1>1. disk[f] \in File
    BY DEF Types
  <1>2. CASE disk[f] \in [exists : {TRUE}, size : 0..MaxLen, length : 0..MaxLen, creatable : BOOLEAN]
    BY <1>2
  <1>3. CASE disk[f] \in [exists : {FALSE}, size : {0}, length : {0}, creatable : {TRUE}]
    <2>1. disk[f].exists = FALSE /\ disk[f].size = 0 /\ disk[f].length = 0 /\ disk[f].creatable = TRUE
      BY <1>3, Zenon
    <2>2. disk[f].creatable
      BY <2>1
    <2>3. disk[f].size \in 0..MaxLen /\ disk[f].length \in 0..MaxLen
      BY <2>1, Bounds
    <2>4. disk[f].exists \in BOOLEAN
      BY <2>1, Zenon
    <2> QED
      BY <2>1, <2>2, <2>3, <2>4, Zenon
  <1> QED
    BY <1>1, <1>2, <1>3 DEF File

(* A header is at the front of the pipe.                                   *)
Begins == pipe[1].at = 1 /\ pipe[1].msg.type # "bytes"

(* What is received is that header, or what bytes spell.                   *)
LEMMA ReceivedFacts ==
    ASSUME Types, pipe # <<>>
    PROVE  /\ Received = IF Begins THEN {pipe[1].msg} ELSE {Msg("bytes", 0, 0)} \cup Spelled
           /\ Begins /\ pipe[1].msg.type = "info" =>
                LET f == pipe[1].msg.file
                IN  f \in F /\ disk[f].exists /\ pipe[1].msg = Info(f)
           /\ Begins /\ pipe[1].msg.type = "data" => pipe[1].msg.length \in 1..Chunk
  <1>0. pipe \in Seq(Cell) /\ Len(pipe) \in Nat /\ Len(pipe) >= 1 /\ Header >= 1 /\ Header \in Nat
    BY Bounds DEF Types
  <1> DEFINE k == Min2(Header, Len(pipe))
  <1>1. k \in 1..Len(pipe)
    BY <1>0 DEF Min2
  <1> HIDE DEF k
  <1>2. Got(Header)[1] = pipe[1]
    <2>1. \A i \in 1..k : pipe[i] \in Cell
      BY <1>0, <1>1
    <2>2. \A i \in 1..k - 1 + 1 : SubSeq(pipe, 1, k)[i] = pipe[1 + i - 1]
      BY <1>0, <1>1, <2>1, SubSeqProperties
    <2>3. 1 \in 1..k - 1 + 1
      BY <1>0, <1>1
    <2>4. SubSeq(pipe, 1, k)[1] = pipe[1 + 1 - 1]
      BY <2>2, <2>3
    <2>5. Got(Header) = SubSeq(pipe, 1, k)
      BY DEF Got, k
    <2>6. 1 + 1 - 1 = 1
      OBVIOUS
    <2> QED
      BY <2>4, <2>5, <2>6
  <1>3. Received = IF Begins THEN {pipe[1].msg} ELSE {Msg("bytes", 0, 0)} \cup Spelled
    BY <1>2 DEF Received, Begins
  <1>4. 1 \in 1..Len(pipe) /\ pipe[1] \in Cell
    BY <1>0
  <1>5. pipe[1].msg \in Messages
    BY <1>4 DEF Cell
  <1>6. Done.type = "done"
    BY DEF Msg, Done
  <1>7. ASSUME pipe[1].msg.type = "info"
        PROVE  LET f == pipe[1].msg.file
               IN  f \in F /\ disk[f].exists /\ pipe[1].msg = Info(f)
    <2>1. pipe[1].msg.file \in F /\ disk[pipe[1].msg.file].exists
      BY <1>5, <1>6, <1>7 DEF Messages
    <2>2. pipe[1].msg = Info(pipe[1].msg.file)
      BY <1>4, <1>7 DEF Types, Announced
    <2> QED
      BY <2>1, <2>2
  <1>8. pipe[1].msg.type = "data" => pipe[1].msg.length \in 1..Chunk
    BY <1>5, <1>6 DEF Messages
  <1> QED
    BY <1>3, <1>7, <1>8

(* What is spelled names a file and a length, and one that is announced    *)
(* and is not odd comes with a header.                                     *)
LEMMA Understood ==
    ASSUME Types, pipe # <<>>, NEW m \in Received
    PROVE  /\ m.type = "info" => /\ m.file \in F \cup {0} /\ m.length \in -IntLimit..IntLimit - 1
                                 /\ (m.file \in F /\ disk[m.file].exists) \/ m.file \in Odd
                                 /\ Begins \/ m.file \in Odd
           /\ m.type = "data" => m.length \in Int /\ m.length <= Chunk
  <1> USE Bounds
  <1>1. CASE Begins
    <2>1. m = pipe[1].msg
      BY <1>1, ReceivedFacts
    <2>2. CASE m.type = "info"
      <3>1. PICK f : f = m.file
        OBVIOUS
      <3>2. f \in F /\ disk[f].exists /\ m = Info(f)
        BY <1>1, <2>1, <2>2, <3>1, ReceivedFacts
      <3>3. m.length = ToInt(disk[f].size)
        BY <3>2 DEF Info, Msg
      <3>4. m.length \in -IntLimit..IntLimit - 1
        BY <3>2, <3>3, DiskFacts, ToIntFacts
      <3> QED
        BY <1>1, <2>2, <3>1, <3>2, <3>4
    <2>3. CASE m.type = "data"
      <3>1. m.length \in 1..Chunk
        BY <1>1, <2>1, <2>3, ReceivedFacts
      <3> QED
        BY <2>3, <3>1
    <2> QED
      BY <2>2, <2>3
  <1>2. CASE ~Begins
    <2>1. m = Msg("bytes", 0, 0) \/ m \in Spelled
      BY <1>2, ReceivedFacts
    <2>2. CASE m = Msg("bytes", 0, 0)
      BY <2>2 DEF Msg
    <2>3. CASE m \in Spelled
      <3>0. m \in [type : {"info", "done"}, file : F \cup {0}, length : -IntLimit..IntLimit - 1]
                  \cup [type : {"data"}, file : F \cup {0}, length : -IntLimit..Chunk]
        BY <2>3, PipeAssumption
      <3>1. CASE m \in [type : {"info", "done"}, file : F \cup {0},
                        length : -IntLimit..IntLimit - 1]
        BY <2>3, <3>1 DEF Odd
      <3>2. CASE m \in [type : {"data"}, file : F \cup {0}, length : -IntLimit..Chunk]
        BY <3>2
      <3> QED
        BY <3>0, <3>1, <3>2
    <2> QED
      BY <2>1, <2>2, <2>3
  <1> QED
    BY <1>1, <1>2

LEMMA SizeFacts ==
    ASSUME Types, NEW f \in F, NEW k \in Nat, k <= disk[f].length
    PROVE  /\ Size(f, k) \in 0..Chunk /\ k + Size(f, k) <= disk[f].length
           /\ k < disk[f].length => Size(f, k) > 0
           /\ k = disk[f].length => Size(f, k) = 0
  BY DiskFacts, Bounds DEF Size, Min2

LEMMA BlockFacts ==
    ASSUME Types, ppc \in {"data", "bytes"}
    PROVE  /\ file \in F /\ disk[file].exists /\ sent \in Nat /\ Block = Size(file, sent)
           /\ Block \in 0..Chunk /\ sent + Block <= disk[file].length
           /\ Block = 0 <=> sent = disk[file].length
  <1>1. file \in F /\ disk[file].exists /\ sent \in 0..MaxLen /\ sent <= disk[file].length
    BY DEF Types, TypeOK
  <1>2. Block = Size(file, sent)
    BY DEF Block, Size
  <1> QED
    BY <1>1, <1>2, SizeFacts, DiskFacts, Bounds

(* Types, one action at a time.                                            *)
LEMMA WriteTypes ==
    ASSUME Types, NEW m \in Messages, NEW from \in Nat, NEW n \in Nat,
           Write(Cells(m, from, n)), m.type = "info" => m = Info(m.file)
    PROVE  /\ pipe' \in Seq(Cell) /\ Len(pipe') <= PipeCap
           /\ \A i \in 1..Len(pipe') :
                 pipe'[i].msg.type = "info" => pipe'[i].msg = Info(pipe'[i].msg.file)
  <1> DEFINE l == Len(pipe)
  <1>0. pipe \in Seq(Cell) /\ l \in Nat
    BY DEF Types
  <1>1. /\ pipe' \in Seq(Cell) /\ Len(pipe') = l + n /\ Len(pipe') <= PipeCap
        /\ \A i \in 1..l : pipe'[i] = pipe[i]
        /\ \A k \in 1..n : pipe'[l + k] = [msg |-> m, at |-> from + k]
    BY <1>0, WriteFacts
  <1>2. \A i \in 1..l : pipe[i].msg.type = "info" => pipe[i].msg = Info(pipe[i].msg.file)
    BY DEF Types, Announced
  <1> HIDE DEF l
  <1>3. ASSUME NEW i \in 1..Len(pipe') PROVE i \in 1..l \/ pipe'[i].msg = m
    <2> DEFINE k == i - l
    <2>1. i \in 1..l \/ (k \in 1..n /\ i = l + k)
      BY <1>0, <1>1
    <2> HIDE DEF k
    <2>2. ASSUME k \in 1..n, i = l + k PROVE pipe'[i].msg = m
      <3>1. pipe'[i] = [msg |-> m, at |-> from + k]
        BY <1>1, <2>2
      <3> QED
        BY <3>1
    <2> QED
      BY <2>1, <2>2
  <1>4. ASSUME NEW i \in 1..Len(pipe'), pipe'[i].msg.type = "info"
        PROVE  pipe'[i].msg = Info(pipe'[i].msg.file)
    BY <1>1, <1>2, <1>3, <1>4
  <1> QED
    BY <1>1, <1>4

LEMMA ParentTypes ==
    ASSUME Types, Parent
    PROVE  Types'
  <1> USE Bounds
  <1>d. disk' = disk /\ Messages' = Messages /\ Cell' = Cell
    <2>1. disk' = disk
      BY DEF Parent, Fork, ParentOpen, ReadReady, SkipMissing, SendInfo, SendHeader, SendBytes,
             FileSent, SendDone, CloseEnds, WaitChild, BrokenPipe
    <2> QED
      BY <2>1 DEF Messages, Cell, Done, Msg
  <1>1. CASE Fork
    BY <1>1, <1>d DEF Types, TypeOK, Creatable, Fork, Announced, Info, Msg
  <1>2. CASE ParentOpen
    BY <1>2, <1>d DEF Types, TypeOK, Creatable, ParentOpen, Announced, Info, Msg, childVars
  <1>3. CASE ReadReady
    BY <1>3, <1>d DEF Types, TypeOK, Creatable, ReadReady, Announced, Info, Msg, childVars
  <1>4. CASE SkipMissing
    BY <1>4, <1>d DEF Types, TypeOK, Creatable, SkipMissing, Announced, Info, Msg, childVars
  <1>5. CASE SendInfo
    <2>1. file \in F /\ disk[file].exists
      BY <1>5 DEF SendInfo, F, Types, TypeOK
    <2>2. Info(file) \in Messages /\ Info(file).file = file
      BY <2>1, DiskFacts, ToIntFacts DEF Info, Msg, Messages
    <2>3. Write(Cells(Info(file), 0, Header))
      BY <1>5 DEF SendInfo, WriteMsg, Info
    <2>4. /\ pipe' \in Seq(Cell) /\ Len(pipe') <= PipeCap
          /\ \A i \in 1..Len(pipe') :
                pipe'[i].msg.type = "info" => pipe'[i].msg = Info(pipe'[i].msg.file)
      BY <2>2, <2>3, WriteTypes
    <2> QED
      BY <1>5, <1>d, <2>1, <2>4, DiskFacts DEF Types, TypeOK, Creatable, SendInfo, Announced, Info, Msg, childVars
  <1>6. CASE SendHeader
    <2>1. file \in F /\ disk[file].exists /\ Block \in 1..Chunk
      BY <1>6, BlockFacts DEF SendHeader
    <2>2. Msg("data", file, Block) \in Messages /\ Msg("data", file, Block).type = "data"
      BY <2>1 DEF Msg, Messages
    <2>3. Write(Cells(Msg("data", file, Block), 0, Header))
      BY <1>6 DEF SendHeader, WriteMsg
    <2>4. /\ pipe' \in Seq(Cell) /\ Len(pipe') <= PipeCap
          /\ \A i \in 1..Len(pipe') :
                pipe'[i].msg.type = "info" => pipe'[i].msg = Info(pipe'[i].msg.file)
      BY <2>2, <2>3, WriteTypes
    <2>5. Block' = Block
      BY <1>6 DEF SendHeader, Block
    <2> QED
      BY <1>6, <1>d, <2>1, <2>4, <2>5 DEF Types, TypeOK, Creatable, SendHeader, Announced, Info, Msg, childVars
  <1>7. CASE SendBytes
    <2>1. /\ file \in F /\ disk[file].exists /\ sent \in Nat /\ Block \in 0..Chunk
          /\ sent + Block <= disk[file].length
      BY <1>7, BlockFacts DEF SendBytes
    <2>2. Msg("bytes", file, 0) \in Messages /\ Msg("bytes", file, 0).type = "bytes"
      BY <2>1 DEF Msg, Messages
    <2>3. Write(Cells(Msg("bytes", file, 0), sent, Block))
      BY <1>7 DEF SendBytes, Bytes
    <2>4. /\ pipe' \in Seq(Cell) /\ Len(pipe') <= PipeCap
          /\ \A i \in 1..Len(pipe') :
                pipe'[i].msg.type = "info" => pipe'[i].msg = Info(pipe'[i].msg.file)
      BY <2>1, <2>2, <2>3, WriteTypes
    <2>5. sent' = sent + Block /\ sent' \in 0..MaxLen /\ sent' <= disk[file].length
      BY <1>7, <2>1, DiskFacts DEF SendBytes
    <2> QED
      BY <1>7, <1>d, <2>1, <2>4, <2>5 DEF Types, TypeOK, Creatable, SendBytes, Announced, Info, Msg, childVars
  <1>8. CASE FileSent
    <2>1. file \in F
      BY <1>8 DEF Types, FileSent
    <2> QED
      BY <1>8, <1>d, <2>1 DEF Types, TypeOK, Creatable, FileSent, Announced, Info, Msg, childVars, F
  <1>9. CASE SendDone
    <2>1. Done \in Messages /\ Done.type = "done"
      BY DEF Done, Msg, Messages
    <2>2. Write(Cells(Done, 0, Header))
      BY <1>9 DEF SendDone, WriteMsg, Done
    <2>3. /\ pipe' \in Seq(Cell) /\ Len(pipe') <= PipeCap
          /\ \A i \in 1..Len(pipe') :
                pipe'[i].msg.type = "info" => pipe'[i].msg = Info(pipe'[i].msg.file)
      BY <2>1, <2>2, WriteTypes
    <2> QED
      BY <1>9, <1>d, <2>3 DEF Types, TypeOK, Creatable, SendDone, Announced, Info, Msg, childVars
  <1>10. CASE CloseEnds
    BY <1>10, <1>d DEF Types, TypeOK, Creatable, CloseEnds, Announced, Info, Msg, childVars
  <1>11. CASE WaitChild
    BY <1>11, <1>d DEF Types, TypeOK, Creatable, WaitChild, Announced, Info, Msg, childVars
  <1>12. CASE BrokenPipe
    BY <1>12, <1>d DEF Types, TypeOK, Creatable, BrokenPipe, Announced, Info, Msg, childVars
  <1> QED
    BY <1>1, <1>2, <1>3, <1>4, <1>5, <1>6, <1>7, <1>8, <1>9, <1>10, <1>11, <1>12 DEF Parent

LEMMA TakeTypes ==
    ASSUME Types, NEW n \in Nat \ {0}, Take(n)
    PROVE  /\ pipe' \in Seq(Cell) /\ Len(pipe') <= PipeCap /\ pipe # <<>>
           /\ \A i \in 1..Len(pipe') :
                 pipe'[i].msg.type = "info" => pipe'[i].msg = Info(pipe'[i].msg.file)
           /\ Got(n) \in Seq(Cell) /\ Len(Got(n)) \in Nat
  <1> DEFINE l == Len(pipe)
             k == Min2(n, l)
  <1>0. pipe \in Seq(Cell) /\ l \in Nat /\ l <= PipeCap
    BY DEF Types, TypeOK
  <1>1. /\ k \in 1..l /\ pipe' \in Seq(Cell) /\ Len(pipe') = l - k
        /\ \A i \in 1..l - k : pipe'[i] = pipe[i + k]
        /\ Got(n) \in Seq(Cell) /\ Len(Got(n)) = k
    BY <1>0, TakeFacts
  <1>2. \A i \in 1..l : pipe[i].msg.type = "info" => pipe[i].msg = Info(pipe[i].msg.file)
    BY DEF Types, Announced
  <1>3. pipe # <<>>
    BY DEF Take
  <1> HIDE DEF l, k
  <1>4. ASSUME NEW i \in 1..Len(pipe'), pipe'[i].msg.type = "info"
        PROVE  pipe'[i].msg = Info(pipe'[i].msg.file)
    <2> DEFINE j == i + k
    <2>1. j \in 1..l /\ pipe'[i] = pipe[j]
      BY <1>0, <1>1
    <2> HIDE DEF j
    <2> QED
      BY <1>2, <1>4, <2>1
  <1> QED
    BY <1>0, <1>1, <1>3, <1>4, Bounds

LEMMA ChildTypes ==
    ASSUME Types, Child
    PROVE  Types'
  <1> USE Bounds
  <1>d. /\ disk' = disk /\ Messages' = Messages /\ Cell' = Cell
        /\ UNCHANGED <<named, names, ppc, file, sent>> /\ Block' = Block
    BY DEF Child, ChildOpen, Greet, CreateCopy, Unknown, CopyHeader, CopyBytes, CopyDone,
           ChildDone, ChildEof, Messages, Cell, Done, Msg, parentVars, Block
  <1>1. CASE ChildOpen \/ Greet
    BY <1>1, <1>d DEF Types, TypeOK, Creatable, ChildOpen, Greet, Announced, Info, Msg
  <1>2. CASE CreateCopy
    <2>1. /\ pipe' \in Seq(Cell) /\ Len(pipe') <= PipeCap /\ pipe # <<>>
          /\ \A i \in 1..Len(pipe') :
                pipe'[i].msg.type = "info" => pipe'[i].msg = Info(pipe'[i].msg.file)
      BY <1>2, TakeTypes DEF CreateCopy
    <2>2. PICK m \in Received :
             /\ m.type = "info"
             /\ IF Creatable(m.file)
                THEN /\ copy' = [copy EXCEPT ![m.file] = <<>>]
                     /\ cur' = m.file /\ total' = m.length /\ got' = 0
                     /\ cpc' = "copy"
                ELSE UNCHANGED <<copy, cur, total, got, cpc>>
      BY <1>2 DEF CreateCopy
    <2>3. /\ m.file \in F \cup {0} /\ m.length \in -IntLimit..IntLimit - 1
          /\ (m.file \in F /\ disk[m.file].exists) \/ m.file \in Odd
      BY <2>1, <2>2, Understood
    <2>4. CASE Creatable(m.file)
      <3>1. PICK f : f = m.file
        OBVIOUS
      <3>2. /\ copy' = [copy EXCEPT ![f] = <<>>] /\ cur' = f /\ total' = m.length /\ got' = 0
            /\ cpc' = "copy" /\ UNCHANGED <<want, ack>>
        BY <1>2, <2>2, <2>4, <3>1 DEF CreateCopy
      <3>3. /\ copy' \in [F \cup {0} -> Seq(Cell)]
            /\ \A g \in F \ Odd : ~disk[g].exists => copy'[g] = <<>>
        <4>1. <<>> \in Seq(Cell)
          OBVIOUS
        <4>2. copy \in [F \cup {0} -> Seq(Cell)]
          BY DEF Types
        <4>3. copy' \in [F \cup {0} -> Seq(Cell)]
          BY <3>2, <4>1, <4>2
        <4>4. ASSUME NEW g \in F \ Odd, ~disk[g].exists PROVE copy'[g] = <<>>
          <5>1. copy[g] = <<>>
            BY <4>4 DEF Types
          <5> QED
            BY <3>2, <4>2, <5>1
        <4> QED
          BY <4>3, <4>4
      <3>4. f \in 0..Files /\ Creatable(f)' /\ total' \in -IntLimit..IntLimit - 1
        BY <1>d, <2>3, <2>4, <3>1, <3>2 DEF F, Creatable
      <3>5. f \in Odd \/ (f \in F /\ disk[f].exists)
        BY <2>3, <3>1
      <3>6. TypeOK'
        BY <1>d, <2>1, <3>2, <3>4 DEF Types, TypeOK
      <3> QED
        BY <1>d, <2>1, <3>2, <3>3, <3>5, <3>6 DEF Types, Announced, Info, Msg
    <2>5. CASE ~Creatable(m.file)
      <3>1. UNCHANGED <<copy, cur, total, got, cpc, want, ack>>
        BY <1>2, <2>2, <2>5 DEF CreateCopy
      <3>2. TypeOK'
        BY <1>d, <2>1, <3>1 DEF Types, TypeOK, Creatable
      <3> QED
        BY <1>d, <2>1, <3>1, <3>2 DEF Types, Announced, Info, Msg
    <2> QED
      BY <2>4, <2>5
  <1>3. CASE Unknown
    <2>1. /\ pipe' \in Seq(Cell) /\ Len(pipe') <= PipeCap /\ pipe # <<>>
          /\ \A i \in 1..Len(pipe') :
                pipe'[i].msg.type = "info" => pipe'[i].msg = Info(pipe'[i].msg.file)
      BY <1>3, TakeTypes DEF Unknown
    <2> QED
      <3>1. TypeOK'
        BY <1>3, <1>d, <2>1 DEF Types, TypeOK, Creatable, Unknown, childVars
      <3> QED
        BY <1>3, <1>d, <2>1, <3>1 DEF Types, Unknown, Announced, Info, Msg, childVars
  <1>4. CASE CopyHeader
    <2>1. /\ pipe' \in Seq(Cell) /\ Len(pipe') <= PipeCap /\ pipe # <<>>
          /\ \A i \in 1..Len(pipe') :
                pipe'[i].msg.type = "info" => pipe'[i].msg = Info(pipe'[i].msg.file)
      BY <1>4, TakeTypes DEF CopyHeader
    <2>2. PICK m \in Received :
             IF m.type = "data" /\ m.length > 0 THEN want' = m.length /\ cpc' = "body"
                                               ELSE UNCHANGED <<want, cpc>>
      BY <1>4 DEF CopyHeader
    <2>3. \/ want' \in 1..Chunk /\ cpc' = "body"
          \/ UNCHANGED <<want, cpc>>
      BY <2>1, <2>2, Understood
    <2>4. cpc = "copy" /\ UNCHANGED <<cur, total, got, copy, ack>>
      BY <1>4 DEF CopyHeader
    <2> QED
      <3>1. TypeOK'
        BY <1>d, <2>1, <2>3, <2>4 DEF Types, TypeOK, Creatable
      <3> QED
        BY <1>d, <2>1, <2>3, <2>4, <3>1 DEF Types, Announced, Info, Msg
  <1>5. CASE CopyBytes
    <2>1. /\ want \in Nat \ {0} /\ cur \in F \cup {0} /\ got \in Nat
          /\ cur \in Odd \/ (cur \in F /\ disk[cur].exists)
      BY <1>5 DEF Types, TypeOK, CopyBytes, F
    <2>2. /\ pipe' \in Seq(Cell) /\ Len(pipe') <= PipeCap /\ pipe # <<>>
          /\ \A i \in 1..Len(pipe') :
                pipe'[i].msg.type = "info" => pipe'[i].msg = Info(pipe'[i].msg.file)
          /\ Got(want) \in Seq(Cell) /\ Len(Got(want)) \in Nat
      BY <1>5, <2>1, TakeTypes DEF CopyBytes
    <2>3. copy[cur] \o Got(want) \in Seq(Cell)
      BY <2>1, <2>2 DEF Types
    <2>4. copy' \in [F \cup {0} -> Seq(Cell)] /\ got' \in Nat
          /\ \A f \in F \ Odd : ~disk[f].exists => copy'[f] = <<>>
      BY <1>5, <2>1, <2>2, <2>3 DEF Types, CopyBytes
    <2> QED
      BY <1>5, <1>d, <2>1, <2>2, <2>4 DEF Types, TypeOK, Creatable, CopyBytes, Announced, Info, Msg
  <1>6. CASE CopyDone
    BY <1>6, <1>d DEF Types, TypeOK, Creatable, CopyDone, Announced, Info, Msg
  <1>7. CASE ChildDone
    <2>1. /\ pipe' \in Seq(Cell) /\ Len(pipe') <= PipeCap /\ pipe # <<>>
          /\ \A i \in 1..Len(pipe') :
                pipe'[i].msg.type = "info" => pipe'[i].msg = Info(pipe'[i].msg.file)
      BY <1>7, TakeTypes DEF ChildDone
    <2> QED
      BY <1>7, <1>d, <2>1 DEF Types, TypeOK, Creatable, ChildDone, Announced, Info, Msg
  <1>8. CASE ChildEof
    BY <1>8, <1>d DEF Types, TypeOK, Creatable, ChildEof, Announced, Info, Msg
  <1> QED
    BY <1>1, <1>2, <1>3, <1>4, <1>5, <1>6, <1>7, <1>8 DEF Child
-----------------------------------------------------------------------------
(* What a read leaves: the first s cells are gone.                         *)
Taken(s) ==
    /\ UNCHANGED <<disk, ppc, file, sent>>
    /\ s \in 0..Len(pipe)
    /\ Len(pipe') = Len(pipe) - s
    /\ \A i \in 1..Len(pipe) - s : pipe'[i] = pipe[i + s]

LEMMA ShiftHeader ==
    ASSUME Types, NEW s, Taken(s), NEW i \in Nat, NEW m
    PROVE  HeaderAfter(i, m)' <=> HeaderAfter(i + s, m)
  <1> DEFINE l == Len(pipe)
             l1 == Len(pipe')
  <1>1. l \in Nat /\ Header \in Nat /\ s \in 0..l /\ l1 = l - s /\ \A j \in 1..l1 : pipe'[j] = pipe[j + s]
    BY Bounds DEF Types, Taken
  <1>2. HeaderAfter(i, m)' <=> i + Header <= l1 /\ \A j \in 1..Header : pipe'[i + j] = [msg |-> m, at |-> j]
    BY DEF HeaderAfter
  <1>3. HeaderAfter(i + s, m) <=>
           i + s + Header <= l /\ \A j \in 1..Header : pipe[i + s + j] = [msg |-> m, at |-> j]
    BY DEF HeaderAfter
  <1> HIDE DEF l, l1
  <1>4. i + Header <= l1 <=> i + s + Header <= l
    BY <1>1
  <1>5. ASSUME i + Header <= l1, NEW j \in 1..Header PROVE pipe'[i + j] = pipe[i + s + j]
    <2> DEFINE a == i + j
    <2>1. a \in 1..l1 /\ i + s + j = a + s
      BY <1>1, <1>5
    <2> HIDE DEF a
    <2>2. pipe'[a] = pipe[i + s + j]
      BY <1>1, <2>1
    <2> QED
      BY <2>2 DEF a
  <1> QED
    BY <1>2, <1>3, <1>4, <1>5

LEMMA ShiftBytes ==
    ASSUME Types, NEW s, Taken(s), NEW i \in Nat, NEW f, NEW k, NEW n \in Nat
    PROVE  BytesAfter(i, f, k, n)' <=> BytesAfter(i + s, f, k, n)
  <1> DEFINE l == Len(pipe)
             l1 == Len(pipe')
  <1>1. l \in Nat /\ s \in 0..l /\ l1 = l - s /\ \A j \in 1..l1 : pipe'[j] = pipe[j + s]
    BY Bounds DEF Types, Taken
  <1>2. BytesAfter(i, f, k, n)' <=> i + n <= l1 /\ \A j \in 1..n : pipe'[i + j] = Byte(f, k + j)
    BY DEF BytesAfter, Byte, Msg
  <1>3. BytesAfter(i + s, f, k, n) <=>
           i + s + n <= l /\ \A j \in 1..n : pipe[i + s + j] = Byte(f, k + j)
    BY DEF BytesAfter
  <1> HIDE DEF l, l1
  <1>4. i + n <= l1 <=> i + s + n <= l
    BY <1>1
  <1>5. ASSUME i + n <= l1, NEW j \in 1..n PROVE pipe'[i + j] = pipe[i + s + j]
    <2> DEFINE a == i + j
    <2>1. a \in 1..l1 /\ i + s + j = a + s
      BY <1>1, <1>5
    <2> HIDE DEF a
    <2>2. pipe'[a] = pipe[i + s + j]
      BY <1>1, <2>1
    <2> QED
      BY <2>2 DEF a
  <1> QED
    BY <1>2, <1>3, <1>4, <1>5

LEMMA ShiftFile ==
    ASSUME Types, NEW s, Taken(s), NEW i \in Nat, NEW f
    PROVE  FileAfter(i, f)' <=> FileAfter(i + s, f)
  <1>1. UNCHANGED <<disk, ppc, file, sent>> /\ (i = Len(pipe') <=> i + s = Len(pipe))
    BY DEF Types, Taken
  <1>2. \A m : HeaderAfter(i, m)' <=> HeaderAfter(i + s, m)
    BY ShiftHeader
  <1>3. \A g : Info(g)' = Info(g)
    BY <1>1 DEF Info, Msg
  <1>4. Done' = Done
    BY DEF Done, Msg
  <1>5. \A g : HeaderAfter(i, Info(g))' <=> HeaderAfter(i + s, Info(g))
    BY <1>2, <1>3 DEF HeaderAfter
  <1>6. HeaderAfter(i, Done)' <=> HeaderAfter(i + s, Done)
    BY <1>2, <1>4 DEF HeaderAfter
  <1> QED
    BY <1>1, <1>5, <1>6 DEF FileAfter

LEMMA ShiftBlock ==
    ASSUME Types, NEW s, Taken(s), NEW i \in Nat, NEW f \in F, NEW k \in Nat, k <= disk[f].length
    PROVE  /\ Whole(i, f, k)' <=> Whole(i + s, f, k)
           /\ BlockAfter(i, f, k)' <=> BlockAfter(i + s, f, k)
  <1> DEFINE m == Msg("data", f, Size(f, k))
  <1>1. UNCHANGED <<disk, ppc, file, sent>> /\ (i = Len(pipe') <=> i + s = Len(pipe)) /\ s \in Nat
        /\ (i + Header = Len(pipe') <=> i + s + Header = Len(pipe))
    BY Bounds DEF Types, Taken
  <1>2. Size(f, k)' = Size(f, k) /\ m' = m /\ Size(f, k) \in Nat
    BY <1>1, SizeFacts DEF Size, Msg
  <1>3. HeaderAfter(i, m)' <=> HeaderAfter(i + s, m)
    <2>1. \A x : HeaderAfter(i, x)' <=> HeaderAfter(i + s, x)
      BY ShiftHeader
    <2> QED
      BY <1>2, <2>1 DEF HeaderAfter
  <1>4. BytesAfter(i + Header, f, k, Size(f, k))' <=> BytesAfter(i + s + Header, f, k, Size(f, k))
    <2>1. i + Header \in Nat /\ (i + Header) + s = i + s + Header
      BY <1>1, Bounds
    <2>2. \A n \in Nat : BytesAfter(i + Header, f, k, n)' <=> BytesAfter(i + Header + s, f, k, n)
      BY <2>1, ShiftBytes
    <2> QED
      BY <1>2, <2>1, <2>2 DEF BytesAfter
  <1>5. FileAfter(i, f)' <=> FileAfter(i + s, f)
    BY ShiftFile
  <1> QED
    BY <1>1, <1>2, <1>3, <1>4, <1>5 DEF Whole, BlockAfter

LEMMA TakeIsTaken ==
    ASSUME Types, NEW n \in Nat \ {0}, Take(n), UNCHANGED <<disk, ppc, file, sent>>
    PROVE  Taken(Min2(n, Len(pipe))) /\ pipe # <<>>
  <1>1. pipe \in Seq(Cell)
    BY DEF Types
  <1>2. pipe # <<>>
    BY DEF Take
  <1> QED
    BY <1>1, <1>2, TakeFacts DEF Taken

LEMMA NothingTaken ==
    ASSUME Types, UNCHANGED <<disk, ppc, file, sent, pipe>>
    PROVE  Taken(0)
  <1>1. pipe \in Seq(Cell) /\ Len(pipe) \in Nat
    BY DEF Types
  <1>2. \A i \in 1..Len(pipe) - 0 : i + 0 = i
    BY <1>1
  <1> QED
    BY <1>1, <1>2 DEF Taken

LEMMA ChildTakes ==
    ASSUME Types, Child
    PROVE  \E s : Taken(s)
  <1>1. UNCHANGED <<disk, ppc, file, sent>>
    BY DEF Child, ChildOpen, Greet, CreateCopy, Unknown, CopyHeader, CopyBytes, CopyDone,
           ChildDone, ChildEof, parentVars
  <1>2. Header \in Nat \ {0} /\ (cpc = "body" => want \in Nat \ {0})
    BY Bounds DEF Types, TypeOK
  <1>3. CASE Take(Header)
    BY <1>1, <1>2, <1>3, TakeIsTaken
  <1>4. CASE cpc = "body" /\ Take(want)
    BY <1>1, <1>2, <1>4, TakeIsTaken
  <1>5. CASE UNCHANGED pipe
    BY <1>1, <1>5, NothingTaken
  <1> QED
    BY <1>3, <1>4, <1>5
       DEF Child, ChildOpen, Greet, CreateCopy, Unknown, CopyHeader, CopyBytes, CopyDone,
           ChildDone, ChildEof

LEMMA StreamTaken ==
    ASSUME Types, StreamInv, InfoOrder, NEW s, Taken(s)
    PROVE  StreamInv' /\ InfoOrder'
  <1> DEFINE l == Len(pipe)
             l1 == Len(pipe')
  <1>1. /\ l \in Nat /\ s \in 0..l /\ l1 = l - s /\ \A j \in 1..l1 : pipe'[j] = pipe[j + s]
        /\ UNCHANGED <<disk, ppc, file, sent>>
    BY DEF Types, Taken
  <1>2. Header \in Nat /\ Chunk \in Nat /\ Header > 0
    BY Bounds
  <1>3. ASSUME NEW i \in 1..l1, pipe'[i].msg.type # "bytes", pipe'[i].at = 1
        PROVE  HeaderAfter(i - 1, pipe[i].msg)'
    <2> DEFINE a == i + s
               b == i - 1
    <2>1. a \in 1..l /\ pipe'[i] = pipe[a] /\ b \in Nat /\ b + s = a - 1
      BY <1>1
    <2>2. HeaderAfter(a - 1, pipe[a].msg)
      <3> HIDE DEF a
      <3> QED
        BY <1>3, <2>1 DEF StreamInv
    <2> DEFINE m == pipe'[i].msg
    <2>3. m = pipe[a].msg
      BY <2>1
    <2> HIDE DEF a, b, m
    <2>4. HeaderAfter(b + s, m)
      BY <2>1, <2>2, <2>3
    <2>5. \A x : HeaderAfter(b, x)' <=> HeaderAfter(b + s, x)
      BY <2>1, ShiftHeader
    <2>6. b + Header <= l1 /\ \A j \in 1..Header : pipe'[b + j] = [msg |-> m, at |-> j]
      BY <2>4, <2>5 DEF HeaderAfter
    <2>7. i - 1 + Header <= l1 /\ \A j \in 1..Header : pipe'[i - 1 + j] = [msg |-> pipe'[i].msg, at |-> j]
      BY <2>6 DEF m, b
    <2> QED
      BY <2>7 DEF HeaderAfter
  <1>4. ASSUME NEW i \in 0..l1, NEW f \in F, HeaderAfter(i, Info(f))'
        PROVE  BlockAfter(i + Header, f, 0)'
    <2> DEFINE a == i + s
               b == i + Header
    <2>1. a \in 0..l /\ i \in Nat /\ b \in Nat /\ b + s = a + Header
      BY <1>1, <1>2
    <2>2. Info(f)' = Info(f)
      BY <1>1 DEF Info, Msg
    <2>3. HeaderAfter(a, Info(f))
      <3>1. \A x : HeaderAfter(i, x)' <=> HeaderAfter(i + s, x)
        BY <2>1, ShiftHeader
      <3> QED
        BY <1>4, <2>2, <3>1 DEF HeaderAfter
    <2> HIDE DEF a
    <2>4. BlockAfter(a + Header, f, 0)
      BY <2>1, <2>3 DEF StreamInv
    <2> HIDE DEF b
    <2>5. BlockAfter(b + s, f, 0)
      BY <2>1, <2>4
    <2>6. 0 \in Nat /\ 0 <= disk[f].length
      BY DiskFacts
    <2>7. BlockAfter(b, f, 0)'
      BY <2>1, <2>5, <2>6, ShiftBlock
    <2> QED
      BY <2>7 DEF b
  <1>5. ASSUME NEW i \in 0..l1, NEW f \in F, NEW n \in 1..Chunk, HeaderAfter(i, Msg("data", f, n))'
        PROVE  \/ i + Header = l1 /\ ppc' = "bytes" /\ file' = f /\ n = Block'
               \/ \E k \in 0..disk'[f].length :
                     n = Size(f, k)' /\ Whole(i, f, k)' /\ BlockAfter(i + Header + n, f, k + n)'
    <2> DEFINE a == i + s
               b == i + Header + n
               m == Msg("data", f, n)
    <2>1. a \in 0..l /\ i \in Nat /\ b \in Nat /\ b + s = a + Header + n
          /\ (a + Header = l => i + Header = l1) /\ n \in Nat
      BY <1>1, <1>2
    <2>2. m' = m
      BY DEF Msg
    <2>3. HeaderAfter(a, m)
      <3>1. \A x : HeaderAfter(i, x)' <=> HeaderAfter(i + s, x)
        BY <2>1, ShiftHeader
      <3> QED
        BY <1>5, <2>2, <3>1 DEF HeaderAfter
    <2> HIDE DEF a
    <2>4. \/ a + Header = l /\ ppc = "bytes" /\ file = f /\ n = Block
          \/ \E k \in 0..disk[f].length :
                n = Size(f, k) /\ Whole(a, f, k) /\ BlockAfter(a + Header + n, f, k + n)
      BY <1>5, <2>1, <2>3 DEF StreamInv
    <2>5. Block' = Block
      BY <1>1 DEF Block
    <2>6. ASSUME NEW k \in 0..disk[f].length, n = Size(f, k), Whole(a, f, k),
                 BlockAfter(a + Header + n, f, k + n)
          PROVE  n = Size(f, k)' /\ Whole(i, f, k)' /\ BlockAfter(i + Header + n, f, k + n)'
      <3>1. k \in Nat /\ k <= disk[f].length /\ k + n \in Nat /\ k + n <= disk[f].length
        BY <2>1, <2>6, SizeFacts, DiskFacts
      <3>2. Whole(i, f, k)'
        <4>1. Whole(i + s, f, k)
          BY <2>6 DEF a
        <4> QED
          BY <2>1, <3>1, <4>1, ShiftBlock
      <3>3. BlockAfter(b, f, k + n)'
        <4> DEFINE c == k + n
        <4> HIDE DEF b
        <4>1. BlockAfter(b + s, f, c)
          BY <2>1, <2>6
        <4>2. c \in Nat /\ c <= disk[f].length
          BY <3>1
        <4> HIDE DEF c
        <4>3. BlockAfter(b, f, c)'
          BY <2>1, <4>1, <4>2, ShiftBlock
        <4> QED
          BY <4>3 DEF c
      <3>4. n = Size(f, k)'
        BY <1>1, <2>6 DEF Size
      <3> QED
        BY <3>2, <3>3, <3>4
    <2> QED
      BY <1>1, <2>1, <2>4, <2>5, <2>6
  <1>6. StreamInv'
    BY <1>3, <1>4, <1>5 DEF StreamInv
  <1>7. ASSUME NEW i \in 1..l1 PROVE i + s \in 1..l /\ pipe'[i] = pipe[i + s]
    BY <1>1
  <1>8. ASSUME NEW i \in 1..l1, NEW j \in 1..l1, i < j, Announced(i)', Announced(j)'
        PROVE  pipe'[i].msg.file <= pipe'[j].msg.file
    <2> DEFINE a == i + s
               b == j + s
    <2>1. /\ a \in 1..l /\ pipe'[i] = pipe[a]
          /\ b \in 1..l /\ pipe'[j] = pipe[b]
      BY <1>7
    <2>2. a < b
      BY <1>1, <1>8
    <2> HIDE DEF a, b
    <2> QED
      BY <1>8, <2>1, <2>2 DEF InfoOrder, Announced
  <1>9. ASSUME NEW i \in 1..l1, Announced(i)'
        PROVE  pipe'[i].msg.file <= file' /\ (ppc' = "file" => pipe'[i].msg.file < file')
    <2> DEFINE a == i + s
    <2>1. a \in 1..l /\ pipe'[i] = pipe[a]
      BY <1>7
    <2> HIDE DEF a
    <2> QED
      BY <1>1, <1>9, <2>1 DEF InfoOrder, Announced
  <1> QED
    BY <1>6, <1>8, <1>9 DEF InfoOrder
-----------------------------------------------------------------------------
(* What a write leaves: the cells that were there, and new ones behind.    *)
Longer ==
    /\ disk' = disk
    /\ Len(pipe') \in Nat /\ Len(pipe) <= Len(pipe')
    /\ \A i \in 1..Len(pipe) : pipe'[i] = pipe[i]

LEMMA GrowHeader ==
    ASSUME Types, Longer, NEW i \in Nat, NEW m, HeaderAfter(i, m)
    PROVE  HeaderAfter(i, m)'
  <1> DEFINE l == Len(pipe)
             l1 == Len(pipe')
  <1>1. l \in Nat /\ l1 \in Nat /\ l <= l1 /\ Header \in Nat /\ \A j \in 1..l : pipe'[j] = pipe[j]
    BY Bounds DEF Types, Longer
  <1>2. i + Header <= l /\ \A j \in 1..Header : pipe[i + j] = [msg |-> m, at |-> j]
    BY DEF HeaderAfter
  <1> HIDE DEF l, l1
  <1>3. ASSUME NEW j \in 1..Header PROVE pipe'[i + j] = [msg |-> m, at |-> j]
    <2>1. i + j \in 1..l
      BY <1>1, <1>2
    <2> QED
      BY <1>1, <1>2, <2>1
  <1>4. i + Header <= l1
    BY <1>1, <1>2
  <1> QED
    BY <1>3, <1>4 DEF HeaderAfter, l1

LEMMA GrowBytes ==
    ASSUME Types, Longer, NEW i \in Nat, NEW f, NEW k, NEW n \in Nat, BytesAfter(i, f, k, n)
    PROVE  BytesAfter(i, f, k, n)'
  <1> DEFINE l == Len(pipe)
             l1 == Len(pipe')
  <1>1. l \in Nat /\ l1 \in Nat /\ l <= l1 /\ \A j \in 1..l : pipe'[j] = pipe[j]
    BY DEF Types, Longer
  <1>2. i + n <= l /\ \A j \in 1..n : pipe[i + j] = Byte(f, k + j)
    BY DEF BytesAfter
  <1> HIDE DEF l, l1
  <1>3. ASSUME NEW j \in 1..n PROVE pipe'[i + j] = Byte(f, k + j)
    <2>1. i + j \in 1..l
      BY <1>1, <1>2
    <2> QED
      BY <1>1, <1>2, <2>1
  <1>4. i + n <= l1
    BY <1>1, <1>2
  <1> QED
    BY <1>3, <1>4 DEF BytesAfter, Byte, Msg, l1

LEMMA GrowWhole ==
    ASSUME Types, Longer, NEW i \in Nat, NEW f \in F, NEW k \in Nat, Whole(i, f, k)
    PROVE  Whole(i, f, k)'
  <1> DEFINE m == Msg("data", f, Size(f, k))
             a == i + Header
  <1>1. /\ k < disk[f].length /\ HeaderAfter(i, m) /\ BytesAfter(a, f, k, Size(f, k))
    BY DEF Whole
  <1>2. disk' = disk /\ Size(f, k)' = Size(f, k) /\ m' = m /\ Size(f, k) \in Nat /\ a \in Nat
    <2>1. k <= disk[f].length
      BY <1>1, DiskFacts
    <2>2. Size(f, k) \in Nat /\ a \in Nat
      BY <2>1, SizeFacts, Bounds
    <2> QED
      BY <2>2 DEF Longer, Size, Msg
  <1> DEFINE n == Size(f, k)
  <1>3. n \in Nat /\ n' = n
    BY <1>2
  <1>4. HeaderAfter(i, m)'
    <2>1. \A x : HeaderAfter(i, x) => HeaderAfter(i, x)'
      BY GrowHeader
    <2> QED
      BY <1>1, <1>2, <2>1 DEF HeaderAfter
  <1>5. BytesAfter(a, f, k, n)'
    <2>1. \A x \in Nat : BytesAfter(a, f, k, x) => BytesAfter(a, f, k, x)'
      <3> HIDE DEF a
      <3> QED
        BY <1>2, GrowBytes
    <2> QED
      BY <1>1, <1>3, <2>1 DEF BytesAfter
  <1> QED
    BY <1>1, <1>2, <1>4, <1>5 DEF Whole

(* The three kinds of write.                                               *)
LEMMA MessageAdded ==
    ASSUME Types, disk' = disk, NEW m \in Messages, Write(Cells(m, 0, Header)),
           NEW l, l = Len(pipe)
    PROVE  /\ Longer /\ Len(pipe') = l + Header /\ HeaderAfter(l, m)'
           /\ \A i \in l + 1..Len(pipe') : pipe'[i] = [msg |-> m, at |-> i - l]
  <1>1. /\ pipe \in Seq(Cell) /\ l \in Nat /\ Header \in Nat
    BY Bounds DEF Types
  <1>2. /\ pipe' \in Seq(Cell) /\ Len(pipe') = l + Header
        /\ \A i \in 1..l : pipe'[i] = pipe[i]
        /\ \A k \in 1..Header : pipe'[l + k] = [msg |-> m, at |-> 0 + k]
    BY <1>1, WriteFacts
  <1>3. Longer
    BY <1>1, <1>2 DEF Longer
  <1>4. HeaderAfter(l, m)'
    BY <1>1, <1>2 DEF HeaderAfter
  <1>5. ASSUME NEW i \in l + 1..Len(pipe') PROVE pipe'[i] = [msg |-> m, at |-> i - l]
    <2> DEFINE k == i - l
    <2>1. k \in 1..Header /\ i = l + k /\ 0 + k = k
      BY <1>1, <1>2
    <2> HIDE DEF k
    <2>2. pipe'[i] = [msg |-> m, at |-> k]
      BY <1>2, <2>1
    <2> QED
      BY <2>2 DEF k
  <1> QED
    BY <1>2, <1>3, <1>4, <1>5

LEMMA BytesAdded ==
    ASSUME Types, disk' = disk, NEW f \in F, NEW k \in Nat, NEW n \in Nat, Write(Bytes(f, k, n)),
           NEW l, l = Len(pipe)
    PROVE  /\ Longer /\ Len(pipe') = l + n /\ BytesAfter(l, f, k, n)'
           /\ \A i \in l + 1..Len(pipe') : pipe'[i].msg.type = "bytes"
  <1> DEFINE m == Msg("bytes", f, 0)
  <1>1. /\ pipe \in Seq(Cell) /\ l \in Nat /\ m \in Messages /\ m.type = "bytes"
    <2>1. m \in Messages /\ m.type = "bytes"
      BY DEF Msg, Messages
    <2>2. pipe \in Seq(Cell)
      BY DEF Types
    <2> QED
      BY <2>1, <2>2
  <1>a. Write(Cells(m, k, n))
    BY DEF Bytes
  <1> HIDE DEF m
  <1>2. /\ pipe' \in Seq(Cell) /\ Len(pipe') = l + n
        /\ \A i \in 1..l : pipe'[i] = pipe[i]
        /\ \A j \in 1..n : pipe'[l + j] = [msg |-> m, at |-> k + j]
    BY <1>1, <1>a, WriteFacts
  <1>3. Longer
    BY <1>1, <1>2 DEF Longer
  <1>4. BytesAfter(l, f, k, n)'
    <2>1. \A j \in 1..n : pipe'[l + j] = Byte(f, k + j)
      BY <1>2 DEF Byte, m
    <2>2. l + n <= Len(pipe')
      BY <1>1, <1>2
    <2> QED
      BY <2>1, <2>2 DEF BytesAfter, Byte, Msg
  <1>5. ASSUME NEW i \in l + 1..Len(pipe') PROVE pipe'[i].msg.type = "bytes"
    <2> DEFINE j == i - l
    <2>1. j \in 1..n /\ i = l + j
      BY <1>1, <1>2
    <2> HIDE DEF j
    <2>2. pipe'[i] = [msg |-> m, at |-> k + j]
      BY <1>2, <2>1
    <2> QED
      BY <1>1, <2>2
  <1> QED
    BY <1>2, <1>3, <1>4, <1>5

LEMMA NothingAdded ==
    ASSUME Types, UNCHANGED <<disk, pipe>>
    PROVE  Longer
  BY DEF Types, Longer

(* A parent that has given up, its second FIFO being there already, has    *)
(* not written anything.                                                   *)
GivesUp == ppc = "create" /\ ppc' = "exited"

LEMMA ParentFrame ==
    ASSUME Types, Parent
    PROVE  /\ disk' = disk /\ Longer
           /\ UNCHANGED <<cur, total, got, want, copy>>
           /\ cpc' = cpc \/ (ppc = "create" /\ cpc = "none" /\ pipe = <<>> /\ UNCHANGED pipe)
  <1>1. disk' = disk /\ UNCHANGED <<cur, total, got, want, copy>>
    BY DEF Parent, Fork, ParentOpen, ReadReady, SkipMissing, SendInfo, SendHeader,
           SendBytes, FileSent, SendDone, CloseEnds, WaitChild, BrokenPipe, childVars
  <1>2. cpc' = cpc \/ (ppc = "create" /\ cpc = "none" /\ pipe = <<>> /\ UNCHANGED pipe)
    BY DEF Parent, Fork, ParentOpen, ReadReady, SkipMissing, SendInfo, SendHeader,
           SendBytes, FileSent, SendDone, CloseEnds, WaitChild, BrokenPipe, childVars, Types
  <1>3. CASE SendInfo
    <2>1. file \in F /\ disk[file].exists
      BY <1>3 DEF SendInfo, F, Types, TypeOK
    <2>2. Info(file) \in Messages
      BY <2>1, DiskFacts, ToIntFacts DEF Info, Msg, Messages
    <2>3. Write(Cells(Info(file), 0, Header))
      BY <1>3 DEF SendInfo, WriteMsg, Info
    <2> QED
      BY <1>1, <1>2, <2>2, <2>3, MessageAdded
  <1>4. CASE SendHeader
    <2>1. Msg("data", file, Block) \in Messages
      BY <1>4, BlockFacts DEF SendHeader, Msg, Messages
    <2>2. Write(Cells(Msg("data", file, Block), 0, Header))
      BY <1>4 DEF SendHeader, WriteMsg
    <2> QED
      BY <1>1, <1>2, <2>1, <2>2, MessageAdded
  <1>5. CASE SendBytes
    <2>1. file \in F /\ sent \in Nat /\ Block \in Nat /\ Write(Bytes(file, sent, Block))
      BY <1>5, BlockFacts DEF SendBytes
    <2> QED
      BY <1>1, <1>2, <2>1, BytesAdded
  <1>6. CASE SendDone
    <2>1. Done \in Messages /\ Write(Cells(Done, 0, Header))
      BY <1>6 DEF SendDone, WriteMsg, Done, Messages
    <2> QED
      BY <1>1, <1>2, <2>1, MessageAdded
  <1>7. CASE UNCHANGED pipe
    BY <1>1, <1>2, <1>7, NothingAdded
  <1> QED
    BY <1>3, <1>4, <1>5, <1>6, <1>7
       DEF Parent, Fork, ParentOpen, ReadReady, SkipMissing, FileSent, CloseEnds, WaitChild, BrokenPipe

LEMMA GrowFile ==
    ASSUME Types, Parent, ~GivesUp, cpc # "exited", NEW i \in Nat, NEW f \in 0..Files, FileAfter(i, f)
    PROVE  FileAfter(i, f)'
  <1> USE Bounds
  <1>1. disk' = disk /\ Longer /\ Len(pipe) \in Nat /\ Done' = Done
    BY ParentFrame DEF Types, Done, Msg
  <1>2. \A g : Info(g)' = Info(g)
    BY <1>1 DEF Info, Msg
  <1>3. \A m : HeaderAfter(i, m) => HeaderAfter(i, m)'
    BY <1>1, GrowHeader
  <1>4. ASSUME NEW g \in f + 1..Files, disk[g].exists, \A h \in f + 1..g - 1 : ~disk[h].exists,
               HeaderAfter(i, Info(g)) \/ HeaderAfter(i, Info(g))'
        PROVE  FileAfter(i, f)'
    <2>1. HeaderAfter(i, Info(g))'
      BY <1>2, <1>3, <1>4 DEF HeaderAfter
    <2> QED
      BY <1>1, <1>4, <2>1 DEF FileAfter
  <1>5. ASSUME \A g \in f + 1..Files : ~disk[g].exists, HeaderAfter(i, Done) \/ HeaderAfter(i, Done)'
        PROVE  FileAfter(i, f)'
    <2>1. HeaderAfter(i, Done)'
      BY <1>1, <1>3, <1>5 DEF HeaderAfter
    <2> QED
      BY <1>1, <1>5, <2>1 DEF FileAfter
  <1>6. ASSUME i = Len(pipe), ppc = "data", file = f, sent = disk[f].length
        PROVE  FileAfter(i, f)'
    <2>1. Block = 0
      BY <1>6, BlockFacts
    <2>2. FileSent
      BY <1>6, <2>1
         DEF Parent, Fork, ParentOpen, ReadReady, SkipMissing, SendInfo, SendHeader,
             SendBytes, SendDone, CloseEnds, WaitChild, BrokenPipe
    <2>3. ppc' = "file" /\ file' = f + 1 /\ pipe' = pipe
      BY <1>6, <2>2 DEF FileSent
    <2>4. file' > f /\ \A g \in f + 1..file' - 1 : ~disk'[g].exists
      BY <2>3
    <2> QED
      BY <1>6, <2>3, <2>4 DEF FileAfter
  <1>7. ASSUME i = Len(pipe), ppc \in {"create", "open1", "open2", "ready", "file"}, file > f,
               \A g \in f + 1..file - 1 : ~disk[g].exists
        PROVE  FileAfter(i, f)'
    <2>1. file \in 1..Files + 1
      BY DEF Types, TypeOK
    <2>2. CASE /\ UNCHANGED <<pipe, file>>
               /\ ppc' \in {"create", "open1", "open2", "ready", "file"}
      BY <1>1, <1>7, <2>2 DEF FileAfter
    <2>3. CASE SkipMissing
      <3>1. /\ file' = file + 1 /\ UNCHANGED <<pipe, ppc>> /\ ~disk[file].exists
        BY <2>3 DEF SkipMissing
      <3>2. file' > f /\ \A g \in f + 1..file' - 1 : ~disk[g].exists
        BY <1>7, <2>1, <3>1
      <3> QED
        BY <1>1, <1>7, <3>1, <3>2 DEF FileAfter
    <2>4. CASE SendInfo
      <3>1. file \in f + 1..Files /\ disk[file].exists /\ file \in F
        BY <1>7, <2>1, <2>4 DEF SendInfo, F
      <3>2. Info(file) \in Messages /\ Write(Cells(Info(file), 0, Header))
        BY <2>4, <3>1, DiskFacts, ToIntFacts DEF SendInfo, WriteMsg, Info, Msg, Messages
      <3>3. PICK g : g = file
        OBVIOUS
      <3>4. PICK m : m = Info(g)
        OBVIOUS
      <3>5. HeaderAfter(i, m)'
        BY <1>1, <1>7, <3>2, <3>3, <3>4, MessageAdded
      <3>6. HeaderAfter(i, Info(g))'
        BY <1>2, <3>4, <3>5 DEF HeaderAfter
      <3> QED
        BY <1>4, <1>7, <3>1, <3>3, <3>6
    <2>5. CASE SendDone
      <3>1. \A g \in f + 1..Files : ~disk[g].exists
        BY <1>7, <2>1, <2>5 DEF SendDone
      <3>2. Done \in Messages /\ Write(Cells(Done, 0, Header))
        BY <2>5 DEF SendDone, WriteMsg, Done, Messages
      <3>3. PICK m : m = Done
        OBVIOUS
      <3>4. HeaderAfter(i, m)'
        BY <1>1, <1>7, <3>2, <3>3, MessageAdded
      <3>5. HeaderAfter(i, Done)'
        BY <1>1, <3>3, <3>4 DEF HeaderAfter
      <3> QED
        BY <1>5, <3>1, <3>5
    <2>6. CASE Fork
      BY <2>2, <2>6 DEF Fork, GivesUp
    <2>7. CASE ParentOpen \/ ReadReady
      BY <2>2, <2>7 DEF ParentOpen, ReadReady
    <2> QED
      BY <1>7, <2>3, <2>4, <2>5, <2>6, <2>7
         DEF Parent, SendHeader, SendBytes, FileSent, CloseEnds, WaitChild, BrokenPipe
  <1> QED
    BY <1>4, <1>5, <1>6, <1>7 DEF FileAfter

LEMMA GrowBlock ==
    ASSUME Types, Parent, ~GivesUp, cpc # "exited", NEW i \in Nat, NEW f \in F, NEW k \in Nat,
           k <= disk[f].length, BlockAfter(i, f, k)
    PROVE  BlockAfter(i, f, k)'
  <1> USE Bounds
  <1> DEFINE n == Size(f, k)
             m == Msg("data", f, n)
  <1>1. disk' = disk /\ Longer /\ Len(pipe) \in Nat /\ n' = n /\ n \in 0..Chunk /\ m' = m
    BY ParentFrame, SizeFacts DEF Types, Size, Msg
  <1>2. CASE i = Len(pipe) /\ ppc = "data" /\ file = f /\ sent = k
    <2>1. n = Block /\ Block = Size(file, sent)
      BY <1>2, BlockFacts
    <2>2. CASE SendHeader
      <3>1. /\ Write(Cells(Msg("data", file, Block), 0, Header)) /\ Block > 0
            /\ ppc' = "bytes" /\ UNCHANGED <<file, sent>>
        BY <2>2 DEF SendHeader, WriteMsg
      <3>2. m \in Messages /\ Write(Cells(m, 0, Header)) /\ k < disk[f].length
        <4>1. m = Msg("data", file, Block)
          BY <1>2, <2>1
        <4>2. n \in 1..Chunk
          BY <1>1, <2>1, <3>1
        <4>3. m \in Messages
          BY <4>2 DEF Msg, Messages
        <4>4. k < disk[f].length
          BY <1>2, <2>1, <3>1, SizeFacts, DiskFacts
        <4> QED
          BY <3>1, <4>1, <4>3, <4>4
      <3>3. PICK x : x = m
        OBVIOUS
      <3>4. HeaderAfter(i, x)' /\ Len(pipe') = i + Header
        BY <1>1, <1>2, <3>2, <3>3, MessageAdded
      <3>5. HeaderAfter(i, m)'
        BY <1>1, <3>3, <3>4 DEF HeaderAfter
      <3> QED
        BY <1>1, <1>2, <3>1, <3>2, <3>4, <3>5 DEF BlockAfter
    <2>3. CASE FileSent
      <3>1. k = disk[f].length
        BY <1>2, <2>3, BlockFacts DEF FileSent
      <3>2. FileAfter(i, f)
        BY <1>2, <3>1 DEF FileAfter
      <3>3. f \in 0..Files
        BY DEF F
      <3>4. FileAfter(i, f)'
        BY <3>2, <3>3, GrowFile
      <3> QED
        BY <1>1, <3>1, <3>4 DEF BlockAfter
    <2> QED
      BY <1>2, <2>2, <2>3
         DEF Parent, Fork, ParentOpen, ReadReady, SkipMissing, SendInfo, SendBytes, SendDone,
             CloseEnds, WaitChild, BrokenPipe
  <1>3. CASE /\ k < disk[f].length
             /\ HeaderAfter(i, m)
             /\ i + Header = Len(pipe) /\ ppc = "bytes" /\ file = f /\ sent = k
    <2>1. SendBytes
      BY <1>3
         DEF Parent, Fork, ParentOpen, ReadReady, SkipMissing, SendInfo, SendHeader, FileSent,
             SendDone, CloseEnds, WaitChild, BrokenPipe
    <2>2. n = Block
      BY <1>3, BlockFacts
    <2>3. Write(Bytes(f, k, n))
      BY <1>3, <2>1, <2>2 DEF SendBytes
    <2>4. PICK a : a = i + Header
      OBVIOUS
    <2>5. PICK b : b = n
      OBVIOUS
    <2>6. BytesAfter(a, f, k, b)'
      BY <1>1, <1>3, <2>3, <2>4, <2>5, BytesAdded
    <2>7. BytesAfter(i + Header, f, k, n)'
      BY <1>1, <2>4, <2>5, <2>6 DEF BytesAfter
    <2>8. PICK x : x = m
      OBVIOUS
    <2>9. HeaderAfter(i, x)'
      BY <1>1, <1>3, <2>8, GrowHeader
    <2>10. HeaderAfter(i, m)'
      BY <1>1, <2>8, <2>9 DEF HeaderAfter
    <2> QED
      BY <1>1, <1>3, <2>7, <2>10 DEF BlockAfter, Whole
  <1>4. CASE Whole(i, f, k)
    BY <1>1, <1>4, GrowWhole DEF BlockAfter
  <1>5. CASE k = disk[f].length /\ FileAfter(i, f)
    <2>1. f \in 0..Files
      BY DEF F
    <2>2. FileAfter(i, f)'
      BY <1>5, <2>1, GrowFile
    <2> QED
      BY <1>1, <1>5, <2>2 DEF BlockAfter
  <1> QED
    BY <1>2, <1>3, <1>4, <1>5 DEF BlockAfter

(* What the parent's step has put into the pipe.                           *)
LEMMA ParentCells ==
    ASSUME Types, Parent, NEW l, l = Len(pipe)
    PROVE  \/ UNCHANGED pipe
           \/ SendBytes /\ \A i \in l + 1..Len(pipe') : pipe'[i].msg.type = "bytes"
           \/ \E m \in Messages :
                 /\ \/ SendInfo /\ m = Info(file)
                    \/ SendHeader /\ m = Msg("data", file, Block)
                    \/ SendDone /\ m = Done
                 /\ Len(pipe') = l + Header /\ HeaderAfter(l, m)'
                 /\ \A i \in l + 1..Len(pipe') : pipe'[i] = [msg |-> m, at |-> i - l]
  <1>1. disk' = disk
    BY ParentFrame
  <1>2. ASSUME NEW m \in Messages, Write(Cells(m, 0, Header))
        PROVE  /\ Len(pipe') = l + Header /\ HeaderAfter(l, m)'
               /\ \A i \in l + 1..Len(pipe') : pipe'[i] = [msg |-> m, at |-> i - l]
    BY <1>1, <1>2, MessageAdded
  <1>3. CASE SendInfo
    <2>1. file \in F /\ disk[file].exists
      BY <1>3 DEF SendInfo, F, Types, TypeOK
    <2>2. Info(file) \in Messages /\ Write(Cells(Info(file), 0, Header))
      BY <1>3, <2>1, DiskFacts, ToIntFacts DEF SendInfo, WriteMsg, Info, Msg, Messages
    <2>3. PICK m \in Messages : m = Info(file)
      BY <2>2
    <2> QED
      BY <1>2, <1>3, <2>2, <2>3
  <1>4. CASE SendHeader
    <2>1. file \in F /\ Block \in 1..Chunk
      BY <1>4, BlockFacts DEF SendHeader
    <2>2. Msg("data", file, Block) \in Messages
      BY <2>1 DEF Msg, Messages
    <2>3. Write(Cells(Msg("data", file, Block), 0, Header))
      BY <1>4 DEF SendHeader, WriteMsg
    <2>4. PICK m \in Messages : m = Msg("data", file, Block)
      BY <2>2
    <2> QED
      BY <1>2, <1>4, <2>3, <2>4
  <1>5. CASE SendBytes
    <2>1. file \in F /\ sent \in Nat /\ Block \in Nat /\ Write(Bytes(file, sent, Block))
      BY <1>5, BlockFacts DEF SendBytes
    <2> QED
      BY <1>1, <1>5, <2>1, BytesAdded
  <1>6. CASE SendDone
    <2>1. Done \in Messages /\ Write(Cells(Done, 0, Header))
      BY <1>6 DEF SendDone, WriteMsg, Done, Messages
    <2>2. PICK m \in Messages : m = Done
      BY <2>1
    <2> QED
      BY <1>2, <1>6, <2>1, <2>2
  <1> QED
    BY <1>3, <1>4, <1>5, <1>6
       DEF Parent, Fork, ParentOpen, ReadReady, SkipMissing, FileSent, CloseEnds, WaitChild, BrokenPipe

(* A header that starts among the cells that were there was there whole.   *)
LEMMA OldHeader ==
    ASSUME Types, StreamInv, Longer, NEW i \in Nat, i < Len(pipe),
           NEW m, m.type # "bytes", HeaderAfter(i, m)'
    PROVE  HeaderAfter(i, m)
  <1>1. PICK a : a = i + 1
    OBVIOUS
  <1>2. a \in 1..Len(pipe) /\ a - 1 = i /\ 1 \in 1..Header
    BY <1>1, Bounds DEF Types
  <1>3. pipe'[a] = [msg |-> m, at |-> 1]
    BY <1>1, <1>2 DEF HeaderAfter
  <1>4. pipe[a] = [msg |-> m, at |-> 1]
    BY <1>2, <1>3 DEF Longer
  <1>5. pipe[a].msg = m /\ pipe[a].at = 1
    BY <1>4
  <1>6. HeaderAfter(a - 1, pipe[a].msg)
    BY <1>2, <1>5 DEF StreamInv
  <1> QED
    BY <1>2, <1>5, <1>6

(* A new one is the message just sent.                                     *)
LEMMA NewHeader ==
    ASSUME Types, Parent, NEW i \in Nat, i >= Len(pipe),
           NEW m, m.type # "bytes", HeaderAfter(i, m)'
    PROVE  /\ i = Len(pipe) /\ Len(pipe') = i + Header
           /\ \/ SendInfo /\ m = Info(file)
              \/ SendHeader /\ m = Msg("data", file, Block)
              \/ SendDone /\ m = Done
  <1> DEFINE l == Len(pipe)
             l1 == Len(pipe')
  <1>1. l \in Nat /\ l1 \in Nat /\ Header \in Nat /\ Header >= 1
    BY ParentFrame, Bounds DEF Types, Longer
  <1>2. PICK a : a = i + 1
    OBVIOUS
  <1>3. i + Header <= l1 /\ pipe'[a] = [msg |-> m, at |-> 1]
    <2>1. 1 \in 1..Header
      BY <1>1
    <2> QED
      BY <1>2, <2>1 DEF HeaderAfter
  <1>4. \/ UNCHANGED pipe
        \/ \A j \in l + 1..l1 : pipe'[j].msg.type = "bytes"
        \/ \E x \in Messages :
              /\ \/ SendInfo /\ x = Info(file)
                 \/ SendHeader /\ x = Msg("data", file, Block)
                 \/ SendDone /\ x = Done
              /\ l1 = l + Header
              /\ \A j \in l + 1..l1 : pipe'[j] = [msg |-> x, at |-> j - l]
    BY ParentCells
  <1>5. ~UNCHANGED pipe
    BY <1>1, <1>3
  <1>6. a \in l + 1..l1
    BY <1>1, <1>2, <1>3
  <1> HIDE DEF l, l1
  <1>7. pipe'[a].msg = m /\ pipe'[a].at = 1
    BY <1>3
  <1>8. PICK x \in Messages :
           /\ \/ SendInfo /\ x = Info(file)
              \/ SendHeader /\ x = Msg("data", file, Block)
              \/ SendDone /\ x = Done
           /\ l1 = l + Header
           /\ \A j \in l + 1..l1 : pipe'[j] = [msg |-> x, at |-> j - l]
    BY <1>4, <1>5, <1>6, <1>7
  <1>9. pipe'[a] = [msg |-> x, at |-> a - l]
    BY <1>6, <1>8
  <1>10. x = m /\ a - l = 1
    BY <1>7, <1>9
  <1>11. i = l
    BY <1>1, <1>2, <1>10
  <1> QED
    BY <1>8, <1>10, <1>11 DEF l, l1

LEMMA StreamGrown ==
    ASSUME Types, StreamInv, InfoOrder, Parent, ~GivesUp, cpc # "exited"
    PROVE  StreamInv' /\ InfoOrder'
  <1> USE Bounds
  <1>0. PICK l : l = Len(pipe)
    OBVIOUS
  <1> DEFINE l1 == Len(pipe')
  <1>1. /\ disk' = disk /\ Longer /\ l \in Nat /\ l1 \in Nat /\ l <= l1
        /\ \A j \in 1..l : pipe'[j] = pipe[j]
    BY <1>0, ParentFrame DEF Types, Longer
  <1>c. \/ UNCHANGED pipe
        \/ SendBytes /\ \A i \in l + 1..l1 : pipe'[i].msg.type = "bytes"
        \/ \E m \in Messages :
              /\ \/ SendInfo /\ m = Info(file)
                 \/ SendHeader /\ m = Msg("data", file, Block)
                 \/ SendDone /\ m = Done
              /\ l1 = l + Header /\ HeaderAfter(l, m)'
              /\ \A i \in l + 1..l1 : pipe'[i] = [msg |-> m, at |-> i - l]
    BY <1>0, ParentCells
  <1>2. ASSUME NEW i \in 1..l1, pipe'[i].msg.type # "bytes", pipe'[i].at = 1
        PROVE  HeaderAfter(i - 1, pipe[i].msg)'
    <2>1. PICK m : m = pipe'[i].msg
      OBVIOUS
    <2>2. PICK b : b = i - 1
      OBVIOUS
    <2>3. b \in Nat /\ b + 1 = i
      BY <2>2
    <2>4. HeaderAfter(b, m)'
      <3>1. CASE i \in 1..l
        <4>1. pipe'[i] = pipe[i]
          BY <1>1, <3>1
        <4>2. HeaderAfter(b, m)
          BY <1>0, <1>2, <2>1, <2>2, <3>1, <4>1 DEF StreamInv
        <4> QED
          BY <1>1, <2>3, <4>2, GrowHeader
      <3>2. CASE i \in l + 1..l1
        <4>1. ~UNCHANGED pipe
          BY <1>0, <1>1, <3>2
        <4> HIDE DEF l1
        <4>2. PICK x \in Messages :
                /\ HeaderAfter(l, x)'
                /\ \A j \in l + 1..l1 : pipe'[j] = [msg |-> x, at |-> j - l]
          BY <1>2, <1>c, <3>2, <4>1
        <4>3. pipe'[i] = [msg |-> x, at |-> i - l]
          BY <3>2, <4>2
        <4>4. m = x /\ i - l = 1
          BY <1>2, <2>1, <4>3
        <4>5. b = l
          BY <1>1, <2>3, <4>4
        <4> QED
          BY <4>2, <4>4, <4>5
      <3> QED
        BY <1>1, <3>1, <3>2
    <2>5. b + Header <= l1 /\ \A j \in 1..Header : pipe'[b + j] = [msg |-> m, at |-> j]
      BY <2>4 DEF HeaderAfter
    <2>6. i - 1 + Header <= l1 /\ \A j \in 1..Header : pipe'[i - 1 + j] = [msg |-> pipe'[i].msg, at |-> j]
      BY <2>1, <2>2, <2>5
    <2> QED
      BY <2>6 DEF HeaderAfter
  <1>3. ASSUME NEW i \in 0..l1, NEW f \in F, HeaderAfter(i, Info(f))'
        PROVE  BlockAfter(i + Header, f, 0)'
    <2>1. PICK m : m = Info(f)
      OBVIOUS
    <2>2. m.type # "bytes" /\ HeaderAfter(i, m)' /\ Info(f)' = Info(f) /\ i \in Nat
      BY <1>1, <1>3, <2>1 DEF Info, Msg, HeaderAfter
    <2>3. CASE i < l
      <3>1. HeaderAfter(i, m)
        BY <1>0, <1>1, <2>2, <2>3, OldHeader
      <3>2. BlockAfter(i + Header, f, 0)
        BY <1>0, <1>1, <2>1, <2>2, <2>3, <3>1 DEF StreamInv
      <3>3. PICK a : a = i + Header
        OBVIOUS
      <3>4. a \in Nat /\ 0 \in Nat /\ 0 <= disk[f].length
        BY <2>2, <3>3, DiskFacts
      <3>5. BlockAfter(a, f, 0)'
        BY <3>2, <3>3, <3>4, GrowBlock
      <3> QED
        BY <3>3, <3>5
    <2>4. CASE ~(i < l)
      <3>1. i >= l
        BY <1>1, <2>2, <2>4
      <3>2. i = l /\ l1 = i + Header
            /\ \/ SendInfo /\ m = Info(file)
               \/ SendHeader /\ m = Msg("data", file, Block)
               \/ SendDone /\ m = Done
        BY <1>0, <2>2, <3>1, NewHeader
      <3>3. SendInfo /\ f = file
        BY <2>1, <3>2 DEF Info, Done, Msg
      <3>4. ppc' = "data" /\ file' = f /\ sent' = 0
        BY <3>3 DEF SendInfo
      <3> QED
        BY <3>2, <3>4 DEF BlockAfter
    <2> QED
      BY <2>3, <2>4
  <1>4. ASSUME NEW i \in 0..l1, NEW f \in F, NEW n \in 1..Chunk, HeaderAfter(i, Msg("data", f, n))'
        PROVE  \/ i + Header = l1 /\ ppc' = "bytes" /\ file' = f /\ n = Block'
               \/ \E k \in 0..disk'[f].length :
                     n = Size(f, k)' /\ Whole(i, f, k)' /\ BlockAfter(i + Header + n, f, k + n)'
    <2>1. PICK m : m = Msg("data", f, n)
      OBVIOUS
    <2>2. m.type = "data" /\ HeaderAfter(i, m)' /\ i \in Nat /\ n \in Nat
      BY <1>4, <2>1 DEF Msg, HeaderAfter
    <2>3. CASE i < l
      <3>1. HeaderAfter(i, m)
        BY <1>0, <1>1, <2>2, <2>3, OldHeader
      <3>2. \/ i + Header = Len(pipe) /\ ppc = "bytes" /\ file = f /\ n = Block
            \/ \E k \in 0..disk[f].length :
                  n = Size(f, k) /\ Whole(i, f, k) /\ BlockAfter(i + Header + n, f, k + n)
        <4>1. HeaderAfter(i, Msg("data", f, n)) /\ i \in 0..Len(pipe)
          BY <1>0, <1>1, <2>1, <2>2, <2>3, <3>1
        <4> QED
          BY <4>1 DEF StreamInv
      <3>3. ASSUME NEW k \in 0..disk[f].length, n = Size(f, k), Whole(i, f, k),
                   BlockAfter(i + Header + n, f, k + n)
            PROVE  n = Size(f, k)' /\ Whole(i, f, k)' /\ BlockAfter(i + Header + n, f, k + n)'
        <4>1. k \in Nat /\ k <= disk[f].length /\ k + n \in Nat /\ k + n <= disk[f].length
          <5>1. k \in Nat /\ k <= disk[f].length
            BY DiskFacts
          <5>2. k + Size(f, k) <= disk[f].length
            BY <5>1, SizeFacts
          <5> QED
            BY <2>2, <3>3, <5>1, <5>2
        <4>2. Whole(i, f, k)'
          BY <1>1, <2>2, <3>3, <4>1, GrowWhole
        <4>3. n = Size(f, k)'
          BY <1>1, <3>3 DEF Size
        <4>4. PICK a : a = i + Header + n
          OBVIOUS
        <4>5. PICK b : b = k + n
          OBVIOUS
        <4>6. a \in Nat /\ b \in Nat /\ b <= disk[f].length
          BY <2>2, <4>1, <4>4, <4>5
        <4>7. BlockAfter(a, f, b)'
          BY <3>3, <4>4, <4>5, <4>6, GrowBlock
        <4> QED
          BY <4>2, <4>3, <4>4, <4>5, <4>7
      <3>4. ASSUME i + Header = Len(pipe), ppc = "bytes", file = f, n = Block
            PROVE  \E k \in 0..disk'[f].length :
                      n = Size(f, k)' /\ Whole(i, f, k)' /\ BlockAfter(i + Header + n, f, k + n)'
        <4>1. SendBytes
          BY <3>4
             DEF Parent, Fork, ParentOpen, ReadReady, SkipMissing, SendInfo, SendHeader, FileSent,
                 SendDone, CloseEnds, WaitChild, BrokenPipe
        <4>2. /\ sent \in Nat /\ n = Size(f, sent) /\ sent + n <= disk[f].length
              /\ sent < disk[f].length /\ Write(Bytes(f, sent, n))
          BY <2>2, <3>4, <4>1, BlockFacts, DiskFacts DEF SendBytes
        <4>3. PICK k : k = sent
          OBVIOUS
        <4>4. Size(f, k)' = n /\ k \in Nat /\ k < disk[f].length
          BY <1>1, <4>2, <4>3 DEF Size
        <4>5. PICK a : a = i + Header
          OBVIOUS
        <4>6. BytesAfter(a, f, k, n)' /\ l1 = a + n
          BY <1>1, <2>2, <3>4, <4>2, <4>3, <4>5, BytesAdded DEF F
        <4>7. Msg("data", f, Size(f, k))' = m
          BY <2>1, <4>4 DEF Msg
        <4>8. Whole(i, f, k)'
          BY <1>1, <2>2, <4>4, <4>5, <4>6, <4>7 DEF Whole, HeaderAfter, BytesAfter
        <4>9. ppc' = "data" /\ file' = f /\ sent' = k + n
          BY <3>4, <4>1, <4>3 DEF SendBytes
        <4>10. BlockAfter(i + Header + n, f, k + n)'
          BY <4>5, <4>6, <4>9 DEF BlockAfter
        <4>11. k \in 0..disk'[f].length
          BY <1>1, <4>4, DiskFacts
        <4> QED
          BY <4>4, <4>8, <4>10, <4>11
      <3> QED
        BY <1>1, <3>2, <3>3, <3>4
    <2>4. CASE ~(i < l)
      <3>1. i >= l
        BY <1>1, <2>2, <2>4
      <3>2. l1 = i + Header
            /\ \/ SendInfo /\ m = Info(file)
               \/ SendHeader /\ m = Msg("data", file, Block)
               \/ SendDone /\ m = Done
        BY <1>0, <2>2, <3>1, NewHeader
      <3>3. SendHeader /\ f = file /\ n = Block
        BY <2>1, <3>2 DEF Info, Done, Msg
      <3>4. ppc' = "bytes" /\ UNCHANGED <<file, sent, disk>>
        BY <3>3 DEF SendHeader
      <3>5. Block' = Block
        BY <3>4 DEF Block
      <3> QED
        BY <3>2, <3>3, <3>4, <3>5
    <2> QED
      BY <2>3, <2>4
  <1>5. StreamInv'
    BY <1>2, <1>3, <1>4 DEF StreamInv
  <1>6. ASSUME NEW i \in 1..l1, Announced(i)'
        PROVE  \/ i \in 1..l /\ Announced(i) /\ pipe'[i] = pipe[i]
               \/ i > l /\ SendInfo /\ pipe'[i].msg.file = file
    <2>1. pipe'[i].msg.type = "info"
      BY <1>6 DEF Announced
    <2>2. CASE i \in 1..l
      BY <1>1, <2>1, <2>2 DEF Announced
    <2>3. CASE i \in l + 1..l1
      <3>1. ~UNCHANGED pipe
        BY <1>0, <1>1, <2>3
      <3> HIDE DEF l1
      <3>2. PICK m \in Messages :
              /\ \/ SendInfo /\ m = Info(file)
                 \/ SendHeader /\ m = Msg("data", file, Block)
                 \/ SendDone /\ m = Done
              /\ \A j \in l + 1..l1 : pipe'[j] = [msg |-> m, at |-> j - l]
        BY <1>c, <2>1, <2>3, <3>1
      <3>3. pipe'[i].msg = m
        <4>1. pipe'[i] = [msg |-> m, at |-> i - l]
          BY <2>3, <3>2
        <4> QED
          BY <4>1
      <3>4. SendInfo /\ m = Info(file)
        BY <2>1, <3>2, <3>3 DEF Msg, Done
      <3> QED
        BY <1>1, <2>3, <3>3, <3>4 DEF Info, Msg
    <2> QED
      BY <1>1, <2>2, <2>3
  <1>7. ASSUME NEW i \in 1..l, Announced(i)
        PROVE  pipe[i].msg.file \in F /\ pipe[i].msg.file <= file /\ (ppc = "file" => pipe[i].msg.file < file)
    <2>1. pipe[i] \in Cell
      BY <1>0 DEF Types
    <2>2. pipe[i].msg.file \in F
      BY <1>7, <2>1 DEF Cell, Messages, Announced, Done, Msg
    <2> QED
      BY <1>0, <1>7, <2>2 DEF InfoOrder
  <1>8. file \in Nat
    BY DEF Types, TypeOK
  <1>9. ASSUME NEW i \in 1..l1, Announced(i)'
        PROVE  pipe'[i].msg.file <= file' /\ (ppc' = "file" => pipe'[i].msg.file < file')
    <2>1. CASE i \in 1..l /\ Announced(i) /\ pipe'[i] = pipe[i]
      <3>1. pipe # <<>>
        BY <1>0, <2>1
      <3>2. ppc \notin {"create", "open1", "open2", "ready"}
        BY <3>1 DEF Types
      <3>3. \/ file' = file /\ (ppc' = "file" => ppc = "file")
            \/ file' = file + 1
        BY <3>2 DEF Parent, Fork, ParentOpen, ReadReady, SkipMissing, SendInfo, SendHeader,
                    SendBytes, FileSent, SendDone, CloseEnds, WaitChild, BrokenPipe
      <3> QED
        BY <1>7, <1>8, <2>1, <3>3 DEF F
    <2>2. CASE SendInfo /\ pipe'[i].msg.file = file
      BY <1>8, <2>2 DEF SendInfo
    <2> QED
      BY <1>6, <1>9, <2>1, <2>2
  <1>10. ASSUME NEW i \in 1..l1, NEW j \in 1..l1, i < j, Announced(i)', Announced(j)'
         PROVE  pipe'[i].msg.file <= pipe'[j].msg.file
    <2>1. CASE j \in 1..l /\ Announced(j) /\ pipe'[j] = pipe[j]
      <3>1. i \in 1..l
        BY <1>1, <1>10, <2>1
      <3>2. Announced(i) /\ pipe'[i] = pipe[i]
        BY <1>6, <1>10, <1>1, <3>1
      <3> QED
        BY <1>0, <1>10, <2>1, <3>1, <3>2 DEF InfoOrder
    <2>2. CASE SendInfo /\ pipe'[j].msg.file = file
      <3>1. CASE i \in 1..l /\ Announced(i) /\ pipe'[i] = pipe[i]
        BY <1>7, <1>8, <2>2, <3>1 DEF SendInfo, F
      <3>2. CASE pipe'[i].msg.file = file
        BY <1>8, <2>2, <3>2
      <3> QED
        BY <1>6, <1>10, <3>1, <3>2
    <2> QED
      BY <1>6, <1>10, <2>1, <2>2
  <1>11. InfoOrder'
    BY <1>9, <1>10 DEF InfoOrder
  <1> QED
    BY <1>5, <1>11
-----------------------------------------------------------------------------
(* The child keeps track of where it is in a file.                         *)
LEMMA TrackParent ==
    ASSUME Types, cpc \in {"copy", "body"}, Tracking, Parent
    PROVE  Tracking' /\ cpc' = cpc
  <1> USE Bounds
  <1>1. /\ disk' = disk /\ Longer /\ cpc' = cpc /\ UNCHANGED <<cur, total, got, want, copy>> /\ ~GivesUp
    BY ParentFrame DEF GivesUp, Types
  <1>2. cur \in F /\ got \in Nat /\ want \in 0..Chunk /\ disk[cur].length \in Nat
    <2>1. cur \in F /\ got \in Nat /\ want \in 0..Chunk
      BY DEF Types, TypeOK, Tracking
    <2> QED
      BY <2>1, DiskFacts
  <1>3. total <= disk[cur].length /\ Copied(cur, got) /\ got <= disk[cur].length
    BY DEF Tracking
  <1>4. /\ cur' \in F /\ total' <= disk'[cur'].length /\ Copied(cur, got)'
        /\ got' <= disk'[cur'].length
    BY <1>1, <1>2, <1>3 DEF Copied, Byte, Msg
  <1>5. PICK c \in F, n \in Nat, w \in Nat : c = cur /\ n = got /\ w = want
    BY <1>2
  <1>6. CASE cpc = "copy"
    <2>1. BlockAfter(0, c, n)
      BY <1>5, <1>6 DEF Tracking
    <2>2. BlockAfter(0, c, n)'
      BY <1>1, <1>3, <1>5, <2>1, GrowBlock
    <2>3. BlockAfter(0, cur, got)'
      BY <1>1, <1>5, <2>2
    <2> QED
      BY <1>1, <1>4, <1>6, <2>3 DEF Tracking
  <1>7. CASE cpc = "body"
    <2>1. got < total /\ want = Size(cur, got) /\ got + want <= disk[cur].length
      BY <1>2, <1>3, <1>7, SizeFacts DEF Tracking
    <2>2. got' < total' /\ want' = Size(cur, got)'
      BY <1>1, <2>1 DEF Size
    <2>3. CASE pipe = <<>> /\ ppc = "bytes" /\ file = cur /\ sent = got
      <3>1. SendBytes
        BY <2>3
           DEF Parent, Fork, ParentOpen, ReadReady, SkipMissing, SendInfo, SendHeader, FileSent,
               SendDone, CloseEnds, WaitChild, BrokenPipe
      <3>2. w = Block /\ Write(Bytes(c, n, w))
        BY <1>5, <2>1, <2>3, <3>1, BlockFacts DEF SendBytes
      <3>3. BytesAfter(0, c, n, w)' /\ Len(pipe') = 0 + w
        BY <1>1, <2>3, <3>2, BytesAdded
      <3>4. ppc' = "data" /\ file' = c /\ sent' = n + w
        BY <1>5, <2>3, <3>1, <3>2 DEF SendBytes
      <3>5. BlockAfter(w, c, n + w)'
        BY <3>3, <3>4 DEF BlockAfter
      <3>6. BytesAfter(0, cur, got, want)' /\ BlockAfter(want, cur, got + want)'
        BY <1>1, <1>5, <3>3, <3>5
      <3> QED
        BY <1>1, <1>4, <1>7, <2>2, <3>6 DEF Tracking
    <2>4. CASE BytesAfter(0, cur, got, want) /\ BlockAfter(want, cur, got + want)
      <3>1. PICK k \in Nat : k = n + w
        OBVIOUS
      <3>2. BytesAfter(0, c, n, w)'
        BY <1>1, <1>5, <2>4, GrowBytes
      <3>3. BlockAfter(w, c, k)'
        BY <1>1, <1>5, <2>1, <2>4, <3>1, GrowBlock
      <3>4. BytesAfter(0, cur, got, want)' /\ BlockAfter(want, cur, got + want)'
        BY <1>1, <1>5, <3>1, <3>2, <3>3
      <3> QED
        BY <1>1, <1>4, <1>7, <2>2, <3>4 DEF Tracking
    <2> QED
      BY <1>7, <2>3, <2>4 DEF Tracking
  <1> QED
    BY <1>6, <1>7

LEMMA HeaderTaken ==
    ASSUME Types, Take(Header), UNCHANGED <<disk, ppc, file, sent>>, NEW m, HeaderAfter(0, m),
           m.type # "bytes"
    PROVE  Taken(Header) /\ Header <= Len(pipe) /\ pipe[1] = [msg |-> m, at |-> 1]
           /\ Begins /\ Received = {m}
  <1>1. Header \in Nat \ {0} /\ 0 + Header <= Len(pipe) /\ Len(pipe) \in Nat
    BY Bounds DEF HeaderAfter, Types
  <1>2. Min2(Header, Len(pipe)) = Header
    BY <1>1 DEF Min2
  <1>3. Taken(Header) /\ pipe # <<>>
    BY <1>1, <1>2, TakeIsTaken
  <1>4. pipe[0 + 1] = [msg |-> m, at |-> 1]
    BY <1>1 DEF HeaderAfter
  <1>5. pipe[1].at = 1 /\ pipe[1].msg = m
    BY <1>4
  <1>6. Received = {m}
    BY <1>3, <1>5, ReceivedFacts DEF Begins
  <1> QED
    BY <1>1, <1>3, <1>4, <1>5, <1>6 DEF Begins

LEMMA InSync ==
    ASSUME Types, StreamInv, Tracking, cpc = "copy", got < total, pipe # <<>>,
           NEW n, n = Size(cur, got)
    PROVE  /\ n \in 1..Chunk /\ got + n <= disk[cur].length
           /\ HeaderAfter(0, Msg("data", cur, n))
           /\ \/ Header = Len(pipe) /\ ppc = "bytes" /\ file = cur /\ sent = got
              \/ BytesAfter(Header, cur, got, n) /\ BlockAfter(Header + n, cur, got + n)
  <1> USE Bounds
  <1>1. cur \in F /\ got \in Nat /\ Len(pipe) \in Nat /\ Len(pipe) > 0 /\ total \in Int
    BY DEF Types, TypeOK, Tracking
  <1>2. got < disk[cur].length /\ BlockAfter(0, cur, got)
    BY <1>1, DiskFacts DEF Tracking
  <1>3. got <= disk[cur].length
    BY <1>1, <1>2, DiskFacts
  <1>4. n \in 1..Chunk /\ got + n <= disk[cur].length
    <2>1. /\ Size(cur, got) \in 0..Chunk /\ got + Size(cur, got) <= disk[cur].length
          /\ (got < disk[cur].length => Size(cur, got) > 0)
      BY <1>1, <1>3, SizeFacts
    <2> QED
      BY <1>2, <2>1
  <1>5. CASE /\ HeaderAfter(0, Msg("data", cur, Size(cur, got)))
             /\ 0 + Header = Len(pipe) /\ ppc = "bytes" /\ file = cur /\ sent = got
    BY <1>4, <1>5
  <1>6. CASE Whole(0, cur, got)
    <2>1. HeaderAfter(0, Msg("data", cur, n)) /\ BytesAfter(Header, cur, got, n)
      BY <1>6 DEF Whole
    <2>2. \/ 0 + Header = Len(pipe) /\ ppc = "bytes" /\ file = cur /\ n = Block
          \/ \E k \in 0..disk[cur].length :
                n = Size(cur, k) /\ Whole(0, cur, k) /\ BlockAfter(0 + Header + n, cur, k + n)
      BY <1>1, <1>4, <2>1 DEF StreamInv
    <2>3. Header + n <= Len(pipe) /\ pipe[Header + 1] = Byte(cur, got + 1)
      BY <1>4, <2>1 DEF BytesAfter
    <2>4. PICK k \in 0..disk[cur].length :
             n = Size(cur, k) /\ Whole(0, cur, k) /\ BlockAfter(0 + Header + n, cur, k + n)
      BY <1>1, <1>4, <2>2, <2>3
    <2>5. BytesAfter(0 + Header, cur, k, n)
      BY <2>4 DEF Whole
    <2>6. 0 + Header = Header
      OBVIOUS
    <2>7. pipe[Header + 1] = Byte(cur, k + 1)
      BY <1>4, <2>5, <2>6 DEF BytesAfter
    <2>8. got + 1 = k + 1
      BY <2>3, <2>7 DEF Byte
    <2>9. k = got
      BY <1>1, <1>3, <2>8, DiskFacts
    <2> QED
      BY <1>4, <2>1, <2>4, <2>6, <2>9
  <1> QED
    BY <1>1, <1>2, <1>5, <1>6, DiskFacts DEF BlockAfter

LEMMA TrackHeader ==
    ASSUME Types, StreamInv, Tracking, CopyHeader
    PROVE  Tracking' /\ cpc' = "body" /\ UNCHANGED <<cur, total, copy>>
  <1> USE Bounds
  <1>1. /\ cpc = "copy" /\ got < total /\ Take(Header)
        /\ UNCHANGED <<disk, ppc, file, sent, cur, total, got, copy>>
    BY DEF CopyHeader, parentVars
  <1>2. pipe # <<>>
    BY <1>1 DEF Take
  <1>3. PICK n, c, k : n = Size(cur, got) /\ c = cur /\ k = got
    OBVIOUS
  <1>4. /\ n \in 1..Chunk /\ got + n <= disk[cur].length
        /\ HeaderAfter(0, Msg("data", cur, n))
        /\ \/ Header = Len(pipe) /\ ppc = "bytes" /\ file = cur /\ sent = got
           \/ BytesAfter(Header, cur, got, n) /\ BlockAfter(Header + n, cur, got + n)
    BY <1>1, <1>2, <1>3, InSync
  <1>5. PICK m : m = Msg("data", cur, n)
    OBVIOUS
  <1>a. m.type = "data" /\ m.length = n /\ n > 0
    BY <1>4, <1>5 DEF Msg
  <1>6. Taken(Header) /\ Header <= Len(pipe) /\ Received = {m}
    BY <1>1, <1>4, <1>5, <1>a, HeaderTaken
  <1>7. want' = n /\ cpc' = "body"
    BY <1>6, <1>a DEF CopyHeader
  <1>8. /\ cur' \in F /\ total' <= disk'[cur'].length /\ Copied(cur, got)' /\ got' <= disk'[cur'].length
        /\ got' < total' /\ want' = Size(cur, got)'
    <2>1. /\ cur \in F /\ total <= disk[cur].length /\ Copied(cur, got)
          /\ got <= disk[cur].length
      BY DEF Tracking
    <2>2. Copied(cur, got)'
      BY <1>1, <2>1 DEF Copied, Byte, Msg
    <2>3. Size(cur, got)' = Size(cur, got)
      BY <1>1 DEF Size
    <2> QED
      BY <1>1, <1>3, <1>7, <2>1, <2>2, <2>3
  <1>9. c \in F /\ k \in Nat /\ n \in Nat /\ disk[c].length \in Nat
    <2>1. cur \in F /\ got \in Nat
      BY <1>1 DEF Types, TypeOK, Tracking
    <2>2. disk[cur].length \in Nat
      BY <2>1, DiskFacts
    <2>3. n \in Nat
      BY <1>4
    <2> QED
      BY <1>3, <2>1, <2>2, <2>3
  <1>10. CASE Header = Len(pipe) /\ ppc = "bytes" /\ file = cur /\ sent = got
    <2>1. Len(pipe') = 0 /\ pipe' \in Seq(Cell)
      <3>1. pipe' \in Seq(Cell)
        BY <1>1, TakeTypes
      <3> QED
        BY <1>6, <1>10, <3>1 DEF Taken
    <2>2. pipe' = <<>>
      BY <2>1
    <2> QED
      BY <1>1, <1>7, <1>8, <1>10, <2>2 DEF Tracking
  <1>11. CASE BytesAfter(Header, cur, got, n) /\ BlockAfter(Header + n, cur, got + n)
    <2>1. 0 + Header = Header /\ n + Header = Header + n /\ 0 \in Nat
      BY <1>9
    <2>2. BytesAfter(0, c, k, n)'
      BY <1>3, <1>6, <1>9, <1>11, <2>1, ShiftBytes
    <2>3. PICK e : e = k + n
      OBVIOUS
    <2>4. e \in Nat /\ e <= disk[c].length
      BY <1>3, <1>4, <1>9, <2>3
    <2>5. BlockAfter(n, c, e)'
      <3>1. BlockAfter(n + Header, c, e)
        BY <1>3, <1>11, <2>1, <2>3
      <3> QED
        BY <1>6, <1>9, <2>4, <3>1, ShiftBlock
    <2>6. BytesAfter(0, cur, got, want)' /\ BlockAfter(want, cur, got + want)'
      BY <1>1, <1>3, <1>7, <2>2, <2>3, <2>5
    <2> QED
      BY <1>1, <1>7, <1>8, <2>6 DEF Tracking
  <1> QED
    BY <1>1, <1>4, <1>7, <1>10, <1>11

LEMMA TrackBytes ==
    ASSUME Types, Tracking, CopyBytes
    PROVE  Tracking' /\ cpc' = "copy" /\ UNCHANGED <<cur, total>>
  <1> USE Bounds
  <1>1. /\ cpc = "body" /\ Take(want) /\ got' = got + Len(Got(want)) /\ cpc' = "copy"
        /\ copy' = [copy EXCEPT ![cur] = copy[cur] \o Got(want)]
        /\ UNCHANGED <<disk, ppc, file, sent, cur, total>>
    BY DEF CopyBytes, parentVars
  <1>2. PICK w, c, k : w = want /\ c = cur /\ k = got
    OBVIOUS
  <1>3. c \in F /\ k \in Nat /\ w \in Nat \ {0} /\ disk[c].length \in Nat
        /\ pipe \in Seq(Cell) /\ pipe # <<>> /\ Len(pipe) \in Nat /\ Len(pipe) > 0
    <2>1. cur \in F
      BY DEF Tracking
    <2> QED
      BY <1>1, <1>2, <2>1, DiskFacts DEF Types, TypeOK, Take
  <1>4. k < total /\ w = Size(c, k) /\ total <= disk[c].length /\ total \in Int
        /\ BytesAfter(0, c, k, w) /\ BlockAfter(w, c, k + w)
    BY <1>1, <1>2, <1>3 DEF Tracking, Types, TypeOK
  <1>5. k + w <= disk[c].length
    BY <1>3, <1>4, SizeFacts
  <1>6. w <= Len(pipe) /\ \A j \in 1..w : pipe[0 + j] = Byte(c, k + j)
    BY <1>3, <1>4 DEF BytesAfter
  <1>7. Min2(w, Len(pipe)) = w
    BY <1>3, <1>6 DEF Min2
  <1>8. Taken(w)
    BY <1>1, <1>2, <1>3, <1>7, TakeIsTaken
  <1>9. Got(w) \in Seq(Cell) /\ Len(Got(w)) = w /\ \A j \in 1..w : Got(w)[j] = pipe[j]
    <2>1. Take(w)
      BY <1>1, <1>2
    <2> QED
      BY <1>3, <1>7, <2>1, TakeFacts
  <1>10. ASSUME NEW j \in 1..w PROVE Got(w)[j] = Byte(c, k + j)
    <2>1. 0 + j = j
      BY <1>3
    <2> QED
      BY <1>6, <1>9, <2>1
  <1>11. Copied(c, k) /\ copy[c] \in Seq(Cell)
    BY <1>2, <1>3 DEF Tracking, Types
  <1>12. Copied(c, k + w)'
    <2> DEFINE a == copy[c]
               b == Got(w)
               d == a \o b
    <2>1. copy'[c] = d
      BY <1>1, <1>2, <1>3 DEF Types
    <2>2. /\ a \in Seq(Cell) /\ b \in Seq(Cell) /\ Len(a) = k /\ Len(b) = w
          /\ \A j \in 1..k : a[j] = Byte(c, j)
          /\ \A j \in 1..w : b[j] = Byte(c, k + j)
      BY <1>9, <1>10, <1>11 DEF Copied
    <2> HIDE DEF a, b
    <2>3. /\ Len(d) = k + w
          /\ \A i \in 1..k + w : d[i] = IF i <= k THEN a[i] ELSE b[i - k]
      BY <2>2, ConcatProperties
    <2> HIDE DEF d
    <2>4. ASSUME NEW i \in 1..k + w PROVE d[i] = Byte(c, i)
      <3>1. CASE i <= k
        BY <1>3, <2>2, <2>3, <3>1
      <3>2. CASE ~(i <= k)
        <4> DEFINE j == i - k
        <4>1. j \in 1..w /\ k + j = i
          BY <1>3, <3>2
        <4> HIDE DEF j
        <4>2. b[j] = Byte(c, i)
          BY <2>2, <4>1
        <4> QED
          BY <2>3, <3>2, <4>2 DEF j
      <3> QED
        BY <3>1, <3>2
    <2> QED
      BY <2>1, <2>3, <2>4 DEF Copied, Byte, Msg
  <1>13. got' = k + w
    BY <1>1, <1>2, <1>9
  <1>14. BlockAfter(0, c, k + w)'
    <2>1. PICK e : e = k + w
      OBVIOUS
    <2>2. e \in Nat /\ e <= disk[c].length /\ 0 + w = w
      BY <1>3, <1>5, <2>1
    <2>3. BlockAfter(0 + w, c, e)
      BY <1>4, <2>1, <2>2
    <2>4. BlockAfter(0, c, e)'
      BY <1>3, <1>8, <2>2, <2>3, ShiftBlock
    <2> QED
      BY <2>1, <2>4
  <1>15. Copied(cur, got)' /\ BlockAfter(0, cur, got)'
    BY <1>1, <1>2, <1>12, <1>13, <1>14
  <1>16. cur' \in F /\ total' <= disk'[cur'].length /\ got' <= disk'[cur'].length
    BY <1>1, <1>2, <1>3, <1>4, <1>5, <1>13
  <1> QED
    BY <1>1, <1>15, <1>16 DEF Tracking

(* A FILE_INFO at the front of the pipe, and what comes behind it.         *)
LEMMA InfoReceived ==
    ASSUME Types, StreamInv, InfoOrder, Take(Header), UNCHANGED <<disk, ppc, file, sent>>,
           Begins, pipe[1].msg.type = "info", NEW f, f = pipe[1].msg.file
    PROVE  /\ f \in F /\ disk[f].exists /\ Received = {Info(f)}
           /\ BlockAfter(0, f, 0)'
           /\ file >= f
           /\ \A i \in 1..Len(pipe') : Announced(i)' => pipe'[i].msg.file >= f
           /\ Announced(1) /\ pipe[1].msg.file = f /\ Len(pipe) >= 1
  <1> USE Bounds
  <1>1. pipe # <<>> /\ Len(pipe) \in Nat /\ Len(pipe) >= 1
    BY DEF Take, Types
  <1>2. /\ pipe[1].at = 1 /\ f \in F /\ disk[f].exists /\ pipe[1].msg = Info(f)
        /\ Received = {Info(f)}
    BY <1>1, ReceivedFacts DEF Begins
  <1>3. Announced(1) /\ pipe[1].msg.file = f /\ pipe[1].msg.type # "bytes"
    BY <1>2 DEF Announced, Info, Msg
  <1>4. 1 \in 1..Len(pipe) /\ 1 - 1 = 0
    BY <1>1
  <1>5. HeaderAfter(0, Info(f))
    BY <1>2, <1>3, <1>4 DEF StreamInv
  <1>6. BlockAfter(0 + Header, f, 0)
    BY <1>1, <1>2, <1>5 DEF StreamInv
  <1>7. Taken(Header)
    <2>1. PICK m : m = Info(f)
      OBVIOUS
    <2>2. m.type # "bytes"
      BY <2>1 DEF Info, Msg
    <2> QED
      BY <1>5, <2>1, <2>2, HeaderTaken
  <1>8. BlockAfter(0, f, 0)'
    BY <1>2, <1>6, <1>7, ShiftBlock, DiskFacts
  <1>9. file >= f
    BY <1>2, <1>3, <1>4 DEF InfoOrder, Types, TypeOK, F
  <1>10. ASSUME NEW i \in 1..Len(pipe'), Announced(i)' PROVE pipe'[i].msg.file >= f
    <2> DEFINE a == i + Header
    <2>1. a \in 1..Len(pipe) /\ a > 1 /\ pipe'[i] = pipe[a]
      BY <1>1, <1>7 DEF Taken
    <2> HIDE DEF a
    <2>2. Announced(a)
      BY <1>10, <2>1 DEF Announced
    <2>3. pipe[a] \in Cell
      BY <2>1 DEF Types
    <2>4. pipe[a].msg.file \in F
      BY <2>2, <2>3 DEF Cell, Messages, Announced, Done, Msg
    <2>5. pipe[1].msg.file <= pipe[a].msg.file
      BY <1>3, <1>4, <2>1, <2>2 DEF InfoOrder
    <2> QED
      BY <1>2, <1>3, <2>1, <2>4, <2>5 DEF F
  <1> QED
    BY <1>1, <1>2, <1>3, <1>8, <1>9, <1>10

LEMMA TrackCreate ==
    ASSUME Types, StreamInv, InfoOrder, CreateCopy, Begins, NEW f, f = pipe[1].msg.file,
           disk[f].creatable, ToInt(disk[f].size) <= disk[f].length
    PROVE  /\ Tracking' /\ cpc' = "copy" /\ cur' = f /\ total' = ToInt(disk[f].size)
           /\ copy' = [copy EXCEPT ![f] = <<>>] /\ disk' = disk
  <1>1. Take(Header) /\ UNCHANGED <<disk, ppc, file, sent>>
    BY DEF CreateCopy, parentVars
  <1>2. PICK m \in Received :
           /\ m.type = "info"
           /\ IF Creatable(m.file)
              THEN /\ copy' = [copy EXCEPT ![m.file] = <<>>]
                   /\ cur' = m.file /\ total' = m.length /\ got' = 0
                   /\ cpc' = "copy"
              ELSE UNCHANGED <<copy, cur, total, got, cpc>>
    BY DEF CreateCopy
  <1>3. m = pipe[1].msg
    BY <1>1, ReceivedFacts DEF Take
  <1>4. f \in F /\ Received = {Info(f)} /\ BlockAfter(0, f, 0)'
    BY <1>1, <1>2, <1>3, InfoReceived
  <1>5. m.file = f /\ m.length = ToInt(disk[f].size) /\ Creatable(f)
    BY <1>4 DEF Info, Msg, Creatable
  <1>6. /\ copy' = [copy EXCEPT ![f] = <<>>]
        /\ cur' = f /\ total' = ToInt(disk[f].size) /\ got' = 0 /\ cpc' = "copy"
    BY <1>2, <1>5
  <1>7. copy'[f] = <<>>
    BY <1>4, <1>6 DEF Types
  <1>8. Copied(f, 0)'
    BY <1>7 DEF Copied
  <1>9. Copied(cur, got)' /\ BlockAfter(0, cur, got)'
    BY <1>4, <1>6, <1>8
  <1>10. cur' \in F /\ total' <= disk'[cur'].length /\ got' <= disk'[cur'].length
    BY <1>1, <1>4, <1>6, DiskFacts
  <1> QED
    BY <1>1, <1>6, <1>9, <1>10 DEF Tracking
-----------------------------------------------------------------------------
(* The copies, one step at a time.                                         *)
LEMMA SameCopy ==
    ASSUME NEW f, NEW n, copy'[f] = copy[f], Copied(f, n)
    PROVE  Copied(f, n)'
  BY DEF Copied, Byte, Msg

LEMMA ChildFrame ==
    ASSUME Types, Child
    PROVE  /\ UNCHANGED <<disk, ppc, file, sent>>
           /\ CreateCopy \/ CopyBytes \/ UNCHANGED copy
           /\ cpc' \in {"copy", "body"} =>
                 CreateCopy \/ CopyHeader \/ CopyBytes \/ (ChildEof /\ cpc = "body")
  <1>1. cpc' \in {"copy", "body"} =>
           CreateCopy \/ CopyHeader \/ CopyBytes \/ (ChildEof /\ cpc = "body")
    BY DEF Child, ChildOpen, Greet, Unknown, CopyDone, ChildDone, ChildEof, childVars
  <1>2. CreateCopy \/ CopyBytes \/ UNCHANGED copy
    BY DEF Child, ChildOpen, Greet, Unknown, CopyHeader, CopyDone, ChildDone, ChildEof, childVars
  <1>3. UNCHANGED <<disk, ppc, file, sent>>
    BY DEF Child, ChildOpen, Greet, CreateCopy, Unknown, CopyHeader, CopyBytes, CopyDone,
           ChildDone, ChildEof, parentVars
  <1> QED
    BY <1>1, <1>2, <1>3

(* A child that can follow does not meet the end in the middle of a file.  *)
LEMMA NoEofInside ==
    ASSUME Types, Tracking, cpc \in {"copy", "body"}, cpc = "copy" => got < total
    PROVE  ~AtEof
  <1>1. SUFFICES ASSUME pipe = <<>>, ppc \in {"wait", "exited"} PROVE FALSE
    BY DEF AtEof
  <1>2. cur \in F /\ got \in Nat /\ total \in Int /\ disk[cur].length \in Nat /\ want \in Nat
        /\ Header \in Nat \ {0} /\ Len(pipe) = 0
    <2>1. cur \in F
      BY DEF Tracking
    <2> QED
      BY <1>1, <2>1, DiskFacts, Bounds DEF Types, TypeOK
  <1>3. CASE cpc = "copy"
    <2>1. got < disk[cur].length /\ BlockAfter(0, cur, got)
      BY <1>2, <1>3 DEF Tracking
    <2>2. \A m : ~HeaderAfter(0, m)
      BY <1>2 DEF HeaderAfter
    <2> QED
      BY <1>1, <1>2, <2>1, <2>2 DEF BlockAfter, Whole
  <1>4. CASE cpc = "body"
    <2>1. want > 0 /\ BytesAfter(0, cur, got, want)
      BY <1>1, <1>4 DEF Tracking, Types
    <2> QED
      BY <1>2, <2>1 DEF BytesAfter
  <1> QED
    BY <1>3, <1>4

(* What a child that begins a copy does to it and to the others.           *)
LEMMA CreateFacts ==
    ASSUME Types, CreateCopy
    PROVE  /\ cpc = "header" /\ Take(Header) /\ pipe # <<>>
           /\ \E m \in Received :
                 /\ m.type = "info" /\ m.file \in F \cup {0}
                 /\ (Begins /\ m = pipe[1].msg) \/ m.file \in Odd
                 /\ \A f \in F : f # m.file => copy'[f] = copy[f]
                 /\ Creatable(m.file) => cur' = m.file /\ cpc' = "copy"
                 /\ ~Creatable(m.file) => UNCHANGED <<copy, cur, total, got, cpc>>
  <1>1. cpc = "header" /\ Take(Header) /\ pipe # <<>>
    BY DEF CreateCopy, Take
  <1>2. PICK m \in Received :
           /\ m.type = "info"
           /\ IF Creatable(m.file)
              THEN /\ copy' = [copy EXCEPT ![m.file] = <<>>]
                   /\ cur' = m.file /\ total' = m.length /\ got' = 0
                   /\ cpc' = "copy"
              ELSE UNCHANGED <<copy, cur, total, got, cpc>>
    BY DEF CreateCopy
  <1>3. m.file \in F \cup {0} /\ (Begins \/ m.file \in Odd)
    BY <1>1, <1>2, Understood
  <1>4. Begins => m = pipe[1].msg
    BY <1>1, ReceivedFacts
  <1>5. ASSUME NEW f \in F, f # m.file PROVE copy'[f] = copy[f]
    BY <1>2, <1>3, <1>5 DEF Types
  <1> QED
    BY <1>1, <1>2, <1>3, <1>4, <1>5

LEMMA OwnStep ==
    ASSUME Types, cpc # "exited" => StreamInv /\ InfoOrder, OwnInv, Parent \/ Child
    PROVE  OwnInv'
  <1>1. disk' = disk
    BY ParentFrame, ChildFrame
  <1>2. SUFFICES ASSUME NoneShrank
                 PROVE  /\ \A f \in F \ Odd : \E n \in 0..disk'[f].length : Copied(f, n)'
                        /\ cpc' \in {"copy", "body"} => cur' \in Odd \/ Tracking'
    BY <1>1 DEF OwnInv, NoneShrank
  <1>3. /\ \A f \in F \ Odd : \E n \in 0..disk[f].length : Copied(f, n)
        /\ cpc \in {"copy", "body"} => cur \in Odd \/ Tracking
    BY <1>2 DEF OwnInv
  <1>4. ASSUME NEW f \in F \ Odd, copy'[f] = copy[f]
        PROVE  \E n \in 0..disk'[f].length : Copied(f, n)'
    BY <1>1, <1>3, <1>4, SameCopy
  <1>5. CASE Parent
    <2>1. /\ UNCHANGED <<copy, cur>>
          /\ cpc' \in {"copy", "body"} => cpc \in {"copy", "body"}
      BY <1>5 DEF Parent, Fork, ParentOpen, ReadReady, SkipMissing, SendInfo, SendHeader,
                  SendBytes, FileSent, SendDone, CloseEnds, WaitChild, BrokenPipe, childVars
    <2> QED
      BY <1>3, <1>4, <1>5, <2>1, TrackParent
  <1>6. CASE CopyHeader
    <2>1. cpc = "copy" /\ UNCHANGED <<cur, copy>>
      BY <1>6 DEF CopyHeader
    <2>2. Tracking => Tracking'
      BY <1>6, <2>1, TrackHeader
    <2> QED
      BY <1>3, <1>4, <2>1, <2>2
  <1>7. CASE CopyBytes
    <2>1. cpc = "body" /\ UNCHANGED cur /\ cur \in F \cup {0}
      BY <1>7 DEF CopyBytes, Types, TypeOK, F
    <2>2. \A f \in F : f # cur => copy'[f] = copy[f]
      BY <1>7, <2>1 DEF Types, CopyBytes
    <2>3. CASE cur \in Odd
      BY <1>4, <2>1, <2>2, <2>3
    <2>4. CASE cur \notin Odd
      <3>1. Tracking' /\ cur \in F
        BY <1>3, <1>7, <2>1, <2>4, TrackBytes DEF Tracking
      <3>2. PICK c, k : c = cur /\ k = got'
        OBVIOUS
      <3>3. Copied(c, k)' /\ k \in 0..disk'[c].length
        <4>1. got' \in Nat
          <5>1. Types'
            BY <1>7, ChildTypes DEF Child
          <5> QED
            BY <5>1 DEF Types
        <4>2. Copied(cur, got)' /\ got' <= disk'[cur'].length
          BY <3>1 DEF Tracking
        <4>3. disk[c].length \in Nat
          BY <3>1, <3>2, DiskFacts
        <4> QED
          BY <1>1, <2>1, <3>2, <4>1, <4>2, <4>3 DEF Copied, Byte
      <3> QED
        BY <1>4, <2>2, <3>1, <3>2, <3>3
    <2> QED
      BY <2>3, <2>4
  <1>8. CASE CreateCopy
    <2>1. PICK m \in Received :
             /\ m.type = "info" /\ m.file \in F \cup {0}
             /\ (Begins /\ m = pipe[1].msg) \/ m.file \in Odd
             /\ \A f \in F : f # m.file => copy'[f] = copy[f]
             /\ Creatable(m.file) => cur' = m.file /\ cpc' = "copy"
             /\ ~Creatable(m.file) => UNCHANGED <<copy, cur, total, got, cpc>>
      BY <1>8, CreateFacts
    <2>2. PICK f : f = m.file
      OBVIOUS
    <2>3. CASE ~Creatable(f)
      <3>1. UNCHANGED <<copy, cpc>> /\ cpc = "header"
        BY <1>8, <2>1, <2>2, <2>3, CreateFacts
      <3> QED
        BY <1>4, <3>1
    <2>4. CASE Creatable(f) /\ f \in Odd
      BY <1>4, <2>1, <2>2, <2>4
    <2>5. CASE Creatable(f) /\ f \notin Odd
      <3>1. Begins /\ m = pipe[1].msg /\ f \in F /\ disk[f].creatable
        <4>1. Begins /\ m = pipe[1].msg /\ f \in F
          BY <2>1, <2>2, <2>5 DEF Odd
        <4> QED
          BY <2>5, <4>1, Bounds DEF Creatable, F
      <3>2. ToInt(disk[f].size) <= disk[f].length
        <4>1. disk[f].size \in Nat /\ disk[f].length \in Nat /\ disk[f].length >= disk[f].size
          BY <1>2, <3>1, DiskFacts DEF NoneShrank
        <4>2. ToInt(disk[f].size) <= disk[f].size /\ ToInt(disk[f].size) \in Int
          BY <4>1, ToIntFacts, Bounds
        <4> QED
          BY <4>1, <4>2
      <3>3. cpc # "exited"
        BY <1>8 DEF CreateCopy
      <3>4. Tracking' /\ copy' = [copy EXCEPT ![f] = <<>>]
        BY <1>8, <2>2, <3>1, <3>2, <3>3, TrackCreate
      <3>5. copy'[f] = <<>>
        BY <3>1, <3>4 DEF Types
      <3>6. Copied(f, 0)' /\ 0 \in 0..disk'[f].length
        BY <1>1, <3>1, <3>5, DiskFacts DEF Copied
      <3> QED
        BY <1>4, <2>1, <2>2, <3>4, <3>6
    <2> QED
      BY <2>3, <2>4, <2>5
  <1>9. CASE ChildEof /\ cpc = "body"
    <2>1. AtEof /\ UNCHANGED <<cur, copy>>
      BY <1>9 DEF ChildEof
    <2> QED
      BY <1>3, <1>4, <1>9, <2>1, NoEofInside
  <1> QED
    BY <1>4, <1>5, <1>6, <1>7, <1>8, <1>9, ChildFrame

LEMMA FinishedStays ==
    ASSUME disk' = disk, NEW n \in 0..Files, Finished(n), \A f \in 1..n : copy'[f] = copy[f]
    PROVE  Finished(n)'
  <1>1. ASSUME NEW f \in 1..n PROVE Sound(f)' /\ Copied(f, disk[f].length)'
    <2>1. Sound(f) /\ Copied(f, disk[f].length)
      BY DEF Finished
    <2> QED
      BY <2>1 DEF Sound, Copied, Byte, Msg
  <1> QED
    BY <1>1 DEF Finished

LEMMA MissingStays ==
    ASSUME disk' = disk, Missing, \A f \in F : disk[f].exists \/ copy'[f] = copy[f]
    PROVE  Missing'
  BY DEF Missing

LEMMA SparedStays ==
    ASSUME disk' = disk, NEW n \in 0..Files, Spared(n), \A f \in (1..n) \ Odd : copy'[f] = copy[f]
    PROVE  Spared(n)'
  BY DEF Spared, Copied, Byte, Msg

LEMMA FaithParent ==
    ASSUME Types, FaithInv, Parent
    PROVE  FaithInv'
  <1> USE Bounds
  <1>1. PICK n \in 0..Files :
           \/ /\ Finished(n) /\ Missing
              /\ Unborn(n) \/ Awaiting(n) \/ Copying(n) \/ Over(n)
           \/ Spared(n) /\ Lost(n)
    BY DEF FaithInv
  <1>2. /\ disk' = disk /\ Longer /\ UNCHANGED <<cur, total, got, want, copy>>
        /\ cpc' = cpc \/ (ppc = "create" /\ cpc = "none" /\ pipe = <<>> /\ UNCHANGED pipe)
    BY ParentFrame
  <1>3. /\ Finished(n) => Finished(n)'
        /\ Spared(n) => Spared(n)'
        /\ Missing => Missing'
    BY <1>2, FinishedStays, SparedStays, MissingStays
  <1>5. ASSUME ~GivesUp, cpc # "exited", FileAfter(0, n) PROVE FileAfter(0, n)'
    BY <1>5, GrowFile
  <1>6. ASSUME Unborn(n) PROVE Unborn(n)' \/ Awaiting(n)'
    <2>1. Fork
      BY <1>6 DEF Unborn, Types, Parent, ParentOpen, ReadReady, SkipMissing, SendInfo,
                  SendHeader, SendBytes, FileSent, SendDone, CloseEnds, WaitChild, BrokenPipe
    <2>2. CASE GivesUp
      BY <1>6, <2>1, <2>2 DEF Unborn, GivesUp, Fork
    <2>3. CASE ~GivesUp
      <3>1. FileAfter(0, n)' /\ cpc' \in {"open1", "greet"}
        BY <1>5, <1>6, <2>1, <2>3 DEF Unborn, Fork, GivesUp
      <3> QED
        BY <3>1 DEF Awaiting
    <2> QED
      BY <2>2, <2>3
  <1>7. ASSUME Awaiting(n) PROVE Awaiting(n)'
    <2>1. cpc' = cpc /\ ~GivesUp
      BY <1>2, <1>7 DEF Awaiting, Types, GivesUp
    <2> QED
      BY <1>5, <1>7, <2>1 DEF Awaiting
  <1>8. ASSUME Copying(n) PROVE Copying(n)'
    <2>1. Tracking' /\ cpc' = cpc
      BY <1>8, TrackParent DEF Copying
    <2> QED
      BY <1>2, <1>8, <2>1 DEF Copying, Skipped, Sound
  <1>9. ASSUME Over(n) PROVE Over(n)'
    BY <1>2, <1>9 DEF Over, Skipped
  <1>10. ASSUME Lost(n) PROVE Lost(n)'
    <2>1. PICK u \in n + 1..Files :
             /\ ~Sound(u) /\ Skipped(n, u)
             /\ cpc \in {"copy", "body"} => cur >= u \/ cur \in Odd
             /\ \A i \in 1..Len(pipe) : (Announced(i) => pipe[i].msg.file >= u)
             /\ file >= u
      BY <1>10 DEF Lost
    <2>2. ~Sound(u)' /\ Skipped(n, u)'
      BY <1>2, <2>1 DEF Sound, Skipped
    <2>3. cpc' \in {"copy", "body"} => cur' >= u \/ cur' \in Odd
      BY <1>2, <2>1
         DEF Parent, Fork, ParentOpen, ReadReady, SkipMissing, SendInfo, SendHeader,
             SendBytes, FileSent, SendDone, CloseEnds, WaitChild, BrokenPipe, childVars
    <2>4. file' \in {file, file + 1} /\ file \in Nat
      BY DEF Parent, Fork, ParentOpen, ReadReady, SkipMissing, SendInfo, SendHeader,
             SendBytes, FileSent, SendDone, CloseEnds, WaitChild, BrokenPipe, Types, TypeOK
    <2>5. file' >= u
      BY <2>1, <2>4
    <2>6. PICK l : l = Len(pipe)
      OBVIOUS
    <2>7. ASSUME NEW i \in 1..Len(pipe'), Announced(i)' PROVE pipe'[i].msg.file >= u
      <3>1. pipe'[i].msg.type = "info"
        BY <2>7 DEF Announced
      <3>2. CASE i \in 1..l
        <4>1. pipe'[i] = pipe[i]
          BY <1>2, <2>6, <3>2 DEF Longer
        <4> QED
          BY <2>1, <2>6, <3>1, <3>2, <4>1 DEF Announced
      <3>3. CASE i \in l + 1..Len(pipe')
        <4>1. ~UNCHANGED pipe
          BY <2>6, <3>3 DEF Types
        <4>2. PICK m \in Messages :
                /\ \/ SendInfo /\ m = Info(file)
                   \/ SendHeader /\ m = Msg("data", file, Block)
                   \/ SendDone /\ m = Done
                /\ \A j \in l + 1..Len(pipe') : pipe'[j] = [msg |-> m, at |-> j - l]
          BY <2>6, <3>1, <3>3, <4>1, ParentCells
        <4>3. pipe'[i] = [msg |-> m, at |-> i - l]
          BY <3>3, <4>2
        <4>4. pipe'[i].msg = m
          BY <4>3
        <4>5. m.file = file
          BY <3>1, <4>2, <4>4 DEF Info, Msg, Done
        <4> QED
          BY <2>1, <4>4, <4>5
      <3> QED
        BY <2>6, <3>2, <3>3 DEF Types
    <2> QED
      BY <2>1, <2>2, <2>3, <2>5, <2>7 DEF Lost
  <1> QED
    BY <1>1, <1>3, <1>6, <1>7, <1>8, <1>9, <1>10 DEF FaithInv

(* Past the last file of the run of sound ones, nothing is announced that  *)
(* is not the first unsound one or behind it.                              *)
LEMMA LostStays ==
    ASSUME Types, StreamInv, InfoOrder, Child, NEW n \in 0..Files, Spared(n), Lost(n)
    PROVE  Spared(n)' /\ Lost(n)'
  <1> USE Bounds
  <1>1. PICK u \in n + 1..Files :
           /\ ~Sound(u) /\ Skipped(n, u)
           /\ cpc \in {"copy", "body"} => cur >= u \/ cur \in Odd
           /\ \A i \in 1..Len(pipe) : (Announced(i) => pipe[i].msg.file >= u)
           /\ file >= u
    BY DEF Lost
  <1>2. UNCHANGED <<disk, ppc, file, sent>>
    BY ChildFrame
  <1>3. ~Sound(u)' /\ Skipped(n, u)'
    BY <1>1, <1>2 DEF Sound, Skipped
  <1>4. ASSUME NEW i \in 1..Len(pipe'), Announced(i)' PROVE pipe'[i].msg.file >= u
    <2>1. PICK s : Taken(s)
      BY ChildTakes
    <2> DEFINE a == i + s
    <2>2. a \in 1..Len(pipe) /\ pipe'[i] = pipe[a]
      BY <2>1 DEF Taken, Types
    <2> HIDE DEF a
    <2> QED
      BY <1>1, <1>4, <2>2 DEF Announced
  <1>5. /\ cpc' \in {"copy", "body"} => cur' >= u \/ cur' \in Odd
        /\ \A f \in (1..n) \ Odd : copy'[f] = copy[f]
    <2>0. \A f \in (1..n) \ Odd : f \in F /\ f < u
      BY DEF F
    <2>1. CASE CreateCopy
      <3>1. cpc = "header" /\ Take(Header) /\ pipe # <<>> /\ UNCHANGED <<disk, ppc, file, sent>>
        BY <1>2, <2>1, CreateFacts
      <3>2. PICK m \in Received :
               /\ m.type = "info" /\ m.file \in F \cup {0}
               /\ (Begins /\ m = pipe[1].msg) \/ m.file \in Odd
               /\ \A f \in F : f # m.file => copy'[f] = copy[f]
               /\ Creatable(m.file) => cur' = m.file /\ cpc' = "copy"
               /\ ~Creatable(m.file) => UNCHANGED <<copy, cur, total, got, cpc>>
        BY <2>1, CreateFacts
      <3>3. m.file >= u \/ m.file \in Odd
        <4>1. ASSUME Begins, m = pipe[1].msg PROVE m.file >= u
          <5>1. Announced(1) /\ Len(pipe) >= 1
            BY <3>1, <3>2, <4>1, InfoReceived
          <5> QED
            BY <1>1, <4>1, <5>1 DEF Types
        <4> QED
          BY <3>2, <4>1
      <3>4. \A f \in (1..n) \ Odd : f # m.file
        BY <2>0, <3>2, <3>3 DEF F
      <3> QED
        BY <2>0, <3>1, <3>2, <3>3, <3>4
    <2>2. CASE CopyBytes
      <3>1. /\ cur >= u \/ cur \in Odd
            /\ UNCHANGED cur /\ copy' = [copy EXCEPT ![cur] = copy[cur] \o Got(want)]
            /\ cur \in F \cup {0}
        BY <1>1, <2>2 DEF CopyBytes, Types, TypeOK, F
      <3>2. \A f \in (1..n) \ Odd : f # cur
        BY <2>0, <3>1 DEF F
      <3> QED
        BY <2>0, <3>1, <3>2 DEF Types
    <2>3. CASE CopyHeader
      BY <1>1, <2>3 DEF CopyHeader
    <2>4. CASE ChildEof /\ cpc = "body"
      BY <1>1, <2>4 DEF ChildEof
    <2> QED
      BY <2>1, <2>2, <2>3, <2>4, ChildFrame
  <1>6. Spared(n)'
    BY <1>2, <1>5, SparedStays
  <1> QED
    BY <1>1, <1>2, <1>3, <1>4, <1>5, <1>6 DEF Lost

(* From the first file it cannot follow the child may go astray.           *)
LEMMA FinishedSpares ==
    ASSUME NEW n, Finished(n)'
    PROVE  Spared(n)'
  BY DEF Finished, Spared

(* What a child between two files finds.                                   *)
LEMMA AwaitingMoves ==
    ASSUME Types, StreamInv, InfoOrder, Child, NEW n \in 0..Files, Finished(n), Missing,
           Awaiting(n)
    PROVE  Finished(n)' /\ Missing' /\ (Awaiting(n)' \/ Copying(n)' \/ Over(n)' \/ Lost(n)')
  <1> USE Bounds
  <1>1. UNCHANGED <<disk, ppc, file, sent>>
    BY ChildFrame
  <1>2. cpc \in {"open1", "open2", "greet", "header"} /\ FileAfter(0, n)
    BY DEF Awaiting
  <1>3. CASE ChildOpen \/ Greet
    <2>1. UNCHANGED <<pipe, copy>> /\ cpc' \in {"open1", "open2", "greet", "header"}
      BY <1>3 DEF ChildOpen, Greet
    <2>2. Taken(0)
      BY <1>1, <2>1, NothingTaken
    <2>3. 0 + 0 = 0 /\ 0 \in Nat
      OBVIOUS
    <2>4. FileAfter(0, n)'
      BY <1>2, <2>2, <2>3, ShiftFile
    <2>5. Finished(n)' /\ Missing'
      BY <1>1, <2>1, FinishedStays, MissingStays
    <2> QED
      BY <2>1, <2>4, <2>5 DEF Awaiting
  <1>4. CASE ChildEof
    <2>1. pipe = <<>> /\ ppc \in {"wait", "exited"}
      BY <1>4 DEF ChildEof, AtEof
    <2>2. \A m : ~HeaderAfter(0, m)
      BY <2>1 DEF HeaderAfter
    <2> QED
      BY <1>2, <2>1, <2>2 DEF FileAfter
  <1>5. ASSUME cpc = "header", Take(Header), CreateCopy \/ Unknown \/ ChildDone
        PROVE  Finished(n)' /\ Missing' /\ (Copying(n)' \/ Over(n)' \/ Lost(n)')
    <2>1. 0 # Len(pipe)
      BY <1>5 DEF Take, Types
    <2>2. ASSUME NEW g \in n + 1..Files, disk[g].exists, Skipped(n, g), HeaderAfter(0, Info(g))
          PROVE  Finished(n)' /\ Missing' /\ (Copying(n)' \/ Lost(n)')
      <3>1. PICK m : m = Info(g)
        OBVIOUS
      <3>a. m.type = "info" /\ m.file = g
        BY <3>1 DEF Info, Msg
      <3>2. Received = {m} /\ Begins /\ pipe[1].msg = m
        <4>1. HeaderAfter(0, m) /\ m.type # "bytes"
          BY <2>2, <3>1, <3>a
        <4>2. Received = {m} /\ Begins /\ pipe[1] = [msg |-> m, at |-> 1]
          BY <1>1, <1>5, <4>1, HeaderTaken
        <4> QED
          BY <4>2
      <3>3. CreateCopy
        BY <1>5, <3>2, <3>a DEF Unknown, ChildDone
      <3>4. /\ g \in F /\ file >= g
            /\ \A i \in 1..Len(pipe') : Announced(i)' => pipe'[i].msg.file >= g
        BY <1>1, <1>5, <3>2, <3>a, InfoReceived
      <3>5. Skipped(n, g)' /\ Sound(g)' = Sound(g)
        BY <1>1 , <2>2 DEF Skipped, Sound
      <3>6. /\ disk[g].creatable => cur' = g /\ cpc' = "copy"
            /\ ~disk[g].creatable => UNCHANGED <<copy, cur, cpc>>
            /\ \A f \in F : f # g => copy'[f] = copy[f]
        <4>1. Creatable(g) <=> disk[g].creatable
          BY <3>4 DEF Creatable, F
        <4> QED
          BY <3>2, <3>3, <3>a, <4>1, CreateFacts
      <3>7. \A f \in 1..n : copy'[f] = copy[f]
        BY <2>2, <3>4, <3>6 DEF F
      <3>8. Finished(n)' /\ Missing'
        BY <1>1, <2>2, <3>6, <3>7, FinishedStays, MissingStays
      <3>9. CASE Sound(g)
        <4>1. /\ disk[g].creatable /\ disk[g].size = disk[g].length /\ disk[g].size < IntLimit
              /\ disk[g].size \in Nat
          BY <2>2, <3>4, <3>9, DiskFacts DEF Sound
        <4>2. ToInt(disk[g].size) = disk[g].length
          BY <4>1, ToIntFacts
        <4>3. Tracking' /\ cpc' = "copy" /\ cur' = g /\ total' = disk[g].length
          BY <3>2, <3>3, <3>4, <3>a, <4>1, <4>2, TrackCreate
        <4>4. cur' > n /\ Skipped(n, cur)' /\ Sound(cur)' /\ total' = disk'[cur'].length
          BY <1>1, <2>2, <3>5, <3>9, <4>3 DEF Skipped, Sound
        <4> QED
          BY <3>8, <4>3, <4>4 DEF Copying
      <3>10. CASE ~Sound(g)
        <4>1. ~Sound(g)'
          BY <3>5, <3>10
        <4>2. cpc' \in {"copy", "body"} => cur' >= g \/ cur' \in Odd
          BY <1>5, <3>4, <3>6 DEF F
        <4> QED
          BY <1>1, <2>2, <3>4, <3>5, <3>8, <4>1, <4>2 DEF Lost
      <3> QED
        BY <3>8, <3>9, <3>10
    <2>3. ASSUME \A g \in n + 1..Files : ~disk[g].exists, HeaderAfter(0, Done)
          PROVE  Finished(n)' /\ Missing' /\ Over(n)'
      <3>1. PICK m : m = Done
        OBVIOUS
      <3>2. m.type = "done"
        BY <3>1 DEF Done, Msg
      <3>3. ChildDone
        <4>1. Received = {m}
          BY <1>1, <1>5, <2>3, <3>1, <3>2, HeaderTaken
        <4> QED
          BY <1>5, <3>2, <4>1 DEF Unknown, CreateCopy
      <3>4. cpc' = "exited" /\ UNCHANGED copy
        BY <3>3 DEF ChildDone
      <3>5. Finished(n)' /\ Missing'
        BY <1>1, <3>4, FinishedStays, MissingStays
      <3>6. Skipped(n, Files + 1)'
        BY <1>1, <2>3 DEF Skipped
      <3> QED
        BY <3>4, <3>5, <3>6 DEF Over
    <2> QED
      BY <1>2, <2>1, <2>2, <2>3 DEF FileAfter, Skipped
  <1> QED
    BY <1>2, <1>3, <1>4, <1>5
       DEF Child, CreateCopy, Unknown, CopyHeader, CopyBytes, CopyDone, ChildDone

LEMMA CopyingMoves ==
    ASSUME Types, StreamInv, InfoOrder, Child, NEW n \in 0..Files, Finished(n), Missing, Copying(n)
    PROVE  FaithInv'
  <1> USE Bounds
  <1>1. UNCHANGED <<disk, ppc, file, sent>>
    BY ChildFrame
  <1>2. /\ cpc \in {"copy", "body"} /\ cur > n /\ Skipped(n, cur) /\ Sound(cur)
        /\ total = disk[cur].length /\ Tracking
    BY DEF Copying
  <1>3. cur \in F /\ disk[cur].length \in Nat /\ got \in Nat
    <2>1. cur \in F
      BY <1>2 DEF Tracking
    <2> QED
      BY <2>1, DiskFacts DEF Types
  <1>4. ASSUME Finished(n)', Missing', Tracking', cpc' \in {"copy", "body"}, UNCHANGED <<cur, total>>
        PROVE  FaithInv'
    <2>1. cur' > n /\ Skipped(n, cur)' /\ Sound(cur)' /\ total' = disk'[cur'].length
      BY <1>1, <1>2, <1>4 DEF Skipped, Sound
    <2>2. Copying(n)'
      BY <1>4, <2>1 DEF Copying
    <2> QED
      BY <1>4, <2>2 DEF FaithInv
  <1>5. CASE CopyHeader
    <2>1. Tracking' /\ cpc' = "body" /\ UNCHANGED <<cur, total, copy>>
      BY <1>2, <1>5, TrackHeader
    <2>2. Finished(n)' /\ Missing'
      BY <1>1, <2>1, FinishedStays, MissingStays
    <2> QED
      BY <1>4, <2>1, <2>2
  <1>6. CASE CopyBytes
    <2>1. Tracking' /\ cpc' = "copy" /\ UNCHANGED <<cur, total>>
      BY <1>2, <1>6, TrackBytes
    <2>2. copy' = [copy EXCEPT ![cur] = copy[cur] \o Got(want)]
      BY <1>6 DEF CopyBytes
    <2>3. \A f \in 1..n : copy'[f] = copy[f]
      BY <1>2, <1>3, <2>2 DEF Types, F
    <2>4. Finished(n)'
      BY <1>1, <2>3, FinishedStays
    <2>5. got < disk[cur].length /\ got >= 0
      <3>1. got < total
        BY <1>2, <1>6 DEF Tracking, CopyBytes
      <3> QED
        BY <1>2, <1>3, <3>1
    <2>6. disk[cur].exists
      BY <1>3, <2>5, DiskFacts
    <2>7. Missing'
      BY <1>1, <1>3, <2>2, <2>6, MissingStays DEF Types
    <2> QED
      BY <1>4, <2>1, <2>4, <2>7
  <1>7. CASE CopyDone
    <2>1. /\ cpc = "copy" /\ got >= total /\ cpc' = "header"
          /\ UNCHANGED <<copy, cur, pipe>>
      BY <1>7 DEF CopyDone
    <2>2. PICK c : c = cur
      OBVIOUS
    <2>3. got = disk[c].length /\ Copied(c, disk[c].length)
      BY <1>2, <1>3, <2>1, <2>2 DEF Tracking
    <2>4. FileAfter(0, c)
      <3>1. BlockAfter(0, c, got)
        BY <1>2, <2>1, <2>2 DEF Tracking
      <3>2. ~(got < disk[c].length)
        BY <1>3, <2>2, <2>3
      <3>3. CASE 0 = Len(pipe) /\ ppc = "data" /\ file = c /\ sent = got
        BY <2>3, <3>3 DEF FileAfter
      <3> QED
        BY <3>1, <3>2, <3>3 DEF BlockAfter, Whole
    <2>5. FileAfter(0, c)'
      <3>1. Taken(0)
        BY <1>1, <2>1, NothingTaken
      <3>2. 0 + 0 = 0 /\ 0 \in Nat
        OBVIOUS
      <3> QED
        BY <2>4, <3>1, <3>2, ShiftFile
    <2>6. c \in 0..Files
      BY <1>3, <2>2 DEF F
    <2>7. Finished(c)
      <3>1. ASSUME NEW f \in 1..c PROVE Sound(f) /\ Copied(f, disk[f].length)
        <4>1. f \in F /\ (f \in 1..n \/ f \in n + 1..c - 1 \/ f = c)
          BY <2>6, <3>1 DEF F
        <4>2. CASE f \in 1..n
          BY <4>2 DEF Finished
        <4>3. CASE f \in n + 1..c - 1
          <5>1. ~disk[f].exists
            BY <1>2, <2>2, <4>3 DEF Skipped
          <5>2. disk[f].length = 0 /\ copy[f] = <<>>
            BY <4>1, <5>1, DiskFacts DEF Missing
          <5> QED
            BY <5>1, <5>2 DEF Sound, Copied
        <4>4. CASE f = c
          BY <1>2, <2>2, <2>3, <4>4
        <4> QED
          BY <4>1, <4>2, <4>3, <4>4
      <3> QED
        BY <3>1 DEF Finished
    <2>8. Finished(c)' /\ Missing'
      BY <1>1, <2>1, <2>6, <2>7, FinishedStays, MissingStays
    <2> QED
      BY <2>1, <2>5, <2>6, <2>8 DEF FaithInv, Awaiting
  <1>8. CASE ChildDone
    <2>1. /\ cpc = "copy" /\ got < total /\ Take(Header)
          /\ \E x \in Received : x.type = "done"
      BY <1>2, <1>8 DEF ChildDone
    <2>2. pipe # <<>>
      BY <2>1 DEF Take
    <2>3. PICK k : k = Size(cur, got)
      OBVIOUS
    <2>4. HeaderAfter(0, Msg("data", cur, k))
      BY <1>2, <2>1, <2>2, <2>3, InSync
    <2>5. PICK m : m = Msg("data", cur, k)
      OBVIOUS
    <2>6. m.type = "data"
      BY <2>5 DEF Msg
    <2>7. Received = {m}
      BY <1>1, <2>1, <2>4, <2>5, <2>6, HeaderTaken
    <2> QED
      BY <2>1, <2>6, <2>7
  <1>9. CASE ChildEof
    <2>1. AtEof /\ (cpc = "copy" => got < total)
      BY <1>2, <1>9 DEF ChildEof
    <2> QED
      BY <1>2, <2>1, NoEofInside
  <1> QED
    BY <1>2, <1>5, <1>6, <1>7, <1>8, <1>9
       DEF Child, ChildOpen, Greet, CreateCopy, Unknown

LEMMA FaithChild ==
    ASSUME Types, StreamInv, InfoOrder, FaithInv, Child
    PROVE  FaithInv'
  <1>1. PICK n \in 0..Files :
           \/ /\ Finished(n) /\ Missing
              /\ Unborn(n) \/ Awaiting(n) \/ Copying(n) \/ Over(n)
           \/ Spared(n) /\ Lost(n)
    BY DEF FaithInv
  <1>2. cpc \notin {"none", "exited"}
    BY DEF Child, ChildOpen, Greet, CreateCopy, Unknown, CopyHeader, CopyBytes, CopyDone,
           ChildDone, ChildEof
  <1>3. CASE Finished(n) /\ Missing /\ Awaiting(n)
    <2>1. Finished(n)' /\ Missing' /\ (Awaiting(n)' \/ Copying(n)' \/ Over(n)' \/ Lost(n)')
      BY <1>3, AwaitingMoves
    <2>2. Spared(n)'
      BY <2>1, FinishedSpares
    <2> QED
      BY <2>1, <2>2 DEF FaithInv
  <1>4. CASE Finished(n) /\ Missing /\ Copying(n)
    BY <1>4, CopyingMoves
  <1>5. CASE Spared(n) /\ Lost(n)
    <2>1. Spared(n)' /\ Lost(n)'
      BY <1>5, LostStays
    <2> QED
      BY <2>1 DEF FaithInv
  <1> QED
    BY <1>1, <1>2, <1>3, <1>4, <1>5 DEF Unborn, Over
-----------------------------------------------------------------------------
(* The invariant.                                                          *)
LEMMA PipeInit ==
    ASSUME Init
    PROVE  PipeInv
  <1> USE Bounds
  <1>0. /\ disk \in [F -> File] /\ ppc = "create" /\ file = 1 /\ sent = 0
        /\ cpc = "none" /\ cur = 0 /\ total = 0 /\ got = 0 /\ want = 0
        /\ pipe = <<>> /\ copy = [f \in F \cup {0} |-> <<>>]
    BY DEF Init
  <1>1. <<>> \in Seq(Cell) /\ Len(pipe) = 0
    BY <1>0
  <1>2. copy \in [F \cup {0} -> Seq(Cell)] /\ \A f \in F : copy[f] = <<>>
    BY <1>0, <1>1
  <1>3. Types
    BY <1>0, <1>1, <1>2 DEF Types, TypeOK
  <1>4. StreamInv /\ InfoOrder
    <2>1. \A i \in Nat : \A m : ~HeaderAfter(i, m)
      BY <1>1 DEF HeaderAfter
    <2> QED
      BY <1>1, <2>1 DEF StreamInv, InfoOrder
  <1>5. OwnInv
    <2>1. ASSUME NEW f \in F PROVE Copied(f, 0) /\ 0 \in 0..disk[f].length
      BY <1>2, <1>3, DiskFacts DEF Copied
    <2> QED
      BY <1>0, <2>1 DEF OwnInv
  <1>6. FaithInv
    <2>1. Finished(0) /\ Missing
      BY <1>2 DEF Finished, Missing
    <2>2. FileAfter(0, 0)
      BY <1>0, <1>1 DEF FileAfter
    <2> QED
      BY <1>0, <2>1, <2>2 DEF FaithInv, Unborn
  <1> QED
    BY <1>3, <1>4, <1>5, <1>6 DEF PipeInv

LEMMA GivingUp ==
    ASSUME Types, Parent, GivesUp
    PROVE  StreamInv' /\ InfoOrder'
  <1>1. pipe = <<>>
    BY DEF GivesUp, Types
  <1>2. UNCHANGED pipe
    BY DEF GivesUp, Parent, Fork, ParentOpen, ReadReady, SkipMissing, SendInfo, SendHeader,
           SendBytes, FileSent, SendDone, CloseEnds, WaitChild, BrokenPipe
  <1>3. Len(pipe') = 0
    BY <1>1, <1>2
  <1>4. ASSUME NEW i \in Nat, NEW f PROVE ~HeaderAfter(i, Info(f))'
    <2>1. i + Header > Len(pipe')
      BY <1>3, Bounds
    <2> QED
      BY <1>3, <2>1, Bounds DEF HeaderAfter
  <1>5. ASSUME NEW i \in Nat, NEW f, NEW n PROVE ~HeaderAfter(i, Msg("data", f, n))'
    BY <1>3, Bounds DEF HeaderAfter
  <1> QED
    BY <1>3, <1>4, <1>5 DEF StreamInv, InfoOrder

LEMMA PipeStep ==
    ASSUME PipeInv, [Next]_vars
    PROVE  PipeInv'
  <1>0. Types /\ (cpc # "exited" => StreamInv /\ InfoOrder) /\ OwnInv /\ FaithInv
    BY DEF PipeInv
  <1>1. CASE Parent
    <2>1. cpc' # "exited" => cpc # "exited"
      BY <1>0, <1>1, ParentFrame
    <2>2. cpc' # "exited" => StreamInv' /\ InfoOrder'
      BY <1>0, <1>1, <2>1, StreamGrown, GivingUp
    <2> QED
      BY <1>0, <1>1, <2>2, ParentTypes, OwnStep, FaithParent DEF PipeInv
  <1>2. CASE Child
    <2>1. cpc # "exited"
      BY <1>2 DEF Child, ChildOpen, Greet, CreateCopy, Unknown, CopyHeader, CopyBytes, CopyDone,
                  ChildDone, ChildEof
    <2>2. StreamInv' /\ InfoOrder'
      BY <1>0, <1>2, <2>1, ChildTakes, StreamTaken
    <2> QED
      BY <1>0, <1>2, <2>1, <2>2, ChildTypes, OwnStep, FaithChild DEF PipeInv
  <1>3. CASE UNCHANGED vars
    <2>1. UNCHANGED <<disk, named, names, ppc, file, sent, cpc, cur, total, got, want, copy, pipe, ack>>
      BY <1>3 DEF vars, parentVars, childVars
    <2>2. Types'
      <3>1. Cell' = Cell
        BY <2>1 DEF Cell, Messages, Done, Msg
      <3>2. TypeOK'
        BY <1>0, <2>1 DEF Types, TypeOK, Creatable
      <3>3. \A i \in 1..Len(pipe') : Announced(i)' => pipe'[i].msg = Info(pipe[i].msg.file)'
        BY <1>0, <2>1 DEF Types, Announced, Info, Msg
      <3>4. Block' = Block
        BY <2>1 DEF Block
      <3> QED
        BY <1>0, <2>1, <3>1, <3>2, <3>3, <3>4, Zenon DEF Types
    <2>3. cpc' # "exited" => StreamInv' /\ InfoOrder'
      BY <1>0, <2>1, NothingTaken, StreamTaken
    <2>4. OwnInv'
      BY <1>0, <2>1
         DEF OwnInv, NoneShrank, Tracking, Copied, Byte, Msg, Size, BlockAfter, BytesAfter,
             HeaderAfter, Whole, FileAfter, Info, Done
    <2>5. FaithInv'
      <3>1. PICK n \in 0..Files :
               \/ /\ Finished(n) /\ Missing
                  /\ Unborn(n) \/ Awaiting(n) \/ Copying(n) \/ Over(n)
               \/ Spared(n) /\ Lost(n)
        BY <1>0 DEF FaithInv
      <3>2. /\ Finished(n) /\ Missing => Finished(n)' /\ Missing'
            /\ Spared(n) => Spared(n)'
        BY <2>1, <3>1, FinishedStays, SparedStays, MissingStays
      <3>3. FileAfter(0, n)' <=> FileAfter(0, n)
        BY <2>1 DEF FileAfter, HeaderAfter, Info, Done, Msg
      <3>4. ASSUME Copying(n) PROVE Copying(n)'
        <4>1. Tracking'
          BY <2>1, <3>4
             DEF Copying, Tracking, Copied, Byte, Msg, Size, BlockAfter, BytesAfter, HeaderAfter,
                 Whole, FileAfter, Info, Done
        <4> QED
          BY <2>1, <3>4, <4>1 DEF Copying, Skipped, Sound
      <3>5. Lost(n) => Lost(n)'
        BY <2>1 DEF Lost, Skipped, Sound, Announced
      <3>6. Unborn(n) \/ Awaiting(n) \/ Over(n) => Unborn(n)' \/ Awaiting(n)' \/ Over(n)'
        BY <2>1, <3>3 DEF Unborn, Awaiting, Over, Skipped
      <3> QED
        BY <3>1, <3>2, <3>4, <3>5, <3>6 DEF FaithInv
    <2> QED
      BY <2>2, <2>3, <2>4, <2>5 DEF PipeInv
  <1> QED
    BY <1>1, <1>2, <1>3 DEF Next

(* The invariant holds throughout: what the pipe carries can always be read*)
(* off what the parent has done, and where the child is in it (01/main.c:  *)
(* 47-117 against 119-170).                                                *)
THEOREM PipeInvariant == Spec => []PipeInv
  <1>1. Init => PipeInv
    BY PipeInit
  <1>2. PipeInv /\ [Next]_vars => PipeInv'
    BY PipeStep
  <1> QED
    BY <1>1, <1>2, PTL DEF Spec

(* The variables keep their types, the pipe its capacity, and the child    *)
(* copies only into a file it could create.                                *)
THEOREM PipeTypes == Spec => []TypeOK
  <1>1. PipeInv => TypeOK
    BY DEF PipeInv, Types
  <1> QED
    BY <1>1, PipeInvariant, PTL

(* A copy of n bytes of a file is its first n.                             *)
LEMMA CopiedIs ==
    ASSUME Types, NEW f \in F, NEW n \in 0..disk[f].length, Copied(f, n)
    PROVE  Len(copy[f]) = n /\ copy[f] = SubSeq(Content(f), 1, n)
           /\ (n = disk[f].length => copy[f] = Content(f))
  <1> DEFINE c == copy[f]
             d == Content(f)
             l == disk[f].length
  <1>1. l \in Nat /\ n \in Nat /\ n <= l
    BY DiskFacts
  <1>2. c \in Seq(Cell) /\ Len(c) = n /\ \A j \in 1..n : c[j] = Byte(f, j)
    BY DEF Types, Copied
  <1>3. d = [k \in 1..l |-> [msg |-> Msg("bytes", f, 0), at |-> 0 + k]]
    BY DEF Content, Bytes, Cells
  <1> HIDE DEF c, d, l
  <1>4. ASSUME NEW k \in 1..l PROVE d[k] = Byte(f, k)
    <2>1. 0 + k = k
      BY <1>1
    <2> QED
      BY <1>3, <2>1 DEF Byte
  <1>5. d \in Seq({Byte(f, k) : k \in 1..l}) /\ Len(d) = l
    <2> DEFINE S == {Byte(f, k) : k \in 1..l}
    <2>1. d \in [1..l -> S]
      BY <1>3, <1>4
    <2> HIDE DEF S
    <2>2. d \in Seq(S) /\ Len(d) = l
      BY <1>1, <2>1
    <2> QED
      BY <2>2 DEF S
  <1>6. /\ SubSeq(d, 1, n) \in Seq({Byte(f, k) : k \in 1..l})
        /\ Len(SubSeq(d, 1, n)) = n
        /\ \A k \in 1..n : SubSeq(d, 1, n)[k] = Byte(f, k)
    <2>1. \A k \in 1..n : d[k] \in {Byte(f, j) : j \in 1..l}
      BY <1>1, <1>4
    <2>2. /\ SubSeq(d, 1, n) \in Seq({Byte(f, k) : k \in 1..l})
          /\ Len(SubSeq(d, 1, n)) = IF 1 <= n THEN n - 1 + 1 ELSE 0
          /\ \A k \in 1..n - 1 + 1 : SubSeq(d, 1, n)[k] = d[1 + k - 1]
      BY <1>1, <2>1, SubSeqProperties
    <2>3. ASSUME NEW k \in 1..n PROVE SubSeq(d, 1, n)[k] = Byte(f, k)
      <3>1. k \in 1..n - 1 + 1 /\ 1 + k - 1 = k /\ k \in 1..l
        BY <1>1
      <3> QED
        BY <1>4, <2>2, <3>1
    <2> QED
      BY <1>1, <2>2, <2>3
  <1>7. c = SubSeq(d, 1, n)
    <2> DEFINE e == SubSeq(d, 1, n)
    <2>1. e \in Seq({Byte(f, k) : k \in 1..l}) /\ Len(e) = n /\ \A k \in 1..n : e[k] = Byte(f, k)
      BY <1>6
    <2> HIDE DEF e
    <2>2. c = e
      BY <1>1, <1>2, <2>1
    <2> QED
      BY <2>2 DEF e
  <1>8. ASSUME n = l PROVE c = d
    BY <1>1, <1>2, <1>4, <1>5, <1>8
  <1> QED
    BY <1>2, <1>7, <1>8 DEF c, d, l

(* However many files there are and however long: as long as every one so  *)
(* far was announced with the length it has and its copy could be created, *)
(* each copy is the whole file.                                            *)
THEOREM CopiesFaithful == Spec => []FaithfulCopy
  <1>1. ASSUME PipeInv PROVE FaithfulCopy
    <2>0. Types
      BY <1>1 DEF PipeInv
    <2>1. SUFFICES ASSUME cpc = "exited", NEW f \in F,
                          \A g \in F : g <= f \/ f \in Odd => Sound(g)
                   PROVE  copy[f] = Content(f)
      BY DEF FaithfulCopy
    <2>2. PICK n \in 0..Files : (Finished(n) /\ Missing /\ Over(n)) \/ (Spared(n) /\ Lost(n))
      BY <1>1, <2>1 DEF PipeInv, FaithInv, Unborn, Awaiting, Copying
    <2>3. ASSUME disk[f].length \in 0..disk[f].length, Copied(f, disk[f].length)
          PROVE  copy[f] = Content(f)
      BY <2>0, <2>3, CopiedIs
    <2>4. ASSUME ~disk[f].exists, copy[f] = <<>> PROVE copy[f] = Content(f)
      <3>1. Copied(f, 0) /\ disk[f].length = 0
        BY <2>0, <2>4, DiskFacts DEF Copied
      <3> QED
        BY <2>0, <3>1, CopiedIs
    <2>5. disk[f].length \in 0..disk[f].length
      BY <2>0, DiskFacts
    <2>6. CASE Finished(n) /\ Missing /\ Over(n)
      <3>1. CASE f \in 1..n
        BY <2>3, <2>5, <2>6, <3>1 DEF Finished
      <3>2. CASE f > n
        BY <2>4, <2>6, <3>2, Bounds DEF Over, Skipped, F, Missing
      <3> QED
        BY <3>1, <3>2 DEF F
    <2>7. CASE Spared(n) /\ Lost(n)
      <3>1. PICK u \in n + 1..Files : ~Sound(u) /\ Skipped(n, u)
        BY <2>7 DEF Lost
      <3>2. u > f /\ f \notin Odd
        BY <2>1, <3>1, Bounds DEF F
      <3>3. CASE f \in 1..n
        BY <2>3, <2>5, <2>7, <3>2, <3>3 DEF Spared
      <3>4. CASE f > n
        <4>1. ~disk[f].exists
          BY <3>1, <3>2, <3>4 DEF Skipped, F
        <4>2. copy[f] = <<>>
          BY <2>0, <3>2, <4>1 DEF Types
        <4> QED
          BY <2>4, <4>1, <4>2
      <3> QED
        BY <3>3, <3>4 DEF F
    <2> QED
      BY <2>2, <2>6, <2>7
  <1> QED
    BY <1>1, PipeInvariant, PTL

(* And unless some file shrank while it was sent, a copy is always the     *)
(* beginning of its own file, whatever else the child met in the stream.   *)
THEOREM OwnBytes == Spec => []OwnBytesOnly
  <1>1. ASSUME PipeInv PROVE OwnBytesOnly
    <2>1. SUFFICES ASSUME \A f \in F : disk[f].length >= disk[f].size, NEW f \in F \ Odd
                   PROVE  /\ Len(copy[f]) <= disk[f].length
                          /\ copy[f] = SubSeq(Content(f), 1, Len(copy[f]))
      BY DEF OwnBytesOnly
    <2>2. PICK n \in 0..disk[f].length : Copied(f, n)
      BY <1>1, <2>1 DEF PipeInv, OwnInv, NoneShrank
    <2>3. Types
      BY <1>1 DEF PipeInv
    <2>4. Len(copy[f]) = n /\ copy[f] = SubSeq(Content(f), 1, n)
      BY <2>2, <2>3, CopiedIs
    <2> QED
      BY <2>2, <2>3, <2>4, DiskFacts
  <1> QED
    BY <1>1, PipeInvariant, PTL
=============================================================================
