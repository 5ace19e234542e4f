------------------------------ MODULE ShmProofs ------------------------------
(***************************************************************************)
(* What the steps that 04/ and 05/ have in common do to the exclusion, to  *)
(* the list of blocks and to what a consumer has read of it.               *)
(***************************************************************************)
EXTENDS ShmBlocks, TLAPS

USE DEF Place

InsidePlace == {"write", "fill", "post", "end", "check", "read", "handle", "give", "last"}

(* A step that leaves the semaphore alone and lets nobody in.              *)
LEMMA OutsideStep ==
  ASSUME ExclusionInv, NEW p \in Procs, NEW l \in Place, Goto(p, l),
         sem' = sem, pc[p] # "off",
         semState' = "absent" => semState = "absent",
         l \in InsidePlace => pc[p] \in InsidePlace
  PROVE  ExclusionInv'
<1>1. pc' = [pc EXCEPT ![p] = l]
  BY DEF Goto
<1>2. \A r \in Procs : Inside(r)' => Inside(r)
  BY <1>1 DEF ExclusionInv, Inside, InsidePlace
<1> QED
  BY <1>1, <1>2 DEF ExclusionInv

(* A step that takes the semaphore.                                        *)
LEMMA TakeStep ==
  ASSUME ExclusionInv, NEW p \in Procs, Lock(p)
  PROVE  ExclusionInv'
<1>1. /\ pc[p] \in {"lock", "wait", "take"}
      /\ semState' = semState /\ semState # "absent"
      /\ sem = 1 /\ sem' = 0
      /\ pc' = [pc EXCEPT ![p] = After(pc[p])]
  BY DEF Lock, Locking, Goto, ExclusionInv
<1>2. After(pc[p]) \in Place
  BY <1>1 DEF After
<1>3. \A r \in Procs : Inside(r)' => r = p
  BY <1>1 DEF ExclusionInv, Inside
<1> QED
  BY <1>1, <1>2, <1>3 DEF ExclusionInv

(* A step that gives it back.                                              *)
LEMMA GiveStep ==
  ASSUME ExclusionInv, NEW p \in Procs, NEW l \in Place \ InsidePlace, Goto(p, l),
         pc[p] \in InsidePlace, sem' = sem + 1, semState' = semState
  PROVE  ExclusionInv'
<1>1. pc' = [pc EXCEPT ![p] = l]
  BY DEF Goto
<1>2. Inside(p) /\ sem = 0 /\ pc[p] # "off"
  BY DEF ExclusionInv, Inside, InsidePlace
<1>3. ~Inside(p)'
  BY <1>1 DEF ExclusionInv, Inside, InsidePlace
<1>4. ASSUME NEW r \in Procs, r # p PROVE ~Inside(r)'
  BY <1>1, <1>2, <1>4 DEF ExclusionInv, Inside
<1> QED
  BY <1>1, <1>2, <1>3, <1>4 DEF ExclusionInv

LEMMA BlocksStep ==
  ASSUME ExclusionInv, NEW p \in Procs, NEW from,
         ProducerNext(p) \/ ConsumerNext(p, from)
  PROVE  ExclusionInv'
<1> USE DEF InsidePlace
<1>1. CASE ProduceLoop(p)
  <2>1. PICK l \in {"lock", "close"} : Goto(p, l)
    BY <1>1 DEF ProduceLoop
  <2> QED
    BY <1>1, <2>1, OutsideStep DEF ProduceLoop
<1>2. CASE WriteEnd(p)
  BY <1>2, OutsideStep DEF WriteEnd
<1>3. CASE WriteHeader(p)
  BY <1>3, OutsideStep DEF WriteHeader
<1>4. CASE Fill(p)
  BY <1>4, OutsideStep DEF Fill
<1>5. CASE Post(p)
  BY <1>5, GiveStep DEF Post
<1>6. CASE Check(p)
  <2>1. PICK l \in {"loop", "wait"} : Goto(p, l)
    BY <1>6 DEF Check
  <2> QED
    BY <1>6, <2>1, GiveStep DEF Check
<1>7. CASE PostEnd(p)
  BY <1>7, GiveStep DEF PostEnd
<1>8. CASE ScanLoop(p)
  <2>1. PICK l \in {"take", "exited"} : Goto(p, l)
    BY <1>8 DEF ScanLoop
  <2> QED
    BY <1>8, <2>1, OutsideStep DEF ScanLoop
<1>9. CASE Read(p)
  BY <1>9, OutsideStep DEF Read
<1>10. CASE AtEnd(p)
  BY <1>10, OutsideStep DEF AtEnd
<1>11. CASE SkipBlock(p)
  BY <1>11, OutsideStep DEF SkipBlock
<1>12. CASE HandleBlock(p, from)
  BY <1>12, OutsideStep DEF HandleBlock
<1>13. CASE NoBlock(p)
  BY <1>13, OutsideStep DEF NoBlock
<1> QED
  BY <1>1, <1>2, <1>3, <1>4, <1>5, <1>6, <1>7, <1>8, <1>9, <1>10, <1>11, <1>12, <1>13
     DEF ProducerNext, ConsumerNext

LEMMA InitExclusion == Init => ExclusionInv
  BY DEF Init, ExclusionInv, Inside

LEMMA StutterExclusion ==
  ASSUME ExclusionInv, UNCHANGED vars PROVE ExclusionInv'
  BY DEF ExclusionInv, Inside, vars, osVars

LEMMA ExclusionSuffices == ExclusionInv => MutualExclusion
  BY DEF ExclusionInv, MutualExclusion
-----------------------------------------------------------------------------
(* What the list looks like, and where everybody stands in it.             *)

BeforeLoop    == {"setval", "shmget", "shmopen", "truncate", "memset"}
ProducerPlace == BeforeLoop \cup {"loop", "lock", "write", "fill", "post", "wait", "check",
                                  "end", "close", "rmsem"}

(* Where the next block will start.                                        *)
Top == N - remaining

(* Only one process has created the semaphore.                             *)
ProducerInv ==
    \A p, r \in Procs : pc[p] \in ProducerPlace /\ pc[r] \in ProducerPlace => p = r

(* Until the producer is in its loop the segment is clear.                 *)
Fresh ==
    /\ remaining = N /\ ptr = 0 /\ starts = <<>> /\ made = <<>>
    /\ \A a \in Cells : mem[a] = 0

FreshInv ==
    /\ semState = "absent" => Fresh
    /\ \A p \in Procs : pc[p] \in BeforeLoop => Fresh

(* The blocks follow each other, and each names the start of the next.     *)
SpacingInv ==
    /\ starts \in Seq(Offsets)
    /\ IF starts = <<>> THEN Top = 0 ELSE starts[1] = 0
    /\ \A i \in 1..Len(starts) : starts[i] + 2 <= Top
    /\ \A i, j \in 1..Len(starts) : i < j => starts[i] + 2 <= starts[j]

ChainInv ==
    \A i \in 1..Len(starts) :
        mem[starts[i] + 1] = IF i = Len(starts) THEN Top ELSE starts[i + 1]

(* Only the last block may still hold numbers that nobody has read.        *)
Last == starts[Len(starts)]
Unread == starts # <<>> /\ mem[Last] # 0

ReadInv ==
    /\ \A i \in 1..Len(starts) : i < Len(starts) => mem[starts[i]] = 0
    /\ Unread => mem[Last] = Top - Last - 2

(* Past the last block: nothing, or the block that is being written, or    *)
(* the end mark.                                                           *)
NothingAtTop == \A a \in Cells : a >= Top => mem[a] = 0

HeaderAtTop ==
    /\ mem[Top] \in Nat
    /\ Top + mem[Top] + 2 <= N
    /\ mem[Top + 1] = Top + mem[Top] + 2
    /\ \A a \in Cells : a >= Top + 2 => mem[a] = 0

EndAtTop == mem[Top] = -1 /\ mem[Top + 1] = 0

TopInv ==
    /\ NothingAtTop \/ EndAtTop \/ \E p \in Procs : pc[p] = "fill"
    /\ \A p \in Procs :
          /\ pc[p] = "fill" => HeaderAtTop
          /\ pc[p] \in ProducerPlace \ {"fill", "end", "close", "rmsem"} => NothingAtTop

(* The producer is at the block it writes, then at the one it has written. *)
PtrInv ==
    \A p \in Procs :
        /\ pc[p] \in {"lock", "write", "fill"} => ptr = Top
        /\ pc[p] \in {"loop", "lock", "write", "fill"} => ~Unread
        /\ pc[p] \in {"post", "wait", "check"} => starts # <<>> /\ ptr = Last

(* A consumer acts on what it has read while it is still so.               *)
SeenInv ==
    \A c \in Procs :
        pc[c] = "handle" => seen[c] = <<mem[offset[c]], mem[offset[c] + 1]>>

OffsetInv ==
    \A c \in Procs : offset[c] = Top \/ \E i \in 1..Len(starts) : offset[c] = starts[i]

(* A sequence, whatever its elements are.                                  *)
IsSequence(s) == s \in Seq({s[i] : i \in 1..Len(s)})

(* Every block that has numbers has been reported, but for an unread one.  *)
MadeInv ==
    /\ made \in Seq([at : Offsets, data : SUBSET Int])
    /\ Unread =>
          /\ made # <<>>
          /\ made[Len(made)] = [at |-> Last, data |-> {mem[Last + 2 + i] : i \in 0..mem[Last] - 1}]

ReportInv ==
    /\ IsSequence(reports)
    /\ Len(reports) = IF Unread THEN Len(made) - 1 ELSE Len(made)
    /\ \A i \in 1..Len(reports) : reports[i].at = made[i].at

ListInv ==
    /\ TypeOK /\ ProducerInv /\ FreshInv /\ SpacingInv /\ ChainInv /\ ReadInv /\ TopInv
    /\ PtrInv /\ SeenInv /\ OffsetInv /\ MadeInv /\ ReportInv

(* The parts that are about the shared memory and the histories alone.     *)
LEMMA SameMemory ==
  ASSUME SpacingInv, ChainInv, ReadInv, OffsetInv, MadeInv, ReportInv,
         UNCHANGED <<mem, remaining, starts, made, consVars>>
  PROVE  /\ SpacingInv' /\ ChainInv' /\ ReadInv' /\ OffsetInv' /\ MadeInv' /\ ReportInv'
         /\ Top' = Top /\ Unread' = Unread /\ Last' = Last
<1>1. Top' = Top /\ Last' = Last /\ Unread' = Unread
  BY DEF Top, Last, Unread
<1>2. SpacingInv' /\ ChainInv' /\ ReadInv'
  BY <1>1 DEF SpacingInv, ChainInv, ReadInv
<1>3. OffsetInv' /\ MadeInv' /\ ReportInv'
  BY <1>1 DEF OffsetInv, MadeInv, ReportInv, consVars
<1> QED
  BY <1>1, <1>2, <1>3

(* A step that changes only where p is, the semaphore and the objects.     *)
LEMMA QuietStep ==
  ASSUME ListInv, ExclusionInv', NEW p \in Procs, NEW l \in Place, Goto(p, l),
         UNCHANGED <<mem, prodVars, consVars>>,
         semState' \in {"absent", "live", "removed"},
         shmState' \in {"absent", "empty", "live", "removed"},
         running' \in [Procs -> BOOLEAN],
         semState' = "absent" => semState = "absent",
         l \in ProducerPlace => pc[p] \in ProducerPlace,
         l \in BeforeLoop => pc[p] \in BeforeLoop,
         l \notin {"lock", "fill", "handle"}, pc[p] # "fill",
         l = "write" => pc[p] = "lock",
         l = "loop" => pc[p] # "end" /\ pc[p] # "close" /\ pc[p] # "rmsem" /\ ~Unread,
         l \in {"post", "wait", "check"} => pc[p] \in {"post", "wait", "check"}
  PROVE  ListInv'
<1> USE DEF ListInv
<1>1. pc \in [Procs -> Place] /\ pc' = [pc EXCEPT ![p] = l]
  BY DEF TypeOK, Goto
<1>2. TypeOK'
  BY <1>1 DEF TypeOK, ExclusionInv, prodVars, consVars
<1>3. /\ SpacingInv' /\ ChainInv' /\ ReadInv' /\ OffsetInv' /\ MadeInv' /\ ReportInv'
      /\ Top' = Top /\ Unread' = Unread /\ Last' = Last
  BY SameMemory DEF prodVars, consVars
<1>4. ProducerInv'
  BY <1>1 DEF ProducerInv
<1>5. FreshInv'
  BY <1>1 DEF FreshInv, Fresh, prodVars
<1>6. TopInv'
  <2>1. (NothingAtTop' = NothingAtTop) /\ (EndAtTop' = EndAtTop) /\ (HeaderAtTop' = HeaderAtTop)
    BY <1>3 DEF NothingAtTop, EndAtTop, HeaderAtTop
  <2>2. \A r \in Procs : pc'[r] = "fill" <=> pc[r] = "fill"
    BY <1>1
  <2>3. ASSUME NEW r \in Procs, pc'[r] \in ProducerPlace \ {"fill", "end", "close", "rmsem"}
        PROVE  pc[r] \in ProducerPlace \ {"fill", "end", "close", "rmsem"}
    BY <1>1, <2>3 DEF ProducerPlace, BeforeLoop
  <2> QED
    BY <2>1, <2>2, <2>3 DEF TopInv
<1>7. PtrInv'
  BY <1>1, <1>3 DEF PtrInv, prodVars
<1>8. SeenInv'
  BY <1>1 DEF SeenInv, consVars
<1> QED
  BY <1>2, <1>3, <1>4, <1>5, <1>6, <1>7, <1>8

(* The producer goes to the top of the list.                               *)
LEMMA LoopStep ==
  ASSUME ListInv, NEW p \in Procs, ProduceLoop(p)
  PROVE  ListInv'
<1> USE DEF ListInv
<1>1. PICK l \in {"lock", "close"} : pc' = [pc EXCEPT ![p] = l]
  BY DEF ProduceLoop, Goto
<1>2. /\ pc \in [Procs -> Place] /\ pc[p] = "loop" /\ ptr' = Top
      /\ UNCHANGED <<running, sem, semState, shmState, mem, remaining, starts, made, consVars>>
  BY DEF ProduceLoop, TypeOK, Top
<1>3. /\ SpacingInv' /\ ChainInv' /\ ReadInv' /\ OffsetInv' /\ MadeInv' /\ ReportInv'
      /\ Top' = Top /\ Unread' = Unread /\ Last' = Last
  BY <1>2, SameMemory
<1>4. TypeOK'
  BY <1>1, <1>2, SizeAssumption DEF TypeOK, Offsets, Top, consVars
<1>5. ProducerInv'
  BY <1>1, <1>2 DEF ProducerInv, ProducerPlace, BeforeLoop
<1>6. FreshInv'
  BY <1>1, <1>2, SizeAssumption DEF FreshInv, Fresh, Top, ProducerInv, ProducerPlace, BeforeLoop
<1>7. TopInv'
  BY <1>1, <1>2, <1>3
     DEF TopInv, NothingAtTop, EndAtTop, HeaderAtTop, ProducerPlace, BeforeLoop, ProducerInv
<1>8. PtrInv'
  BY <1>1, <1>2, <1>3 DEF PtrInv, ProducerInv, ProducerPlace, BeforeLoop
<1>9. SeenInv'
  BY <1>1, <1>2 DEF SeenInv, consVars
<1> QED
  BY <1>3, <1>4, <1>5, <1>6, <1>7, <1>8, <1>9

(* A boundary is two cells of the segment, before the top.                 *)
LEMMA BoundaryCells ==
  ASSUME TypeOK, SpacingInv, NEW i \in 1..Len(starts)
  PROVE  /\ starts[i] \in 0..N /\ starts[i] + 2 <= Top /\ Top \in 0..N
         /\ starts[i] \in Cells /\ starts[i] + 1 \in Cells
<1>1. starts[i] \in Offsets /\ starts[i] + 2 <= Top
  BY DEF SpacingInv
<1>2. remaining \in 0..N /\ N \in Nat
  BY SizeAssumption DEF TypeOK
<1> QED
  BY <1>1, <1>2 DEF Offsets, Cells, Top

LEMMA LastBoundary ==
  ASSUME SpacingInv, starts # <<>>
  PROVE  Len(starts) \in Nat /\ Len(starts) \in 1..Len(starts)
  BY DEF SpacingInv

(* A header, or the end mark, is written where there was nothing.          *)
LEMMA WriteCells ==
  ASSUME ListInv, ExclusionInv, NEW p \in Procs, pc[p] = "write",
         NEW l \in {"end", "fill"}, NEW x \in Int, NEW y \in Int,
         pc' = [pc EXCEPT ![p] = l],
         mem' = [mem EXCEPT ![ptr] = x, ![ptr + 1] = y],
         UNCHANGED <<running, sem, semState, shmState, prodVars, consVars>>,
         l = "end" => x = -1 /\ y = 0,
         l = "fill" => x \in Nat /\ y = ptr + x + 2 /\ ptr + x + 2 <= N
  PROVE  ListInv'
<1> USE SizeAssumption DEF ListInv
<1>1. pc \in [Procs -> Place] /\ Top = N - remaining /\ Top' = Top
  BY DEF TypeOK, Top, prodVars
<1>3. /\ ptr = N - remaining /\ ~Unread /\ NothingAtTop /\ ptr \in 0..N
      /\ ptr \in Cells /\ ptr + 1 \in Cells /\ mem \in [Cells -> Int]
  <2>1. ptr = N - remaining /\ ~Unread /\ NothingAtTop
    BY <1>1 DEF PtrInv, TopInv, ProducerPlace, BeforeLoop
  <2>2. remaining \in 0..N /\ mem \in [Cells -> Int]
    BY DEF TypeOK
  <2> QED
    BY <2>1, <2>2 DEF Cells
<1>4. mem' \in [Cells -> Int] /\ mem'[ptr] = x /\ mem'[ptr + 1] = y
      /\ \A a \in Cells : a # ptr /\ a # ptr + 1 => mem'[a] = mem[a]
  BY <1>1, <1>3
<1>5. TypeOK'
  BY <1>1, <1>4 DEF TypeOK, prodVars, consVars
<1>6. ProducerInv'
  BY <1>1 DEF ProducerInv, ProducerPlace, BeforeLoop
<1>7. FreshInv'
  BY <1>1 DEF FreshInv, ProducerInv, ProducerPlace, BeforeLoop, ExclusionInv
<1>8. SpacingInv'
  BY <1>1 DEF SpacingInv, prodVars
<1>9. \A i \in 1..Len(starts) : /\ starts[i] \in Cells /\ starts[i] + 1 \in Cells
                                /\ starts[i] \in Int /\ starts[i] + 2 <= ptr
  BY <1>3, <1>1, BoundaryCells
<1>10. \A i \in 1..Len(starts) : mem'[starts[i]] = mem[starts[i]] /\ mem'[starts[i] + 1] = mem[starts[i] + 1]
  <2>1. ASSUME NEW i \in 1..Len(starts), NEW a \in {starts[i], starts[i] + 1} PROVE mem'[a] = mem[a]
    <3>1. a \in Cells /\ a # ptr /\ a # ptr + 1
      BY <1>9, <1>3
    <3> QED
      BY <3>1, <1>4
  <2> QED
    BY <2>1
<1>11. ChainInv'
  BY <1>10, <1>1 DEF ChainInv, prodVars
<1>12. ~Unread'
  BY <1>3, <1>10, LastBoundary DEF Unread, Last, prodVars
<1>13. ReadInv'
  BY <1>12, <1>10, <1>1 DEF ReadInv, prodVars
<1>14. TopInv'
  <2>1. CASE l = "end"
    <3>1. EndAtTop'
      BY <2>1, <1>1, <1>3, <1>4 DEF EndAtTop, prodVars
    <3> QED
      BY <2>1, <3>1, <1>1 DEF TopInv, ProducerInv, ProducerPlace, BeforeLoop
  <2>2. CASE l = "fill"
    <3>1. HeaderAtTop'
      <4>1. mem'[Top] = x /\ mem'[Top + 1] = y /\ x \in Nat /\ y = Top + x + 2 /\ Top + x + 2 <= N
        BY <2>2, <1>1, <1>3, <1>4
      <4>2. ASSUME NEW a \in Cells, a >= Top + 2 PROVE mem'[a] = 0
        <5>1. a \in Int /\ Top \in Int /\ Top = ptr
          BY <1>1, <1>3 DEF Cells
        <5>2. a # ptr /\ a # ptr + 1 /\ a >= Top
          BY <5>1, <4>2
        <5> QED
          BY <5>2, <1>3, <1>4 DEF NothingAtTop
      <4> QED
        BY <4>1, <4>2, <1>1 DEF HeaderAtTop
    <3> QED
      BY <2>2, <3>1, <1>1 DEF TopInv, ProducerInv, ProducerPlace, BeforeLoop
  <2> QED
    BY <2>1, <2>2
<1>15. PtrInv'
  BY <1>1, <1>3, <1>12 DEF PtrInv, prodVars, ProducerInv, ProducerPlace, BeforeLoop
<1>16. SeenInv'
  BY <1>1 DEF SeenInv, ExclusionInv, Inside
<1>17. OffsetInv'
  BY <1>1 DEF OffsetInv, prodVars, consVars
<1>18. MadeInv'
  BY <1>12, <1>1 DEF MadeInv, prodVars
<1>19. ReportInv'
  BY <1>12, <1>3, <1>1 DEF ReportInv, prodVars, consVars
<1> QED
  BY <1>5, <1>6, <1>7, <1>8, <1>11, <1>13, <1>14, <1>15, <1>16, <1>17, <1>18, <1>19

LEMMA WriteStep ==
  ASSUME ListInv, ExclusionInv, NEW p \in Procs, WriteEnd(p) \/ WriteHeader(p)
  PROVE  ListInv'
<1>1. CASE WriteEnd(p)
  <2> DEFINE mark == -1
             zero == 0
  <2>1. mark \in Int /\ zero \in Int /\ mark = -1 /\ zero = 0
    OBVIOUS
  <2>2. mem' = [mem EXCEPT ![ptr] = mark, ![ptr + 1] = zero]
    BY <1>1 DEF WriteEnd
  <2> HIDE DEF mark, zero
  <2> QED
    BY <1>1, <2>1, <2>2, WriteCells DEF WriteEnd, Goto
<1>2. CASE WriteHeader(p)
  <2>1. PICK r \in RandVals :
           mem' = [mem EXCEPT ![ptr] = BlockSize(r), ![ptr + 1] = ptr + BlockSize(r) + 2]
    BY <1>2 DEF WriteHeader
  <2>2. remaining \in 0..N /\ remaining >= 2 /\ ptr = N - remaining /\ N \in Nat /\ r \in Nat /\ r >= 3
    BY <1>2, SizeAssumption DEF WriteHeader, ListInv, TypeOK, PtrInv, Top
  <2> DEFINE size == BlockSize(r)
             nextOffset == ptr + BlockSize(r) + 2
  <2>3. /\ size \in Nat /\ size \in Int /\ nextOffset \in Int
        /\ nextOffset = ptr + size + 2 /\ ptr + size + 2 <= N
    BY <2>2 DEF BlockSize
  <2>4. mem' = [mem EXCEPT ![ptr] = size, ![ptr + 1] = nextOffset]
    BY <2>1
  <2> HIDE DEF size, nextOffset
  <2> QED
    BY <1>2, <2>3, <2>4, WriteCells DEF WriteHeader, Goto
<1> QED
  BY <1>1, <1>2

(* The numbers fill the block below its header, and the block is the last. *)
LEMMA FillStep ==
  ASSUME ListInv, ExclusionInv, NEW p \in Procs, Fill(p)
  PROVE  ListInv'
<1> USE SizeAssumption DEF ListInv
<1> DEFINE size == mem[ptr]
           n == Len(starts)
<1>1. PICK d \in [0..size - 1 -> Numbers] :
         /\ mem' = [a \in Cells |-> IF a - ptr - 2 \in DOMAIN d
                                       THEN d[a - ptr - 2] ELSE mem[a]]
         /\ made' = IF size = 0 THEN made
                    ELSE Append(made, [at |-> ptr, data |-> {d[i] : i \in DOMAIN d}])
  BY DEF Fill
<1>2. /\ pc \in [Procs -> Place] /\ pc[p] = "fill" /\ pc' = [pc EXCEPT ![p] = "post"]
      /\ starts' = Append(starts, ptr) /\ remaining' = remaining - size - 2
      /\ UNCHANGED <<running, sem, semState, shmState, ptr, consVars>>
  BY DEF Fill, TypeOK, Goto
<1>3. ptr = Top /\ ~Unread /\ HeaderAtTop
  BY <1>2 DEF PtrInv, TopInv
<1>4. /\ N \in Nat /\ remaining \in 0..N /\ size \in Nat /\ ptr \in 0..N /\ ptr = N - remaining
      /\ ptr + size + 2 <= N /\ mem[ptr + 1] = ptr + size + 2
      /\ mem \in [Cells -> Int]
  BY <1>3 DEF TypeOK, Top, HeaderAtTop
<1> HIDE DEF size
<1>5. remaining' \in 0..N /\ Top' = ptr + size + 2
  BY <1>2, <1>4 DEF Top
<1>6. ASSUME NEW a \in Cells, a < ptr + 2 \/ a >= ptr + size + 2 PROVE mem'[a] = mem[a]
  <2>1. a \in Int /\ DOMAIN d = 0..size - 1
    BY <1>4 DEF Cells
  <2>2. a - ptr - 2 \notin DOMAIN d
    BY <2>1, <1>4, <1>6
  <2> QED
    BY <1>1, <2>2
<1>7. ASSUME NEW i \in 0..size - 1 PROVE ptr + 2 + i \in Cells /\ mem'[ptr + 2 + i] = d[i]
  <2> DEFINE a == ptr + 2 + i
  <2>1. a \in Cells /\ a - ptr - 2 = i /\ i \in DOMAIN d
    BY <1>4 DEF Cells
  <2> HIDE DEF a
  <2>2. mem'[a] = d[i]
    BY <1>1, <2>1
  <2> QED
    BY <2>1, <2>2 DEF a
<1>8. /\ starts \in Seq(Offsets) /\ ptr \in Offsets /\ n \in Nat /\ starts' # <<>>
      /\ starts' \in Seq(Offsets) /\ Len(starts') = n + 1
      /\ starts'[n + 1] = ptr /\ \A i \in 1..n : starts'[i] = starts[i]
  BY <1>2, <1>4 DEF SpacingInv, Offsets
<1> HIDE DEF n
<1>9. \A i \in 1..n : /\ starts[i] \in Cells /\ starts[i] + 1 \in Cells
                      /\ starts[i] \in Int /\ starts[i] + 2 <= ptr
  BY <1>3, <1>4, BoundaryCells DEF n
<1>10. ptr \in Cells /\ ptr + 1 \in Cells /\ mem'[ptr] = size /\ mem'[ptr + 1] = ptr + size + 2
  <2>1. ptr \in Cells /\ ptr + 1 \in Cells
    BY <1>4 DEF Cells
  <2> QED
    BY <2>1, <1>4, <1>6 DEF size
<1>11. ASSUME NEW i \in 1..n
       PROVE  mem'[starts[i]] = mem[starts[i]] /\ mem'[starts[i] + 1] = mem[starts[i] + 1]
  <2>1. starts[i] < ptr + 2 /\ starts[i] + 1 < ptr + 2
    BY <1>4, <1>9
  <2> QED
    BY <2>1, <1>6, <1>9
<1>12. ASSUME NEW i \in 1..n PROVE mem[starts[i]] = 0
  <2>1. CASE i = n
    BY <2>1, <1>3, <1>8 DEF Unread, Last, n
  <2>2. CASE i # n
    BY <2>2, <1>8 DEF ReadInv, n
  <2> QED
    BY <2>1, <2>2
<1>13. Last' = ptr /\ Unread' = (size # 0)
  BY <1>8, <1>10 DEF Last, Unread
<1>14. TypeOK'
  <2>1. mem' \in [Cells -> Int]
    <3>1. \A a \in Cells : a - ptr - 2 \in DOMAIN d => d[a - ptr - 2] \in Int
      BY <1>1
    <3> QED
      BY <1>1, <1>4, <3>1
  <2> QED
    BY <1>2, <1>5, <2>1 DEF TypeOK, consVars
<1>15. ProducerInv'
  BY <1>2 DEF ProducerInv, ProducerPlace, BeforeLoop
<1>16. FreshInv'
  BY <1>2 DEF FreshInv, ProducerInv, ProducerPlace, BeforeLoop, ExclusionInv
<1>17. SpacingInv'
  <2>1. starts'[1] = 0
    <3>1. CASE starts = <<>>
      BY <3>1, <1>3, <1>8 DEF SpacingInv, n
    <3>2. CASE starts # <<>>
      BY <3>2, <1>8 DEF SpacingInv, n
    <3> QED
      BY <3>1, <3>2
  <2>2. ASSUME NEW i \in 1..n + 1 PROVE starts'[i] + 2 <= Top'
    <3>1. CASE i = n + 1
      BY <3>1, <1>4, <1>5, <1>8
    <3>2. CASE i # n + 1
      <4>1. i \in 1..n
        BY <3>2, <1>8
      <4>2. starts'[i] = starts[i] /\ starts[i] \in Int /\ starts[i] + 2 <= ptr
        BY <4>1, <1>8, <1>9
      <4> QED
        BY <4>2, <1>4, <1>5
    <3> QED
      BY <3>1, <3>2
  <2>3. ASSUME NEW i \in 1..n + 1, NEW j \in 1..n + 1, i < j PROVE starts'[i] + 2 <= starts'[j]
    <3>1. CASE j = n + 1
      BY <3>1, <2>3, <1>4, <1>8, <1>9
    <3>2. CASE j # n + 1
      BY <3>2, <2>3, <1>8 DEF SpacingInv, n
    <3> QED
      BY <3>1, <3>2
  <2> QED
    BY <2>1, <2>2, <2>3, <1>8 DEF SpacingInv
<1>18. ChainInv'
  <2>1. ASSUME NEW i \in 1..n
        PROVE  mem'[starts'[i] + 1] = starts'[i + 1]
    <3>1. mem'[starts'[i] + 1] = IF i = n THEN ptr ELSE starts[i + 1]
      BY <1>3, <1>8, <1>11 DEF ChainInv, n
    <3> QED
      BY <3>1, <1>8
  <2> QED
    BY <2>1, <1>5, <1>8, <1>10 DEF ChainInv
<1>19. ReadInv'
  <2>1. ASSUME NEW i \in 1..n + 1, i < n + 1 PROVE mem'[starts'[i]] = 0
    BY <2>1, <1>8, <1>11, <1>12
  <2>2. mem'[Last'] = Top' - Last' - 2
    BY <1>4, <1>5, <1>10, <1>13
  <2> QED
    BY <2>1, <2>2, <1>8 DEF ReadInv
<1>20. TopInv'
  <2>1. NothingAtTop'
    <3>1. ASSUME NEW a \in Cells, a >= ptr + size + 2 PROVE mem'[a] = 0
      <4>1. a \in Int /\ a >= Top + 2
        BY <3>1, <1>3, <1>4 DEF Cells
      <4> QED
        BY <3>1, <4>1, <1>3, <1>6 DEF HeaderAtTop
    <3> QED
      BY <3>1, <1>5 DEF NothingAtTop
  <2>2. \A r \in Procs : pc'[r] # "fill"
    BY <1>2 DEF ProducerInv, ProducerPlace, BeforeLoop
  <2> QED
    BY <2>1, <2>2 DEF TopInv
<1>21. PtrInv'
  BY <1>2, <1>8, <1>13 DEF PtrInv, ProducerInv, ProducerPlace, BeforeLoop
<1>22. SeenInv'
  BY <1>2 DEF SeenInv, ExclusionInv, Inside
<1>23. OffsetInv'
  <2>1. ASSUME NEW c \in Procs PROVE \E i \in 1..Len(starts') : offset[c] = starts'[i]
    <3>1. CASE offset[c] = Top
      BY <3>1, <1>3, <1>8
    <3>2. CASE offset[c] # Top
      <4>1. PICK i \in 1..n : offset[c] = starts[i]
        BY <3>2 DEF OffsetInv, n
      <4> QED
        BY <4>1, <1>8
    <3> QED
      BY <3>1, <3>2
  <2> QED
    BY <2>1, <1>2 DEF OffsetInv, consVars
<1>24. MadeInv' /\ ReportInv'
  <2>1. CASE size = 0
    <3>1. made' = made /\ reports' = reports /\ ~Unread'
      BY <2>1, <1>1, <1>2, <1>13 DEF consVars
    <3>2. MadeInv'
      BY <3>1 DEF MadeInv
    <3>3. ReportInv'
      BY <3>1, <1>3 DEF ReportInv
    <3> QED
      BY <3>2, <3>3
  <2>2. CASE size # 0
    <3> DEFINE block == [at |-> ptr, data |-> {d[i] : i \in DOMAIN d}]
               Block == [at : Offsets, data : SUBSET Int]
    <3>1. block \in Block
      BY <1>1, <1>8
    <3>2. {d[i] : i \in DOMAIN d} = {mem'[Last' + 2 + i] : i \in 0..mem'[Last'] - 1}
      <4>1. DOMAIN d = 0..size - 1 /\ Last' = ptr /\ mem'[Last'] = size
        BY <1>10, <1>13
      <4>2. \A i \in 0..size - 1 : mem'[ptr + 2 + i] = d[i]
        BY <1>7
      <4> QED
        BY <4>1, <4>2
    <3>3. made \in Seq(Block) /\ made' = Append(made, block)
      BY <2>2, <1>1 DEF MadeInv
    <3>8. block.at = ptr /\ block.data = {d[i] : i \in DOMAIN d}
      OBVIOUS
    <3> HIDE DEF Block, block
    <3>4. /\ made' \in Seq(Block) /\ Len(made) \in Nat /\ Len(made') = Len(made) + 1 /\ made' # <<>>
          /\ made'[Len(made')] = block /\ \A i \in 1..Len(made) : made'[i] = made[i]
      BY <3>1, <3>3
    <3>5. MadeInv'
      BY <3>2, <3>4, <1>13 DEF MadeInv, Block, block
    <3>6. ReportInv'
      <4>1. reports' = reports /\ Unread' /\ Len(reports) = Len(made)
        BY <2>2, <1>2, <1>3, <1>13 DEF ReportInv, consVars
      <4> QED
        <5>1. \A i \in 1..Len(reports) : reports'[i].at = made'[i].at
          BY <3>4, <4>1 DEF ReportInv
        <5>2. Len(reports') = Len(made') - 1
          BY <3>4, <4>1
        <5> QED
          BY <4>1, <5>1, <5>2 DEF ReportInv
    <3> QED
      BY <3>5, <3>6
  <2> QED
    BY <2>1, <2>2
<1> QED
  BY <1>14, <1>15, <1>16, <1>17, <1>18, <1>19, <1>20, <1>21, <1>22, <1>23, <1>24

(* What a consumer has read at its offset, if it is not the end mark:      *)
(* nothing yet, or the header of a block.                                  *)
LEMMA SeenAtBlock ==
  ASSUME ListInv, ExclusionInv, NEW c \in Procs, pc[c] = "handle",
         Size(c) # 0 \/ NextOffset(c) # 0,
         ~(Size(c) = -1 /\ NextOffset(c) = 0)
  PROVE  \E i \in 1..Len(starts) :
            /\ offset[c] = starts[i] /\ Size(c) = mem[starts[i]]
            /\ NextOffset(c) = IF i = Len(starts) THEN Top ELSE starts[i + 1]
<1> USE DEF ListInv
<1>1. Size(c) = mem[offset[c]] /\ NextOffset(c) = mem[offset[c] + 1]
  BY DEF SeenInv, Size, NextOffset
<1>2. offset[c] # Top
  <2>1. \A r \in Procs : pc[r] # "fill"
    BY DEF ExclusionInv, Inside
  <2>2. NothingAtTop \/ EndAtTop
    BY <2>1 DEF TopInv
  <2>3. Top \in Cells /\ Top + 1 \in Cells /\ Top \in Int
    BY SizeAssumption DEF TypeOK, Top, Cells
  <2> QED
    BY <1>1, <2>2, <2>3 DEF NothingAtTop, EndAtTop
<1>3. PICK i \in 1..Len(starts) : offset[c] = starts[i]
  BY <1>2 DEF OffsetInv
<1> QED
  BY <1>1, <1>3 DEF ChainInv

LEMMA AppendAny ==
  ASSUME NEW s, NEW e, IsSequence(s)
  PROVE  /\ IsSequence(Append(s, e))
         /\ Len(s) \in Nat /\ Len(Append(s, e)) = Len(s) + 1
         /\ Append(s, e)[Len(s) + 1] = e
         /\ \A i \in 1..Len(s) : Append(s, e)[i] = s[i]
<1> DEFINE S == {s[i] : i \in 1..Len(s)} \cup {e}
           t == Append(s, e)
<1>1. s \in Seq(S) /\ e \in S
  BY DEF IsSequence
<1> HIDE DEF S
<1>2. /\ t \in Seq(S) /\ Len(s) \in Nat /\ Len(t) = Len(s) + 1 /\ t[Len(s) + 1] = e
      /\ \A i \in 1..Len(s) : t[i] = s[i]
  BY <1>1
<1> HIDE DEF t
<1>3. IsSequence(t)
  <2> DEFINE R == {t[i] : i \in 1..Len(t)}
  <2>1. t \in [1..Len(t) -> R]
    BY <1>2
  <2> HIDE DEF R
  <2>2. t \in Seq(R)
    BY <2>1, <1>2
  <2> QED
    BY <2>2 DEF IsSequence, R
<1> QED
  BY <1>2, <1>3 DEF t

(* A block is reported, and it was the unread one.                         *)
LEMMA HandleStep ==
  ASSUME ListInv, ExclusionInv, NEW c \in Procs, NEW from, HandleBlock(c, from)
  PROVE  /\ ListInv'
         /\ Unread /\ offset[c] = Last /\ Size(c) = mem[Last] /\ ~Unread'
<1> USE SizeAssumption DEF ListInv
<1> DEFINE cells == {mem[offset[c] + from + i] : i \in 0..Size(c) - 1}
           e == [at |-> offset[c], min |-> Min(cells), max |-> Max(cells)]
<1>1. reports' = Append(reports, e) /\ e.at = offset[c]
  BY DEF HandleBlock
<1> HIDE DEF e
<1>2. /\ pc \in [Procs -> Place] /\ pc[c] = "handle" /\ pc' = [pc EXCEPT ![c] = "give"]
      /\ mem' = [mem EXCEPT ![offset[c]] = 0]
      /\ offset' = [offset EXCEPT ![c] = NextOffset(c)]
      /\ Size(c) # 0 /\ ~(Size(c) = -1 /\ NextOffset(c) = 0)
      /\ UNCHANGED <<running, sem, semState, shmState, prodVars, seen>>
  BY DEF HandleBlock, TypeOK, Goto
<1>3. PICK k \in 1..Len(starts) :
         /\ offset[c] = starts[k] /\ Size(c) = mem[starts[k]]
         /\ NextOffset(c) = IF k = Len(starts) THEN Top ELSE starts[k + 1]
  BY <1>2, SeenAtBlock
<1>4. k = Len(starts) /\ starts # <<>>
  BY <1>2, <1>3 DEF ReadInv, SpacingInv
<1>5. Unread /\ offset[c] = Last /\ Size(c) = mem[Last] /\ NextOffset(c) = Top
  BY <1>2, <1>3, <1>4 DEF Unread, Last
<1>6. Last \in Cells /\ Last \in Int /\ Last + 2 <= Top /\ Top \in 0..N
  BY <1>3, <1>4, BoundaryCells DEF Last, Cells
<1>7. mem \in [Cells -> Int] /\ mem' = [mem EXCEPT ![Last] = 0]
  BY <1>2, <1>5 DEF TypeOK
<1>8. Top' = Top /\ Last' = Last /\ ~Unread'
  BY <1>2, <1>6, <1>7 DEF Top, Last, Unread, prodVars
<1>9. \A i \in 1..Len(starts) : mem'[starts[i] + 1] = mem[starts[i] + 1]
  <2>1. ASSUME NEW i \in 1..Len(starts) PROVE starts[i] + 1 # Last /\ starts[i] + 1 \in Cells
    <3>1. starts[i] \in Int /\ starts[i] + 1 \in Cells
      BY BoundaryCells
    <3>2. i # Len(starts) => starts[i] + 2 <= Last
      BY <1>3, <1>4 DEF SpacingInv, Last
    <3> QED
      BY <3>1, <3>2, <1>6 DEF Last
  <2> QED
    BY <2>1, <1>7
<1>10. \A a \in Cells : a >= Top => mem'[a] = mem[a]
  BY <1>6, <1>7 DEF Cells
<1>11. \A r \in Procs : pc[r] \notin {"fill", "write"}
  BY <1>2 DEF ExclusionInv, Inside
<1>12. TypeOK'
  <2>1. mem' \in [Cells -> Int]
    BY <1>6, <1>7
  <2>2. offset' \in [Procs -> Offsets]
    BY <1>2, <1>5, <1>6 DEF TypeOK, Offsets
  <2> QED
    BY <1>2, <2>1, <2>2 DEF TypeOK, prodVars
<1>13. ProducerInv' /\ FreshInv'
  <2>1. ProducerInv'
    BY <1>2 DEF ProducerInv, ProducerPlace, BeforeLoop
  <2>2. \A r \in Procs : pc'[r] \in BeforeLoop => pc[r] \in BeforeLoop
    BY <1>2 DEF BeforeLoop
  <2>3. ~Fresh
    BY <1>4 DEF Fresh
  <2> QED
    BY <2>1, <2>2, <2>3, <1>2 DEF FreshInv
<1>14. SpacingInv' /\ ChainInv' /\ ReadInv'
  <2>1. SpacingInv' /\ ChainInv'
    BY <1>2, <1>8, <1>9 DEF SpacingInv, ChainInv, prodVars
  <2>2. ASSUME NEW i \in 1..Len(starts), i < Len(starts) PROVE mem'[starts[i]] = 0
    <3>1. mem[starts[i]] = 0 /\ starts[i] \in Cells
      BY <2>2, BoundaryCells DEF ReadInv
    <3> QED
      BY <3>1, <1>7
  <2> QED
    BY <2>1, <2>2, <1>2, <1>8 DEF ReadInv, prodVars
<1>15. TopInv'
  <2>1. Top \in Cells /\ Top + 1 \in Cells /\ Top \in Int
    BY <1>6 DEF Cells
  <2>2. NothingAtTop => NothingAtTop'
    BY <1>8, <1>10 DEF NothingAtTop
  <2>3. EndAtTop => EndAtTop'
    BY <1>8, <1>10, <2>1 DEF EndAtTop
  <2>4. \A r \in Procs : pc'[r] \in ProducerPlace => pc[r] = pc'[r]
    BY <1>2, <1>11 DEF ProducerPlace, BeforeLoop
  <2> QED
    <3>1. NothingAtTop' \/ EndAtTop'
      BY <2>2, <2>3, <1>11 DEF TopInv
    <3>2. \A r \in Procs :
             pc'[r] \in ProducerPlace \ {"fill", "end", "close", "rmsem"} => NothingAtTop'
      BY <2>2, <2>4 DEF TopInv
    <3>3. \A r \in Procs : pc'[r] # "fill"
      BY <1>2, <1>11
    <3> QED
      BY <3>1, <3>2, <3>3 DEF TopInv
<1>16. PtrInv'
  BY <1>2, <1>8 DEF PtrInv, prodVars
<1>17. SeenInv'
  BY <1>2 DEF SeenInv, ExclusionInv, Inside
<1>18. OffsetInv'
  <2>1. ASSUME NEW r \in Procs PROVE offset'[r] = Top \/ \E i \in 1..Len(starts) : offset'[r] = starts[i]
    BY <1>2, <1>5 DEF OffsetInv, TypeOK
  <2> QED
    BY <2>1, <1>2, <1>8 DEF OffsetInv, prodVars
<1>19. MadeInv'
  BY <1>2, <1>8 DEF MadeInv, prodVars
<1>20. ReportInv'
  <2>1. made' = made /\ made \in Seq([at : Offsets, data : SUBSET Int]) /\ made # <<>>
    BY <1>2, <1>5 DEF MadeInv, prodVars
  <2>2. Len(made) \in Nat /\ Len(reports) = Len(made) - 1 /\ made[Len(made)].at = Last
    BY <2>1, <1>5 DEF ReportInv, MadeInv
  <2>3. /\ IsSequence(reports') /\ Len(reports) \in Nat
        /\ Len(reports') = Len(reports) + 1 /\ reports'[Len(reports) + 1] = e
        /\ \A i \in 1..Len(reports) : reports'[i] = reports[i]
    BY <1>1, AppendAny DEF ReportInv
  <2>4. ASSUME NEW i \in 1..Len(reports') PROVE reports'[i].at = made[i].at
    <3>1. CASE i = Len(made)
      BY <3>1, <2>2, <2>3, <1>1, <1>5
    <3>2. CASE i # Len(made)
      <4>1. i \in 1..Len(reports)
        BY <3>2, <2>2, <2>3
      <4> QED
        BY <4>1, <2>3 DEF ReportInv
    <3> QED
      BY <3>1, <3>2
  <2> QED
    BY <2>1, <2>2, <2>3, <2>4, <1>8 DEF ReportInv
<1> QED
  BY <1>5, <1>8, <1>12, <1>13, <1>14, <1>15, <1>16, <1>17, <1>18, <1>19, <1>20

(* A consumer follows next_offset past a block that has been read.         *)
LEMMA SkipStep ==
  ASSUME ListInv, ExclusionInv, NEW c \in Procs, SkipBlock(c)
  PROVE  ListInv'
<1> USE DEF ListInv
<1>1. /\ pc \in [Procs -> Place] /\ pc[c] = "handle" /\ pc' = [pc EXCEPT ![c] = "give"]
      /\ Size(c) = 0 /\ NextOffset(c) # 0
      /\ offset \in [Procs -> Offsets] /\ offset' = [offset EXCEPT ![c] = NextOffset(c)]
      /\ UNCHANGED <<running, sem, semState, shmState, mem, prodVars, seen, reports>>
  BY DEF SkipBlock, TypeOK, Goto
<1>2. Top' = Top /\ Last' = Last /\ (Unread' = Unread)
  BY <1>1 DEF Top, Last, Unread, prodVars
<1>3. NextOffset(c) = Top \/ \E i \in 1..Len(starts) : NextOffset(c) = starts[i]
  <2>1. PICK i \in 1..Len(starts) : NextOffset(c) = IF i = Len(starts) THEN Top ELSE starts[i + 1]
    BY <1>1, SeenAtBlock
  <2>2. i # Len(starts) => i + 1 \in 1..Len(starts)
    BY DEF SpacingInv
  <2> QED
    BY <2>1, <2>2
<1>4. NextOffset(c) \in Offsets
  BY <1>3, SizeAssumption DEF SpacingInv, TypeOK, Top, Offsets
<1>5. TypeOK'
  BY <1>1, <1>4 DEF TypeOK, prodVars
<1>6. ProducerInv' /\ FreshInv'
  BY <1>1 DEF ProducerInv, FreshInv, Fresh, ProducerPlace, BeforeLoop, prodVars
<1>7. SpacingInv' /\ ChainInv' /\ ReadInv' /\ MadeInv' /\ ReportInv'
  BY <1>1, <1>2 DEF SpacingInv, ChainInv, ReadInv, MadeInv, ReportInv, prodVars
<1>8. TopInv'
  <2>1. (NothingAtTop' = NothingAtTop) /\ (EndAtTop' = EndAtTop) /\ (HeaderAtTop' = HeaderAtTop)
    BY <1>1, <1>2 DEF NothingAtTop, EndAtTop, HeaderAtTop
  <2>2. \A r \in Procs : pc'[r] \in ProducerPlace => pc'[r] = pc[r]
    BY <1>1 DEF ProducerPlace, BeforeLoop
  <2>3. \A r \in Procs : (pc'[r] = "fill") = (pc[r] = "fill")
    BY <1>1
  <2> QED
    BY <2>1, <2>2, <2>3 DEF TopInv
<1>9. PtrInv' /\ SeenInv'
  BY <1>1, <1>2 DEF PtrInv, SeenInv, prodVars
<1>10. OffsetInv'
  <2>1. ASSUME NEW r \in Procs PROVE offset'[r] = Top \/ \E i \in 1..Len(starts) : offset'[r] = starts[i]
    BY <1>1, <1>3 DEF OffsetInv
  <2> QED
    BY <2>1, <1>1, <1>2 DEF OffsetInv, prodVars
<1> QED
  BY <1>5, <1>6, <1>7, <1>8, <1>9, <1>10

LEMMA ReadStep ==
  ASSUME ListInv, ExclusionInv', NEW c \in Procs, Read(c)
  PROVE  ListInv'
<1> USE DEF ListInv
<1>1. /\ pc \in [Procs -> Place] /\ pc[c] = "read" /\ pc' = [pc EXCEPT ![c] = "handle"]
      /\ seen \in [Procs -> Int \X Int]
      /\ seen' = [seen EXCEPT ![c] = <<mem[offset[c]], mem[offset[c] + 1]>>]
      /\ UNCHANGED <<running, sem, semState, shmState, mem, prodVars, offset, reports>>
  BY DEF Read, TypeOK, Goto
<1>2. Top' = Top /\ Last' = Last /\ (Unread' = Unread)
  BY <1>1 DEF Top, Last, Unread, prodVars
<1>3. TypeOK'
  <2>1. mem[offset[c]] \in Int /\ mem[offset[c] + 1] \in Int
    BY SizeAssumption DEF TypeOK, Offsets, Cells
  <2> QED
    BY <1>1, <2>1 DEF TypeOK, prodVars
<1>4. ProducerInv' /\ FreshInv'
  BY <1>1 DEF ProducerInv, FreshInv, Fresh, ProducerPlace, BeforeLoop, prodVars
<1>5. SpacingInv' /\ ChainInv' /\ ReadInv' /\ MadeInv' /\ ReportInv' /\ OffsetInv'
  BY <1>1, <1>2 DEF SpacingInv, ChainInv, ReadInv, MadeInv, ReportInv, OffsetInv, prodVars
<1>6. TopInv'
  <2>1. (NothingAtTop' = NothingAtTop) /\ (EndAtTop' = EndAtTop) /\ (HeaderAtTop' = HeaderAtTop)
    BY <1>1, <1>2 DEF NothingAtTop, EndAtTop, HeaderAtTop
  <2>2. \A r \in Procs : pc'[r] \in ProducerPlace => pc'[r] = pc[r]
    BY <1>1 DEF ProducerPlace, BeforeLoop
  <2>3. \A r \in Procs : (pc'[r] = "fill") = (pc[r] = "fill")
    BY <1>1
  <2> QED
    BY <2>1, <2>2, <2>3 DEF TopInv
<1>7. PtrInv' /\ SeenInv'
  BY <1>1, <1>2 DEF PtrInv, SeenInv, prodVars
<1> QED
  BY <1>3, <1>4, <1>5, <1>6, <1>7

LEMMA BlocksListStep ==
  ASSUME ListInv, ExclusionInv, ExclusionInv', NEW p \in Procs, NEW from,
         ProducerNext(p) \/ ConsumerNext(p, from)
  PROVE  ListInv'
<1> USE DEF ProducerPlace, BeforeLoop
<1>0. /\ running \in [Procs -> BOOLEAN] /\ semState \in {"absent", "live", "removed"}
      /\ shmState \in {"absent", "empty", "live", "removed"}
  BY DEF ListInv, TypeOK
<1>1. CASE Post(p)
  BY <1>0, <1>1, QuietStep DEF Post
<1>2. CASE Check(p)
  <2>1. CASE mem[ptr] = 0
    <3>1. ~Unread
      BY <1>2, <2>1 DEF Check, ListInv, PtrInv, Unread
    <3> QED
      BY <1>0, <1>2, <2>1, <3>1, QuietStep DEF Check
  <2>2. CASE mem[ptr] # 0
    BY <1>0, <1>2, <2>2, QuietStep DEF Check
  <2> QED
    BY <2>1, <2>2
<1>3. CASE PostEnd(p)
  BY <1>0, <1>3, QuietStep DEF PostEnd
<1>4. CASE ScanLoop(p)
  <2>1. PICK l \in {"take", "exited"} : Goto(p, l)
    BY <1>4 DEF ScanLoop
  <2> QED
    BY <1>0, <1>4, <2>1, QuietStep DEF ScanLoop
<1>5. CASE AtEnd(p)
  BY <1>0, <1>5, QuietStep DEF AtEnd
<1>6. CASE NoBlock(p)
  BY <1>0, <1>6, QuietStep DEF NoBlock
<1> QED
  BY <1>1, <1>2, <1>3, <1>4, <1>5, <1>6, LoopStep, WriteStep, FillStep, ReadStep, SkipStep,
     HandleStep DEF ProducerNext, ConsumerNext

LEMMA TakeListStep ==
  ASSUME ListInv, ExclusionInv', NEW p \in Procs, Lock(p)
  PROVE  ListInv'
<1>1. /\ running \in [Procs -> BOOLEAN] /\ semState \in {"absent", "live", "removed"}
      /\ shmState \in {"absent", "empty", "live", "removed"}
  BY DEF ListInv, TypeOK
<1>2. PICK l \in {"write", "check", "read"} : Goto(p, l) /\ l = After(pc[p])
  BY DEF Lock, Locking, After
<1>3. /\ l = "write" => pc[p] = "lock"
      /\ l = "check" => pc[p] = "wait"
      /\ l = "read" => pc[p] = "take"
  BY <1>2 DEF Lock, Locking, After
<1> QED
  BY <1>1, <1>2, <1>3, QuietStep DEF Lock, Locking, ProducerPlace, BeforeLoop

(* The segment is cleared when it is clear.                                *)
LEMMA ClearListStep ==
  ASSUME ListInv, ExclusionInv', NEW p \in Procs, pc[p] = "memset", Goto(p, "loop"),
         mem' = [a \in Cells |-> IF a < N THEN 0 ELSE mem[a]], remaining' = N,
         UNCHANGED <<running, sem, semState, shmState, ptr, starts, made, consVars>>
  PROVE  ListInv'
<1>1. Fresh
  BY DEF ListInv, FreshInv, BeforeLoop
<1>2. UNCHANGED <<mem, prodVars>> /\ ~Unread
  <2>1. \A a \in Cells : mem'[a] = mem[a]
    BY <1>1 DEF Fresh
  <2>2. mem \in [Cells -> Int] /\ mem' = [a \in Cells |-> mem'[a]]
    BY DEF ListInv, TypeOK
  <2>3. mem' = mem
    BY <2>1, <2>2
  <2> QED
    BY <1>1, <2>3 DEF Fresh, prodVars, Unread
<1>3. /\ running \in [Procs -> BOOLEAN] /\ semState \in {"absent", "live", "removed"}
      /\ shmState \in {"absent", "empty", "live", "removed"}
  BY DEF ListInv, TypeOK
<1> QED
  BY <1>2, <1>3, QuietStep DEF ProducerPlace, BeforeLoop

LEMMA InitList == Init => ListInv
<1> SUFFICES ASSUME Init PROVE ListInv
  OBVIOUS
<1> USE SizeAssumption DEF Init
<1>1. TypeOK
  BY DEF TypeOK, Offsets, Cells
<1>2. Top = 0 /\ starts = <<>> /\ ~Unread /\ Len(starts) = 0 /\ Fresh
  BY DEF Top, Unread, Fresh
<1>3. ProducerInv /\ FreshInv /\ SeenInv
  BY <1>2 DEF ProducerInv, FreshInv, SeenInv, ProducerPlace, BeforeLoop
<1>4. SpacingInv /\ ChainInv /\ ReadInv /\ OffsetInv
  BY <1>2 DEF SpacingInv, ChainInv, ReadInv, OffsetInv
<1>5. TopInv /\ PtrInv
  BY <1>2 DEF TopInv, NothingAtTop, PtrInv, ProducerPlace, BeforeLoop
<1>6. MadeInv /\ ReportInv
  BY <1>2 DEF MadeInv, ReportInv, IsSequence
<1> QED
  BY <1>1, <1>3, <1>4, <1>5, <1>6 DEF ListInv

(* The signal handler sets a flag, and nothing else.                       *)
LEMMA FlagStep ==
  ASSUME ListInv, UNCHANGED <<pc, sem, semState, shmState, mem, prodVars, consVars>>,
         running' \in [Procs -> BOOLEAN]
  PROVE  ListInv'
<1> USE DEF ListInv
<1>1. UNCHANGED <<remaining, ptr, starts, made, offset, seen, reports>>
  BY DEF prodVars, consVars
<1>2. Top' = Top /\ Last' = Last /\ (Unread' = Unread)
  BY <1>1 DEF Top, Last, Unread
<1>3. TypeOK' /\ ProducerInv' /\ FreshInv' /\ SpacingInv' /\ ChainInv' /\ ReadInv'
  BY <1>1, <1>2 DEF TypeOK, ProducerInv, FreshInv, Fresh, SpacingInv, ChainInv, ReadInv
<1>4. TopInv' /\ PtrInv' /\ SeenInv'
  BY <1>1, <1>2 DEF TopInv, NothingAtTop, EndAtTop, HeaderAtTop, PtrInv, SeenInv
<1>5. OffsetInv' /\ MadeInv' /\ ReportInv'
  BY <1>1, <1>2 DEF OffsetInv, MadeInv, ReportInv
<1> QED
  BY <1>3, <1>4, <1>5

LEMMA StutterList ==
  ASSUME ListInv, UNCHANGED vars
  PROVE  ListInv'
  BY FlagStep DEF vars, osVars, ListInv, TypeOK

(* The first process makes the semaphore: it is the producer.              *)
LEMMA CreateListStep ==
  ASSUME ListInv, ExclusionInv, ExclusionInv', NEW p \in Procs,
         pc[p] = "off", semState = "absent", semState' = "live",
         NEW l \in BeforeLoop, Goto(p, l),
         UNCHANGED <<running, shmState, mem, prodVars, consVars>>
  PROVE  ListInv'
<1> USE DEF ListInv
<1>1. /\ \A r \in Procs : pc[r] = "off"
      /\ pc \in [Procs -> Place] /\ pc' = [pc EXCEPT ![p] = l]
  BY DEF ExclusionInv, Goto
<1>2. \A r \in Procs : pc'[r] = IF r = p THEN l ELSE "off"
  BY <1>1
<1>3. /\ SpacingInv' /\ ChainInv' /\ ReadInv' /\ OffsetInv' /\ MadeInv' /\ ReportInv'
      /\ Top' = Top /\ Unread' = Unread /\ Last' = Last
  BY SameMemory DEF prodVars, consVars
<1>4. Fresh /\ Fresh' /\ Top = 0 /\ ~Unread
  <2>1. Fresh
    BY DEF FreshInv
  <2> QED
    BY <2>1, SizeAssumption DEF Fresh, Top, Unread, prodVars
<1>5. TypeOK'
  BY <1>1 DEF TypeOK, ExclusionInv, prodVars, consVars
<1>6. ProducerInv' /\ FreshInv' /\ SeenInv'
  BY <1>2, <1>4 DEF ProducerInv, FreshInv, SeenInv, ProducerPlace, BeforeLoop
<1>7. NothingAtTop'
  BY <1>4 DEF NothingAtTop, Fresh
<1>8. TopInv' /\ PtrInv'
  BY <1>2, <1>7 DEF TopInv, PtrInv, BeforeLoop
<1> QED
  BY <1>3, <1>5, <1>6, <1>8

LEMMA ListSuffices == ListInv => TypeOK /\ EachBlockOnce /\ OffsetsAreBoundaries
<1> SUFFICES ASSUME ListInv PROVE EachBlockOnce /\ OffsetsAreBoundaries
  BY DEF ListInv
<1>1. Len(made) \in Nat /\ (Unread => Len(made) > 0)
  BY DEF ListInv, MadeInv
<1> QED
  BY <1>1 DEF ListInv, ReportInv, OffsetInv, EachBlockOnce, OffsetsAreBoundaries, Top
=============================================================================
