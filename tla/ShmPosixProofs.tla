--------------------------- MODULE ShmPosixProofs ----------------------------
(***************************************************************************)
(* Proofs about 05/main.c: exclusion, the list of blocks, the min and max  *)
(* that are printed of each, and that all of it is a handoff of the blocks *)
(* from one at a time to the next.                                         *)
(***************************************************************************)
EXTENDS ShmPosix, ShmProofs

USE DEF Place

LEMMA PosixExclusionStep ==
  ASSUME ExclusionInv, [Next]_vars
  PROVE  ExclusionInv'
<1>1. ASSUME NEW p \in Procs, Begin(p) PROVE ExclusionInv'
  <2>1. CASE CreateSem(p)
    BY <2>1 DEF CreateSem, Goto, ExclusionInv, Inside
  <2>2. CASE FindSem(p)
    BY <2>2 DEF FindSem, Goto, ExclusionInv, Inside
  <2> QED
    BY <1>1, <2>1, <2>2 DEF Begin
<1>2. ASSUME NEW p \in Procs, Step(p) PROVE ExclusionInv'
  <2> USE DEF InsidePlace
  <2>1. CASE OpenShm(p)
    BY <2>1, OutsideStep DEF OpenShm
  <2>2. CASE Truncate(p)
    BY <2>2, OutsideStep DEF Truncate
  <2>3. CASE ClearShm(p)
    BY <2>3, OutsideStep DEF ClearShm
  <2>4. CASE Attach(p)
    <3>1. PICK l \in {"scan", "exited"} : Goto(p, l)
      BY <2>4 DEF Attach
    <3> QED
      BY <2>4, <3>1, OutsideStep DEF Attach
  <2>5. CASE Give(p)
    <3>1. PICK l \in {"scan", "exited"} : Goto(p, l)
      BY <2>5 DEF Give
    <3> QED
      BY <2>5, <3>1, GiveStep DEF Give
  <2>6. CASE UnlinkShm(p)
    BY <2>6, OutsideStep DEF UnlinkShm
  <2>7. CASE UnlinkSem(p)
    BY <2>7, OutsideStep DEF UnlinkSem
  <2> QED
    BY <1>2, <2>1, <2>2, <2>3, <2>4, <2>5, <2>6, <2>7, TakeStep, BlocksStep DEF Step
<1>3. ASSUME NEW p \in Procs, Interrupt(p) PROVE ExclusionInv'
  <2>1. CASE UNCHANGED pc
    BY <1>3, <2>1 DEF Interrupt, ExclusionInv, Inside
  <2>2. CASE Locking(p) /\ Goto(p, Retry(p))
    <3>1. PICK l \in {"loop", "wait", "scan"} : Goto(p, l)
      BY <2>2 DEF Locking, Retry
    <3> QED
      BY <1>3, <2>2, <3>1, OutsideStep DEF Interrupt, Locking, InsidePlace
  <2> QED
    BY <1>3, <2>1, <2>2 DEF Interrupt
<1> QED
  BY <1>1, <1>2, <1>3, StutterExclusion DEF Next, Finished

(* 05: no two processes are in the list at a time, and none while the      *)
(* semaphore is free, however many there are.                              *)
THEOREM PosixExclusion == Spec => []MutualExclusion
<1>1. Spec => []ExclusionInv
  BY InitExclusion, PosixExclusionStep, PTL DEF Spec
<1> QED
  BY <1>1, ExclusionSuffices, PTL

(* What every step does to the list.                                       *)
LEMMA PosixListStep ==
  ASSUME ListInv, ExclusionInv, ExclusionInv', [Next]_vars
  PROVE  ListInv'
<1> USE DEF ProducerPlace, BeforeLoop
<1>1. /\ running \in [Procs -> BOOLEAN] /\ semState \in {"absent", "live", "removed"}
      /\ shmState \in {"absent", "empty", "live", "removed"}
  BY DEF ListInv, TypeOK
<1>2. ASSUME NEW p \in Procs, Begin(p) PROVE ListInv'
  <2>1. CASE CreateSem(p)
    BY <2>1, CreateListStep DEF CreateSem
  <2>2. CASE FindSem(p)
    BY <1>1, <2>2, QuietStep DEF FindSem
  <2> QED
    BY <1>2, <2>1, <2>2 DEF Begin
<1>3. ASSUME NEW p \in Procs, Step(p) PROVE ListInv'
  <2>1. CASE OpenShm(p)
    BY <1>1, <2>1, QuietStep DEF OpenShm
  <2>2. CASE Truncate(p)
    BY <1>1, <2>2, QuietStep DEF Truncate
  <2>3. CASE ClearShm(p)
    BY <2>3, ClearListStep DEF ClearShm
  <2>4. CASE Attach(p)
    <3>1. PICK l \in {"scan", "exited"} : Goto(p, l)
      BY <2>4 DEF Attach
    <3> QED
      BY <1>1, <2>4, <3>1, QuietStep DEF Attach
  <2>5. CASE Give(p)
    <3>1. PICK l \in {"scan", "exited"} : Goto(p, l)
      BY <2>5 DEF Give
    <3> QED
      BY <1>1, <2>5, <3>1, QuietStep DEF Give
  <2>6. CASE UnlinkShm(p)
    BY <1>1, <2>6, QuietStep DEF UnlinkShm
  <2>7. CASE UnlinkSem(p)
    BY <1>1, <2>7, QuietStep DEF UnlinkSem
  <2> QED
    BY <1>3, <2>1, <2>2, <2>3, <2>4, <2>5, <2>6, <2>7, TakeListStep, BlocksListStep DEF Step
<1>4. ASSUME NEW p \in Procs, Interrupt(p) PROVE ListInv'
  <2>1. running' \in [Procs -> BOOLEAN]
    BY <1>1, <1>4 DEF Interrupt
  <2>2. CASE UNCHANGED pc
    BY <1>4, <2>1, <2>2, FlagStep DEF Interrupt
  <2>3. CASE Locking(p) /\ Goto(p, Retry(p))
    <3>1. PICK l \in {"loop", "wait", "scan"} : l = Retry(p) /\ Goto(p, l)
      BY <2>3 DEF Locking, Retry
    <3>2. /\ l = "loop" => pc[p] = "lock"
          /\ l = "wait" => pc[p] = "wait"
          /\ l = "scan" => pc[p] = "take"
      BY <2>3, <3>1 DEF Locking, Retry
    <3>3. l = "loop" => ~Unread
      BY <3>2 DEF ListInv, PtrInv
    <3> QED
      BY <1>1, <1>4, <2>1, <2>3, <3>1, <3>2, <3>3, QuietStep DEF Interrupt, Locking
  <2> QED
    BY <1>4, <2>2, <2>3 DEF Interrupt
<1> QED
  BY <1>2, <1>3, <1>4, StutterList DEF Next, Finished

LEMMA PosixList == Spec => []ListInv
  BY InitExclusion, PosixExclusionStep, InitList, PosixListStep, PTL DEF Spec

(* 05: the variables keep their types, the offset the producer computes     *)
(* from remaining_cells and the cells it writes stay inside the segment.   *)
THEOREM PosixTypes == Spec => []TypeOK
  BY PosixList, ListSuffices, PTL

(* 05: blocks are processed in the order they were made, each by exactly    *)
(* one consumer, however many there are, whenever they come and go.        *)
THEOREM PosixEachBlockOnce == Spec => []EachBlockOnce
  BY PosixList, ListSuffices, PTL

(* 05: no consumer ever stands inside a block or past the list.             *)
THEOREM PosixOffsets == Spec => []OffsetsAreBoundaries
  BY PosixList, ListSuffices, PTL
-----------------------------------------------------------------------------
(* The numbers that are reported, and the promise of Handoff.              *)

(* A block that has numbers is made when all others have been reported.    *)
MakeOne(b) ==
    /\ ~Unread
    /\ b.data \in (SUBSET Numbers) \ {{}}
    /\ made' = Append(made, b)
    /\ UNCHANGED reports

(* The unread block is reported, with the least and greatest of its        *)
(* numbers.                                                                *)
ReportLast(e) ==
    /\ Unread
    /\ e.min = Min(made[Len(made)].data)
    /\ e.max = Max(made[Len(made)].data)
    /\ reports' = Append(reports, e)
    /\ UNCHANGED made

LEMMA FillMakes ==
  ASSUME ListInv, NEW p \in Procs, Fill(p)
  PROVE  UNCHANGED <<made, reports>> \/ \E b : MakeOne(b)
<1>1. ~Unread /\ mem[ptr] \in Nat
  BY DEF Fill, ListInv, PtrInv, TopInv, HeaderAtTop
<1>2. PICK d \in [0..mem[ptr] - 1 -> Numbers] :
         made' = IF mem[ptr] = 0 THEN made
                 ELSE Append(made, [at |-> ptr, data |-> {d[i] : i \in DOMAIN d}])
  BY DEF Fill
<1>3. UNCHANGED reports
  BY DEF Fill, consVars
<1>4. CASE mem[ptr] # 0
  <2> DEFINE b == [at |-> ptr, data |-> {d[i] : i \in DOMAIN d}]
  <2>1. 0 \in DOMAIN d
    BY <1>1, <1>4
  <2>2. b.data \in (SUBSET Numbers) \ {{}}
    <3>1. {d[i] : i \in DOMAIN d} \subseteq Numbers
      OBVIOUS
    <3>2. d[0] \in {d[i] : i \in DOMAIN d}
      BY <2>1
    <3>3. {d[i] : i \in DOMAIN d} # {}
      BY <3>2
    <3> QED
      BY <3>1, <3>3
  <2>3. MakeOne(b)
    BY <1>1, <1>2, <1>3, <1>4, <2>2 DEF MakeOne
  <2> QED
    BY <2>3
<1> QED
  BY <1>2, <1>3, <1>4

(* In 05 the cells handed to handle_numbers are the numbers of the block.  *)
LEMMA HandleReports ==
  ASSUME ListInv, ExclusionInv, NEW c \in Procs, HandleBlock(c, 2)
  PROVE  \E e : ReportLast(e)
<1> DEFINE cells == {mem[offset[c] + 2 + i] : i \in 0..Size(c) - 1}
           e == [at |-> offset[c], min |-> Min(cells), max |-> Max(cells)]
<1>1. reports' = Append(reports, e) /\ UNCHANGED made
  BY DEF HandleBlock, prodVars
<1>2. Unread /\ offset[c] = Last /\ Size(c) = mem[Last]
  BY HandleStep
<1>3. made[Len(made)].data = {mem[Last + 2 + i] : i \in 0..mem[Last] - 1}
  BY <1>2 DEF ListInv, MadeInv
<1>4. cells = made[Len(made)].data
  BY <1>2, <1>3
<1> HIDE DEF cells
<1>5. e.min = Min(made[Len(made)].data) /\ e.max = Max(made[Len(made)].data)
  BY <1>4
<1> HIDE DEF e
<1> QED
  BY <1>1, <1>2, <1>5 DEF ReportLast

LEMMA PosixHistory ==
  ASSUME ListInv, ExclusionInv, [Next]_vars
  PROVE  \/ UNCHANGED <<made, reports>>
         \/ \E b : MakeOne(b)
         \/ \E e : ReportLast(e)
<1>1. CASE UNCHANGED vars
  BY <1>1 DEF vars, prodVars, consVars
<1>2. ASSUME NEW p \in Procs, Begin(p) \/ Interrupt(p) PROVE UNCHANGED <<made, reports>>
  BY <1>2 DEF Begin, CreateSem, FindSem, Interrupt, prodVars, consVars
<1>3. ASSUME NEW p \in Procs, Step(p)
      PROVE  UNCHANGED <<made, reports>> \/ Fill(p) \/ HandleBlock(p, 2)
  <2>1. CASE OpenShm(p) \/ Truncate(p) \/ ClearShm(p) \/ Attach(p)
    BY <2>1 DEF OpenShm, Truncate, ClearShm, Attach, prodVars, consVars
  <2>2. CASE Lock(p) \/ Give(p) \/ UnlinkShm(p) \/ UnlinkSem(p)
    BY <2>2 DEF Lock, Give, UnlinkShm, UnlinkSem, prodVars, consVars
  <2>3. CASE ProducerNext(p)
    BY <2>3 DEF ProducerNext, ProduceLoop, WriteEnd, WriteHeader, Post, Check, PostEnd,
                prodVars, consVars
  <2>4. CASE ConsumerNext(p, 2)
    BY <2>4 DEF ConsumerNext, ScanLoop, Read, AtEnd, SkipBlock, NoBlock, prodVars, consVars
  <2> QED
    BY <1>3, <2>1, <2>2, <2>3, <2>4 DEF Step
<1> QED
  BY <1>1, <1>2, <1>3, FillMakes, HandleReports DEF Next, Finished

(* How many blocks there are to report.                                    *)
LEMMA HistoryLengths ==
  ASSUME ListInv
  PROVE  /\ made \in Seq([at : Offsets, data : SUBSET Int]) /\ IsSequence(reports)
         /\ Len(made) \in Nat /\ Len(reports) \in Nat
         /\ ~Unread => Len(reports) = Len(made)
         /\ Unread => Len(made) = Len(reports) + 1
<1>1. /\ made \in Seq([at : Offsets, data : SUBSET Int]) /\ IsSequence(reports)
      /\ Len(reports) = IF Unread THEN Len(made) - 1 ELSE Len(made)
      /\ Unread => made # <<>>
  BY DEF ListInv, MadeInv, ReportInv
<1>2. Len(made) \in Nat /\ Len(reports) \in Nat
  BY <1>1 DEF IsSequence
<1> QED
  BY <1>1, <1>2

LEMMA MakeOneSequence ==
  ASSUME ListInv, NEW b, MakeOne(b)
  PROVE  /\ Len(made') = Len(made) + 1 /\ made'[Len(made) + 1] = b
         /\ \A i \in 1..Len(made) : made'[i] = made[i]
<1> DEFINE T == [at : Offsets, data : SUBSET Int]
           S == T \cup {b}
<1>1. made \in Seq(S) /\ b \in S
  <2>1. made \in Seq(T)
    BY HistoryLengths
  <2> HIDE DEF T
  <2> QED
    BY <2>1
<1> HIDE DEF S
<1> QED
  BY <1>1 DEF MakeOne

LEMMA MinMaxStep ==
  ASSUME MinMaxCorrect, ListInv, ExclusionInv, [Next]_vars
  PROVE  MinMaxCorrect'
<1>1. CASE UNCHANGED <<made, reports>>
  BY <1>1 DEF MinMaxCorrect
<1>2. ASSUME NEW b, MakeOne(b) PROVE MinMaxCorrect'
  BY <1>2, MakeOneSequence, HistoryLengths DEF MinMaxCorrect, MakeOne
<1>3. ASSUME NEW e, ReportLast(e) PROVE MinMaxCorrect'
  <2>1. /\ Len(reports') = Len(reports) + 1 /\ reports'[Len(reports) + 1] = e
        /\ \A i \in 1..Len(reports) : reports'[i] = reports[i]
        /\ Len(made) = Len(reports) + 1 /\ Len(reports) \in Nat
    BY <1>3, HistoryLengths, AppendAny DEF ReportLast
  <2>2. ASSUME NEW i \in 1..Len(reports')
        PROVE  reports'[i].min = Min(made[i].data) /\ reports'[i].max = Max(made[i].data)
    <3>1. CASE i = Len(reports) + 1
      BY <3>1, <2>1, <1>3 DEF ReportLast
    <3>2. CASE i # Len(reports) + 1
      <4>1. i \in 1..Len(reports)
        BY <3>2, <2>1
      <4> QED
        BY <4>1, <2>1 DEF MinMaxCorrect
    <3> QED
      BY <3>1, <3>2
  <2> QED
    BY <2>2, <1>3 DEF MinMaxCorrect, ReportLast
<1> QED
  BY <1>1, <1>2, <1>3, PosixHistory

(* 05: "min" and "max" are those of the numbers of the block, which those  *)
(* that 04 prints are not (05/main.c:107-109, 04/main.c:38-46).            *)
THEOREM PosixMinMax == Spec => []MinMaxCorrect
<1>1. Init => MinMaxCorrect
  BY DEF Init, MinMaxCorrect
<1> QED
  BY <1>1, InitExclusion, PosixExclusionStep, InitList, PosixListStep, MinMaxStep, PTL DEF Spec

(* The blocks and the answers that Handoff sees.                           *)
Blocks  == [i \in 1..Len(made) |-> made[i].data]
Answers == [i \in 1..Len(reports) |-> <<reports[i].min, reports[i].max>>]

LEMMA MakeRefines ==
  ASSUME ListInv, NEW b, MakeOne(b)
  PROVE  HO!Make
<1>1. /\ Len(made) \in Nat /\ Len(reports) = Len(made)
      /\ Len(made') = Len(made) + 1 /\ made'[Len(made) + 1] = b
      /\ \A i \in 1..Len(made) : made'[i] = made[i]
  BY HistoryLengths, MakeOneSequence DEF MakeOne
<1>2. Len(Blocks) = Len(made) /\ Len(Answers) = Len(reports) /\ Answers' = Answers
  BY <1>1 DEF Blocks, Answers, MakeOne
<1>3. Blocks' = Append(Blocks, b.data)
  BY <1>1 DEF Blocks
<1> QED
  BY <1>1, <1>2, <1>3 DEF HO!Make, MakeOne, Blocks, Answers

LEMMA ReportRefines ==
  ASSUME ListInv, NEW e, ReportLast(e)
  PROVE  HO!Report
<1>1. /\ Len(reports) \in Nat /\ Len(made) = Len(reports) + 1
      /\ Len(reports') = Len(reports) + 1 /\ reports'[Len(reports) + 1] = e
      /\ \A i \in 1..Len(reports) : reports'[i] = reports[i]
  BY HistoryLengths, AppendAny DEF ReportLast
<1>2. Len(Blocks) = Len(made) /\ Len(Answers) = Len(reports) /\ Blocks' = Blocks
  BY <1>1 DEF Blocks, Answers, ReportLast
<1>3. Blocks[Len(Answers) + 1] = made[Len(made)].data
  BY <1>1, <1>2 DEF Blocks
<1>4. Answers' = Append(Answers, <<e.min, e.max>>)
  BY <1>1 DEF Answers
<1> QED
  <2>1. Blocks[Len(Answers) + 1] = made[Len(made)].data /\ Len(Answers) < Len(Blocks)
    BY <1>1, <1>2, <1>3
  <2> DEFINE d == Blocks[Len(Answers) + 1]
  <2>2. e.min = HO!Min(d) /\ e.max = HO!Max(d)
    BY <2>1 DEF ReportLast, Min, Max, HO!Min, HO!Max
  <2> QED
    BY <2>1, <2>2, <1>2, <1>4 DEF HO!Report, Blocks, Answers

LEMMA HandoffStep ==
  ASSUME ListInv, ExclusionInv, [Next]_vars
  PROVE  [HO!Make \/ HO!Report]_<<Blocks, Answers>>
<1>1. CASE UNCHANGED <<made, reports>>
  BY <1>1 DEF Blocks, Answers
<1> QED
  BY <1>1, PosixHistory, MakeRefines, ReportRefines

(* 05: with any number of consumers the list hands the blocks over one at  *)
(* a time, and of each the least and greatest number are reported, once.   *)
THEOREM PosixHandoff == Spec => ImplementsHandoff
<1>1. Init => HO!HandoffInit
  BY DEF Init, HO!HandoffInit
<1>2. Spec => [](ListInv /\ ExclusionInv)
  BY InitExclusion, PosixExclusionStep, InitList, PosixListStep, PTL DEF Spec
<1> QED
  BY <1>1, <1>2, HandoffStep, PTL
     DEF Spec, ImplementsHandoff, HO!HandoffSpec, Blocks, Answers
=============================================================================
