---------------------------- MODULE ShmSysVProofs ----------------------------
(***************************************************************************)
(* Proofs about 04/main.c: exclusion, which depends on the order in which  *)
(* the producer makes its objects, the types, and that the blocks of the   *)
(* list are each processed once, in order.                                 *)
(***************************************************************************)
EXTENDS ShmSysV, ShmProofs

USE DEF Place

(* Nobody is past the start-up while the segment does not exist.           *)
LEMMA StartUpStep ==
  ASSUME ExclusionInv, StartUpInv, [Next]_vars
  PROVE  StartUpInv'
<1> USE DEF StartUpInv, ExclusionInv, Goto
<1>1. CASE UNCHANGED vars
  BY <1>1 DEF vars, osVars
<1>2. ASSUME NEW p \in Procs, Begin(p) PROVE StartUpInv'
  <2>1. CASE CreateSem(p)
    BY <2>1 DEF CreateSem
  <2>2. CASE FindSem(p)
    BY <2>2 DEF FindSem
  <2> QED
    BY <1>2, <2>1, <2>2 DEF Begin
<1>3. ASSUME NEW p \in Procs, Interrupt(p) PROVE StartUpInv'
  BY <1>3 DEF Interrupt, Locking
<1>4. ASSUME NEW p \in Procs,
             SetVal(p) \/ CreateShm(p) \/ ClearShm(p) \/ Attach(p) \/ RemoveShm(p) \/ RemoveSem(p)
      PROVE  StartUpInv'
  BY <1>4 DEF SetVal, CreateShm, ClearShm, Attach, RemoveShm, RemoveSem
<1>5. ASSUME NEW p \in Procs, LockSem(p) \/ SemGone(p) \/ Give(p)
      PROVE  StartUpInv'
  BY <1>5 DEF LockSem, Lock, Locking, After, SemGone, Give
<1>6. ASSUME NEW p \in Procs, ProducerNext(p) PROVE StartUpInv'
  <2>1. /\ pc[p] \notin {"off", "setval", "shmget", "attach", "exited"}
        /\ UNCHANGED <<semState, shmState>>
        /\ \E l \in {"lock", "close", "end", "fill", "post", "wait", "loop"} : Goto(p, l)
    BY <1>6 DEF ProducerNext, ProduceLoop, WriteEnd, WriteHeader, Fill, Post, Check, PostEnd
  <2> QED
    BY <2>1
<1>7. ASSUME NEW p \in Procs, ConsumerNext(p, 0) PROVE StartUpInv'
  <2>1. /\ pc[p] \notin {"off", "setval", "shmget", "attach", "exited"}
        /\ UNCHANGED <<semState, shmState>>
        /\ \E l \in {"take", "exited", "handle", "last", "give"} : Goto(p, l)
    BY <1>7 DEF ConsumerNext, ScanLoop, Read, AtEnd, SkipBlock, HandleBlock, NoBlock
  <2> QED
    BY <2>1
<1> QED
  BY <1>1, <1>2, <1>3, <1>4, <1>5, <1>6, <1>7 DEF Next, Step, Finished

LEMMA SysVExclusionStep ==
  ASSUME ExclusionInv, StartUpInv, [Next]_vars
  PROVE  ExclusionInv'
<1>1. ASSUME NEW p \in Procs, Begin(p) PROVE ExclusionInv'
  <2>1. CASE CreateSem(p)
    BY <2>1 DEF CreateSem, Goto, ExclusionInv, Inside
  <2>2. CASE FindSem(p)
    BY <2>2 DEF FindSem, Goto, ExclusionInv, Inside
  <2> QED
    BY <1>1, <2>1, <2>2 DEF Begin
<1>2. ASSUME NEW p \in Procs, Step(p) PROVE ExclusionInv'
  <2> USE DEF InsidePlace
  <2>1. CASE SetVal(p)
    <3>1. \A r \in Procs : ~Inside(r)
      BY <2>1 DEF SetVal, StartUpInv, Inside
    <3> QED
      BY <2>1, <3>1 DEF SetVal, Goto, ExclusionInv, Inside
  <2>2. CASE CreateShm(p)
    BY <2>2, OutsideStep DEF CreateShm
  <2>3. CASE ClearShm(p)
    BY <2>3, OutsideStep DEF ClearShm
  <2>4. CASE Attach(p)
    <3>1. PICK l \in {"scan", "exited"} : Goto(p, l)
      BY <2>4 DEF Attach
    <3> QED
      BY <2>4, <3>1, OutsideStep DEF Attach
  <2>5. CASE LockSem(p)
    BY <2>5, TakeStep DEF LockSem
  <2>6. CASE SemGone(p)
    BY <2>6, OutsideStep DEF SemGone, Locking
  <2>7. CASE Give(p)
    <3>1. PICK l \in {"scan", "exited"} : Goto(p, l)
      BY <2>7 DEF Give
    <3> QED
      BY <2>7, <3>1, GiveStep DEF Give
  <2>8. CASE RemoveShm(p)
    BY <2>8, OutsideStep DEF RemoveShm
  <2>9. CASE RemoveSem(p)
    BY <2>9, OutsideStep DEF RemoveSem
  <2> QED
    BY <1>2, <2>1, <2>2, <2>3, <2>4, <2>5, <2>6, <2>7, <2>8, <2>9, BlocksStep DEF Step
<1>3. ASSUME NEW p \in Procs, Interrupt(p) PROVE ExclusionInv'
  <2>1. CASE UNCHANGED pc
    BY <1>3, <2>1 DEF Interrupt, ExclusionInv, Inside
  <2>2. CASE Locking(p) /\ Goto(p, "exited")
    BY <1>3, <2>2, OutsideStep DEF Interrupt, Locking, InsidePlace
  <2> QED
    BY <1>3, <2>1, <2>2 DEF Interrupt
<1> QED
  BY <1>1, <1>2, <1>3, StutterExclusion DEF Next, Finished

(* 04: no two processes are in the list at a time, and none while the      *)
(* semaphore is free, however many there are and whenever they start.      *)
THEOREM SysVExclusion == Spec => []MutualExclusion
<1>1. Init => StartUpInv
  BY DEF Init, StartUpInv
<1>2. Spec => [](ExclusionInv /\ StartUpInv)
  BY <1>1, InitExclusion, SysVExclusionStep, StartUpStep, PTL DEF Spec
<1> QED
  BY <1>2, ExclusionSuffices, PTL

(* What every step does to the list.                                       *)
LEMMA SysVListStep ==
  ASSUME ListInv, ExclusionInv, ExclusionInv', [Next]_vars
  PROVE  ListInv'
<1> USE DEF ProducerPlace, BeforeLoop
<1>1. /\ running \in [Procs -> BOOLEAN] /\ semState \in {"absent", "live", "removed"}
      /\ shmState \in {"absent", "empty", "live", "removed"}
  BY DEF ListInv, TypeOK
<1>2. ASSUME NEW p \in Procs, Begin(p) PROVE ListInv'
  <2>1. CASE CreateSem(p)
    BY <2>1, CreateListStep DEF CreateSem
  <2>2. CASE FindSem(p)
    BY <1>1, <2>2, QuietStep DEF FindSem
  <2> QED
    BY <1>2, <2>1, <2>2 DEF Begin
<1>3. ASSUME NEW p \in Procs, Step(p) PROVE ListInv'
  <2>1. CASE SetVal(p)
    BY <1>1, <2>1, QuietStep DEF SetVal
  <2>2. CASE CreateShm(p)
    BY <1>1, <2>2, QuietStep DEF CreateShm
  <2>3. CASE ClearShm(p)
    BY <2>3, ClearListStep DEF ClearShm
  <2>4. CASE Attach(p)
    <3>1. PICK l \in {"scan", "exited"} : Goto(p, l)
      BY <2>4 DEF Attach
    <3> QED
      BY <1>1, <2>4, <3>1, QuietStep DEF Attach
  <2>5. CASE LockSem(p)
    BY <2>5, TakeListStep DEF LockSem
  <2>6. CASE SemGone(p)
    BY <1>1, <2>6, QuietStep DEF SemGone, Locking
  <2>7. CASE Give(p)
    <3>1. PICK l \in {"scan", "exited"} : Goto(p, l)
      BY <2>7 DEF Give
    <3> QED
      BY <1>1, <2>7, <3>1, QuietStep DEF Give
  <2>8. CASE RemoveShm(p)
    BY <1>1, <2>8, QuietStep DEF RemoveShm
  <2>9. CASE RemoveSem(p)
    BY <1>1, <2>9, QuietStep DEF RemoveSem
  <2> QED
    BY <1>3, <2>1, <2>2, <2>3, <2>4, <2>5, <2>6, <2>7, <2>8, <2>9, BlocksListStep DEF Step
<1>4. ASSUME NEW p \in Procs, Interrupt(p) PROVE ListInv'
  <2>1. running' \in [Procs -> BOOLEAN]
    BY <1>1, <1>4 DEF Interrupt
  <2>2. CASE UNCHANGED pc
    BY <1>4, <2>1, <2>2, FlagStep DEF Interrupt
  <2>3. CASE Locking(p) /\ Goto(p, "exited")
    BY <1>1, <1>4, <2>1, <2>3, QuietStep DEF Interrupt, Locking
  <2> QED
    BY <1>4, <2>2, <2>3 DEF Interrupt
<1> QED
  BY <1>2, <1>3, <1>4, StutterList DEF Next, Finished

LEMMA SysVList == Spec => []ListInv
<1>1. Init => StartUpInv
  BY DEF Init, StartUpInv
<1> QED
  BY <1>1, InitExclusion, SysVExclusionStep, StartUpStep, InitList, SysVListStep, PTL DEF Spec

(* 04: the variables keep their types, the offset the producer computes     *)
(* from remaining_cells and the cells it writes stay inside the segment.   *)
THEOREM SysVTypes == Spec => []TypeOK
  BY SysVList, ListSuffices, PTL

(* 04: blocks are processed in the order they were made, each by exactly    *)
(* one consumer, however many there are, whenever they come and go.        *)
THEOREM SysVEachBlockOnce == Spec => []EachBlockOnce
  BY SysVList, ListSuffices, PTL

(* 04: no consumer ever stands inside a block or past the list.             *)
THEOREM SysVOffsets == Spec => []OffsetsAreBoundaries
  BY SysVList, ListSuffices, PTL
=============================================================================
