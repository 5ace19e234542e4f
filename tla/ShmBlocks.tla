----------------------------- MODULE ShmBlocks -----------------------------
(***************************************************************************)
(* The block list that the producer and the consumers of 04/ and 05/ share *)
(* in memory, and the steps on it that the two programs have in common.    *)
(* They differ in how the semaphore and the segment are created, waited    *)
(* for and removed: see ShmSysV (04/) and ShmPosix (05/).                  *)
(*                                                                         *)
(* A block is a header of two cells, its size and the offset of the next   *)
(* block, and its numbers.  Size 0 means processed, size -1 with offset 0  *)
(* is the end.  Every process runs the same program: the one that creates  *)
(* the semaphore is the producer, those that find it are consumers.        *)
(*                                                                         *)
(*   producer  loop -> lock -> write -> fill -> post -> wait <-> check     *)
(*                              `-> end -> close -> ...        `-> loop    *)
(*   consumer  scan -> take -> read -> handle -> give -> scan              *)
(*                                      `-> last -> exited                 *)
(***************************************************************************)
EXTENDS Integers, Sequences, FiniteSets, FiniteSetsExt

CONSTANTS Procs,      \* processes that may be started
          Impatient,  \* bound of the model: those whose user may press Ctrl+C
          N,          \* SHM_SIZE / sizeof(int), 256 in the code
          RandVals,   \* the values of rand_val, 3..53 in the code
          Numbers     \* the numbers a block may hold

ASSUME SizeAssumption ==
    /\ N \in Nat \ {0, 1}
    /\ RandVals \subseteq Nat \ {0, 1, 2}
    /\ Numbers \subseteq Int
ASSUME ProcsAssumption == IsFiniteSet(Procs)

VARIABLES pc, running,
          sem,        \* value of the semaphore
          semState,   \* "absent", "live" or "removed"
          shmState,   \* "absent", "empty" (no size yet), "live" or "removed"
          mem,        \* the segment; a page, so it goes on past N cells
          remaining,  \* remaining_cells of the producer
          ptr,        \* offset of the block the producer is at
          offset,     \* offset[c]: current_offset of consumer c
          seen,       \* seen[c]: <<size, next_offset>> as c has read them
          starts,     \* history: the offsets of the blocks made, in order
          made,       \* history: the blocks that have numbers, in order
          reports     \* history: what the consumers have printed, in order

osVars   == <<pc, running, sem, semState, shmState>>
prodVars == <<remaining, ptr, starts, made>>
consVars == <<offset, seen, reports>>
vars     == <<osVars, mem, prodVars, consVars>>

Cells   == 0..N + 1
Offsets == 0..N

Place == {"off", "setval", "shmget", "shmopen", "truncate", "memset", "loop", "lock",
          "write", "fill", "post", "wait", "check", "end", "close", "rmsem",
          "attach", "scan", "take", "read", "handle", "give", "last", "exited"}

TypeOK ==
    /\ pc \in [Procs -> Place]
    /\ running \in [Procs -> BOOLEAN]
    /\ sem \in {0, 1}
    /\ semState \in {"absent", "live", "removed"}
    /\ shmState \in {"absent", "empty", "live", "removed"}
    /\ mem \in [Cells -> Int]
    /\ remaining \in 0..N
    /\ ptr \in Offsets
    /\ offset \in [Procs -> Offsets]
    /\ seen \in [Procs -> Int \X Int]

Init ==
    /\ pc = [p \in Procs |-> "off"]
    /\ running = [p \in Procs |-> TRUE]
    /\ sem = 0
    /\ semState = "absent"
    /\ shmState = "absent"
    /\ mem = [a \in Cells |-> 0]
    /\ remaining = N
    /\ ptr = 0
    /\ offset = [p \in Procs |-> 0]
    /\ seen = [p \in Procs |-> <<0, 0>>]
    /\ starts = <<>>
    /\ made = <<>>
    /\ reports = <<>>

Goto(p, l) == pc' = [pc EXCEPT ![p] = l]

(* The places between taking the semaphore and giving it back.             *)
Inside(p) == pc[p] \in {"write", "fill", "post", "end", "check",
                        "read", "handle", "give", "last"}

(* The places where p is in the call that takes the semaphore.             *)
Locking(p) == pc[p] \in {"lock", "wait", "take"}

After(l) == CASE l = "lock" -> "write" [] l = "wait" -> "check" [] l = "take" -> "read"

Lock(p) ==
    /\ Locking(p)
    /\ semState # "absent" /\ sem > 0
    /\ sem' = sem - 1
    /\ Goto(p, After(pc[p]))
    /\ UNCHANGED <<running, semState, shmState, mem, prodVars, consVars>>
-----------------------------------------------------------------------------
(* The producer.                                                           *)

(* while (running)                                                         *)
ProduceLoop(p) ==
    /\ pc[p] = "loop"
    /\ Goto(p, IF running[p] THEN "lock" ELSE "close")
    /\ ptr' = N - remaining
    /\ UNCHANGED <<running, sem, semState, shmState, mem, remaining, starts, made, consVars>>

(* Fewer cells than a header needs: the end mark goes where the next block *)
(* would have gone, past cell N - 1 if need be.                            *)
WriteEnd(p) ==
    /\ pc[p] = "write"
    /\ remaining < 2
    /\ mem' = [mem EXCEPT ![ptr] = -1, ![ptr + 1] = 0]
    /\ Goto(p, "end")
    /\ UNCHANGED <<running, sem, semState, shmState, prodVars, consVars>>

(* As the code without the bound on rand_val.                              *)
BlockSizeUnbounded(r) == r - 2

BlockSize(r) == (IF r < remaining THEN r ELSE remaining) - 2

(* As the code that 04/main.c:194 keeps in a comment: the header forgotten. *)
WriteHeaderShort(p) ==
    /\ pc[p] = "write"
    /\ remaining >= 2
    /\ \E r \in RandVals :
          mem' = [mem EXCEPT ![ptr] = BlockSize(r), ![ptr + 1] = ptr + BlockSize(r)]
    /\ Goto(p, "fill")
    /\ UNCHANGED <<running, sem, semState, shmState, prodVars, consVars>>

WriteHeader(p) ==
    /\ pc[p] = "write"
    /\ remaining >= 2
    /\ \E r \in RandVals :
          mem' = [mem EXCEPT ![ptr] = BlockSize(r), ![ptr + 1] = ptr + BlockSize(r) + 2]
    /\ Goto(p, "fill")
    /\ UNCHANGED <<running, sem, semState, shmState, prodVars, consVars>>

(* The numbers.  A block of no numbers reads as processed from the start.  *)
Fill(p) ==
    /\ pc[p] = "fill"
    /\ \E d \in [0..mem[ptr] - 1 -> Numbers] :
          /\ mem' = [a \in Cells |-> IF a - ptr - 2 \in DOMAIN d
                                        THEN d[a - ptr - 2] ELSE mem[a]]
          /\ made' = IF mem[ptr] = 0 THEN made
                     ELSE Append(made, [at |-> ptr, data |-> {d[i] : i \in DOMAIN d}])
    /\ starts' = Append(starts, ptr)
    /\ remaining' = remaining - mem[ptr] - 2
    /\ Goto(p, "post")
    /\ UNCHANGED <<running, sem, semState, shmState, ptr, consVars>>

Post(p) ==
    /\ pc[p] = "post"
    /\ sem' = sem + 1
    /\ Goto(p, "wait")
    /\ UNCHANGED <<running, semState, shmState, mem, prodVars, consVars>>

(* As the code that gives a block one look and makes the next one.         *)
CheckOnce(p) ==
    /\ pc[p] = "check"
    /\ sem' = sem + 1
    /\ Goto(p, "loop")
    /\ UNCHANGED <<running, semState, shmState, mem, prodVars, consVars>>

(* is_readed = (ptr[0] == 0), and the semaphore is given back.  running is *)
(* not looked at until the block has been read.                            *)
Check(p) ==
    /\ pc[p] = "check"
    /\ sem' = sem + 1
    /\ Goto(p, IF mem[ptr] = 0 THEN "loop" ELSE "wait")
    /\ UNCHANGED <<running, semState, shmState, mem, prodVars, consVars>>

PostEnd(p) ==
    /\ pc[p] = "end"
    /\ sem' = sem + 1
    /\ Goto(p, "close")
    /\ UNCHANGED <<running, semState, shmState, mem, prodVars, consVars>>

ProducerNext(p) ==
    ProduceLoop(p) \/ WriteEnd(p) \/ WriteHeader(p) \/ Fill(p) \/ Post(p)
    \/ Check(p) \/ PostEnd(p)
-----------------------------------------------------------------------------
(* The consumers.                                                          *)

(* while (running)                                                         *)
ScanLoop(c) ==
    /\ pc[c] = "scan"
    /\ Goto(c, IF running[c] THEN "take" ELSE "exited")
    /\ UNCHANGED <<running, sem, semState, shmState, mem, prodVars, consVars>>

Read(c) ==
    /\ pc[c] = "read"
    /\ seen' = [seen EXCEPT ![c] = <<mem[offset[c]], mem[offset[c] + 1]>>]
    /\ Goto(c, "handle")
    /\ UNCHANGED <<running, sem, semState, shmState, mem, prodVars, offset, reports>>

Size(c) == seen[c][1]
NextOffset(c) == seen[c][2]

AtEnd(c) ==
    /\ pc[c] = "handle"
    /\ Size(c) = -1 /\ NextOffset(c) = 0
    /\ Goto(c, "last")
    /\ UNCHANGED <<running, sem, semState, shmState, mem, prodVars, consVars>>

(* As the code without "continue": the semaphore is given back twice.      *)
SkipBlockTwice(c) ==
    /\ pc[c] = "handle"
    /\ Size(c) = 0 /\ NextOffset(c) # 0
    /\ offset' = [offset EXCEPT ![c] = NextOffset(c)]
    /\ sem' = sem + 1
    /\ Goto(c, "give")
    /\ UNCHANGED <<running, semState, shmState, mem, prodVars, seen, reports>>

(* The block has been processed, by this consumer or by another one.       *)
SkipBlock(c) ==
    /\ pc[c] = "handle"
    /\ Size(c) = 0 /\ NextOffset(c) # 0
    /\ offset' = [offset EXCEPT ![c] = NextOffset(c)]
    /\ Goto(c, "give")
    /\ UNCHANGED <<running, sem, semState, shmState, mem, prodVars, seen, reports>>

(* As the code without "ptr[0] = 0".                                       *)
HandleBlockKeep(c, from) ==
    /\ pc[c] = "handle"
    /\ Size(c) # 0 /\ ~(Size(c) = -1 /\ NextOffset(c) = 0)
    /\ LET cells == {mem[offset[c] + from + i] : i \in 0..Size(c) - 1}
       IN  reports' = Append(reports, [at |-> offset[c], min |-> Min(cells),
                                       max |-> Max(cells)])
    /\ offset' = [offset EXCEPT ![c] = NextOffset(c)]
    /\ Goto(c, "give")
    /\ UNCHANGED <<running, sem, semState, shmState, mem, prodVars, seen>>

(* handle_numbers is called on the cells from offset + from on.            *)
HandleBlock(c, from) ==
    /\ pc[c] = "handle"
    /\ Size(c) # 0 /\ ~(Size(c) = -1 /\ NextOffset(c) = 0)
    /\ LET cells == {mem[offset[c] + from + i] : i \in 0..Size(c) - 1}
       IN  reports' = Append(reports, [at |-> offset[c], min |-> Min(cells),
                                       max |-> Max(cells)])
    /\ mem' = [mem EXCEPT ![offset[c]] = 0]
    /\ offset' = [offset EXCEPT ![c] = NextOffset(c)]
    /\ Goto(c, "give")
    /\ UNCHANGED <<running, sem, semState, shmState, prodVars, seen>>

(* Nothing has been written at this offset yet.                            *)
NoBlock(c) ==
    /\ pc[c] = "handle"
    /\ Size(c) = 0 /\ NextOffset(c) = 0
    /\ Goto(c, "give")
    /\ UNCHANGED <<running, sem, semState, shmState, mem, prodVars, consVars>>

ConsumerNext(c, from) ==
    ScanLoop(c) \/ Read(c) \/ AtEnd(c) \/ SkipBlock(c) \/ HandleBlock(c, from) \/ NoBlock(c)
-----------------------------------------------------------------------------
(* What both programs must get right.                                      *)

(* At most one process is inside, and none while the semaphore is free     *)
(* (sem_lock and sem_unlock around every access, 04/main.c:124-151).       *)
MutualExclusion ==
    /\ \A p, r \in Procs : Inside(p) /\ Inside(r) => p = r
    /\ semState = "live" /\ sem = 1 => \A p \in Procs : ~Inside(p)

(* The inductive form of it.                                               *)
ExclusionInv ==
    /\ pc \in [Procs -> Place]
    /\ semState = "absent" => \A p \in Procs : pc[p] = "off"
    /\ sem \in {0, 1}
    /\ \A p, r \in Procs : Inside(p) /\ Inside(r) => p = r
    /\ sem = 1 => \A p \in Procs : ~Inside(p)

(* Blocks are processed in the order they were made, each by exactly one   *)
(* consumer however many there are, and the producer is never more than    *)
(* one block ahead (size set to 0 under the semaphore, 04/main.c:147).     *)
EachBlockOnce ==
    /\ Len(reports) <= Len(made) /\ Len(made) <= Len(reports) + 1
    /\ \A i \in 1..Len(reports) : reports[i].at = made[i].at

(* A consumer stands at the start of a block that has been made or where   *)
(* the next one will start: following next_offset never takes it inside a  *)
(* block or past the list (04/main.c:195, 139 and 148).                    *)
OffsetsAreBoundaries ==
    \A c \in Procs : \/ offset[c] = N - remaining
                      \/ \E i \in 1..Len(starts) : offset[c] = starts[i]

(* "min" and "max" that are printed for a block are the least and the      *)
(* greatest of its numbers (04/main.c:145-146, 05/main.c:108-109).         *)
MinMaxCorrect ==
    \A i \in 1..Len(reports) :
        /\ reports[i].min = Min(made[i].data)
        /\ reports[i].max = Max(made[i].data)

Consuming(c) == pc[c] \in {"scan", "take", "read", "handle", "give", "last"}
Producing(p) == pc[p] \notin {"off", "attach", "exited"} /\ ~Consuming(p)

(* With one consumer that nobody interrupts the producer comes to its end, *)
(* whatever happens to it and to the other consumers (its wait for the     *)
(* block to be read, 04/main.c:213 and 05/main.c:183, has no other way     *)
(* out).                                                                   *)
ProducerFinishes ==
    (\E c \in Procs \ Impatient : Consuming(c)) ~> ~(\E p \in Procs : Producing(p))
=============================================================================
