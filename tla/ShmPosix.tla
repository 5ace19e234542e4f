------------------------------ MODULE ShmPosix ------------------------------
(***************************************************************************)
(* 05/main.c: the block list under a POSIX semaphore and segment.          *)
(*                                                                         *)
(* Unlinking takes away names, not what a process already holds: nobody is *)
(* woken when the producer ends, and consumers learn of the end from the   *)
(* end mark alone.  A sem_wait that a signal interrupts is restarted, or   *)
(* returns EINTR and the loop is tried again, as the platform has it.      *)
(* Processes started once the semaphore is unlinked would begin a new      *)
(* session and are left out.                                               *)
(***************************************************************************)
EXTENDS ShmBlocks

(* sem_open(O_CREAT | O_EXCL): the winner is the producer; the semaphore   *)
(* comes into being with the value 1.                                      *)
CreateSem(p) ==
    /\ pc[p] = "off" /\ semState = "absent"
    /\ semState' = "live"
    /\ sem' = 1
    /\ Goto(p, "shmopen")
    /\ UNCHANGED <<running, shmState, mem, prodVars, consVars>>

OpenShm(p) ==
    /\ pc[p] = "shmopen"
    /\ shmState' = "empty"
    /\ Goto(p, "truncate")
    /\ UNCHANGED <<running, sem, semState, mem, prodVars, consVars>>

Truncate(p) ==
    /\ pc[p] = "truncate"
    /\ shmState' = "live"
    /\ Goto(p, "memset")
    /\ UNCHANGED <<running, sem, semState, mem, prodVars, consVars>>

(* memset, outside of the semaphore: consumers may be at work already.     *)
ClearShm(p) ==
    /\ pc[p] = "memset"
    /\ mem' = [a \in Cells |-> IF a < N THEN 0 ELSE mem[a]]
    /\ remaining' = N
    /\ Goto(p, "loop")
    /\ UNCHANGED <<running, sem, semState, shmState, ptr, starts, made, consVars>>

FindSem(c) ==
    /\ pc[c] = "off" /\ semState = "live"
    /\ Goto(c, "attach")
    /\ UNCHANGED <<running, sem, semState, shmState, mem, prodVars, consVars>>

(* Before shm_open of the producer, after its shm_unlink, or before its    *)
(* ftruncate (mmap of 0 bytes fails) the consumer exits with 1.            *)
Attach(c) ==
    /\ pc[c] = "attach"
    /\ Goto(c, IF shmState = "live" THEN "scan" ELSE "exited")
    /\ UNCHANGED <<running, sem, semState, shmState, mem, prodVars, consVars>>

(* As the code without sem_post before "break".                            *)
GiveUnlessLast(c) ==
    /\ pc[c] \in {"give", "last"}
    /\ sem' = IF pc[c] = "last" THEN sem ELSE sem + 1
    /\ Goto(c, IF pc[c] = "last" THEN "exited" ELSE "scan")
    /\ UNCHANGED <<running, semState, shmState, mem, prodVars, consVars>>

Give(c) ==
    /\ pc[c] \in {"give", "last"}
    /\ sem' = sem + 1
    /\ Goto(c, IF pc[c] = "last" THEN "exited" ELSE "scan")
    /\ UNCHANGED <<running, semState, shmState, mem, prodVars, consVars>>

(* After the sleep of the producer.                                        *)
UnlinkShm(p) ==
    /\ pc[p] = "close"
    /\ shmState' = "removed"
    /\ Goto(p, "rmsem")
    /\ UNCHANGED <<running, sem, semState, mem, prodVars, consVars>>

UnlinkSem(p) ==
    /\ pc[p] = "rmsem"
    /\ semState' = "removed"
    /\ Goto(p, "exited")
    /\ UNCHANGED <<running, sem, shmState, mem, prodVars, consVars>>

(* SIGINT.  EINTR takes "continue" in each of the three places: the inner  *)
(* loop of the producer does not look at running.                          *)
Retry(p) == CASE pc[p] = "lock" -> "loop" [] pc[p] = "wait" -> "wait" [] pc[p] = "take" -> "scan"

Interrupt(p) ==
    /\ p \in Impatient
    /\ pc[p] \notin {"off", "exited"}
    /\ running[p]
    /\ running' = [running EXCEPT ![p] = FALSE]
    /\ \/ UNCHANGED pc
       \/ Locking(p) /\ sem = 0 /\ Goto(p, Retry(p))
    /\ UNCHANGED <<sem, semState, shmState, mem, prodVars, consVars>>

Begin(p) == CreateSem(p) \/ FindSem(p)

Step(p) ==
    \/ OpenShm(p) \/ Truncate(p) \/ ClearShm(p) \/ Attach(p)
    \/ Lock(p) \/ Give(p)
    \/ ProducerNext(p) \/ ConsumerNext(p, 2)
    \/ UnlinkShm(p) \/ UnlinkSem(p)

Finished == (\A p \in Procs : pc[p] \in {"off", "exited"}) /\ UNCHANGED vars

Next == (\E p \in Procs : Begin(p) \/ Step(p) \/ Interrupt(p)) \/ Finished

Spec == Init /\ [][Next]_vars

(* A process sleeps after each time it has had the semaphore, but for the  *)
(* few blocks it skips: one that waits for it is not passed over for ever. *)
FairSpec == Spec /\ \A p \in Procs : WF_vars(Step(p)) /\ SF_vars(Lock(p))
-----------------------------------------------------------------------------
(* The end mark, once written, is the end of every consumer, those that    *)
(* come later and have the whole list to skip included (05/main.c:95-99).  *)
EndMark == mem[N - remaining] = -1 /\ mem[N - remaining + 1] = 0
ConsumersFinish == EndMark ~> \A c \in Procs : ~Consuming(c)

(* With any number of consumers, whoever of them gets which block and      *)
(* whenever they come, go or are interrupted, the program hands the blocks *)
(* over one at a time and reports the right numbers (05/main.c:81-117 and  *)
(* 147-197 together).                                                      *)
HO == INSTANCE Handoff WITH
         blocks  <- [i \in 1..Len(made) |-> made[i].data],
         answers <- [i \in 1..Len(reports) |-> <<reports[i].min, reports[i].max>>]
ImplementsHandoff == HO!HandoffSpec
=============================================================================
