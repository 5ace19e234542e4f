------------------------------ MODULE ShmSysV ------------------------------
(***************************************************************************)
(* 04/main.c: the block list under a System V semaphore and segment.       *)
(*                                                                         *)
(* A semop that has to wait is not restarted after a signal, and any error *)
(* but EIDRM makes the process exit on the spot: whoever is waiting for    *)
(* the semaphore when SIGINT comes is gone.  Processes started once the    *)
(* semaphore is removed would begin a new session and are left out.        *)
(***************************************************************************)
EXTENDS ShmBlocks

(* semget(IPC_CREAT | IPC_EXCL): the winner is the producer; the value of  *)
(* the new semaphore is 0.                                                 *)
CreateSem(p) ==
    /\ pc[p] = "off" /\ semState = "absent"
    /\ semState' = "live"
    /\ Goto(p, "setval")
    /\ UNCHANGED <<running, sem, shmState, mem, prodVars, consVars>>

SetVal(p) ==
    /\ pc[p] = "setval"
    /\ sem' = 1
    /\ Goto(p, "shmget")
    /\ UNCHANGED <<running, semState, shmState, mem, prodVars, consVars>>

CreateShm(p) ==
    /\ pc[p] = "shmget"
    /\ shmState' = "live"
    /\ Goto(p, "memset")
    /\ UNCHANGED <<running, sem, semState, mem, prodVars, consVars>>

ClearShm(p) ==
    /\ pc[p] = "memset"
    /\ mem' = [a \in Cells |-> IF a < N THEN 0 ELSE mem[a]]
    /\ remaining' = N
    /\ Goto(p, "loop")
    /\ UNCHANGED <<running, sem, semState, shmState, ptr, starts, made, consVars>>

(* A consumer that comes before the segment does, or after it, exits.      *)
FindSem(c) ==
    /\ pc[c] = "off" /\ semState = "live"
    /\ Goto(c, "attach")
    /\ UNCHANGED <<running, sem, semState, shmState, mem, prodVars, consVars>>

Attach(c) ==
    /\ pc[c] = "attach"
    /\ Goto(c, IF shmState = "live" THEN "scan" ELSE "exited")
    /\ UNCHANGED <<running, sem, semState, shmState, mem, prodVars, consVars>>

LockSem(p) == semState = "live" /\ Lock(p)

(* As the code that tries again after any error of semop.                  *)
SemGoneRetries(p) ==
    /\ Locking(p) \/ pc[p] \in {"give", "last"}
    /\ semState = "removed"
    /\ Goto(p, IF pc[p] = "last" THEN "exited" ELSE "scan")
    /\ UNCHANGED <<running, sem, semState, shmState, mem, prodVars, consVars>>

(* EIDRM, in sem_lock or in sem_unlock: exit(0).                           *)
SemGone(p) ==
    /\ Locking(p) \/ pc[p] \in {"give", "last"}
    /\ semState = "removed"
    /\ Goto(p, "exited")
    /\ UNCHANGED <<running, sem, semState, shmState, mem, prodVars, consVars>>

Give(c) ==
    /\ pc[c] \in {"give", "last"}
    /\ semState = "live"
    /\ sem' = sem + 1
    /\ Goto(c, IF pc[c] = "last" THEN "exited" ELSE "scan")
    /\ UNCHANGED <<running, semState, shmState, mem, prodVars, consVars>>

(* After the sleep of the producer: the segment, then the semaphore.       *)
RemoveShm(p) ==
    /\ pc[p] = "close"
    /\ shmState' = "removed"
    /\ Goto(p, "rmsem")
    /\ UNCHANGED <<running, sem, semState, mem, prodVars, consVars>>

RemoveSem(p) ==
    /\ pc[p] = "rmsem"
    /\ semState' = "removed"
    /\ Goto(p, "exited")
    /\ UNCHANGED <<running, sem, shmState, mem, prodVars, consVars>>

(* SIGINT.  A process waiting in semop gets EINTR and exits with 1, unless *)
(* the signal came just before the call.                                   *)
Interrupt(p) ==
    /\ p \in Impatient
    /\ pc[p] \notin {"off", "exited"}
    /\ running[p] \/ (Locking(p) /\ sem = 0 /\ semState = "live")
    /\ running' = [running EXCEPT ![p] = FALSE]
    /\ \/ UNCHANGED pc
       \/ Locking(p) /\ sem = 0 /\ semState = "live" /\ Goto(p, "exited")
    /\ UNCHANGED <<sem, semState, shmState, mem, prodVars, consVars>>

Begin(p) == CreateSem(p) \/ FindSem(p)

Step(p) ==
    \/ SetVal(p) \/ CreateShm(p) \/ ClearShm(p) \/ Attach(p)
    \/ LockSem(p) \/ SemGone(p) \/ Give(p)
    \/ ProducerNext(p) \/ ConsumerNext(p, 0)
    \/ RemoveShm(p) \/ RemoveSem(p)

(* SETVAL gives the semaphore its value once, before there is a segment to *)
(* attach to, and so before anybody can be inside.                         *)
StartUpInv ==
    /\ semState = "absent" => shmState = "absent"
    /\ \A p, r \in Procs : {pc[p], pc[r]} \subseteq {"setval", "shmget"} => p = r
    /\ \A p \in Procs : pc[p] \in {"setval", "shmget"} => shmState = "absent"
    /\ shmState = "absent" =>
          \A p \in Procs : pc[p] \in {"off", "setval", "shmget", "attach", "exited"}

Finished == (\A p \in Procs : pc[p] \in {"off", "exited"}) /\ UNCHANGED vars

Next == (\E p \in Procs : Begin(p) \/ Step(p) \/ Interrupt(p)) \/ Finished

Spec == Init /\ [][Next]_vars

(* semop serves the processes that wait in the order they came, so one     *)
(* that waits again and again for a semaphore given back again and again   *)
(* gets it.                                                                *)
FairSpec == Spec /\ \A p \in Procs : WF_vars(Step(p)) /\ SF_vars(LockSem(p))
-----------------------------------------------------------------------------
(* The removal of the semaphore is the end of every consumer, wherever it  *)
(* is: waiting, inside or asleep (EIDRM, 04/main.c:63 and 75).             *)
ConsumersFinish ==
    semState = "removed" ~> \A c \in Procs : pc[c] \in {"off", "exited"}
=============================================================================
