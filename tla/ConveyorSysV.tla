---------------------------- MODULE ConveyorSysV ----------------------------
(***************************************************************************)
(* lab7, System V version: one trucker process, several loader processes,  *)
(* a shared-memory belt and one semaphore.                                 *)
(*                                                                         *)
(* Every process is a program counter.  semop is a step of its own; the    *)
(* code between blockSem and releaseSem is one step, which is sound        *)
(* because only the holder of the semaphore executes such code (SemInv).   *)
(* A loader invocation with workersCount = n is n + 1 members of Loader:   *)
(* the parent leaves the fork loop and runs the same loop as its children. *)
(***************************************************************************)
EXTENDS Conveyor

vars == <<ipc, sem, line, freePlaces, freeWeight, pc, endWork, iteration,
          truckPlacesCount, counter, end_i, placed, loaded, onTruck>>

Critical == {"boot", "bootrelease", "cs", "release", "end", "endload"}
InCS(p) == pc[p] \in Critical
Ended == {"done", "failed"}
Location == {"new", "memory", "loop", "wait", "bootwait", "leave", "endwait",
             "rmline", "rmparams"} \cup Critical \cup Ended

Init == ConveyorInit

-----------------------------------------------------------------------------
(* blockSem and releaseSem.  A semop on a semaphore that was removed fails *)
(* (EIDRM for a waiter, EINVAL for a later caller) and the process exits;  *)
(* the holder never finds it removed (SemInv), so that releaseSem has no   *)
(* such case and the model would deadlock there.                           *)

blockSem(p, wait, next) ==
  /\ pc[p] = wait
  /\ \/ /\ "sem" \in ipc /\ sem > 0
        /\ sem' = sem - 1
        /\ Goto(p, next)
     \/ /\ "sem" \notin ipc
        /\ Goto(p, "failed")
        /\ UNCHANGED sem
  /\ UNCHANGED <<ipc, beltVars, truckVars, endWork, iteration>>

releaseSem(p, here, next) ==
  /\ pc[p] = here
  /\ "sem" \in ipc
  /\ sem' = sem + 1
  /\ Goto(p, next)
  /\ UNCHANGED <<ipc, beltVars, truckVars, endWork, iteration>>

-----------------------------------------------------------------------------
(* The loader. *)

(* getSemaphore: semget without IPC_CREAT. *)
getSemaphore(l) ==
  /\ pc[l] = "new"
  /\ Goto(l, IF "sem" \in ipc THEN "memory" ELSE "failed")
  /\ UNCHANGED <<ipc, sem, beltVars, truckVars, endWork, iteration>>

(* setUpShareMemory of the parameters and then of the line.  shmget is     *)
(* given IPC_CREAT, so a segment the trucker has removed comes back.  In a *)
(* new parameter segment len is 0, and a line of 0 bytes is opened if it   *)
(* still exists and cannot be created.                                     *)
LoaderMemory(l) ==
  /\ pc[l] = "memory"
  /\ \/ /\ "params" \in ipc
        /\ ipc' = ipc \cup {"line"}
        /\ Goto(l, "loop")
     \/ /\ "params" \notin ipc
        /\ ipc' = ipc \cup {"params"}
        /\ Goto(l, IF "line" \in ipc THEN "loop" ELSE "failed")
  /\ UNCHANGED <<sem, beltVars, truckVars, endWork, iteration>>

LoaderLoop(l) ==
  /\ pc[l] = "loop"
  /\ Goto(l, IF MoreCycles(l) THEN "wait" ELSE "done")
  /\ UNCHANGED <<ipc, sem, beltVars, truckVars, endWork, iteration>>

LoaderBlock(l) == blockSem(l, "wait", "cs")

PushParcel(l) ==
  /\ pc[l] = "cs" /\ CanPush(l)
  /\ Push(l)
  /\ Goto(l, "release")
  /\ UNCHANGED <<ipc, sem, truckVars, endWork>>

NoPlace(l) ==
  /\ pc[l] = "cs" /\ ~CanPush(l)
  /\ Goto(l, "release")
  /\ UNCHANGED <<ipc, sem, beltVars, truckVars, endWork, iteration>>

LoaderRelease(l) == releaseSem(l, "release", "loop")

LoaderNext(l) == \/ getSemaphore(l) \/ LoaderMemory(l) \/ LoaderLoop(l)
                 \/ LoaderBlock(l) \/ PushParcel(l) \/ NoPlace(l)
                 \/ LoaderRelease(l)

-----------------------------------------------------------------------------
(* The trucker. *)

(* Both segments, zeroed by the kernel, then the semaphore with value 1: *)
(* nobody can see the segments before the semaphore.                     *)
TruckerCreate ==
  /\ pc[Trucker] = "new"
  /\ ipc' = IPCObject
  /\ sem' = 1
  /\ Goto(Trucker, "bootwait")
  /\ UNCHANGED <<beltVars, truckVars, endWork, iteration>>

TruckerBootBlock == blockSem(Trucker, "bootwait", "boot")

TruckerBoot ==
  /\ pc[Trucker] = "boot"
  /\ SetUpBelt
  /\ Goto(Trucker, "bootrelease")
  /\ UNCHANGED <<ipc, sem, placed, truckVars, endWork, iteration>>

TruckerBootRelease == releaseSem(Trucker, "bootrelease", "wait")

TruckerBlock == blockSem(Trucker, "wait", "cs")

GetParcel ==
  /\ pc[Trucker] = "cs" /\ ParcelAtEnd
  /\ Take
  /\ Goto(Trucker, "release")
  /\ UNCHANGED <<ipc, sem, end_i, placed, iteration>>

(* Bug: the line moves only after a parcel was taken. *)
StandsStill ==
  /\ pc[Trucker] = "cs" /\ ~ParcelAtEnd
  /\ Goto(Trucker, "release")
  /\ UNCHANGED <<ipc, sem, beltVars, truckVars, endWork, iteration>>

MoveEmpty ==
  /\ pc[Trucker] = "cs" /\ ~ParcelAtEnd
  /\ line' = moveLine(line)
  /\ Goto(Trucker, "release")
  /\ UNCHANGED <<ipc, sem, freePlaces, freeWeight, placed, truckVars,
                 endWork, iteration>>

TruckerRelease == releaseSem(Trucker, "release", "leave")

(* The truck leaves, and endWork is looked at, outside the semaphore. *)
TruckerLeave ==
  /\ pc[Trucker] = "leave"
  /\ LeavesIfFull
  /\ Goto(Trucker, IF endWork[Trucker] THEN "endwait" ELSE "wait")
  /\ UNCHANGED <<ipc, sem, beltVars, counter, end_i, loaded, endWork, iteration>>

(* Bug: the line is emptied without blocking the semaphore. *)
EmptiesUnblocked ==
  /\ pc[Trucker] = "endwait" /\ Goto(Trucker, "end")
  /\ UNCHANGED <<ipc, sem, beltVars, truckVars, endWork, iteration>>

TruckerEndBlock == blockSem(Trucker, "endwait", "end")

TruckerEndMove ==
  /\ pc[Trucker] = "end"
  /\ EndMove
  /\ Goto(Trucker, "endload")
  /\ UNCHANGED <<ipc, sem, freePlaces, freeWeight, placed, truckPlacesCount,
                 counter, loaded, onTruck, endWork, iteration>>

TruckerEndLoad ==
  /\ pc[Trucker] = "endload"
  /\ EndLoad
  /\ Goto(Trucker, "end")
  /\ UNCHANGED <<ipc, sem, beltVars, endWork, iteration, counter, end_i>>

(* Bug: the semaphore is released where it should be removed. *)
ReleasesForGood ==
  /\ pc[Trucker] = "end" /\ end_i = K
  /\ sem' = sem + 1
  /\ Goto(Trucker, "rmline")
  /\ UNCHANGED <<ipc, beltVars, truckVars, endWork, iteration>>

TruckerRmSem ==
  /\ pc[Trucker] = "end" /\ end_i = K
  /\ ipc' = ipc \ {"sem"}
  /\ Goto(Trucker, "rmline")
  /\ UNCHANGED <<sem, beltVars, truckVars, endWork, iteration>>

TruckerRmLine ==
  /\ pc[Trucker] = "rmline"
  /\ ipc' = ipc \ {"line"}
  /\ Goto(Trucker, "rmparams")
  /\ UNCHANGED <<sem, beltVars, truckVars, endWork, iteration>>

TruckerRmParams ==
  /\ pc[Trucker] = "rmparams"
  /\ ipc' = ipc \ {"params"}
  /\ Goto(Trucker, "done")
  /\ UNCHANGED <<sem, beltVars, truckVars, endWork, iteration>>

TruckerNext == \/ TruckerCreate \/ TruckerBootBlock \/ TruckerBoot
               \/ TruckerBootRelease
               \/ TruckerBlock \/ GetParcel \/ MoveEmpty \/ TruckerRelease
               \/ TruckerLeave \/ TruckerEndBlock \/ TruckerEndMove
               \/ TruckerEndLoad \/ TruckerRmSem \/ TruckerRmLine \/ TruckerRmParams

-----------------------------------------------------------------------------
(* SIGINT.  The handler sets endWork.  The handler is installed without    *)
(* SA_RESTART: a semop that is asleep fails with EINTR, which blockSem     *)
(* takes for an error.  A process in front of a closed semaphore may be    *)
(* asleep or about to be.                                                  *)
handleSIGINT(p) ==
  /\ pc[p] \notin {"new"} \cup Ended
  /\ endWork' = [endWork EXCEPT ![p] = TRUE]
  /\ \/ UNCHANGED pc
     \/ /\ pc[p] \in {"bootwait", "wait", "endwait"}
        /\ "sem" \in ipc /\ sem = 0
        /\ Goto(p, "failed")
  /\ UNCHANGED <<ipc, sem, beltVars, truckVars, iteration>>

AllEnded == \A p \in Process : pc[p] \in Ended

(* Every process has returned from main: nothing is left to happen. *)
Terminated == AllEnded /\ UNCHANGED vars

Next == \/ TruckerNext
        \/ \E l \in Loader : LoaderNext(l)
        \/ \E p \in Interruptible : handleSIGINT(p)
        \/ Terminated

Spec == Init /\ [][Next]_vars

(* The kernel runs every started process, and serves the waiters of a      *)
(* System V semaphore in the order in which they went to sleep: a process  *)
(* that waits gets its turn.  Nobody has to start a program.               *)
Fairness ==
  /\ WF_vars(pc[Trucker] # "new" /\ TruckerNext)
  /\ SF_vars(TruckerBootBlock) /\ SF_vars(TruckerBlock) /\ SF_vars(TruckerEndBlock)
  /\ \A l \in Loader : /\ WF_vars(pc[l] # "new" /\ LoaderNext(l))
                       /\ SF_vars(LoaderBlock(l))

FairSpec == Spec /\ Fairness

-----------------------------------------------------------------------------
(* Properties. *)

TypeOK == DataTypeOK /\ pc \in [Process -> Location]

(* The semaphore guards the belt: at most one process is between blockSem  *)
(* and releaseSem, the semaphore is 0 while one is, and it still exists.   *)
SemInv ==
  /\ \A p, q \in Process : InCS(p) /\ InCS(q) => p = q
  /\ "sem" \in ipc => sem = IF \E p \in Process : InCS(p) THEN 0 ELSE 1
  /\ \A p \in Process : InCS(p) => "sem" \in ipc

(* Where the trucker and the loaders can be, and what that says of the    *)
(* semaphore and of the end of the trucker's work.                         *)
Control ==
  /\ pc[Trucker] \notin {"memory", "loop"}
  /\ \A l \in Loader : pc[l] \in {"new", "memory", "loop", "wait", "cs", "release"}
                                  \cup Ended
  /\ pc[Trucker] \in {"new", "rmline", "rmparams", "done"} => "sem" \notin ipc
  /\ end_i > 0 => pc[Trucker] \in {"end", "endload", "rmline", "rmparams", "done"}
  /\ pc[Trucker] = "endload" => end_i > 0

(* The inductive invariant. *)
IInv == TypeOK /\ SemInv /\ Control /\ BeltInv

(* A loader stops, whatever it was doing, once the trucker has ended: the  *)
(* removal of the semaphore wakes the loaders that wait for it.            *)
LoadersStop ==
  \A l \in Loader :
    pc[Trucker] = "done" /\ pc[l] # "new" ~> pc[l] \in Ended \cup {"new"}

(* A loader whose parcel the belt can carry at all finishes its cycles     *)
(* while the trucker serves the belt: it is not starved by lighter parcels.*)
LoadersFinish ==
  \A l \in Loader :
    Weight[l] <= M => (pc[l] = "wait" ~> pc[l] \in Ended \/ endWork[Trucker])

-----------------------------------------------------------------------------
(* What lab7/README.md says and this version does not do. *)

(* README:35: no parcel is put on the belt while the truck is full and     *)
(* leaves.                                                                 *)
NoLoadWhileLeaving == [][placed' # placed => truckPlacesCount < Capacity]_vars

(* README:16: the trucker removes the memory and the semaphores, also on   *)
(* SIGINT.                                                                 *)
NothingLeftBehind == pc[Trucker] \in Ended => ipc = {}

=============================================================================
