---------------------------- MODULE ConveyorPosix ----------------------------
(***************************************************************************)
(* lab7, POSIX version: the same belt in shared memory objects and a named *)
(* semaphore.  What differs from System V: unlinking a name leaves the     *)
(* object with those who have it open, so that nobody is woken when the    *)
(* trucker ends; the loaders are counted out by two counters in LineParams *)
(* that no semaphore guards; and every program that opens a segment also   *)
(* sets its size.                                                          *)
(*                                                                         *)
(* A loader invocation sets up once and then forks, so that its processes  *)
(* (a crew) leave the set-up together.  ipc is the set of linked names.    *)
(***************************************************************************)
EXTENDS Conveyor

CONSTANTS Invocation,   \* the runs of the loader program
          Crews         \* the ways in which they may share the loaders: each
                        \* has workersCount + 1 of them, or is not started

ASSUME PosixAssumption ==
  /\ Crews \subseteq [Invocation -> SUBSET Loader]
  /\ \A c \in Crews :
       /\ UNION {c[v] : v \in Invocation} = Loader
       /\ \A v, w \in Invocation : v # w => c[v] \cap c[w] = {}

VARIABLES
  crew,         \* the loaders of each invocation
  len, mode, loadersCount, loadersCountEndWord, \* the rest of LineParams
  lineSegment,  \* the size of the line's segment, in slots
  lineSize,     \* the size each loader maps, in slots; -1 before it is known
  endWord,      \* each loader's register in loadersCountEndWord++
  seen          \* the trucker's registers: the two counters it compares

params == <<crew, len, mode, loadersCount, loadersCountEndWord>>
sizes == <<lineSegment, lineSize>>
registers == <<endWord, seen>>
vars == <<ipc, sem, line, freePlaces, freeWeight, pc, endWork, iteration,
          truckPlacesCount, counter, end_i, placed, loaded, onTruck,
          crew, len, mode, loadersCount, loadersCountEndWord, lineSegment,
          lineSize, endWord, seen>>

Critical == {"boot", "bootline", "bootrelease", "cs", "release", "end", "endload"}
InCS(p) == pc[p] \in Critical
Ended == {"done", "failed"}
SettingUp == {"opened", "sized", "numbered", "counted"}
Location == {"new", "loop", "wait", "endread", "endwrite", "bootwait", "leave", "endwait",
             "waitloaders", "readended", "readcount", "rmsem", "rmline", "rmparams"}
            \cup SettingUp \cup Critical \cup Ended

Init ==
  /\ ConveyorInit
  /\ crew \in Crews
  /\ len = 0 /\ mode = 0 /\ loadersCount = 0 /\ loadersCountEndWord = 0
  /\ lineSegment = 0 /\ lineSize = [l \in Loader |-> -1]
  /\ endWord = [l \in Loader |-> 0]
  /\ seen = [count |-> 0, ended |-> 0]

-----------------------------------------------------------------------------
(* The semaphore: an open one works whether or not its name is linked. *)

blockSem(p, wait, next) ==
  /\ pc[p] = wait
  /\ sem > 0
  /\ sem' = sem - 1
  /\ Goto(p, next)
  /\ UNCHANGED <<ipc, beltVars, truckVars, endWork, iteration, params, sizes, registers>>

releaseSem(p, here, next) ==
  /\ pc[p] = here
  /\ sem' = sem + 1
  /\ Goto(p, next)
  /\ UNCHANGED <<ipc, beltVars, truckVars, endWork, iteration, params, sizes, registers>>

-----------------------------------------------------------------------------
(* The loader. *)

CrewAt(v, here) == crew[v] # {} /\ \A l \in crew[v] : pc[l] = here
CrewGoto(v, there) == pc' = [p \in Process |-> IF p \in crew[v] THEN there ELSE pc[p]]

getSemaphore(v) ==
  /\ CrewAt(v, "new")
  /\ CrewGoto(v, IF "sem" \in ipc THEN "opened" ELSE "failed")
  /\ UNCHANGED <<ipc, sem, beltVars, truckVars, endWork, iteration, params, sizes, registers>>

(* The parameters are opened and len is read; then the counters are set,  *)
(* each in an access of its own.  None of it is done with the semaphore.   *)
LoaderParams(v) ==
  /\ CrewAt(v, "opened")
  /\ IF "params" \in ipc
       THEN /\ lineSize' = [l \in Loader |-> IF l \in crew[v] THEN len ELSE lineSize[l]]
            /\ CrewGoto(v, "sized")
       ELSE CrewGoto(v, "failed") /\ UNCHANGED lineSize
  /\ UNCHANGED <<ipc, sem, beltVars, truckVars, endWork, iteration, params,
                 lineSegment, registers>>

NumberLoaders(v) ==
  /\ CrewAt(v, "sized")
  /\ loadersCount' = Cardinality(crew[v]) - 1
  /\ CrewGoto(v, "numbered")
  /\ UNCHANGED <<ipc, sem, beltVars, truckVars, endWork, iteration, crew, len, mode,
                 loadersCountEndWord, sizes, registers>>

ResetEndWord(v) ==
  /\ CrewAt(v, "numbered")
  /\ loadersCountEndWord' = 0
  /\ CrewGoto(v, "counted")
  /\ UNCHANGED <<ipc, sem, beltVars, truckVars, endWork, iteration, crew, len, mode,
                 loadersCount, sizes, registers>>

(* getShareMemory truncates the line to the size computed from len: to     *)
(* nothing, if the trucker had not yet written len.                        *)
LoaderLine(v) ==
  /\ CrewAt(v, "counted")
  /\ IF "line" \in ipc
       THEN LET size == lineSize[CHOOSE l \in crew[v] : TRUE] IN
            /\ lineSegment' = size
            /\ line' = IF size = 0 THEN EmptyLine ELSE line
            /\ CrewGoto(v, "loop")
       ELSE CrewGoto(v, "failed") /\ UNCHANGED <<lineSegment, line>>
  /\ UNCHANGED <<ipc, sem, freePlaces, freeWeight, placed, truckVars, endWork,
                 iteration, params, lineSize, registers>>

LoaderLoop(l) ==
  /\ pc[l] = "loop"
  /\ Goto(l, IF MoreCycles(l) THEN "wait" ELSE "endread")
  /\ UNCHANGED <<ipc, sem, beltVars, truckVars, endWork, iteration, params, sizes, registers>>

LoaderBlock(l) == blockSem(l, "wait", "cs")

ObeyMode(l) == endWork' = [endWork EXCEPT ![l] = @ \/ mode = 1]

PushParcel(l) ==
  /\ pc[l] = "cs" /\ lineSize[l] = K /\ lineSegment = K /\ CanPush(l)
  /\ Push(l)
  /\ ObeyMode(l)
  /\ Goto(l, "release")
  /\ UNCHANGED <<ipc, sem, truckVars, params, sizes, registers>>

NoPlace(l) ==
  /\ pc[l] = "cs" /\ lineSize[l] = K
  /\ ~CanPush(l) /\ (lineSegment = K \/ ~CountersOnly(l))
  /\ ObeyMode(l)
  /\ Goto(l, "release")
  /\ UNCHANGED <<ipc, sem, beltVars, truckVars, iteration, params, sizes, registers>>

(* mmap of 0 bytes fails, and reading a page beyond the end of the segment *)
(* is a SIGBUS: the loader dies with the semaphore taken.                  *)
LoaderCrash(l) ==
  /\ pc[l] = "cs"
  /\ lineSize[l] = 0 \/ (lineSegment = 0 /\ CountersOnly(l))
  /\ Goto(l, "failed")
  /\ UNCHANGED <<ipc, sem, beltVars, truckVars, endWork, iteration, params, sizes, registers>>

LoaderRelease(l) == releaseSem(l, "release", "loop")

(* sem_close, then loadersCountEndWord++ in two accesses to the memory.     *)
(* CountsTwice has a bug: the loader counts itself in the register already. *)
CountsTwice(l) ==
  /\ pc[l] = "endread"
  /\ endWord' = [endWord EXCEPT ![l] = loadersCountEndWord + 1]
  /\ Goto(l, "endwrite")
  /\ UNCHANGED <<ipc, sem, beltVars, truckVars, endWork, iteration, params, sizes, seen>>

LoaderEndRead(l) ==
  /\ pc[l] = "endread"
  /\ endWord' = [endWord EXCEPT ![l] = loadersCountEndWord]
  /\ Goto(l, "endwrite")
  /\ UNCHANGED <<ipc, sem, beltVars, truckVars, endWork, iteration, params, sizes, seen>>

LoaderEndWrite(l) ==
  /\ pc[l] = "endwrite"
  /\ loadersCountEndWord' = endWord[l] + 1
  /\ Goto(l, "done")
  /\ UNCHANGED <<ipc, sem, beltVars, truckVars, endWork, iteration, crew, len,
                 mode, loadersCount, sizes, registers>>

InvocationNext(v) == \/ getSemaphore(v) \/ LoaderParams(v) \/ NumberLoaders(v)
                     \/ ResetEndWord(v) \/ LoaderLine(v)

LoaderNext(l) == \/ LoaderLoop(l) \/ LoaderBlock(l) \/ PushParcel(l) \/ NoPlace(l)
                 \/ LoaderCrash(l) \/ LoaderRelease(l)
                 \/ LoaderEndRead(l) \/ LoaderEndWrite(l)

-----------------------------------------------------------------------------
(* The trucker. *)

(* Both segments and then the semaphore, all with O_EXCL. *)
TruckerCreate ==
  /\ pc[Trucker] = "new"
  /\ ipc' = IPCObject
  /\ sem' = 1
  /\ lineSegment' = K
  /\ Goto(Trucker, "bootwait")
  /\ UNCHANGED <<beltVars, truckVars, endWork, iteration, params, lineSize, registers>>

TruckerBootBlock == blockSem(Trucker, "bootwait", "boot")

TruckerBoot ==
  /\ pc[Trucker] = "boot"
  /\ freePlaces' = K /\ freeWeight' = M /\ len' = K /\ mode' = 0
  /\ Goto(Trucker, "bootline")
  /\ UNCHANGED <<ipc, sem, line, placed, truckVars, endWork, iteration, crew,
                 loadersCount, loadersCountEndWord, sizes, registers>>

TruckerBootLine ==
  /\ pc[Trucker] = "bootline" /\ lineSegment = K
  /\ line' = EmptyLine
  /\ Goto(Trucker, "bootrelease")
  /\ UNCHANGED <<ipc, sem, freePlaces, freeWeight, placed, truckVars, endWork,
                 iteration, params, sizes, registers>>

TruckerBootRelease == releaseSem(Trucker, "bootrelease", "wait")

TruckerBlock == blockSem(Trucker, "wait", "cs")

GetParcel ==
  /\ pc[Trucker] = "cs" /\ lineSegment = K /\ ParcelAtEnd
  /\ Take
  /\ Goto(Trucker, "release")
  /\ UNCHANGED <<ipc, sem, end_i, placed, iteration, params, sizes, registers>>

(* Bug: the line moves only after a parcel was taken. *)
StandsStill ==
  /\ pc[Trucker] = "cs" /\ ~ParcelAtEnd
  /\ Goto(Trucker, "release")
  /\ UNCHANGED <<ipc, sem, beltVars, truckVars, endWork, iteration, params, sizes, registers>>

MoveEmpty ==
  /\ pc[Trucker] = "cs" /\ lineSegment = K /\ ~ParcelAtEnd
  /\ line' = moveLine(line)
  /\ Goto(Trucker, "release")
  /\ UNCHANGED <<ipc, sem, freePlaces, freeWeight, placed, truckVars, endWork,
                 iteration, params, sizes, registers>>

TruckerRelease == releaseSem(Trucker, "release", "leave")

TruckerLeave ==
  /\ pc[Trucker] = "leave"
  /\ LeavesIfFull
  /\ Goto(Trucker, IF endWork[Trucker] THEN "endwait" ELSE "wait")
  /\ UNCHANGED <<ipc, sem, beltVars, counter, end_i, loaded, endWork, iteration,
                 params, sizes, registers>>

(* Bug: the line is emptied without blocking the semaphore. *)
EmptiesUnblocked ==
  /\ pc[Trucker] = "endwait" /\ Goto(Trucker, "end")
  /\ UNCHANGED <<ipc, sem, beltVars, truckVars, endWork, iteration, params, sizes, registers>>

TruckerEndBlock == blockSem(Trucker, "endwait", "end")

TruckerEndMove ==
  /\ pc[Trucker] = "end" /\ lineSegment = K
  /\ EndMove
  /\ Goto(Trucker, "endload")
  /\ UNCHANGED <<ipc, sem, freePlaces, freeWeight, placed, truckPlacesCount,
                 counter, loaded, onTruck, endWork, iteration, params, sizes, registers>>

TruckerEndLoad ==
  /\ pc[Trucker] = "endload" /\ lineSegment = K
  /\ EndLoad
  /\ Goto(Trucker, "end")
  /\ UNCHANGED <<ipc, sem, beltVars, endWork, iteration, counter, end_i, params,
                 sizes, registers>>

(* The trucker touches a line that a loader has truncated: SIGBUS. *)
TruckerCrash ==
  /\ pc[Trucker] \in {"bootline", "cs", "end", "endload"} /\ end_i < K
  /\ lineSegment = 0
  /\ Goto(Trucker, "failed")
  /\ UNCHANGED <<ipc, sem, beltVars, truckVars, endWork, iteration, params, sizes, registers>>

(* sem_close without releaseSem; the loaders are told by mode.            *)
TruckerMode ==
  /\ pc[Trucker] = "end" /\ end_i = K
  /\ mode' = 1
  /\ Goto(Trucker, "waitloaders")
  /\ UNCHANGED <<ipc, sem, beltVars, truckVars, endWork, iteration, crew,
                 len, loadersCount, loadersCountEndWord, sizes, registers>>

(* The two counters are read one after the other, in an order that C leaves *)
(* open, again and again until they agree.                                  *)
TruckerReads ==
  /\ pc[Trucker] = "waitloaders"
  /\ \/ seen' = [seen EXCEPT !.count = loadersCount] /\ Goto(Trucker, "readended")
     \/ seen' = [seen EXCEPT !.ended = loadersCountEndWord] /\ Goto(Trucker, "readcount")
  /\ UNCHANGED <<ipc, sem, beltVars, truckVars, endWork, iteration, params, sizes, endWord>>

(* Bug: the parent of the crew is not counted. *)
ForgetsParent(count, ended) == count = ended

LoadersClosed(count, ended) == count + 1 = ended

TruckerCompares ==
  /\ \/ pc[Trucker] = "readended" /\ seen' = [seen EXCEPT !.ended = loadersCountEndWord]
     \/ pc[Trucker] = "readcount" /\ seen' = [seen EXCEPT !.count = loadersCount]
  /\ Goto(Trucker, IF LoadersClosed(seen'.count, seen'.ended) THEN "rmsem" ELSE "waitloaders")
  /\ UNCHANGED <<ipc, sem, beltVars, truckVars, endWork, iteration, params, sizes, endWord>>

TruckerUnlinkSem ==
  /\ pc[Trucker] = "rmsem"
  /\ ipc' = ipc \ {"sem"}
  /\ Goto(Trucker, "rmline")
  /\ UNCHANGED <<sem, beltVars, truckVars, endWork, iteration, params, sizes, registers>>

TruckerUnlinkLine ==
  /\ pc[Trucker] = "rmline"
  /\ ipc' = ipc \ {"line"}
  /\ Goto(Trucker, "rmparams")
  /\ UNCHANGED <<sem, beltVars, truckVars, endWork, iteration, params, sizes, registers>>

TruckerUnlinkParams ==
  /\ pc[Trucker] = "rmparams"
  /\ ipc' = ipc \ {"params"}
  /\ Goto(Trucker, "done")
  /\ UNCHANGED <<sem, beltVars, truckVars, endWork, iteration, params, sizes, registers>>

TruckerNext == \/ TruckerCreate \/ TruckerBootBlock \/ TruckerBoot \/ TruckerBootLine
               \/ TruckerBootRelease \/ TruckerBlock \/ GetParcel \/ MoveEmpty
               \/ TruckerRelease \/ TruckerLeave \/ TruckerEndBlock \/ TruckerEndMove
               \/ TruckerEndLoad \/ TruckerCrash \/ TruckerMode \/ TruckerReads
               \/ TruckerCompares \/ TruckerUnlinkSem \/ TruckerUnlinkLine \/ TruckerUnlinkParams

-----------------------------------------------------------------------------
(* SIGINT: sem_wait that is asleep fails with EINTR and blockSem exits.  A *)
(* crew gets no signal before its fork.                                    *)
handleSIGINT(p) ==
  /\ pc[p] \notin {"new"} \cup SettingUp \cup Ended
  /\ endWork' = [endWork EXCEPT ![p] = TRUE]
  /\ \/ UNCHANGED pc
     \/ pc[p] \in {"bootwait", "wait", "endwait"} /\ sem = 0 /\ Goto(p, "failed")
  /\ UNCHANGED <<ipc, sem, beltVars, truckVars, iteration, params, sizes, registers>>

AllEnded == \A p \in Process : pc[p] \in Ended

Terminated == AllEnded /\ UNCHANGED vars

Next == \/ TruckerNext
        \/ \E v \in Invocation : InvocationNext(v)
        \/ \E l \in Loader : LoaderNext(l)
        \/ \E p \in Interruptible : handleSIGINT(p)
        \/ Terminated

Spec == Init /\ [][Next]_vars

(* As for System V: futex waiters are woken in the order of their arrival, *)
(* so a process that waits gets its turn as long as there are turns.       *)
Fairness ==
  /\ WF_vars(pc[Trucker] # "new" /\ TruckerNext)
  /\ SF_vars(TruckerBootBlock) /\ SF_vars(TruckerBlock) /\ SF_vars(TruckerEndBlock)
  /\ \A v \in Invocation : WF_vars(~CrewAt(v, "new") /\ InvocationNext(v))
  /\ \A l \in Loader : WF_vars(LoaderNext(l)) /\ SF_vars(LoaderBlock(l))

FairSpec == Spec /\ Fairness

-----------------------------------------------------------------------------
(* Properties. *)

TypeOK ==
  /\ DataTypeOK /\ pc \in [Process -> Location]
  /\ len \in {0, K} /\ mode \in {0, 1}
  /\ loadersCount \in Int /\ loadersCountEndWord \in Nat
  /\ lineSegment \in {0, K} /\ lineSize \in [Loader -> {-1, 0, K}]
  /\ crew \in Crews
  /\ endWord \in [Loader -> Nat]
  /\ seen \in [count : Int, ended : Nat]

(* The trucker keeps the semaphore from the moment it empties the line.    *)
Unlinking == {"rmsem", "rmline", "rmparams", "done"}
Closing == {"waitloaders", "readended", "readcount"} \cup Unlinking

(* At most one process is between blockSem and releaseSem, none once the   *)
(* trucker has emptied the line, and the semaphore is open only if nobody  *)
(* is inside.                                                              *)
SemInv ==
  /\ TypeOK
  /\ \A p, q \in Process : InCS(p) /\ InCS(q) => p = q
  /\ pc[Trucker] \in Closing => sem = 0 /\ \A p \in Process : ~InCS(p)
  /\ sem > 0 => sem = 1 /\ \A p \in Process : ~InCS(p)

(* An invocation has read len before the trucker wrote it: it truncates the *)
(* belt to nothing, or is about to.                                         *)
Truncated == \E l \in Loader : lineSize[l] = 0

(* Unless that happens the counters agree with the belt, the parcels keep  *)
(* their order and the truck its capacity, for any number of invocations,  *)
(* although the loaders write the size of the belt's segment again.        *)
BeltKept == Truncated \/ (PlacesInv /\ WeightInv /\ OrderInv /\ TruckInv)

(* And the belt is the queue of BeltFifo, until it is truncated.           *)
FifoUntilTruncated ==
  Fifo!Init /\ [][Truncated' \/ Fifo!Next]_Fifo!vars

OneInvocationOnly == \A v, w \in Invocation : crew[v] # {} /\ crew[w] # {} => v = w

Finished == {l \in Loader : pc[l] = "done"}

(* The trucker unlinks the objects only after more processes have counted  *)
(* themselves out than it read loadersCount to be: the unguarded count can *)
(* be too low, never too high.  So with one invocation all its processes   *)
(* have ended, unless the trucker read loadersCount before the invocation  *)
(* had written it.                                                         *)
UnlinksLast ==
  pc[Trucker] \in Unlinking =>
    /\ Cardinality(Finished) > seen.count
    /\ OneInvocationOnly /\ seen.count # 0 => \A l \in Loader : pc[l] = "done"

(* What the above rest on.  Before the trucker has created the objects     *)
(* nobody has come further than to miss them.                              *)
Untouched ==
  pc[Trucker] = "new" =>
    ipc = {} /\ sem = 0 /\ \A l \in Loader : pc[l] \in {"new", "failed"}

(* The segment loses its slots only by a loader that came too early. *)
SegmentKept == pc[Trucker] = "new" \/ Truncated \/ lineSegment = K

(* A loader knows the size of the line once it has read the parameters. *)
Sizes ==
  \A l \in Loader : /\ pc[l] \in {"new", "opened"} => lineSize[l] = -1
                    /\ lineSize[l] = -1 => pc[l] \in {"new", "opened", "failed"}

(* The belt is emptied with the semaphore taken, and nobody gets it again. *)
EmptiedAlone ==
  /\ pc[Trucker] = "endload" => Emptying
  /\ Emptying => /\ pc[Trucker] \in {"end", "endload", "failed"} \cup Closing
                 /\ sem = 0 /\ \A l \in Loader : ~InCS(l)

(* The trucker has written the counters and not yet the empty line. *)
BootLine == pc[Trucker] = "bootline" => /\ Occupied(line) = {} /\ ~Emptying
                                        /\ freePlaces = K /\ freeWeight = M

BeltOrTruncated == Truncated \/ (BeltInv /\ BootLine)

(* No count of loaders that have ended, in the memory or in a register, is *)
(* above their number, however the increments overlap; and the number of   *)
(* loaders of the only invocation is right once it is written.             *)
CountInv ==
  /\ loadersCountEndWord <= Cardinality(Finished) /\ seen.ended <= Cardinality(Finished)
  /\ \A l \in Loader : pc[l] = "endwrite" => endWord[l] <= Cardinality(Finished)
  /\ OneInvocationOnly => {loadersCount, seen.count} \subseteq {0, Cardinality(Loader) - 1}

IInv == /\ SemInv /\ Untouched /\ SegmentKept /\ Sizes /\ EmptiedAlone
        /\ BeltOrTruncated /\ CountInv /\ UnlinksLast

-----------------------------------------------------------------------------
(* What the repository says and this version does not do.                  *)

(* README:31 and zad2/trucker.c:205: deadlocks are excluded; the trucker   *)
(* waits until the loaders have closed their semaphores, and then ends.    *)
ShutdownCompletes == pc[Trucker] = "waitloaders" ~> pc[Trucker] = "done"

(* zad2/trucker.c:205: the loaders have closed their semaphores when the   *)
(* trucker unlinks its own.  Not if loadersCount was read too early.       *)
UnlinksAfterAll ==
  OneInvocationOnly /\ pc[Trucker] \in Unlinking => \A l \in Loader : pc[l] = "done"

(* zad2/trucker.c:205: the count is complete when the loaders have closed  *)
(* their semaphores.                                                       *)
CountsEveryLoader ==
  OneInvocationOnly /\ (\A l \in Loader : pc[l] = "done") =>
    LoadersClosed(loadersCount, loadersCountEndWord)

(* The same comment, for loaders of several invocations.                   *)
WaitsForEverybody ==
  pc[Trucker] = "done" => \A l \in Loader : pc[l] \in {"new"} \cup Ended

(* README:16: a loader started before the trucker prints an error.  It     *)
(* does not take the trucker with it.                                      *)
TruckerSurvives == pc[Trucker] = "failed" => endWork[Trucker]

=============================================================================
