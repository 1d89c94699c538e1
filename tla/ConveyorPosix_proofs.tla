------------------------ MODULE ConveyorPosix_proofs ------------------------
(* Proofs of the safety properties of ConveyorPosix, for every number of   *)
(* loaders and every way to share them among invocations of the program.   *)
EXTENDS ConveyorPosix, Conveyor_proofs

USE BeltAssumption, ConveyorAssumption, PosixAssumption DEF Process

-----------------------------------------------------------------------------
(* Types. *)

(* The crews of the invocations are finite sets of loaders. *)
LEMMA CrewType ==
  ASSUME crew \in Crews, NEW v \in Invocation
  PROVE  crew[v] \subseteq Loader /\ IsFiniteSet(crew[v]) /\ Cardinality(crew[v]) \in Nat
<1>1. crew \in [Invocation -> SUBSET Loader]
  OBVIOUS
<1>2. crew[v] \subseteq Loader
  BY <1>1
<1> QED
  BY <1>2, FS_Subset, FS_CardinalityType

(* A crew goes together and the others stay. *)
LEMMA CrewGoes ==
  ASSUME TypeOK, NEW v \in Invocation, NEW there \in Location, CrewGoto(v, there)
  PROVE  /\ pc' \in [Process -> Location]
         /\ pc'[Trucker] = pc[Trucker]
         /\ \A l \in Loader : pc'[l] = IF l \in crew[v] THEN there ELSE pc[l]
<1>1. crew[v] \subseteq Loader
  BY CrewType DEF TypeOK
<1> QED
  BY <1>1 DEF TypeOK, CrewGoto

(* Taking and opening the semaphore keep the types and the sizes. *)
LEMMA SemaphoreType ==
  ASSUME TypeOK, Sizes, NEW p \in Process, NEW here, NEW next \in Location,
         blockSem(p, here, next) \/ releaseSem(p, here, next),
         here \notin {"new", "opened", "failed"}, next \notin {"new", "opened"}
  PROVE  TypeOK' /\ Sizes'
<1>1. /\ UNCHANGED <<ipc, line, freePlaces, freeWeight, placed, endWork, iteration>>
      /\ UNCHANGED <<truckPlacesCount, counter, end_i, loaded, onTruck>>
      /\ UNCHANGED <<crew, len, mode, loadersCount, loadersCountEndWord, endWord, seen>>
      /\ UNCHANGED <<lineSegment, lineSize>>
      /\ pc[p] = here /\ pc' = [pc EXCEPT ![p] = next]
  BY DEF blockSem, releaseSem, Goto, beltVars, truckVars, params, sizes, registers
<1>2. sem' \in Nat
  <2> sem \in Nat
    BY DEF TypeOK, DataTypeOK
  <2>1. CASE sem > 0 /\ sem' = sem - 1
    BY <2>1
  <2>2. CASE sem' = sem + 1
    BY <2>2
  <2> QED
    BY <2>1, <2>2 DEF blockSem, releaseSem
<1>3. pc' \in [Process -> Location]
  BY <1>1 DEF TypeOK
<1>4. Sizes'
  BY <1>1 DEF Sizes, TypeOK
<1> QED
  BY <1>1, <1>2, <1>3, <1>4 DEF TypeOK, DataTypeOK

(* Type correctness, for every number of loaders and invocations: the      *)
(* unguarded counters and the sizes a loader has read included.            *)
THEOREM TypeCorrect == Spec => [](TypeOK /\ Sizes)
<1> USE DEF IPCObject, Ended, SettingUp, Critical, Location, Goto, beltVars, truckVars,
            params, sizes, registers, DataTypeOK
<1>1. Init => TypeOK /\ Sizes
  BY EmptyLineType DEF Init, ConveyorInit, TypeOK, Sizes
<1>2. TypeOK /\ Sizes /\ [Next]_vars => TypeOK' /\ Sizes'
  <2> SUFFICES ASSUME TypeOK, Sizes, [Next]_vars PROVE TypeOK' /\ Sizes'
    OBVIOUS
  <2>0. /\ pc \in [Process -> Location] /\ Trucker \in Process /\ Trucker \notin Loader
        /\ crew \in Crews
    BY DEF TypeOK
  <2>1. CASE UNCHANGED vars
    BY <2>1 DEF vars, TypeOK, Sizes
  <2>2. CASE TruckerNext
    <3> USE DEF TypeOK, Sizes
    <3>1. CASE TruckerCreate
      BY <3>1 DEF TruckerCreate
    <3>2. CASE TruckerBootBlock \/ TruckerBlock \/ TruckerEndBlock
      <4> HIDE DEF TypeOK, Sizes
      <4> QED
        BY <3>2, SemaphoreType DEF TruckerBootBlock, TruckerBlock, TruckerEndBlock
    <3>3. CASE TruckerBoot
      BY <3>3, SMTT(30) DEF TruckerBoot
    <3>4. CASE TruckerBootLine
      BY <3>4, EmptyLineType DEF TruckerBootLine
    <3>5. CASE TruckerBootRelease \/ TruckerRelease
      <4> HIDE DEF TypeOK, Sizes
      <4> QED
        BY <3>5, SemaphoreType DEF TruckerBootRelease, TruckerRelease
    <3>6. CASE GetParcel
      BY <3>6, TakeType DEF GetParcel
    <3>7. CASE MoveEmpty
      BY <3>7, MoveLineType DEF MoveEmpty
    <3>8. CASE TruckerLeave
      BY <3>8, SMTT(30) DEF TruckerLeave, LeavesIfFull
    <3>9. CASE TruckerEndMove
      <4>1. line' \in [Slot -> Parcel] /\ end_i' \in 0 .. K
        BY <3>9, MoveLineType, SMTT(30) DEF TruckerEndMove, EndMove
      <4> QED
        BY <3>9, <4>1 DEF TruckerEndMove
    <3>10. CASE TruckerEndLoad
      BY <3>10, EndLoadType DEF TruckerEndLoad
    <3>11. CASE TruckerCrash
      BY <3>11 DEF TruckerCrash
    <3>12. CASE TruckerMode
      BY <3>12 DEF TruckerMode
    <3>13. CASE TruckerUnlinkSem \/ TruckerUnlinkLine \/ TruckerUnlinkParams
      <4>1. ipc' \subseteq ipc
        BY <3>13 DEF TruckerUnlinkSem, TruckerUnlinkLine, TruckerUnlinkParams
      <4>2. \E there \in {"rmline", "rmparams", "done"} : pc' = [pc EXCEPT ![Trucker] = there]
        BY <3>13 DEF TruckerUnlinkSem, TruckerUnlinkLine, TruckerUnlinkParams
      <4>3. UNCHANGED <<sem, beltVars, truckVars, endWork, iteration, params, sizes, registers>>
        BY <3>13 DEF TruckerUnlinkSem, TruckerUnlinkLine, TruckerUnlinkParams
      <4>4. Sizes'
        BY <2>0, <4>2, <4>3
      <4>5. pc' \in [Process -> Location]
        BY <2>0, <4>2
      <4>6. DataTypeOK'
        BY <4>1, <4>3
      <4> QED
        BY <4>3, <4>4, <4>5, <4>6
    <3>14. CASE TruckerReads \/ TruckerCompares
      <4>1. seen' \in [count : Int, ended : Nat]
        <5>1. seen' \in {[seen EXCEPT !.count = loadersCount],
                        [seen EXCEPT !.ended = loadersCountEndWord]}
          BY <3>14 DEF TruckerReads, TruckerCompares
        <5>2. /\ seen \in [count : Int, ended : Nat]
              /\ loadersCount \in Int /\ loadersCountEndWord \in Nat
          BY DEF TypeOK
        <5> HIDE DEF TypeOK, Sizes
        <5> QED
          BY <5>1, <5>2
      <4>2. \E there \in {"readended", "readcount", "rmsem", "waitloaders"} :
              pc' = [pc EXCEPT ![Trucker] = there]
        BY <3>14 DEF TruckerReads, TruckerCompares
      <4>3. UNCHANGED <<ipc, sem, beltVars, truckVars, endWork, iteration, params, sizes,
                        endWord>>
        BY <3>14 DEF TruckerReads, TruckerCompares
      <4>4. Sizes'
        BY <2>0, <4>2, <4>3
      <4>5. pc' \in [Process -> Location]
        BY <2>0, <4>2
      <4> QED
        BY <4>1, <4>3, <4>4, <4>5
    <3> QED
      BY <2>2, <3>1, <3>2, <3>3, <3>4, <3>5, <3>6, <3>7, <3>8, <3>9, <3>10, <3>11,
         <3>12, <3>13, <3>14 DEF TruckerNext
  <2>3. ASSUME NEW v \in Invocation, InvocationNext(v) PROVE TypeOK' /\ Sizes'
    <3>0. crew[v] \subseteq Loader /\ Cardinality(crew[v]) \in Nat
      BY <2>0, CrewType
    <3>1. CASE getSemaphore(v)
      <4>1. PICK there \in {"opened", "failed"} : CrewGoto(v, there)
        BY <3>1 DEF getSemaphore
      <4>2. /\ pc' \in [Process -> Location]
            /\ \A l \in Loader : pc'[l] = IF l \in crew[v] THEN there ELSE pc[l]
        BY <4>1, CrewGoes
      <4>3. Sizes'
        BY <3>1, <4>1, <4>2 DEF getSemaphore, CrewAt, Sizes
      <4> QED
        BY <3>1, <4>2, <4>3 DEF getSemaphore, TypeOK
    <3>2. CASE LoaderParams(v)
      <4>1. CASE "params" \in ipc
        <5>1. /\ CrewGoto(v, "sized") /\ CrewAt(v, "opened")
              /\ lineSize' = [l \in Loader |-> IF l \in crew[v] THEN len ELSE lineSize[l]]
          BY <3>2, <4>1 DEF LoaderParams
        <5>2. /\ pc' \in [Process -> Location]
              /\ \A l \in Loader : pc'[l] = IF l \in crew[v] THEN "sized" ELSE pc[l]
          BY <5>1, CrewGoes
        <5>3. lineSize' \in [Loader -> {-1, 0, K}]
          BY <5>1 DEF TypeOK
        <5>4. Sizes'
          <6> SUFFICES ASSUME NEW l \in Loader
                       PROVE  /\ pc'[l] \in {"new", "opened"} => lineSize'[l] = -1
                              /\ lineSize'[l] = -1 => pc'[l] \in {"new", "opened", "failed"}
            BY DEF Sizes
          <6>1. CASE l \in crew[v]
            <7>1. pc'[l] = "sized" /\ lineSize'[l] = len
              BY <5>1, <5>2, <6>1
            <7>2. len \in {0, K}
              BY DEF TypeOK
            <7>3. len # -1
              BY <7>2
            <7> QED
              BY <7>1, <7>3
          <6>2. CASE l \notin crew[v]
            BY <5>1, <5>2, <6>2 DEF Sizes
          <6> QED
            BY <6>1, <6>2
        <5>5. UNCHANGED <<ipc, sem, beltVars, truckVars, endWork, iteration, params,
                          lineSegment, registers>>
          BY <3>2 DEF LoaderParams
        <5> QED
          BY <5>2, <5>3, <5>4, <5>5 DEF TypeOK
      <4>2. CASE "params" \notin ipc
        <5>1. CrewGoto(v, "failed") /\ CrewAt(v, "opened") /\ lineSize' = lineSize
          BY <3>2, <4>2 DEF LoaderParams
        <5>2. /\ pc' \in [Process -> Location]
              /\ \A l \in Loader : pc'[l] = IF l \in crew[v] THEN "failed" ELSE pc[l]
          BY <5>1, CrewGoes
        <5>3. Sizes'
          BY <5>1, <5>2 DEF Sizes, CrewAt
        <5> QED
          BY <3>2, <4>2, <5>2, <5>3 DEF LoaderParams, TypeOK
      <4> QED
        BY <4>1, <4>2
    <3>3. CASE LoaderLine(v)
      <4>1. PICK there \in {"loop", "failed"} : CrewGoto(v, there)
        BY <3>3 DEF LoaderLine
      <4>2. /\ pc' \in [Process -> Location]
            /\ \A l \in Loader : pc'[l] = IF l \in crew[v] THEN there ELSE pc[l]
        BY <4>1, CrewGoes
      <4>3. Sizes'
        BY <3>0, <3>3, <4>1, <4>2 DEF LoaderLine, CrewAt, Sizes
      <4>4. lineSegment' \in {0, K} /\ line' \in [Slot -> Parcel]
        <5> DEFINE l == CHOOSE m \in crew[v] : TRUE
        <5>1. l \in crew[v] /\ l \in Loader /\ pc[l] = "counted"
          BY <3>0, <3>3 DEF LoaderLine, CrewAt
        <5>2. lineSize[l] \in {0, K}
          BY <5>1 DEF Sizes, TypeOK
        <5> QED
          BY <3>3, <5>2, EmptyLineType DEF LoaderLine, TypeOK
      <4> QED
        BY <3>3, <4>2, <4>3, <4>4 DEF LoaderLine, TypeOK
    <3>4. CASE NumberLoaders(v) \/ ResetEndWord(v)
      <4>1. PICK there \in {"numbered", "counted"} : CrewGoto(v, there)
        BY <3>4 DEF NumberLoaders, ResetEndWord
      <4>2. /\ pc' \in [Process -> Location]
            /\ \A l \in Loader : pc'[l] = IF l \in crew[v] THEN there ELSE pc[l]
        BY <4>1, CrewGoes
      <4>3. UNCHANGED <<ipc, sem, beltVars, truckVars, endWork, iteration, crew, len, mode,
                        sizes, registers>>
        BY <3>4 DEF NumberLoaders, ResetEndWord
      <4>4. Sizes'
        BY <3>0, <3>4, <4>1, <4>2, <4>3 DEF NumberLoaders, ResetEndWord, CrewAt, Sizes
      <4>5. loadersCount' \in Int /\ loadersCountEndWord' \in Nat
        <5>1. /\ loadersCount' \in {loadersCount, Cardinality(crew[v]) - 1}
              /\ loadersCountEndWord' \in {loadersCountEndWord, 0}
          BY <3>4 DEF NumberLoaders, ResetEndWord
        <5>2. loadersCount \in Int /\ loadersCountEndWord \in Nat
          BY DEF TypeOK
        <5> QED
          BY <3>0, <5>1, <5>2
      <4> QED
        BY <4>2, <4>3, <4>4, <4>5 DEF TypeOK
    <3> QED
      BY <2>3, <3>1, <3>2, <3>3, <3>4 DEF InvocationNext
  <2>4. ASSUME NEW l \in Loader, LoaderNext(l) PROVE TypeOK' /\ Sizes'
    <3>1. CASE LoaderLoop(l) \/ LoaderCrash(l) \/ NoPlace(l)
      <4>1. /\ pc[l] \in {"loop", "cs"}
            /\ \E there \in {"wait", "endread", "failed", "release"} :
                 pc' = [pc EXCEPT ![l] = there]
        BY <3>1 DEF LoaderLoop, LoaderCrash, NoPlace
      <4>2. UNCHANGED <<ipc, sem, beltVars, truckVars, iteration, params, sizes, registers>>
        BY <3>1 DEF LoaderLoop, LoaderCrash, NoPlace
      <4>3. endWork' \in [Process -> BOOLEAN]
        BY <3>1 DEF LoaderLoop, LoaderCrash, NoPlace, ObeyMode, TypeOK
      <4>4. pc' \in [Process -> Location]
        BY <2>0, <4>1
      <4>5. Sizes'
        BY <2>0, <4>1, <4>2 DEF Sizes
      <4> QED
        BY <4>2, <4>3, <4>4, <4>5 DEF TypeOK
    <3>2. CASE LoaderBlock(l) \/ LoaderRelease(l)
      BY <3>2, SemaphoreType DEF LoaderBlock, LoaderRelease
    <3>3. CASE PushParcel(l)
      BY <2>0, <3>3, PushType DEF PushParcel, ObeyMode, TypeOK, Sizes
    <3>4. CASE LoaderEndRead(l)
      BY <2>0, <3>4 DEF LoaderEndRead, TypeOK, Sizes
    <3>5. CASE LoaderEndWrite(l)
      <4>1. Sizes'
        BY <2>0, <3>5 DEF LoaderEndWrite, Sizes
      <4>2. endWord[l] \in Nat
        BY DEF TypeOK
      <4>3. loadersCountEndWord' \in Nat
        BY <3>5, <4>2 DEF LoaderEndWrite
      <4>4. pc' \in [Process -> Location]
        BY <2>0, <3>5 DEF LoaderEndWrite
      <4> QED
        BY <3>5, <4>1, <4>3, <4>4 DEF LoaderEndWrite, TypeOK
    <3> QED
      BY <2>4, <3>1, <3>2, <3>3, <3>4, <3>5 DEF LoaderNext
  <2>5. ASSUME NEW p \in Interruptible, handleSIGINT(p) PROVE TypeOK' /\ Sizes'
    <3>1. p \in Process /\ endWork' \in [Process -> BOOLEAN]
      BY <2>5 DEF handleSIGINT, TypeOK
    <3>2. UNCHANGED <<ipc, sem, beltVars, truckVars, iteration, params, sizes, registers>>
      BY <2>5 DEF handleSIGINT
    <3>3. pc' = pc \/ (pc[p] \notin {"new", "opened"} /\ pc' = [pc EXCEPT ![p] = "failed"])
      BY <2>5 DEF handleSIGINT
    <3>4. pc' \in [Process -> Location]
      BY <2>0, <3>3
    <3>5. Sizes'
      BY <2>0, <3>2, <3>3 DEF Sizes
    <3> QED
      BY <3>1, <3>2, <3>4, <3>5 DEF TypeOK
  <2>6. CASE Terminated
    BY <2>1, <2>6 DEF Terminated
  <2> QED
    BY <2>1, <2>2, <2>3, <2>4, <2>5, <2>6 DEF Next
<1> QED
  BY <1>1, <1>2, PTL DEF Spec

-----------------------------------------------------------------------------
(* Mutual exclusion. *)

(* A loader that truncates the belt stays known for it. *)
LEMMA TruncatedStays ==
  ASSUME TypeOK, Sizes, Truncated, [Next]_vars
  PROVE  Truncated'
<1>1. PICK l \in Loader : lineSize[l] = 0
  BY DEF Truncated
<1>2. CASE lineSize' = lineSize
  BY <1>1, <1>2 DEF Truncated
<1>3. ASSUME NEW v \in Invocation, LoaderParams(v) PROVE Truncated'
  <2>1. l \notin crew[v]
    <3> SUFFICES ASSUME l \in crew[v] PROVE FALSE
      OBVIOUS
    <3>1. pc[l] = "opened"
      BY <1>3 DEF LoaderParams, CrewAt
    <3> QED
      BY <1>1, <3>1 DEF Sizes
  <2>2. lineSize'[l] = lineSize[l]
    BY <1>3, <2>1 DEF LoaderParams
  <2> QED
    BY <1>1, <2>2 DEF Truncated
<1>4. CASE TruckerNext
  <2>1. lineSize' = lineSize
    BY <1>4 DEF TruckerNext, TruckerCreate, TruckerBootBlock, TruckerBoot, TruckerBootLine,
       TruckerBootRelease, TruckerBlock, GetParcel, MoveEmpty, TruckerRelease, TruckerLeave,
       TruckerEndBlock, TruckerEndMove, TruckerEndLoad, TruckerCrash, TruckerMode,
       TruckerReads, TruckerCompares, TruckerUnlinkSem, TruckerUnlinkLine,
       TruckerUnlinkParams, blockSem, releaseSem, sizes
  <2> QED
    BY <1>2, <2>1
<1>5. ASSUME NEW m \in Loader, LoaderNext(m) PROVE Truncated'
  <2>1. lineSize' = lineSize
    BY <1>5 DEF LoaderNext, LoaderLoop, LoaderBlock, PushParcel, NoPlace, LoaderCrash,
       LoaderRelease, LoaderEndRead, LoaderEndWrite, blockSem, releaseSem, sizes
  <2> QED
    BY <1>2, <2>1
<1>6. ASSUME NEW v \in Invocation,
             getSemaphore(v) \/ NumberLoaders(v) \/ ResetEndWord(v) \/ LoaderLine(v)
      PROVE  Truncated'
  BY <1>2, <1>6 DEF getSemaphore, NumberLoaders, ResetEndWord, LoaderLine, sizes
<1>7. ASSUME NEW q \in Interruptible, handleSIGINT(q) PROVE Truncated'
  BY <1>2, <1>7 DEF handleSIGINT, sizes
<1>8. CASE UNCHANGED vars
  BY <1>2, <1>8 DEF vars
<1> QED
  BY <1>3, <1>4, <1>5, <1>6, <1>7, <1>8 DEF Next, InvocationNext, Terminated

Control == SemInv /\ Untouched /\ SegmentKept /\ EmptiedAlone

(* A process that is set up moves between places of which both or neither *)
(* are critical, and the semaphore and the segment are left alone.        *)
LEMMA StaysControl ==
  ASSUME Control, TypeOK',
         NEW p \in Process, NEW there \in Location, pc' = [pc EXCEPT ![p] = there],
         pc[p] \notin {"new", "failed"}, there # "new", InCS(p) <=> there \in Critical,
         UNCHANGED <<sem, end_i, lineSegment, lineSize>>, ipc' \subseteq ipc,
         p = Trucker => /\ there \in Closing <=> pc[p] \in Closing
                        /\ there = "endload" => Emptying
                        /\ Emptying => there \in {"end", "endload", "failed"} \cup Closing
  PROVE  Control'
<1>1. pc \in [Process -> Location] /\ Trucker \in Process /\ Loader \subseteq Process
  BY DEF Control, SemInv, TypeOK
<1>2. \A q \in Process : InCS(q)' <=> InCS(q)
  BY <1>1 DEF InCS
<1>3. pc'[Trucker] \in Closing <=> pc[Trucker] \in Closing
  BY <1>1
<1>4. SemInv'
  BY <1>2, <1>3 DEF SemInv, Control
<1>5. pc[Trucker] # "new" /\ pc'[Trucker] # "new"
  BY <1>1 DEF Control, Untouched
<1>6. Untouched' /\ SegmentKept'
  BY <1>5 DEF Control, Untouched, SegmentKept, Truncated
<1>7. EmptiedAlone'
  BY <1>1, <1>2 DEF Control, EmptiedAlone, Emptying
<1> QED
  BY <1>4, <1>6, <1>7 DEF Control

(* Entering through sem_wait keeps mutual exclusion. *)
LEMMA BlocksControl ==
  ASSUME Control, TypeOK',
         NEW p \in Process, NEW here, NEW next \in Critical \ {"endload"},
         here \notin Critical, here \notin {"new", "failed"}, blockSem(p, here, next)
  PROVE  Control'
<1>1. /\ pc \in [Process -> Location] /\ Trucker \in Process /\ Loader \subseteq Process
      /\ sem \in Nat
  BY DEF Control, SemInv, TypeOK, DataTypeOK
<1>2. /\ pc[p] = here /\ sem > 0 /\ sem' = sem - 1 /\ pc' = [pc EXCEPT ![p] = next]
      /\ UNCHANGED <<end_i, lineSegment, lineSize, ipc>>
  BY DEF blockSem, Goto, sizes, truckVars
<1>3. sem = 1 /\ sem' = 0 /\ \A q \in Process : ~InCS(q)
  BY <1>1, <1>2 DEF Control, SemInv
<1>4. \A q \in Process : InCS(q)' <=> q = p
  BY <1>1, <1>2, <1>3 DEF InCS
<1>5. pc[Trucker] \notin Closing /\ ~Emptying
  BY <1>1, <1>3 DEF Control, SemInv, EmptiedAlone
<1>6. pc'[Trucker] \notin Closing
  BY <1>1, <1>2, <1>5 DEF Closing, Unlinking, Critical
<1>7. SemInv'
  BY <1>3, <1>4, <1>6 DEF SemInv
<1>8. pc[Trucker] # "new" /\ pc'[Trucker] # "new"
  BY <1>1, <1>2 DEF Control, Untouched, Critical
<1>9. Untouched' /\ SegmentKept'
  BY <1>2, <1>8 DEF Control, Untouched, SegmentKept, Truncated
<1>10. EmptiedAlone'
  <2>1. pc[Trucker] # "endload"
    BY <1>5 DEF Control, EmptiedAlone
  <2>2. pc'[Trucker] # "endload"
    BY <1>1, <1>2, <2>1
  <2> QED
    BY <1>2, <1>5, <2>2 DEF EmptiedAlone, Emptying
<1> QED
  BY <1>7, <1>9, <1>10 DEF Control

(* Leaving through sem_post opens a semaphore that nobody else has. *)
LEMMA ReleasesControl ==
  ASSUME Control, TypeOK',
         NEW p \in Process, NEW here \in Critical \ {"end", "endload"},
         NEW next \in Location \ (Critical \cup Closing \cup {"new"}),
         releaseSem(p, here, next)
  PROVE  Control'
<1>1. /\ pc \in [Process -> Location] /\ Trucker \in Process /\ Loader \subseteq Process
      /\ sem \in Nat
  BY DEF Control, SemInv, TypeOK, DataTypeOK
<1>2. /\ pc[p] = here /\ sem' = sem + 1 /\ pc' = [pc EXCEPT ![p] = next] /\ InCS(p)
      /\ UNCHANGED <<end_i, lineSegment, lineSize, ipc>>
  BY DEF releaseSem, Goto, sizes, truckVars, InCS
<1>3. sem = 0 /\ sem' = 1
  BY <1>1, <1>2 DEF Control, SemInv
<1>4. \A q \in Process : ~InCS(q)'
  BY <1>1, <1>2 DEF Control, SemInv, InCS
<1>5. pc[Trucker] \notin Closing /\ pc'[Trucker] \notin Closing
  BY <1>1, <1>2 DEF Control, SemInv
<1>6. SemInv'
  BY <1>3, <1>4, <1>5 DEF SemInv
<1>7. pc[Trucker] # "new" /\ pc'[Trucker] # "new"
  BY <1>1, <1>2 DEF Control, Untouched, Critical
<1>8. Untouched' /\ SegmentKept'
  BY <1>2, <1>7 DEF Control, Untouched, SegmentKept, Truncated
<1>9. ~Emptying
  <2>1. p \in Loader => ~Emptying
    BY <1>2 DEF Control, EmptiedAlone
  <2>2. p = Trucker => ~Emptying
    BY <1>2 DEF Control, EmptiedAlone, Critical, Closing, Unlinking
  <2> QED
    BY <2>1, <2>2
<1>10. EmptiedAlone'
  <2>1. pc'[Trucker] # "endload"
    BY <1>1, <1>2, <1>9 DEF Control, EmptiedAlone, Critical
  <2> QED
    BY <1>2, <1>9, <2>1 DEF EmptiedAlone, Emptying
<1> QED
  BY <1>6, <1>8, <1>10 DEF Control

(* A process that dies in the critical section leaves the semaphore taken. *)
LEMMA DiesControl ==
  ASSUME Control, TypeOK', NEW p \in Process, InCS(p), pc' = [pc EXCEPT ![p] = "failed"],
         UNCHANGED <<sem, end_i, lineSegment, lineSize>>
  PROVE  Control'
<1>1. /\ pc \in [Process -> Location] /\ Trucker \in Process /\ Loader \subseteq Process
      /\ sem \in Nat
  BY DEF Control, SemInv, TypeOK, DataTypeOK
<1>2. sem = 0 /\ pc[Trucker] \notin Closing
  BY <1>1 DEF Control, SemInv
<1>3. \A q \in Process : ~InCS(q)'
  BY <1>1 DEF Control, SemInv, InCS, Critical
<1>4. pc'[Trucker] = pc[Trucker] \/ (p = Trucker /\ pc'[Trucker] = "failed")
  BY <1>1
<1>5. SemInv'
  BY <1>2, <1>3, <1>4 DEF SemInv, Closing, Unlinking
<1>6. pc[Trucker] # "new"
  BY <1>1 DEF Control, Untouched, InCS, Critical
<1>7. Untouched' /\ SegmentKept'
  BY <1>4, <1>6 DEF Control, Untouched, SegmentKept, Truncated
<1>8. EmptiedAlone'
  BY <1>2, <1>3, <1>4 DEF Control, EmptiedAlone, Emptying
<1> QED
  BY <1>5, <1>7, <1>8 DEF Control

(* A crew that sets up leaves the semaphore alone. *)
LEMMA CrewControl ==
  ASSUME Control, TypeOK', NEW v \in Invocation,
         NEW there \in SettingUp \cup {"loop", "failed"}, CrewGoto(v, there),
         \A l \in crew[v] : pc[l] \in {"new"} \cup SettingUp,
         UNCHANGED <<sem, end_i>>
  PROVE  SemInv' /\ EmptiedAlone' /\ pc'[Trucker] = pc[Trucker]
<1>1. /\ pc \in [Process -> Location] /\ Trucker \in Process /\ Loader \subseteq Process
      /\ there \in Location
  BY DEF Control, SemInv, TypeOK, Location, SettingUp, Critical, Ended
<1>2. /\ pc'[Trucker] = pc[Trucker]
      /\ \A l \in Loader : pc'[l] = IF l \in crew[v] THEN there ELSE pc[l]
  BY <1>1, CrewGoes DEF Control, SemInv
<1>3. \A q \in Process : InCS(q)' <=> InCS(q)
  <2> SUFFICES ASSUME NEW q \in Process PROVE InCS(q)' <=> InCS(q)
    OBVIOUS
  <2>1. CASE q = Trucker
    BY <1>2, <2>1 DEF InCS
  <2>2. CASE q \in Loader /\ q \in crew[v]
    BY <1>2, <2>2 DEF InCS, Critical, SettingUp
  <2>3. CASE q \in Loader /\ q \notin crew[v]
    BY <1>2, <2>3 DEF InCS
  <2> QED
    BY <2>1, <2>2, <2>3
<1> QED
  BY <1>1, <1>2, <1>3 DEF Control, SemInv, EmptiedAlone, Emptying

(* Every step of the trucker keeps mutual exclusion. *)
LEMMA TruckerControl ==
  ASSUME Control, TypeOK', TruckerNext
  PROVE  Control'
<1>0. /\ Trucker \in Process /\ Loader \subseteq Process /\ pc \in [Process -> Location]
      /\ DataTypeOK
  BY DEF Control, SemInv, TypeOK
<1> USE DEF Goto, Ended, truckVars, sizes
<1>1. CASE TruckerCreate
  <2>1. /\ pc[Trucker] = "new" /\ pc'[Trucker] = "bootwait" /\ sem' = 1
        /\ lineSegment' = K /\ end_i' = end_i
        /\ \A l \in Loader : pc'[l] = pc[l] /\ pc[l] \in {"new", "failed"}
    BY <1>0, <1>1 DEF TruckerCreate, Control, Untouched
  <2>2. \A q \in Process : ~InCS(q)'
    BY <2>1 DEF InCS, Critical
  <2>3. SemInv'
    BY <2>1, <2>2 DEF SemInv, Closing, Unlinking
  <2>4. ~Emptying
    BY <2>1 DEF Control, EmptiedAlone, Closing, Unlinking
  <2> QED
    BY <2>1, <2>3, <2>4 DEF Control, Untouched, SegmentKept, EmptiedAlone, Emptying
<1>2. CASE TruckerBootBlock \/ TruckerBlock \/ TruckerEndBlock
  BY <1>0, <1>2, BlocksControl DEF TruckerBootBlock, TruckerBlock, TruckerEndBlock, Critical
<1>3. CASE TruckerBoot \/ TruckerBootLine
  <2>1. ~Emptying
    BY <1>3 DEF TruckerBoot, TruckerBootLine, Control, EmptiedAlone, Closing, Unlinking
  <2> QED
    BY <1>0, <1>3, <2>1, StaysControl DEF TruckerBoot, TruckerBootLine, InCS, Critical,
       Closing, Unlinking, Location, SettingUp
<1>4. CASE TruckerBootRelease \/ TruckerRelease
  BY <1>0, <1>4, ReleasesControl DEF TruckerBootRelease, TruckerRelease, Critical, Closing,
     Unlinking, Location, SettingUp
<1>5. CASE GetParcel \/ MoveEmpty
  <2>1. ~Emptying
    BY <1>5 DEF GetParcel, MoveEmpty, Control, EmptiedAlone, Closing, Unlinking
  <2> QED
    BY <1>0, <1>5, <2>1, StaysControl DEF GetParcel, MoveEmpty, InCS, Critical, Closing,
       Unlinking, Location, SettingUp
<1>6. CASE TruckerLeave
  <2>1. ~Emptying
    BY <1>6 DEF TruckerLeave, Control, EmptiedAlone, Closing, Unlinking
  <2> QED
    BY <1>0, <1>6, <2>1, StaysControl DEF TruckerLeave, InCS, Critical, Closing, Unlinking,
       Location, SettingUp
<1>7. CASE TruckerEndMove
  <2>1. /\ pc[Trucker] = "end" /\ pc' = [pc EXCEPT ![Trucker] = "endload"] /\ end_i' > 0
        /\ UNCHANGED <<sem, lineSegment, lineSize>>
    BY <1>0, <1>7 DEF TruckerEndMove, EndMove, DataTypeOK
  <2>2. \A q \in Process : InCS(q)' <=> InCS(q)
    BY <1>0, <2>1 DEF InCS, Critical
  <2>3. sem = 0 /\ \A l \in Loader : ~InCS(l)
    BY <1>0, <2>1 DEF Control, SemInv, InCS, Critical, DataTypeOK
  <2>4. pc'[Trucker] = "endload"
    BY <1>0, <2>1
  <2>5. SemInv'
    BY <2>1, <2>2, <2>4 DEF Control, SemInv, Closing, Unlinking
  <2>6. EmptiedAlone'
    BY <2>1, <2>2, <2>3, <2>4 DEF EmptiedAlone, Emptying
  <2>7. Untouched' /\ SegmentKept'
    BY <2>1, <2>4 DEF Control, Untouched, SegmentKept, Truncated
  <2> QED
    BY <2>5, <2>6, <2>7 DEF Control
<1>8. CASE TruckerEndLoad
  <2>1. end_i' = end_i /\ pc' = [pc EXCEPT ![Trucker] = "end"] /\ pc[Trucker] = "endload"
    BY <1>8 DEF TruckerEndLoad
  <2> QED
    BY <1>0, <1>8, <2>1, StaysControl DEF TruckerEndLoad, InCS, Critical, Closing, Unlinking,
       Location, SettingUp
<1>11. CASE TruckerCrash
  BY <1>0, <1>11, DiesControl DEF TruckerCrash, InCS, Critical
<1>9. CASE TruckerMode
  <2>1. /\ pc[Trucker] = "end" /\ pc' = [pc EXCEPT ![Trucker] = "waitloaders"]
        /\ UNCHANGED <<sem, end_i, lineSegment, lineSize>>
    BY <1>0, <1>9 DEF TruckerMode
  <2>2. sem = 0 /\ \A l \in Loader : ~InCS(l)
    BY <1>0, <2>1 DEF Control, SemInv, InCS, Critical, DataTypeOK
  <2>3. pc'[Trucker] = "waitloaders" /\ \A q \in Process : ~InCS(q)'
    BY <1>0, <2>1, <2>2 DEF InCS, Critical
  <2>4. SemInv'
    BY <2>1, <2>2, <2>3 DEF SemInv
  <2>5. EmptiedAlone'
    BY <2>1, <2>2, <2>3 DEF EmptiedAlone, Emptying, Closing, Unlinking
  <2>6. Untouched' /\ SegmentKept'
    BY <2>1, <2>3 DEF Control, Untouched, SegmentKept, Truncated
  <2> QED
    BY <2>4, <2>5, <2>6 DEF Control
<1>10. CASE TruckerUnlinkSem \/ TruckerUnlinkLine \/ TruckerUnlinkParams
  BY <1>0, <1>10, StaysControl DEF TruckerUnlinkSem, TruckerUnlinkLine, TruckerUnlinkParams,
     InCS, Critical, Closing, Unlinking, Location, SettingUp
<1>12. CASE TruckerReads \/ TruckerCompares
  <2>1. /\ pc[Trucker] \in {"waitloaders", "readended", "readcount"}
        /\ \E there \in {"waitloaders", "readended", "readcount", "rmsem"} :
             pc' = [pc EXCEPT ![Trucker] = there]
        /\ UNCHANGED <<ipc, sem, end_i, lineSegment, lineSize>>
    BY <1>12 DEF TruckerReads, TruckerCompares
  <2> QED
    BY <1>0, <2>1, StaysControl DEF InCS, Critical, Closing, Unlinking, Location, SettingUp
<1> QED
  BY <1>1, <1>2, <1>3, <1>4, <1>5, <1>6, <1>7, <1>8, <1>9, <1>10,
     <1>11, <1>12 DEF TruckerNext

(* A loader maps either the whole belt or nothing. *)
LEMMA LoaderLineSize ==
  ASSUME TypeOK, Sizes, NEW v \in Invocation, LoaderLine(v)
  PROVE  lineSegment' = lineSegment \/ lineSegment' = K \/ Truncated'
<1> SUFFICES ASSUME "line" \in ipc PROVE lineSegment' = K \/ Truncated'
  BY DEF LoaderLine
<1> DEFINE l == CHOOSE m \in crew[v] : TRUE
<1>1. l \in crew[v] /\ l \in Loader /\ pc[l] = "counted"
  BY CrewType DEF LoaderLine, CrewAt, TypeOK
<1>2. lineSize[l] \in {0, K} /\ lineSegment' = lineSize[l] /\ lineSize' = lineSize
  BY <1>1 DEF Sizes, TypeOK, LoaderLine
<1> HIDE DEF l
<1> QED
  BY <1>1, <1>2 DEF Truncated

(* Setting up a crew keeps mutual exclusion. *)
LEMMA InvocationControl ==
  ASSUME Control, Sizes, TypeOK', NEW v \in Invocation, InvocationNext(v)
  PROVE  Control'
<1>0. TypeOK /\ crew[v] \subseteq Loader
  BY CrewType DEF Control, SemInv, TypeOK
<1>1. UNCHANGED <<sem, end_i, ipc>>
  BY DEF InvocationNext, getSemaphore, LoaderParams, NumberLoaders, ResetEndWord, LoaderLine,
     truckVars
<1>2. PICK there \in SettingUp \cup {"loop", "failed"} : CrewGoto(v, there)
  BY DEF InvocationNext, getSemaphore, LoaderParams, NumberLoaders, ResetEndWord, LoaderLine,
     SettingUp
<1>3. /\ crew[v] # {} /\ \A l \in crew[v] : pc[l] \in {"new"} \cup SettingUp
  BY DEF InvocationNext, getSemaphore, LoaderParams, NumberLoaders, ResetEndWord, LoaderLine,
     CrewAt, SettingUp
<1>4. SemInv' /\ EmptiedAlone' /\ pc'[Trucker] = pc[Trucker]
  BY <1>1, <1>2, <1>3, CrewControl
<1>5. \A l \in Loader : pc'[l] = IF l \in crew[v] THEN there ELSE pc[l]
  BY <1>0, <1>2, CrewGoes DEF Location, SettingUp, Critical, Ended
<1>6. CASE getSemaphore(v)
  <2>1. UNCHANGED <<lineSegment, lineSize>>
    BY <1>6 DEF getSemaphore, sizes
  <2>2. SegmentKept'
    BY <1>4, <2>1 DEF Control, SegmentKept, Truncated
  <2>3. pc[Trucker] = "new" => CrewGoto(v, "failed")
    BY <1>6 DEF getSemaphore, Control, Untouched
  <2>4. Untouched'
    <3> SUFFICES ASSUME pc[Trucker] = "new" PROVE Untouched'
      BY <1>4 DEF Untouched
    <3>1. \A l \in Loader : pc'[l] = IF l \in crew[v] THEN "failed" ELSE pc[l]
      BY <1>0, <2>3, CrewGoes DEF Location, SettingUp, Ended
    <3> QED
      BY <1>1, <3>1 DEF Control, Untouched
  <2> QED
    BY <1>4, <2>2, <2>4 DEF Control
<1>7. CASE LoaderParams(v) \/ NumberLoaders(v) \/ ResetEndWord(v) \/ LoaderLine(v)
  <2>1. pc[Trucker] # "new"
    <3>1. \A l \in crew[v] : pc[l] \in SettingUp
      BY <1>7 DEF LoaderParams, NumberLoaders, ResetEndWord, LoaderLine, CrewAt, SettingUp
    <3> QED
      BY <1>0, <1>3, <3>1 DEF Control, Untouched, SettingUp
  <2>2. lineSegment' = lineSegment \/ lineSegment' = K \/ Truncated'
    BY <1>0, <1>7, LoaderLineSize DEF LoaderParams, NumberLoaders, ResetEndWord, sizes
  <2>3. Truncated => Truncated'
    BY <1>0, TruncatedStays DEF Next
  <2> QED
    BY <1>4, <2>1, <2>2, <2>3 DEF Control, SegmentKept, Untouched
<1> QED
  BY <1>6, <1>7 DEF InvocationNext

(* Every step of a loader keeps mutual exclusion, the crash included: the *)
(* semaphore stays taken.                                                 *)
LEMMA LoaderControl ==
  ASSUME Control, TypeOK', NEW l \in Loader, LoaderNext(l)
  PROVE  Control'
<1>0. l \in Process /\ l # Trucker
  OBVIOUS
<1> USE DEF Goto, Ended, truckVars, sizes
<1>1. CASE LoaderBlock(l)
  BY <1>0, <1>1, BlocksControl DEF LoaderBlock, Critical
<1>2. CASE LoaderRelease(l)
  BY <1>0, <1>2, ReleasesControl DEF LoaderRelease, Critical, Closing, Unlinking, Location,
     SettingUp
<1>3. CASE PushParcel(l)
  BY <1>0, <1>3, StaysControl DEF PushParcel, InCS, Critical, Location, SettingUp
<1>4. CASE NoPlace(l)
  BY <1>0, <1>4, StaysControl DEF NoPlace, InCS, Critical, Location, SettingUp
<1>5. CASE LoaderLoop(l) \/ LoaderEndRead(l) \/ LoaderEndWrite(l)
  BY <1>0, <1>5, StaysControl DEF LoaderLoop, LoaderEndRead, LoaderEndWrite, InCS, Critical,
     Location, SettingUp
<1>6. CASE LoaderCrash(l)
  BY <1>0, <1>6, DiesControl DEF LoaderCrash, InCS, Critical
<1> QED
  BY <1>1, <1>2, <1>3, <1>4, <1>5, <1>6 DEF LoaderNext

(* The semaphore guards the belt, a loader that dies at the belt included; *)
(* once the trucker has emptied it nobody gets there again, and the        *)
(* segment keeps its size unless a loader came too early.                  *)
THEOREM MutualExclusion == Spec => []Control
<1>1. Init => Control
  BY EmptyLineType DEF Init, ConveyorInit, Control, SemInv, TypeOK, DataTypeOK, InCS,
     Critical, Closing, Unlinking, Untouched, SegmentKept, EmptiedAlone, Emptying, Location,
     SettingUp, IPCObject
<1>2. TypeOK' /\ Sizes /\ Control /\ [Next]_vars => Control'
  <2> SUFFICES ASSUME TypeOK', Sizes, Control, [Next]_vars PROVE Control'
    OBVIOUS
  <2>1. CASE UNCHANGED vars
    BY <2>1 DEF vars, Control, SemInv, InCS, Untouched, SegmentKept, Truncated,
       EmptiedAlone, Emptying
  <2>2. ASSUME NEW p \in Interruptible, handleSIGINT(p) PROVE Control'
    <3>1. p \in Process
      OBVIOUS
    <3>2. CASE UNCHANGED pc
      BY <2>2, <3>2 DEF handleSIGINT, sizes, truckVars, Control, SemInv, InCS, Untouched,
         SegmentKept, Truncated, EmptiedAlone, Emptying
    <3>3. CASE pc[p] \in {"bootwait", "wait", "endwait"} /\ Goto(p, "failed")
      BY <2>2, <3>1, <3>3, StaysControl DEF handleSIGINT, Goto, sizes, truckVars, InCS,
         Critical, Closing, Unlinking, Location, SettingUp, Ended
    <3> QED
      BY <2>2, <3>2, <3>3 DEF handleSIGINT
  <2> QED
    BY <2>1, <2>2, TruckerControl, InvocationControl, LoaderControl
       DEF Next, Terminated
<1> QED
  BY <1>1, <1>2, TypeCorrect, PTL DEF Spec

-----------------------------------------------------------------------------
(* The belt and the truck, as long as no loader has truncated the belt. *)

Whole == TypeOK /\ Control /\ BeltInv /\ BootLine

(* The belt keeps its invariants and the queue takes a step or none. *)
StaysWhole == /\ BeltInv' /\ BootLine'
              /\ Fifo!Next \/ UNCHANGED Fifo!vars

(* A step that leaves the belt and the truck alone keeps them. *)
LEMMA BeltUntouched ==
  ASSUME Whole, UNCHANGED <<beltVars, truckVars>>,
         \/ pc'[Trucker] = pc[Trucker]
         \/ pc'[Trucker] \notin {"boot", "bootline", "endload", "new", "bootwait"}
              /\ pc[Trucker] \notin {"endload", "release", "leave"}
         \/ pc[Trucker] = "release" /\ pc'[Trucker] = "leave"
         \/ pc[Trucker] = "bootwait" /\ pc'[Trucker] = "boot"
         \/ pc[Trucker] = "new" /\ pc'[Trucker] = "bootwait"
  PROVE  StaysWhole
<1>1. BeltInv'
  BY BeltStays DEF Whole, beltVars, truckVars
<1>2. BootLine'
  BY DEF Whole, BootLine, beltVars, truckVars, Emptying
<1>3. UNCHANGED Fifo!vars
  BY SeesNothing DEF beltVars, truckVars
<1> QED
  BY <1>1, <1>2, <1>3 DEF StaysWhole

(* The trucker's steps keep the belt. *)
LEMMA TruckerKeepsBelt ==
  ASSUME Whole, TypeOK', ~Truncated, TruckerNext
  PROVE  StaysWhole
<1>0. /\ Trucker \in Process /\ pc \in [Process -> Location] /\ DataTypeOK /\ DataTypeOK'
      /\ BeltInv /\ Control
  BY DEF Whole, TypeOK
<1>1. CASE TruckerCreate \/ TruckerBootBlock \/ TruckerBootRelease
  BY <1>0, <1>1, BeltUntouched DEF TruckerCreate, TruckerBootBlock, TruckerBootRelease,
     blockSem, releaseSem, Goto
<1>2. CASE TruckerBlock \/ TruckerEndBlock \/ TruckerRelease
  BY <1>0, <1>2, BeltUntouched DEF TruckerBlock, TruckerEndBlock, TruckerRelease,
     blockSem, releaseSem, Goto
<1>3. CASE \/ TruckerMode \/ TruckerReads \/ TruckerCompares
          \/ TruckerUnlinkSem \/ TruckerUnlinkLine \/ TruckerUnlinkParams
  <2>1. /\ UNCHANGED <<beltVars, truckVars>>
        /\ pc[Trucker] \notin {"endload", "release", "leave"}
        /\ \E there \in Closing : pc' = [pc EXCEPT ![Trucker] = there]
    BY <1>3 DEF TruckerMode, TruckerReads, TruckerCompares, TruckerUnlinkSem,
       TruckerUnlinkLine, TruckerUnlinkParams, Goto, Closing, Unlinking
  <2> QED
    BY <1>0, <2>1, BeltUntouched DEF Closing, Unlinking
<1>4. CASE TruckerBoot
  <2>1. /\ ~Emptying /\ Occupied(line) = {} /\ line' = line /\ freePlaces' = K
        /\ freeWeight' = M /\ UNCHANGED <<placed, truckVars>> /\ pc'[Trucker] = "bootline"
    BY <1>0, <1>4 DEF TruckerBoot, BeltInv, BootInv, Control, EmptiedAlone, Closing,
       Unlinking, Goto
  <2>2. PlacesInv' /\ WeightInv' /\ OrderInv' /\ StampInv' /\ OnBelt(line') = OnBelt(line)
    BY <1>0, <2>1, SetUpPreserves DEF DataTypeOK, truckVars
  <2>3. BootInv' /\ TruckInv' /\ TruckControl' /\ BootLine'
    <3>1. BootInv' /\ BootLine'
      BY <2>1 DEF BootInv, BootLine, Emptying, truckVars
    <3>2. pc[Trucker] = "boot" /\ UNCHANGED <<end_i, onTruck, truckPlacesCount>>
      BY <1>4, <2>1 DEF TruckerBoot, truckVars
    <3> QED
      BY <1>0, <3>1, <3>2 DEF BeltInv, TruckInv, TruckControl, Emptying
  <2> QED
    BY <2>1, <2>2, <2>3, SameBeltIsStutter DEF BeltInv, StaysWhole, truckVars
<1>5. CASE TruckerBootLine
  <2>1. /\ ~Emptying /\ Occupied(line) = {} /\ freePlaces = K /\ freeWeight = M
        /\ line' = EmptyLine /\ pc'[Trucker] = "bootrelease"
        /\ UNCHANGED <<freePlaces, freeWeight, placed, truckVars>>
    BY <1>0, <1>5 DEF TruckerBootLine, Whole, BootLine, Goto
  <2>2. PlacesInv' /\ WeightInv' /\ OrderInv' /\ StampInv' /\ OnBelt(line') = OnBelt(line)
    BY <2>1, SetUpPreserves, EmptyLineType, OccupiedEmpty DEF truckVars
  <2>3. BootInv' /\ TruckInv' /\ TruckControl' /\ BootLine'
    BY <1>0, <1>5, <2>1 DEF TruckerBootLine, BeltInv, BootInv, TruckInv, TruckControl,
       BootLine, Emptying, truckVars
  <2> QED
    BY <2>1, <2>2, <2>3, SameBeltIsStutter DEF BeltInv, StaysWhole, truckVars
<1>6. CASE GetParcel
  <2>1. ~Emptying /\ pc'[Trucker] = "release" /\ pc[Trucker] = "cs"
    BY <1>0, <1>6 DEF GetParcel, Control, EmptiedAlone, Closing, Unlinking, Goto
  <2>2. PlacesInv' /\ WeightInv' /\ OrderInv' /\ StampInv'
    BY <1>0, <1>6, TakePreserves DEF GetParcel
  <2>3. BootInv' /\ TruckInv' /\ TruckControl' /\ BootLine'
    BY <1>0, <1>6, <2>1, SMTT(30) DEF GetParcel, Take, BeltInv, BootInv, TruckInv, TruckControl,
       BootLine, Emptying, DataTypeOK
  <2>4. Fifo!Next
    BY <1>0, <1>6, <2>1, TakeIsLoad DEF GetParcel, Fifo!Next
  <2> QED
    BY <2>2, <2>3, <2>4 DEF BeltInv, StaysWhole
<1>7. CASE MoveEmpty
  <2>1. ~Emptying /\ pc'[Trucker] = "release" /\ UNCHANGED truckVars
    BY <1>0, <1>7 DEF MoveEmpty, Control, EmptiedAlone, Closing, Unlinking, Goto
  <2>2. PlacesInv' /\ WeightInv' /\ OrderInv' /\ StampInv' /\ OnBelt(line') = OnBelt(line)
    BY <1>0, <1>7, MoveEmptyPreserves DEF MoveEmpty, truckVars
  <2>3. BootInv' /\ TruckInv' /\ TruckControl' /\ BootLine'
    BY <1>0, <1>7, <2>1 DEF MoveEmpty, BeltInv, BootInv, TruckInv, TruckControl, BootLine,
       Emptying, truckVars
  <2>4. UNCHANGED Fifo!vars
    BY <1>7, <2>1, <2>2, SameBeltIsStutter DEF MoveEmpty, truckVars
  <2> QED
    BY <2>2, <2>3, <2>4 DEF BeltInv, StaysWhole
<1>8. CASE TruckerLeave
  <2>1. /\ UNCHANGED <<beltVars, end_i, loaded>> /\ pc[Trucker] = "leave"
        /\ pc'[Trucker] \in {"endwait", "wait"}
    BY <1>0, <1>8 DEF TruckerLeave, Goto
  <2>2. ~Emptying => /\ onTruck' = truckPlacesCount' /\ truckPlacesCount' \in Nat
                     /\ truckPlacesCount' < Capacity
    BY <1>0, <1>8, SMTT(30) DEF TruckerLeave, LeavesIfFull, BeltInv, TruckInv, TruckControl,
       DataTypeOK
  <2>3. PlacesInv' /\ WeightInv' /\ OrderInv' /\ StampInv' /\ BootInv' /\ BootLine'
    BY <1>0, <2>1 DEF BeltInv, PlacesInv, WeightInv, OrderInv, StampInv, BootInv, Emptying,
       NotSetUp, BootLine, beltVars
  <2>4. TruckInv' /\ TruckControl'
    BY <2>1, <2>2 DEF TruckInv, TruckControl, Emptying
  <2>5. UNCHANGED Fifo!vars
    BY <2>1, SeesNothing DEF beltVars
  <2> QED
    BY <2>3, <2>4, <2>5 DEF BeltInv, StaysWhole
<1>9. CASE TruckerEndMove
  <2>1. OrderInv' /\ StampInv'
    BY <1>0, <1>9, MovePreserves DEF TruckerEndMove, EndMove, BeltInv
  <2>2. end_i' > 0 /\ pc[Trucker] = "end" /\ pc'[Trucker] = "endload"
    <3>1. end_i \in 0 .. K /\ end_i' = end_i + 1
      BY <1>0, <1>9 DEF TruckerEndMove, EndMove, DataTypeOK
    <3>2. pc[Trucker] = "end" /\ pc'[Trucker] = "endload"
      BY <1>0, <1>9 DEF TruckerEndMove, Goto
    <3> QED
      BY <3>1, <3>2
  <2>3. BeltInv' /\ BootLine'
    BY <2>1, <2>2 DEF BeltInv, PlacesInv, WeightInv, BootInv, TruckInv, TruckControl,
       BootLine, Emptying
  <2>4. Fifo!Next \/ UNCHANGED Fifo!vars
    BY <1>0, <1>9, <2>2, EndMoveIsClose DEF TruckerEndMove, Fifo!Next
  <2> QED
    BY <2>3, <2>4 DEF StaysWhole
<1>10. CASE TruckerEndLoad
  <2>1. /\ Emptying /\ Emptying' /\ pc[Trucker] = "endload" /\ pc'[Trucker] = "end"
        /\ UNCHANGED <<beltVars, end_i>>
    BY <1>0, <1>10 DEF TruckerEndLoad, Control, EmptiedAlone, Emptying, Goto
  <2>2. BeltInv' /\ BootLine'
    BY <1>0, <2>1 DEF BeltInv, PlacesInv, WeightInv, OrderInv, StampInv, BootInv, TruckInv,
       TruckControl, BootLine, beltVars
  <2>3. Fifo!Next \/ UNCHANGED Fifo!vars
    BY <1>0, <1>10, <2>1, EndLoadIsLoad DEF TruckerEndLoad, beltVars, Fifo!Next
  <2> QED
    BY <2>2, <2>3 DEF StaysWhole
(* The trucker dies only at a belt that was truncated. *)
<1>11. CASE TruckerCrash
  BY <1>0, <1>11 DEF TruckerCrash, Control, SegmentKept
<1> QED
  BY <1>1, <1>2, <1>3, <1>4, <1>5, <1>6, <1>7, <1>8, <1>9, <1>10, <1>11 DEF TruckerNext

(* A crew that sets up leaves a belt that it does not truncate. *)
LEMMA InvocationKeepsBelt ==
  ASSUME Whole, Sizes, ~Truncated, NEW v \in Invocation, InvocationNext(v)
  PROVE  StaysWhole
<1>0. TypeOK /\ crew[v] \subseteq Loader
  BY CrewType DEF Whole, TypeOK
<1>1. PICK there \in SettingUp \cup {"loop", "failed"} : CrewGoto(v, there)
  BY DEF InvocationNext, getSemaphore, LoaderParams, NumberLoaders, ResetEndWord, LoaderLine,
     SettingUp
<1>2. pc'[Trucker] = pc[Trucker]
  BY <1>0, <1>1, CrewGoes DEF Location, SettingUp, Critical, Ended
<1>3. UNCHANGED <<freePlaces, freeWeight, placed, truckVars>>
  BY DEF InvocationNext, getSemaphore, LoaderParams, NumberLoaders, ResetEndWord, LoaderLine,
     beltVars
<1>4. line' = line
  <2>1. CASE getSemaphore(v) \/ LoaderParams(v) \/ NumberLoaders(v) \/ ResetEndWord(v)
    BY <2>1 DEF getSemaphore, LoaderParams, NumberLoaders, ResetEndWord, beltVars
  <2>2. CASE LoaderLine(v) /\ "line" \in ipc
    <3> DEFINE l == CHOOSE m \in crew[v] : TRUE
    <3>1. l \in Loader
      BY <1>0, <2>2 DEF LoaderLine, CrewAt
    <3>2. line' = IF lineSize[l] = 0 THEN EmptyLine ELSE line
      BY <2>2 DEF LoaderLine
    <3> HIDE DEF l
    <3> QED
      BY <3>1, <3>2 DEF Truncated
  <2>3. CASE LoaderLine(v) /\ "line" \notin ipc
    BY <2>3 DEF LoaderLine
  <2> QED
    BY <2>1, <2>2, <2>3 DEF InvocationNext
<1> QED
  BY <1>2, <1>3, <1>4, BeltUntouched DEF beltVars

(* The loaders' steps keep the belt. *)
LEMMA LoaderKeepsBelt ==
  ASSUME Whole, NEW l \in Loader, LoaderNext(l)
  PROVE  StaysWhole
<1>0. /\ l \in Process /\ l # Trucker /\ Trucker \in Process
      /\ pc \in [Process -> Location] /\ DataTypeOK /\ BeltInv /\ Control
  BY DEF Whole, TypeOK
<1>1. CASE LoaderLoop(l) \/ LoaderBlock(l) \/ NoPlace(l) \/ LoaderCrash(l) \/ LoaderRelease(l)
  <2>1. pc'[Trucker] = pc[Trucker]
    BY <1>0, <1>1 DEF LoaderLoop, LoaderBlock, NoPlace, LoaderCrash, LoaderRelease, blockSem,
       releaseSem, Goto
  <2> QED
    BY <1>1, <2>1, BeltUntouched DEF LoaderLoop, LoaderBlock, NoPlace, LoaderCrash,
       LoaderRelease, blockSem, releaseSem
<1>2. CASE LoaderEndRead(l) \/ LoaderEndWrite(l)
  <2>1. pc'[Trucker] = pc[Trucker]
    BY <1>0, <1>2 DEF LoaderEndRead, LoaderEndWrite, Goto
  <2> QED
    BY <1>2, <2>1, BeltUntouched DEF LoaderEndRead, LoaderEndWrite
(* The loader holds the semaphore, so the trucker is not at the belt. *)
<1>3. CASE PushParcel(l)
  <2>1. /\ freePlaces > 0 /\ UNCHANGED <<truckPlacesCount, onTruck, end_i>>
        /\ pc'[Trucker] = pc[Trucker]
    BY <1>0, <1>3 DEF PushParcel, CanPush, Goto, truckVars
  <2>2. InCS(l) /\ ~InCS(Trucker) /\ ~Emptying
    BY <1>0, <1>3 DEF PushParcel, InCS, Critical, Control, SemInv, EmptiedAlone
  <2>3. PlacesInv' /\ WeightInv' /\ OrderInv' /\ StampInv'
    BY <1>0, <1>3, <2>1, PushPreserves DEF PushParcel
  <2>4. BootInv' /\ TruckInv' /\ TruckControl'
    BY <1>0, <2>1 DEF BeltInv, BootInv, TruckInv, TruckControl, Emptying, NotSetUp
  <2>5. BootLine'
    BY <2>1, <2>2 DEF BootLine, InCS, Critical
  <2>6. Fifo!Next
    BY <1>0, <1>3, <2>2, PushIsPut DEF PushParcel, truckVars, Fifo!Next
  <2> QED
    BY <2>3, <2>4, <2>5, <2>6 DEF BeltInv, StaysWhole
<1> QED
  BY <1>1, <1>2, <1>3 DEF LoaderNext

(* Every step keeps a belt that was not truncated. *)
LEMMA NextKeepsBelt ==
  ASSUME Whole, Sizes, TypeOK', ~Truncated, [Next]_vars
  PROVE  StaysWhole
<1>1. CASE UNCHANGED vars
  BY <1>1, BeltUntouched DEF vars, beltVars, truckVars
<1>2. ASSUME NEW p \in Interruptible, handleSIGINT(p) PROVE StaysWhole
  <2>1. p \in Process /\ pc \in [Process -> Location] /\ Trucker \in Process
    BY DEF Whole, TypeOK
  <2>2. \/ pc'[Trucker] = pc[Trucker]
        \/ pc'[Trucker] = "failed" /\ pc[Trucker] \in {"bootwait", "wait", "endwait"}
    BY <1>2, <2>1 DEF handleSIGINT, Goto
  <2> QED
    BY <1>2, <2>2, BeltUntouched DEF handleSIGINT
<1> QED
  BY <1>1, <1>2, TruckerKeepsBelt, InvocationKeepsBelt, LoaderKeepsBelt
     DEF Next, Terminated

-----------------------------------------------------------------------------
(* The count of the loaders that have ended. *)

(* The loaders that have ended can be counted; when they are as many as *)
(* there are loaders, all have ended.                                   *)
LEMMA FinishedCount ==
  /\ Finished \subseteq Loader /\ Cardinality(Finished) \in Nat /\ Cardinality(Loader) \in Nat
  /\ Cardinality(Finished) >= Cardinality(Loader) => Finished = Loader
<1>1. Finished \subseteq Loader
  BY DEF Finished
<1>2. /\ IsFiniteSet(Finished) /\ Cardinality(Finished) <= Cardinality(Loader)
      /\ Cardinality(Finished) = Cardinality(Loader) => Finished = Loader
  BY <1>1, FS_Subset
<1>3. Cardinality(Finished) \in Nat /\ Cardinality(Loader) \in Nat
  BY <1>2, FS_CardinalityType
<1> QED
  BY <1>1, <1>2, <1>3

(* The crew of the only invocation that is started has all loaders. *)
LEMMA OnlyCrew ==
  ASSUME crew \in Crews, OneInvocationOnly, NEW v \in Invocation, crew[v] # {}
  PROVE  crew[v] = Loader
<1>1. UNION {crew[w] : w \in Invocation} = Loader
  OBVIOUS
<1>2. \A w \in Invocation : w # v => crew[w] = {}
  BY DEF OneInvocationOnly
<1>3. crew[v] \subseteq Loader
  BY CrewType
<1>4. \A l \in Loader : l \in crew[v]
  <2> SUFFICES ASSUME NEW l \in Loader PROVE l \in crew[v]
    OBVIOUS
  <2>1. PICK w \in Invocation : l \in crew[w]
    BY <1>1
  <2> QED
    BY <1>2, <2>1
<1> QED
  BY <1>3, <1>4

(* More loaders have ended than the trucker read loadersCount to be. *)
Counted == pc[Trucker] \in Unlinking => Cardinality(Finished) > seen.count

(* That is what UnlinksLast says: with one invocation loadersCount is read *)
(* as the number of loaders less one, or before it was written.            *)
LEMMA CountedIsEnough ==
  ASSUME TypeOK, CountInv, Counted
  PROVE  UnlinksLast
<1> SUFFICES ASSUME pc[Trucker] \in Unlinking, OneInvocationOnly, seen.count # 0
             PROVE  \A l \in Loader : pc[l] = "done"
  BY DEF UnlinksLast, Counted
<1>1. seen.count = Cardinality(Loader) - 1 /\ Cardinality(Finished) > seen.count
  BY DEF CountInv, Counted
<1>2. Finished = Loader
  BY <1>1, FinishedCount
<1> QED
  BY <1>2 DEF Finished

(* A step in which nobody counts itself out and the trucker does not look. *)
LEMMA CountStays ==
  ASSUME CountInv, Counted,
         \A l \in Loader : /\ pc'[l] = "done" <=> pc[l] = "done"
                           /\ pc'[l] = "endwrite" => pc[l] = "endwrite",
         pc'[Trucker] \in Unlinking => pc[Trucker] \in Unlinking,
         \/ loadersCount' = loadersCount
         \/ OneInvocationOnly => loadersCount' = Cardinality(Loader) - 1,
         loadersCountEndWord' \in {0, loadersCountEndWord},
         UNCHANGED <<crew, endWord, seen>>
  PROVE  CountInv' /\ Counted'
<1>1. Finished' = Finished
  BY DEF Finished
<1>2. OneInvocationOnly' <=> OneInvocationOnly
  BY DEF OneInvocationOnly
<1>3. loadersCountEndWord' <= Cardinality(Finished')
  BY <1>1, FinishedCount DEF CountInv
<1> QED
  BY <1>1, <1>2, <1>3 DEF CountInv, Counted

(* Nothing is counted above what has ended, in whatever order the counters *)
(* are written and read.                                                   *)
LEMMA CountStep ==
  ASSUME TypeOK, CountInv, Counted, [Next]_vars
  PROVE  CountInv' /\ Counted'
<1>0. /\ pc \in [Process -> Location] /\ Trucker \in Process /\ Loader \subseteq Process
      /\ Trucker \notin Loader
  BY DEF TypeOK
<1> USE DEF Goto, params, registers
<1>1. CASE UNCHANGED vars
  BY <1>1, CountStays DEF vars
<1>2. CASE TruckerNext /\ ~TruckerReads /\ ~TruckerCompares
  <2>1. UNCHANGED <<crew, loadersCount, loadersCountEndWord, endWord, seen>>
    BY <1>2 DEF TruckerNext, TruckerCreate, TruckerBootBlock, TruckerBoot, TruckerBootLine,
       TruckerBootRelease, TruckerBlock, GetParcel, MoveEmpty, TruckerRelease, TruckerLeave,
       TruckerEndBlock, TruckerEndMove, TruckerEndLoad, TruckerCrash, TruckerMode,
       TruckerUnlinkSem, TruckerUnlinkLine, TruckerUnlinkParams, blockSem, releaseSem
  <2>2. \E there \in Location : /\ pc' = [pc EXCEPT ![Trucker] = there]
                                /\ there \in Unlinking => pc[Trucker] \in Unlinking
    <3>1. CASE \/ TruckerCreate \/ TruckerBootBlock \/ TruckerBoot \/ TruckerBootLine
               \/ TruckerBootRelease \/ TruckerBlock \/ GetParcel \/ MoveEmpty
      <4>1. \E there \in {"bootwait", "boot", "bootline", "bootrelease", "wait", "cs",
         "release"} :
              pc' = [pc EXCEPT ![Trucker] = there]
        BY <3>1 DEF TruckerCreate, TruckerBootBlock, TruckerBoot, TruckerBootLine,
           TruckerBootRelease, TruckerBlock, GetParcel, MoveEmpty, blockSem, releaseSem
      <4> QED
        BY <4>1 DEF Unlinking, Location, SettingUp, Critical
    <3>2. CASE \/ TruckerRelease \/ TruckerLeave \/ TruckerEndBlock \/ TruckerEndMove
               \/ TruckerEndLoad \/ TruckerCrash \/ TruckerMode
      <4>1. \E there \in {"leave", "endwait", "wait", "end", "endload", "failed",
         "waitloaders"} :
              pc' = [pc EXCEPT ![Trucker] = there]
        BY <3>2 DEF TruckerRelease, TruckerLeave, TruckerEndBlock, TruckerEndMove,
           TruckerEndLoad, TruckerCrash, TruckerMode, blockSem, releaseSem
      <4> QED
        BY <4>1 DEF Unlinking, Location, SettingUp, Critical, Ended
    <3>3. CASE TruckerUnlinkSem \/ TruckerUnlinkLine \/ TruckerUnlinkParams
      <4>1. /\ pc[Trucker] \in {"rmsem", "rmline", "rmparams"}
            /\ \E there \in {"rmline", "rmparams", "done"} :
                 pc' = [pc EXCEPT ![Trucker] = there]
        BY <3>3 DEF TruckerUnlinkSem, TruckerUnlinkLine, TruckerUnlinkParams
      <4> QED
        BY <4>1 DEF Unlinking, Location, SettingUp, Ended
    <3> QED
      BY <1>2, <3>1, <3>2, <3>3 DEF TruckerNext
  <2> QED
    BY <1>0, <2>1, <2>2, CountStays
(* The trucker reads a counter: what it sees of those that have ended is   *)
(* not above their number, and it goes on only if more have ended than it  *)
(* saw there to be.                                                        *)
<1>3. CASE TruckerReads \/ TruckerCompares
  <2>1. /\ seen' \in {[seen EXCEPT !.count = loadersCount],
                      [seen EXCEPT !.ended = loadersCountEndWord]}
        /\ UNCHANGED <<crew, loadersCount, loadersCountEndWord, endWord>>
        /\ \A l \in Loader : pc'[l] = pc[l]
    BY <1>0, <1>3 DEF TruckerReads, TruckerCompares
  <2>2. /\ seen'.count \in {seen.count, loadersCount}
        /\ seen'.ended \in {seen.ended, loadersCountEndWord}
    BY <2>1 DEF TypeOK
  <2>3. Finished' = Finished /\ (OneInvocationOnly' <=> OneInvocationOnly)
    BY <2>1 DEF Finished, OneInvocationOnly
  <2>4. CountInv'
    BY <2>1, <2>2, <2>3 DEF CountInv
  <2>5. pc'[Trucker] \in Unlinking => seen'.count + 1 = seen'.ended
    BY <1>0, <1>3 DEF TruckerReads, TruckerCompares, LoadersClosed, Unlinking
  <2>6. seen'.count \in Int /\ seen'.ended \in Nat
    BY <2>2 DEF TypeOK
  <2>7. Counted'
    BY <2>3, <2>4, <2>5, <2>6, FinishedCount DEF CountInv, Counted
  <2> QED
    BY <2>4, <2>7
<1>4. ASSUME NEW v \in Invocation, InvocationNext(v) PROVE CountInv' /\ Counted'
  <2>1. crew \in Crews /\ crew[v] \subseteq Loader /\ crew[v] # {}
    BY <1>4, CrewType DEF TypeOK, InvocationNext, getSemaphore, LoaderParams, NumberLoaders,
       ResetEndWord, LoaderLine, CrewAt
  <2>2. PICK there \in SettingUp \cup {"loop", "failed"} : CrewGoto(v, there)
    BY <1>4 DEF InvocationNext, getSemaphore, LoaderParams, NumberLoaders, ResetEndWord,
       LoaderLine, SettingUp
  <2>3. /\ pc'[Trucker] = pc[Trucker]
        /\ \A l \in Loader : pc'[l] = IF l \in crew[v] THEN there ELSE pc[l]
    BY <2>2, CrewGoes DEF Location, SettingUp, Critical, Ended
  <2>4. \A l \in crew[v] : pc[l] \in {"new"} \cup SettingUp
    BY <1>4 DEF InvocationNext, getSemaphore, LoaderParams, NumberLoaders, ResetEndWord,
       LoaderLine, CrewAt, SettingUp
  <2>5. \A l \in Loader : /\ pc'[l] = "done" <=> pc[l] = "done"
                          /\ pc'[l] = "endwrite" => pc[l] = "endwrite"
    BY <2>1, <2>3, <2>4 DEF SettingUp
  <2>6. /\ UNCHANGED <<crew, endWord, seen>>
        /\ loadersCountEndWord' \in {0, loadersCountEndWord}
        /\ loadersCount' \in {loadersCount, Cardinality(crew[v]) - 1}
    BY <1>4 DEF InvocationNext, getSemaphore, LoaderParams, NumberLoaders, ResetEndWord,
       LoaderLine
  <2>7. OneInvocationOnly => crew[v] = Loader
    BY <2>1, OnlyCrew
  <2> QED
    BY <2>3, <2>5, <2>6, <2>7, CountStays
<1>5. ASSUME NEW l \in Loader, LoaderNext(l) PROVE CountInv' /\ Counted'
  <2>1. l \in Process /\ l # Trucker
    OBVIOUS
  <2>2. CASE LoaderNext(l) /\ ~LoaderEndRead(l) /\ ~LoaderEndWrite(l)
    <3>1. UNCHANGED <<crew, loadersCount, loadersCountEndWord, endWord, seen>>
      BY <2>2 DEF LoaderNext, LoaderLoop, LoaderBlock, PushParcel, NoPlace, LoaderCrash,
         LoaderRelease, blockSem, releaseSem
    <3>2. \E there \in {"wait", "endread", "cs", "release", "failed", "loop"} :
            pc' = [pc EXCEPT ![l] = there]
      BY <2>2 DEF LoaderNext, LoaderLoop, LoaderBlock, PushParcel, NoPlace, LoaderCrash,
         LoaderRelease, blockSem, releaseSem
    <3>3. pc[l] \in {"loop", "wait", "cs", "release"}
      BY <2>2 DEF LoaderNext, LoaderLoop, LoaderBlock, PushParcel, NoPlace, LoaderCrash,
         LoaderRelease, blockSem, releaseSem
    <3>4. /\ pc'[Trucker] = pc[Trucker]
          /\ \A m \in Loader : /\ pc'[m] = "done" <=> pc[m] = "done"
                               /\ pc'[m] = "endwrite" => pc[m] = "endwrite"
      BY <1>0, <2>1, <3>2, <3>3
    <3> QED
      BY <3>1, <3>4, CountStays
  <2>3. CASE LoaderEndRead(l)
    <3>1. /\ pc[l] = "endread" /\ pc' = [pc EXCEPT ![l] = "endwrite"]
          /\ endWord' = [endWord EXCEPT ![l] = loadersCountEndWord]
          /\ UNCHANGED <<crew, loadersCount, loadersCountEndWord, seen>>
      BY <2>3, Zenon DEF LoaderEndRead
    <3>2. endWord \in [Loader -> Nat]
      BY DEF TypeOK
    <3>3. Finished' = Finished /\ pc'[Trucker] = pc[Trucker]
      BY <1>0, <2>1, <3>1 DEF Finished
    <3>4. \A m \in Loader : pc'[m] = "endwrite" => endWord'[m] <= Cardinality(Finished')
      BY <1>0, <3>1, <3>2, <3>3 DEF CountInv
    <3> QED
      BY <3>1, <3>3, <3>4 DEF CountInv, Counted, OneInvocationOnly
  <2>4. CASE LoaderEndWrite(l)
    <3>1. /\ pc[l] = "endwrite" /\ pc' = [pc EXCEPT ![l] = "done"]
          /\ loadersCountEndWord' = endWord[l] + 1
          /\ UNCHANGED <<crew, loadersCount, endWord, seen>>
      BY <2>4 DEF LoaderEndWrite
    <3>2. /\ endWord \in [Loader -> Nat] /\ loadersCountEndWord \in Nat
          /\ seen.ended \in Nat /\ seen.count \in Int
      BY DEF TypeOK
    <3>3. Finished' = Finished \cup {l} /\ l \notin Finished /\ pc'[Trucker] = pc[Trucker]
      BY <1>0, <2>1, <3>1 DEF Finished
    <3>4. IsFiniteSet(Finished)
      BY FinishedCount, FS_Subset
    <3>5. Cardinality(Finished') = Cardinality(Finished) + 1
      BY <3>3, <3>4, FS_AddElement
    <3>6. /\ loadersCountEndWord' <= Cardinality(Finished')
          /\ seen'.ended <= Cardinality(Finished')
      BY <3>1, <3>2, <3>5, FinishedCount DEF CountInv
    <3>7. \A m \in Loader : pc'[m] = "endwrite" => endWord'[m] <= Cardinality(Finished')
      <4> SUFFICES ASSUME NEW m \in Loader, pc'[m] = "endwrite"
                   PROVE  endWord[m] <= Cardinality(Finished) + 1
        BY <3>1, <3>5
      <4>1. endWord[m] <= Cardinality(Finished) /\ endWord[m] \in Nat
        BY <1>0, <3>1, <3>2 DEF CountInv
      <4> QED
        BY <4>1, FinishedCount
    <3>8. Counted'
      BY <3>1, <3>2, <3>3, <3>5, FinishedCount DEF Counted
    <3> QED
      BY <3>1, <3>6, <3>7, <3>8 DEF CountInv, OneInvocationOnly
  <2> QED
    BY <1>5, <2>2, <2>3, <2>4
<1>6. ASSUME NEW p \in Interruptible, handleSIGINT(p) PROVE CountInv' /\ Counted'
  <2>1. p \in Process /\ UNCHANGED <<crew, loadersCount, loadersCountEndWord, endWord, seen>>
    BY <1>6 DEF handleSIGINT
  <2>2. \/ UNCHANGED pc
        \/ pc[p] \in {"bootwait", "wait", "endwait"} /\ pc' = [pc EXCEPT ![p] = "failed"]
    BY <1>6 DEF handleSIGINT
  <2>3. /\ pc'[Trucker] \in Unlinking => pc[Trucker] \in Unlinking
        /\ \A m \in Loader : /\ pc'[m] = "done" <=> pc[m] = "done"
                             /\ pc'[m] = "endwrite" => pc[m] = "endwrite"
    BY <1>0, <2>1, <2>2 DEF Unlinking
  <2> QED
    BY <2>1, <2>3, CountStays
<1> QED
  BY <1>1, <1>2, <1>3, <1>4, <1>5, <1>6 DEF Next, Terminated

-----------------------------------------------------------------------------
(* The theorems. *)

(* The inductive invariant of the POSIX programs, for every belt, truck,  *)
(* number of loaders and way to start them.                               *)
THEOREM Invariance == Spec => []IInv
<1>1. Init => BeltOrTruncated /\ CountInv /\ Counted
  <2> SUFFICES ASSUME Init PROVE BeltOrTruncated /\ CountInv /\ Counted
    OBVIOUS
  <2>1. BeltInv
    BY BeltInit DEF Init
  <2>2. BootLine /\ Counted
    BY DEF Init, ConveyorInit, BootLine, Counted, Unlinking
  <2>3. CountInv
    BY FinishedCount DEF Init, ConveyorInit, CountInv
  <2> QED
    BY <2>1, <2>2, <2>3 DEF BeltOrTruncated
<1>2. /\ TypeOK /\ TypeOK' /\ Sizes /\ Control /\ BeltOrTruncated /\ CountInv /\ Counted
      /\ [Next]_vars
      => BeltOrTruncated' /\ CountInv' /\ Counted'
  <2> SUFFICES ASSUME TypeOK, TypeOK', Sizes, Control, BeltOrTruncated, CountInv,
                      Counted, [Next]_vars
               PROVE  BeltOrTruncated' /\ CountInv' /\ Counted'
    OBVIOUS
  <2>1. Truncated => Truncated'
    BY TruncatedStays
  <2>2. ~Truncated => BeltInv' /\ BootLine'
    BY NextKeepsBelt DEF BeltOrTruncated, Whole, StaysWhole
  <2> QED
    BY <2>1, <2>2, CountStep DEF BeltOrTruncated
<1>3. TypeOK /\ CountInv /\ Counted => UnlinksLast
  BY CountedIsEnough
<1> QED
  BY <1>1, <1>2, <1>3, TypeCorrect, MutualExclusion, PTL DEF Spec, IInv, Control

(* Mutual exclusion at the belt, between the loaders of all invocations.  *)
THEOREM SemaphoreGuards == Spec => []SemInv
BY Invariance, PTL DEF IInv

(* The counters, the order and the truck, unless a loader came too early. *)
THEOREM BeltIsKept == Spec => []BeltKept
BY Invariance, PTL DEF IInv, BeltOrTruncated, BeltInv, BeltKept

(* The objects are unlinked after more loaders have ended than the trucker *)
(* saw there to be: all of them, if it saw the number of the only          *)
(* invocation.                                                             *)
THEOREM UnlinkedLast == Spec => []UnlinksLast
BY Invariance, PTL DEF IInv

(* The belt is the queue of BeltFifo until a loader truncates it.         *)
THEOREM ImplementsFifo == Spec => FifoUntilTruncated
<1>1. Init => Fifo!Init
  BY FifoInit DEF Init
<1>2. IInv /\ IInv' /\ [Next]_vars => [Truncated' \/ Fifo!Next]_(Fifo!vars)
  <2> SUFFICES ASSUME IInv, IInv', [Next]_vars, ~Truncated'
               PROVE  Fifo!Next \/ UNCHANGED Fifo!vars
    OBVIOUS
  <2>1. TypeOK /\ TypeOK' /\ Sizes /\ Control /\ BeltOrTruncated
    BY DEF IInv, SemInv, Control
  <2>2. ~Truncated
    BY <2>1, TruncatedStays
  <2> QED
    BY <2>1, <2>2, NextKeepsBelt DEF BeltOrTruncated, Whole, StaysWhole
<1> QED
  BY <1>1, <1>2, Invariance, PTL DEF Spec, FifoUntilTruncated
=============================================================================
