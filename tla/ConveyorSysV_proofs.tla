------------------------ MODULE ConveyorSysV_proofs ------------------------
(* Proofs of the safety properties of ConveyorSysV, for every number of    *)
(* loaders, every belt and every truck.                                    *)
EXTENDS ConveyorSysV, Conveyor_proofs

USE BeltAssumption, ConveyorAssumption DEF Process

(* blockSem and releaseSem keep the types, the semaphore's value among them: *)
(* it is taken only when positive.                                           *)
LEMMA SemaphoreType ==
  ASSUME TypeOK, NEW p \in Process, NEW here, NEW next \in Location,
         blockSem(p, here, next) \/ releaseSem(p, here, next)
  PROVE  TypeOK'
<1> USE DEF TypeOK, DataTypeOK, Goto, beltVars, truckVars
<1>1. /\ UNCHANGED <<ipc, line, freePlaces, freeWeight, placed, endWork, iteration>>
      /\ UNCHANGED <<truckPlacesCount, counter, end_i, loaded, onTruck>>
  BY DEF blockSem, releaseSem
<1>2. sem' \in Nat
  BY DEF blockSem, releaseSem
<1>3. pc' \in [Process -> Location]
  <2>1. pc' = [pc EXCEPT ![p] = next] \/ pc' = [pc EXCEPT ![p] = "failed"]
    BY DEF blockSem, releaseSem
  <2>2. "failed" \in Location
    BY DEF Location, Ended
  <2> QED
    BY <2>1, <2>2
<1> QED
  BY <1>1, <1>2, <1>3

(* Type correctness: whatever K, M, the weights and the number of loaders,   *)
(* every program counter and counter of the two programs stays in its range. *)
THEOREM TypeCorrect == Spec => []TypeOK
<1> USE DEF IPCObject, Ended, Critical, Location, Goto, beltVars, truckVars, DataTypeOK
<1>1. Init => TypeOK
  BY EmptyLineType DEF Init, ConveyorInit, TypeOK
<1>2. TypeOK /\ [Next]_vars => TypeOK'
  <2> SUFFICES ASSUME TypeOK, [Next]_vars PROVE TypeOK'
    OBVIOUS
  <2> USE DEF TypeOK
  <2>1. CASE UNCHANGED vars
    BY <2>1 DEF vars
  <2>2. CASE TruckerNext
    <3>1. CASE TruckerCreate
      BY <3>1 DEF TruckerCreate
    <3>2. CASE TruckerBootBlock \/ TruckerBlock \/ TruckerEndBlock
      BY <3>2, SemaphoreType DEF TruckerBootBlock, TruckerBlock, TruckerEndBlock
    <3>3. CASE TruckerBoot
      BY <3>3, EmptyLineType DEF TruckerBoot, SetUpBelt
    <3>4. CASE TruckerBootRelease \/ TruckerRelease
      BY <3>4, SemaphoreType DEF TruckerBootRelease, TruckerRelease
    <3>5. CASE GetParcel
      BY <3>5, TakeType DEF GetParcel
    <3>6. CASE MoveEmpty
      BY <3>6, MoveLineType DEF MoveEmpty
    <3>7. CASE TruckerLeave
      BY <3>7 DEF TruckerLeave, LeavesIfFull
    <3>8. CASE TruckerEndMove
      <4>1. line' \in [Slot -> Parcel] /\ end_i' \in 0 .. K
        BY <3>8, MoveLineType DEF TruckerEndMove, EndMove
      <4> QED
        BY <3>8, <4>1 DEF TruckerEndMove
    <3>9. CASE TruckerEndLoad
      BY <3>9, EndLoadType DEF TruckerEndLoad
    <3>10. CASE TruckerRmSem \/ TruckerRmLine \/ TruckerRmParams
      BY <3>10 DEF TruckerRmSem, TruckerRmLine, TruckerRmParams
    <3> QED
      BY <2>2, <3>1, <3>2, <3>3, <3>4, <3>5, <3>6, <3>7, <3>8, <3>9, <3>10
         DEF TruckerNext
  <2>3. ASSUME NEW l \in Loader, LoaderNext(l) PROVE TypeOK'
    <3>1. CASE getSemaphore(l) \/ LoaderMemory(l) \/ LoaderLoop(l)
      BY <3>1 DEF getSemaphore, LoaderMemory, LoaderLoop
    <3>2. CASE LoaderBlock(l) \/ LoaderRelease(l)
      BY <3>2, SemaphoreType DEF LoaderBlock, LoaderRelease
    <3>3. CASE PushParcel(l)
      BY <3>3, PushType DEF PushParcel
    <3>4. CASE NoPlace(l)
      BY <3>4 DEF NoPlace
    <3> QED
      BY <2>3, <3>1, <3>2, <3>3, <3>4 DEF LoaderNext
  <2>4. ASSUME NEW p \in Interruptible, handleSIGINT(p) PROVE TypeOK'
    BY <2>4 DEF handleSIGINT
  <2>5. CASE Terminated
    BY <2>5 DEF Terminated, vars
  <2> QED
    BY <2>1, <2>2, <2>3, <2>4, <2>5 DEF Next
<1> QED
  BY <1>1, <1>2, PTL DEF Spec

-----------------------------------------------------------------------------
(* Mutual exclusion. *)

(* A process moves between places of which both or neither are critical, *)
(* and the semaphore is left alone.                                      *)
LEMMA StaysSem ==
  ASSUME TypeOK, SemInv, NEW p \in Process, NEW there \in Location,
         pc' = [pc EXCEPT ![p] = there], InCS(p) <=> there \in Critical,
         sem' = sem, "sem" \in ipc' <=> "sem" \in ipc
  PROVE  SemInv'
<1>1. \A q \in Process : InCS(q)' <=> InCS(q)
  BY DEF TypeOK, InCS
<1> QED
  BY <1>1 DEF SemInv

(* Entering through semop keeps mutual exclusion; a process whose semop *)
(* fails does not enter.                                                *)
LEMMA BlocksSem ==
  ASSUME TypeOK, SemInv, NEW p \in Process, NEW here, NEW next \in Critical,
         here \notin Critical, blockSem(p, here, next)
  PROVE  SemInv'
<1>1. ipc' = ipc
  BY DEF blockSem
<1>2. CASE "sem" \in ipc /\ sem > 0 /\ sem' = sem - 1 /\ pc' = [pc EXCEPT ![p] = next]
  <2>1. \A q \in Process : ~InCS(q)
    BY <1>2 DEF SemInv
  <2>2. sem' = 0
    BY <1>2, <2>1 DEF SemInv
  <2>3. \A q \in Process : InCS(q)' <=> q = p
    BY <1>2, <2>1 DEF TypeOK, InCS
  <2> QED
    BY <1>1, <1>2, <2>2, <2>3 DEF SemInv
<1>3. CASE "sem" \notin ipc /\ sem' = sem /\ pc' = [pc EXCEPT ![p] = "failed"]
  <2>1. ~InCS(p) /\ "failed" \in Location /\ "failed" \notin Critical
    BY DEF blockSem, InCS, Critical, Location, Ended
  <2> QED
    BY <1>1, <1>3, <2>1, StaysSem
<1> QED
  BY <1>2, <1>3 DEF blockSem, Goto

(* Leaving through semop opens a semaphore that exists. *)
LEMMA ReleasesSem ==
  ASSUME TypeOK, SemInv, NEW p \in Process, NEW here \in Critical, NEW next,
         next \notin Critical, releaseSem(p, here, next)
  PROVE  SemInv'
<1>1. InCS(p) /\ "sem" \in ipc /\ ipc' = ipc /\ sem' = sem + 1
      /\ pc' = [pc EXCEPT ![p] = next]
  BY DEF releaseSem, InCS, Goto
<1>2. sem' = 1
  BY <1>1 DEF SemInv
<1>3. \A q \in Process : ~InCS(q)'
  BY <1>1 DEF SemInv, TypeOK, InCS
<1> QED
  BY <1>1, <1>2, <1>3 DEF SemInv

(* The semaphore guards the belt: at most one process is between blockSem   *)
(* and releaseSem, and the semaphore it releases still exists, because only *)
(* the trucker removes it and does so while it holds it.                    *)
THEOREM MutualExclusion == Spec => [](SemInv /\ Control)
<1> USE DEF Ended, DataTypeOK, ConveyorInit, Push, Take, LeavesIfFull, EndMove, EndLoad
<1>1. Init => SemInv /\ Control
  BY DEF Init, SemInv, Control, InCS, Critical
<1>2. TypeOK /\ SemInv /\ Control /\ [Next]_vars => SemInv' /\ Control'
  <2> SUFFICES ASSUME TypeOK, SemInv, Control, [Next]_vars PROVE SemInv' /\ Control'
    OBVIOUS
  <2>1. CASE UNCHANGED vars
    BY <2>1 DEF vars, SemInv, Control, InCS
  <2>2. CASE TruckerNext
    <3> Trucker \in Process /\ pc \in [Process -> Location]
      BY DEF TypeOK
    <3>1. CASE TruckerCreate
      <4>1. \A q \in Process : ~InCS(q)'
        BY <3>1 DEF TruckerCreate, SemInv, Control, InCS, Critical, TypeOK, Goto
      <4> QED
        BY <3>1, <4>1 DEF TruckerCreate, SemInv, Control, TypeOK, Goto,
           IPCObject, truckVars
    <3>2. CASE TruckerBootBlock
      BY <3>2, BlocksSem DEF TruckerBootBlock, Critical, Control, blockSem, TypeOK,
         Goto, truckVars
    <3>3. CASE TruckerBlock
      BY <3>3, BlocksSem DEF TruckerBlock, Critical, Control, blockSem, TypeOK,
         Goto, truckVars
    <3>4. CASE TruckerEndBlock
      BY <3>4, BlocksSem DEF TruckerEndBlock, Critical, Control, blockSem, TypeOK,
         Goto, truckVars
    <3>5. CASE TruckerBoot
      BY <3>5, StaysSem DEF TruckerBoot, Critical, InCS, Location, Control, TypeOK,
         Goto, truckVars
    <3>6. CASE TruckerBootRelease
      BY <3>6, ReleasesSem DEF TruckerBootRelease, Critical, Control, releaseSem,
         TypeOK, Goto, truckVars
    <3>7. CASE TruckerRelease
      BY <3>7, ReleasesSem DEF TruckerRelease, Critical, Control, releaseSem,
         TypeOK, Goto, truckVars
    <3>8. CASE GetParcel \/ MoveEmpty
      BY <3>8, StaysSem DEF GetParcel, MoveEmpty, Critical, InCS, Location, Control,
         TypeOK, Goto, truckVars
    <3>9. CASE TruckerLeave
      BY <3>9, StaysSem DEF TruckerLeave, Critical, InCS, Location, Control,
         TypeOK, Goto
    <3>10. CASE TruckerEndMove \/ TruckerEndLoad
      <4>1. SemInv'
        BY <3>10, StaysSem DEF TruckerEndMove, TruckerEndLoad, Critical, InCS,
           Location, Goto
      <4>2. pc[Trucker]' \in {"end", "endload"} /\ ipc' = ipc
            /\ \A l \in Loader : pc[l]' = pc[l]
        BY <3>10 DEF TruckerEndMove, TruckerEndLoad, Goto, TypeOK
      <4>3. pc[Trucker]' = "endload" => end_i' > 0
        BY <3>10 DEF TruckerEndMove, TruckerEndLoad, Goto, TypeOK
      <4> QED
        BY <4>1, <4>2, <4>3 DEF Control
    <3>11. CASE TruckerRmSem
      <4>1. \A q \in Process : ~InCS(q)'
        BY <3>11 DEF TruckerRmSem, SemInv, InCS, Critical, TypeOK, Goto
      <4> QED
        BY <3>11, <4>1 DEF TruckerRmSem, SemInv, Control, TypeOK, Goto, truckVars
    <3>12. CASE TruckerRmLine \/ TruckerRmParams
      BY <3>12, StaysSem DEF TruckerRmLine, TruckerRmParams, Critical, InCS, Location,
         Control, TypeOK, Goto, truckVars
    <3> QED
      BY <2>2, <3>1, <3>2, <3>3, <3>4, <3>5, <3>6, <3>7, <3>8, <3>9, <3>10, <3>11,
         <3>12 DEF TruckerNext
  <2>3. ASSUME NEW l \in Loader, LoaderNext(l) PROVE SemInv' /\ Control'
    <3> l \in Process /\ l # Trucker /\ pc \in [Process -> Location]
      BY DEF TypeOK
    <3>1. CASE getSemaphore(l) \/ LoaderLoop(l)
      BY <3>1, StaysSem DEF getSemaphore, LoaderLoop, Critical, InCS, Location,
         Control, TypeOK, Goto, truckVars
    <3>2. CASE LoaderMemory(l)
      BY <3>2, StaysSem DEF LoaderMemory, Critical, InCS, Location, Control, TypeOK,
         Goto, truckVars
    <3>3. CASE LoaderBlock(l)
      BY <3>3, BlocksSem DEF LoaderBlock, Critical, Control, blockSem, TypeOK, Goto,
         truckVars
    <3>4. CASE PushParcel(l) \/ NoPlace(l)
      BY <3>4, StaysSem DEF PushParcel, NoPlace, Critical, InCS, Location, Control,
         TypeOK, Goto, truckVars
    <3>5. CASE LoaderRelease(l)
      BY <3>5, ReleasesSem DEF LoaderRelease, Critical, Control, releaseSem, TypeOK,
         Goto, truckVars
    <3> QED
      BY <2>3, <3>1, <3>2, <3>3, <3>4, <3>5 DEF LoaderNext
  <2>4. ASSUME NEW p \in Interruptible, handleSIGINT(p) PROVE SemInv' /\ Control'
    <3>1. p \in Process /\ pc \in [Process -> Location]
      BY DEF TypeOK
    <3>2. CASE UNCHANGED pc
      BY <2>4, <3>2 DEF handleSIGINT, SemInv, InCS, Control, truckVars
    <3>3. CASE ~UNCHANGED pc
      BY <2>4, <3>1, <3>3, StaysSem DEF handleSIGINT, InCS, Critical, Control,
         Location, Goto, TypeOK, truckVars
    <3> QED
      BY <3>2, <3>3
  <2>5. CASE Terminated
    BY <2>1, <2>5 DEF Terminated
  <2> QED
    BY <2>1, <2>2, <2>3, <2>4, <2>5 DEF Next
<1> QED
  BY <1>1, <1>2, TypeCorrect, PTL DEF Spec

-----------------------------------------------------------------------------
(* The belt and the truck. *)

(* The inductive invariant holds in every state, for every belt, truck and *)
(* number of loaders.                                                      *)
THEOREM Invariance == Spec => []IInv
<1>1. Init => BeltInv
  BY BeltInit DEF Init
<1>2. TypeOK /\ SemInv /\ Control /\ BeltInv /\ [Next]_vars => BeltInv'
  <2> SUFFICES ASSUME TypeOK, SemInv, Control, BeltInv, [Next]_vars PROVE BeltInv'
    OBVIOUS
  <2>0. Trucker \in Process /\ pc \in [Process -> Location] /\ DataTypeOK
    BY DEF TypeOK
  <2>1. CASE UNCHANGED vars
    BY <2>1, BeltStays DEF vars
  <2>2. CASE TruckerNext
    <3>1. CASE TruckerCreate \/ TruckerBootBlock \/ TruckerBootRelease
      BY <2>0, <3>1, BeltStays DEF TruckerCreate, TruckerBootBlock, TruckerBootRelease,
         blockSem, releaseSem, Goto, beltVars, truckVars
    <3>2. CASE TruckerBlock \/ TruckerEndBlock \/ TruckerRelease
      BY <2>0, <3>2, BeltStays DEF TruckerBlock, TruckerEndBlock, TruckerRelease,
         blockSem, releaseSem, Goto, beltVars, truckVars
    <3>3. CASE TruckerRmSem \/ TruckerRmLine \/ TruckerRmParams
      BY <2>0, <3>3, BeltStays DEF TruckerRmSem, TruckerRmLine, TruckerRmParams,
         Goto, beltVars, truckVars
    <3>4. CASE TruckerBoot
      <4>1. PlacesInv' /\ WeightInv' /\ OrderInv' /\ StampInv'
        BY <2>0, <3>4, SetUpPreserves, EmptyLineType, OccupiedEmpty DEF TruckerBoot,
           SetUpBelt, BeltInv, BootInv, Control, Emptying, truckVars
      <4> QED
        BY <2>0, <3>4, <4>1 DEF TruckerBoot, BeltInv, BootInv, TruckInv, TruckControl,
           Emptying, Goto, truckVars
    <3>5. CASE GetParcel
      <4>1. PlacesInv' /\ WeightInv' /\ OrderInv' /\ StampInv'
        BY <2>0, <3>5, TakePreserves DEF GetParcel
      <4>2. BootInv' /\ TruckInv' /\ TruckControl'
        BY <2>0, <3>5 DEF GetParcel, Take, BeltInv, BootInv, TruckInv, TruckControl,
           Emptying, Goto, DataTypeOK
      <4> QED
        BY <4>1, <4>2 DEF BeltInv
    <3>6. CASE MoveEmpty
      <4>1. PlacesInv' /\ WeightInv' /\ OrderInv' /\ StampInv'
        BY <2>0, <3>6, MoveEmptyPreserves DEF MoveEmpty, truckVars
      <4>2. BootInv' /\ TruckInv' /\ TruckControl'
        BY <2>0, <3>6 DEF MoveEmpty, BeltInv, BootInv, TruckInv, TruckControl,
           Emptying, Goto, truckVars
      <4> QED
        BY <4>1, <4>2 DEF BeltInv
    <3>7. CASE TruckerLeave
      <4>1. ~Emptying => /\ onTruck' = truckPlacesCount' /\ truckPlacesCount' \in Nat
                         /\ truckPlacesCount' < Capacity
        BY <2>0, <3>7 DEF TruckerLeave, LeavesIfFull, BeltInv, TruckInv, TruckControl,
           DataTypeOK
      <4>2. /\ UNCHANGED <<line, freePlaces, freeWeight, placed, end_i>>
            /\ pc'[Trucker] \in {"endwait", "wait"}
        BY <2>0, <3>7 DEF TruckerLeave, Goto, beltVars
      <4>3. PlacesInv' /\ WeightInv' /\ OrderInv' /\ StampInv' /\ BootInv'
        BY <4>2 DEF BeltInv, PlacesInv, WeightInv, OrderInv, StampInv, BootInv, Emptying,
           NotSetUp
      <4> QED
        BY <4>1, <4>2, <4>3 DEF BeltInv, TruckInv, TruckControl, Emptying
    <3>8. CASE TruckerEndMove
      <4>1. OrderInv' /\ StampInv'
        BY <2>0, <3>8, MovePreserves DEF TruckerEndMove, EndMove, BeltInv
      <4>2. end_i' > 0
        BY <2>0, <3>8 DEF TruckerEndMove, EndMove, DataTypeOK
      <4> QED
        BY <2>0, <3>8, <4>1, <4>2 DEF TruckerEndMove, BeltInv, PlacesInv, WeightInv, BootInv,
           TruckInv, TruckControl, Emptying, Goto
    <3>9. CASE TruckerEndLoad
      <4>1. Emptying /\ Emptying'
        BY <3>9 DEF TruckerEndLoad, Control, Emptying
      <4> QED
        BY <2>0, <3>9, <4>1 DEF TruckerEndLoad, BeltInv, PlacesInv, WeightInv, OrderInv,
           StampInv, BootInv, TruckInv, TruckControl, Goto, beltVars
    <3> QED
      BY <2>2, <3>1, <3>2, <3>3, <3>4, <3>5, <3>6, <3>7, <3>8, <3>9 DEF TruckerNext
  <2>3. ASSUME NEW l \in Loader, LoaderNext(l) PROVE BeltInv'
    <3>0. l \in Process /\ l # Trucker
      OBVIOUS
    <3>1. CASE \/ getSemaphore(l) \/ LoaderMemory(l) \/ LoaderLoop(l)
               \/ LoaderBlock(l) \/ NoPlace(l) \/ LoaderRelease(l)
      <4>1. pc'[Trucker] = pc[Trucker]
        BY <2>0, <3>0, <3>1 DEF getSemaphore, LoaderMemory, LoaderLoop, LoaderBlock,
           NoPlace, LoaderRelease, blockSem, releaseSem, Goto
      <4> QED
        BY <3>1, <4>1, BeltStays DEF getSemaphore, LoaderMemory, LoaderLoop,
           LoaderBlock, NoPlace, LoaderRelease, blockSem, releaseSem, beltVars,
           truckVars
    <3>2. CASE PushParcel(l)
      <4>1. /\ freePlaces > 0 /\ UNCHANGED <<truckPlacesCount, onTruck, end_i>>
            /\ pc'[Trucker] = pc[Trucker]
        BY <2>0, <3>0, <3>2 DEF PushParcel, CanPush, Goto, truckVars
      <4>2. PlacesInv' /\ WeightInv' /\ OrderInv' /\ StampInv'
        BY <2>0, <3>2, <4>1, PushPreserves DEF PushParcel
      <4>3. BootInv' /\ TruckInv' /\ TruckControl'
        BY <4>1 DEF BeltInv, BootInv, TruckInv, TruckControl, Emptying, NotSetUp
      <4> QED
        BY <4>2, <4>3 DEF BeltInv
    <3> QED
      BY <2>3, <3>1, <3>2 DEF LoaderNext
  <2>4. ASSUME NEW p \in Interruptible, handleSIGINT(p) PROVE BeltInv'
    BY <2>0, <2>4, BeltStays DEF handleSIGINT, Goto, beltVars, truckVars
  <2>5. CASE Terminated
    BY <2>1, <2>5 DEF Terminated
  <2> QED
    BY <2>1, <2>2, <2>3, <2>4, <2>5 DEF Next
<1> QED
  BY <1>1, <1>2, TypeCorrect, MutualExclusion, PTL DEF Spec, IInv

(* freePlaces counts the free slots: the loaders never put more than K *)
(* parcels on the belt.                                                *)
THEOREM BeltNeverOverfull == Spec => []PlacesInv
BY Invariance, PTL DEF IInv, BeltInv

(* The belt never carries more than M, and the unsigned freeWeight never *)
(* wraps.                                                                *)
THEOREM BeltNeverTooHeavy == Spec => []WeightInv
BY Invariance, PTL DEF IInv, BeltInv

(* Parcels do not overtake each other on the belt. *)
THEOREM BeltKeepsOrder == Spec => []OrderInv
BY Invariance, PTL DEF IInv, BeltInv

(* While the trucker serves the belt its truck holds at most Capacity    *)
(* parcels, although it leaves the semaphore before it looks whether the *)
(* truck is full.                                                        *)
THEOREM TruckNeverOverfull == Spec => []TruckInv
BY Invariance, PTL DEF IInv, BeltInv

-----------------------------------------------------------------------------
(* Refinement: the belt is a queue. *)

(* The System V programs implement the abstract queue of BeltFifo: each *)
(* step is a Put, a Load, a Close or invisible.                         *)
THEOREM ImplementsFifo == Spec => FifoSpec
<1>1. Init => Fifo!Init
  BY FifoInit DEF Init
<1>2. IInv /\ [Next]_vars => [Fifo!Next]_(Fifo!vars)
  <2> SUFFICES ASSUME IInv, [Next]_vars PROVE Fifo!Next \/ UNCHANGED Fifo!vars
    OBVIOUS
  <2>0. /\ DataTypeOK /\ BeltInv /\ Control
        /\ Trucker \in Process /\ pc \in [Process -> Location]
    BY DEF IInv, TypeOK
  <2>1. CASE UNCHANGED vars
    BY <2>1, SeesNothing DEF vars
  <2>2. CASE TruckerNext
    <3>1. CASE TruckerCreate \/ TruckerBootBlock \/ TruckerBootRelease
      BY <2>0, <3>1, SeesNothing DEF TruckerCreate, TruckerBootBlock,
         TruckerBootRelease, blockSem, releaseSem, Goto, beltVars, truckVars
    <3>2. CASE TruckerBlock \/ TruckerEndBlock \/ TruckerRelease
      BY <2>0, <3>2, SeesNothing DEF TruckerBlock, TruckerEndBlock, TruckerRelease,
         blockSem, releaseSem, Goto, beltVars, truckVars
    <3>3. CASE TruckerRmSem \/ TruckerRmLine \/ TruckerRmParams \/ TruckerLeave
      BY <2>0, <3>3, SeesNothing DEF TruckerRmSem, TruckerRmLine, TruckerRmParams,
         TruckerLeave, Goto, beltVars, truckVars
    <3>4. CASE TruckerBoot
      <4>1. ~Emptying
        BY <2>0, <3>4 DEF TruckerBoot, Control, Emptying
      <4> QED
        BY <2>0, <3>4, <4>1, SetUpPreserves, EmptyLineType, OccupiedEmpty,
           SameBeltIsStutter DEF TruckerBoot, SetUpBelt, BeltInv, BootInv, truckVars
    <3>5. CASE GetParcel
      <4>1. ~Emptying
        BY <2>0, <3>5 DEF GetParcel, Control, Emptying
      <4> QED
        BY <2>0, <3>5, <4>1, TakeIsLoad DEF GetParcel, Fifo!Next
    <3>6. CASE MoveEmpty
      <4>1. ~Emptying
        BY <2>0, <3>6 DEF MoveEmpty, Control, Emptying
      <4> QED
        BY <2>0, <3>6, <4>1, MoveEmptyPreserves, SameBeltIsStutter
           DEF MoveEmpty, truckVars
    <3>7. CASE TruckerEndMove
      BY <2>0, <3>7, EndMoveIsClose DEF TruckerEndMove, Goto, Fifo!Next
    <3>8. CASE TruckerEndLoad
      <4>1. Emptying
        BY <2>0, <3>8 DEF TruckerEndLoad, Control, Emptying
      <4> QED
        BY <2>0, <3>8, <4>1, EndLoadIsLoad DEF TruckerEndLoad, Goto, beltVars, Fifo!Next
    <3> QED
      BY <2>2, <3>1, <3>2, <3>3, <3>4, <3>5, <3>6, <3>7, <3>8 DEF TruckerNext
  <2>3. ASSUME NEW l \in Loader, LoaderNext(l) PROVE Fifo!Next \/ UNCHANGED Fifo!vars
    <3>0. l \in Process /\ l # Trucker
      OBVIOUS
    <3>1. CASE \/ getSemaphore(l) \/ LoaderMemory(l) \/ LoaderLoop(l)
               \/ LoaderBlock(l) \/ NoPlace(l) \/ LoaderRelease(l)
      <4>1. pc'[Trucker] = pc[Trucker]
        BY <2>0, <3>0, <3>1 DEF getSemaphore, LoaderMemory, LoaderLoop, LoaderBlock,
           NoPlace, LoaderRelease, blockSem, releaseSem, Goto
      <4> QED
        BY <3>1, <4>1, SeesNothing DEF getSemaphore, LoaderMemory, LoaderLoop,
           LoaderBlock, NoPlace, LoaderRelease, blockSem, releaseSem, beltVars,
           truckVars
    (* The loader holds the semaphore, so the trucker is not emptying. *)
    <3>2. CASE PushParcel(l)
      <4>1. InCS(l) /\ ~InCS(Trucker) /\ "sem" \in ipc
        BY <2>0, <3>0, <3>2 DEF PushParcel, InCS, Critical, IInv, SemInv
      <4>2. ~Emptying
        BY <2>0, <4>1 DEF Control, InCS, Critical, Emptying
      <4> QED
        BY <2>0, <3>2, <4>2, PushIsPut DEF PushParcel, truckVars, Fifo!Next
    <3> QED
      BY <2>3, <3>1, <3>2 DEF LoaderNext
  <2>4. ASSUME NEW p \in Interruptible, handleSIGINT(p) PROVE UNCHANGED Fifo!vars
    BY <2>0, <2>4, SeesNothing DEF handleSIGINT, Goto, beltVars, truckVars
  <2>5. CASE Terminated
    BY <2>1, <2>5 DEF Terminated
  <2> QED
    BY <2>1, <2>2, <2>3, <2>4, <2>5 DEF Next
<1> QED
  BY <1>1, <1>2, Invariance, PTL DEF Spec, FifoSpec, Fifo!Spec

(* So the parcels are loaded in the order of placement and all are         *)
(* accounted for.                                                          *)
THEOREM LoadsInOrder == Spec => []LoadedInOrder
<1>1. Fifo!InOrder /\ Fifo!Accounted => LoadedInOrder
  BY DEF LoadedInOrder
<1>2. [](Fifo!InOrder /\ Fifo!Accounted) => []LoadedInOrder
  BY <1>1, PTL
<1> QED
  BY <1>2, ImplementsFifo, LoadsEveryParcelInOrder, PTL DEF FifoSpec

=============================================================================
