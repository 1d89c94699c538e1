------------------------------ MODULE Conveyor ------------------------------
(***************************************************************************)
(* What the System V and the POSIX version of lab7 have in common: the     *)
(* state of the belt, of the truck and of the processes, what a loader and *)
(* the trucker do to the belt while they hold the semaphore, and what is   *)
(* expected of it.  How they get the semaphore, how they start and how     *)
(* they end is in ConveyorSysV and ConveyorPosix.                          *)
(***************************************************************************)
EXTENDS Belt, Sequences

CONSTANTS M,            \* lineWeightCapacity
          Capacity,     \* truckCapacity, in parcels
          ForceStop,    \* forceStopParcelCounter, 0 when not given
          Weight,       \* parcelWeight of each loader
          Cycles,       \* parcelCount of each loader, 0 when not given
          Trucker,      \* the trucker process
          Interruptible \* the processes that may be sent SIGINT

ASSUME ConveyorAssumption ==
  /\ M \in Nat \ {0} /\ Capacity \in Nat \ {0} /\ ForceStop \in Nat
  /\ Weight \in [Loader -> Nat \ {0}]
  /\ Cycles \in [Loader -> Nat]
  /\ Trucker \notin Loader
  /\ Interruptible \subseteq Loader \cup {Trucker}

Process == Loader \cup {Trucker}
IPCObject == {"sem", "line", "params"}

VARIABLES
  ipc,              \* the names of the IPC objects that exist
  sem,              \* the semaphore's value
  line,             \* the belt
  freePlaces,       \* LineParams.freePlaces
  freeWeight,       \* LineParams.freeWeight
  pc,               \* where each process is
  endWork,          \* each process's endWork flag
  iteration,        \* each loader's iteration
  truckPlacesCount, \* the trucker's locals
  counter,
  end_i,            \* the index of the trucker's loop that empties the line
  placed,           \* history: parcels put on the belt so far
  loaded,           \* history: placement numbers, in the order of loading
  onTruck           \* history: parcels in the truck that stands at the belt

beltVars == <<line, freePlaces, freeWeight, placed>>
truckVars == <<truckPlacesCount, counter, end_i, loaded, onTruck>>

ConveyorInit ==
  /\ ipc = {} /\ sem = 0
  /\ line = EmptyLine /\ freePlaces = 0 /\ freeWeight = 0
  /\ pc = [p \in Process |-> "new"]
  /\ endWork = [p \in Process |-> FALSE]
  /\ iteration = [l \in Loader |-> 0]
  /\ truckPlacesCount = 0 /\ counter = 0 /\ end_i = 0
  /\ placed = 0 /\ loaded = <<>> /\ onTruck = 0

Goto(p, there) == pc' = [pc EXCEPT ![p] = there]

-----------------------------------------------------------------------------
(* The loader's turn at the belt. *)

(* The condition of the loader's loop; it is false without parcelCount. *)
MoreCycles(l) == ~endWork[l] /\ Cycles[l] > iteration[l]

(* The part of the condition that does not read the line.  (In the place   *)
(* of CanPush a bug: slot 0 is not looked at.)                             *)
CountersOnly(l) == freeWeight >= Weight[l] /\ freePlaces > 0

CanPush(l) == freeWeight >= Weight[l] /\ freePlaces > 0 /\ line[0].weight = 0

Push(l) ==
  /\ placed' = placed + 1
  /\ line' = [line EXCEPT ![0] = [workerId  |-> l,
                                  timestamp |-> placed',
                                  weight    |-> Weight[l]]]
  /\ freePlaces' = freePlaces - 1
  /\ freeWeight' = freeWeight - Weight[l]
  /\ iteration' = [iteration EXCEPT ![l] = @ + 1]

-----------------------------------------------------------------------------
(* The trucker's turn at the belt. *)

SetUpBelt == freePlaces' = K /\ freeWeight' = M /\ line' = EmptyLine

ParcelAtEnd == line[endOfLine].weight > 0

(* Bug: the mass is read after the slot is cleared. *)
TakeCleared ==
  /\ truckPlacesCount' = truckPlacesCount + 1 /\ onTruck' = onTruck + 1
  /\ freePlaces' = freePlaces + 1
  /\ freeWeight' = freeWeight + ClearEnd(line)[endOfLine].weight
  /\ loaded' = Append(loaded, line[endOfLine].timestamp)
  /\ counter' = counter + 1
  /\ line' = moveLine(ClearEnd(line))
  /\ endWork' = [endWork EXCEPT ![Trucker] = @ \/ counter' = ForceStop]

(* The parcel at the end of the line goes to the truck, the line moves. *)
Take ==
  /\ truckPlacesCount' = truckPlacesCount + 1 /\ onTruck' = onTruck + 1
  /\ freePlaces' = freePlaces + 1
  /\ freeWeight' = freeWeight + line[endOfLine].weight
  /\ loaded' = Append(loaded, line[endOfLine].timestamp)
  /\ counter' = counter + 1
  /\ line' = moveLine(ClearEnd(line))
  /\ endWork' = [endWork EXCEPT ![Trucker] = @ \/ counter' = ForceStop]

(* Bug: the truck leaves only when it is over its capacity. *)
LeavesOverfull == IF truckPlacesCount > Capacity
                    THEN truckPlacesCount' = 0 /\ onTruck' = 0
                    ELSE UNCHANGED <<truckPlacesCount, onTruck>>

(* A full truck leaves and an empty one arrives. *)
LeavesIfFull == IF truckPlacesCount = Capacity
                  THEN truckPlacesCount' = 0 /\ onTruck' = 0
                  ELSE UNCHANGED <<truckPlacesCount, onTruck>>

(* The loop that empties the line: each turn moves the line first and then *)
(* loads what arrived at the end.  The parcel stays in the slot, and       *)
(* neither the parameters nor truckPlacesCount are updated.                *)
EndMove == /\ end_i < K
           /\ end_i' = end_i + 1
           /\ line' = moveLine(line)

EndLoad ==
  /\ loaded' = IF ParcelAtEnd THEN Append(loaded, line[endOfLine].timestamp)
                              ELSE loaded
  /\ IF truckPlacesCount = Capacity
       THEN truckPlacesCount' = 0 /\ onTruck' = 0
       ELSE /\ onTruck' = IF ParcelAtEnd THEN onTruck + 1 ELSE onTruck
            /\ UNCHANGED truckPlacesCount

-----------------------------------------------------------------------------
(* Properties of the belt and the truck. *)

DataTypeOK ==
  /\ ipc \subseteq IPCObject /\ sem \in Nat
  /\ line \in [Slot -> Parcel] /\ freePlaces \in Int /\ freeWeight \in Int
  /\ endWork \in [Process -> BOOLEAN] /\ iteration \in [Loader -> Nat]
  /\ truckPlacesCount \in Nat /\ counter \in Nat /\ end_i \in 0 .. K
  /\ placed \in Nat /\ loaded \in Seq(Nat) /\ onTruck \in Nat

(* The trucker is emptying the line or has emptied it: the parameters are  *)
(* no longer kept.                                                         *)
Emptying == end_i > 0

NotSetUp == placed = 0 /\ freePlaces = 0 /\ freeWeight = 0

(* freePlaces is K less the occupied slots, whatever order the loaders and *)
(* the trucker work in, so the belt never holds more than K parcels and a  *)
(* loader is never refused a place the counters forgot.                    *)
PlacesInv ==
  ~Emptying => \/ freePlaces + Cardinality(Occupied(line)) = K
               \/ NotSetUp /\ Occupied(line) = {}

(* The mass of the slots in front of slot k, and that of the line. *)
MassBefore(ln, k) ==
  LET mass[n \in 0 .. K] == IF n = 0 THEN 0 ELSE mass[n - 1] + ln[n - 1].weight
  IN mass[k]

MassOn(ln) == MassBefore(ln, K)

(* freeWeight is M less the mass on the belt and is never negative: the    *)
(* unsigned counter does not wrap and the belt never carries more than M.  *)
WeightInv ==
  ~Emptying => \/ freeWeight + MassOn(line) = M /\ freeWeight >= 0
               \/ NotSetUp /\ Occupied(line) = {}

(* The parcels lie on the belt in the order in which they were placed.     *)
OrderInv ==
  \A i, j \in Occupied(line) :
    i < j => line[i].timestamp > line[j].timestamp

(* While it serves the belt the trucker never has more than Capacity       *)
(* parcels in the truck, and the truck it counts is the truck it loads.    *)
TruckInv == ~Emptying => onTruck = truckPlacesCount /\ onTruck <= Capacity

(* Lemmas of the above: where each parcel's number comes from, what the    *)
(* belt is before the trucker sets it up, when the truck can be full.      *)
StampInv == \A i \in Occupied(line) : line[i].timestamp \in 1 .. placed

BootInv == pc[Trucker] \in {"new", "bootwait", "boot"} =>
             NotSetUp /\ Occupied(line) = {}

TruckControl ==
  ~Emptying => truckPlacesCount < Capacity \/ pc[Trucker] \in {"release", "leave"}

BeltInv == /\ PlacesInv /\ WeightInv /\ OrderInv /\ StampInv /\ BootInv
           /\ TruckInv /\ TruckControl

(* The parcels on the belt, as the queue of BeltFifo sees them: what the   *)
(* emptying loop has loaded stays in the last slot until the next move.    *)
OnBeltNow ==
  IF Emptying /\ pc[Trucker] # "endload"
    THEN {line[i].timestamp : i \in Occupied(line) \ {endOfLine}}
    ELSE OnBelt(line)

Fifo == INSTANCE BeltFifo WITH onBelt <- OnBeltNow, closed <- Emptying

(* Seen from the belt, the two programs are a queue of at most K parcels:  *)
(* loaded in exactly the order of placement, none twice, and none lost     *)
(* except one, the oldest, at the moment the trucker starts to empty it.   *)
FifoSpec == Fifo!Spec

(* The order and the account of the parcels that follow from it: nothing   *)
(* is loaded out of order, and a parcel that was placed is on the belt or  *)
(* loaded, except for at most one after the trucker has begun to empty it. *)
LoadedInOrder == Fifo!InOrder /\ Fifo!Accounted

-----------------------------------------------------------------------------
(* What lab7/README.md says of both versions and the code does not do.     *)

(* README:16: the trucker loads what remained on the belt. *)
NothingLost == pc[Trucker] = "done" => Len(loaded) = placed

(* README:34: no parcel is taken when the truck is at its capacity. *)
TruckCapacity == onTruck <= Capacity

(* README:24: without the parameter C the loader loops for ever. *)
WithoutCForever ==
  \A l \in Loader : Cycles[l] = 0 /\ pc[l] = "done" => endWork[l]

=============================================================================
