------------------------------ MODULE BeltFifo ------------------------------
(***************************************************************************)
(* What the conveyor of lab7 promises of the parcels, without slots,       *)
(* weights, processes or semaphores: a queue of at most K parcels, known   *)
(* by the number of their placement, that the truck takes in the order of  *)
(* placement.  When the belt is closed its oldest parcel may be lost; from *)
(* then on nothing is placed and the rest is loaded in the same order.     *)
(***************************************************************************)
EXTENDS Integers, Sequences, FiniteSets

CONSTANT K

VARIABLES placed,   \* how many parcels have been placed
          onBelt,   \* the parcels on the belt
          loaded,   \* the parcels loaded, in the order of loading
          closed    \* the trucker has begun to empty the belt

vars == <<placed, onBelt, loaded, closed>>

Init == placed = 0 /\ onBelt = {} /\ loaded = <<>> /\ closed = FALSE

IsOldest(n) == n \in onBelt /\ \A m \in onBelt : n <= m

Put == /\ ~closed
       /\ Cardinality(onBelt) < K
       /\ placed' = placed + 1
       /\ onBelt' = onBelt \cup {placed'}
       /\ UNCHANGED <<loaded, closed>>

Load == \E n \in onBelt :
          /\ IsOldest(n)
          /\ onBelt' = onBelt \ {n}
          /\ loaded' = Append(loaded, n)
          /\ UNCHANGED <<placed, closed>>

Close == /\ ~closed
         /\ closed' = TRUE
         /\ \/ UNCHANGED onBelt
            \/ \E n \in onBelt : IsOldest(n) /\ onBelt' = onBelt \ {n}
         /\ UNCHANGED <<placed, loaded>>

Next == Put \/ Load \/ Close

Spec == Init /\ [][Next]_vars

-----------------------------------------------------------------------------
(* What follows from being this queue. *)

TypeOK == /\ placed \in Nat /\ onBelt \subseteq 1 .. placed
          /\ loaded \in Seq(Nat) /\ closed \in BOOLEAN

(* The parcels are loaded in the order of placement, hence none twice.     *)
InOrder == \A i, j \in 1 .. Len(loaded) : i < j => loaded[i] < loaded[j]

(* What is on the belt was placed after everything that is loaded.         *)
Behind == \A i \in 1 .. Len(loaded) :
            loaded[i] <= placed /\ \A n \in onBelt : loaded[i] < n

(* Every parcel placed is on the belt or loaded, except one at most once   *)
(* the belt is closed.                                                     *)
Accounted == placed - Len(loaded) - Cardinality(onBelt)
               \in IF closed THEN {0, 1} ELSE {0}

=============================================================================
