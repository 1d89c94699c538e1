-------------------------------- MODULE Belt --------------------------------
(***************************************************************************)
(* The conveyor belt of lab7, as both versions of the program lay it out   *)
(* in shared memory: an array of K slots, parcels enter at slot 0 and are  *)
(* taken at slot K - 1.  A slot with weight 0 is free.                     *)
(*                                                                         *)
(* struct Parcel.timestamp is CLOCK_MONOTONIC's tv_nsec, printed and never *)
(* compared.  The model keeps in its place the number of the placement     *)
(* (1, 2, ...), which identifies a parcel and says when it was placed; the *)
(* code clears it exactly where it clears the time stamp.                  *)
(***************************************************************************)
EXTENDS Integers, FiniteSets

CONSTANTS K,            \* lineItemsCapacity, the slots of the belt
          Loader,       \* the loader processes (their PIDs)
          NoWorker      \* workerId 0

ASSUME BeltAssumption == /\ K \in Nat \ {0}
                         /\ NoWorker \notin Loader
                         /\ IsFiniteSet(Loader)

Slot == 0 .. K - 1
endOfLine == K - 1

NoParcel == [workerId |-> NoWorker, timestamp |-> 0, weight |-> 0]
Parcel == [workerId : Loader \cup {NoWorker}, timestamp : Nat, weight : Nat]

EmptyLine == [i \in Slot |-> NoParcel]

(* Bug: copied from the front, slot 0 spreads over the line. *)
SmearLine(line) == [i \in Slot |-> IF i = 0 THEN NoParcel ELSE line[0]]

(* moveLine: every slot takes the one before it, slot 0 is cleared.  What  *)
(* was in the last slot is overwritten.                                    *)
moveLine(line) == [i \in Slot |-> IF i = 0 THEN NoParcel ELSE line[i - 1]]

(* What the trucker does with the last slot after it takes the parcel. *)
ClearEnd(line) == [line EXCEPT ![endOfLine] = NoParcel]

Occupied(line) == {i \in Slot : line[i].weight > 0}
OnBelt(line) == {line[i].timestamp : i \in Occupied(line)}

=============================================================================
