--------------------------- MODULE MCConveyorSysV ---------------------------
(* Values of the constants of ConveyorSysV for TLC. *)
EXTENDS ConveyorSysV, TLC

CONSTANTS l1, l2, tr

MCLoaders == {l1, l2}

(* A light and a heavy worker; together they exceed a belt with M = 2 or 3. *)
MCWeight == (l1 :> 1) @@ (l2 :> 2)

TwoEach == (l1 :> 2) @@ (l2 :> 2)

OnlyTrucker == {tr}
Everybody == {tr, l1, l2}
Nobody == {}

(* Every parcel that is put on the belt leaves it, unless the trucker dies *)
(* in semop: the truck does not wait for ever at a belt that stands still. *)
(* The two loaders together put at most 4 parcels there.                   *)
EveryParcelLeaves ==
  \A n \in 1 .. 4 :
    n \in OnBeltNow ~> n \notin OnBeltNow \/ pc[Trucker] = "failed"

=============================================================================
