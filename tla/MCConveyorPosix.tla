--------------------------- MODULE MCConveyorPosix ---------------------------
(* Values of the constants of ConveyorPosix for TLC. *)
EXTENDS ConveyorPosix, TLC

CONSTANTS l1, l2, tr, v1, v2

Both == {l1, l2}
Single == {l1}
MCWeight == [l \in Loader |-> IF l = l1 THEN 1 ELSE 2]
TwoEach == [l \in Loader |-> 2]
OneTwo == [l \in Loader |-> IF l = l1 THEN 2 ELSE 1]

MCInvocation == {v1, v2}

(* One invocation of all loaders, or one for each. *)
MCCrews == {(v1 :> Loader) @@ (v2 :> {}), (v1 :> {l1}) @@ (v2 :> Loader \ {l1})}

Everybody == Loader \cup {tr}
OnlyTrucker == {tr}
Nobody == {}
=============================================================================
