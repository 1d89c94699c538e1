-------------------------- MODULE MCComputeCluster --------------------------
(* Constants of the runs of ComputeCluster. *)
EXTENDS ComputeCluster, TLC

CONSTANTS c1, c2, c3, n1, n2

(* c1 and c3 were started with the same name. *)
Namesakes == c1 :> n1 @@ c2 :> n2 @@ c3 :> n1

Symmetry == Permutations({c1, c3})

(* Two clients. *)
Pair == c1 :> n1 @@ c2 :> n2
=============================================================================
