------------------------------ MODULE Sublists ------------------------------
(* Parts of lists that loops and system calls leave in their order.         *)
EXTENDS Integers, Sequences

(* The elements of s that are in S.  This is SelectSeq as a recursive      *)
(* function, about which theorems can be proved.                           *)
Those(s, S) ==
  LET upTo[i \in 0 .. Len(s)] ==
        IF i = 0 THEN <<>>
        ELSE IF s[i] \in S THEN Append(upTo[i - 1], s[i]) ELSE upTo[i - 1]
  IN upTo[Len(s)]

(* Nothing is in the list twice. *)
Once(s) == \A i, j \in 1 .. Len(s) : s[i] = s[j] => i = j
=============================================================================
