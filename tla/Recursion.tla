------------------------------ MODULE Recursion ------------------------------
(***************************************************************************)
(* Induction and recursion over the numbers 0 .. n, in a form in which the *)
(* provers can use them: what is defined or claimed is a function or a set *)
(* instead of an operator, so that the lemmas are of first order.  They    *)
(* say when a recursive function of a model is what its definition says.   *)
(***************************************************************************)
EXTENDS Sublists, WellFoundedInduction, TLAPS

(* Induction: a set that has 0 and is closed under "plus 1" has all.       *)
LEMMA Induction ==
  ASSUME NEW T, 0 \in T, \A n \in Nat : n \in T => n + 1 \in T
  PROVE  \A n \in Nat : n \in T
<1> DEFINE Less == OpToRel(<, Nat)
           Rest == Nat \ T
<1> SUFFICES ASSUME Rest # {} PROVE FALSE
  OBVIOUS
<1>1. IsWellFoundedOn(Less, Nat)
  BY NatLessThanWellFounded
<1>2. Rest \subseteq Nat
  OBVIOUS
<1> HIDE DEF Less, Rest
<1>3. \E x \in Rest : \A y \in Rest : <<y, x>> \notin Less
  BY <1>1, <1>2, WFMin
<1>4. PICK x \in Rest : \A y \in Rest : <<y, x>> \notin Less
  BY <1>3
<1>5. x \in Nat /\ x # 0 /\ x \notin T
  BY <1>4 DEF Rest
<1>6. x - 1 \in Nat /\ x - 1 \notin T
  <2>1. x - 1 \in Nat /\ (x - 1) + 1 = x
    BY <1>5
  <2> QED
    BY <1>5, <2>1
<1>7. x - 1 \in Rest /\ <<x - 1, x>> \in Less
  BY <1>5, <1>6 DEF Rest, Less, OpToRel
<1> QED
  BY <1>4, <1>7

(* A set of numbers that has one has a least one. *)
LEMMA LeastNumber ==
  ASSUME NEW S, S # {}, S \subseteq Nat
  PROVE  \E j \in S : \A k \in S : j <= k
<1> DEFINE Less == OpToRel(<, Nat)
<1>1. IsWellFoundedOn(Less, Nat)
  BY NatLessThanWellFounded
<1>2. \A x, y \in Nat : y < x => <<y, x>> \in Less
  BY DEF OpToRel
<1> HIDE DEF Less
<1>3. PICK x \in S : \A y \in S : <<y, x>> \notin Less
  BY <1>1, WFMin
<1>4. ASSUME NEW y \in S PROVE x <= y
  <2>1. x \in Nat /\ y \in Nat /\ ~(y < x)
    BY <1>2, <1>3
  <2> QED
    BY <2>1
<1> QED
  BY <1>4

(* f starts with start and takes the steps of step one after another. *)
Steps(f, n, S, start, step) ==
  /\ f \in [0 .. n -> S] /\ f[0] = start
  /\ \A i \in 1 .. n : f[i] = step[<<i, f[i - 1]>>]

CanStep(n, S, start, step) == \E f : Steps(f, n, S, start, step)

(* Recursion: for every step function there is a function that takes the   *)
(* steps one after another, and only one.                                  *)
LEMMA RecursionExists ==
  ASSUME NEW n \in Nat, NEW S, NEW start \in S, NEW step \in [(1 .. n) \X S -> S]
  PROVE  CanStep(n, S, start, step)
<1> DEFINE T == {k \in Nat : k <= n => CanStep(k, S, start, step)}
<1>1. 0 \in T
  <2>1. Steps([i \in 0 .. 0 |-> start], 0, S, start, step)
    BY DEF Steps
  <2> QED
    BY <2>1 DEF CanStep
<1>2. ASSUME NEW k \in Nat, k \in T PROVE k + 1 \in T
  <2> SUFFICES ASSUME k + 1 <= n PROVE CanStep(k + 1, S, start, step)
    OBVIOUS
  <2>1. PICK f : Steps(f, k, S, start, step)
    BY <1>2 DEF CanStep
  <2> DEFINE g == [i \in 0 .. k + 1 |-> IF i = k + 1 THEN step[<<k + 1, f[k]>>] ELSE f[i]]
  <2> f \in [0 .. k -> S]
    BY <2>1 DEF Steps
  <2>2. step[<<k + 1, f[k]>>] \in S
    <3>1. <<k + 1, f[k]>> \in (1 .. n) \X S
      OBVIOUS
    <3> QED
      BY <3>1
  <2>3. g \in [0 .. k + 1 -> S]
    BY <2>2
  <2>4. g[0] = start
    BY <2>1 DEF Steps
  <2>5. ASSUME NEW i \in 1 .. k + 1 PROVE g[i] = step[<<i, g[i - 1]>>]
    <3>1. CASE i = k + 1
      <4>1. g[k + 1] = step[<<k + 1, f[k]>>] /\ g[k] = f[k] /\ i - 1 = k
        BY <3>1
      <4> QED
        BY <3>1, <4>1
    <3>2. CASE i # k + 1
      <4>1. i \in 1 .. k /\ i - 1 \in 0 .. k
        BY <3>2
      <4>2. g[i] = f[i] /\ g[i - 1] = f[i - 1]
        BY <4>1
      <4> QED
        BY <2>1, <4>1, <4>2 DEF Steps
    <3> QED
      BY <3>1, <3>2
  <2> HIDE DEF g
  <2> QED
    BY <2>3, <2>4, <2>5 DEF Steps, CanStep
<1> HIDE DEF T
<1>3. n \in T
  BY <1>1, <1>2, Induction
<1> QED
  BY <1>3 DEF T

(* Whatever starts in S and takes the steps while it is in S stays there. *)
StepsInside(g, n, S, start, step) ==
  /\ g[0] = start
  /\ \A i \in 1 .. n : g[i - 1] \in S => g[i] = step[<<i, g[i - 1]>>]

StaysIn(g, n, S) == \A i \in 0 .. n : g[i] \in S

LEMMA StepsStay ==
  ASSUME NEW n \in Nat, NEW S, NEW start \in S, NEW step \in [(1 .. n) \X S -> S], NEW g,
         StepsInside(g, n, S, start, step)
  PROVE  StaysIn(g, n, S)
<1> USE DEF StepsInside, StaysIn
<1> DEFINE T == {k \in Nat : k <= n => g[k] \in S}
<1>1. 0 \in T
  OBVIOUS
<1>2. ASSUME NEW k \in Nat, k \in T PROVE k + 1 \in T
  <2> SUFFICES ASSUME k + 1 <= n PROVE g[k + 1] \in S
    OBVIOUS
  <2>1. k + 1 \in 1 .. n /\ (k + 1) - 1 = k /\ g[k] \in S
    BY <1>2
  <2>2. g[k + 1] = step[<<k + 1, g[k]>>]
    BY <2>1
  <2>3. <<k + 1, g[k]>> \in (1 .. n) \X S
    BY <2>1
  <2> QED
    BY <2>2, <2>3
<1> HIDE DEF T
<1>3. \A k \in Nat : k \in T
  BY <1>1, <1>2, Induction
<1> QED
  BY <1>3 DEF T

(* Those goes through the list, step by step. *)
ThoseSteps(f, s, S) ==
  /\ Those(s, S) = f[Len(s)] /\ f[0] = <<>>
  /\ \A i \in 0 .. Len(s) : f[i] \in Seq(S)
  /\ \A i \in 1 .. Len(s) : f[i] = IF s[i] \in S THEN Append(f[i - 1], s[i]) ELSE f[i - 1]

LEMMA ThoseAllSteps ==
  ASSUME NEW T, NEW s \in Seq(T), NEW S
  PROVE  \E f : ThoseSteps(f, s, S)
<1> DEFINE N == Len(s)
           next(i, t) == IF s[i] \in S THEN Append(t, s[i]) ELSE t
           step == [x \in (1 .. N) \X Seq(S) |-> next(x[1], x[2])]
           Is(f) == f = [i \in 0 .. N |-> IF i = 0 THEN <<>> ELSE next(i, f[i - 1])]
           upTo == CHOOSE f : Is(f)
<1>0. N \in Nat
  OBVIOUS
<1>1. Those(s, S) = upTo[N]
  BY DEF Those
<1>2. \A i \in 1 .. N, t \in Seq(S) : next(i, t) \in Seq(S)
  OBVIOUS
<1>3. <<>> \in Seq(S)
  OBVIOUS
<1> HIDE DEF N, next, upTo
<1>4. step \in [(1 .. N) \X Seq(S) -> Seq(S)] /\ \A i \in 1 .. N, t \in Seq(S) :
                                                    step[<<i, t>>] = next(i, t)
  BY <1>2
<1> HIDE DEF step
<1>5. PICK f : Steps(f, N, Seq(S), <<>>, step)
  BY <1>0, <1>3, <1>4, RecursionExists DEF CanStep
<1>6. Is(f)
  <2>1. f = [i \in 0 .. N |-> f[i]] /\ f[0] = <<>>
    BY <1>5 DEF Steps
  <2>2. \A i \in 1 .. N : f[i - 1] \in Seq(S) /\ f[i] = step[<<i, f[i - 1]>>]
    BY <1>0, <1>5 DEF Steps
  <2>3. \A i \in 0 .. N : i = 0 \/ i \in 1 .. N
    BY <1>0
  <2>4. \A i \in 0 .. N : f[i] = IF i = 0 THEN <<>> ELSE next(i, f[i - 1])
    BY <1>4, <2>1, <2>2, <2>3, Zenon
  <2> QED
    BY <2>1, <2>4
<1>7. Is(upTo)
  <2> HIDE DEF Is
  <2> QED
    BY <1>6 DEF upTo
<1>8. /\ upTo[0] = <<>>
      /\ \A i \in 1 .. N : upTo[i] = next(i, upTo[i - 1])
  <2>1. \A i \in 0 .. N : upTo[i] = IF i = 0 THEN <<>> ELSE next(i, upTo[i - 1])
    BY <1>7
  <2> QED
    BY <1>0, <2>1
<1> HIDE DEF Is
<1>9. StaysIn(upTo, N, Seq(S))
  <2>1. \A i \in 1 .. N : upTo[i - 1] \in Seq(S) => upTo[i] = step[<<i, upTo[i - 1]>>]
    BY <1>4, <1>8
  <2>2. StepsInside(upTo, N, Seq(S), <<>>, step)
    BY <1>8, <2>1 DEF StepsInside
  <2> QED
    BY <1>0, <1>3, <1>4, <2>2, StepsStay
<1> QED
  BY <1>0, <1>1, <1>8, <1>9 DEF StaysIn, ThoseSteps, N, next

(* What is kept of a list is a list of what may be kept; and if the list   *)
(* has nothing twice, neither has what is kept of it.                      *)
LEMMA ThoseFacts ==
  ASSUME NEW T, NEW s \in Seq(T), NEW S
  PROVE  /\ Those(s, S) \in Seq(S)
         /\ Once(s) => Once(Those(s, S))
<1> DEFINE N == Len(s)
<1>0. N \in Nat
  OBVIOUS
<1>1. PICK f : ThoseSteps(f, s, S)
  BY ThoseAllSteps
<1>2. Those(s, S) \in Seq(S)
  BY <1>0, <1>1 DEF ThoseSteps
<1>3. ASSUME Once(s) PROVE Once(f[N])
  <2> DEFINE From(t, k) == \A i \in 1 .. Len(t) : \E j \in 1 .. k : t[i] = s[j]
             U == {k \in Nat : k <= N => Once(f[k]) /\ From(f[k], k)}
  <2>1. 0 \in U
    <3>1. f[0] = <<>> /\ Len(<<>>) = 0
      BY <1>1 DEF ThoseSteps
    <3> QED
      BY <3>1 DEF Once
  <2>2. ASSUME NEW k \in Nat, k \in U PROVE k + 1 \in U
    <3> SUFFICES ASSUME k + 1 <= N PROVE Once(f[k + 1]) /\ From(f[k + 1], k + 1)
      OBVIOUS
    <3>1. k \in 0 .. N /\ k + 1 \in 1 .. N /\ (k + 1) - 1 = k
      BY <1>0
    <3>2. /\ f[k] \in Seq(S) /\ Once(f[k]) /\ From(f[k], k)
          /\ f[k + 1] = IF s[k + 1] \in S THEN Append(f[k], s[k + 1]) ELSE f[k]
      BY <1>1, <2>2, <3>1 DEF ThoseSteps
    <3>3. CASE s[k + 1] \notin S
      <4>1. f[k + 1] = f[k]
        BY <3>2, <3>3
      <4> QED
        BY <3>2, <4>1
    <3>4. CASE s[k + 1] \in S
      <4> DEFINE t == f[k]
                 u == f[k + 1]
      <4>1. u = Append(t, s[k + 1]) /\ t \in Seq(S)
        BY <3>2, <3>4
      <4> HIDE DEF t, u
      <4>2. /\ Len(t) \in Nat /\ Len(u) = Len(t) + 1 /\ u[Len(t) + 1] = s[k + 1]
            /\ \A i \in 1 .. Len(t) : u[i] = t[i]
        BY <3>4, <4>1
      <4>3. From(t, k) /\ Once(t)
        BY <3>2 DEF t
      <4>4. \A i \in 1 .. Len(t) : t[i] # s[k + 1]
        <5> SUFFICES ASSUME NEW i \in 1 .. Len(t), t[i] = s[k + 1] PROVE FALSE
          OBVIOUS
        <5>1. PICK j \in 1 .. k : t[i] = s[j]
          BY <4>3
        <5>2. j \in 1 .. Len(s) /\ k + 1 \in 1 .. Len(s) /\ j # k + 1
          BY <3>1
        <5> QED
          BY <1>3, <5>1, <5>2 DEF Once
      <4>5. \A i \in 1 .. Len(u) : i = Len(t) + 1 \/ i \in 1 .. Len(t)
        BY <4>2
      <4>6. Once(u)
        BY <4>2, <4>3, <4>4, <4>5 DEF Once
      <4>7. From(u, k + 1)
        <5> SUFFICES ASSUME NEW i \in 1 .. Len(u) PROVE \E j \in 1 .. k + 1 : u[i] = s[j]
          OBVIOUS
        <5>1. CASE i = Len(t) + 1
          BY <4>2, <5>1
        <5>2. CASE i \in 1 .. Len(t)
          BY <4>2, <4>3, <5>2
        <5> QED
          BY <4>5, <5>1, <5>2
      <4> QED
        BY <4>6, <4>7 DEF u
    <3> QED
      BY <3>3, <3>4
  <2> HIDE DEF U
  <2>3. N \in U
    BY <1>0, <2>1, <2>2, Induction
  <2> QED
    BY <1>0, <2>3 DEF U
<1> QED
  BY <1>1, <1>2, <1>3 DEF ThoseSteps
=============================================================================
