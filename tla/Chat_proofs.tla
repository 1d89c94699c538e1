----------------------------- MODULE Chat_proofs -----------------------------
(***************************************************************************)
(* The table of users, the groups and the ids of the chat of lab6 zad1 are *)
(* right in every order of requests, answers and interrupts, for every     *)
(* number of clients, size of the table and of a group.  The last part     *)
(* shows the same of the table of zad2, whose server loses descriptors and *)
(* is started again, from the same lemmas about the table.                 *)
(***************************************************************************)
EXTENDS ChatServer, Recursion, FiniteSetTheorems

USE TableAssumption, ChatAssumption

-----------------------------------------------------------------------------
(* The rows of friendsGroups.                                              *)

Cells == 0 .. MAX_CLIENTS_COUNT * MAX_GROUP_SIZE - 1
Column == 0 .. MAX_GROUP_SIZE - 1

LEMMA Product ==
  ASSUME NEW m \in Nat, NEW a \in Int, NEW b \in Int, a < b
  PROVE  a * m + m <= b * m
<1>1. a * m + m = (a + 1) * m
  OBVIOUS
<1>2. b * m = (a + 1) * m + (b - a - 1) * m
  OBVIOUS
<1>3. (b - a - 1) * m >= 0 /\ (a + 1) * m \in Int /\ b * m \in Int
  OBVIOUS
<1> QED
  BY <1>1, <1>2, <1>3

LEMMA Quotient ==
  ASSUME NEW p \in Int, NEW m \in Int, m > 0
  PROVE  /\ p \div m \in Int /\ (p \div m) * m <= p /\ p < (p \div m) * m + m
         /\ \A q \in Int : q * m <= p /\ p < q * m + m => p \div m = q
<1>1. (p \div m) * m <= p
  OBVIOUS
<1>2. p < (p \div m) * m + m
  OBVIOUS
<1>3. ASSUME NEW q \in Int, q * m <= p, p < q * m + m PROVE p \div m = q
  BY <1>3
<1> QED
  BY <1>1, <1>2, <1>3

(* Rows lie behind one another in the array.                               *)
LEMMA CellFacts ==
  /\ \A u \in Slot, j \in Column : At(u, j) \in Cells /\ At(u, j) \div MAX_GROUP_SIZE = u
  /\ \A u, v \in Slot, j, k \in Column : At(u, j) = At(v, k) => u = v /\ j = k
  /\ \A p \in Cells : /\ p \div MAX_GROUP_SIZE \in Slot
                       /\ \E j \in Column : p = At(p \div MAX_GROUP_SIZE, j)
<1> DEFINE m == MAX_GROUP_SIZE
<1>0. m \in Nat \ {0} /\ MAX_CLIENTS_COUNT \in Nat /\ Slot \subseteq Nat
  BY DEF Slot
<1> HIDE DEF m
<1>1. ASSUME NEW u \in Slot, NEW j \in Column
      PROVE  At(u, j) \in Cells /\ At(u, j) \div m = u /\ At(u, j) = u * m + j
  <2>1. u * m + m <= MAX_CLIENTS_COUNT * m
    BY <1>0, Product DEF Slot
  <2>2. u * m \in Nat /\ MAX_CLIENTS_COUNT * m \in Nat
    BY <1>0
  <2>3. At(u, j) = u * m + j /\ j \in 0 .. m - 1
    BY DEF At, Column, m
  <2>4. At(u, j) \in Cells
    BY <1>0, <2>1, <2>2, <2>3 DEF Cells, m
  <2>5. At(u, j) \in Int /\ u * m <= At(u, j) /\ At(u, j) < u * m + m
    BY <1>0, <2>2, <2>3
  <2>6. At(u, j) \div m = u
    BY <1>0, <2>5, Quotient
  <2> QED
    BY <2>3, <2>4, <2>6
<1>2. ASSUME NEW u \in Slot, NEW v \in Slot, NEW j \in Column, NEW k \in Column,
             At(u, j) = At(v, k)
      PROVE  u = v /\ j = k
  <2>1. u = v
    BY <1>1, <1>2
  <2>2. u * m \in Nat
    BY <1>0
  <2> QED
    BY <1>0, <1>1, <1>2, <2>1, <2>2 DEF Column
<1>3. ASSUME NEW p \in Cells
      PROVE  p \div m \in Slot /\ \E j \in Column : p = At(p \div m, j)
  <2> DEFINE q == p \div m
  <2>0. p \in Int /\ p >= 0 /\ p < MAX_CLIENTS_COUNT * m /\ MAX_CLIENTS_COUNT * m \in Nat
    BY <1>0 DEF Cells, m
  <2>1. q \in Int /\ q * m <= p /\ p < q * m + m /\ q * m \in Int
    BY <1>0, <2>0, Quotient
  <2> HIDE DEF q
  <2>2. q >= 0
    <3> SUFFICES ASSUME q < 0 PROVE FALSE
      BY <2>1
    <3>1. q * m + m <= 0 * m
      BY <1>0, <2>1, Product
    <3> QED
      BY <1>0, <2>0, <2>1, <3>1
  <2>3. q < MAX_CLIENTS_COUNT
    <3> SUFFICES ASSUME MAX_CLIENTS_COUNT <= q PROVE FALSE
      BY <1>0, <2>1
    <3>1. CASE q = MAX_CLIENTS_COUNT
      BY <2>0, <2>1, <3>1
    <3>2. CASE MAX_CLIENTS_COUNT < q
      <4>1. MAX_CLIENTS_COUNT * m + m <= q * m
        BY <1>0, <2>1, <3>2, Product
      <4> QED
        BY <1>0, <2>0, <2>1, <4>1
    <3> QED
      BY <1>0, <2>1, <3>1, <3>2
  <2>4. q \in Slot
    BY <2>1, <2>2, <2>3 DEF Slot
  <2>5. p - q * m \in Column
    BY <1>0, <2>0, <2>1 DEF Column, m
  <2>6. p = At(q, p - q * m)
    BY <2>0, <2>1 DEF At, m
  <2> QED
    BY <2>4, <2>5, <2>6 DEF q
<1> QED
  BY <1>1, <1>2, <1>3 DEF m

LEMMA RowFacts ==
  ASSUME NEW u \in Slot
  PROVE  /\ \A j \in Int : At(u, j) \in Int /\ At(u, j) + 1 = At(u, j + 1)
         /\ \A j, k \in Int : At(u, j) <= At(u, k) <=> j <= k
         /\ \A v \in Slot, k \in Column, i, j \in -1 .. MAX_GROUP_SIZE - 1 :
              (0 <= i /\ At(v, k) \in At(u, i) .. At(u, j)) => v = u
<1>0. u \in Int /\ MAX_GROUP_SIZE \in Int /\ MAX_GROUP_SIZE > 0
  BY DEF Slot
<1>1. u * MAX_GROUP_SIZE \in Int
  BY <1>0
<1>2. \A j \in Int : At(u, j) \in Int /\ At(u, j) + 1 = At(u, j + 1)
  BY <1>1 DEF At
<1>3. \A j, k \in Int : At(u, j) <= At(u, k) <=> j <= k
  BY <1>1 DEF At
<1>4. ASSUME NEW v \in Slot, NEW k \in Column, NEW i \in -1 .. MAX_GROUP_SIZE - 1,
             NEW j \in -1 .. MAX_GROUP_SIZE - 1, 0 <= i, At(v, k) \in At(u, i) .. At(u, j)
      PROVE  v = u
  <2>1. At(v, k) \in Int /\ At(v, k) \div MAX_GROUP_SIZE = v
    BY CellFacts DEF Cells
  <2>2. /\ u * MAX_GROUP_SIZE <= At(v, k)
        /\ At(v, k) < u * MAX_GROUP_SIZE + MAX_GROUP_SIZE
    BY <1>0, <1>1, <1>4, <2>1 DEF At
  <2> QED
    BY <1>0, <2>1, <2>2, Quotient
<1> QED
  BY <1>2, <1>3, <1>4

(* A row and its length. *)
Half == [g : [Cells -> Slot], n : -1 .. MAX_GROUP_SIZE]

SameElsewhere(g, h, u) == \A v \in Slot \ {u}, j \in Column : h[At(v, j)] = g[At(v, j)]

(* Whoever is taken out is not there any more, and nobody else comes in. *)
LEMMA DeleteFacts ==
  ASSUME NEW g \in [Cells -> Slot], NEW n \in -1 .. MAX_GROUP_SIZE, NEW u \in Slot, NEW x
  PROVE  /\ Delete(g, n, u, x) \in Half
         /\ SameElsewhere(g, Delete(g, n, u, x).g, u)
         /\ \A S : RowRight(g, n, u, S) =>
              RowRight(Delete(g, n, u, x).g, Delete(g, n, u, x).n, u, S \ {x})
<1> DEFINE places == {j \in 0 .. n - 1 : g[At(u, j)] = x}
<1>0. 0 .. n - 1 \subseteq Column /\ MAX_GROUP_SIZE \in Int
  BY DEF Column
<1>1. CASE places = {}
  <2>1. Delete(g, n, u, x) = [g |-> g, n |-> n]
    BY <1>1 DEF Delete
  <2> HIDE DEF places
  <2>2. [g |-> g, n |-> n] \in Half
    BY DEF Half
  <2>3. ASSUME NEW S, RowRight(g, n, u, S) PROVE RowRight(g, n, u, S \ {x})
    <3>1. \A j \in 0 .. n - 1 : g[At(u, j)] # x
      BY <1>1 DEF places
    <3> QED
      BY <2>3, <3>1 DEF RowRight
  <2> QED
    BY <2>1, <2>2, <2>3 DEF SameElsewhere
<1>2. CASE places # {}
  <2> DEFINE first == CHOOSE j \in places : \A k \in places : j <= k
             h == [i \in Cells |-> IF i \in At(u, first) .. At(u, n - 2) THEN g[i + 1] ELSE g[i]]
  <2>1. Delete(g, n, u, x) = [g |-> h, n |-> n - 1]
    BY <1>2 DEF Delete
  <2>2. first \in places /\ \A k \in places : first <= k
    <3>1. places \in SUBSET Nat
      OBVIOUS
    <3> HIDE DEF places
    <3>2. PICK j \in places : \A k \in places : j <= k
      BY <1>2, <3>1, LeastNumber
    <3> QED
      BY <3>2
  <2>3. first \in 0 .. n - 1 /\ g[At(u, first)] = x
    BY <2>2
  <2> HIDE DEF first, places
  <2>4. n \in 1 .. MAX_GROUP_SIZE /\ n - 2 \in -1 .. MAX_GROUP_SIZE - 1
    BY <2>3
  <2>5. h \in [Cells -> Slot]
    <3> SUFFICES ASSUME NEW i \in Cells, i \in At(u, first) .. At(u, n - 2)
                 PROVE  i + 1 \in Cells
      OBVIOUS
    <3>1. At(u, n - 2) + 1 = At(u, n - 1) /\ At(u, n - 2) \in Int
      <4>1. n - 2 \in Int /\ (n - 2) + 1 = n - 1
        OBVIOUS
      <4> QED
        BY <4>1, RowFacts
    <3>2. At(u, n - 1) \in Cells
      BY <2>4, CellFacts DEF Column
    <3>3. At(u, first) \in Int
      BY <2>3, RowFacts
    <3> QED
      BY <3>1, <3>2, <3>3 DEF Cells
  <2>6. SameElsewhere(g, h, u)
    <3> SUFFICES ASSUME NEW v \in Slot \ {u}, NEW j \in Column PROVE h[At(v, j)] = g[At(v, j)]
      BY DEF SameElsewhere
    <3>1. At(v, j) \in Cells
      BY CellFacts
    <3>2. first \in -1 .. MAX_GROUP_SIZE - 1 /\ 0 <= first
      BY <2>3, <2>4
    <3>3. At(v, j) \notin At(u, first) .. At(u, n - 2)
      BY <2>4, <3>2, RowFacts
    <3> QED
      BY <3>1, <3>3
  <2>7. \A j \in 0 .. n - 2 : h[At(u, j)] = IF j < first THEN g[At(u, j)] ELSE g[At(u, j + 1)]
    <3> SUFFICES ASSUME NEW j \in 0 .. n - 2
                 PROVE  h[At(u, j)] = IF j < first THEN g[At(u, j)] ELSE g[At(u, j + 1)]
      OBVIOUS
    <3>1. At(u, j) \in Cells /\ At(u, j) \in Int
      BY <2>4, CellFacts, RowFacts DEF Column
    <3>2. At(u, j) + 1 = At(u, j + 1) /\ At(u, first) \in Int /\ At(u, n - 2) \in Int
      <4>1. j \in Int /\ first \in Int /\ n - 2 \in Int
        BY <2>3, <2>4
      <4> QED
        BY <4>1, RowFacts
    <3>3. At(u, j) \in At(u, first) .. At(u, n - 2) <=> first <= j
      <4>1. At(u, first) <= At(u, j) <=> first <= j
        BY <2>3, RowFacts
      <4>2. At(u, j) <= At(u, n - 2)
        BY <2>4, RowFacts
      <4> QED
        BY <3>1, <3>2, <4>1, <4>2
    <3> QED
      BY <2>3, <3>1, <3>2, <3>3
  <2> HIDE DEF h
  <2>8. ASSUME NEW S, RowRight(g, n, u, S) PROVE RowRight(h, n - 1, u, S \ {x})
    <3>1. \A j \in 0 .. n - 1 : j # first => g[At(u, j)] \in S \ {x}
      BY <2>3, <2>8 DEF RowRight
    <3>2. ASSUME NEW j \in 0 .. (n - 1) - 1 PROVE h[At(u, j)] \in S \ {x}
      BY <2>3, <2>4, <2>7, <3>1
    <3>3. ASSUME NEW j \in 0 .. (n - 1) - 1, NEW k \in 0 .. (n - 1) - 1,
                 h[At(u, j)] = h[At(u, k)]
          PROVE  j = k
      <4> DEFINE from(l) == IF l < first THEN l ELSE l + 1
      <4>1. /\ from(j) \in 0 .. n - 1 /\ from(k) \in 0 .. n - 1
            /\ h[At(u, j)] = g[At(u, from(j))] /\ h[At(u, k)] = g[At(u, from(k))]
        BY <2>3, <2>4, <2>7
      <4>2. from(j) = from(k)
        <5> HIDE DEF from
        <5> QED
          BY <2>8, <3>3, <4>1 DEF RowRight
      <4> QED
        BY <2>3, <4>2
    <3> QED
      BY <3>2, <3>3 DEF RowRight
  <2>9. [g |-> h, n |-> n - 1] \in Half
    BY <2>4, <2>5 DEF Half
  <2> QED
    BY <2>1, <2>6, <2>8, <2>9
<1> QED
  BY <1>1, <1>2

-----------------------------------------------------------------------------
(* DEL takes one id after another out.                                     *)

DeleteSteps(f, u, ids) ==
  /\ DeleteAll(u, ids) = f[Len(ids)]
  /\ \A i \in 0 .. Len(ids) : f[i] \in Half
  /\ f[0] = [g |-> friendsGroups, n |-> groupsSize[u]]
  /\ \A i \in 1 .. Len(ids) : f[i] = Delete(f[i - 1].g, f[i - 1].n, u, ids[i])

LEMMA DeleteAllSteps ==
  ASSUME friendsGroups \in [Cells -> Slot], NEW u \in Slot,
         groupsSize[u] \in -1 .. MAX_GROUP_SIZE, NEW ids, Len(ids) \in Nat
  PROVE  \E f : DeleteSteps(f, u, ids)
<1> DEFINE N == Len(ids)
           start == [g |-> friendsGroups, n |-> groupsSize[u]]
           step == [x \in (1 .. N) \X Half |-> Delete(x[2].g, x[2].n, u, ids[x[1]])]
           Is(f) == f = [i \in 0 .. N |-> IF i = 0 THEN start
                                          ELSE Delete(f[i - 1].g, f[i - 1].n, u, ids[i])]
           upTo == CHOOSE f : Is(f)
<1>1. start \in Half
  BY DEF Half
<1>2. step \in [(1 .. N) \X Half -> Half]
  <2> SUFFICES ASSUME NEW i \in 1 .. N, NEW h \in Half
               PROVE  Delete(h.g, h.n, u, ids[i]) \in Half
    OBVIOUS
  <2>1. h.g \in [Cells -> Slot] /\ h.n \in -1 .. MAX_GROUP_SIZE
    BY DEF Half
  <2> QED
    BY <2>1, DeleteFacts
<1>3. \A i \in 1 .. N, h \in Half : step[<<i, h>>] = Delete(h.g, h.n, u, ids[i])
  OBVIOUS
<1> HIDE DEF start, step, N
<1>0. N \in Nat
  BY DEF N
<1>4. PICK f : Steps(f, N, Half, start, step)
  BY <1>0, <1>1, <1>2, RecursionExists DEF CanStep
<1>5. Is(f)
  <2>1. f = [i \in 0 .. N |-> f[i]]
    BY <1>4 DEF Steps
  <2>2. \A i \in 1 .. N : f[i - 1] \in Half /\ f[i] = step[<<i, f[i - 1]>>]
    BY <1>0, <1>4 DEF Steps
  <2>3. \A i \in 1 .. N : f[i] = Delete(f[i - 1].g, f[i - 1].n, u, ids[i])
    BY <1>3, <2>2
  <2>4. \A i \in 0 .. N : i = 0 \/ i \in 1 .. N
    OBVIOUS
  <2>5. f[0] = start
    BY <1>4 DEF Steps
  <2>6. \A i \in 0 .. N : f[i] = IF i = 0 THEN start
                                 ELSE Delete(f[i - 1].g, f[i - 1].n, u, ids[i])
    BY <2>3, <2>4, <2>5, Zenon
  <2> QED
    BY <2>1, <2>6
<1>6. Is(upTo)
  <2> HIDE DEF Is
  <2> QED
    BY <1>5
<1>7. DeleteAll(u, ids) = upTo[N]
  BY DEF DeleteAll, start, N
<1> HIDE DEF upTo
<1>8. /\ upTo[0] = start
      /\ \A i \in 1 .. N : upTo[i] = Delete(upTo[i - 1].g, upTo[i - 1].n, u, ids[i])
      /\ upTo = [i \in 0 .. N |-> upTo[i]]
  <2>1. \A i \in 0 .. N : upTo[i] = IF i = 0 THEN start
                                    ELSE Delete(upTo[i - 1].g, upTo[i - 1].n, u, ids[i])
    BY <1>6
  <2>2. upTo = [i \in 0 .. N |-> upTo[i]]
    BY <1>6
  <2>3. upTo[0] = start
    <3>1. 0 \in 0 .. N
      BY <1>0
    <3> QED
      BY <2>1, <3>1
  <2>4. ASSUME NEW i \in 1 .. N PROVE upTo[i] = Delete(upTo[i - 1].g, upTo[i - 1].n, u, ids[i])
    <3>1. i \in 0 .. N /\ i # 0
      BY <1>0
    <3> QED
      BY <2>1, <3>1
  <2> QED
    BY <2>2, <2>3, <2>4
<1> HIDE DEF Is
<1>9. StaysIn(upTo, N, Half)
  <2>1. \A i \in 1 .. N : upTo[i - 1] \in Half => upTo[i] = step[<<i, upTo[i - 1]>>]
    BY <1>3, <1>8
  <2>2. StepsInside(upTo, N, Half, start, step)
    BY <1>8, <2>1 DEF StepsInside
  <2> QED
    BY <1>0, <1>1, <1>2, <2>2, StepsStay
<1> QED
  BY <1>7, <1>8, <1>9 DEF start, StaysIn, DeleteSteps, N

LEMMA DeleteAllFacts ==
  ASSUME friendsGroups \in [Cells -> Slot], NEW u \in Slot,
         groupsSize[u] \in -1 .. MAX_GROUP_SIZE, NEW ids, Len(ids) \in Nat
  PROVE  /\ DeleteAll(u, ids) \in Half
         /\ SameElsewhere(friendsGroups, DeleteAll(u, ids).g, u)
         /\ \A S : RowRight(friendsGroups, groupsSize[u], u, S) =>
              RowRight(DeleteAll(u, ids).g, DeleteAll(u, ids).n, u, S)
<1> DEFINE N == Len(ids)
<1> HIDE DEF N
<1>1. PICK f : DeleteSteps(f, u, ids)
  BY DeleteAllSteps
<1> DEFINE Good(h) == /\ SameElsewhere(friendsGroups, h.g, u)
                      /\ \A S : RowRight(friendsGroups, groupsSize[u], u, S) =>
                           RowRight(h.g, h.n, u, S)
           T == {k \in Nat : k <= N => Good(f[k])}
<1>2. 0 \in T
  BY <1>1 DEF SameElsewhere, DeleteSteps
<1>3. ASSUME NEW k \in Nat, k \in T PROVE k + 1 \in T
  <2> SUFFICES ASSUME k + 1 <= N PROVE Good(f[k + 1])
    OBVIOUS
  <2>1. /\ k + 1 \in 1 .. N /\ f[k] \in Half /\ Good(f[k])
        /\ f[k + 1] = Delete(f[k].g, f[k].n, u, ids[k + 1])
    <3>1. k + 1 \in 1 .. N /\ (k + 1) - 1 = k /\ k \in 0 .. N
      BY DEF N
    <3> QED
      BY <1>1, <1>3, <3>1 DEF DeleteSteps, N
  <2>2. f[k].g \in [Cells -> Slot] /\ f[k].n \in -1 .. MAX_GROUP_SIZE
    BY <2>1 DEF Half
  <2>3. /\ SameElsewhere(f[k].g, f[k + 1].g, u)
        /\ \A S : RowRight(f[k].g, f[k].n, u, S) =>
             RowRight(f[k + 1].g, f[k + 1].n, u, S \ {ids[k + 1]})
    BY <2>1, <2>2, DeleteFacts
  <2>4. SameElsewhere(friendsGroups, f[k + 1].g, u)
    BY <2>1, <2>3 DEF SameElsewhere
  <2>5. ASSUME NEW S, RowRight(friendsGroups, groupsSize[u], u, S)
        PROVE  RowRight(f[k + 1].g, f[k + 1].n, u, S)
    <3>1. RowRight(f[k + 1].g, f[k + 1].n, u, S \ {ids[k + 1]})
      BY <2>1, <2>3, <2>5
    <3> QED
      BY <3>1 DEF RowRight
  <2> QED
    BY <2>4, <2>5
<1> HIDE DEF T
<1>4. N \in T
  BY <1>2, <1>3, Induction DEF N
<1>5. Good(f[N]) /\ f[N] \in Half
  BY <1>1, <1>4 DEF T, N, DeleteSteps
<1> QED
  BY <1>1, <1>5 DEF DeleteSteps, N

-----------------------------------------------------------------------------
(* FRIENDS and ADD write one id after another.                             *)

Row == [g : [Cells -> Slot], n : Int]

LEMMA CollectOneType ==
  ASSUME NEW u \in Slot, NEW x \in Slot, NEW b \in Row
  PROVE  /\ CollectOne(u, x, b) \in Row
         /\ CollectOne(u, x, b).g = Write(b.g, u, b.n, x)
         /\ CollectOne(u, x, b).n =
              IF Keeps(Write(b.g, u, b.n, x), u, x) THEN b.n + 1 ELSE b.n
<1>1. b.g \in [Cells -> Slot] /\ b.n \in Int
  BY DEF Row
<1>2. Write(b.g, u, b.n, x) \in [Cells -> Slot]
  BY <1>1 DEF Write
<1> QED
  BY <1>1, <1>2 DEF CollectOne, Row

CollectSteps(f, u, ids, start) ==
  /\ Collect(u, ids, start) = f[Len(ids)]
  /\ \A i \in 0 .. Len(ids) : f[i] \in Row
  /\ f[0] = [g |-> friendsGroups, n |-> start]
  /\ \A i \in 1 .. Len(ids) : f[i] = CollectOne(u, ids[i], f[i - 1])

LEMMA CollectAllSteps ==
  ASSUME friendsGroups \in [Cells -> Slot], NEW u \in Slot, NEW first \in Int,
         NEW ids \in Seq(Slot)
  PROVE  \E f : CollectSteps(f, u, ids, first)
<1> DEFINE N == Len(ids)
           start == [g |-> friendsGroups, n |-> first]
           step == [x \in (1 .. N) \X Row |-> CollectOne(u, ids[x[1]], x[2])]
           Is(f) == f = [i \in 0 .. N |-> IF i = 0 THEN start
                                          ELSE CollectOne(u, ids[i], f[i - 1])]
           upTo == CHOOSE f : Is(f)
<1>0. N \in Nat /\ \A i \in 1 .. N : ids[i] \in Slot
  OBVIOUS
<1>1. start \in Row
  BY DEF Row
<1> HIDE DEF N
<1>2. step \in [(1 .. N) \X Row -> Row]
  BY <1>0, CollectOneType
<1>3. \A i \in 1 .. N, h \in Row : step[<<i, h>>] = CollectOne(u, ids[i], h)
  OBVIOUS
<1> HIDE DEF start, step
<1>4. PICK f : Steps(f, N, Row, start, step)
  BY <1>0, <1>1, <1>2, RecursionExists DEF CanStep
<1>5. Is(f)
  <2>1. f = [i \in 0 .. N |-> f[i]] /\ f[0] = start
    BY <1>4 DEF Steps
  <2>2. \A i \in 1 .. N : f[i - 1] \in Row /\ f[i] = step[<<i, f[i - 1]>>]
    BY <1>0, <1>4 DEF Steps
  <2>3. \A i \in 1 .. N : f[i] = CollectOne(u, ids[i], f[i - 1])
    BY <1>3, <2>2
  <2>4. \A i \in 0 .. N : i = 0 \/ i \in 1 .. N
    BY <1>0
  <2>5. \A i \in 0 .. N : f[i] = IF i = 0 THEN start ELSE CollectOne(u, ids[i], f[i - 1])
    BY <2>1, <2>3, <2>4, Zenon
  <2> QED
    BY <2>1, <2>5
<1>6. Is(upTo)
  <2> HIDE DEF Is
  <2> QED
    BY <1>5
<1>7. Collect(u, ids, first) = upTo[N]
  BY DEF Collect, start, N
<1> HIDE DEF upTo
<1>8. /\ upTo[0] = start
      /\ \A i \in 1 .. N : upTo[i] = CollectOne(u, ids[i], upTo[i - 1])
  <2>1. \A i \in 0 .. N : upTo[i] = IF i = 0 THEN start ELSE CollectOne(u, ids[i], upTo[i - 1])
    BY <1>6
  <2> QED
    BY <1>0, <2>1
<1> HIDE DEF Is
<1>9. StaysIn(upTo, N, Row)
  <2>1. \A i \in 1 .. N : upTo[i - 1] \in Row => upTo[i] = step[<<i, upTo[i - 1]>>]
    BY <1>3, <1>8
  <2>2. StepsInside(upTo, N, Row, start, step)
    BY <1>8, <2>1 DEF StepsInside
  <2> QED
    BY <1>0, <1>1, <1>2, <2>2, StepsStay
<1> QED
  BY <1>7, <1>8, <1>9 DEF start, StaysIn, CollectSteps, N

(* The row is as long as it was, and as long as there are ids at most.     *)
LEMMA CollectType ==
  ASSUME friendsGroups \in [Cells -> Slot], NEW u \in Slot, NEW first \in Int,
         NEW ids \in Seq(Slot)
  PROVE  /\ Collect(u, ids, first).g \in [Cells -> Slot]
         /\ Collect(u, ids, first).n \in first .. first + Len(ids)
         /\ Collect(u, ids, first) \in Row
<1> DEFINE N == Len(ids)
<1>0. N \in Nat /\ \A i \in 1 .. N : ids[i] \in Slot
  OBVIOUS
<1> HIDE DEF N
<1>1. PICK f : CollectSteps(f, u, ids, first)
  BY CollectAllSteps
<1> DEFINE T == {k \in Nat : k <= N => f[k].n \in first .. first + k}
<1>2. 0 \in T
  BY <1>1 DEF CollectSteps
<1>3. ASSUME NEW k \in Nat, k \in T PROVE k + 1 \in T
  <2> SUFFICES ASSUME k + 1 <= N PROVE f[k + 1].n \in first .. first + (k + 1)
    OBVIOUS
  <2>1. k + 1 \in 1 .. N /\ (k + 1) - 1 = k /\ k \in 0 .. N
    BY <1>0
  <2>2. f[k] \in Row /\ f[k].n \in first .. first + k /\ f[k + 1] = CollectOne(u, ids[k + 1], f[k])
    BY <1>1, <1>3, <2>1 DEF CollectSteps, N
  <2>3. f[k + 1].n = f[k].n + 1 \/ f[k + 1].n = f[k].n
    BY <1>0, <2>1, <2>2, CollectOneType
  <2> QED
    BY <2>2, <2>3
<1> HIDE DEF T
<1>4. N \in T
  BY <1>0, <1>2, <1>3, Induction
<1>5. f[N].n \in first .. first + N /\ f[N] \in Row
  BY <1>0, <1>1, <1>4 DEF T, CollectSteps, N
<1> QED
  BY <1>1, <1>5 DEF CollectSteps, N, Row

(* An id is written behind the row, and the rest stays as it is. *)
Written(g, h, u, n, x) ==
  /\ h[At(u, n)] = x
  /\ \A j \in Column \ {n} : h[At(u, j)] = g[At(u, j)]
  /\ SameElsewhere(g, h, u)

LEMMA WriteFacts ==
  ASSUME NEW g \in [Cells -> Slot], NEW u \in Slot, NEW n \in Column, NEW x \in Slot
  PROVE  Written(g, Write(g, u, n, x), u, n, x)
<1>1. At(u, n) \in Cells
  BY CellFacts
<1>2. Write(g, u, n, x) = [g EXCEPT ![At(u, n)] = x]
  BY <1>1 DEF Write
<1>3. \A j \in Column \ {n} : At(u, j) \in Cells /\ At(u, j) # At(u, n)
  BY CellFacts
<1>4. \A v \in Slot \ {u}, j \in Column : At(v, j) \in Cells /\ At(v, j) # At(u, n)
  BY CellFacts
<1> QED
  BY <1>1, <1>2, <1>3, <1>4 DEF SameElsewhere, Written

(* The ids of a list are members of the group once each, if they come once *)
(* each in the list and are not checked against the group that is replaced *)
(* (first = 0) or are checked against the group they are added to.         *)
LEMMA CollectFacts ==
  ASSUME friendsGroups \in [Cells -> Slot], NEW u \in Slot, NEW ids \in Seq(Slot),
         \A i, j \in DOMAIN ids : ids[i] = ids[j] => i = j,
         NEW first \in 0 .. MAX_GROUP_SIZE, first + Len(ids) <= MAX_GROUP_SIZE,
         first = 0 \/ first = groupsSize[u],
         RowRight(friendsGroups, first, u, Registered \ {u})
  PROVE  /\ SameElsewhere(friendsGroups, Collect(u, ids, first).g, u)
         /\ RowRight(Collect(u, ids, first).g, Collect(u, ids, first).n, u, Registered \ {u})
<1> DEFINE N == Len(ids)
           R == Registered \ {u}
<1>0. /\ N \in Nat /\ DOMAIN ids = 1 .. N /\ first + N <= MAX_GROUP_SIZE
      /\ \A i \in 1 .. N : ids[i] \in Slot
  OBVIOUS
<1> HIDE DEF N, R
<1>1. PICK f : CollectSteps(f, u, ids, first)
  BY CollectAllSteps
<1> DEFINE FromIds(h, k) == \A j \in first .. h.n - 1 : \E l \in 1 .. k : h.g[At(u, j)] = ids[l]
           Good(h, k) == /\ h.n \in first .. first + k
                         /\ SameElsewhere(friendsGroups, h.g, u)
                         /\ RowRight(h.g, h.n, u, R)
                         /\ FromIds(h, k)
           T == {k \in Nat : k <= N => Good(f[k], k)}
<1>2. 0 \in T
  BY <1>1 DEF CollectSteps, SameElsewhere, R
<1>3. ASSUME NEW k \in Nat, k \in T PROVE k + 1 \in T
  <2> SUFFICES ASSUME k + 1 <= N PROVE Good(f[k + 1], k + 1)
    OBVIOUS
  <2> DEFINE x == ids[k + 1]
             b == f[k]
             n == b.n
             w == Write(b.g, u, n, x)
  <2>1. k + 1 \in 1 .. N /\ (k + 1) - 1 = k /\ k \in 0 .. N
    BY <1>0
  <2>2. b \in Row /\ Good(b, k) /\ f[k + 1] = CollectOne(u, x, b) /\ x \in Slot
    BY <1>0, <1>1, <1>3, <2>1 DEF CollectSteps, N
  <2>3. f[k + 1].g = w /\ f[k + 1].n = IF Keeps(w, u, x) THEN n + 1 ELSE n
    BY <2>2, CollectOneType
  <2> HIDE DEF x
  <2>4. b.g \in [Cells -> Slot] /\ n \in Column /\ n \in Nat /\ n <= first + k
    BY <1>0, <2>1, <2>2 DEF Row, Column
  <2>5. /\ w[At(u, n)] = x /\ SameElsewhere(b.g, w, u)
        /\ \A j \in 0 .. n - 1 : w[At(u, j)] = b.g[At(u, j)]
    <3>1. \A j \in 0 .. n - 1 : j \in Column \ {n}
      BY <2>4 DEF Column
    <3>2. x \in Slot
      BY <2>2
    <3>3. /\ w[At(u, n)] = x /\ SameElsewhere(b.g, w, u)
          /\ \A j \in Column \ {n} : w[At(u, j)] = b.g[At(u, j)]
      <4>1. b.g \in [Cells -> Slot] /\ n \in Column
        BY <2>4
      <4> HIDE DEF b, n
      <4>2. Written(b.g, w, u, n, x)
        BY <3>2, <4>1, WriteFacts
      <4> HIDE DEF w
      <4> QED
        BY <4>2 DEF Written
    <3> HIDE DEF w, n
    <3> QED
      BY <3>1, <3>3
  <2> HIDE DEF w, n, b
  <2>6. /\ \A j \in 0 .. n - 1 : w[At(u, j)] \in R
        /\ \A j, l \in 0 .. n - 1 : w[At(u, j)] = w[At(u, l)] => j = l
    BY <2>2, <2>5 DEF RowRight, n
  <2>7. \A j \in first .. n - 1 : \E l \in 1 .. k : w[At(u, j)] = ids[l]
    <3>1. \A j \in first .. n - 1 : j \in 0 .. n - 1
      BY <2>4
    <3> QED
      BY <2>2, <2>5, <3>1 DEF n
  <2>8. SameElsewhere(friendsGroups, w, u)
    BY <2>2, <2>5 DEF SameElsewhere
  <2>9. CASE ~Keeps(w, u, x)
    <3>1. f[k + 1].g = w /\ f[k + 1].n = n
      BY <2>3, <2>9 DEF n, w
    <3>2. n \in first .. first + (k + 1)
      BY <2>2 DEF n
    <3>3. RowRight(w, n, u, R)
      BY <2>6 DEF RowRight
    <3>4. \A j \in first .. n - 1 : \E l \in 1 .. k + 1 : w[At(u, j)] = ids[l]
      <4>1. 1 .. k \subseteq 1 .. k + 1
        OBVIOUS
      <4> QED
        BY <2>7, <4>1
    <3> QED
      BY <2>8, <3>1, <3>2, <3>3, <3>4
  <2>10. CASE Keeps(w, u, x)
    <3>1. f[k + 1].g = w /\ f[k + 1].n = n + 1
      BY <2>3, <2>10 DEF n, w
    <3>2. n + 1 \in first .. first + (k + 1)
      BY <2>2, <2>4 DEF n
    <3>3. x \in R
      BY <2>2, <2>10 DEF Keeps, userExist, Registered, R
    <3>4. ASSUME NEW j \in 0 .. n - 1 PROVE w[At(u, j)] # x
      <4>1. CASE j < first
        <5>1. j \in 0 .. groupsSize[u] - 1
          BY <4>1
        <5> QED
          BY <2>10, <5>1 DEF Keeps, existInGroup
      <4>2. CASE first <= j
        <5>1. PICK l \in 1 .. k : w[At(u, j)] = ids[l]
          BY <2>7, <4>2
        <5>2. l \in DOMAIN ids /\ k + 1 \in DOMAIN ids /\ l # k + 1
          BY <1>0, <2>1
        <5> QED
          BY <5>1, <5>2 DEF x
      <4> QED
        BY <4>1, <4>2
    <3>5. \A j \in 0 .. (n + 1) - 1 : j = n \/ j \in 0 .. n - 1
      BY <2>4
    <3>6. RowRight(w, n + 1, u, R)
      <4>1. \A j \in 0 .. (n + 1) - 1 : w[At(u, j)] \in R
        BY <2>5, <2>6, <3>3, <3>5
      <4>2. \A j, l \in 0 .. (n + 1) - 1 : w[At(u, j)] = w[At(u, l)] => j = l
        BY <2>5, <2>6, <3>4, <3>5
      <4> QED
        BY <4>1, <4>2 DEF RowRight
    <3>7. \A j \in first .. (n + 1) - 1 : \E l \in 1 .. k + 1 : w[At(u, j)] = ids[l]
      <4> TAKE j \in first .. (n + 1) - 1
      <4>1. CASE j = n
        <5>1. k + 1 \in 1 .. k + 1 /\ w[At(u, j)] = ids[k + 1]
          BY <2>5, <4>1 DEF x
        <5> QED
          BY <5>1
      <4>2. CASE j \in first .. n - 1
        <5>1. PICK l \in 1 .. k : w[At(u, j)] = ids[l]
          BY <2>7, <4>2
        <5>2. l \in 1 .. k + 1
          OBVIOUS
        <5> QED
          BY <5>1, <5>2
      <4> QED
        BY <2>4, <4>1, <4>2
    <3> QED
      BY <2>8, <3>1, <3>2, <3>6, <3>7
  <2> QED
    BY <2>9, <2>10
<1> HIDE DEF T
<1>4. N \in T
  BY <1>0, <1>2, <1>3, Induction
<1>5. Good(f[N], N)
  BY <1>0, <1>4 DEF T
<1> QED
  BY <1>1, <1>5 DEF CollectSteps, N, R

-----------------------------------------------------------------------------
(* The commands and the groups.                                            *)

GroupsType ==
  /\ groupsSize \in [Slot -> -1 .. MAX_GROUP_SIZE]
  /\ friendsGroups \in [Cells -> Slot] /\ stray \in BOOLEAN

LEMMA SetGroupType ==
  ASSUME GroupsType, NEW u \in Slot, NEW new, new.g \in [Cells -> Slot],
         new.n \in -1 .. MAX_GROUP_SIZE, SetGroup(u, new)
  PROVE  /\ groupsSize' \in [Slot -> -1 .. MAX_GROUP_SIZE]
         /\ friendsGroups' \in [Cells -> Slot]
         /\ friendsGroups' = new.g /\ groupsSize'[u] = new.n
         /\ \A v \in Slot \ {u} : groupsSize'[v] = groupsSize[v]
BY DEF SetGroup, GroupsType

LEMMA SetGroupRows ==
  ASSUME GroupsType, RowsInv, NEW u \in Slot, u < nextClientID, nextClientID \in Nat,
         NEW new, new.g \in [Cells -> Slot], new.n \in -1 .. MAX_GROUP_SIZE,
         SetGroup(u, new), UNCHANGED users, stray' \in BOOLEAN,
         NoIdTwice /\ ~stray' =>
           /\ ~stray /\ SameElsewhere(friendsGroups, new.g, u)
           /\ RowRight(new.g, new.n, u, Registered \ {u})
  PROVE  GroupsType' /\ RowsInv'
<1>1. /\ groupsSize' \in [Slot -> -1 .. MAX_GROUP_SIZE]
      /\ friendsGroups' \in [Cells -> Slot]
      /\ friendsGroups' = new.g /\ groupsSize'[u] = new.n
      /\ \A v \in Slot \ {u} : groupsSize'[v] = groupsSize[v]
  BY SetGroupType
<1>2. Registered' = Registered /\ nextClientID' = nextClientID
  BY DEF users, Registered
<1>3. ASSUME NEW v \in Slot, v >= nextClientID' PROVE groupsSize'[v] = -1
  <2>1. v \in Int /\ u \in Int /\ v >= nextClientID
    BY <1>2, <1>3 DEF Slot
  <2>2. v # u /\ groupsSize[v] = -1
    BY <2>1 DEF RowsInv
  <2> QED
    BY <1>1, <2>2
<1>4. ASSUME NoIdTwice, ~stray', NEW v \in Slot
      PROVE  RowRight(friendsGroups', groupsSize'[v], v, Registered' \ {v})
  <2>1. CASE v = u
    BY <1>1, <1>2, <1>4, <2>1
  <2>2. CASE v # u
    <3>1. RowRight(friendsGroups, groupsSize[v], v, Registered \ {v})
      BY <1>4 DEF RowsInv
    <3>2. 0 .. groupsSize[v] - 1 \subseteq Column
      BY DEF GroupsType, Column
    <3>3. \A j \in 0 .. groupsSize[v] - 1 : new.g[At(v, j)] = friendsGroups[At(v, j)]
      BY <1>4, <2>2, <3>2 DEF SameElsewhere
    <3>4. RowRight(new.g, groupsSize[v], v, Registered \ {v})
      BY <3>1, <3>3 DEF RowRight
    <3> QED
      BY <1>1, <1>2, <2>2, <3>4
  <2> QED
    BY <2>1, <2>2
<1>5. RowsInv'
  <2>1. \A v \in Slot : RowRight(friendsGroups, groupsSize[v], v, Registered \ {v})'
          <=> RowRight(friendsGroups', groupsSize'[v], v, Registered' \ {v})
    BY DEF RowRight, At
  <2>2. NoIdTwice' <=> NoIdTwice
    BY DEF NoIdTwice
  <2> QED
    BY <1>3, <1>4, <2>1, <2>2 DEF RowsInv
<1> QED
  BY <1>1, <1>5 DEF GroupsType

LEMMA UnchangedRows ==
  ASSUME GroupsType, RowsInv, UNCHANGED <<groups, users>>
  PROVE  GroupsType' /\ RowsInv'
BY DEF GroupsType, RowsInv, groups, users, RowRight, At, Registered, NoIdTwice

LEMMA FriendsRows ==
  ASSUME GroupsType, RowsInv, NEW u \in Slot, u < nextClientID, nextClientID \in Nat,
         NEW ids \in Lists, Friends(u, ids)
  PROVE  GroupsType' /\ RowsInv'
<1>0. ids \in Seq(Slot) /\ Len(ids) \in Nat /\ UNCHANGED <<users, stray>>
  BY DEF Friends
<1>1. CASE Len(ids) > MAX_GROUP_SIZE
  BY <1>0, <1>1, UnchangedRows DEF Friends, groups
<1>2. CASE ~(Len(ids) > MAX_GROUP_SIZE)
  <2> DEFINE new == Collect(u, ids, 0)
  <2>1. SetGroup(u, new) /\ 0 + Len(ids) <= MAX_GROUP_SIZE
    BY <1>0, <1>2 DEF Friends
  <2>2. new.g \in [Cells -> Slot] /\ new.n \in 0 .. 0 + Len(ids)
    BY <1>0, CollectType DEF GroupsType
  <2>3. new.n \in -1 .. MAX_GROUP_SIZE
    BY <1>0, <2>1, <2>2
  <2>4. ASSUME NoIdTwice, ~stray'
        PROVE  /\ ~stray /\ SameElsewhere(friendsGroups, new.g, u)
               /\ RowRight(new.g, new.n, u, Registered \ {u})
    <3>1. \A i, j \in DOMAIN ids : ids[i] = ids[j] => i = j
      BY <2>4 DEF NoIdTwice
    <3>2. 0 \in 0 .. MAX_GROUP_SIZE /\ RowRight(friendsGroups, 0, u, Registered \ {u})
      BY DEF RowRight
    <3> QED
      BY <1>0, <2>1, <2>4, <3>1, <3>2, CollectFacts DEF GroupsType
  <2> HIDE DEF new
  <2>5. stray' \in BOOLEAN /\ UNCHANGED users
    BY <1>0 DEF GroupsType
  <2> QED
    BY <2>1, <2>2, <2>3, <2>4, <2>5, SetGroupRows
<1> QED
  BY <1>1, <1>2

LEMMA AddRows ==
  ASSUME GroupsType, RowsInv, NEW u \in Slot, u < nextClientID, nextClientID \in Nat,
         NEW ids \in Lists, Add(u, ids)
  PROVE  GroupsType' /\ RowsInv'
<1> DEFINE first == groupsSize[u]
<1>0. ids \in Seq(Slot) /\ Len(ids) \in Nat /\ UNCHANGED users /\ first \in -1 .. MAX_GROUP_SIZE
  BY DEF Add, GroupsType
<1>1. CASE Len(ids) + first > MAX_GROUP_SIZE
  <2>1. UNCHANGED groups
    BY <1>1 DEF Add
  <2> QED
    BY <1>0, <2>1, UnchangedRows
<1>2. CASE ~(Len(ids) + first > MAX_GROUP_SIZE)
  <2> DEFINE new == Collect(u, ids, first)
  <2>1. SetGroup(u, new) /\ stray' = (stray \/ first < 0) /\ first + Len(ids) <= MAX_GROUP_SIZE
    BY <1>0, <1>2 DEF Add
  <2>2. new.g \in [Cells -> Slot] /\ new.n \in first .. first + Len(ids)
    BY <1>0, CollectType DEF GroupsType
  <2>3. new.n \in -1 .. MAX_GROUP_SIZE
    BY <1>0, <2>1, <2>2
  <2>4. ASSUME NoIdTwice, ~stray'
        PROVE  /\ ~stray /\ SameElsewhere(friendsGroups, new.g, u)
               /\ RowRight(new.g, new.n, u, Registered \ {u})
    <3>1. \A i, j \in DOMAIN ids : ids[i] = ids[j] => i = j
      BY <2>4 DEF NoIdTwice
    <3>2. ~stray /\ first \in 0 .. MAX_GROUP_SIZE
      <4>1. ~stray /\ ~(first < 0)
        BY <2>1, <2>4, Zenon
      <4> QED
        BY <1>0, <4>1
    <3>3. RowRight(friendsGroups, first, u, Registered \ {u})
      BY <2>4, <3>2 DEF RowsInv
    <3>4. friendsGroups \in [Cells -> Slot] /\ (first = 0 \/ first = groupsSize[u])
      BY DEF GroupsType
    <3> HIDE DEF first
    <3> QED
      BY <1>0, <2>1, <3>1, <3>2, <3>3, <3>4, CollectFacts
  <2> HIDE DEF new
  <2>5. stray' \in BOOLEAN
    BY <2>1 DEF GroupsType
  <2> QED
    BY <1>0, <2>1, <2>2, <2>3, <2>4, <2>5, SetGroupRows
<1> QED
  BY <1>1, <1>2

LEMMA DelRows ==
  ASSUME GroupsType, RowsInv, NEW u \in Slot, u < nextClientID, nextClientID \in Nat,
         NEW ids \in Lists, Del(u, ids)
  PROVE  GroupsType' /\ RowsInv'
<1> DEFINE new == DeleteAll(u, ids)
<1>1. /\ SetGroup(u, new) /\ UNCHANGED users /\ stray' = stray
      /\ ids \in Seq(Slot) /\ Len(ids) \in Nat
  BY DEF Del
<1>2. /\ new \in Half /\ SameElsewhere(friendsGroups, new.g, u)
      /\ \A S : RowRight(friendsGroups, groupsSize[u], u, S) => RowRight(new.g, new.n, u, S)
  <2>1. friendsGroups \in [Cells -> Slot] /\ groupsSize[u] \in -1 .. MAX_GROUP_SIZE
    BY DEF GroupsType
  <2> QED
    BY <1>1, <2>1, DeleteAllFacts
<1> HIDE DEF new
<1>3. new.g \in [Cells -> Slot] /\ new.n \in -1 .. MAX_GROUP_SIZE
  BY <1>2 DEF Half
<1>4. NoIdTwice /\ ~stray' => /\ ~stray /\ SameElsewhere(friendsGroups, new.g, u)
                              /\ RowRight(new.g, new.n, u, Registered \ {u})
  BY <1>1, <1>2 DEF RowsInv
<1>5. stray' \in BOOLEAN
  BY <1>1 DEF GroupsType
<1> QED
  BY <1>1, <1>3, <1>4, <1>5, SetGroupRows

LEMMA LeftFacts ==
  ASSUME GroupsType, NEW u \in Slot, NEW v \in Slot
  PROVE  /\ Left(v, u) \in Half
         /\ \A S : v < nextClientID /\ RowRight(friendsGroups, groupsSize[v], v, S) =>
              RowRight(Left(v, u).g, Left(v, u).n, v, S \ {u})
         /\ ~(v < nextClientID) => Left(v, u).n = groupsSize[v]
<1>0. groupsSize[v] \in -1 .. MAX_GROUP_SIZE /\ friendsGroups \in [Cells -> Slot]
  BY DEF GroupsType
<1>1. CASE v < nextClientID
  <2>1. Left(v, u) = Delete(friendsGroups, groupsSize[v], v, u)
    BY <1>1 DEF Left
  <2> QED
    BY <1>0, <1>1, <2>1, DeleteFacts
<1>2. CASE ~(v < nextClientID)
  <2>1. Left(v, u) = [g |-> friendsGroups, n |-> groupsSize[v]]
    BY <1>2 DEF Left
  <2> QED
    BY <1>0, <1>2, <2>1 DEF Half
<1> QED
  BY <1>1, <1>2

LEMMA StopRows ==
  ASSUME GroupsType, RowsInv, nextClientID \in Nat, NEW u \in Slot, Stop(u),
         DOMAIN clientsQueueId = Slot
  PROVE  GroupsType' /\ RowsInv'
<1>1. /\ groupsSize' = [i \in Slot |-> Left(i, u).n]
      /\ friendsGroups' = [p \in Cells |-> Left(p \div MAX_GROUP_SIZE, u).g[p]]
      /\ stray' = stray /\ nextClientID' = nextClientID
  BY DEF Stop, GroupsType
<1>2. \A v \in Slot : /\ Left(v, u).g \in [Cells -> Slot]
                      /\ Left(v, u).n \in -1 .. MAX_GROUP_SIZE
  BY LeftFacts DEF Half
<1>3. friendsGroups' \in [Cells -> Slot]
  <2>1. \A p \in Cells : p \div MAX_GROUP_SIZE \in Slot
    BY CellFacts
  <2> QED
    BY <1>1, <1>2, <2>1
<1>4. \A v \in Slot, j \in Column : friendsGroups'[At(v, j)] = Left(v, u).g[At(v, j)]
  BY <1>1, CellFacts
<1>5. groupsSize' \in [Slot -> -1 .. MAX_GROUP_SIZE] /\ \A v \in Slot : groupsSize'[v] = Left(v, u).n
  BY <1>1, <1>2
<1>6. Registered' = Registered \ {u}
  BY DEF Stop, Registered
<1>7. ASSUME NoIdTwice, ~stray', NEW v \in Slot
      PROVE  RowRight(friendsGroups', groupsSize'[v], v, Registered' \ {v})
  <2>1. CASE v < nextClientID
    <3>1. RowRight(friendsGroups, groupsSize[v], v, Registered \ {v})
      BY <1>1, <1>7 DEF RowsInv
    <3>2. RowRight(Left(v, u).g, Left(v, u).n, v, (Registered \ {v}) \ {u})
      BY <2>1, <3>1, LeftFacts
    <3>3. (Registered \ {v}) \ {u} = Registered' \ {v}
      BY <1>6
    <3>4. 0 .. Left(v, u).n - 1 \subseteq Column
      BY <1>2 DEF Column
    <3> QED
      BY <1>4, <1>5, <3>2, <3>3, <3>4 DEF RowRight
  <2>2. CASE ~(v < nextClientID)
    <3>1. v >= nextClientID
      BY <2>2 DEF Slot
    <3>2. groupsSize'[v] = -1
      BY <1>5, <2>2, <3>1, LeftFacts DEF RowsInv
    <3> QED
      BY <3>2 DEF RowRight
  <2> QED
    BY <2>1, <2>2
<1>8. ASSUME NEW v \in Slot, v >= nextClientID' PROVE groupsSize'[v] = -1
  <2>1. v >= nextClientID /\ ~(v < nextClientID)
    BY <1>1, <1>8 DEF Slot
  <2> QED
    BY <1>5, <2>1, LeftFacts DEF RowsInv
<1>9. RowsInv'
  <2>1. \A v \in Slot : RowRight(friendsGroups, groupsSize[v], v, Registered \ {v})'
          <=> RowRight(friendsGroups', groupsSize'[v], v, Registered' \ {v})
    BY DEF RowRight, At
  <2>2. NoIdTwice' <=> NoIdTwice
    BY DEF NoIdTwice
  <2> QED
    BY <1>7, <1>8, <2>1, <2>2 DEF RowsInv
<1> QED
  BY <1>1, <1>3, <1>5, <1>9 DEF GroupsType

LEMMA EnterRows ==
  ASSUME GroupsType, RowsInv, UNCHANGED groups, nextClientID \in Nat, nextClientID' \in Nat,
         nextClientID' >= nextClientID, Registered \subseteq Registered'
  PROVE  GroupsType' /\ RowsInv'
<1>1. groupsSize' = groupsSize /\ friendsGroups' = friendsGroups /\ stray' = stray
  BY DEF groups
<1>2. ASSUME NEW v \in Slot, v >= nextClientID' PROVE groupsSize'[v] = -1
  BY <1>1, <1>2 DEF RowsInv, Slot
<1>3. ASSUME NoIdTwice, ~stray, NEW v \in Slot
      PROVE  RowRight(friendsGroups, groupsSize[v], v, Registered' \ {v})
  <2>1. RowRight(friendsGroups, groupsSize[v], v, Registered \ {v})
    BY <1>3 DEF RowsInv
  <2> QED
    BY <2>1 DEF RowRight
<1>4. RowsInv'
  <2>1. \A v \in Slot : RowRight(friendsGroups, groupsSize[v], v, Registered \ {v})'
          <=> RowRight(friendsGroups, groupsSize[v], v, Registered' \ {v})
    BY <1>1 DEF RowRight, At
  <2>2. NoIdTwice' <=> NoIdTwice
    BY DEF NoIdTwice
  <2> QED
    BY <1>1, <1>2, <1>3, <2>1, <2>2 DEF RowsInv
<1> QED
  BY <1>1, <1>4 DEF GroupsType

-----------------------------------------------------------------------------
(* The table of users.  Q is what stands in it for clients' queues.        *)

UsersType(Q) ==
  /\ nextClientID \in 0 .. MAX_CLIENTS_COUNT /\ activeUserCount \in Int
  /\ clientsQueueId \in [Slot -> Q \cup {NoClient}]

TableOf(Q) == UsersType(Q) /\ UsersAgree

LEMMA RegisteredFinite == IsFiniteSet(Registered)
<1>1. IsFiniteSet(Slot)
  BY FS_Interval DEF Slot
<1> QED
  BY <1>1, FS_Subset DEF Registered

LEMMA StopTable ==
  ASSUME NEW Q, TableOf(Q), NEW u \in Registered, Stop(u)
  PROVE  /\ TableOf(Q)' /\ Registered' = Registered \ {u}
         /\ nextClientID' = nextClientID /\ nextClientID' # 0
         /\ runServer' = (runServer /\ Registered' # {})
         /\ \A v \in Slot \ {u} : clientsQueueId'[v] = clientsQueueId[v]
         /\ clientsQueueId'[u] = NoClient
<1>0. u \in Slot /\ u \in Nat /\ u < nextClientID /\ nextClientID \in Nat
  BY DEF Registered, Slot, TableOf, UsersAgree, UsersType
<1>1. /\ clientsQueueId' = [clientsQueueId EXCEPT ![u] = NoClient]
      /\ activeUserCount' = activeUserCount - 1 /\ nextClientID' = nextClientID
      /\ runServer' = (runServer /\ activeUserCount # 1)
  BY DEF Stop
<1>2. /\ clientsQueueId'[u] = NoClient
      /\ \A v \in Slot \ {u} : clientsQueueId'[v] = clientsQueueId[v]
  BY <1>0, <1>1 DEF TableOf, UsersType
<1>3. Registered' = Registered \ {u}
  BY <1>2 DEF Registered
<1>4. Cardinality(Registered \ {u}) = Cardinality(Registered) - 1
  BY RegisteredFinite, FS_RemoveElement
<1>5. activeUserCount # 1 <=> Registered' # {}
  <2>1. IsFiniteSet(Registered \ {u}) /\ Cardinality(Registered) \in Nat
    BY RegisteredFinite, FS_RemoveElement, FS_CardinalityType
  <2>2. Cardinality(Registered \ {u}) = 0 <=> Registered \ {u} = {}
    BY <2>1, FS_EmptySet
  <2> QED
    BY <1>3, <1>4, <2>1, <2>2 DEF TableOf, UsersAgree
<1>6. UsersType(Q)'
  <2>1. UsersType(Q)
    BY DEF TableOf
  <2>2. clientsQueueId' \in [Slot -> Q \cup {NoClient}]
    BY <1>0, <1>1, <2>1 DEF UsersType
  <2> QED
    BY <1>1, <2>1, <2>2 DEF UsersType
<1>7. \A v \in Registered' : v \in Registered /\ v \in Slot \ {u}
  BY <1>3 DEF Registered
<1>8. \A v \in Registered' : v < nextClientID'
  BY <1>1, <1>7 DEF TableOf, UsersAgree
<1>9. \A v, w \in Registered' : clientsQueueId'[v] = clientsQueueId'[w] => v = w
  BY <1>2, <1>7 DEF TableOf, UsersAgree
<1>10. TableOf(Q)'
  BY <1>1, <1>3, <1>4, <1>6, <1>8, <1>9 DEF TableOf, UsersAgree
<1>11. runServer' = (runServer /\ Registered' # {})
  BY <1>1, <1>5, Zenon
<1> QED
  BY <1>0, <1>1, <1>2, <1>3, <1>10, <1>11

LEMMA SameUsers ==
  ASSUME NEW Q, TableOf(Q), UNCHANGED users
  PROVE  TableOf(Q)' /\ Registered' = Registered /\ nextClientID' = nextClientID
BY DEF TableOf, UsersAgree, UsersType, users, Registered

(* The index for a new user is free and not beyond the first that was      *)
(* never used.                                                             *)
LEMMA FreeIndex ==
  ASSUME NEW Q, TableOf(Q), getFreeIndex # -1
  PROVE  /\ getFreeIndex \in Slot \ Registered
         /\ getFreeIndex <= nextClientID
<1>0. nextClientID \in 0 .. MAX_CLIENTS_COUNT
  BY DEF TableOf, UsersType
<1>1. CASE nextClientID < MAX_CLIENTS_COUNT
  <2>1. getFreeIndex = nextClientID /\ nextClientID \in Slot
    BY <1>0, <1>1 DEF getFreeIndex, Slot
  <2>2. nextClientID \notin Registered
    BY <1>0 DEF TableOf, UsersAgree
  <2> QED
    BY <1>0, <2>1, <2>2
<1>2. CASE ~(nextClientID < MAX_CLIENTS_COUNT)
  <2> DEFINE Free == {u \in Slot : clientsQueueId[u] = NoClient}
  <2>1. Free # {} /\ Free \subseteq Nat
    BY <1>2 DEF getFreeIndex, Slot
  <2>2. \E u \in Free : \A v \in Free : u <= v
    <3> HIDE DEF Free
    <3> QED
      BY <2>1, LeastNumber
  <2>3. getFreeIndex = CHOOSE u \in Slot : /\ clientsQueueId[u] = NoClient
                                           /\ \A v \in Slot : clientsQueueId[v] = NoClient => u <= v
    BY <1>2 DEF getFreeIndex
  <2>4. getFreeIndex \in Slot /\ clientsQueueId[getFreeIndex] = NoClient
    BY <2>2, <2>3
  <2> QED
    BY <1>0, <1>2, <2>4 DEF Registered, Slot
<1> QED
  BY <1>1, <1>2

LEMMA EnterTable ==
  ASSUME NEW Q, TableOf(Q), NoClient \notin Q, NEW c \in Q, ~userQueueExist(c), NEW index,
         index = getFreeIndex, index # -1, Enter(index, c)
  PROVE  /\ TableOf(Q)' /\ index \in Slot \ Registered
         /\ Registered' = Registered \cup {index}
         /\ nextClientID' \in Nat /\ nextClientID' >= nextClientID
         /\ \A v \in Slot \ {index} : clientsQueueId'[v] = clientsQueueId[v]
         /\ clientsQueueId'[index] = c
         /\ \A v \in Slot : clientsQueueId[v] # c
<1>0. /\ nextClientID \in 0 .. MAX_CLIENTS_COUNT
      /\ clientsQueueId \in [Slot -> Q \cup {NoClient}]
      /\ index \in Slot \ Registered /\ index <= nextClientID /\ index \in Nat
      /\ index < MAX_CLIENTS_COUNT
  BY FreeIndex DEF TableOf, UsersType, Slot
<1>1. /\ clientsQueueId' = [clientsQueueId EXCEPT ![index] = c]
      /\ activeUserCount' = activeUserCount + 1
      /\ nextClientID' = IF index = nextClientID THEN index + 1 ELSE nextClientID
  BY DEF Enter
<1>2. /\ clientsQueueId'[index] = c
      /\ \A v \in Slot \ {index} : clientsQueueId'[v] = clientsQueueId[v]
  BY <1>0, <1>1
<1>3. nextClientID' \in 0 .. MAX_CLIENTS_COUNT /\ nextClientID' >= nextClientID
      /\ index < nextClientID'
  BY <1>0, <1>1
<1>4. Registered' = Registered \cup {index}
  BY <1>0, <1>2 DEF Registered
<1>5. Cardinality(Registered') = Cardinality(Registered) + 1
  BY <1>0, <1>4, RegisteredFinite, FS_AddElement
<1>6. UsersType(Q)'
  BY <1>0, <1>1, <1>3 DEF UsersType, TableOf
<1>7. \A v \in Slot : clientsQueueId[v] # c
  <2> TAKE v \in Slot
  <2>1. CASE v \in Registered
    BY <2>1 DEF userQueueExist, TableOf, UsersAgree
  <2>2. CASE v \notin Registered
    BY <2>2 DEF Registered
  <2> QED
    BY <2>1, <2>2
<1>8. \A v \in Registered' : v < nextClientID'
  <2> TAKE v \in Registered'
  <2>1. CASE v = index
    BY <1>3, <2>1
  <2>2. CASE v # index
    <3>1. v \in Registered /\ v \in Int
      BY <1>4, <2>2 DEF Registered, Slot
    <3> QED
      BY <1>0, <1>3, <3>1 DEF TableOf, UsersAgree
  <2> QED
    BY <2>1, <2>2
<1>9. ASSUME NEW v \in Registered', NEW w \in Registered', clientsQueueId'[v] = clientsQueueId'[w]
      PROVE  v = w
  <2>1. \A x \in Registered' : x \in Slot /\ (x = index \/ x \in Registered)
    BY <1>0, <1>4 DEF Registered
  <2> QED
    BY <1>2, <1>7, <1>9, <2>1 DEF TableOf, UsersAgree
<1>10. TableOf(Q)'
  BY <1>1, <1>5, <1>6, <1>8, <1>9 DEF TableOf, UsersAgree
<1> QED
  BY <1>0, <1>2, <1>3, <1>4, <1>7, <1>10

-----------------------------------------------------------------------------
(* Queues.                                                                 *)

LEMMA ConcatFacts ==
  ASSUME NEW S, NEW a \in Seq(S), NEW b \in Seq(S)
  PROVE  /\ a \o b \in Seq(S) /\ Len(a \o b) = Len(a) + Len(b)
         /\ \A j \in 1 .. Len(a) + Len(b) : (a \o b)[j] = IF j <= Len(a) THEN a[j] ELSE b[j - Len(a)]
OBVIOUS

LEMMA WithoutFacts ==
  ASSUME NEW S, NEW s \in Seq(S), NEW i \in DOMAIN s
  PROVE  /\ Without(s, i) \in Seq(S) /\ DOMAIN Without(s, i) = 1 .. Len(s) - 1
         /\ \A j \in 1 .. Len(s) - 1 : Without(s, i)[j] = s[IF j < i THEN j ELSE j + 1]
<1>0. i \in 1 .. Len(s) /\ Len(s) \in Nat /\ \A j \in 1 .. Len(s) : s[j] \in S
  OBVIOUS
<1> DEFINE a == SubSeq(s, 1, i - 1)
           b == SubSeq(s, i + 1, Len(s))
<1>1. a \in Seq(S) /\ Len(a) = i - 1 /\ \A j \in 1 .. i - 1 : a[j] = s[j]
  BY <1>0
<1>2. b \in Seq(S) /\ Len(b) = Len(s) - i /\ \A j \in 1 .. Len(s) - i : b[j] = s[j + i]
  BY <1>0
<1> HIDE DEF a, b
<1>3. /\ a \o b \in Seq(S) /\ Len(a \o b) = Len(s) - 1
      /\ \A j \in 1 .. Len(s) - 1 : (a \o b)[j] = IF j < i THEN a[j] ELSE b[j - (i - 1)]
  <2>1. /\ a \o b \in Seq(S) /\ Len(a \o b) = Len(a) + Len(b)
        /\ \A j \in 1 .. Len(a) + Len(b) : (a \o b)[j] = IF j <= Len(a) THEN a[j] ELSE b[j - Len(a)]
    BY <1>1, <1>2, ConcatFacts
  <2> DEFINE ab == a \o b
             n == Len(s)
             k == i - 1
  <2>2. /\ ab \in Seq(S) /\ Len(a) = k /\ Len(ab) = Len(a) + Len(b)
        /\ \A j \in 1 .. Len(a) + Len(b) : ab[j] = IF j <= Len(a) THEN a[j] ELSE b[j - Len(a)]
    BY <1>1, <2>1
  <2>3. n \in Int /\ i \in Int /\ k = i - 1 /\ Len(a) = k /\ Len(b) = n - i
    BY <1>0, <1>1, <1>2
  <2> HIDE DEF ab, n, k
  <2>4. Len(a) + Len(b) = n - 1
    BY <2>3
  <2>5. \A j \in 1 .. n - 1 : ab[j] = IF j < i THEN a[j] ELSE b[j - k]
    <3>1. \A j \in 1 .. n - 1 : j <= k <=> j < i
      BY <2>3
    <3> QED
      BY <2>2, <2>4, <3>1
  <2>6. ab \in Seq(S) /\ Len(ab) = n - 1
    BY <2>2, <2>4
  <2> QED
    BY <2>5, <2>6 DEF ab, n, k
<1>4. DOMAIN (a \o b) = 1 .. Len(s) - 1
  BY <1>3
<1>5. ASSUME NEW j \in 1 .. Len(s) - 1 PROVE (a \o b)[j] = s[IF j < i THEN j ELSE j + 1]
  <2>1. CASE j < i
    BY <1>0, <1>1, <1>3, <2>1
  <2>2. CASE ~(j < i)
    <3> DEFINE n == Len(s)
    <3>0. i \in Int /\ j \in Int /\ n \in Int /\ i <= j /\ j <= n - 1
      BY <1>0, <2>2
    <3> HIDE DEF n
    <3>1. j - (i - 1) \in 1 .. n - i /\ (j - (i - 1)) + i = j + 1
      BY <3>0
    <3> USE DEF n
    <3> QED
      BY <1>0, <1>2, <1>3, <2>2, <3>1
  <2> QED
    BY <2>1, <2>2
<1>6. Without(s, i) = a \o b
  BY DEF Without, a, b
<1> QED
  BY <1>3, <1>4, <1>5, <1>6

LEMMA AppendFacts ==
  ASSUME NEW S, NEW s \in Seq(S), NEW x \in S
  PROVE  /\ Append(s, x) \in Seq(S) /\ DOMAIN Append(s, x) = 1 .. Len(s) + 1
         /\ \A j \in DOMAIN s : Append(s, x)[j] = s[j]
         /\ Append(s, x)[Len(s) + 1] = x
         /\ DOMAIN s = 1 .. Len(s) /\ Len(s) \in Nat
OBVIOUS

Types == Nat \ {0}

(* What is written to clients stands behind what they have not read yet.   *)
Reaches(receivers) ==
  /\ inbox' \in [Client -> Seq(Types)]
  /\ \A c \in Client : inbox[c] # <<>> => inbox'[c] # <<>> /\ Head(inbox'[c]) = Head(inbox[c])
  /\ \A c \in Client \ receivers : inbox'[c] = inbox[c]

LEMMA BehindFacts ==
  ASSUME NEW q \in Seq(Types), NEW r \in Seq(Types)
  PROVE  q \o r \in Seq(Types) /\ (q # <<>> => q \o r # <<>> /\ Head(q \o r) = Head(q))
<1>1. q \o r \in Seq(Types) /\ Len(q \o r) = Len(q) + Len(r) /\ Len(q) \in Nat /\ Len(r) \in Nat
  OBVIOUS
<1>2. ASSUME q # <<>> PROVE q \o r # <<>> /\ Head(q \o r) = Head(q)
  <2>1. Len(q) > 0
    BY <1>2
  <2> QED
    BY <1>1, <2>1
<1> QED
  BY <1>1, <1>2

LEMMA SendToFacts ==
  ASSUME inbox \in [Client -> Seq(Types)], NEW receivers, NEW type \in Int, SendTo(receivers, type)
  PROVE  /\ Reaches(receivers)
         /\ \A c \in Client : inbox[c] = <<>> =>
              inbox'[c] = IF c \in receivers /\ pc[c] # "ended" /\ type > 0 THEN <<type>> ELSE <<>>
<1>1. ASSUME NEW c \in Client
      PROVE  /\ inbox'[c] \in Seq(Types)
             /\ inbox[c] # <<>> => inbox'[c] # <<>> /\ Head(inbox'[c]) = Head(inbox[c])
             /\ c \notin receivers => inbox'[c] = inbox[c]
             /\ inbox[c] = <<>> =>
                  inbox'[c] = IF c \in receivers /\ pc[c] # "ended" /\ type > 0
                                THEN <<type>> ELSE <<>>
  <2>1. inbox[c] \in Seq(Types)
    OBVIOUS
  <2>2. CASE c \in receivers /\ pc[c] # "ended" /\ type > 0
    <3>1. inbox'[c] = Append(inbox[c], type) /\ type \in Types
      BY <2>2 DEF SendTo, Types
    <3>2. Append(inbox[c], type) \in Seq(Types)
      BY <2>1, <3>1
    <3>3. inbox[c] # <<>> => /\ Append(inbox[c], type) # <<>>
                             /\ Head(Append(inbox[c], type)) = Head(inbox[c])
      BY <2>1, <3>1
    <3>4. inbox[c] = <<>> => Append(inbox[c], type) = <<type>>
      BY <3>1
    <3> QED
      BY <2>2, <3>1, <3>2, <3>3, <3>4
  <2>3. CASE ~(c \in receivers /\ pc[c] # "ended" /\ type > 0)
    BY <2>1, <2>3 DEF SendTo
  <2> QED
    BY <2>2, <2>3
<1>2. inbox' \in [Client -> Seq(Types)]
  BY <1>1 DEF SendTo
<1> QED
  BY <1>1, <1>2 DEF Reaches

LEMMA NobodyHears ==
  ASSUME inbox \in [Client -> Seq(Types)], UNCHANGED inbox
  PROVE  Reaches({})
BY DEF Reaches

LEMMA FriendsHear ==
  ASSUME inbox \in [Client -> Seq(Types)], GroupsType, NEW u \in Slot, responseType \in Int,
         To2Friends(u)
  PROVE  Reaches(UNION {QueueOf(v) : v \in Slot})
<1> DEFINE friend(j) == friendsGroups[At(u, j)]
           places(c) == {j \in 0 .. groupsSize[u] - 1 : friend(j) # u /\ c \in QueueOf(friend(j))}
           more(c) == [k \in 1 .. Cardinality(places(c)) |-> responseType]
<1>1. inbox' = [c \in Client |-> IF pc[c] # "ended" /\ responseType > 0
                                   THEN inbox[c] \o more(c) ELSE inbox[c]]
  BY DEF To2Friends
<1>2. ASSUME NEW c \in Client PROVE Cardinality(places(c)) \in Nat /\ IsFiniteSet(places(c))
  <2>1. IsFiniteSet(0 .. groupsSize[u] - 1)
    <3>1. groupsSize[u] - 1 \in Int
      BY DEF GroupsType
    <3> QED
      BY <3>1, FS_Interval
  <2> QED
    BY <2>1, FS_Subset, FS_CardinalityType
<1>3. ASSUME NEW c \in Client, c \notin UNION {QueueOf(v) : v \in Slot}
      PROVE  places(c) = {}
  <2>1. \A j \in 0 .. groupsSize[u] - 1 : friend(j) \in Slot
    <3> TAKE j \in 0 .. groupsSize[u] - 1
    <3>1. j \in Column
      BY DEF GroupsType, Column
    <3> QED
      BY <3>1, CellFacts DEF GroupsType
  <2> QED
    BY <1>3, <2>1
<1>4. ASSUME NEW c \in Client
      PROVE  /\ inbox'[c] \in Seq(Types)
             /\ inbox[c] # <<>> => inbox'[c] # <<>> /\ Head(inbox'[c]) = Head(inbox[c])
             /\ c \notin UNION {QueueOf(v) : v \in Slot} => inbox'[c] = inbox[c]
  <2>0. inbox[c] \in Seq(Types) /\ Cardinality(places(c)) \in Nat
    BY <1>2
  <2>1. CASE pc[c] # "ended" /\ responseType > 0
    <3>1. inbox'[c] = inbox[c] \o more(c)
      BY <1>1, <2>1
    <3>2. more(c) \in Seq(Types) /\ Len(more(c)) = Cardinality(places(c))
      <4>1. responseType \in Types
        BY <2>1 DEF Types
      <4> HIDE DEF places
      <4> QED
        BY <2>0, <4>1
    <3>3. c \notin UNION {QueueOf(v) : v \in Slot} => more(c) = <<>>
      <4> SUFFICES ASSUME c \notin UNION {QueueOf(v) : v \in Slot} PROVE more(c) = <<>>
        OBVIOUS
      <4>1. Cardinality(places(c)) = 0
        BY <1>3, FS_EmptySet
      <4> HIDE DEF more
      <4> QED
        BY <3>2, <4>1
    <3> HIDE DEF more
    <3>4. inbox[c] \o <<>> = inbox[c]
      BY <2>0
    <3> QED
      BY <2>0, <3>1, <3>2, <3>3, <3>4, BehindFacts
  <2>2. CASE ~(pc[c] # "ended" /\ responseType > 0)
    BY <1>1, <2>0, <2>2
  <2> QED
    BY <2>1, <2>2
<1>5. inbox' \in [Client -> Seq(Types)]
  BY <1>1, <1>4
<1> HIDE DEF friend, places, more
<1> QED
  BY <1>4, <1>5 DEF Reaches

-----------------------------------------------------------------------------
(* The invariant is taken apart into what it says of the server, of the    *)
(* queues and of each client.                                              *)

RequestType == [type : Commands \cup {INIT, STOP}, id : Int, from : Client \cup {NoClient},
                ids : Seq(Slot)]

ServerPlace ==
  /\ spc \in {"recv", "reply", "close", "ended", "exited", "undefined"}
  /\ runServer \in BOOLEAN /\ responseType \in Int /\ actualUserId \in Int
  /\ spc \in {"close", "ended"} => Registered = {}
  /\ spc \in {"recv", "reply"} => runServer /\ (nextClientID = 0 \/ Registered # {})

TableRight == TableOf(Client)

ServerRight == TableRight /\ GroupsType /\ RowsInv /\ ServerPlace

RequestsRight == serverQueue \in Seq(RequestType) /\ Requests

QueueRight == RequestsRight /\ queueExists \in BOOLEAN

ClientType ==
  /\ inbox \in [Client -> Seq(Types)]
  /\ pc \in [Client -> {"new", "initwait", "running", "failed", "killed", "ended"}]
  /\ sender \in [Client -> {"none", "typing", "stopping", "leaving", "dead"}]
  /\ catcher \in [Client -> {"none", "reading", "ending", "leaving"}]
  /\ userID \in [Client -> Int] /\ sent \in 0 .. MaxCommands
  /\ interrupts \in 0 .. MaxSIGINT

AskRight(c) ==
  /\ pc[c] = "new" => Unknown(c) /\ \A i \in DOMAIN serverQueue : ~AsksFor(i, c)
  /\ \A i \in DOMAIN serverQueue : AsksFor(i, c) =>
       /\ pc[c] \in {"initwait", "killed"} /\ Unknown(c)
       /\ \A j \in DOMAIN serverQueue : AsksFor(j, c) => i = j

FirstRight(c) ==
  pc[c] = "initwait" => \A u \in Registered : clientsQueueId[u] = c =>
    IF inbox[c] = <<>>
      THEN spc = "reply" /\ actualUserId = u /\ responseType = u + SHIFTID
      ELSE Head(inbox[c]) = u + SHIFTID \/ (Head(inbox[c]) = SHUTDOWN /\ interrupts > 0)

KnowsRight(c) ==
  pc[c] = "running" =>
    \/ userID[c] = SHUTDOWN /\ interrupts > 0
    \/ \A u \in Registered : clientsQueueId[u] = c => userID[c] = u + SHIFTID

RunRight(c) == pc[c] # "running" => sender[c] = "none" /\ catcher[c] = "none"

ClientRight(c) == AskRight(c) /\ FirstRight(c) /\ KnowsRight(c) /\ RunRight(c)

Whole == ServerRight /\ QueueRight /\ ClientType /\ \A c \in Client : ClientRight(c)

LEMMA Apart ==
  ASSUME IInv
  PROVE  Whole
<1>1. TypeOK /\ UsersInv /\ Serving
  BY DEF IInv, Basis, UsersInv
<1>2. TableRight
  BY <1>1 DEF UsersInv, TypeOK, TableRight, TableOf, UsersType
<1>3. GroupsType
  BY <1>1 DEF TypeOK, GroupsType, Cells
<1>4. ServerPlace
  <2>1. /\ spc \in {"recv", "reply", "close", "ended", "exited", "undefined"}
        /\ runServer \in BOOLEAN /\ responseType \in Int /\ actualUserId \in Int
    BY <1>1 DEF TypeOK
  <2>2. spc \in {"close", "ended"} => Registered = {}
    BY <1>1 DEF UsersInv
  <2>3. spc \in {"recv", "reply"} => runServer /\ (nextClientID = 0 \/ Registered # {})
    BY <1>1, Zenon DEF UsersInv, Serving
  <2> QED
    BY <2>1, <2>2, <2>3 DEF ServerPlace
<1>5. QueueRight
  BY <1>1 DEF TypeOK, QueueRight, RequestsRight, RequestType, IInv, Basis
<1>6. ClientType
  BY <1>1 DEF TypeOK, ClientType, Types
<1>7. ASSUME NEW c \in Client PROVE ClientRight(c)
  <2>1. AskRight(c)
    BY DEF IInv, Basis, AsksOnce, AskRight
  <2>2. FirstRight(c)
    BY DEF IInv, Basis, FirstMessage, FirstRight
  <2>3. KnowsRight(c)
    BY DEF IInv, Basis, KnowsItsId, KnowsRight
  <2>4. RunRight(c)
    BY DEF IInv, Basis, OnlyRunning, RunRight
  <2> QED
    BY <2>1, <2>2, <2>3, <2>4 DEF ClientRight
<1> QED
  BY <1>2, <1>3, <1>4, <1>5, <1>6, <1>7 DEF Whole, ServerRight, IInv, Basis

LEMMA Together ==
  ASSUME Whole
  PROVE  IInv
<1> USE DEF Whole, ServerRight
<1>1. TypeOK
  BY DEF TypeOK, TableRight, TableOf, UsersType, GroupsType, Cells, ServerPlace, QueueRight,
         RequestsRight, RequestType, ClientType, Types
<1>2. spc \in {"recv", "reply"} => (runServer = (nextClientID = 0 \/ Registered # {}))
  BY Zenon DEF ServerPlace
<1>3. UsersInv
  BY <1>1, <1>2 DEF UsersInv, TableRight, TableOf, ServerPlace
<1>4. Serving /\ Requests
  BY DEF Serving, ServerPlace, QueueRight, RequestsRight
<1>5. AsksOnce /\ KnowsItsId /\ OnlyRunning
  BY DEF ClientRight, AsksOnce, AskRight, KnowsItsId, KnowsRight, OnlyRunning, RunRight
<1>6. FirstMessage
  <2>1. \A u \in Registered : clientsQueueId[u] \in Client
    BY DEF Registered, TableRight, TableOf, UsersType
  <2> QED
    BY <2>1 DEF ClientRight, FirstMessage, FirstRight
<1> QED
  BY <1>3, <1>4, <1>5, <1>6 DEF IInv, Basis

LEMMA SameTable ==
  ASSUME TableRight, UNCHANGED users
  PROVE  TableRight' /\ Registered' = Registered /\ nextClientID' = nextClientID
BY SameUsers DEF TableRight

LEMMA SameServer ==
  ASSUME ServerRight, UNCHANGED server
  PROVE  ServerRight' /\ Registered' = Registered
<1>1. UNCHANGED <<groups, users>> /\ UNCHANGED <<spc, responseType, actualUserId, runServer>>
  BY DEF server
<1>2. GroupsType' /\ RowsInv'
  BY <1>1, UnchangedRows DEF ServerRight
<1>3. TableRight' /\ Registered' = Registered /\ nextClientID' = nextClientID
  BY <1>1, SameTable DEF ServerRight
<1>4. ServerPlace'
  BY <1>1, <1>3 DEF ServerRight, ServerPlace
<1> QED
  BY <1>2, <1>3, <1>4 DEF ServerRight

(* Nobody comes into the table. *)
Kept == \A u \in Registered' : u \in Registered /\ clientsQueueId'[u] = clientsQueueId[u]

Listeners == UNION {QueueOf(v) : v \in Slot}

LEMMA Listening ==
  ASSUME NEW c \in Client
  PROVE  c \in Listeners => \E u \in Slot : clientsQueueId[u] = c
BY DEF Listeners, QueueOf

LEMMA FewerHear ==
  ASSUME NEW S, Reaches(S), S \subseteq Listeners
  PROVE  Reaches(Listeners)
BY DEF Reaches

-----------------------------------------------------------------------------
(* The server serves a request.                                            *)

LEMMA CommandStep ==
  ASSUME ServerRight, spc = "recv", inbox \in [Client -> Seq(Types)], NEW r \in RequestType,
         r.type # INIT, r.type \in Commands => r.ids \in Arguments(r.type),
         NEW u, userExist(u), actualUserId' = u, Command(r, u), responseType' = u + SHIFTID,
         spc' = IF r.type = STOP THEN Loop(runServer') ELSE "reply"
  PROVE  ServerRight' /\ Kept /\ Reaches(Listeners)
<1>0. /\ u \in Slot /\ u \in Registered /\ u < nextClientID /\ nextClientID \in Nat /\ u \in Int
      /\ runServer = TRUE /\ responseType \in Int
      /\ clientsQueueId \in [Slot -> Client \cup {NoClient}]
  BY DEF userExist, Registered, ServerRight, TableRight, TableOf, UsersType, UsersAgree,
         ServerPlace, Slot
<1>1. /\ r.type \in {FRIENDS, ADD, DEL} => r.ids \in Lists
      /\ r.type # STOP => r.type \in Commands
  BY DEF RequestType, Arguments, FRIENDS, ADD, DEL, INIT, STOP, _2ONE
<1>2. responseType' \in Int /\ actualUserId' \in Int
  BY <1>0 DEF SHIFTID
<1>3. ASSUME r.type # STOP, UNCHANGED <<users, runServer>>
      PROVE  TableRight' /\ ServerPlace' /\ Kept
  <2>1. TableRight' /\ Registered' = Registered /\ nextClientID' = nextClientID
    BY <1>3, SameTable DEF ServerRight
  <2>2. spc' = "reply" /\ runServer' = TRUE
    BY <1>0, <1>3
  <2>3. clientsQueueId' = clientsQueueId
    BY <1>3 DEF users
  <2>4. ServerPlace'
    BY <1>0, <1>2, <2>1, <2>2 DEF ServerPlace
  <2> QED
    BY <2>1, <2>3, <2>4 DEF Kept
<1>4. ASSUME UNCHANGED inbox PROVE Reaches(Listeners)
  BY <1>4, NobodyHears, FewerHear
<1>5. ASSUME UNCHANGED users, UNCHANGED groups PROVE GroupsType' /\ RowsInv'
  BY <1>5, UnchangedRows DEF ServerRight
<1>6. CASE r.type \in {LIST, ECHO} /\ Echo
  <2>1. UNCHANGED <<users, groups, runServer, inbox>> /\ r.type # STOP
    BY <1>6 DEF Echo, LIST, ECHO, STOP
  <2> QED
    BY <1>3, <1>4, <1>5, <2>1 DEF ServerRight
<1>7. CASE r.type = FRIENDS /\ Friends(u, r.ids) /\ UNCHANGED inbox
  <2>1. UNCHANGED <<users, runServer>> /\ r.type # STOP
    BY <1>7 DEF Friends, FRIENDS, STOP
  <2>2. GroupsType' /\ RowsInv'
    BY <1>0, <1>1, <1>7, FriendsRows DEF ServerRight
  <2> QED
    BY <1>3, <1>4, <1>7, <2>1, <2>2 DEF ServerRight
<1>8. CASE r.type = ADD /\ Add(u, r.ids) /\ UNCHANGED inbox
  <2>1. UNCHANGED <<users, runServer>> /\ r.type # STOP
    BY <1>8 DEF Add, ADD, STOP
  <2>2. GroupsType' /\ RowsInv'
    BY <1>0, <1>1, <1>8, AddRows DEF ServerRight
  <2> QED
    BY <1>3, <1>4, <1>8, <2>1, <2>2 DEF ServerRight
<1>9. CASE r.type = DEL /\ Del(u, r.ids) /\ UNCHANGED inbox
  <2>1. UNCHANGED <<users, runServer>> /\ r.type # STOP
    BY <1>9 DEF Del, DEL, STOP
  <2>2. GroupsType' /\ RowsInv'
    BY <1>0, <1>1, <1>9, DelRows DEF ServerRight
  <2> QED
    BY <1>3, <1>4, <1>9, <2>1, <2>2 DEF ServerRight
<1>10. CASE r.type = _2ALL /\ To2All(u)
  <2> DEFINE others == UNION {QueueOf(v) : v \in (0 .. nextClientID - 1) \ {u}}
  <2>1. UNCHANGED <<users, groups, runServer>> /\ SendTo(others, responseType) /\ r.type # STOP
    BY <1>10 DEF To2All, _2ALL, STOP
  <2>2. others \subseteq Listeners
    <3>1. 0 .. nextClientID - 1 \subseteq Slot
      BY DEF ServerRight, TableRight, TableOf, UsersType, Slot
    <3> QED
      BY <3>1 DEF Listeners
  <2> HIDE DEF others
  <2>3. Reaches(Listeners)
    BY <1>0, <2>1, <2>2, SendToFacts, FewerHear
  <2> QED
    BY <1>3, <1>5, <2>1, <2>3 DEF ServerRight
<1>11. CASE r.type = _2FRIENDS /\ To2Friends(u)
  <2>1. UNCHANGED <<users, groups, runServer>> /\ r.type # STOP
    BY <1>11 DEF To2Friends, _2FRIENDS, STOP
  <2>2. Reaches(Listeners)
    BY <1>0, <1>11, FriendsHear DEF Listeners, ServerRight
  <2> QED
    BY <1>3, <1>5, <2>1, <2>2 DEF ServerRight
<1>12. CASE r.type = _2ONE /\ To2One(r.ids[1])
  <2>1. /\ UNCHANGED <<users, groups, runServer>> /\ r.type # STOP
        /\ SendTo(QueueOf(r.ids[1]), responseType)
    BY <1>12 DEF To2One, _2ONE, STOP
  <2>2. QueueOf(r.ids[1]) \subseteq Listeners
    BY DEF Listeners, QueueOf, userExist
  <2>3. Reaches(Listeners)
    BY <1>0, <2>1, <2>2, SendToFacts, FewerHear
  <2> QED
    BY <1>3, <1>5, <2>1, <2>3 DEF ServerRight
<1>13. CASE r.type = STOP /\ Stop(u) /\ UNCHANGED inbox
  <2>1. GroupsType' /\ RowsInv'
    BY <1>0, <1>13, StopRows DEF ServerRight
  <2>2. /\ TableRight' /\ Registered' = Registered \ {u}
        /\ nextClientID' = nextClientID /\ nextClientID' # 0
        /\ runServer' = (runServer /\ Registered' # {})
        /\ \A v \in Slot \ {u} : clientsQueueId'[v] = clientsQueueId[v]
    BY <1>0, <1>13, StopTable DEF ServerRight, TableRight
  <2>3. Kept
    BY <2>2 DEF Kept, Registered
  <2>4. ServerPlace'
    <3>1. CASE Registered' = {}
      <4>1. runServer' = FALSE
        BY <2>2, <3>1, Zenon
      <4>2. spc' = "close"
        BY <1>13, <4>1 DEF Loop
      <4> QED
        BY <1>2, <3>1, <4>1, <4>2 DEF ServerPlace
    <3>2. CASE Registered' # {}
      <4>1. runServer' = TRUE
        BY <1>0, <2>2, <3>2, Zenon
      <4>2. spc' = "recv"
        BY <1>13, <4>1 DEF Loop
      <4> QED
        BY <1>2, <3>2, <4>1, <4>2 DEF ServerPlace
    <3> QED
      BY <3>1, <3>2
  <2> QED
    BY <1>4, <1>13, <2>1, <2>2, <2>3, <2>4 DEF ServerRight
<1> QED
  BY <1>6, <1>7, <1>8, <1>9, <1>10, <1>11, <1>12, <1>13 DEF Command

(* Client c has come into the table, and its answer is ready. *)
Entered(c) ==
  /\ spc' = "reply" /\ responseType' = actualUserId' + SHIFTID
  /\ \A v \in Slot : clientsQueueId[v] # c
  /\ \A u \in Registered' : \/ u \in Registered /\ clientsQueueId'[u] = clientsQueueId[u]
                            \/ u = actualUserId' /\ clientsQueueId'[u] = c

LEMMA InitStep ==
  ASSUME ServerRight, spc = "recv", NEW c \in Client, InitUser(c),
         responseType' = actualUserId' + SHIFTID, spc' = "reply"
  PROVE  ServerRight' /\ (Kept \/ Entered(c)) /\ UNCHANGED inbox
<1> DEFINE index == getFreeIndex
<1>0. /\ UNCHANGED <<groups, runServer, inbox>> /\ runServer = TRUE
      /\ nextClientID \in Nat
  BY DEF InitUser, ServerRight, ServerPlace, TableRight, TableOf, UsersType
<1>1. CASE userQueueExist(c) \/ index = -1
  <2>1. actualUserId' = -1 - SHIFTID /\ UNCHANGED users
    BY <1>1 DEF InitUser
  <2>2. TableRight' /\ Registered' = Registered /\ nextClientID' = nextClientID
    BY <2>1, SameTable DEF ServerRight
  <2>3. GroupsType' /\ RowsInv'
    BY <1>0, <2>1, UnchangedRows DEF ServerRight
  <2>4. actualUserId' \in Int /\ responseType' \in Int
    BY <2>1 DEF SHIFTID
  <2>5. ServerPlace'
    BY <1>0, <2>2, <2>4 DEF ServerPlace, ServerRight
  <2>6. Kept
    BY <2>1, <2>2 DEF Kept, users
  <2> QED
    BY <1>0, <2>2, <2>3, <2>5, <2>6 DEF ServerRight
<1>2. CASE ~(userQueueExist(c) \/ index = -1)
  <2>1. actualUserId' = index /\ Enter(index, c)
    BY <1>2 DEF InitUser
  <2> HIDE DEF index
  <2>2. /\ TableRight' /\ index \in Slot \ Registered
        /\ Registered' = Registered \cup {index}
        /\ nextClientID' \in Nat /\ nextClientID' >= nextClientID
        /\ \A v \in Slot \ {index} : clientsQueueId'[v] = clientsQueueId[v]
        /\ clientsQueueId'[index] = c
        /\ \A v \in Slot : clientsQueueId[v] # c
    BY <1>2, <2>1, EnterTable DEF ServerRight, TableRight, index
  <2>3. GroupsType' /\ RowsInv'
    BY <1>0, <2>2, EnterRows DEF ServerRight
  <2>4. actualUserId' \in Int /\ responseType' \in Int
    BY <2>1, <2>2 DEF SHIFTID, Slot
  <2>5. ServerPlace'
    BY <1>0, <2>2, <2>4 DEF ServerPlace
  <2>6. \A u \in Registered' : u \in Slot /\ (u \in Registered \/ u = index)
    BY <2>2 DEF Registered
  <2>7. Entered(c)
    BY <2>1, <2>2, <2>6 DEF Entered
  <2> QED
    BY <1>0, <2>2, <2>3, <2>5, <2>7 DEF ServerRight
<1> QED
  BY <1>1, <1>2

LEMMA ExecuteStep ==
  ASSUME ServerRight, spc = "recv", inbox \in [Client -> Seq(Types)], NEW r \in RequestType,
         r.type = INIT => r.from \in Client, r.type \in Commands => r.ids \in Arguments(r.type),
         executeCommand(r)
  PROVE  /\ ServerRight'
         /\ \/ Kept /\ Reaches(Listeners)
            \/ r.type = INIT /\ Entered(r.from) /\ UNCHANGED inbox
<1> DEFINE u == r.id - SHIFTID
<1>0. /\ u \in Int /\ ERROR \in Int
      /\ runServer = TRUE /\ responseType \in Int /\ (nextClientID = 0 \/ Registered # {})
  BY DEF RequestType, SHIFTID, ERROR, ServerRight, ServerPlace
<1>1. CASE /\ r.type = INIT /\ InitUser(r.from) /\ responseType' = actualUserId' + SHIFTID
           /\ spc' = "reply"
  <2>1. ServerRight' /\ (Kept \/ Entered(r.from)) /\ UNCHANGED inbox
    BY <1>1, InitStep
  <2>2. Reaches(Listeners)
    BY <2>1, NobodyHears, FewerHear
  <2> QED
    BY <1>1, <2>1, <2>2
<1>2. CASE /\ r.type # INIT /\ userExist(u) /\ actualUserId' = u /\ Command(r, u)
           /\ responseType' = u + SHIFTID
           /\ spc' = IF r.type = STOP THEN Loop(runServer') ELSE "reply"
  BY <1>2, CommandStep
<1>3. ASSUME actualUserId' = u, responseType' \in Int, spc' \in {"recv", "reply", "undefined"},
             UNCHANGED <<users, groups, runServer, inbox>>
      PROVE  ServerRight' /\ Kept /\ Reaches(Listeners)
  <2>1. TableRight' /\ Registered' = Registered /\ nextClientID' = nextClientID
    BY <1>3, SameTable DEF ServerRight
  <2>2. GroupsType' /\ RowsInv'
    BY <1>3, UnchangedRows DEF ServerRight
  <2>3. ServerPlace'
    BY <1>0, <1>3, <2>1 DEF ServerPlace
  <2>4. Kept
    BY <1>3, <2>1 DEF Kept, users
  <2>5. Reaches(Listeners)
    BY <1>3, NobodyHears, FewerHear
  <2> QED
    BY <2>1, <2>2, <2>3, <2>4, <2>5 DEF ServerRight
<1>4. CASE /\ actualUserId' = u /\ responseType' = ERROR
           /\ spc' = IF r.type = STOP THEN Loop(runServer) ELSE "reply"
           /\ UNCHANGED <<users, groups, runServer, inbox>>
  <2>1. spc' \in {"recv", "reply", "undefined"}
    BY <1>0, <1>4 DEF Loop
  <2> QED
    BY <1>0, <1>3, <1>4, <2>1
<1>5. CASE /\ actualUserId' = u /\ spc' = "undefined"
           /\ UNCHANGED <<responseType, users, groups, runServer, inbox>>
  BY <1>0, <1>3, <1>5
<1> QED
  BY <1>1, <1>2, <1>4, <1>5 DEF executeCommand

LEMMA StillUnknown ==
  ASSUME NEW c \in Client, Unknown(c), TableRight, TableRight',
         \/ Kept /\ Reaches(Listeners)
         \/ UNCHANGED inbox /\ \E d \in Client \ {c} : Entered(d)
  PROVE  Unknown(c)'
<1>1. ASSUME NEW u \in Slot, clientsQueueId'[u] = c PROVE FALSE
  <2>1. u \in Registered'
    BY <1>1 DEF Registered
  <2> QED
    BY <1>1, <2>1 DEF Unknown, Kept, Entered
<1>2. inbox'[c] = <<>>
  <2>1. c \notin Listeners
    BY Listening DEF Unknown
  <2> QED
    BY <2>1 DEF Reaches, Unknown
<1> QED
  BY <1>1, <1>2 DEF Unknown

(* The requests that are left after request i was taken. *)
LEMMA TakenFacts ==
  ASSUME RequestsRight, NEW i \in DOMAIN serverQueue, serverQueue' = Without(serverQueue, i)
  PROVE  /\ RequestsRight'
         /\ \E old \in [DOMAIN serverQueue' -> DOMAIN serverQueue] :
              /\ \A j \in DOMAIN serverQueue' : old[j] # i /\ serverQueue'[j] = serverQueue[old[j]]
              /\ \A j, k \in DOMAIN serverQueue' : old[j] = old[k] => j = k
<1> DEFINE n == Len(serverQueue)
           old == [j \in 1 .. n - 1 |-> IF j < i THEN j ELSE j + 1]
<1>0. serverQueue \in Seq(RequestType) /\ n \in Nat /\ DOMAIN serverQueue = 1 .. n /\ i \in 1 .. n
  BY DEF RequestsRight
<1>1. /\ serverQueue' \in Seq(RequestType) /\ DOMAIN serverQueue' = 1 .. n - 1
      /\ \A j \in 1 .. n - 1 : serverQueue'[j] = serverQueue[IF j < i THEN j ELSE j + 1]
  BY <1>0, WithoutFacts
<1> HIDE DEF n
<1>2. /\ old \in [1 .. n - 1 -> 1 .. n]
      /\ \A j \in 1 .. n - 1 : old[j] # i
      /\ \A j, k \in 1 .. n - 1 : old[j] = old[k] => j = k
  BY <1>0
<1>3. \A j \in 1 .. n - 1 : serverQueue'[j] = serverQueue[old[j]]
  BY <1>1
<1> HIDE DEF old
<1>4. Requests'
  <2> SUFFICES ASSUME NEW j \in DOMAIN serverQueue'
               PROVE  LET r == serverQueue'[j] IN /\ r.type = INIT => r.from \in Client
                                                  /\ r.type \in Commands => r.ids \in Arguments(r.type)
    BY DEF Requests, Arguments, Slot
  <2>1. serverQueue'[j] = serverQueue[old[j]] /\ old[j] \in DOMAIN serverQueue
    BY <1>0, <1>1, <1>2, <1>3
  <2> QED
    BY <2>1 DEF RequestsRight, Requests
<1>5. RequestsRight' /\ DOMAIN serverQueue' = 1 .. n - 1 /\ DOMAIN serverQueue = 1 .. n
  BY <1>0, <1>1, <1>4 DEF RequestsRight
<1>6. /\ old \in [DOMAIN serverQueue' -> DOMAIN serverQueue]
      /\ \A j \in DOMAIN serverQueue' : old[j] # i /\ serverQueue'[j] = serverQueue[old[j]]
      /\ \A j, k \in DOMAIN serverQueue' : old[j] = old[k] => j = k
  <2>1. old \in [DOMAIN serverQueue' -> DOMAIN serverQueue]
    BY <1>2, <1>5
  <2>2. \A j \in DOMAIN serverQueue' : old[j] # i /\ serverQueue'[j] = serverQueue[old[j]]
    BY <1>2, <1>3, <1>5
  <2>3. \A j, k \in DOMAIN serverQueue' : old[j] = old[k] => j = k
    BY <1>2, <1>5
  <2> QED
    BY <2>1, <2>2, <2>3
<1>7. RequestsRight'
  BY <1>5
<1> QED
  BY <1>6, <1>7, Zenon

LEMMA ServeStep ==
  ASSUME Whole, Serve
  PROVE  Whole'
<1>0. /\ ServerRight /\ QueueRight /\ ClientType /\ \A c \in Client : ClientRight(c)
      /\ spc = "recv" /\ TableRight /\ UNCHANGED <<queueExists, client, interrupts>>
      /\ inbox \in [Client -> Seq(Types)]
  BY DEF Whole, Serve, ServerRight, ClientType
<1>1. PICK i \in DOMAIN serverQueue :
        serverQueue' = Without(serverQueue, i) /\ executeCommand(serverQueue[i])
  BY DEF Serve
<1> DEFINE r == serverQueue[i]
<1>2. r \in RequestType /\ (r.type = INIT => r.from \in Client)
      /\ (r.type \in Commands => r.ids \in Arguments(r.type))
  BY <1>0 DEF QueueRight, RequestsRight, Requests
<1>3. /\ QueueRight'
      /\ \E old \in [DOMAIN serverQueue' -> DOMAIN serverQueue] :
              /\ \A j \in DOMAIN serverQueue' : old[j] # i /\ serverQueue'[j] = serverQueue[old[j]]
              /\ \A j, k \in DOMAIN serverQueue' : old[j] = old[k] => j = k
  BY <1>0, <1>1, TakenFacts DEF QueueRight
<1>4. PICK old \in [DOMAIN serverQueue' -> DOMAIN serverQueue] :
              /\ \A j \in DOMAIN serverQueue' : old[j] # i /\ serverQueue'[j] = serverQueue[old[j]]
              /\ \A j, k \in DOMAIN serverQueue' : old[j] = old[k] => j = k
  BY <1>3
<1>5. /\ ServerRight'
      /\ \/ Kept /\ Reaches(Listeners)
         \/ r.type = INIT /\ Entered(r.from) /\ UNCHANGED inbox
  <2> HIDE DEF r
  <2>1. executeCommand(r)
    BY <1>1 DEF r
  <2> QED
    BY <1>0, <1>2, <2>1, ExecuteStep
<1>6. r.type = INIT => AsksFor(i, r.from)
  BY DEF AsksFor
<1>7. inbox' \in [Client -> Seq(Types)]
  BY <1>0, <1>5 DEF Reaches
<1>8. pc' = pc /\ sender' = sender /\ catcher' = catcher /\ userID' = userID /\ sent' = sent
      /\ interrupts' = interrupts
  BY <1>0 DEF client
<1>9. ClientType'
  BY <1>0, <1>7, <1>8 DEF ClientType
<1> HIDE DEF r
<1>10. ASSUME NEW c \in Client PROVE ClientRight(c)'
  <2>0. AskRight(c) /\ FirstRight(c) /\ KnowsRight(c) /\ RunRight(c)
    BY <1>0 DEF ClientRight
  <2>1. ASSUME NEW j \in DOMAIN serverQueue', AsksFor(j, c)'
        PROVE  AsksFor(old[j], c) /\ old[j] \in DOMAIN serverQueue /\ old[j] # i
    BY <1>4, <2>1 DEF AsksFor
  <2>2. ASSUME Unknown(c), ~AsksFor(i, c) PROVE Unknown(c)'
    <3>1. r.type = INIT => r.from \in Client \ {c}
      BY <1>2, <1>6, <2>2
    <3> QED
      BY <1>0, <1>5, <2>2, <3>1, StillUnknown DEF ServerRight
  <2>3. AskRight(c)'
    <3>1. ASSUME pc'[c] = "new"
          PROVE  Unknown(c)' /\ \A j \in DOMAIN serverQueue' : ~(AsksFor(j, c)')
      BY <1>8, <2>0, <2>1, <2>2, <3>1 DEF AskRight
    <3>2. ASSUME NEW j \in DOMAIN serverQueue', AsksFor(j, c)'
          PROVE  /\ pc'[c] \in {"initwait", "killed"} /\ Unknown(c)'
                 /\ \A k \in DOMAIN serverQueue' : AsksFor(k, c)' => j = k
      <4>1. /\ pc[c] \in {"initwait", "killed"} /\ Unknown(c)
            /\ \A k \in DOMAIN serverQueue : AsksFor(k, c) => old[j] = k
        BY <2>0, <2>1, <3>2 DEF AskRight
      <4>2. ~AsksFor(i, c)
        BY <2>1, <3>2, <4>1
      <4>3. ASSUME NEW k \in DOMAIN serverQueue', AsksFor(k, c)' PROVE j = k
        BY <1>4, <2>1, <4>1, <4>3
      <4> QED
        BY <1>8, <2>2, <4>1, <4>2, <4>3
    <3> QED
      BY <3>1, <3>2 DEF AskRight
  <2>4. FirstRight(c)'
    <3> SUFFICES ASSUME pc'[c] = "initwait", NEW u \in Registered', clientsQueueId'[u] = c
                 PROVE  IF inbox'[c] = <<>>
                          THEN spc' = "reply" /\ actualUserId' = u /\ responseType' = u + SHIFTID
                          ELSE \/ Head(inbox'[c]) = u + SHIFTID
                               \/ Head(inbox'[c]) = SHUTDOWN /\ interrupts' > 0
      BY DEF FirstRight
    <3>1. CASE u \in Registered /\ clientsQueueId'[u] = clientsQueueId[u]
      <4>1. inbox[c] # <<>> /\ \/ Head(inbox[c]) = u + SHIFTID
                               \/ Head(inbox[c]) = SHUTDOWN /\ interrupts > 0
        BY <1>0, <1>8, <2>0, <3>1 DEF FirstRight
      <4>2. inbox'[c] # <<>> /\ Head(inbox'[c]) = Head(inbox[c])
        BY <1>5, <4>1 DEF Reaches
      <4> QED
        BY <1>8, <4>1, <4>2
    <3>2. CASE ~(u \in Registered /\ clientsQueueId'[u] = clientsQueueId[u])
      <4>1. r.type = INIT /\ Entered(r.from) /\ UNCHANGED inbox
        BY <1>5, <3>2 DEF Kept
      <4>2. u = actualUserId' /\ r.from = c
        BY <3>2, <4>1 DEF Entered
      <4>3. inbox[c] = <<>>
        BY <1>6, <2>0, <4>1, <4>2 DEF AskRight, Unknown
      <4> QED
        BY <4>1, <4>2, <4>3 DEF Entered
    <3> QED
      BY <3>1, <3>2
  <2>5. KnowsRight(c)'
    <3> SUFFICES ASSUME pc'[c] = "running", ~(userID'[c] = SHUTDOWN /\ interrupts' > 0),
                        NEW u \in Registered', clientsQueueId'[u] = c
                 PROVE  userID'[c] = u + SHIFTID
      BY DEF KnowsRight
    <3>1. CASE u \in Registered /\ clientsQueueId'[u] = clientsQueueId[u]
      BY <1>8, <2>0, <3>1 DEF KnowsRight
    <3>2. CASE ~(u \in Registered /\ clientsQueueId'[u] = clientsQueueId[u])
      <4>1. r.type = INIT /\ Entered(r.from)
        BY <1>5, <3>2 DEF Kept
      <4>2. r.from = c
        BY <3>2, <4>1 DEF Entered
      <4> QED
        BY <1>6, <1>8, <2>0, <4>1, <4>2 DEF AskRight
    <3> QED
      BY <3>1, <3>2
  <2>6. RunRight(c)'
    BY <1>8, <2>0 DEF RunRight
  <2> QED
    BY <2>3, <2>4, <2>5, <2>6 DEF ClientRight
<1> QED
  BY <1>3, <1>5, <1>9, <1>10 DEF Whole

-----------------------------------------------------------------------------
(* The other steps of the server: who is in the table stays.               *)

LEMMA SameTableClients ==
  ASSUME Whole, UNCHANGED <<serverQueue, queueExists, users, client>>,
         interrupts' \in interrupts .. MaxSIGINT, ServerRight', Reaches(Listeners),
         \A c \in Client : FirstRight(c)'
  PROVE  Whole'
<1>0. /\ QueueRight /\ ClientType /\ \A c \in Client : ClientRight(c)
      /\ TableRight /\ TableRight'
  BY DEF Whole, ServerRight
<1>1. /\ pc' = pc /\ sender' = sender /\ catcher' = catcher /\ userID' = userID /\ sent' = sent
      /\ serverQueue' = serverQueue /\ clientsQueueId' = clientsQueueId
      /\ Registered' = Registered
  BY <1>0, SameTable DEF client, users
<1>2. QueueRight'
  BY <1>0, <1>1 DEF QueueRight, RequestsRight, Requests, Arguments, Slot
<1>3. ClientType'
  BY <1>0, <1>1 DEF ClientType, Reaches
<1>4. ASSUME NEW c \in Client PROVE ClientRight(c)'
  <2>0. AskRight(c) /\ FirstRight(c) /\ KnowsRight(c) /\ RunRight(c)
        /\ (interrupts > 0 => interrupts' > 0)
    BY <1>0 DEF ClientRight, ClientType
  <2>1. Unknown(c) => Unknown(c)'
    BY <1>0, <1>1, StillUnknown DEF Kept
  <2>2. AskRight(c)'
    BY <1>1, <2>0, <2>1 DEF AskRight, AsksFor
  <2>3. KnowsRight(c)'
    BY <1>1, <2>0 DEF KnowsRight
  <2>4. RunRight(c)'
    BY <1>1, <2>0 DEF RunRight
  <2> QED
    BY <2>2, <2>3, <2>4 DEF ClientRight
<1> QED
  BY <1>2, <1>3, <1>4 DEF Whole

LEMMA ReplyStep ==
  ASSUME Whole, Reply
  PROVE  Whole'
<1>0. /\ ServerRight /\ \A c \in Client : FirstRight(c)
      /\ TableRight /\ ServerPlace /\ inbox \in [Client -> Seq(Types)]
      /\ nextClientID \in Nat /\ Slot \subseteq Nat
  BY DEF Whole, ServerRight, ClientType, ClientRight, TableRight, TableOf, UsersType, Slot
<1>1. /\ spc = "reply" /\ spc' = Loop(runServer) /\ SendTo(QueueOf(actualUserId), responseType)
      /\ UNCHANGED <<serverQueue, queueExists, responseType, actualUserId, runServer, users,
                     groups, client, interrupts>>
  BY DEF Reply
<1>2. spc' = "recv"
  BY <1>0, <1>1 DEF ServerPlace, Loop
<1>3. TableRight' /\ Registered' = Registered /\ nextClientID' = nextClientID
      /\ clientsQueueId' = clientsQueueId /\ pc' = pc
  BY <1>0, <1>1, SameTable DEF users, client
<1>4. ServerRight'
  <2>1. GroupsType' /\ RowsInv'
    BY <1>0, <1>1, UnchangedRows DEF ServerRight
  <2>2. ServerPlace'
    BY <1>0, <1>1, <1>2, <1>3 DEF ServerPlace
  <2> QED
    BY <1>3, <2>1, <2>2 DEF ServerRight
<1>5. /\ Reaches(QueueOf(actualUserId))
      /\ \A c \in Client : inbox[c] = <<>> =>
           inbox'[c] = IF c \in QueueOf(actualUserId) /\ pc[c] # "ended" /\ responseType > 0
                         THEN <<responseType>> ELSE <<>>
  BY <1>0, <1>1, SendToFacts DEF ServerPlace
<1>6. Reaches(Listeners) /\ interrupts' \in interrupts .. MaxSIGINT
  <2>1. QueueOf(actualUserId) \subseteq Listeners
    BY DEF Listeners, QueueOf, userExist
  <2>2. interrupts' \in interrupts .. MaxSIGINT
    BY <1>1 DEF Whole, ClientType
  <2> QED
    BY <1>5, <2>1, <2>2, FewerHear
<1>7. ASSUME NEW c \in Client PROVE FirstRight(c)'
  <2> SUFFICES ASSUME pc'[c] = "initwait", NEW u \in Registered', clientsQueueId'[u] = c
               PROVE  inbox'[c] # <<>> /\ \/ Head(inbox'[c]) = u + SHIFTID
                                          \/ Head(inbox'[c]) = SHUTDOWN /\ interrupts' > 0
    BY DEF FirstRight
  <2>0. /\ u \in Registered /\ clientsQueueId[u] = c /\ pc[c] = "initwait" /\ FirstRight(c)
        /\ u \in Slot /\ u < nextClientID /\ u \in Nat
    BY <1>0, <1>3 DEF Registered, TableRight, TableOf, UsersAgree
  <2>1. CASE inbox[c] = <<>>
    <3>1. actualUserId = u /\ responseType = u + SHIFTID
      BY <2>0, <2>1 DEF FirstRight
    <3>2. c \in QueueOf(actualUserId)
      BY <1>0, <2>0, <3>1 DEF QueueOf, userExist, Registered
    <3>3. inbox'[c] = <<u + SHIFTID>>
      BY <1>5, <2>0, <2>1, <3>1, <3>2 DEF SHIFTID
    <3> QED
      BY <3>3
  <2>2. CASE inbox[c] # <<>>
    <3>1. inbox'[c] # <<>> /\ Head(inbox'[c]) = Head(inbox[c])
      BY <1>5, <2>2 DEF Reaches
    <3> QED
      BY <1>1, <2>0, <2>2, <3>1 DEF FirstRight
  <2> QED
    BY <2>1, <2>2
<1> QED
  BY <1>1, <1>4, <1>6, <1>7, SameTableClients

LEMMA CloseStep ==
  ASSUME Whole, Close
  PROVE  Whole'
<1>0. /\ ServerRight /\ QueueRight /\ ClientType /\ \A c \in Client : ClientRight(c)
      /\ TableRight /\ ServerPlace
  BY DEF Whole, ServerRight
<1>1. /\ spc = "close" /\ queueExists' = FALSE /\ serverQueue' = <<>> /\ spc' = "ended"
      /\ UNCHANGED <<responseType, actualUserId, runServer, users, groups, inbox, client,
                     interrupts>>
  BY DEF Close
<1>2. TableRight' /\ Registered' = Registered /\ nextClientID' = nextClientID
      /\ clientsQueueId' = clientsQueueId
  BY <1>0, <1>1, SameTable DEF users
<1>3. Registered' = {}
  BY <1>0, <1>1, <1>2 DEF ServerPlace
<1>4. ServerRight'
  <2>1. GroupsType' /\ RowsInv'
    BY <1>0, <1>1, UnchangedRows DEF ServerRight
  <2>2. ServerPlace'
    BY <1>0, <1>1, <1>3 DEF ServerPlace
  <2> QED
    BY <1>2, <2>1, <2>2 DEF ServerRight
<1>5. QueueRight'
  <2>1. serverQueue' \in Seq(RequestType) /\ DOMAIN serverQueue' = {}
    BY <1>1
  <2> QED
    BY <1>1, <2>1 DEF QueueRight, RequestsRight, Requests
<1>6. pc' = pc /\ sender' = sender /\ catcher' = catcher /\ userID' = userID /\ sent' = sent
      /\ interrupts' = interrupts /\ inbox' = inbox
  BY <1>1 DEF client
<1>7. ClientType'
  BY <1>0, <1>6 DEF ClientType
<1>8. ASSUME NEW c \in Client PROVE ClientRight(c)'
  <2>0. AskRight(c) /\ RunRight(c)
    BY <1>0 DEF ClientRight
  <2>1. Unknown(c) => Unknown(c)'
    BY <1>2, <1>6 DEF Unknown
  <2>2. AskRight(c)'
    BY <1>1, <1>6, <2>0, <2>1 DEF AskRight
  <2>3. FirstRight(c)' /\ KnowsRight(c)'
    BY <1>3 DEF FirstRight, KnowsRight
  <2>4. RunRight(c)'
    BY <1>6, <2>0 DEF RunRight
  <2> QED
    BY <2>2, <2>3, <2>4 DEF ClientRight
<1> QED
  BY <1>4, <1>5, <1>7, <1>8 DEF Whole

LEMMA InterruptStep ==
  ASSUME Whole, handleSIGINT
  PROVE  Whole'
<1>0. /\ ServerRight /\ \A c \in Client : FirstRight(c)
      /\ TableRight /\ ServerPlace /\ inbox \in [Client -> Seq(Types)]
      /\ interrupts \in 0 .. MaxSIGINT /\ nextClientID \in 0 .. MAX_CLIENTS_COUNT
  BY DEF Whole, ServerRight, ClientType, ClientRight, TableRight, TableOf, UsersType
<1>1. /\ interrupts < MaxSIGINT /\ interrupts' = interrupts + 1
      /\ UNCHANGED <<serverQueue, queueExists, responseType, actualUserId, runServer, users,
                     groups, client>>
      /\ \/ /\ SendTo(UNION {QueueOf(u) : u \in 0 .. nextClientID - 1}, SHUTDOWN)
            /\ spc' = spc
         \/ activeUserCount = 0 /\ spc' = "exited" /\ UNCHANGED inbox
  <2>1. activeUserCount > 0 \/ activeUserCount = 0
    <3>1. Cardinality(Registered) \in Nat
      BY RegisteredFinite, FS_CardinalityType
    <3> QED
      BY <1>0, <3>1 DEF TableRight, TableOf, UsersAgree
  <2> QED
    BY <2>1 DEF handleSIGINT
<1>2. interrupts' \in interrupts .. MaxSIGINT /\ interrupts' > 0 /\ spc' \in {spc, "exited"}
  BY <1>0, <1>1
<1>3. TableRight' /\ Registered' = Registered /\ nextClientID' = nextClientID
      /\ clientsQueueId' = clientsQueueId /\ pc' = pc
  BY <1>0, <1>1, SameTable DEF users, client
<1>4. ServerRight'
  <2>1. GroupsType' /\ RowsInv'
    BY <1>0, <1>1, UnchangedRows DEF ServerRight
  <2>2. ServerPlace'
    BY <1>0, <1>1, <1>2, <1>3 DEF ServerPlace
  <2> QED
    BY <1>3, <2>1, <2>2 DEF ServerRight
<1>5. CASE /\ SendTo(UNION {QueueOf(u) : u \in 0 .. nextClientID - 1}, SHUTDOWN)
           /\ spc' = spc
  <2> DEFINE all == UNION {QueueOf(u) : u \in 0 .. nextClientID - 1}
  <2>1. all \subseteq Listeners
    <3>1. 0 .. nextClientID - 1 \subseteq Slot
      BY <1>0 DEF Slot
    <3> QED
      BY <3>1 DEF Listeners
  <2> HIDE DEF all
  <2>2. /\ Reaches(all)
        /\ \A c \in Client : inbox[c] = <<>> =>
             inbox'[c] = IF c \in all /\ pc[c] # "ended" /\ SHUTDOWN > 0
                           THEN <<SHUTDOWN>> ELSE <<>>
    <3>1. SendTo(all, SHUTDOWN) /\ SHUTDOWN \in Int
      BY <1>5 DEF all, SHUTDOWN
    <3> QED
      BY <1>0, <3>1, SendToFacts
  <2>3. Reaches(Listeners)
    BY <2>1, <2>2, FewerHear
  <2>4. ASSUME NEW c \in Client PROVE FirstRight(c)'
    <3> SUFFICES ASSUME pc'[c] = "initwait", NEW u \in Registered', clientsQueueId'[u] = c
                 PROVE  IF inbox'[c] = <<>>
                          THEN spc' = "reply" /\ actualUserId' = u /\ responseType' = u + SHIFTID
                          ELSE \/ Head(inbox'[c]) = u + SHIFTID
                               \/ Head(inbox'[c]) = SHUTDOWN /\ interrupts' > 0
      BY DEF FirstRight
    <3>0. u \in Registered /\ clientsQueueId[u] = c /\ pc[c] = "initwait" /\ FirstRight(c)
      BY <1>0, <1>3
    <3>1. CASE inbox[c] = <<>>
      <4>1. spc = "reply" /\ actualUserId = u /\ responseType = u + SHIFTID
        BY <3>0, <3>1 DEF FirstRight
      <4>2. inbox'[c] = <<>> \/ (inbox'[c] # <<>> /\ Head(inbox'[c]) = SHUTDOWN)
        BY <2>2, <3>1
      <4> QED
        BY <1>1, <1>2, <1>5, <4>1, <4>2
    <3>2. CASE inbox[c] # <<>>
      <4>1. inbox'[c] # <<>> /\ Head(inbox'[c]) = Head(inbox[c])
        BY <2>2, <3>2 DEF Reaches
      <4> QED
        BY <1>2, <3>0, <3>2, <4>1 DEF FirstRight
    <3> QED
      BY <3>1, <3>2
  <2> QED
    BY <1>1, <1>2, <1>4, <2>3, <2>4, SameTableClients
<1>6. CASE activeUserCount = 0 /\ spc' = "exited" /\ UNCHANGED inbox
  <2>1. Registered' = {}
    <3>1. Registered = {}
      BY <1>0, <1>6, RegisteredFinite, FS_EmptySet DEF TableRight, TableOf, UsersAgree
    <3> QED
      BY <1>3, <3>1
  <2>2. Reaches(Listeners)
    BY <1>0, <1>6, NobodyHears, FewerHear
  <2>3. \A c \in Client : FirstRight(c)'
    BY <2>1 DEF FirstRight
  <2> QED
    BY <1>1, <1>2, <1>4, <2>2, <2>3, SameTableClients
<1> QED
  BY <1>1, <1>5, <1>6

-----------------------------------------------------------------------------
(* The steps of a client: the server stays as it is.                       *)

NobodyAsks == \A d \in Client, i \in Nat : AsksFor(i, d)' => AsksFor(i, d)

Still(c) ==
  /\ interrupts' \in interrupts .. MaxSIGINT
  /\ \A d \in Client \ {c} : /\ pc'[d] = pc[d] /\ inbox'[d] = inbox[d] /\ userID'[d] = userID[d]
                             /\ sender'[d] = sender[d] /\ catcher'[d] = catcher[d]

LEMMA OthersStay ==
  ASSUME Whole, UNCHANGED server, NEW c \in Client, Still(c), NEW d \in Client \ {c}, QueueRight',
         \A i \in Nat : AsksFor(i, d)' => AsksFor(i, d)
  PROVE  ClientRight(d)'
<1>0. /\ ServerRight /\ AskRight(d) /\ FirstRight(d) /\ KnowsRight(d) /\ RunRight(d)
      /\ interrupts \in 0 .. MaxSIGINT
  BY DEF Whole, ClientRight, ClientType
<1>1. /\ spc' = spc /\ actualUserId' = actualUserId /\ responseType' = responseType
      /\ clientsQueueId' = clientsQueueId /\ Registered' = Registered
  BY <1>0, SameServer DEF server, users
<1>2. /\ pc'[d] = pc[d] /\ inbox'[d] = inbox[d] /\ userID'[d] = userID[d]
      /\ sender'[d] = sender[d] /\ catcher'[d] = catcher[d]
      /\ (interrupts > 0 => interrupts' > 0)
  BY <1>0 DEF Still
<1>3. Unknown(d)' <=> Unknown(d)
  BY <1>1, <1>2 DEF Unknown
<1>4. AskRight(d)'
  <2>1. DOMAIN serverQueue' \subseteq Nat
    BY DEF QueueRight, RequestsRight
  <2> QED
    BY <1>0, <1>2, <1>3, <2>1 DEF AskRight, AsksFor
<1>5. FirstRight(d)'
  BY <1>0, <1>1, <1>2 DEF FirstRight
<1>6. KnowsRight(d)'
  BY <1>0, <1>1, <1>2 DEF KnowsRight
<1>7. RunRight(d)'
  BY <1>0, <1>2 DEF RunRight
<1> QED
  BY <1>4, <1>5, <1>6, <1>7 DEF ClientRight

LEMMA SubmitFacts ==
  ASSUME QueueRight, NEW r \in RequestType, r.type = INIT => r.from \in Client,
         r.type \in Commands => r.ids \in Arguments(r.type), Submit(r), UNCHANGED queueExists
  PROVE  /\ QueueRight'
         /\ \A d \in Client, i \in Nat : AsksFor(i, d)' =>
              \/ AsksFor(i, d)
              \/ /\ r.type = INIT /\ r.from = d /\ queueExists
                 /\ i = Len(serverQueue) + 1
<1> DEFINE n == Len(serverQueue)
<1>0. serverQueue \in Seq(RequestType) /\ n \in Nat /\ DOMAIN serverQueue = 1 .. n
      /\ queueExists \in BOOLEAN /\ queueExists' = queueExists
  BY DEF QueueRight, RequestsRight
<1>1. CASE ~queueExists
  <2>1. serverQueue' = serverQueue
    BY <1>1 DEF Submit
  <2> QED
    BY <2>1 DEF AsksFor, QueueRight, RequestsRight, Requests, Arguments, Slot
<1>2. CASE queueExists
  <2>1. serverQueue' = Append(serverQueue, r)
    BY <1>2 DEF Submit
  <2>2. /\ serverQueue' \in Seq(RequestType) /\ DOMAIN serverQueue' = 1 .. n + 1
        /\ \A j \in 1 .. n : serverQueue'[j] = serverQueue[j]
        /\ serverQueue'[n + 1] = r
    BY <1>0, <2>1, AppendFacts
  <2> HIDE DEF n
  <2>3. \A j \in DOMAIN serverQueue' : j \in DOMAIN serverQueue \/ j = n + 1
    BY <1>0, <2>2
  <2>4. Requests'
    <3> SUFFICES ASSUME NEW j \in DOMAIN serverQueue'
                 PROVE  LET q == serverQueue'[j] IN /\ q.type = INIT => q.from \in Client
                                                    /\ q.type \in Commands => q.ids \in Arguments(q.type)
      BY DEF Requests, Arguments, Slot
    <3>1. CASE j \in DOMAIN serverQueue
      BY <1>0, <2>2, <3>1 DEF QueueRight, RequestsRight, Requests
    <3>2. CASE j = n + 1
      BY <2>2, <3>2
    <3> QED
      BY <2>3, <3>1, <3>2
  <2>5. ASSUME NEW d \in Client, NEW i \in Nat, AsksFor(i, d)'
        PROVE  AsksFor(i, d) \/ (r.type = INIT /\ r.from = d /\ i = n + 1)
    BY <1>0, <2>2, <2>3, <2>5 DEF AsksFor
  <2> QED
    BY <1>0, <1>2, <2>2, <2>4, <2>5 DEF QueueRight, RequestsRight, n
<1> QED
  BY <1>0, <1>1, <1>2

(* Steps of a client that runs. *)
LEMMA RunningStep ==
  ASSUME Whole, UNCHANGED server, NEW c \in Client, Still(c), NobodyAsks, QueueRight', ClientType',
         pc[c] = "running", userID'[c] = userID[c],
         \/ pc'[c] = "running"
         \/ pc'[c] = "ended" /\ sender'[c] = "none" /\ catcher'[c] = "none"
  PROVE  Whole'
<1>1. ServerRight' /\ Registered' = Registered /\ clientsQueueId' = clientsQueueId
  BY SameServer DEF Whole, server, users
<1>2. ASSUME NEW d \in Client \ {c} PROVE ClientRight(d)'
  BY OthersStay DEF NobodyAsks
<1>3. AskRight(c)'
  <2>1. \A i \in DOMAIN serverQueue : ~AsksFor(i, c)
    BY DEF Whole, ClientRight, AskRight
  <2>2. DOMAIN serverQueue' \subseteq Nat
    BY DEF QueueRight, RequestsRight
  <2>3. \A i \in DOMAIN serverQueue' : ~(AsksFor(i, c)')
    BY <2>1, <2>2 DEF NobodyAsks, AsksFor
  <2> QED
    BY <2>3 DEF AskRight
<1>4. FirstRight(c)' /\ RunRight(c)'
  BY DEF FirstRight, RunRight
<1>5. KnowsRight(c)'
  <2>1. interrupts > 0 => interrupts' > 0
    BY DEF Still, Whole, ClientType
  <2> QED
    BY <1>1, <2>1 DEF KnowsRight, Whole, ClientRight
<1> QED
  BY <1>1, <1>2, <1>3, <1>4, <1>5 DEF Whole, ClientRight

LEMMA InitClientStep ==
  ASSUME Whole, NEW c \in Client, InitClient(c)
  PROVE  Whole'
<1> DEFINE r == Request(INIT, -1, c, <<>>)
<1>0. /\ QueueRight /\ ClientType /\ ClientRight(c) /\ pc[c] = "new"
      /\ UNCHANGED server /\ queueExists' = queueExists /\ inbox' = inbox /\ userID' = userID
      /\ sender' = sender /\ catcher' = catcher /\ sent' = sent /\ interrupts' = interrupts
      /\ pc' = [pc EXCEPT ![c] = IF queueExists THEN "initwait" ELSE "failed"]
      /\ Submit(r)
  BY DEF Whole, InitClient
<1>1. r \in RequestType /\ r.type = INIT /\ r.from = c /\ INIT \notin Commands
  <2>1. INIT \notin Commands
    BY DEF INIT, LIST, FRIENDS, ECHO, _2ALL, _2FRIENDS, _2ONE, ADD, DEL
  <2> QED
    BY <2>1 DEF RequestType, Request
<1> HIDE DEF r
<1>2. /\ QueueRight'
      /\ \A d \in Client, i \in Nat : AsksFor(i, d)' =>
           AsksFor(i, d) \/ (d = c /\ queueExists /\ i = Len(serverQueue) + 1)
  <2>1. r.type \in Commands => r.ids \in Arguments(r.type)
    BY <1>1
  <2> QED
    BY <1>0, <1>1, <2>1, SubmitFacts
<1>3. /\ pc'[c] = IF queueExists THEN "initwait" ELSE "failed"
      /\ \A d \in Client \ {c} : pc'[d] = pc[d]
      /\ pc' \in [Client -> {"new", "initwait", "running", "failed", "killed", "ended"}]
  BY <1>0 DEF ClientType
<1>4. ClientType'
  BY <1>0, <1>3 DEF ClientType
<1>5. ServerRight' /\ Registered' = Registered /\ clientsQueueId' = clientsQueueId
  BY <1>0, SameServer DEF Whole, server, users
<1>6. Still(c)
  BY <1>0, <1>3 DEF Still, ClientType
<1>7. ASSUME NEW d \in Client \ {c} PROVE ClientRight(d)'
  BY <1>0, <1>2, <1>6, OthersStay
<1>8. ClientRight(c)'
  <2>1. Unknown(c)' /\ \A i \in DOMAIN serverQueue : ~AsksFor(i, c)
    BY <1>0, <1>5 DEF ClientRight, AskRight, Unknown
  <2>2. DOMAIN serverQueue' \subseteq Nat
    BY <1>2 DEF QueueRight, RequestsRight
  <2>3. ASSUME NEW i \in DOMAIN serverQueue', AsksFor(i, c)'
        PROVE  queueExists /\ i = Len(serverQueue) + 1
    BY <1>2, <2>1, <2>2, <2>3 DEF AsksFor
  <2>4. AskRight(c)'
    BY <1>3, <2>1, <2>3 DEF AskRight
  <2>5. FirstRight(c)' /\ KnowsRight(c)'
    BY <1>3, <1>5, <2>1 DEF FirstRight, KnowsRight, Unknown, Registered
  <2>6. RunRight(c)'
    BY <1>0 DEF ClientRight, RunRight
  <2> QED
    BY <2>4, <2>5, <2>6 DEF ClientRight
<1> QED
  BY <1>2, <1>4, <1>5, <1>7, <1>8 DEF Whole

(* The first message becomes the client's id. *)
LEMMA ReceiveIdStep ==
  ASSUME Whole, NEW c \in Client, ReceiveId(c)
  PROVE  Whole'
<1>0. /\ QueueRight /\ ClientType /\ ClientRight(c) /\ pc[c] = "initwait" /\ inbox[c] # <<>>
      /\ UNCHANGED server /\ UNCHANGED <<serverQueue, queueExists, sent, interrupts>>
      /\ userID' = [userID EXCEPT ![c] = Head(inbox[c])]
      /\ inbox' = [inbox EXCEPT ![c] = Tail(@)]
      /\ pc' = [pc EXCEPT ![c] = "running"]
      /\ sender' = [sender EXCEPT ![c] = "typing"]
      /\ catcher' = [catcher EXCEPT ![c] = "reading"]
  BY DEF Whole, ReceiveId
<1>1. Head(inbox[c]) \in Int /\ Tail(inbox[c]) \in Seq(Types)
  <2>1. inbox[c] \in Seq(Types)
    BY <1>0 DEF ClientType
  <2>2. Head(inbox[c]) \in Types /\ Tail(inbox[c]) \in Seq(Types)
    BY <1>0, <2>1
  <2> QED
    BY <2>2 DEF Types
<1>2. pc'[c] = "running" /\ userID'[c] = Head(inbox[c])
  BY <1>0 DEF ClientType
<1>3. Still(c)
  BY <1>0 DEF Still, ClientType
<1>4. ClientType'
  <2>1. inbox' \in [Client -> Seq(Types)]
    BY <1>0, <1>1 DEF ClientType
  <2>2. userID' \in [Client -> Int]
    BY <1>0, <1>1 DEF ClientType
  <2> QED
    BY <1>0, <2>1, <2>2 DEF ClientType
<1>5. QueueRight' /\ \A d \in Client, i \in Nat : AsksFor(i, d)' <=> AsksFor(i, d)
  BY <1>0 DEF QueueRight, RequestsRight, Requests, Arguments, Slot, AsksFor
<1>6. ServerRight' /\ Registered' = Registered /\ clientsQueueId' = clientsQueueId
  BY <1>0, SameServer DEF Whole, server, users
<1>7. ASSUME NEW d \in Client \ {c} PROVE ClientRight(d)'
  BY <1>0, <1>3, <1>5, OthersStay
<1>8. ClientRight(c)'
  <2>1. \A i \in DOMAIN serverQueue : ~AsksFor(i, c)
    BY <1>0 DEF ClientRight, AskRight, Unknown
  <2>2. AskRight(c)'
    BY <1>0, <1>2, <2>1 DEF AskRight, AsksFor
  <2>3. FirstRight(c)' /\ RunRight(c)'
    BY <1>2 DEF FirstRight, RunRight
  <2>4. KnowsRight(c)'
    <3>1. \A u \in Registered : clientsQueueId[u] = c =>
            Head(inbox[c]) = u + SHIFTID \/ (Head(inbox[c]) = SHUTDOWN /\ interrupts > 0)
      BY <1>0 DEF ClientRight, FirstRight
    <3> QED
      BY <1>0, <1>2, <1>6, <3>1 DEF KnowsRight
  <2> QED
    BY <2>2, <2>3, <2>4 DEF ClientRight
<1> QED
  BY <1>4, <1>5, <1>6, <1>7, <1>8 DEF Whole

(* What a client that runs sends. *)
LEMMA SubmitStep ==
  ASSUME Whole, NEW c \in Client, NEW r \in RequestType, r.type # INIT,
         r.type \in Commands => r.ids \in Arguments(r.type), Submit(r),
         sender[c] # "none" \/ catcher[c] # "none",
         UNCHANGED <<queueExists, server, inbox, pc, userID, interrupts>>,
         sent' \in 0 .. MaxCommands,
         sender' \in [Client -> {"none", "typing", "stopping", "leaving", "dead"}],
         catcher' \in [Client -> {"none", "reading", "ending", "leaving"}],
         \A d \in Client \ {c} : sender'[d] = sender[d] /\ catcher'[d] = catcher[d]
  PROVE  Whole'
<1>1. pc[c] = "running" /\ ClientType /\ QueueRight
  BY DEF Whole, ClientRight, RunRight
<1>2. QueueRight' /\ NobodyAsks
  BY <1>1, SubmitFacts DEF NobodyAsks
<1>3. ClientType' /\ Still(c)
  BY <1>1 DEF ClientType, Still
<1> QED
  BY <1>1, <1>2, <1>3, RunningStep

LEMMA SendCommandStep ==
  ASSUME Whole, NEW c \in Client, SendCommand(c)
  PROVE  Whole'
<1>1. PICK type \in Commands : \E ids \in Arguments(type) :
         Submit(Request(type, userID[c], NoClient, ids))
  BY DEF SendCommand
<1>2. PICK ids \in Arguments(type) : Submit(Request(type, userID[c], NoClient, ids))
  BY <1>1
<1> DEFINE r == Request(type, userID[c], NoClient, ids)
<1>3. ClientType
  BY DEF Whole
<1>4. ids \in Seq(Slot)
  <2>1. Lists \subseteq Seq(Slot) /\ <<>> \in Seq(Slot) /\ \A u \in Slot : <<u>> \in Seq(Slot)
    BY DEF Slot
  <2> QED
    BY <2>1 DEF Arguments
<1>5. r \in RequestType /\ r.type = type /\ r.ids = ids
  BY <1>3, <1>4 DEF Request, RequestType, ClientType
<1>6. type # INIT
  BY DEF INIT, LIST, FRIENDS, ECHO, _2ALL, _2FRIENDS, _2ONE, ADD, DEL
<1>7. sent' \in 0 .. MaxCommands
  BY <1>3 DEF SendCommand, ClientType
<1> HIDE DEF r
<1>8. Submit(r)
  BY <1>2 DEF r
<1> QED
  BY <1>3, <1>5, <1>6, <1>7, <1>8, SubmitStep DEF SendCommand, ClientType

LEMMA StopRequest ==
  ASSUME ClientType, NEW c \in Client
  PROVE  LET r == Request(STOP, userID[c], c, <<>>)
         IN r \in RequestType /\ r.type = STOP /\ STOP # INIT /\ STOP \notin Commands
<1>1. STOP # INIT /\ STOP \notin Commands
  BY DEF STOP, INIT, LIST, FRIENDS, ECHO, _2ALL, _2FRIENDS, _2ONE, ADD, DEL
<1> QED
  BY <1>1 DEF Request, RequestType, ClientType

LEMMA SendStopStep ==
  ASSUME Whole, NEW c \in Client, NEW from, NEW to \in {"stopping", "leaving"},
         from # "none", SendStop(c, from, to)
  PROVE  Whole'
<1> DEFINE r == Request(STOP, userID[c], c, <<>>)
<1>1. ClientType
  BY DEF Whole
<1>2. r \in RequestType /\ r.type = STOP /\ STOP # INIT /\ STOP \notin Commands
  BY <1>1, StopRequest
<1>3. Submit(r) /\ sender' = [sender EXCEPT ![c] = to]
      /\ UNCHANGED <<queueExists, server, inbox, pc, catcher, userID, sent, interrupts>>
      /\ sender[c] # "none"
  BY DEF SendStop
<1> HIDE DEF r
<1> QED
  BY <1>1, <1>2, <1>3, SubmitStep DEF ClientType

LEMMA CatcherEndStep ==
  ASSUME Whole, NEW c \in Client, CatcherEnd(c)
  PROVE  Whole'
<1> DEFINE r == Request(STOP, userID[c], c, <<>>)
<1>1. ClientType
  BY DEF Whole
<1>2. r \in RequestType /\ r.type = STOP /\ STOP # INIT /\ STOP \notin Commands
  BY <1>1, StopRequest
<1>3. Submit(r) /\ catcher' = [catcher EXCEPT ![c] = "leaving"]
      /\ UNCHANGED <<queueExists, server, inbox, pc, sender, userID, sent, interrupts>>
      /\ catcher[c] # "none"
  BY DEF CatcherEnd
<1> HIDE DEF r
<1> QED
  BY <1>1, <1>2, <1>3, SubmitStep DEF ClientType

LEMMA CatcherReadStep ==
  ASSUME Whole, NEW c \in Client, CatcherRead(c)
  PROVE  Whole'
<1>0. /\ ClientType /\ QueueRight /\ catcher[c] = "reading" /\ pc[c] = "running"
      /\ UNCHANGED <<serverQueue, queueExists, server, pc, sender, userID, sent, interrupts>>
  BY DEF Whole, CatcherRead, ClientRight, RunRight
<1>1. PICK i \in DOMAIN inbox[c] :
        /\ inbox' = [inbox EXCEPT ![c] = Without(@, i)]
        /\ catcher' = [catcher EXCEPT ![c] = IF inbox[c][i] = SHUTDOWN THEN "ending" ELSE @]
  BY DEF CatcherRead
<1>2. Without(inbox[c], i) \in Seq(Types)
  <2>1. inbox[c] \in Seq(Types)
    BY <1>0 DEF ClientType
  <2> QED
    BY <2>1, WithoutFacts
<1>3. ClientType' /\ Still(c)
  BY <1>0, <1>1, <1>2 DEF ClientType, Still
<1>4. QueueRight' /\ NobodyAsks
  BY <1>0 DEF QueueRight, RequestsRight, Requests, Arguments, Slot, AsksFor, NobodyAsks
<1> QED
  BY <1>0, <1>3, <1>4, RunningStep

LEMMA LeaveStep ==
  ASSUME Whole, NEW c \in Client, Leave(c)
  PROVE  Whole'
<1>0. /\ ClientType /\ QueueRight /\ pc[c] = "running"
      /\ UNCHANGED <<serverQueue, queueExists, server, userID, sent, interrupts>>
      /\ inbox' = [inbox EXCEPT ![c] = <<>>] /\ pc' = [pc EXCEPT ![c] = "ended"]
      /\ sender' = [sender EXCEPT ![c] = "none"] /\ catcher' = [catcher EXCEPT ![c] = "none"]
  BY DEF Whole, Leave, ClientRight, RunRight
<1>1. ClientType'
  BY <1>0 DEF ClientType
<1>2. Still(c) /\ pc'[c] = "ended" /\ sender'[c] = "none" /\ catcher'[c] = "none"
  BY <1>0 DEF ClientType, Still
<1>3. QueueRight' /\ NobodyAsks
  BY <1>0 DEF QueueRight, RequestsRight, Requests, Arguments, Slot, AsksFor, NobodyAsks
<1> QED
  BY <1>0, <1>1, <1>2, <1>3, RunningStep

LEMMA InterruptClientStep ==
  ASSUME Whole, NEW c \in Client, Interrupt(c)
  PROVE  Whole'
<1>0. /\ ClientType /\ QueueRight /\ ClientRight(c) /\ UNCHANGED server
      /\ UNCHANGED <<serverQueue, queueExists, inbox, userID, sent>>
      /\ interrupts < MaxSIGINT /\ interrupts' = interrupts + 1
  BY DEF Whole, Interrupt
<1>1. QueueRight' /\ NobodyAsks
  BY <1>0 DEF QueueRight, RequestsRight, Requests, Arguments, Slot, AsksFor, NobodyAsks
<1>2. CASE pc[c] = "initwait" /\ pc' = [pc EXCEPT ![c] = "killed"] /\ UNCHANGED <<sender, catcher>>
  <2>1. ClientType' /\ Still(c) /\ pc'[c] = "killed"
    BY <1>0, <1>2 DEF ClientType, Still
  <2>2. ServerRight' /\ Registered' = Registered /\ clientsQueueId' = clientsQueueId
    BY <1>0, SameServer DEF Whole, server, users
  <2>3. ASSUME NEW d \in Client \ {c} PROVE ClientRight(d)'
    BY <1>0, <1>1, <2>1, OthersStay DEF NobodyAsks
  <2>4. AskRight(c)'
    <3>1. Unknown(c)' <=> Unknown(c)
      BY <1>0, <2>2 DEF Unknown
    <3> QED
      BY <1>0, <1>2, <2>1, <3>1 DEF AskRight, ClientRight, AsksFor
  <2>5. FirstRight(c)' /\ KnowsRight(c)' /\ RunRight(c)'
    BY <1>0, <1>2, <2>1 DEF FirstRight, KnowsRight, RunRight, ClientRight
  <2> QED
    BY <1>1, <2>1, <2>2, <2>3, <2>4, <2>5 DEF Whole, ClientRight
<1>3. CASE /\ catcher[c] = "reading" /\ catcher' = [catcher EXCEPT ![c] = "ending"]
           /\ sender' = [sender EXCEPT ![c] = "dead"] /\ UNCHANGED pc
  <2>1. ClientType' /\ Still(c) /\ pc[c] = "running" /\ pc'[c] = "running"
    BY <1>0, <1>3 DEF ClientType, Still, ClientRight, RunRight
  <2> QED
    BY <1>0, <1>1, <2>1, RunningStep
<1> QED
  BY <1>2, <1>3 DEF Interrupt

-----------------------------------------------------------------------------
(* The invariant.                                                          *)

LEMMA InitRight ==
  ASSUME Init
  PROVE  Whole
<1>0. TableInit
  BY DEF Init
<1>1. Registered = {} /\ 0 \in Slot
  <2>1. Registered = {}
    BY <1>0 DEF TableInit, Registered
  <2>2. 0 \in Slot
    BY DEF Slot
  <2> QED
    BY <2>1, <2>2
<1>2. TableRight
  <2>1. Cardinality(Registered) = 0
    BY <1>1, FS_EmptySet
  <2> QED
    BY <1>0, <1>1, <2>1 DEF TableInit, TableRight, TableOf, UsersAgree, UsersType
<1>3. GroupsType
  <2>1. groupsSize \in [Slot -> -1 .. MAX_GROUP_SIZE]
    BY <1>0 DEF TableInit
  <2>2. friendsGroups \in [Cells -> Slot]
    BY <1>0, <1>1 DEF TableInit, Cells
  <2> QED
    BY <1>0, <2>1, <2>2 DEF TableInit, GroupsType
<1>4. RowsInv
  <2>1. \A u \in Slot : groupsSize[u] = -1
    BY <1>0 DEF TableInit
  <2>2. \A u \in Slot : RowRight(friendsGroups, groupsSize[u], u, Registered \ {u})
    BY <2>1 DEF RowRight
  <2> QED
    BY <2>1, <2>2 DEF RowsInv
<1>5. ServerPlace
  BY <1>0 DEF Init, TableInit, ServerPlace
<1>6. QueueRight
  <2>1. serverQueue \in Seq(RequestType) /\ DOMAIN serverQueue = {}
    BY DEF Init
  <2> QED
    BY <2>1 DEF Init, QueueRight, RequestsRight, Requests
<1>7. ClientType
  BY DEF Init, ClientType
<1>8. ASSUME NEW c \in Client PROVE ClientRight(c)
  <2>1. /\ pc[c] = "new" /\ inbox[c] = <<>> /\ sender[c] = "none" /\ catcher[c] = "none"
        /\ DOMAIN serverQueue = {}
    BY DEF Init
  <2>2. Unknown(c)
    BY <1>0, <2>1 DEF Unknown, TableInit
  <2> QED
    BY <2>1, <2>2 DEF ClientRight, AskRight, FirstRight, KnowsRight, RunRight
<1> QED
  BY <1>2, <1>3, <1>4, <1>5, <1>6, <1>7, <1>8 DEF Whole, ServerRight

LEMMA NextRight ==
  ASSUME Whole, [Next]_vars
  PROVE  Whole'
<1>1. CASE ServerStep
  BY <1>1, ServeStep, ReplyStep, CloseStep DEF ServerStep
<1>2. CASE handleSIGINT
  BY <1>2, InterruptStep
<1>3. ASSUME NEW c \in Client, ClientStep(c) PROVE Whole'
  <2>1. CASE ReceiveId(c)
    BY <2>1, ReceiveIdStep
  <2>2. CASE SenderEnd(c)
    BY <2>2, SendStopStep DEF SenderEnd
  <2>3. CASE CatcherRead(c)
    BY <2>3, CatcherReadStep
  <2>4. CASE CatcherEnd(c)
    BY <2>4, CatcherEndStep
  <2>5. CASE Leave(c)
    BY <2>5, LeaveStep
  <2> QED
    BY <1>3, <2>1, <2>2, <2>3, <2>4, <2>5 DEF ClientStep
<1>4. ASSUME NEW c \in Client, User(c) PROVE Whole'
  <2>1. CASE InitClient(c)
    BY <2>1, InitClientStep
  <2>2. CASE SendCommand(c)
    BY <2>2, SendCommandStep
  <2>3. CASE TypeStop(c)
    BY <2>3, SendStopStep DEF TypeStop
  <2>4. CASE Interrupt(c)
    BY <2>4, InterruptClientStep
  <2> QED
    BY <1>4, <2>1, <2>2, <2>3, <2>4 DEF User
<1>5. CASE UNCHANGED vars
  <2>0. /\ UNCHANGED <<serverQueue, queueExists, server, inbox, interrupts>>
        /\ pc' = pc /\ sender' = sender /\ catcher' = catcher /\ userID' = userID /\ sent' = sent
    BY <1>5 DEF vars, client
  <2>1. ServerRight' /\ Registered' = Registered
    BY <2>0, SameServer DEF Whole
  <2>2. QueueRight' /\ ClientType'
    BY <2>0 DEF Whole, QueueRight, RequestsRight, Requests, Arguments, Slot, ClientType
  <2>3. ASSUME NEW c \in Client PROVE ClientRight(c)'
    <3>1. clientsQueueId' = clientsQueueId /\ spc' = spc /\ actualUserId' = actualUserId
          /\ responseType' = responseType
      BY <2>0 DEF server, users
    <3>2. Unknown(c)' <=> Unknown(c)
      BY <2>0, <3>1 DEF Unknown
    <3>3. AskRight(c)'
      BY <2>0, <3>2 DEF Whole, ClientRight, AskRight, AsksFor
    <3>4. FirstRight(c)'
      BY <2>0, <2>1, <3>1 DEF Whole, ClientRight, FirstRight
    <3>5. KnowsRight(c)' /\ RunRight(c)'
      BY <2>0, <2>1, <3>1 DEF Whole, ClientRight, KnowsRight, RunRight
    <3> QED
      BY <3>3, <3>4, <3>5 DEF ClientRight
  <2> QED
    BY <2>1, <2>2, <2>3 DEF Whole
<1> QED
  BY <1>1, <1>2, <1>3, <1>4, <1>5 DEF Next

(* The table, the groups, the requests on the way and what clients know    *)
(* fit together after every step of the server, a client, a user or SIGINT *)
(* (server.c and client.c of lab6 zad1).                                   *)
THEOREM Invariance == Spec => [](UsersInv /\ KnowsItsId /\ Basis)
<1>1. Init => Whole
  BY InitRight
<1>2. Whole /\ [Next]_vars => Whole'
  BY NextRight
<1>3. Whole => UsersInv /\ KnowsItsId /\ Basis
  BY Together DEF IInv
<1> QED
  BY <1>1, <1>2, <1>3, PTL DEF Spec

(* The number of active users, the table and the next free id agree, and   *)
(* no client holds two slots, in every order of INIT and STOP.             *)
THEOREM UsersRight == Spec => []UsersInv
BY Invariance, PTL

(* A client that runs knows its own slot, unless a SHUTDOWN came first.    *)
THEOREM IdsRight == Spec => []KnowsItsId
BY Invariance, PTL

LEMMA RowCount ==
  ASSUME NEW g, NEW u \in Slot, NEW n \in Nat, NEW S, RowRight(g, n, u, S)
  PROVE  Cardinality({g[At(u, j)] : j \in 0 .. n - 1}) = n
<1> DEFINE Members == {g[At(u, j)] : j \in 0 .. n - 1}
           member == [j \in 0 .. n - 1 |-> g[At(u, j)]]
<1>1. member \in [0 .. n - 1 -> Members]
  OBVIOUS
<1>2. \A j, k \in 0 .. n - 1 : member[j] = member[k] => j = k
  BY DEF RowRight
<1>3. \A x \in Members : \E j \in 0 .. n - 1 : member[j] = x
  OBVIOUS
<1> HIDE DEF member, Members
<1>4. member \in Bijection(0 .. n - 1, Members)
  BY <1>1, <1>2, <1>3 DEF Bijection, Injection, Surjection, IsInjective
<1>5. IsFiniteSet(0 .. n - 1) /\ Cardinality(0 .. n - 1) = n
  BY FS_Interval
<1>6. Cardinality(Members) = n
  BY <1>4, <1>5, FS_Bijection DEF ExistsBijection
<1> QED
  BY <1>6 DEF Members

(* A group holds registered users other than its owner, each once, unless  *)
(* users type an id twice or ADD came before any FRIENDS.                  *)
THEOREM GroupsRight == Spec => []GroupInv
<1>1. ASSUME UsersInv, Basis PROVE GroupInv
  <2> SUFFICES ASSUME NoIdTwice, ~stray, NEW u \in Slot
               PROVE  /\ Group(u) \subseteq Registered \ {u}
                      /\ groupsSize[u] >= 0 => Cardinality(Group(u)) = groupsSize[u]
    BY DEF GroupInv
  <2>1. RowRight(friendsGroups, groupsSize[u], u, Registered \ {u})
    BY <1>1 DEF Basis, RowsInv
  <2>2. Group(u) \subseteq Registered \ {u}
    BY <2>1 DEF RowRight, Group
  <2>3. ASSUME groupsSize[u] >= 0 PROVE Cardinality(Group(u)) = groupsSize[u]
    <3>1. groupsSize[u] \in Nat
      BY <1>1, <2>3 DEF UsersInv, TypeOK
    <3> QED
      BY <2>1, <3>1, RowCount DEF Group
  <2> QED
    BY <2>2, <2>3
<1> QED
  BY <1>1, Invariance, PTL
-----------------------------------------------------------------------------
(* The chat over POSIX queues (lab6 zad2) has the same table.              *)

CONSTANTS MAX_MESSAGES, MaxRestarts
VARIABLES linked, outgoing, opened, restarts

Posix == INSTANCE ChatPosix

LEMMA PosixTypes ==
  /\ Posix!STOP = STOP /\ Posix!LIST = LIST /\ Posix!FRIENDS = FRIENDS /\ Posix!INIT = INIT
  /\ Posix!ECHO = ECHO /\ Posix!_2ALL = _2ALL /\ Posix!_2FRIENDS = _2FRIENDS
  /\ Posix!_2ONE = _2ONE /\ Posix!ADD = ADD /\ Posix!DEL = DEL
BY DEF STOP, LIST, FRIENDS, INIT, ECHO, _2ALL, _2FRIENDS, _2ONE, ADD, DEL,
       Posix!STOP, Posix!LIST, Posix!FRIENDS, Posix!INIT, Posix!ECHO, Posix!_2ALL,
       Posix!_2FRIENDS, Posix!_2ONE, Posix!ADD, Posix!DEL

LEMMA PosixUsers ==
  /\ Posix!Slot = Slot /\ Posix!Registered = Registered
  /\ Posix!getFreeIndex = getFreeIndex
  /\ \A u : Posix!userExist(u) <=> userExist(u)
  /\ \A q : Posix!userQueueExist(q) <=> userQueueExist(q)
  /\ \A u, j : Posix!At(u, j) = At(u, j)
BY DEF Slot, Registered, getFreeIndex, userExist, userQueueExist, At,
       Posix!Slot, Posix!Registered, Posix!getFreeIndex, Posix!userExist,
       Posix!userQueueExist, Posix!At

LEMMA PosixRequests ==
  /\ \A type : Posix!Arguments(type) = Arguments(type)
  /\ \A type, id, from, ids : Posix!Request(type, id, from, ids) = Request(type, id, from, ids)
  /\ Posix!Requests <=> Requests
BY DEF Arguments, Request, Requests, Slot, FRIENDS, ADD, DEL, _2ONE, INIT,
       Posix!Arguments, Posix!Request, Posix!Requests, Posix!Slot, Posix!FRIENDS, Posix!ADD,
       Posix!DEL, Posix!_2ONE, Posix!INIT

LEMMA PosixRows == Posix!RowsInv <=> RowsInv
BY DEF RowsInv, RowRight, NoIdTwice, Registered, Slot, At, Posix!RowsInv, Posix!RowRight,
       Posix!NoIdTwice, Posix!Registered, Posix!Slot, Posix!At

LEMMA PosixGroups ==
  ASSUME NEW u, NEW ids
  PROVE  /\ Posix!Friends(u, ids) <=> Friends(u, ids)
         /\ Posix!Add(u, ids) <=> Add(u, ids)
<1> USE DEF Collect, CollectOne, Keeps, Write, existInGroup, userExist, SetGroup, Slot, At,
            users, groups, Posix!Collect, Posix!CollectOne, Posix!Keeps, Posix!Write,
            Posix!existInGroup, Posix!userExist, Posix!SetGroup, Posix!Slot, Posix!At,
            Posix!users, Posix!groups
<1>1. Posix!Friends(u, ids) <=> Friends(u, ids)
  BY DEF Friends, Posix!Friends
<1>2. Posix!Add(u, ids) <=> Add(u, ids)
  BY DEF Add, Posix!Add
<1> QED
  BY <1>1, <1>2

LEMMA PosixDel ==
  ASSUME NEW u, NEW ids
  PROVE  /\ Posix!Del(u, ids) <=> Del(u, ids)
         /\ Posix!Stop(u) <=> Stop(u)
<1> USE DEF Delete, DeleteAll, Left, SetGroup, Slot, At, users, groups,
            Posix!Delete, Posix!DeleteAll, Posix!Left, Posix!SetGroup, Posix!Slot, Posix!At,
            Posix!users, Posix!groups
<1>1. Posix!Del(u, ids) <=> Del(u, ids)
  BY DEF Del, Posix!Del
<1>2. Posix!Stop(u) <=> Stop(u)
  BY DEF Stop, Posix!Stop
<1> QED
  BY <1>1, <1>2

LEMMA PosixEnter ==
  /\ \A index, q : Posix!Enter(index, q) <=> Enter(index, q)
  /\ Posix!users = users /\ Posix!groups = groups
BY DEF Enter, users, groups, Posix!Enter, Posix!users, Posix!groups

LEMMA PosixThose == \A s, S : Posix!Those(s, S) = Those(s, S)
BY DEF Those, Posix!Those

LEMMA PosixInit == Posix!TableInit <=> TableInit
BY DEF TableInit, Posix!TableInit, Slot, Posix!Slot

LEMMA PosixWithout == \A s, i : Posix!Without(s, i) = Without(s, i)
BY DEF Without, Posix!Without

(* Who is behind a descriptor, or nobody.                                  *)
Queues == Posix!Descriptor

Closed(c) == \A d \in Queues : opened[d] # c

Sends == [to : Registered, kind : {"relay", "answer", "shutdown"}]

PosixPlace ==
  /\ spc \in {"recv", "send", "close", "ended", "exited"}
  /\ runServer \in BOOLEAN /\ responseType \in Int
  /\ spc \in {"recv", "send"} => runServer
  /\ spc \in {"close", "ended", "exited"} => Registered = {}
  /\ spc = "send" <=> outgoing # <<>>
  /\ outgoing \in Seq(Sends)

PosixServer == TableOf(Queues) /\ GroupsType /\ RowsInv /\ PosixPlace

PosixOpened ==
  /\ opened \in [Queues -> Client \cup {NoClient}]
  /\ \A c \in Client : \A d, e \in Queues : opened[d] = c /\ opened[e] = c => d = e

PosixQueue == RequestsRight /\ Len(serverQueue) <= MAX_MESSAGES /\ linked \in BOOLEAN

PosixClients ==
  /\ inbox \in [Client -> Seq(Nat)] /\ \A c \in Client : Len(inbox[c]) <= MAX_MESSAGES
  /\ pc \in [Client -> {"new", "opened", "initwait", "running", "failed", "killed", "ended"}]
  /\ sender \in [Client -> {"none", "typing", "stopping", "leaving", "dead"}]
  /\ catcher \in [Client -> {"none", "reading", "ending", "leaving"}]
  /\ userID \in [Client -> Int] /\ sent \in 0 .. MaxCommands
  /\ interrupts \in 0 .. MaxSIGINT /\ restarts \in 0 .. MaxRestarts

PosixAsks(c) ==
  /\ pc[c] \in {"new", "opened"} => Closed(c) /\ \A i \in DOMAIN serverQueue : ~AsksFor(i, c)
  /\ \A i \in DOMAIN serverQueue : AsksFor(i, c) =>
       Closed(c) /\ \A j \in DOMAIN serverQueue : AsksFor(j, c) => i = j

PosixWhole ==
  /\ PosixServer /\ PosixOpened /\ PosixQueue /\ PosixClients
  /\ \A c \in Client : PosixAsks(c)

LEMMA PosixConstants ==
  ASSUME Posix!PosixAssumption
  PROVE  /\ IsFiniteSet(Client) /\ NoClient \notin Client /\ NoClient \notin Queues
         /\ Queues = 0 .. Cardinality(Client) - 1 /\ Queues \subseteq Nat
         /\ MAX_MESSAGES \in Nat \ {0} /\ MaxCommands \in Nat /\ MaxSIGINT \in Nat
         /\ MaxRestarts \in Nat
<1>1. Posix!IsFiniteSet(Client) <=> IsFiniteSet(Client)
  BY DEF IsFiniteSet, Posix!IsFiniteSet
<1>2. Posix!Cardinality(Client) = Cardinality(Client)
  BY DEF Cardinality, Posix!Cardinality
<1>3. Queues = 0 .. Cardinality(Client) - 1
  BY <1>2 DEF Queues, Posix!Descriptor
<1>4. Queues \subseteq Nat
  BY <1>3
<1> QED
  BY <1>1, <1>3, <1>4 DEF Posix!PosixAssumption, Queues

LEMMA SubsetSeq == ASSUME NEW S, NEW T, S \subseteq T PROVE Seq(S) \subseteq Seq(T)
OBVIOUS

LEMMA Elements == ASSUME NEW S, NEW s \in Seq(S) PROVE \A i \in DOMAIN s : s[i] \in S
OBVIOUS

LEMMA PosixTogether ==
  ASSUME PosixWhole
  PROVE  Posix!Basis
<1> USE DEF PosixWhole, PosixServer
<1>1. Posix!TypeOK
  <2>1. /\ serverQueue \in Seq(RequestType) /\ Len(serverQueue) <= MAX_MESSAGES
        /\ linked \in BOOLEAN
    BY DEF PosixQueue, RequestsRight
  <2>2. outgoing \in Seq([to : Slot, kind : {"relay", "answer", "shutdown"}])
    <3>1. Sends \subseteq [to : Slot, kind : {"relay", "answer", "shutdown"}]
      BY DEF Sends, Registered
    <3>2. outgoing \in Seq(Sends)
      BY DEF PosixPlace
    <3> QED
      BY <3>1, <3>2, SubsetSeq
  <2>3. opened \in [Queues -> Client \cup {NoClient}]
    BY DEF PosixOpened
  <2>4. spc \in {"recv", "send", "close", "ended", "exited"} /\ runServer \in BOOLEAN
        /\ responseType \in Int
    BY DEF PosixPlace
  <2>5. /\ nextClientID \in 0 .. MAX_CLIENTS_COUNT /\ activeUserCount \in Int
        /\ clientsQueueId \in [Slot -> Queues \cup {NoClient}]
    BY DEF TableOf, UsersType
  <2> QED
    BY <2>1, <2>2, <2>3, <2>4, <2>5, PosixUsers, PosixTypes
    DEF Posix!TypeOK, GroupsType, Cells, PosixClients, RequestType, Queues
<1>2. Posix!Serving
  <2>1. outgoing \in Seq(Sends)
    BY DEF PosixPlace
  <2>2. \A i \in DOMAIN outgoing : outgoing[i].to \in Registered
    <3>1. \A i \in DOMAIN outgoing : outgoing[i] \in Sends
      BY <2>1, Elements
    <3> QED
      BY <3>1 DEF Sends
  <2>3. (spc = "send") = (outgoing # <<>>)
    BY DEF PosixPlace
  <2> QED
    BY <2>2, <2>3, PosixUsers DEF PosixPlace, Posix!Serving
<1>3. Posix!Requests
  BY PosixRequests DEF PosixQueue, RequestsRight
<1>4. Posix!AsksOnce
  <2>1. \A i, c : Posix!AsksFor(i, c) <=> AsksFor(i, c)
    BY PosixTypes DEF AsksFor, Posix!AsksFor
  <2>2. \A c : Posix!Unknown(c) <=> Closed(c)
    BY DEF Closed, Posix!Unknown, Queues
  <2> QED
    BY <2>1, <2>2 DEF Posix!AsksOnce, PosixAsks, PosixOpened, Queues
<1> QED
  BY <1>1, <1>2, <1>3, <1>4, PosixRows DEF Posix!Basis

(* The server goes on with what it has to send, or with the loop.          *)
LEMMA PosixContinue ==
  ASSUME NEW m, m \in Seq(Sends'), runServer' \in BOOLEAN, responseType' \in Int,
         Posix!Continue(m, runServer'), ~runServer' => Registered' = {} /\ m = <<>>
  PROVE  PosixPlace'
<1>1. outgoing' = m /\ spc' = IF m # <<>> THEN "send" ELSE IF runServer' THEN "recv" ELSE "close"
  BY DEF Posix!Continue, Posix!Loop
<1>2. outgoing' \in Seq(Sends)'
  BY <1>1
<1>3. CASE m # <<>>
  <2>1. spc' = "send" /\ runServer'
    BY <1>1, <1>3
  <2> QED
    BY <1>1, <1>2, <1>3, <2>1 DEF PosixPlace
<1>4. CASE m = <<>> /\ runServer'
  <2>1. spc' = "recv"
    BY <1>1, <1>4
  <2> QED
    BY <1>1, <1>2, <1>4, <2>1 DEF PosixPlace
<1>5. CASE m = <<>> /\ ~runServer'
  <2>1. spc' = "close" /\ Registered' = {}
    BY <1>1, <1>5
  <2> QED
    BY <1>1, <1>2, <1>5, <2>1 DEF PosixPlace
<1> QED
  BY <1>3, <1>4, <1>5

LEMMA PosixReady ==
  ASSUME runServer' \in BOOLEAN, responseType' \in Int, Posix!Continue(<<>>, runServer'),
         ~runServer' => Registered' = {}
  PROVE  PosixPlace'
<1>1. <<>> \in Seq(Sends')
  OBVIOUS
<1> QED
  BY <1>1, PosixContinue

(* Whoever asks can be given a descriptor: no queue is opened twice, and   *)
(* there are as many descriptors as clients.                               *)
LEMMA DescriptorFree ==
  ASSUME Posix!PosixAssumption, PosixOpened, NEW c \in Client, Closed(c)
  PROVE  Posix!FreeDescriptor \in Queues /\ opened[Posix!FreeDescriptor] = NoClient
<1> DEFINE Free == {d \in Queues : opened[d] = NoClient}
           n == Cardinality(Client)
<1>0. /\ IsFiniteSet(Client) /\ NoClient \notin Client
      /\ Queues = 0 .. n - 1 /\ Queues \subseteq Nat
  BY PosixConstants
<1>1. Free # {}
  <2> SUFFICES ASSUME Free = {} PROVE FALSE
    OBVIOUS
  <2>1. opened \in [Queues -> Client \ {c}]
    BY DEF PosixOpened, Closed
  <2>2. n \in Nat /\ Cardinality(Client \ {c}) = n - 1 /\ IsFiniteSet(Client \ {c})
    BY <1>0, FS_RemoveElement, FS_CardinalityType
  <2>3. IsFiniteSet(Queues) /\ Cardinality(Queues) = n
    <3>1. n - 1 \in Int /\ 0 \in Int /\ (IF 0 > n - 1 THEN 0 ELSE (n - 1) - 0 + 1) = n
      BY <2>2
    <3> HIDE DEF n
    <3> QED
      BY <1>0, <3>1, FS_Interval
  <2> HIDE DEF n
  <2>4. \E d, e \in Queues : d # e /\ opened[d] = opened[e]
    BY <2>1, <2>2, <2>3, FS_PigeonHole
  <2> QED
    BY <2>1, <2>4 DEF PosixOpened
<1>2. \E d \in Free : \A e \in Free : d <= e
  <2>1. Free \subseteq Nat
    BY <1>0
  <2> HIDE DEF Free
  <2> QED
    BY <1>1, <2>1, LeastNumber
<1>3. PICK d \in Free : \A e \in Free : d <= e
  BY <1>2
<1>4. \A e \in 0 .. d - 1 : opened[e] # NoClient
  <2> SUFFICES ASSUME NEW e \in 0 .. d - 1, opened[e] = NoClient PROVE FALSE
    OBVIOUS
  <2>1. d \in Queues /\ d \in Nat
    BY <1>0
  <2>2. n \in Nat
    BY <1>0, FS_CardinalityType
  <2> HIDE DEF n
  <2>3. e \in Queues
    BY <1>0, <2>1, <2>2
  <2> QED
    BY <1>3, <2>1, <2>3
<1> QED
  BY <1>3, <1>4 DEF Posix!FreeDescriptor, Queues

(* Messages go only to users of the table.                                 *)
LEMMA PosixRelays ==
  ASSUME TableOf(Queues), GroupsType, NEW u \in Slot
  PROVE  /\ Posix!Everyone \in Seq(Registered)
         /\ Posix!_2allCMD(u) \in Seq(Registered)
         /\ Posix!_2friendsCMD(u) \in Seq(Registered)
         /\ \A v : Posix!_2oneCMD(v) \in Seq(Registered)
<1> DEFINE E == Posix!Existing
<1>1. E \subseteq Registered
  BY PosixUsers DEF Posix!Existing, userExist, Registered
<1> HIDE DEF E
<1>3. Posix!Everyone \in Seq(E)
  <2> DEFINE s == [i \in 1 .. nextClientID |-> i - 1]
  <2>1. s \in Seq(Int)
    BY DEF TableOf, UsersType
  <2>2. Posix!Everyone = Those(s, E)
    BY PosixThose DEF Posix!Everyone, E
  <2> HIDE DEF s
  <2> QED
    BY <2>1, <2>2, ThoseFacts
<1>4. Posix!_2allCMD(u) \in Seq(E \ {u})
  <2>1. Posix!_2allCMD(u) = Those(Posix!Everyone, E \ {u})
    BY PosixThose DEF Posix!_2allCMD, E
  <2> QED
    BY <1>3, <2>1, ThoseFacts
<1>5. Posix!_2friendsCMD(u) \in Seq(E \ {u})
  <2>1. CASE groupsSize[u] < 0
    <3>1. Posix!_2friendsCMD(u) = <<>>
      BY <2>1 DEF Posix!_2friendsCMD
    <3> QED
      BY <3>1
  <2>2. CASE ~(groupsSize[u] < 0)
    <3> DEFINE n == groupsSize[u]
               T == {friendsGroups[At(u, j - 1)] : j \in 1 .. n}
               s == [j \in 1 .. n |-> friendsGroups[At(u, j - 1)]]
    <3>1. n \in Nat
      BY <2>2 DEF GroupsType
    <3>2. Posix!_2friendsCMD(u) = Those(s, E \ {u})
      BY <2>2, PosixThose, PosixUsers DEF Posix!_2friendsCMD, E
    <3>3. s \in [1 .. n -> T]
      OBVIOUS
    <3> HIDE DEF s, T, n
    <3>4. s \in Seq(T)
      BY <3>1, <3>3
    <3> QED
      BY <3>2, <3>4, ThoseFacts
  <2> QED
    BY <2>1, <2>2
<1>6. ASSUME NEW v PROVE Posix!_2oneCMD(v) \in Seq(Registered)
  <2>1. Posix!_2oneCMD(v) = IF userExist(v) THEN <<v>> ELSE <<>>
    BY PosixUsers DEF Posix!_2oneCMD
  <2>2. userExist(v) => v \in Registered
    BY DEF userExist, Registered
  <2>3. <<>> \in Seq(Registered) /\ (v \in Registered => <<v>> \in Seq(Registered))
    OBVIOUS
  <2> QED
    BY <2>1, <2>2, <2>3
<1>7. Seq(E) \subseteq Seq(Registered) /\ Seq(E \ {u}) \subseteq Seq(Registered)
  BY <1>1, SubsetSeq
<1> QED
  BY <1>3, <1>4, <1>5, <1>6, <1>7

-----------------------------------------------------------------------------
(* The server of zad2.                                                     *)

LEMMA PosixInitStep ==
  ASSUME Posix!PosixAssumption, PosixServer, PosixOpened, spc = "recv", NEW c \in Client,
         Closed(c), Posix!initCMD(c),
         Posix!Continue(IF responseType' = -1 THEN <<>> ELSE <<Posix!TheAnswer(responseType')>>,
                        runServer)
  PROVE  PosixServer' /\ PosixOpened' /\ \A b \in Client \ {c} : Closed(b) => Closed(b)'
<1> DEFINE d == Posix!FreeDescriptor
           index == getFreeIndex
<1>0. /\ d \in Queues /\ opened[d] = NoClient /\ opened \in [Queues -> Client \cup {NoClient}]
      /\ opened' = [opened EXCEPT ![d] = c]
      /\ NoClient \notin Queues /\ NoClient \notin Client
      /\ UNCHANGED <<groups, runServer>> /\ runServer = TRUE /\ nextClientID \in Nat
      /\ IF userQueueExist(d) \/ index = -1
           THEN responseType' = -1 /\ UNCHANGED users
           ELSE responseType' = index /\ Enter(index, d)
  <2>1. d \in Queues /\ opened[d] = NoClient
    BY DescriptorFree
  <2>2. NoClient \notin Queues /\ NoClient \notin Client
    BY PosixConstants
  <2>3. /\ opened \in [Queues -> Client \cup {NoClient}] /\ runServer = TRUE
        /\ nextClientID \in Nat
    BY DEF PosixOpened, PosixServer, PosixPlace, TableOf, UsersType
  <2> HIDE DEF d, index
  <2>4. /\ opened' = [opened EXCEPT ![d] = c] /\ UNCHANGED <<groups, runServer>>
        /\ IF userQueueExist(d) \/ index = -1
             THEN responseType' = -1 /\ UNCHANGED users
             ELSE responseType' = index /\ Enter(index, d)
    BY PosixUsers, PosixEnter
    DEF Posix!initCMD, d, index, users, groups, Posix!users, Posix!groups
  <2> QED
    BY <2>1, <2>2, <2>3, <2>4
<1> HIDE DEF d
<1>1. PosixOpened' /\ \A b \in Client \ {c} : Closed(b) => Closed(b)'
  <2>1. /\ opened' \in [Queues -> Client \cup {NoClient}] /\ opened'[d] = c
        /\ \A e \in Queues \ {d} : opened'[e] = opened[e]
    BY <1>0
  <2>2. ASSUME NEW b \in Client, NEW e \in Queues, NEW f \in Queues,
               opened'[e] = b, opened'[f] = b
        PROVE  e = f
    <3>1. CASE b = c
      BY <2>1, <2>2, <3>1 DEF Closed
    <3>2. CASE b # c
      BY <2>1, <2>2, <3>2 DEF PosixOpened
    <3> QED
      BY <3>1, <3>2
  <2>3. ASSUME NEW b \in Client \ {c}, Closed(b) PROVE Closed(b)'
    BY <2>1, <2>3 DEF Closed
  <2> QED
    BY <2>1, <2>2, <2>3 DEF PosixOpened
<1>2. CASE userQueueExist(d) \/ index = -1
  <2>1. responseType' = -1 /\ UNCHANGED users
    BY <1>0, <1>2
  <2>2. TableOf(Queues)' /\ Registered' = Registered
    BY <2>1, SameUsers DEF PosixServer
  <2>3. GroupsType' /\ RowsInv'
    BY <1>0, <2>1, UnchangedRows DEF PosixServer
  <2>4. Posix!Continue(<<>>, runServer')
    BY <1>0, <2>1
  <2>5. PosixPlace'
    BY <1>0, <2>1, <2>4, PosixReady
  <2> QED
    BY <1>1, <2>2, <2>3, <2>5 DEF PosixServer
<1>3. CASE ~(userQueueExist(d) \/ index = -1)
  <2>1. responseType' = index /\ Enter(index, d)
    BY <1>0, <1>3
  <2> HIDE DEF index
  <2>2. /\ TableOf(Queues)' /\ index \in Slot \ Registered
        /\ Registered' = Registered \cup {index}
        /\ nextClientID' \in Nat /\ nextClientID' >= nextClientID
    BY <1>0, <1>3, <2>1, EnterTable DEF PosixServer, index
  <2>3. GroupsType' /\ RowsInv'
    BY <1>0, <2>2, EnterRows DEF PosixServer
  <2>4. index # -1 /\ index \in Int
    BY <2>2 DEF Slot
  <2>5. Posix!Continue(<<Posix!TheAnswer(index)>>, runServer')
    BY <1>0, <2>1, <2>4
  <2>6. Posix!TheAnswer(index) \in Sends'
    BY <2>2 DEF Posix!TheAnswer, Sends
  <2>7. <<Posix!TheAnswer(index)>> \in Seq(Sends')
    BY <2>6
  <2>8. PosixPlace'
    BY <1>0, <2>1, <2>4, <2>5, <2>7, PosixContinue
  <2> QED
    BY <1>1, <2>2, <2>3, <2>8 DEF PosixServer
<1> QED
  BY <1>2, <1>3

LEMMA PosixCommandStep ==
  ASSUME PosixServer, spc = "recv", NEW r \in RequestType, r.type # INIT,
         r.type \in Commands => r.ids \in Arguments(r.type), NEW u, userExist(u), NEW relays,
         Posix!Command(r, u, relays),
         responseType' = IF relays = <<>> THEN u ELSE responseType,
         Posix!Continue([i \in DOMAIN relays |-> Posix!Relay(relays[i])]
                          \o (IF r.type = STOP THEN <<>> ELSE <<Posix!TheAnswer(u)>>), runServer')
  PROVE  PosixServer'
<1> DEFINE messages == [i \in DOMAIN relays |-> Posix!Relay(relays[i])]
                         \o (IF r.type = STOP THEN <<>> ELSE <<Posix!TheAnswer(u)>>)
<1>0. /\ u \in Slot /\ u \in Registered /\ u < nextClientID /\ nextClientID \in Nat /\ u \in Int
      /\ runServer = TRUE /\ responseType' \in Int
      /\ DOMAIN clientsQueueId = Slot
  BY DEF userExist, Registered, PosixServer, TableOf, UsersType, UsersAgree, PosixPlace, Slot
<1>1. /\ r.type \in {FRIENDS, ADD, DEL} => r.ids \in Lists
      /\ r.type # STOP => r.type \in Commands
  BY DEF RequestType, Arguments, FRIENDS, ADD, DEL, INIT, STOP, _2ONE
<1>2. ASSUME r.type # STOP, relays \in Seq(Registered), UNCHANGED <<users, runServer>>
      PROVE  TableOf(Queues)' /\ PosixPlace'
  <2>1. TableOf(Queues)' /\ Registered' = Registered
    BY <1>2, SameUsers DEF PosixServer
  <2>2. messages \in Seq(Sends')
    <3>1. /\ Posix!TheAnswer(u) \in Sends'
          /\ \A v \in Registered : Posix!Relay(v) \in Sends'
      BY <1>0, <2>1 DEF Posix!TheAnswer, Posix!Relay, Sends
    <3>2. [i \in DOMAIN relays |-> Posix!Relay(relays[i])] \in Seq(Sends')
      <4>1. relays \in [1 .. Len(relays) -> Registered] /\ Len(relays) \in Nat
            /\ DOMAIN relays = 1 .. Len(relays)
        BY <1>2
      <4>2. [i \in DOMAIN relays |-> Posix!Relay(relays[i])] \in [1 .. Len(relays) -> Sends']
        BY <3>1, <4>1
      <4> QED
        BY <4>1, <4>2
    <3>3. <<Posix!TheAnswer(u)>> \in Seq(Sends')
      BY <3>1
    <3>4. \A S : \A a, b \in Seq(S) : a \o b \in Seq(S)
      OBVIOUS
    <3> QED
      BY <1>2, <3>2, <3>3, <3>4
  <2>3. runServer' = TRUE
    BY <1>0, <1>2
  <2> HIDE DEF messages
  <2>4. PosixPlace'
    BY <1>0, <2>2, <2>3, PosixContinue DEF messages
  <2> QED
    BY <2>1, <2>4
<1> HIDE DEF messages
<1>3. ASSUME UNCHANGED users, UNCHANGED groups PROVE GroupsType' /\ RowsInv'
  BY <1>3, UnchangedRows DEF PosixServer
<1>4. Posix!Answer <=> UNCHANGED <<users, groups, runServer>>
  BY DEF Posix!Answer, users, groups, Posix!users, Posix!groups
<1>5. <<>> \in Seq(Registered)
  OBVIOUS
<1>6. CASE r.type \in {LIST, ECHO} /\ Posix!Answer /\ relays = <<>>
  <2>1. r.type # STOP
    BY <1>6 DEF LIST, ECHO, STOP
  <2> QED
    BY <1>2, <1>3, <1>4, <1>5, <1>6, <2>1 DEF PosixServer
<1>7. CASE r.type = FRIENDS /\ Friends(u, r.ids) /\ relays = <<>>
  <2>1. UNCHANGED <<users, runServer>> /\ r.type # STOP
    BY <1>7 DEF Friends, FRIENDS, STOP
  <2>2. GroupsType' /\ RowsInv'
    BY <1>0, <1>1, <1>7, FriendsRows DEF PosixServer
  <2> QED
    BY <1>2, <1>5, <1>7, <2>1, <2>2 DEF PosixServer
<1>8. CASE r.type = ADD /\ Add(u, r.ids) /\ relays = <<>>
  <2>1. UNCHANGED <<users, runServer>> /\ r.type # STOP
    BY <1>8 DEF Add, ADD, STOP
  <2>2. GroupsType' /\ RowsInv'
    BY <1>0, <1>1, <1>8, AddRows DEF PosixServer
  <2> QED
    BY <1>2, <1>5, <1>8, <2>1, <2>2 DEF PosixServer
<1>9. CASE r.type = DEL /\ Del(u, r.ids) /\ relays = <<>>
  <2>1. UNCHANGED <<users, runServer>> /\ r.type # STOP
    BY <1>9 DEF Del, DEL, STOP
  <2>2. GroupsType' /\ RowsInv'
    BY <1>0, <1>1, <1>9, DelRows DEF PosixServer
  <2> QED
    BY <1>2, <1>5, <1>9, <2>1, <2>2 DEF PosixServer
<1>10. CASE /\ r.type \in {_2ALL, _2FRIENDS, _2ONE} /\ Posix!Answer
            /\ relays \in {Posix!_2allCMD(u), Posix!_2friendsCMD(u), Posix!_2oneCMD(r.ids[1])}
  <2>1. r.type # STOP
    BY <1>10 DEF _2ALL, _2FRIENDS, _2ONE, STOP
  <2>2. relays \in Seq(Registered)
    BY <1>0, <1>10, PosixRelays DEF PosixServer
  <2> QED
    BY <1>2, <1>3, <1>4, <1>10, <2>1, <2>2 DEF PosixServer
<1>11. CASE r.type = STOP /\ Stop(u) /\ relays = <<>>
  <2>1. GroupsType' /\ RowsInv'
    BY <1>0, <1>11, StopRows DEF PosixServer
  <2>2. /\ TableOf(Queues)' /\ Registered' = Registered \ {u}
        /\ runServer' = (runServer /\ Registered' # {})
    BY <1>0, <1>11, StopTable DEF PosixServer
  <2>3. messages = <<>>
    BY <1>11 DEF messages
  <2>4. runServer' \in BOOLEAN /\ (~runServer' => Registered' = {})
    BY <1>0, <2>2, Zenon
  <2>5. Posix!Continue(<<>>, runServer')
    BY <2>3 DEF messages
  <2>6. PosixPlace'
    BY <1>0, <2>4, <2>5, PosixReady
  <2> QED
    BY <2>1, <2>2, <2>6 DEF PosixServer
<1> QED
  <2>1. \/ r.type \in {LIST, ECHO} /\ Posix!Answer /\ relays = <<>>
        \/ r.type = FRIENDS /\ Friends(u, r.ids) /\ relays = <<>>
        \/ r.type = ADD /\ Add(u, r.ids) /\ relays = <<>>
        \/ r.type = DEL /\ Del(u, r.ids) /\ relays = <<>>
        \/ r.type = _2ALL /\ Posix!Answer /\ relays = Posix!_2allCMD(u)
        \/ r.type = _2FRIENDS /\ Posix!Answer /\ relays = Posix!_2friendsCMD(u)
        \/ r.type = _2ONE /\ Posix!Answer /\ relays = Posix!_2oneCMD(r.ids[1])
        \/ r.type = STOP /\ Stop(u) /\ relays = <<>>
    BY PosixTypes, PosixGroups, PosixDel
    DEF Posix!Command, Posix!friendsCMD, Posix!addCMD, Posix!dellCMD, Posix!stopCMD
  <2> QED
    BY <1>6, <1>7, <1>8, <1>9, <1>10, <1>11, <2>1

LEMMA PosixExecuteStep ==
  ASSUME Posix!PosixAssumption, PosixServer, PosixOpened, spc = "recv", NEW r \in RequestType,
         r.type = INIT => r.from \in Client /\ Closed(r.from),
         r.type \in Commands => r.ids \in Arguments(r.type), Posix!executeCommand(r)
  PROVE  /\ PosixServer' /\ PosixOpened'
         /\ \A b \in Client : (r.type = INIT /\ r.from = b) \/ (Closed(b) => Closed(b)')
<1> DEFINE u == r.id
<1>1. CASE /\ r.type = INIT /\ Posix!initCMD(r.from)
           /\ Posix!Continue(IF responseType' = -1 THEN <<>>
                               ELSE <<Posix!TheAnswer(responseType')>>, runServer)
  BY <1>1, PosixInitStep
<1>2. ASSUME UNCHANGED opened PROVE PosixOpened' /\ \A b \in Client : Closed(b) => Closed(b)'
  BY <1>2 DEF PosixOpened, Closed
<1>3. ASSUME r.type # INIT, userExist(u), UNCHANGED opened, NEW relays,
             Posix!Command(r, u, relays),
             responseType' = IF relays = <<>> THEN u ELSE responseType,
             Posix!Continue([i \in DOMAIN relays |-> Posix!Relay(relays[i])]
                             \o (IF r.type = STOP THEN <<>> ELSE <<Posix!TheAnswer(u)>>), runServer')
      PROVE  PosixServer'
  <2> HIDE DEF u
  <2> QED
    BY <1>3, PosixCommandStep
<1>4. CASE /\ r.type # INIT /\ responseType' = Posix!ERROR /\ Posix!Continue(<<>>, runServer)
           /\ UNCHANGED <<users, groups, runServer, opened>>
  <2>1. TableOf(Queues)' /\ Registered' = Registered
    BY <1>4, SameUsers DEF PosixServer
  <2>2. GroupsType' /\ RowsInv'
    BY <1>4, UnchangedRows DEF PosixServer
  <2>3. responseType' \in Int
    BY <1>4 DEF Posix!ERROR
  <2>4. PosixPlace'
    <3>1. runServer' = runServer /\ runServer = TRUE
      BY <1>4 DEF PosixServer, PosixPlace
    <3>2. Posix!Continue(<<>>, runServer')
      BY <1>4, <3>1, Zenon
    <3> QED
      BY <2>3, <3>1, <3>2, PosixReady
  <2> QED
    BY <1>2, <1>4, <2>1, <2>2, <2>4 DEF PosixServer
<1>5. \/ /\ r.type = INIT /\ Posix!initCMD(r.from)
         /\ Posix!Continue(IF responseType' = -1 THEN <<>>
                             ELSE <<Posix!TheAnswer(responseType')>>, runServer)
      \/ /\ r.type # INIT /\ userExist(u) /\ UNCHANGED opened
         /\ \E relays :
              /\ Posix!Command(r, u, relays)
              /\ responseType' = IF relays = <<>> THEN u ELSE responseType
              /\ Posix!Continue([i \in DOMAIN relays |-> Posix!Relay(relays[i])]
                             \o (IF r.type = STOP THEN <<>> ELSE <<Posix!TheAnswer(u)>>), runServer')
      \/ /\ r.type # INIT /\ responseType' = Posix!ERROR /\ Posix!Continue(<<>>, runServer)
         /\ UNCHANGED <<users, groups, runServer, opened>>
  BY PosixTypes, PosixUsers
  DEF Posix!executeCommand, users, groups, Posix!users, Posix!groups
<1> HIDE DEF u
<1> QED
  BY <1>1, <1>2, <1>3, <1>4, <1>5

LEMMA PosixServeStep ==
  ASSUME Posix!PosixAssumption, PosixWhole, Posix!Serve
  PROVE  PosixWhole'
<1>0. /\ PosixServer /\ PosixOpened /\ PosixQueue /\ PosixClients /\ RequestsRight
      /\ spc = "recv" /\ serverQueue \in Seq(RequestType)
      /\ linked' = linked /\ inbox' = inbox /\ pc' = pc /\ sender' = sender
      /\ catcher' = catcher /\ userID' = userID /\ sent' = sent
      /\ interrupts' = interrupts /\ restarts' = restarts
  BY DEF PosixWhole, PosixQueue, RequestsRight, Posix!Serve, Posix!client
<1>1. PICK i \in DOMAIN serverQueue :
        serverQueue' = Without(serverQueue, i) /\ Posix!executeCommand(serverQueue[i])
  BY PosixWithout DEF Posix!Serve
<1> DEFINE r == serverQueue[i]
<1>2. /\ r \in RequestType /\ (r.type = INIT => r.from \in Client)
      /\ (r.type \in Commands => r.ids \in Arguments(r.type))
  BY <1>0 DEF RequestsRight, Requests
<1>3. \A c \in Client : AsksFor(i, c) <=> r.type = INIT /\ r.from = c
  BY DEF AsksFor
<1>4. r.type = INIT => Closed(r.from)
  BY <1>2, <1>3 DEF PosixWhole, PosixAsks
<1>5. /\ PosixServer' /\ PosixOpened'
      /\ \A b \in Client : AsksFor(i, b) \/ (Closed(b) => Closed(b)')
  <2>1. Posix!executeCommand(r)
    BY <1>1
  <2> HIDE DEF r
  <2> QED
    BY <1>0, <1>2, <1>3, <1>4, <2>1, PosixExecuteStep
<1>6. /\ RequestsRight'
      /\ \E old \in [DOMAIN serverQueue' -> DOMAIN serverQueue] :
              /\ \A j \in DOMAIN serverQueue' : old[j] # i /\ serverQueue'[j] = serverQueue[old[j]]
              /\ \A j, k \in DOMAIN serverQueue' : old[j] = old[k] => j = k
  BY <1>0, <1>1, TakenFacts
<1>7. PICK old \in [DOMAIN serverQueue' -> DOMAIN serverQueue] :
              /\ \A j \in DOMAIN serverQueue' : old[j] # i /\ serverQueue'[j] = serverQueue[old[j]]
              /\ \A j, k \in DOMAIN serverQueue' : old[j] = old[k] => j = k
  BY <1>6
<1> HIDE DEF r
<1>8. PosixQueue'
  <2>1. /\ Without(serverQueue, i) \in Seq(RequestType)
        /\ DOMAIN Without(serverQueue, i) = 1 .. Len(serverQueue) - 1
        /\ Len(serverQueue) \in Nat /\ i \in 1 .. Len(serverQueue)
    BY <1>0, WithoutFacts
  <2>2. Len(serverQueue') = Len(serverQueue) - 1
    BY <1>1, <2>1
  <2>3. MAX_MESSAGES \in Nat
    BY PosixConstants
  <2> QED
    BY <1>0, <1>6, <2>1, <2>2, <2>3 DEF PosixQueue
<1>9. PosixClients'
  BY <1>0 DEF PosixClients
<1>10. ASSUME NEW c \in Client PROVE PosixAsks(c)'
  <2>0. PosixAsks(c)
    BY DEF PosixWhole
  <2>1. ASSUME NEW j \in DOMAIN serverQueue', AsksFor(j, c)'
        PROVE  AsksFor(old[j], c) /\ old[j] \in DOMAIN serverQueue /\ old[j] # i
    BY <1>7, <2>1 DEF AsksFor
  <2>2. ASSUME pc'[c] \in {"new", "opened"}
        PROVE  Closed(c)' /\ \A j \in DOMAIN serverQueue' : ~(AsksFor(j, c)')
    BY <1>0, <1>5, <2>0, <2>1, <2>2 DEF PosixAsks
  <2>3. ASSUME NEW j \in DOMAIN serverQueue', AsksFor(j, c)'
        PROVE  Closed(c)' /\ \A k \in DOMAIN serverQueue' : AsksFor(k, c)' => j = k
    <3>1. Closed(c) /\ \A k \in DOMAIN serverQueue : AsksFor(k, c) => old[j] = k
      BY <2>0, <2>1, <2>3 DEF PosixAsks
    <3>2. ~AsksFor(i, c)
      BY <2>1, <2>3, <3>1
    <3>3. ASSUME NEW k \in DOMAIN serverQueue', AsksFor(k, c)' PROVE j = k
      BY <1>7, <2>1, <3>1, <3>3
    <3> QED
      BY <1>5, <3>1, <3>2, <3>3
  <2> QED
    BY <2>2, <2>3 DEF PosixAsks
<1> QED
  BY <1>5, <1>8, <1>9, <1>10 DEF PosixWhole

(* The other steps of the server take no request.                          *)
LEMMA PosixOtherStep ==
  ASSUME PosixWhole, PosixServer', PosixOpened', serverQueue' = serverQueue, pc' = pc,
         sender' = sender, catcher' = catcher, userID' = userID, sent' = sent,
         linked' \in BOOLEAN, inbox' \in [Client -> Seq(Nat)],
         \A c \in Client : Len(inbox'[c]) <= MAX_MESSAGES,
         interrupts' \in 0 .. MaxSIGINT, restarts' \in 0 .. MaxRestarts,
         \A c \in Client : Closed(c) => Closed(c)'
  PROVE  PosixWhole'
<1>1. PosixQueue'
  BY DEF PosixWhole, PosixQueue, RequestsRight, Requests, Arguments, Slot
<1>2. PosixClients'
  BY DEF PosixWhole, PosixClients
<1>3. \A c \in Client : PosixAsks(c)'
  BY DEF PosixWhole, PosixAsks, AsksFor
<1> QED
  BY <1>1, <1>2, <1>3 DEF PosixWhole

LEMMA Behead ==
  ASSUME NEW S, NEW s \in Seq(S), s # <<>>
  PROVE  Head(s) \in S /\ Tail(s) \in Seq(S)
OBVIOUS

LEMMA PosixSendStep ==
  ASSUME Posix!PosixAssumption, PosixWhole, Posix!Send
  PROVE  PosixWhole'
<1> DEFINE m == Head(outgoing)
           d == clientsQueueId[m.to]
           rest == Tail(outgoing)
<1>0. /\ PosixServer /\ PosixOpened /\ PosixClients /\ PosixPlace
      /\ MAX_MESSAGES \in Nat /\ NoClient \notin Client
      /\ spc = "send" /\ runServer = TRUE
      /\ Posix!Continue(rest, runServer) /\ runServer' = runServer
      /\ UNCHANGED <<users, groups>> /\ linked' = linked
      /\ serverQueue' = serverQueue /\ pc' = pc /\ sender' = sender
      /\ catcher' = catcher /\ userID' = userID /\ sent' = sent
      /\ interrupts' = interrupts /\ restarts' = restarts
  BY PosixConstants
  DEF PosixWhole, PosixServer, PosixPlace, Posix!Send, Posix!client, users, groups,
      Posix!users, Posix!groups
<1>1. m \in Sends /\ rest \in Seq(Sends)
  BY <1>0, Behead DEF PosixPlace
<1>2. /\ m.to \in Registered /\ d \in Queues /\ Registered \subseteq Int
      /\ rest # <<>> => Head(rest).to \in Registered
  <2>1. m.to \in Registered /\ (rest # <<>> => Head(rest) \in Sends)
    BY <1>1, Behead DEF Sends
  <2>2. m.to \in Slot /\ clientsQueueId[m.to] # NoClient
    BY <2>1 DEF Registered
  <2>3. d \in Queues
    BY <1>0, <2>2 DEF PosixServer, TableOf, UsersType
  <2> QED
    BY <2>1, <2>3 DEF Sends, Registered, Slot
<1>3. responseType' \in Int
  <2>1. \/ responseType' = responseType
        \/ rest # <<>> /\ responseType' = Head(rest).to
    BY DEF Posix!Send
  <2> QED
    BY <1>0, <1>2, <2>1 DEF PosixPlace
<1>4. opened' = opened \/ opened' = [opened EXCEPT ![d] = NoClient]
  BY DEF Posix!Send
<1>5. \/ inbox' = inbox
      \/ \E c \in Client : /\ responseType >= 0 /\ Len(inbox[c]) < MAX_MESSAGES
                           /\ inbox' = [inbox EXCEPT ![c] = Append(@, responseType)]
  <2>1. opened[d] # NoClient => opened[d] \in Client
    BY <1>0, <1>2 DEF PosixOpened
  <2> QED
    BY <2>1 DEF Posix!Send, Posix!Behind, Posix!HasRoom
<1> HIDE DEF m, d, rest
<1>6. /\ PosixOpened' /\ \A c \in Client : Closed(c) => Closed(c)'
  <2>1. /\ opened' \in [Queues -> Client \cup {NoClient}]
        /\ \A e \in Queues : opened'[e] \in {opened[e], NoClient}
    BY <1>0, <1>2, <1>4 DEF PosixOpened
  <2> QED
    BY <1>0, <2>1 DEF PosixOpened, Closed
<1>7. /\ inbox' \in [Client -> Seq(Nat)]
      /\ \A c \in Client : Len(inbox'[c]) <= MAX_MESSAGES
  <2>1. CASE inbox' = inbox
    BY <1>0, <2>1 DEF PosixClients
  <2>2. ASSUME NEW c \in Client, responseType >= 0, Len(inbox[c]) < MAX_MESSAGES,
               inbox' = [inbox EXCEPT ![c] = Append(@, responseType)]
        PROVE  /\ inbox' \in [Client -> Seq(Nat)]
               /\ \A b \in Client : Len(inbox'[b]) <= MAX_MESSAGES
    <3>1. /\ inbox \in [Client -> Seq(Nat)] /\ inbox[c] \in Seq(Nat)
          /\ \A b \in Client : Len(inbox[b]) <= MAX_MESSAGES
      BY <1>0 DEF PosixClients
    <3>2. responseType \in Nat
      BY <1>0, <2>2 DEF PosixPlace
    <3>3. /\ Append(inbox[c], responseType) \in Seq(Nat)
          /\ Len(Append(inbox[c], responseType)) = Len(inbox[c]) + 1 /\ Len(inbox[c]) \in Nat
      BY <3>1, <3>2
    <3> QED
      BY <1>0, <2>2, <3>1, <3>3
  <2> QED
    BY <1>5, <2>1, <2>2
<1>8. PosixServer'
  <2>1. TableOf(Queues)' /\ Registered' = Registered
    BY <1>0, SameUsers DEF PosixServer
  <2>2. GroupsType' /\ RowsInv'
    BY <1>0, UnchangedRows DEF PosixServer
  <2>3. rest \in Seq(Sends')
    <3>1. Sends' = Sends
      BY <2>1 DEF Sends
    <3> QED
      BY <1>1, <3>1
  <2>4. Posix!Continue(rest, runServer')
    BY <1>0, Zenon
  <2>5. PosixPlace'
    BY <1>0, <1>3, <2>3, <2>4, PosixContinue
  <2> QED
    BY <2>1, <2>2, <2>5 DEF PosixServer
<1>9. linked' \in BOOLEAN /\ interrupts' \in 0 .. MaxSIGINT /\ restarts' \in 0 .. MaxRestarts
  BY <1>0 DEF PosixWhole, PosixQueue, PosixClients
<1> QED
  BY <1>0, <1>6, <1>7, <1>8, <1>9, PosixOtherStep

LEMMA PosixCloseStep ==
  ASSUME PosixWhole, Posix!Close
  PROVE  PosixWhole'
<1>0. /\ PosixServer /\ PosixOpened /\ PosixPlace
      /\ spc = "close" /\ spc' = "ended" /\ linked' = FALSE
      /\ outgoing' = outgoing /\ opened' = opened /\ responseType' = responseType
      /\ runServer' = runServer /\ UNCHANGED <<users, groups>>
      /\ serverQueue' = serverQueue /\ inbox' = inbox /\ pc' = pc /\ sender' = sender
      /\ catcher' = catcher /\ userID' = userID /\ sent' = sent
      /\ interrupts' = interrupts /\ restarts' = restarts
  BY DEF PosixWhole, PosixServer, Posix!Close, Posix!client, users, groups, Posix!users,
         Posix!groups
<1>1. TableOf(Queues)' /\ Registered' = Registered
  BY <1>0, SameUsers DEF PosixServer
<1>2. GroupsType' /\ RowsInv'
  BY <1>0, UnchangedRows DEF PosixServer
<1>3. PosixPlace'
  <2>1. Registered = {} /\ outgoing = <<>> /\ outgoing' \in Seq(Sends')
    BY <1>0 DEF PosixPlace
  <2> QED
    BY <1>0, <1>1, <2>1 DEF PosixPlace
<1>4. PosixOpened' /\ \A c \in Client : Closed(c) => Closed(c)'
  BY <1>0 DEF PosixOpened, Closed
<1>5. /\ linked' \in BOOLEAN /\ inbox' \in [Client -> Seq(Nat)]
      /\ \A c \in Client : Len(inbox'[c]) <= MAX_MESSAGES
      /\ interrupts' \in 0 .. MaxSIGINT /\ restarts' \in 0 .. MaxRestarts
  BY <1>0 DEF PosixWhole, PosixClients
<1> QED
  BY <1>0, <1>1, <1>2, <1>3, <1>4, <1>5, PosixOtherStep DEF PosixServer

LEMMA PosixInterruptStep ==
  ASSUME Posix!PosixAssumption, PosixWhole, Posix!handleSIGINT
  PROVE  PosixWhole'
<1>0. /\ PosixServer /\ PosixOpened /\ PosixPlace /\ PosixClients /\ TableOf(Queues) /\ GroupsType
      /\ interrupts < MaxSIGINT /\ interrupts' = interrupts + 1 /\ MaxSIGINT \in Nat
      /\ spc \in {"recv", "send", "close"} /\ linked' = linked
      /\ opened' = opened /\ runServer' = runServer /\ UNCHANGED <<users, groups>>
      /\ serverQueue' = serverQueue /\ inbox' = inbox /\ pc' = pc /\ sender' = sender
      /\ catcher' = catcher /\ userID' = userID /\ sent' = sent /\ restarts' = restarts
  BY PosixConstants
  DEF PosixWhole, PosixServer, Posix!handleSIGINT, Posix!client, users, groups, Posix!users,
      Posix!groups
<1>1. TableOf(Queues)' /\ Registered' = Registered
  BY <1>0, SameUsers
<1>2. GroupsType' /\ RowsInv'
  BY <1>0, UnchangedRows DEF PosixServer
<1>3. activeUserCount = Cardinality(Registered) /\ activeUserCount \in Nat
      /\ (activeUserCount = 0 <=> Registered = {})
  BY <1>0, RegisteredFinite, FS_CardinalityType, FS_EmptySet DEF TableOf, UsersAgree
<1>4. PosixPlace'
  <2>1. CASE activeUserCount > 0
    <3>1. /\ responseType' = Posix!SHUTDOWN
          /\ \E rest \in {outgoing, IF outgoing = <<>> THEN <<>> ELSE Tail(outgoing)} :
               Posix!Continue([i \in DOMAIN Posix!Everyone |-> Posix!Shutdown(Posix!Everyone[i])]
                                \o rest, runServer)
      BY <2>1 DEF Posix!handleSIGINT
    <3> DEFINE all == [i \in DOMAIN Posix!Everyone |-> Posix!Shutdown(Posix!Everyone[i])]
    <3>2. PICK rest \in {outgoing, IF outgoing = <<>> THEN <<>> ELSE Tail(outgoing)} :
            Posix!Continue(all \o rest, runServer)
      BY <3>1
    <3>3. Sends' = Sends
      BY <1>1 DEF Sends
    <3>4. rest \in Seq(Sends)
      <4>1. outgoing \in Seq(Sends)
        BY <1>0 DEF PosixPlace
      <4>2. outgoing # <<>> => Tail(outgoing) \in Seq(Sends)
        BY <4>1, Behead
      <4>3. <<>> \in Seq(Sends)
        OBVIOUS
      <4> QED
        BY <4>1, <4>2, <4>3
    <3>5. all \in Seq(Sends)
      <4>1. 0 \in Slot
        BY DEF Slot
      <4>2. Posix!Everyone \in Seq(Registered)
        BY <1>0, <4>1, PosixRelays
      <4> DEFINE e == Posix!Everyone
      <4>3. e \in [1 .. Len(e) -> Registered] /\ Len(e) \in Nat /\ DOMAIN e = 1 .. Len(e)
        BY <4>2
      <4>4. \A v \in Registered : Posix!Shutdown(v) \in Sends
        BY DEF Posix!Shutdown, Sends
      <4> HIDE DEF e
      <4>5. [i \in DOMAIN e |-> Posix!Shutdown(e[i])] \in [1 .. Len(e) -> Sends]
        BY <4>3, <4>4
      <4>6. [i \in DOMAIN e |-> Posix!Shutdown(e[i])] \in Seq(Sends)
        BY <4>3, <4>5
      <4> QED
        BY <4>6 DEF e
    <3> HIDE DEF all
    <3>6. all \o rest \in Seq(Sends)
      <4>1. \A S : \A a, b \in Seq(S) : a \o b \in Seq(S)
        OBVIOUS
      <4> QED
        BY <3>4, <3>5, <4>1
    <3>7. responseType' \in Int
      BY <3>1 DEF Posix!SHUTDOWN
    <3>8. runServer' = TRUE
      <4>1. spc \in {"recv", "send"}
        BY <1>0, <1>3, <2>1 DEF PosixPlace
      <4> QED
        BY <1>0, <4>1 DEF PosixPlace
    <3>9. Posix!Continue(all \o rest, runServer')
      BY <1>0, <3>2, Zenon
    <3>10. all \o rest \in Seq(Sends')
      BY <3>3, <3>6
    <3> QED
      BY <3>7, <3>8, <3>9, <3>10, PosixContinue
  <2>2. CASE ~(activeUserCount > 0)
    <3>1. outgoing' = <<>> /\ spc' = "exited" /\ responseType' = responseType
      BY <2>2 DEF Posix!handleSIGINT
    <3>2. Registered' = {}
      BY <1>1, <1>3, <2>2
    <3>3. outgoing' \in Seq(Sends')
      BY <3>1
    <3> QED
      BY <1>0, <3>1, <3>2, <3>3 DEF PosixPlace
  <2> QED
    BY <2>1, <2>2
<1>5. PosixOpened' /\ \A c \in Client : Closed(c) => Closed(c)'
  BY <1>0 DEF PosixOpened, Closed
<1>6. /\ linked' \in BOOLEAN /\ inbox' \in [Client -> Seq(Nat)]
      /\ \A c \in Client : Len(inbox'[c]) <= MAX_MESSAGES
      /\ interrupts' \in 0 .. MaxSIGINT /\ restarts' \in 0 .. MaxRestarts
  BY <1>0 DEF PosixWhole, PosixQueue, PosixClients
<1> QED
  BY <1>0, <1>1, <1>2, <1>4, <1>5, <1>6, PosixOtherStep DEF PosixServer

Empty ==
  /\ nextClientID = 0 /\ activeUserCount = 0 /\ stray = FALSE
  /\ clientsQueueId = [u \in Slot |-> NoClient] /\ groupsSize = [u \in Slot |-> -1]
  /\ friendsGroups = [i \in Cells |-> 0]

LEMMA EmptyTable == Empty => TableOf(Queues) /\ GroupsType /\ RowsInv /\ Registered = {}
<1> SUFFICES ASSUME Empty PROVE TableOf(Queues) /\ GroupsType /\ RowsInv /\ Registered = {}
  OBVIOUS
<1> USE DEF Empty
<1>1. Registered = {} /\ Cardinality(Registered) = 0
  <2>1. Registered = {}
    BY DEF Registered
  <2> QED
    BY <2>1, FS_EmptySet
<1>2. TableOf(Queues)
  BY <1>1 DEF TableOf, UsersType, UsersAgree
<1>3. GroupsType
  <2>1. 0 \in Slot
    BY DEF Slot
  <2> QED
    BY <2>1 DEF GroupsType
<1>4. RowsInv
  <2>1. \A u \in Slot : groupsSize[u] = -1
    OBVIOUS
  <2>2. \A u \in Slot : RowRight(friendsGroups, groupsSize[u], u, Registered \ {u})
    BY <2>1 DEF RowRight
  <2> QED
    BY <2>1, <2>2 DEF RowsInv
<1> QED
  BY <1>1, <1>2, <1>3, <1>4

(* The server that is started after an exit has a new table.               *)
LEMMA PosixRestartStep ==
  ASSUME Posix!PosixAssumption, PosixWhole, Posix!Restart
  PROVE  PosixWhole'
<1>0. /\ PosixServer /\ PosixPlace /\ PosixClients /\ friendsGroups \in [Cells -> Slot]
      /\ spc = "exited" /\ spc' = "recv" /\ responseType' = 0 /\ outgoing' = outgoing
      /\ restarts < MaxRestarts /\ restarts' = restarts + 1 /\ MaxRestarts \in Nat
      /\ opened' = [d \in Queues |-> NoClient] /\ NoClient \notin Client
      /\ nextClientID' = 0 /\ activeUserCount' = 0 /\ runServer' = TRUE
      /\ clientsQueueId' = [u \in Slot |-> NoClient] /\ groupsSize' = [u \in Slot |-> -1]
      /\ friendsGroups' = [i \in DOMAIN friendsGroups |-> 0] /\ stray' = FALSE
      /\ linked' = linked /\ serverQueue' = serverQueue /\ inbox' = inbox /\ pc' = pc
      /\ sender' = sender /\ catcher' = catcher /\ userID' = userID /\ sent' = sent
      /\ interrupts' = interrupts
  BY PosixConstants, PosixUsers
  DEF PosixWhole, PosixServer, GroupsType, Posix!Restart, Posix!client, Queues
<1>1. TableOf(Queues)' /\ GroupsType' /\ RowsInv' /\ Registered' = {}
  <2>1. friendsGroups' = [i \in Cells |-> 0]
    BY <1>0
  <2>2. Empty'
    BY <1>0, <2>1 DEF Empty, Slot, Cells
  <2>3. Empty' => (TableOf(Queues) /\ GroupsType /\ RowsInv /\ Registered = {})'
    BY EmptyTable, PTL
  <2> QED
    BY <2>2, <2>3
<1>2. PosixPlace'
  <2>1. outgoing = <<>>
    BY <1>0 DEF PosixPlace
  <2>2. outgoing' \in Seq(Sends')
    BY <1>0, <2>1
  <2> QED
    BY <1>0, <1>1, <2>1, <2>2 DEF PosixPlace
<1>3. PosixOpened' /\ \A c \in Client : Closed(c)'
  BY <1>0 DEF PosixOpened, Closed
<1>4. /\ linked' \in BOOLEAN /\ inbox' \in [Client -> Seq(Nat)]
      /\ \A c \in Client : Len(inbox'[c]) <= MAX_MESSAGES
      /\ interrupts' \in 0 .. MaxSIGINT /\ restarts' \in 0 .. MaxRestarts
  BY <1>0 DEF PosixWhole, PosixQueue, PosixClients
<1> QED
  BY <1>0, <1>1, <1>2, <1>3, <1>4, PosixOtherStep DEF PosixServer

(* Clients do not touch the server; they ask only once.                    *)
LEMMA PosixClientStep ==
  ASSUME PosixWhole, UNCHANGED Posix!server, PosixQueue', PosixClients',
         \A c \in Client : pc'[c] \in {"new", "opened"} => pc[c] \in {"new", "opened"},
         \A c \in Client, i \in Nat : AsksFor(i, c)' =>
           AsksFor(i, c) \/ (pc[c] = "opened" /\ pc'[c] = "initwait" /\ i = Len(serverQueue) + 1)
  PROVE  PosixWhole'
<1>0. /\ PosixServer /\ PosixOpened /\ spc' = spc /\ outgoing' = outgoing /\ opened' = opened
      /\ responseType' = responseType /\ runServer' = runServer
      /\ UNCHANGED <<users, groups>> /\ DOMAIN serverQueue' \subseteq Nat
  BY PosixEnter DEF PosixWhole, PosixQueue, RequestsRight, Posix!server, users, groups,
                    Posix!users, Posix!groups
<1>1. TableOf(Queues)' /\ Registered' = Registered
  BY <1>0, SameUsers DEF PosixServer
<1>2. GroupsType' /\ RowsInv'
  BY <1>0, UnchangedRows DEF PosixServer
<1>3. PosixPlace'
  <2>1. outgoing' \in Seq(Sends')
    <3>1. Sends' = Sends
      BY <1>1 DEF Sends
    <3> QED
      BY <1>0, <3>1 DEF PosixServer, PosixPlace
  <2> QED
    BY <1>0, <1>1, <2>1 DEF PosixServer, PosixPlace
<1>4. PosixOpened'
  BY <1>0 DEF PosixOpened
<1>5. ASSUME NEW c \in Client PROVE PosixAsks(c)'
  <2>1. PosixAsks(c) /\ (Closed(c)' <=> Closed(c))
    BY <1>0 DEF PosixWhole, Closed
  <2>2. \A i : AsksFor(i, c) => i \in DOMAIN serverQueue
    BY DEF AsksFor
  <2>3. CASE pc[c] \in {"new", "opened"}
    <3>1. Closed(c) /\ \A i : ~AsksFor(i, c)
      BY <2>1, <2>2, <2>3 DEF PosixAsks
    <3>2. \A i \in DOMAIN serverQueue' : AsksFor(i, c)' =>
            pc'[c] = "initwait" /\ i = Len(serverQueue) + 1
      BY <1>0, <3>1
    <3> QED
      BY <2>1, <3>1, <3>2 DEF PosixAsks
  <2>4. CASE pc[c] \notin {"new", "opened"}
    <3>1. pc'[c] \notin {"new", "opened"}
      BY <2>4
    <3>2. \A i \in DOMAIN serverQueue' : AsksFor(i, c)' => AsksFor(i, c)
      BY <1>0, <2>4
    <3> QED
      BY <2>1, <2>2, <3>1, <3>2 DEF PosixAsks
  <2> QED
    BY <2>3, <2>4
<1> QED
  BY <1>1, <1>2, <1>3, <1>4, <1>5 DEF PosixWhole, PosixServer

LEMMA PosixSubmit ==
  ASSUME Posix!PosixAssumption, PosixQueue, NEW r \in RequestType,
         r.type = INIT => r.from \in Client, r.type \in Commands => r.ids \in Arguments(r.type),
         Posix!Submit(r), linked' = linked
  PROVE  /\ PosixQueue'
         /\ \A d \in Client, i \in Nat : AsksFor(i, d)' =>
              AsksFor(i, d) \/ (r.type = INIT /\ r.from = d /\ i = Len(serverQueue) + 1)
<1> DEFINE n == Len(serverQueue)
<1>0. /\ serverQueue \in Seq(RequestType) /\ n \in Nat /\ DOMAIN serverQueue = 1 .. n
      /\ MAX_MESSAGES \in Nat /\ linked \in BOOLEAN /\ Requests
  BY PosixConstants DEF PosixQueue, RequestsRight
<1>1. n < MAX_MESSAGES /\ serverQueue' = Append(serverQueue, r)
  BY DEF Posix!Submit, Posix!HasRoom
<1>2. /\ serverQueue' \in Seq(RequestType) /\ DOMAIN serverQueue' = 1 .. n + 1
      /\ \A j \in 1 .. n : serverQueue'[j] = serverQueue[j]
      /\ serverQueue'[n + 1] = r
  BY <1>0, <1>1, AppendFacts
<1>3. Len(serverQueue') = n + 1
  BY <1>0, <1>1
<1> HIDE DEF n
<1>4. \A j \in DOMAIN serverQueue' : j \in DOMAIN serverQueue \/ j = n + 1
  BY <1>0, <1>2
<1>5. Requests'
  <2> SUFFICES ASSUME NEW j \in DOMAIN serverQueue'
               PROVE  LET q == serverQueue'[j] IN /\ q.type = INIT => q.from \in Client
                                                  /\ q.type \in Commands => q.ids \in Arguments(q.type)
    BY DEF Requests, Arguments, Slot
  <2>1. CASE j \in DOMAIN serverQueue
    BY <1>0, <1>2, <2>1 DEF Requests
  <2>2. CASE j = n + 1
    BY <1>2, <2>2
  <2> QED
    BY <1>4, <2>1, <2>2
<1>6. PosixQueue'
  BY <1>0, <1>1, <1>2, <1>3, <1>5 DEF PosixQueue, RequestsRight
<1>7. ASSUME NEW d \in Client, NEW i \in Nat, AsksFor(i, d)'
      PROVE  AsksFor(i, d) \/ (r.type = INIT /\ r.from = d /\ i = n + 1)
  BY <1>0, <1>2, <1>4, <1>7 DEF AsksFor
<1> QED
  BY <1>6, <1>7 DEF n

(* A client that sends something other than INIT.                          *)
LEMMA PosixRequestStep ==
  ASSUME Posix!PosixAssumption, PosixWhole, NEW r \in RequestType, r.type # INIT,
         r.type \in Commands => r.ids \in Arguments(r.type), Posix!Submit(r),
         UNCHANGED Posix!server, linked' = linked, pc' = pc, PosixClients'
  PROVE  PosixWhole'
<1>1. PosixQueue
  BY DEF PosixWhole
<1>2. PosixQueue' /\ \A d \in Client, i \in Nat : AsksFor(i, d)' => AsksFor(i, d)
  BY <1>1, PosixSubmit
<1> QED
  BY <1>2, PosixClientStep

(* A client that sends nothing.                                            *)
LEMMA PosixQuietStep ==
  ASSUME PosixWhole, UNCHANGED Posix!server, serverQueue' = serverQueue, linked' = linked,
         \A c \in Client : pc'[c] \in {"new", "opened"} => pc[c] \in {"new", "opened"},
         PosixClients'
  PROVE  PosixWhole'
<1>1. PosixQueue'
  BY DEF PosixWhole, PosixQueue, RequestsRight, Requests, Arguments, Slot
<1>2. \A c \in Client, i \in Nat : AsksFor(i, c)' => AsksFor(i, c)
  BY DEF AsksFor
<1> QED
  BY <1>1, <1>2, PosixClientStep

LEMMA PosixSendInitStep ==
  ASSUME Posix!PosixAssumption, PosixWhole, NEW c \in Client, Posix!SendInit(c)
  PROVE  PosixWhole'
<1> DEFINE r == Request(INIT, -1, c, <<>>)
<1>0. /\ PosixQueue /\ PosixClients /\ pc[c] = "opened"
      /\ UNCHANGED Posix!server /\ linked' = linked /\ inbox' = inbox /\ userID' = userID
      /\ sender' = sender /\ catcher' = catcher /\ sent' = sent /\ interrupts' = interrupts
      /\ restarts' = restarts /\ pc' = [pc EXCEPT ![c] = "initwait"]
      /\ Posix!Submit(r)
  BY PosixRequests, PosixTypes DEF PosixWhole, Posix!SendInit
<1>1. r \in RequestType /\ r.type = INIT /\ r.from = c /\ INIT \notin Commands
  <2>1. INIT \notin Commands
    BY PosixTypes DEF Posix!PosixAssumption, INIT, LIST, FRIENDS, ECHO, _2ALL, _2FRIENDS, _2ONE,
                      ADD, DEL
  <2> QED
    BY <2>1 DEF RequestType, Request
<1> HIDE DEF r
<1>2. /\ PosixQueue'
      /\ \A d \in Client, i \in Nat : AsksFor(i, d)' =>
           AsksFor(i, d) \/ (d = c /\ i = Len(serverQueue) + 1)
  <2>1. r.type \in Commands => r.ids \in Arguments(r.type)
    BY <1>1
  <2> QED
    BY <1>0, <1>1, <2>1, PosixSubmit
<1>3. pc'[c] = "initwait" /\ \A d \in Client \ {c} : pc'[d] = pc[d]
  BY <1>0 DEF PosixClients
<1>4. PosixClients'
  BY <1>0 DEF PosixClients
<1> QED
  BY <1>0, <1>2, <1>3, <1>4, PosixClientStep

(* One message is read; whoever reads it goes on.                          *)
LEMMA PosixReads ==
  ASSUME PosixClients, NEW c \in Client, NEW i \in DOMAIN inbox[c],
         inbox' = [inbox EXCEPT ![c] = Posix!Without(@, i)]
  PROVE  /\ inbox[c][i] \in Nat /\ inbox' \in [Client -> Seq(Nat)]
         /\ \A d \in Client : Len(inbox'[d]) <= Len(inbox[d]) /\ Len(inbox[d]) \in Nat
<1>1. inbox \in [Client -> Seq(Nat)] /\ inbox[c] \in Seq(Nat) /\ inbox[c][i] \in Nat
  BY Elements DEF PosixClients
<1>2. /\ Without(inbox[c], i) \in Seq(Nat)
      /\ DOMAIN Without(inbox[c], i) = 1 .. Len(inbox[c]) - 1
      /\ Len(inbox[c]) \in Nat /\ i \in 1 .. Len(inbox[c])
  BY <1>1, WithoutFacts
<1>3. Len(Without(inbox[c], i)) = Len(inbox[c]) - 1
  BY <1>2
<1>4. inbox' = [inbox EXCEPT ![c] = Without(inbox[c], i)]
  BY PosixWithout
<1> HIDE DEF Without
<1>5. inbox' \in [Client -> Seq(Nat)]
  BY <1>1, <1>2, <1>4
<1>6. ASSUME NEW d \in Client PROVE Len(inbox'[d]) <= Len(inbox[d]) /\ Len(inbox[d]) \in Nat
  <2>1. CASE d = c
    BY <1>1, <1>2, <1>3, <1>4, <2>1
  <2>2. CASE d # c
    BY <1>1, <1>4, <2>2
  <2> QED
    BY <2>1, <2>2
<1> QED
  BY <1>1, <1>5, <1>6

LEMMA PosixReceiveIdStep ==
  ASSUME Posix!PosixAssumption, PosixWhole, NEW c \in Client, Posix!ReceiveId(c)
  PROVE  PosixWhole'
<1>0. /\ PosixClients /\ pc[c] = "initwait" /\ UNCHANGED Posix!server
      /\ serverQueue' = serverQueue /\ linked' = linked /\ sent' = sent
      /\ interrupts' = interrupts /\ restarts' = restarts
      /\ pc' = [pc EXCEPT ![c] = "running"] /\ sender' = [sender EXCEPT ![c] = "typing"]
      /\ catcher' = [catcher EXCEPT ![c] = "reading"] /\ MAX_MESSAGES \in Nat
  BY PosixConstants DEF PosixWhole, Posix!ReceiveId
<1>1. PICK i \in DOMAIN inbox[c] : /\ userID' = [userID EXCEPT ![c] = inbox[c][i]]
                                    /\ inbox' = [inbox EXCEPT ![c] = Posix!Without(@, i)]
  BY DEF Posix!ReceiveId
<1>2. /\ inbox[c][i] \in Nat /\ inbox' \in [Client -> Seq(Nat)]
      /\ \A d \in Client : Len(inbox'[d]) <= Len(inbox[d]) /\ Len(inbox[d]) \in Nat
  BY <1>0, <1>1, PosixReads
<1>3. userID' \in [Client -> Int]
  BY <1>0, <1>1, <1>2 DEF PosixClients
<1>4. \A d \in Client : Len(inbox'[d]) <= MAX_MESSAGES
  <2> SUFFICES ASSUME NEW d \in Client PROVE Len(inbox'[d]) <= MAX_MESSAGES
    OBVIOUS
  <2>1. Len(inbox[d]) <= MAX_MESSAGES
    BY <1>0 DEF PosixClients
  <2>2. Len(inbox'[d]) \in Nat
    BY <1>2
  <2> QED
    BY <1>0, <1>2, <2>1, <2>2
<1>5. PosixClients'
  BY <1>0, <1>2, <1>3, <1>4 DEF PosixClients
<1>6. \A d \in Client : pc'[d] \in {"new", "opened"} => pc[d] \in {"new", "opened"}
  BY <1>0 DEF PosixClients
<1> QED
  BY <1>0, <1>5, <1>6, PosixQuietStep

LEMMA PosixCatcherReadStep ==
  ASSUME Posix!PosixAssumption, PosixWhole, NEW c \in Client, Posix!CatcherRead(c)
  PROVE  PosixWhole'
<1>0. /\ PosixClients /\ UNCHANGED Posix!server /\ userID' = userID
      /\ serverQueue' = serverQueue /\ linked' = linked /\ sent' = sent
      /\ interrupts' = interrupts /\ restarts' = restarts
      /\ pc' = pc /\ sender' = sender /\ MAX_MESSAGES \in Nat
  BY PosixConstants DEF PosixWhole, Posix!CatcherRead
<1>1. PICK i \in DOMAIN inbox[c] :
        /\ inbox' = [inbox EXCEPT ![c] = Posix!Without(@, i)]
        /\ catcher' = [catcher EXCEPT ![c] = IF inbox[c][i] = Posix!SHUTDOWN THEN "ending" ELSE @]
  BY DEF Posix!CatcherRead
<1>2. /\ inbox' \in [Client -> Seq(Nat)]
      /\ \A d \in Client : Len(inbox'[d]) <= Len(inbox[d]) /\ Len(inbox[d]) \in Nat
  BY <1>0, <1>1, PosixReads
<1>3. catcher' \in [Client -> {"none", "reading", "ending", "leaving"}]
  BY <1>0, <1>1 DEF PosixClients
<1>4. \A d \in Client : Len(inbox'[d]) <= MAX_MESSAGES
  <2> SUFFICES ASSUME NEW d \in Client PROVE Len(inbox'[d]) <= MAX_MESSAGES
    OBVIOUS
  <2>1. Len(inbox[d]) <= MAX_MESSAGES
    BY <1>0 DEF PosixClients
  <2>2. Len(inbox'[d]) \in Nat
    BY <1>2
  <2> QED
    BY <1>0, <1>2, <2>1, <2>2
<1>5. PosixClients'
  BY <1>0, <1>2, <1>3, <1>4 DEF PosixClients
<1> QED
  BY <1>0, <1>5, PosixQuietStep

LEMMA PosixSendLineStep ==
  ASSUME Posix!PosixAssumption, PosixWhole, NEW c \in Client, Posix!SendLine(c)
  PROVE  PosixWhole'
<1>0. /\ PosixClients /\ UNCHANGED Posix!server /\ linked' = linked /\ inbox' = inbox
      /\ pc' = pc /\ sender' = sender /\ catcher' = catcher /\ userID' = userID
      /\ interrupts' = interrupts /\ restarts' = restarts
      /\ sent < MaxCommands /\ sent' = sent + 1 /\ MaxCommands \in Nat
  BY PosixConstants DEF PosixWhole, Posix!SendLine
<1>1. PICK type \in Commands : \E ids \in Arguments(type) :
         Posix!Submit(Request(type, userID[c], NoClient, ids))
  BY PosixRequests DEF Posix!SendLine
<1>2. PICK ids \in Arguments(type) : Posix!Submit(Request(type, userID[c], NoClient, ids))
  BY <1>1
<1> DEFINE r == Request(type, userID[c], NoClient, ids)
<1>3. ids \in Seq(Slot)
  <2>1. Lists \subseteq Seq(Slot) /\ <<>> \in Seq(Slot) /\ \A u \in Slot : <<u>> \in Seq(Slot)
    BY DEF Slot
  <2> QED
    BY <2>1 DEF Arguments
<1>4. r \in RequestType /\ r.type = type /\ r.ids = ids
  BY <1>0, <1>3 DEF Request, RequestType, PosixClients
<1>5. type # INIT
  BY PosixTypes DEF Posix!PosixAssumption, INIT, LIST, FRIENDS, ECHO, _2ALL, _2FRIENDS, _2ONE,
                    ADD, DEL
<1>6. PosixClients'
  BY <1>0 DEF PosixClients
<1>7. Posix!Submit(r)
  BY <1>2
<1> HIDE DEF r
<1> QED
  BY <1>0, <1>4, <1>5, <1>6, <1>7, PosixRequestStep

LEMMA PosixStopRequest ==
  ASSUME Posix!PosixAssumption, PosixClients, NEW c \in Client
  PROVE  LET r == Request(STOP, userID[c], NoClient, <<>>)
         IN r \in RequestType /\ r.type = STOP /\ STOP # INIT /\ STOP \notin Commands
<1>1. STOP # INIT /\ STOP \notin Commands
  BY PosixTypes DEF Posix!PosixAssumption, STOP, INIT, LIST, FRIENDS, ECHO, _2ALL, _2FRIENDS,
                    _2ONE, ADD, DEL
<1> QED
  BY <1>1 DEF Request, RequestType, PosixClients

LEMMA PosixSendStopStep ==
  ASSUME Posix!PosixAssumption, PosixWhole, NEW c \in Client, NEW from,
         NEW to \in {"stopping", "leaving"}, Posix!SendStop(c, from, to)
  PROVE  PosixWhole'
<1> DEFINE r == Request(STOP, userID[c], NoClient, <<>>)
<1>1. PosixClients
  BY DEF PosixWhole
<1>2. r \in RequestType /\ r.type = STOP /\ STOP # INIT /\ STOP \notin Commands
  BY <1>1, PosixStopRequest
<1>3. Posix!Submit(r) /\ sender' = [sender EXCEPT ![c] = to]
      /\ UNCHANGED <<linked, Posix!server, inbox, pc, catcher, userID, sent, interrupts, restarts>>
  BY PosixRequests, PosixTypes DEF Posix!SendStop
<1>4. PosixClients'
  BY <1>1, <1>3 DEF PosixClients
<1> HIDE DEF r
<1> QED
  BY <1>2, <1>3, <1>4, PosixRequestStep

LEMMA PosixCatcherEndStep ==
  ASSUME Posix!PosixAssumption, PosixWhole, NEW c \in Client, Posix!CatcherEnd(c)
  PROVE  PosixWhole'
<1> DEFINE r == Request(STOP, userID[c], NoClient, <<>>)
<1>1. PosixClients
  BY DEF PosixWhole
<1>2. r \in RequestType /\ r.type = STOP /\ STOP # INIT /\ STOP \notin Commands
  BY <1>1, PosixStopRequest
<1>3. Posix!Submit(r) /\ catcher' = [catcher EXCEPT ![c] = "leaving"]
      /\ UNCHANGED <<linked, Posix!server, inbox, pc, sender, userID, sent, interrupts, restarts>>
  BY PosixRequests, PosixTypes DEF Posix!CatcherEnd
<1>4. PosixClients'
  BY <1>1, <1>3 DEF PosixClients
<1> HIDE DEF r
<1> QED
  BY <1>2, <1>3, <1>4, PosixRequestStep

LEMMA PosixPlainStep ==
  ASSUME Posix!PosixAssumption, PosixWhole, NEW c \in Client,
         Posix!OpenQueues(c) \/ Posix!Leave(c) \/ Posix!Interrupt(c)
  PROVE  PosixWhole'
<1>0. /\ PosixClients /\ UNCHANGED Posix!server /\ serverQueue' = serverQueue
      /\ linked' = linked /\ inbox' = inbox /\ userID' = userID /\ sent' = sent
      /\ restarts' = restarts /\ MaxSIGINT \in Nat
  BY PosixConstants DEF PosixWhole, Posix!OpenQueues, Posix!Leave, Posix!Interrupt
<1>1. CASE Posix!OpenQueues(c)
  <2>1. /\ PosixClients' /\ \A d \in Client : pc'[d] \in {"new", "opened"} =>
                                                pc[d] \in {"new", "opened"}
    BY <1>0, <1>1 DEF PosixClients, Posix!OpenQueues
  <2> QED
    BY <1>0, <2>1, PosixQuietStep
<1>2. CASE Posix!Leave(c)
  <2>1. /\ PosixClients' /\ \A d \in Client : pc'[d] \in {"new", "opened"} =>
                                                pc[d] \in {"new", "opened"}
    BY <1>0, <1>2 DEF PosixClients, Posix!Leave
  <2> QED
    BY <1>0, <2>1, PosixQuietStep
<1>3. CASE Posix!Interrupt(c)
  <2>1. /\ interrupts < MaxSIGINT /\ interrupts' = interrupts + 1
        /\ \/ pc' = [pc EXCEPT ![c] = "killed"] /\ UNCHANGED <<sender, catcher>>
           \/ /\ catcher' = [catcher EXCEPT ![c] = "ending"]
              /\ sender' = [sender EXCEPT ![c] = "dead"] /\ UNCHANGED pc
    BY <1>3 DEF Posix!Interrupt
  <2>2. interrupts' \in 0 .. MaxSIGINT
    BY <1>0, <2>1 DEF PosixClients
  <2>3. CASE pc' = [pc EXCEPT ![c] = "killed"] /\ UNCHANGED <<sender, catcher>>
    <3>1. /\ PosixClients' /\ \A d \in Client : pc'[d] \in {"new", "opened"} =>
                                                  pc[d] \in {"new", "opened"}
      BY <1>0, <2>2, <2>3 DEF PosixClients
    <3> QED
      BY <1>0, <3>1, PosixQuietStep
  <2>4. CASE /\ catcher' = [catcher EXCEPT ![c] = "ending"]
             /\ sender' = [sender EXCEPT ![c] = "dead"] /\ UNCHANGED pc
    <3>1. PosixClients'
      BY <1>0, <2>2, <2>4 DEF PosixClients
    <3> QED
      BY <1>0, <2>4, <3>1, PosixQuietStep
  <2> QED
    BY <2>1, <2>3, <2>4
<1> QED
  BY <1>1, <1>2, <1>3

LEMMA PosixInitRight ==
  ASSUME Posix!PosixAssumption, Posix!Init
  PROVE  PosixWhole
<1>0. /\ TableInit /\ serverQueue = <<>> /\ linked = TRUE /\ spc = "recv" /\ outgoing = <<>>
      /\ responseType = 0 /\ opened = [d \in Queues |-> NoClient]
      /\ inbox = [c \in Client |-> <<>>] /\ pc = [c \in Client |-> "new"]
      /\ sender = [c \in Client |-> "none"] /\ catcher = [c \in Client |-> "none"]
      /\ userID = [c \in Client |-> -1] /\ sent = 0 /\ interrupts = 0 /\ restarts = 0
      /\ NoClient \notin Client /\ MAX_MESSAGES \in Nat \ {0} /\ MaxCommands \in Nat
      /\ MaxSIGINT \in Nat /\ MaxRestarts \in Nat
  BY PosixConstants, PosixInit DEF Posix!Init, Queues
<1>1. TableOf(Queues) /\ GroupsType /\ RowsInv /\ Registered = {}
  BY <1>0, EmptyTable DEF TableInit, Empty, Cells
<1>2. PosixPlace
  <2>1. outgoing \in Seq(Sends)
    BY <1>0
  <2> QED
    BY <1>0, <1>1, <2>1 DEF PosixPlace, TableInit
<1>3. PosixOpened /\ \A c \in Client : Closed(c)
  BY <1>0 DEF PosixOpened, Closed
<1>4. PosixQueue
  <2>1. serverQueue \in Seq(RequestType) /\ DOMAIN serverQueue = {} /\ Len(serverQueue) = 0
    BY <1>0
  <2> QED
    BY <1>0, <2>1 DEF PosixQueue, RequestsRight, Requests
<1>5. PosixClients
  BY <1>0 DEF PosixClients
<1>6. \A c \in Client : PosixAsks(c)
  <2>1. \A i, c : ~AsksFor(i, c)
    BY <1>0 DEF AsksFor
  <2> QED
    BY <1>3, <2>1 DEF PosixAsks
<1> QED
  BY <1>1, <1>2, <1>3, <1>4, <1>5, <1>6 DEF PosixWhole, PosixServer

LEMMA PosixNextRight ==
  ASSUME Posix!PosixAssumption, PosixWhole, [Posix!Next]_(Posix!vars)
  PROVE  PosixWhole'
<1>1. CASE Posix!ServerStep
  BY <1>1, PosixServeStep, PosixSendStep, PosixCloseStep DEF Posix!ServerStep
<1>2. CASE Posix!handleSIGINT \/ Posix!Restart
  BY <1>2, PosixInterruptStep, PosixRestartStep
<1>3. ASSUME NEW c \in Client, Posix!ClientStep(c) PROVE PosixWhole'
  <2>1. CASE Posix!SendInit(c)
    BY <2>1, PosixSendInitStep
  <2>2. CASE Posix!ReceiveId(c)
    BY <2>2, PosixReceiveIdStep
  <2>3. CASE Posix!SenderEnd(c)
    BY <2>3, PosixSendStopStep DEF Posix!SenderEnd
  <2>4. CASE Posix!CatcherRead(c)
    BY <2>4, PosixCatcherReadStep
  <2>5. CASE Posix!CatcherEnd(c)
    BY <2>5, PosixCatcherEndStep
  <2>6. CASE Posix!Leave(c)
    BY <2>6, PosixPlainStep
  <2> QED
    BY <1>3, <2>1, <2>2, <2>3, <2>4, <2>5, <2>6 DEF Posix!ClientStep
<1>4. ASSUME NEW c \in Client, Posix!User(c) PROVE PosixWhole'
  <2>1. CASE Posix!OpenQueues(c) \/ Posix!Interrupt(c)
    BY <2>1, PosixPlainStep
  <2>2. CASE Posix!SendCommand(c) \/ Posix!ExecuteFile(c)
    BY <2>2, PosixSendLineStep DEF Posix!SendCommand, Posix!ExecuteFile
  <2>3. CASE Posix!TypeStop(c)
    BY <2>3, PosixSendStopStep DEF Posix!TypeStop
  <2> QED
    BY <1>4, <2>1, <2>2, <2>3 DEF Posix!User
<1>5. CASE UNCHANGED Posix!vars
  <2>1. /\ UNCHANGED Posix!server /\ serverQueue' = serverQueue /\ linked' = linked
        /\ inbox' = inbox /\ interrupts' = interrupts /\ restarts' = restarts /\ pc' = pc
        /\ sender' = sender /\ catcher' = catcher /\ userID' = userID /\ sent' = sent
    BY <1>5 DEF Posix!vars, Posix!client
  <2>2. PosixClients'
    BY <2>1 DEF PosixWhole, PosixClients
  <2> QED
    BY <2>1, <2>2, PosixQuietStep
<1> QED
  BY <1>1, <1>2, <1>3, <1>4, <1>5 DEF Posix!Next

(* In zad2 the number of active users, the table and the next free id      *)
(* agree and no two slots hold one descriptor, although descriptors are    *)
(* closed and given out again while they stand in the table, full queues   *)
(* hold the server up, and a server that is started after an exit finds    *)
(* the requests of the one before; its messages go to users of its own     *)
(* (server.c of lab6 zad2).                                                *)
THEOREM PosixUsersRight ==
  ASSUME Posix!PosixAssumption
  PROVE  Posix!Spec => [](UsersAgree /\ Posix!Basis)
<1>1. Posix!Init => PosixWhole
  BY PosixInitRight
<1>2. PosixWhole /\ [Posix!Next]_(Posix!vars) => PosixWhole'
  BY PosixNextRight
<1>3. PosixWhole => UsersAgree /\ Posix!Basis
  BY PosixTogether DEF PosixWhole, PosixServer, TableOf
<1> QED
  BY <1>1, <1>2, <1>3, PTL DEF Posix!Spec
=============================================================================
