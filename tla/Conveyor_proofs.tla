--------------------------- MODULE Conveyor_proofs ---------------------------
(* What the steps at the belt preserve, and that each is a step of the     *)
(* queue BeltFifo or no step of it, whichever version takes it.            *)
EXTENDS Conveyor, Recursion, FiniteSetTheorems

USE BeltAssumption, ConveyorAssumption DEF Process

-----------------------------------------------------------------------------
(* The operators of Belt. *)

(* moveLine returns a line. *)
LEMMA MoveLineType ==
  ASSUME NEW ln \in [Slot -> Parcel]
  PROVE  moveLine(ln) \in [Slot -> Parcel]
BY DEF moveLine, Slot, Parcel, NoParcel

(* Clearing the last slot returns a line. *)
LEMMA ClearEndType ==
  ASSUME NEW ln \in [Slot -> Parcel]
  PROVE  ClearEnd(ln) \in [Slot -> Parcel]
BY DEF ClearEnd, Slot, Parcel, NoParcel

(* What the operations do to the occupied slots. *)

(* The occupied slots can be counted. *)
LEMMA OccupiedFinite ==
  ASSUME NEW ln PROVE IsFiniteSet(Occupied(ln)) /\ Cardinality(Occupied(ln)) \in Nat
<1>1. IsFiniteSet(Slot)
  BY FS_Interval DEF Slot
<1> QED
  BY <1>1, FS_Subset, FS_CardinalityType DEF Occupied

(* Nothing is on an empty line. *)
LEMMA OccupiedEmpty == Occupied(EmptyLine) = {}
BY DEF Occupied, EmptyLine, NoParcel

(* A parcel written to a free slot 0 occupies one slot more. *)
LEMMA OccupiedPush ==
  ASSUME NEW ln \in [Slot -> Parcel], ln[0].weight = 0,
         NEW x \in Parcel, x.weight > 0
  PROVE  LET pushed == [ln EXCEPT ![0] = x] IN
           /\ Occupied(pushed) = Occupied(ln) \cup {0}
           /\ Cardinality(Occupied(pushed)) = Cardinality(Occupied(ln)) + 1
<1> DEFINE pushed == [ln EXCEPT ![0] = x]
<1>1. Occupied(pushed) = Occupied(ln) \cup {0} /\ 0 \notin Occupied(ln)
  BY DEF Occupied, Slot
<1> QED
  BY <1>1, OccupiedFinite, FS_AddElement

(* Clearing the last slot frees it and no other. *)
LEMMA OccupiedClear ==
  ASSUME NEW ln \in [Slot -> Parcel], ln[endOfLine].weight > 0
  PROVE  /\ Occupied(ClearEnd(ln)) = Occupied(ln) \ {endOfLine}
         /\ Cardinality(Occupied(ClearEnd(ln))) = Cardinality(Occupied(ln)) - 1
<1> endOfLine \in Slot
  BY BeltAssumption DEF Slot, endOfLine
<1>1. endOfLine \in Occupied(ln)
  BY DEF Occupied
<1>2. ASSUME NEW i \in Slot
      PROVE  i \in Occupied(ClearEnd(ln)) <=> i \in Occupied(ln) /\ i # endOfLine
  <2>1. CASE i = endOfLine
    <3>1. ClearEnd(ln)[i].weight = 0
      BY <2>1 DEF ClearEnd, NoParcel
    <3> QED
      BY <2>1, <3>1 DEF Occupied
  <2>2. CASE i # endOfLine
    <3>1. ClearEnd(ln)[i] = ln[i]
      BY <2>2 DEF ClearEnd
    <3> QED
      BY <2>2, <3>1 DEF Occupied
  <2> QED
    BY <2>1, <2>2
<1>3. Occupied(ClearEnd(ln)) = Occupied(ln) \ {endOfLine}
  <2>1. Occupied(ClearEnd(ln)) \subseteq Slot /\ Occupied(ln) \subseteq Slot
    BY DEF Occupied
  <2> QED
    BY <1>2, <2>1
<1>4. Cardinality(Occupied(ln) \ {endOfLine}) = Cardinality(Occupied(ln)) - 1
  BY <1>1, OccupiedFinite, FS_RemoveElement
<1> QED
  BY <1>3, <1>4

(* The last slot's parcel leaves the line, the others move by one. *)
LEMMA OccupiedMove ==
  ASSUME NEW ln \in [Slot -> Parcel]
  PROVE  Occupied(moveLine(ln)) = {i + 1 : i \in Occupied(ln) \ {endOfLine}}
<1>1. ASSUME NEW j \in Occupied(moveLine(ln))
      PROVE  j - 1 \in Occupied(ln) \ {endOfLine} /\ j = (j - 1) + 1
  BY DEF Occupied, moveLine, endOfLine, Slot, NoParcel
<1>2. ASSUME NEW i \in Occupied(ln) \ {endOfLine} PROVE i + 1 \in Occupied(moveLine(ln))
  BY DEF Occupied, moveLine, endOfLine, Slot
<1> QED
  BY <1>1, <1>2

(* Moving a line whose last slot is free keeps the number of parcels. *)
LEMMA OccupiedMoveCount ==
  ASSUME NEW ln \in [Slot -> Parcel], endOfLine \notin Occupied(ln)
  PROVE  Cardinality(Occupied(moveLine(ln))) = Cardinality(Occupied(ln))
<1> DEFINE S == Occupied(ln)
           T == Occupied(moveLine(ln))
           f == [i \in S |-> i + 1]
<1>1. T = {i + 1 : i \in S}
  BY OccupiedMove
<1>2. S \subseteq Int
  BY DEF Occupied, Slot
<1>3. f \in Bijection(S, T)
  BY <1>1, <1>2 DEF Bijection, Injection, Surjection, IsInjective
<1>4. ExistsBijection(S, T)
  BY <1>3 DEF ExistsBijection
<1> QED
  BY <1>4, OccupiedFinite, FS_Bijection

(* Moving a line loses the parcel of its last slot and no other. *)
LEMMA OnBeltMove ==
  ASSUME NEW ln \in [Slot -> Parcel]
  PROVE  OnBelt(moveLine(ln)) = {ln[i].timestamp : i \in Occupied(ln) \ {endOfLine}}
<1>1. ASSUME NEW j \in Occupied(moveLine(ln))
      PROVE  j - 1 \in Occupied(ln) \ {endOfLine} /\ moveLine(ln)[j] = ln[j - 1]
  BY DEF Occupied, moveLine, endOfLine, Slot, NoParcel
<1>2. ASSUME NEW i \in Occupied(ln) \ {endOfLine}
      PROVE  i + 1 \in Occupied(moveLine(ln)) /\ moveLine(ln)[i + 1] = ln[i]
  BY DEF Occupied, moveLine, endOfLine, Slot
<1> QED
  BY <1>1, <1>2 DEF OnBelt

(* Clearing the last slot takes its parcel off the belt and no other. *)
LEMMA OnBeltClear ==
  ASSUME NEW ln \in [Slot -> Parcel], ln[endOfLine].weight > 0
  PROVE  {ClearEnd(ln)[i].timestamp : i \in Occupied(ClearEnd(ln)) \ {endOfLine}}
           = {ln[i].timestamp : i \in Occupied(ln) \ {endOfLine}}
<1>1. Occupied(ClearEnd(ln)) = Occupied(ln) \ {endOfLine}
  BY OccupiedClear
<1>2. \A i \in Occupied(ln) \ {endOfLine} : ClearEnd(ln)[i] = ln[i]
  BY DEF ClearEnd, Occupied
<1> QED
  BY <1>1, <1>2

-----------------------------------------------------------------------------
(* The mass on a line. *)

(* MassBefore adds up the masses of the slots. *)
LEMMA MassDef ==
  ASSUME NEW ln \in [Slot -> Parcel]
  PROVE  /\ MassBefore(ln, 0) = 0
         /\ \A n \in 1 .. K : MassBefore(ln, n) = MassBefore(ln, n - 1) + ln[n - 1].weight
         /\ \A n \in 0 .. K : MassBefore(ln, n) \in Nat
<1> DEFINE Is(f) == f = [n \in 0 .. K |-> IF n = 0 THEN 0 ELSE f[n - 1] + ln[n - 1].weight]
           step == [x \in (1 .. K) \X Nat |-> x[2] + ln[x[1] - 1].weight]
           mass == CHOOSE f : Is(f)
<1>0. \A n \in 1 .. K : ln[n - 1].weight \in Nat
  <2>1. \A n \in 1 .. K : n - 1 \in Slot
    BY DEF Slot
  <2> QED
    BY <2>1 DEF Parcel
<1>1. step \in [(1 .. K) \X Nat -> Nat]
  BY <1>0
<1>2. PICK f : Steps(f, K, Nat, 0, step)
  <2> HIDE DEF step
  <2> QED
    BY <1>1, RecursionExists DEF CanStep
<1>3. \A n \in 1 .. K : f[n] = f[n - 1] + ln[n - 1].weight
  <2> SUFFICES ASSUME NEW n \in 1 .. K PROVE f[n] = f[n - 1] + ln[n - 1].weight
    OBVIOUS
  <2>1. <<n, f[n - 1]>> \in (1 .. K) \X Nat
    BY <1>2 DEF Steps
  <2> QED
    BY <1>2, <2>1 DEF Steps
<1>4. Is(f)
  <2>1. f = [n \in 0 .. K |-> f[n]]
    BY <1>2 DEF Steps
  <2>2. \A n \in 0 .. K : f[n] = IF n = 0 THEN 0 ELSE f[n - 1] + ln[n - 1].weight
    BY <1>2, <1>3 DEF Steps
  <2> QED
    BY <2>1, <2>2
<1>5. Is(mass)
  <2> HIDE DEF Is
  <2> QED
    BY <1>4
<1>6. \A k : MassBefore(ln, k) = mass[k]
  BY DEF MassBefore
<1> HIDE DEF mass
<1>7. /\ mass[0] = 0
      /\ \A n \in 1 .. K : mass[n] = mass[n - 1] + ln[n - 1].weight
  <2>1. \A n \in 0 .. K : mass[n] = IF n = 0 THEN 0 ELSE mass[n - 1] + ln[n - 1].weight
    BY <1>5
  <2> QED
    BY <2>1
<1> HIDE DEF Is
<1> DEFINE T == {k \in Nat : k <= K => mass[k] \in Nat}
<1>8. 0 \in T
  BY <1>7
<1>9. ASSUME NEW k \in Nat, k \in T PROVE k + 1 \in T
  <2> SUFFICES ASSUME k + 1 <= K PROVE mass[k + 1] \in Nat
    OBVIOUS
  <2>1. k + 1 \in 1 .. K /\ (k + 1) - 1 = k /\ mass[k] \in Nat
    BY <1>9
  <2>2. mass[k + 1] = mass[k] + ln[k].weight /\ ln[k].weight \in Nat
    BY <1>0, <1>7, <2>1
  <2> QED
    BY <2>1, <2>2
<1> HIDE DEF T
<1>10. \A k \in Nat : k \in T
  BY <1>8, <1>9, Induction
<1>11. \A n \in 0 .. K : mass[n] \in Nat
  BY <1>10 DEF T
<1>12. \A n \in 1 .. K : MassBefore(ln, n) = MassBefore(ln, n - 1) + ln[n - 1].weight
  <2> SUFFICES ASSUME NEW n \in 1 .. K
               PROVE  MassBefore(ln, n) = MassBefore(ln, n - 1) + ln[n - 1].weight
    OBVIOUS
  <2>1. MassBefore(ln, n) = mass[n] /\ MassBefore(ln, n - 1) = mass[n - 1]
    BY <1>6
  <2> QED
    BY <1>7, <2>1
<1>13. \A n \in 0 .. K : MassBefore(ln, n) \in Nat
  BY <1>6, <1>11
<1> QED
  BY <1>6, <1>7, <1>12, <1>13

(* Whatever grows like the mass up to slot e, grows as far. *)
LEMMA MassGrows ==
  ASSUME NEW ln \in [Slot -> Parcel], NEW g, NEW d \in Int,
         NEW m \in 0 .. K, NEW e \in m .. K,
         g[m] = MassBefore(ln, m) + d,
         \A n \in m + 1 .. e : g[n] = g[n - 1] + ln[n - 1].weight
  PROVE  g[e] = MassBefore(ln, e) + d
<1> DEFINE T == {k \in Nat : m + k <= e => g[m + k] = MassBefore(ln, m + k) + d}
<1>1. 0 \in T
  OBVIOUS
<1>2. ASSUME NEW k \in Nat, k \in T PROVE k + 1 \in T
  <2> SUFFICES ASSUME m + (k + 1) <= e
               PROVE  g[m + (k + 1)] = MassBefore(ln, m + (k + 1)) + d
    OBVIOUS
  <2> DEFINE n == m + (k + 1)
  <2>1. /\ n \in m + 1 .. e /\ n \in 1 .. K /\ n - 1 = m + k /\ n - 1 \in 0 .. K
        /\ n - 1 \in Slot
    BY DEF Slot
  <2>2. g[n - 1] = MassBefore(ln, n - 1) + d
    BY <1>2, <2>1
  <2> HIDE DEF n
  <2>3. g[n] = g[n - 1] + ln[n - 1].weight
    BY <2>1
  <2>4. /\ MassBefore(ln, n) = MassBefore(ln, n - 1) + ln[n - 1].weight
        /\ MassBefore(ln, n - 1) \in Nat
    BY <2>1, MassDef
  <2>5. ln[n - 1].weight \in Nat
    BY <2>1 DEF Parcel
  <2>6. g[n] = MassBefore(ln, n) + d
    BY <2>2, <2>3, <2>4, <2>5
  <2> QED
    BY <2>6 DEF n
<1> HIDE DEF T
<1>3. e - m \in T
  BY <1>1, <1>2, Induction
<1>4. m + (e - m) = e
  OBVIOUS
<1> QED
  BY <1>3, <1>4 DEF T

(* The mass of a line is a number. *)
LEMMA MassType == ASSUME NEW ln \in [Slot -> Parcel] PROVE MassOn(ln) \in Nat
<1>1. K \in 0 .. K
  OBVIOUS
<1> QED
  BY <1>1, MassDef DEF MassOn

(* A line without parcels weighs nothing. *)
LEMMA MassEmpty ==
  ASSUME NEW ln \in [Slot -> Parcel], Occupied(ln) = {}
  PROVE  MassOn(ln) = 0
<1> DEFINE g == [n \in 0 .. K |-> 0]
<1>1. ln \in [Slot -> Parcel] /\ \A i \in Slot : ln[i].weight = 0
  BY DEF Occupied, Parcel
<1>2. \A n \in 1 .. K : n - 1 \in Slot
  BY DEF Slot
<1>3. g[0] = MassBefore(ln, 0) + 0
  BY MassDef
<1>4. \A n \in 0 + 1 .. K : g[n] = g[n - 1] + ln[n - 1].weight
  BY <1>1, <1>2
<1>5. g[K] = 0 /\ 0 \in 0 .. K /\ K \in 0 .. K /\ 0 \in Int
  OBVIOUS
<1> HIDE DEF g
<1>6. g[K] = MassBefore(ln, K) + 0
  BY <1>1, <1>3, <1>4, <1>5, MassGrows
<1> QED
  BY <1>5, <1>6, MassType DEF MassOn

(* A parcel in the free slot 0 adds its mass. *)
LEMMA MassPush ==
  ASSUME NEW ln \in [Slot -> Parcel], ln[0].weight = 0, NEW x \in Parcel
  PROVE  MassOn([ln EXCEPT ![0] = x]) = MassOn(ln) + x.weight
<1> DEFINE pushed == [ln EXCEPT ![0] = x]
           g == [n \in 0 .. K |-> MassBefore(pushed, n)]
<1>1. /\ pushed \in [Slot -> Parcel] /\ pushed[0] = x /\ 0 \in Slot
      /\ \A i \in Slot : i # 0 => pushed[i] = ln[i]
  BY DEF Slot
<1>2. x.weight \in Int /\ 1 \in 0 .. K /\ K \in 1 .. K /\ 1 \in 1 .. K /\ 1 - 1 = 0
  BY DEF Parcel
<1> HIDE DEF pushed
<1>3. MassBefore(ln, 1) = 0 /\ MassBefore(pushed, 1) = x.weight
  <2>1. /\ MassBefore(ln, 1) = MassBefore(ln, 0) + ln[0].weight
        /\ MassBefore(pushed, 1) = MassBefore(pushed, 0) + pushed[0].weight
    BY <1>1, <1>2, MassDef
  <2>2. MassBefore(ln, 0) = 0 /\ MassBefore(pushed, 0) = 0
    BY <1>1, MassDef
  <2> QED
    BY <1>1, <1>2, <2>1, <2>2
<1>4. g[1] = MassBefore(ln, 1) + x.weight
  BY <1>2, <1>3
<1>5. \A n \in 1 + 1 .. K : g[n] = g[n - 1] + ln[n - 1].weight
  <2> SUFFICES ASSUME NEW n \in 1 + 1 .. K PROVE g[n] = g[n - 1] + ln[n - 1].weight
    OBVIOUS
  <2>1. n \in 1 .. K /\ n \in 0 .. K /\ n - 1 \in 0 .. K /\ n - 1 \in Slot /\ n - 1 # 0
    BY DEF Slot
  <2>2. MassBefore(pushed, n) = MassBefore(pushed, n - 1) + pushed[n - 1].weight
    BY <1>1, <2>1, MassDef
  <2> QED
    BY <1>1, <2>1, <2>2
<1>6. g[K] = MassOn(pushed)
  BY DEF MassOn
<1> HIDE DEF g
<1>7. g[K] = MassBefore(ln, K) + x.weight
  BY <1>2, <1>4, <1>5, MassGrows
<1> QED
  BY <1>6, <1>7 DEF MassOn, pushed

(* A line that moves loses the mass of its last slot. *)
LEMMA MassMove ==
  ASSUME NEW ln \in [Slot -> Parcel]
  PROVE  MassOn(moveLine(ln)) + ln[endOfLine].weight = MassOn(ln)
<1> DEFINE moved == moveLine(ln)
           g == [n \in 0 .. K - 1 |-> MassBefore(moved, n + 1)]
<1>1. /\ moved \in [Slot -> Parcel] /\ moved[0].weight = 0
      /\ \A i \in 1 .. K - 1 : moved[i] = ln[i - 1]
  BY DEF moveLine, Slot, Parcel, NoParcel
<1>2. /\ 0 \in Int /\ 0 \in 0 .. K /\ K - 1 \in 0 .. K /\ 1 \in 1 .. K /\ K \in 1 .. K
      /\ endOfLine \in Slot /\ (K - 1) + 1 = K
  BY DEF Slot, endOfLine
<1> HIDE DEF moved
<1>3. g[0] = MassBefore(ln, 0) + 0
  <2>1. MassBefore(moved, 1) = MassBefore(moved, 0) + moved[0].weight
    BY <1>1, <1>2, MassDef
  <2>2. MassBefore(ln, 0) = 0 /\ MassBefore(moved, 0) = 0
    BY <1>1, MassDef
  <2> QED
    BY <1>1, <1>2, <2>1, <2>2
<1>4. \A n \in 0 + 1 .. K - 1 : g[n] = g[n - 1] + ln[n - 1].weight
  <2> SUFFICES ASSUME NEW n \in 0 + 1 .. K - 1 PROVE g[n] = g[n - 1] + ln[n - 1].weight
    OBVIOUS
  <2>1. n + 1 \in 1 .. K /\ n \in 1 .. K - 1 /\ (n - 1) + 1 = n /\ (n + 1) - 1 = n
    OBVIOUS
  <2>2. MassBefore(moved, n + 1) = MassBefore(moved, n) + moved[n].weight
    BY <1>1, <2>1, MassDef
  <2> QED
    BY <1>1, <2>1, <2>2
<1>5. g[K - 1] = MassOn(moved)
  BY <1>2 DEF MassOn
<1> HIDE DEF g
<1>6. g[K - 1] = MassBefore(ln, K - 1) + 0
  BY <1>2, <1>3, <1>4, MassGrows
<1>7. /\ MassOn(ln) = MassBefore(ln, K - 1) + ln[endOfLine].weight
      /\ MassBefore(ln, K - 1) \in Nat
  BY <1>2, MassDef DEF MassOn, endOfLine
<1>8. ln[endOfLine].weight \in Nat
  BY <1>2 DEF Parcel
<1> QED
  BY <1>5, <1>6, <1>7, <1>8 DEF moved

(* What moves the line overwrites the last slot, cleared or not. *)
LEMMA MoveCleared ==
  ASSUME NEW ln \in [Slot -> Parcel] PROVE moveLine(ClearEnd(ln)) = moveLine(ln)
<1>1. \A i \in Slot : i # 0 => ClearEnd(ln)[i - 1] = ln[i - 1]
  BY DEF ClearEnd, Slot, endOfLine
<1> QED
  BY <1>1 DEF moveLine

-----------------------------------------------------------------------------
(* Types. *)

(* Push keeps the types of the shared data. *)
LEMMA PushType ==
  ASSUME DataTypeOK, NEW l \in Loader, Push(l)
  PROVE  /\ line' \in [Slot -> Parcel] /\ placed' \in Nat
         /\ freePlaces' \in Int /\ freeWeight' \in Int
         /\ iteration' \in [Loader -> Nat]
<1>1. Weight[l] \in Nat /\ 0 \in Slot
  BY DEF Slot
<1> QED
  BY <1>1 DEF DataTypeOK, Push, Parcel

(* Take keeps the types of the shared data. *)
LEMMA TakeType ==
  ASSUME DataTypeOK, Take
  PROVE  /\ line' \in [Slot -> Parcel] /\ freePlaces' \in Int
         /\ freeWeight' \in Int /\ truckPlacesCount' \in Nat
         /\ onTruck' \in Nat /\ counter' \in Nat /\ loaded' \in Seq(Nat)
         /\ endWork' \in [Process -> BOOLEAN]
<1>1. line[endOfLine] \in Parcel
  BY DEF DataTypeOK, Slot, endOfLine
<1>2. line[endOfLine].weight \in Nat /\ line[endOfLine].timestamp \in Nat
  BY <1>1 DEF Parcel
<1>3. line' \in [Slot -> Parcel]
  BY MoveLineType, ClearEndType DEF Take, DataTypeOK
<1>4. loaded' \in Seq(Nat)
  BY <1>2 DEF Take, DataTypeOK
<1> QED
  BY <1>2, <1>3, <1>4 DEF Take, DataTypeOK

(* EndLoad keeps the types of the shared data. *)
LEMMA EndLoadType ==
  ASSUME DataTypeOK, EndLoad
  PROVE  loaded' \in Seq(Nat) /\ truckPlacesCount' \in Nat /\ onTruck' \in Nat
<1>1. line[endOfLine] \in Parcel
  BY DEF DataTypeOK, Slot, endOfLine
<1>2. line[endOfLine].timestamp \in Nat
  BY <1>1 DEF Parcel
<1> QED
  BY <1>2 DEF EndLoad, DataTypeOK

(* The empty line is a line. *)
LEMMA EmptyLineType == EmptyLine \in [Slot -> Parcel]
BY DEF EmptyLine, Parcel, NoParcel

-----------------------------------------------------------------------------
(* The belt's invariants. *)

(* The belt's invariants hold in the initial state. *)
LEMMA BeltInit == ASSUME ConveyorInit PROVE BeltInv
<1>1. Occupied(line) = {}
  BY OccupiedEmpty DEF ConveyorInit
<1> QED
  BY <1>1 DEF ConveyorInit, BeltInv, PlacesInv, WeightInv, OrderInv, StampInv, BootInv,
     TruckInv, TruckControl, Emptying, NotSetUp

(* The belt's invariants survive a step that leaves the belt and the truck *)
(* alone, as long as the trucker does not go back before its set-up.       *)
LEMMA BeltStays ==
  ASSUME BeltInv, UNCHANGED <<line, freePlaces, freeWeight, placed, end_i>>,
         UNCHANGED <<truckPlacesCount, onTruck>>,
         pc[Trucker] = "release" => pc'[Trucker] \in {"release", "leave"},
         pc[Trucker] = "leave" => pc'[Trucker] = "leave",
         pc'[Trucker] \in {"new", "bootwait", "boot"} =>
           pc[Trucker] \in {"new", "bootwait", "boot"}
  PROVE  BeltInv'
BY DEF BeltInv, PlacesInv, WeightInv, OrderInv, StampInv, BootInv, TruckInv, TruckControl,
       Emptying, NotSetUp

(* Moving the line keeps the order and the numbers of the parcels. *)
LEMMA MovePreserves ==
  ASSUME DataTypeOK, OrderInv, StampInv, placed' = placed,
         line' = moveLine(line) \/ line' = moveLine(ClearEnd(line))
  PROVE  OrderInv' /\ StampInv'
<1>1. \A j \in Occupied(line') : /\ j - 1 \in Occupied(line)
                                 /\ line'[j] = line[j - 1]
  BY DEF DataTypeOK, Occupied, moveLine, ClearEnd, endOfLine, Slot, NoParcel
<1>2. Occupied(line') \subseteq Int
  BY DEF Occupied, Slot
<1>3. OrderInv'
  <2> SUFFICES ASSUME NEW i \in Occupied(line'), NEW j \in Occupied(line'), i < j
               PROVE  line'[i].timestamp > line'[j].timestamp
    BY DEF OrderInv
  <2>1. i - 1 < j - 1
    BY <1>2
  <2> QED
    BY <1>1, <2>1 DEF OrderInv
<1>4. StampInv'
  BY <1>1 DEF StampInv
<1> QED
  BY <1>3, <1>4

(* Push keeps the belt's invariants. *)
LEMMA PushPreserves ==
  ASSUME DataTypeOK, BeltInv, NEW l \in Loader, CanPush(l), Push(l), end_i' = end_i
  PROVE  PlacesInv' /\ WeightInv' /\ OrderInv' /\ StampInv'
<1> DEFINE x == [workerId |-> l, timestamp |-> placed + 1, weight |-> Weight[l]]
<1>1. x \in Parcel /\ x.weight > 0
  BY DEF Parcel, DataTypeOK
<1>2. /\ line' = [line EXCEPT ![0] = x] /\ placed' = placed + 1
      /\ freePlaces' = freePlaces - 1 /\ freePlaces > 0 /\ line[0].weight = 0
  BY DEF Push, CanPush
<1>3. /\ Occupied(line') = Occupied(line) \cup {0}
      /\ Cardinality(Occupied(line')) = Cardinality(Occupied(line)) + 1
  BY <1>1, <1>2, OccupiedPush DEF DataTypeOK
<1>4. PlacesInv'
  BY <1>2, <1>3, OccupiedFinite DEF PlacesInv, BeltInv, Emptying, NotSetUp, DataTypeOK
<1>8. WeightInv'
  <2>1. MassOn(line') = MassOn(line) + Weight[l] /\ MassOn(line) \in Nat
    BY <1>1, <1>2, MassPush, MassType DEF DataTypeOK
  <2>2. freeWeight' = freeWeight - Weight[l] /\ freeWeight >= Weight[l] /\ Weight[l] \in Nat
    BY DEF Push, CanPush
  <2>3. Emptying' = Emptying
    BY DEF Emptying
  <2> QED
    BY <1>2, <2>1, <2>2, <2>3 DEF WeightInv, BeltInv, NotSetUp, DataTypeOK
<1>5. /\ 0 \in Slot /\ line'[0] = x
      /\ \A i \in Occupied(line) : i > 0 /\ line'[i] = line[i]
  BY <1>2 DEF Occupied, Slot, DataTypeOK
<1>6. StampInv'
  BY <1>2, <1>3, <1>5 DEF StampInv, BeltInv, DataTypeOK
<1>7. OrderInv'
  <2> SUFFICES ASSUME NEW i \in Occupied(line'), NEW j \in Occupied(line'), i < j
               PROVE  line'[i].timestamp > line'[j].timestamp
    BY DEF OrderInv
  <2>1. j \in Occupied(line) /\ line'[j] = line[j]
    BY <1>3, <1>5 DEF Occupied, Slot
  <2>2. line[j].timestamp \in 1 .. placed
    BY <2>1 DEF BeltInv, StampInv
  <2>3. CASE i = 0
    BY <1>5, <2>1, <2>2, <2>3 DEF DataTypeOK
  <2>4. CASE i # 0
    BY <1>3, <1>5, <2>1, <2>4 DEF BeltInv, OrderInv
  <2> QED
    BY <2>3, <2>4
<1> QED
  BY <1>4, <1>6, <1>7, <1>8

(* Take keeps the belt's invariants. *)
LEMMA TakePreserves ==
  ASSUME DataTypeOK, BeltInv, ParcelAtEnd, Take, UNCHANGED <<end_i, placed>>
  PROVE  PlacesInv' /\ WeightInv' /\ OrderInv' /\ StampInv'
<1> DEFINE cleared == ClearEnd(line)
<1>1. OrderInv' /\ StampInv'
  BY MovePreserves DEF Take, BeltInv
<1>2. endOfLine \in Occupied(line)
  BY DEF ParcelAtEnd, Occupied, endOfLine, Slot
<1>3. /\ Cardinality(Occupied(cleared)) = Cardinality(Occupied(line)) - 1
      /\ endOfLine \notin Occupied(cleared)
  BY OccupiedClear DEF ParcelAtEnd, DataTypeOK
<1>4. cleared \in [Slot -> Parcel]
  BY ClearEndType DEF DataTypeOK
<1>5. Cardinality(Occupied(line')) = Cardinality(Occupied(cleared))
  BY <1>3, <1>4, OccupiedMoveCount DEF Take
<1>6. PlacesInv'
  BY <1>2, <1>3, <1>5, OccupiedFinite DEF Take, PlacesInv, BeltInv, Emptying,
     NotSetUp, DataTypeOK
<1>7. WeightInv'
  <2>1. /\ MassOn(line') + line[endOfLine].weight = MassOn(line)
        /\ MassOn(line) \in Nat /\ MassOn(line') \in Nat
    BY MassMove, MassType, MoveCleared, MoveLineType DEF Take, DataTypeOK
  <2>2. line[endOfLine].weight \in Nat
    BY <1>2 DEF DataTypeOK, Parcel, Occupied
  <2>3. freeWeight' = freeWeight + line[endOfLine].weight /\ Emptying' = Emptying
    BY DEF Take, Emptying
  <2> QED
    BY <1>2, <2>1, <2>2, <2>3, SMTT(30) DEF WeightInv, BeltInv, DataTypeOK
<1> QED
  BY <1>1, <1>6, <1>7

(* Moving a line whose end is free keeps the belt's invariants. *)
LEMMA MoveEmptyPreserves ==
  ASSUME DataTypeOK, BeltInv, ~ParcelAtEnd, line' = moveLine(line),
         UNCHANGED <<freePlaces, freeWeight, placed, end_i>>
  PROVE  /\ PlacesInv' /\ WeightInv' /\ OrderInv' /\ StampInv'
         /\ OnBelt(line') = OnBelt(line)
<1>1. OrderInv' /\ StampInv'
  BY MovePreserves DEF BeltInv
<1>2. endOfLine \notin Occupied(line)
  BY DEF ParcelAtEnd, Occupied
<1>3. Cardinality(Occupied(line')) = Cardinality(Occupied(line))
  BY <1>2, OccupiedMoveCount DEF DataTypeOK
<1>4. Occupied(line) = {} => Occupied(line') = {}
  BY OccupiedMove DEF DataTypeOK
<1>5. PlacesInv'
  BY <1>3, <1>4 DEF PlacesInv, BeltInv, Emptying, NotSetUp
<1>6. OnBelt(line') = OnBelt(line)
  <2>1. Occupied(line) \ {endOfLine} = Occupied(line)
    BY <1>2
  <2>2. OnBelt(moveLine(line))
          = {line[i].timestamp : i \in Occupied(line) \ {endOfLine}}
    BY OnBeltMove DEF DataTypeOK
  <2> QED
    BY <2>1, <2>2 DEF OnBelt
<1>7. WeightInv'
  <2>1. line[endOfLine].weight = 0
    <3>1. endOfLine \in Slot
      BY DEF Slot, endOfLine
    <3> QED
      BY <3>1 DEF ParcelAtEnd, DataTypeOK, Parcel
  <2>2. MassOn(line') = MassOn(line)
    <3>1. MassOn(line') + line[endOfLine].weight = MassOn(line)
      BY MassMove DEF DataTypeOK
    <3>2. MassOn(line') \in Nat
      BY MassType, MoveLineType DEF DataTypeOK
    <3> QED
      BY <2>1, <3>1, <3>2
  <2> QED
    BY <1>4, <2>2 DEF WeightInv, BeltInv, Emptying, NotSetUp
<1> QED
  BY <1>1, <1>5, <1>6, <1>7

(* The counters of an empty belt are set up, or the line is cleared again. *)
LEMMA SetUpPreserves ==
  ASSUME Occupied(line) = {}, Occupied(line') = {}, line' \in [Slot -> Parcel],
         freePlaces' = K, freeWeight' = M, ~Emptying, UNCHANGED <<placed, end_i>>
  PROVE  /\ PlacesInv' /\ WeightInv' /\ OrderInv' /\ StampInv'
         /\ OnBelt(line') = OnBelt(line)
<1>1. Cardinality(Occupied(line')) = 0
  BY FS_EmptySet
<1>2. WeightInv'
  BY MassEmpty DEF WeightInv
<1> QED
  BY <1>1, <1>2 DEF PlacesInv, OrderInv, StampInv, OnBelt, Emptying

-----------------------------------------------------------------------------
(* The steps, seen as steps of the queue. *)

(* In an ordered line the parcel at the end is the oldest on the belt. *)
LEMMA OldestAtTheEnd ==
  ASSUME DataTypeOK, OrderInv, endOfLine \in Occupied(line), OnBeltNow = OnBelt(line)
  PROVE  Fifo!IsOldest(line[endOfLine].timestamp)
<1>1. ASSUME NEW i \in Occupied(line)
      PROVE  line[endOfLine].timestamp <= line[i].timestamp
  <2>1. i \in Slot /\ endOfLine \in Slot /\ i <= endOfLine
    BY DEF Occupied, Slot, endOfLine
  <2>2. line[i].timestamp \in Nat /\ line[endOfLine].timestamp \in Nat
    BY <2>1 DEF DataTypeOK, Parcel
  <2>3. CASE i = endOfLine
    BY <2>2, <2>3
  <2>4. CASE i < endOfLine
    BY <2>2, <2>4 DEF OrderInv
  <2> QED
    BY <2>1, <2>3, <2>4 DEF Slot, endOfLine
<1> QED
  BY <1>1 DEF Fifo!IsOldest, OnBelt

(* Without its last slot the line holds all parcels but the oldest. *)
LEMMA WithoutTheEnd ==
  ASSUME DataTypeOK, OrderInv, endOfLine \in Occupied(line)
  PROVE  {line[i].timestamp : i \in Occupied(line) \ {endOfLine}}
           = OnBelt(line) \ {line[endOfLine].timestamp}
<1>1. ASSUME NEW i \in Occupied(line), i # endOfLine
      PROVE  line[i].timestamp # line[endOfLine].timestamp
  <2>1. i \in Slot /\ endOfLine \in Slot /\ i < endOfLine
    BY <1>1 DEF Occupied, Slot, endOfLine
  <2>2. line[i].timestamp \in Nat /\ line[endOfLine].timestamp \in Nat
    BY <2>1 DEF DataTypeOK, Parcel
  <2> QED
    BY <2>1, <2>2 DEF OrderInv
<1> QED
  BY <1>1 DEF OnBelt

(* A step that leaves the line, the loop that empties it and the trucker   *)
(* outside "endload" alone is not seen by the queue.                       *)
LEMMA SeesNothing ==
  ASSUME UNCHANGED <<line, placed, loaded, end_i>>,
         pc'[Trucker] = "endload" <=> pc[Trucker] = "endload"
  PROVE  UNCHANGED Fifo!vars
BY DEF Fifo!vars, OnBeltNow, Emptying

(* The initial state is an empty, open queue. *)
LEMMA FifoInit == ASSUME ConveyorInit PROVE Fifo!Init
<1>1. OnBeltNow = {}
  BY OccupiedEmpty DEF ConveyorInit, OnBeltNow, OnBelt, Emptying
<1> QED
  BY <1>1 DEF ConveyorInit, Fifo!Init, Emptying

(* A step that leaves the belt alone is not seen by the queue. *)
LEMMA SameBeltIsStutter ==
  ASSUME ~Emptying, OnBelt(line') = OnBelt(line), UNCHANGED <<placed, loaded, end_i>>
  PROVE  UNCHANGED Fifo!vars
BY DEF OnBeltNow, Fifo!vars, Emptying

(* Push is a Put. *)
LEMMA PushIsPut ==
  ASSUME DataTypeOK, BeltInv, NEW l \in Loader, CanPush(l), Push(l), ~Emptying,
         UNCHANGED <<end_i, loaded>>
  PROVE  Fifo!Put
<1> DEFINE x == [workerId |-> l, timestamp |-> placed + 1, weight |-> Weight[l]]
<1>1. ~Emptying' /\ UNCHANGED Emptying
  BY DEF Emptying
<1>2. x \in Parcel /\ x.weight > 0
  BY DEF Parcel, DataTypeOK
<1>3. /\ line' = [line EXCEPT ![0] = x] /\ placed' = placed + 1
      /\ freePlaces > 0 /\ line[0].weight = 0
  BY DEF Push, CanPush
<1>4. Occupied(line') = Occupied(line) \cup {0}
  BY <1>2, <1>3, OccupiedPush DEF DataTypeOK
<1>5. OnBeltNow' = OnBeltNow \cup {placed'}
  <2>1. line'[0] = x /\ \A i \in Occupied(line) : line'[i] = line[i]
    BY <1>3 DEF Occupied, Slot, DataTypeOK
  <2>2. OnBelt(line') = OnBelt(line) \cup {x.timestamp}
    BY <1>4, <2>1 DEF OnBelt
  <2> QED
    BY <1>1, <1>3, <2>2 DEF OnBeltNow
<1>6. Cardinality(OnBelt(line)) < K
  <2> DEFINE f == [i \in Occupied(line) |-> line[i].timestamp]
  <2>1. f \in Surjection(Occupied(line), OnBelt(line))
    BY DEF Surjection, OnBelt
  <2>2. /\ Cardinality(OnBelt(line)) <= Cardinality(Occupied(line))
        /\ Cardinality(OnBelt(line)) \in Nat
    BY <2>1, OccupiedFinite, FS_Surjection, FS_CardinalityType
  <2>3. Cardinality(Occupied(line)) < K
    BY <1>3, OccupiedFinite DEF BeltInv, PlacesInv, NotSetUp, DataTypeOK
  <2> QED
    BY <2>2, <2>3, OccupiedFinite
<1>7. Fifo!Cardinality(OnBeltNow) < K
  BY <1>6 DEF OnBeltNow, Cardinality, Fifo!Cardinality
<1> QED
  BY <1>1, <1>3, <1>5, <1>7 DEF Fifo!Put

(* Take is a Load. *)
LEMMA TakeIsLoad ==
  ASSUME DataTypeOK, BeltInv, ParcelAtEnd, Take, ~Emptying, UNCHANGED <<end_i, placed>>
  PROVE  Fifo!Load
<1> DEFINE n == line[endOfLine].timestamp
<1>1. ~Emptying' /\ UNCHANGED Emptying
  BY DEF Emptying
<1>2. endOfLine \in Occupied(line)
  BY DEF ParcelAtEnd, Occupied, Slot, endOfLine
<1>3. OnBeltNow = OnBelt(line) /\ OnBeltNow' = OnBelt(line')
  BY <1>1 DEF OnBeltNow
<1>4. n \in OnBeltNow /\ Fifo!IsOldest(n)
  BY <1>2, <1>3, OldestAtTheEnd DEF OnBelt, BeltInv
<1>5. OnBeltNow' = OnBeltNow \ {n}
  <2>1. ClearEnd(line) \in [Slot -> Parcel] /\ line \in [Slot -> Parcel]
    BY ClearEndType DEF DataTypeOK
  <2>2. OnBelt(line') = {line[i].timestamp : i \in Occupied(line) \ {endOfLine}}
    BY <2>1, OnBeltMove, OnBeltClear DEF Take, ParcelAtEnd
  <2> QED
    BY <1>2, <1>3, <2>2, WithoutTheEnd DEF BeltInv
<1>6. loaded' = Append(loaded, n)
  BY DEF Take
<1> QED
  BY <1>1, <1>4, <1>5, <1>6 DEF Fifo!Load

(* The first move of the emptying loop is a Close, which may lose the *)
(* parcel in the last slot; the later moves are not seen.             *)
LEMMA EndMoveIsClose ==
  ASSUME DataTypeOK, BeltInv, EndMove, pc[Trucker] = "end", pc'[Trucker] = "endload",
         UNCHANGED <<placed, loaded>>
  PROVE  Fifo!Close \/ UNCHANGED Fifo!vars
<1>1. /\ Emptying' /\ OnBeltNow' = OnBelt(line')
      /\ OnBelt(line') = {line[i].timestamp : i \in Occupied(line) \ {endOfLine}}
  <2>1. end_i' > 0 /\ line' = moveLine(line)
    BY DEF EndMove, DataTypeOK
  <2>2. OnBelt(line') = {line[i].timestamp : i \in Occupied(line) \ {endOfLine}}
    BY <2>1, OnBeltMove DEF DataTypeOK
  <2> QED
    BY <2>1, <2>2 DEF Emptying, OnBeltNow
<1>2. CASE Emptying
  BY <1>1, <1>2 DEF OnBeltNow, Fifo!vars
<1>3. CASE ~Emptying /\ endOfLine \in Occupied(line)
  <2> DEFINE n == line[endOfLine].timestamp
  <2>1. OnBeltNow = OnBelt(line)
    BY <1>3 DEF OnBeltNow
  <2>2. n \in OnBeltNow /\ Fifo!IsOldest(n)
    BY <1>3, <2>1, OldestAtTheEnd DEF OnBelt, BeltInv
  <2>3. OnBeltNow' = OnBeltNow \ {n}
    BY <1>1, <1>3, <2>1, WithoutTheEnd DEF BeltInv
  <2> QED
    BY <1>1, <1>3, <2>2, <2>3 DEF Fifo!Close
<1>4. CASE ~Emptying /\ endOfLine \notin Occupied(line)
  <2>1. OnBeltNow' = OnBeltNow
    BY <1>1, <1>4 DEF OnBeltNow, OnBelt
  <2> QED
    BY <1>1, <1>4, <2>1 DEF Fifo!Close
<1> QED
  BY <1>2, <1>3, <1>4

(* EndLoad is a Load, or not seen when nothing arrived. *)
LEMMA EndLoadIsLoad ==
  ASSUME DataTypeOK, BeltInv, EndLoad, Emptying, pc[Trucker] = "endload",
         pc'[Trucker] = "end", UNCHANGED <<line, placed, end_i>>
  PROVE  Fifo!Load \/ UNCHANGED Fifo!vars
<1> DEFINE n == line[endOfLine].timestamp
<1>1. /\ Emptying' /\ OnBeltNow = OnBelt(line)
      /\ OnBeltNow' = {line[i].timestamp : i \in Occupied(line) \ {endOfLine}}
  BY DEF Emptying, OnBeltNow
<1>2. CASE endOfLine \in Occupied(line)
  <2>1. n \in OnBeltNow /\ Fifo!IsOldest(n)
    BY <1>1, <1>2, OldestAtTheEnd DEF OnBelt, BeltInv
  <2>2. OnBeltNow' = OnBeltNow \ {n}
    BY <1>1, <1>2, WithoutTheEnd DEF BeltInv
  <2>3. loaded' = Append(loaded, n)
    BY <1>2 DEF EndLoad, ParcelAtEnd, Occupied
  <2> QED
    BY <1>1, <2>1, <2>2, <2>3 DEF Fifo!Load
<1>3. CASE endOfLine \notin Occupied(line)
  <2>1. OnBeltNow' = OnBeltNow
    BY <1>1, <1>3 DEF OnBelt
  <2>2. loaded' = loaded
    BY <1>3 DEF EndLoad, ParcelAtEnd, Occupied, Slot, endOfLine
  <2> QED
    BY <1>1, <2>1, <2>2 DEF Fifo!vars
<1> QED
  BY <1>2, <1>3

-----------------------------------------------------------------------------
(* Consequences of the queue, whose parcels are OnBeltNow and which is     *)
(* closed when Emptying.                                                   *)

(* The queue counts as this module does. *)
LEMMA FifoCounts ==
  /\ Fifo!Accounted <=>
       placed - Len(loaded) - Cardinality(OnBeltNow) \in IF Emptying THEN {0, 1} ELSE {0}
  /\ Fifo!Accounted' <=>
       placed' - Len(loaded') - Cardinality(OnBeltNow')
         \in IF Emptying' THEN {0, 1} ELSE {0}
BY DEF Fifo!Accounted, Cardinality, Fifo!Cardinality

(* The parcels on the belt can be counted. *)
LEMMA BeltFinite == ASSUME Fifo!TypeOK PROVE IsFiniteSet(OnBeltNow) /\ Cardinality(OnBeltNow) \in Nat
<1>1. IsFiniteSet(1 .. placed)
  BY FS_Interval DEF Fifo!TypeOK
<1> QED
  BY <1>1, FS_Subset, FS_CardinalityType DEF Fifo!TypeOK

(* The loaded sequence is increasing and every parcel is accounted for.    *)
THEOREM LoadsEveryParcelInOrder == Fifo!Spec => [](Fifo!InOrder /\ Fifo!Accounted)
<1> DEFINE Inv == Fifo!TypeOK /\ Fifo!InOrder /\ Fifo!Behind /\ Fifo!Accounted
<1>1. Fifo!Init => Inv
  <2>1. Cardinality({}) = 0
    BY FS_EmptySet
  <2> SUFFICES ASSUME Fifo!Init PROVE Inv
    OBVIOUS
  <2>2. Len(loaded) = 0 /\ Cardinality(OnBeltNow) = 0
    BY <2>1 DEF Fifo!Init
  <2>3. Fifo!TypeOK
    <3>1. placed \in Nat /\ OnBeltNow \subseteq 1 .. placed /\ Emptying \in BOOLEAN
      BY DEF Fifo!Init
    <3>2. loaded \in Seq(Nat)
      BY DEF Fifo!Init
    <3> QED
      BY <3>1, <3>2 DEF Fifo!TypeOK
  <2>4. Fifo!Accounted
    BY <2>2, FifoCounts DEF Fifo!Init
  <2> QED
    BY <2>2, <2>3, <2>4 DEF Fifo!InOrder, Fifo!Behind
<1>2. Inv /\ [Fifo!Next]_(Fifo!vars) => Inv'
  <2> SUFFICES ASSUME Inv, [Fifo!Next]_(Fifo!vars) PROVE Inv'
    OBVIOUS
  <2>0. IsFiniteSet(OnBeltNow) /\ Cardinality(OnBeltNow) \in Nat
    BY BeltFinite
  <2>1. CASE UNCHANGED Fifo!vars
    BY <2>1 DEF Fifo!vars, Fifo!TypeOK, Fifo!InOrder, Fifo!Behind, Fifo!Accounted
  <2>2. CASE Fifo!Put
    <3>1. Fifo!TypeOK'
      BY <2>2 DEF Fifo!Put, Fifo!TypeOK
    <3>2. Fifo!InOrder'
      BY <2>2 DEF Fifo!Put, Fifo!InOrder
    <3>3. Fifo!Behind'
      <4>1. ASSUME NEW i \in 1 .. Len(loaded)
            PROVE  loaded[i] <= placed + 1 /\ loaded[i] < placed + 1
        BY DEF Fifo!TypeOK, Fifo!Behind
      <4> QED
        BY <2>2, <4>1 DEF Fifo!Put, Fifo!Behind
    <3>4. Fifo!Accounted'
      <4>1. Cardinality(OnBeltNow') = Cardinality(OnBeltNow) + 1
        <5>1. placed + 1 \notin OnBeltNow
          BY DEF Fifo!TypeOK
        <5> QED
          BY <2>0, <2>2, <5>1, FS_AddElement DEF Fifo!Put
      <4> QED
        BY <2>0, <2>2, <4>1, FifoCounts DEF Fifo!Put, Fifo!TypeOK
    <3> QED
      BY <3>1, <3>2, <3>3, <3>4
  <2>3. CASE Fifo!Load
    <3>1. PICK n \in OnBeltNow : /\ Fifo!IsOldest(n) /\ OnBeltNow' = OnBeltNow \ {n}
                              /\ loaded' = Append(loaded, n)
                              /\ UNCHANGED <<placed, Emptying>>
      BY <2>3 DEF Fifo!Load
    <3>2. n \in Nat /\ Fifo!TypeOK'
      BY <3>1 DEF Fifo!TypeOK
    <3>3. /\ Len(loaded') = Len(loaded) + 1 /\ loaded'[Len(loaded) + 1] = n
          /\ \A i \in 1 .. Len(loaded) : loaded'[i] = loaded[i]
      BY <3>1, <3>2 DEF Fifo!TypeOK
    <3>4. Fifo!InOrder'
      <4> SUFFICES ASSUME NEW i \in 1 .. Len(loaded'), NEW j \in 1 .. Len(loaded'), i < j
                   PROVE  loaded'[i] < loaded'[j]
        BY DEF Fifo!InOrder
      <4>1. i \in 1 .. Len(loaded)
        BY <3>3 DEF Fifo!TypeOK
      <4>2. CASE j \in 1 .. Len(loaded)
        BY <3>3, <4>1, <4>2 DEF Fifo!InOrder
      <4>3. CASE j = Len(loaded) + 1
        BY <3>1, <3>3, <4>1, <4>3 DEF Fifo!Behind
      <4>4. j \in 1 .. Len(loaded) \/ j = Len(loaded) + 1
        <5>1. Len(loaded) \in Nat
          BY DEF Fifo!TypeOK
        <5>2. j \in 1 .. Len(loaded) + 1
          BY <3>3
        <5> QED
          BY <5>1, <5>2
      <4> QED
        BY <4>2, <4>3, <4>4
    <3>5. Fifo!Behind'
      <4>1. \A m \in OnBeltNow' : n < m
        BY <3>1 DEF Fifo!IsOldest, Fifo!TypeOK
      <4> QED
        BY <3>1, <3>3, <4>1 DEF Fifo!Behind, Fifo!TypeOK
    <3>6. Fifo!Accounted'
      <4>1. Cardinality(OnBeltNow') = Cardinality(OnBeltNow) - 1
        BY <2>0, <3>1, FS_RemoveElement
      <4> QED
        BY <2>0, <3>1, <3>3, <4>1, FifoCounts DEF Fifo!TypeOK
    <3> QED
      BY <3>2, <3>4, <3>5, <3>6
  <2>4. CASE Fifo!Close
    <3>1. Emptying' /\ ~Emptying /\ UNCHANGED <<placed, loaded>>
      BY <2>4 DEF Fifo!Close
    <3>2. OnBeltNow' \subseteq OnBeltNow
      BY <2>4 DEF Fifo!Close
    <3>3. Cardinality(OnBeltNow') = Cardinality(OnBeltNow)
          \/ Cardinality(OnBeltNow') = Cardinality(OnBeltNow) - 1
      BY <2>0, <2>4, FS_RemoveElement DEF Fifo!Close
    <3>4. Fifo!Accounted'
      <4> DEFINE k == Cardinality(OnBeltNow)
                 kept == Cardinality(OnBeltNow')
                 n == Len(loaded)
      <4>1. placed \in Nat /\ n \in Nat /\ k \in Nat
        BY <2>0 DEF Fifo!TypeOK
      <4>2. placed - n - k = 0
        <5>1. placed - n - k \in {0}
          BY <3>1, FifoCounts
        <5> QED
          BY <5>1
      <4>3. placed' = placed /\ Len(loaded') = n /\ (kept = k \/ kept = k - 1)
        BY <3>1, <3>3
      <4> HIDE DEF k, kept, n
      <4>4. placed' - Len(loaded') - kept \in {0, 1}
        BY <4>1, <4>2, <4>3
      <4> QED
        BY <3>1, <4>4, FifoCounts DEF kept
    <3> QED
      BY <2>4, <3>1, <3>2, <3>4 DEF Fifo!TypeOK, Fifo!InOrder, Fifo!Behind, Fifo!Close
  <2> QED
    BY <2>1, <2>2, <2>3, <2>4 DEF Fifo!Next
<1> QED
  BY <1>1, <1>2, PTL DEF Fifo!Spec

=============================================================================
