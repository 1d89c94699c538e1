------------------------ MODULE RollerCoaster_proofs ------------------------
(* Proofs of the safety properties of RollerCoaster, for every number of   *)
(* passengers, carriages, seats and tours.                                 *)
EXTENDS RollerCoaster, FiniteSetTheorems, TLAPS

USE RollerCoasterAssumption DEF Passenger, Carriage, Nobody

-----------------------------------------------------------------------------
(* Numbers and sequences. *)

(* The turn goes round. *)
LEMMA ModFacts ==
  ASSUME NEW n \in Nat \ {0}
  PROVE  n % n = 0 /\ \A k \in 0 .. n - 1 : k % n = k
<1>1. n % n = 0
  OBVIOUS
<1>2. ASSUME NEW k \in 0 .. n - 1 PROVE k % n = k
  OBVIOUS
<1> QED
  BY <1>1, <1>2

(* The first of a sequence is taken away. *)
LEMMA TailFacts ==
  ASSUME NEW S, NEW s \in Seq(S), s # <<>>, NoRepeats(s)
  PROVE  /\ Tail(s) \in Seq(S) /\ Head(s) \in S /\ Head(s) \in Range(s)
         /\ NoRepeats(Tail(s)) /\ Range(Tail(s)) = Range(s) \ {Head(s)}
<1>1. /\ Tail(s) \in Seq(S) /\ Head(s) \in S /\ Len(s) \in Nat \ {0} /\ Head(s) = s[1]
      /\ DOMAIN s = 1 .. Len(s) /\ DOMAIN Tail(s) = 1 .. Len(s) - 1
      /\ \A i \in 1 .. Len(s) - 1 : Tail(s)[i] = s[i + 1]
  OBVIOUS
<1>2. NoRepeats(Tail(s))
  BY <1>1 DEF NoRepeats
<1>3. Head(s) \in Range(s)
  BY <1>1 DEF Range
<1>4. Range(Tail(s)) \subseteq Range(s) \ {Head(s)}
  BY <1>1 DEF Range, NoRepeats
<1>5. ASSUME NEW x \in Range(s), x # Head(s) PROVE x \in Range(Tail(s))
  <2>1. PICK i \in 1 .. Len(s) : x = s[i]
    BY <1>1 DEF Range
  <2>2. i - 1 \in 1 .. Len(s) - 1 /\ Tail(s)[i - 1] = x
    BY <1>1, <1>5, <2>1
  <2> QED
    BY <1>1, <2>2 DEF Range
<1> QED
  BY <1>1, <1>2, <1>3, <1>4, <1>5

(* One more comes to the end of a sequence. *)
LEMMA AppendFacts ==
  ASSUME NEW S, NEW s \in Seq(S), NEW x \in S
  PROVE  /\ Append(s, x) \in Seq(S) /\ Len(Append(s, x)) = Len(s) + 1
         /\ DOMAIN Append(s, x) = 1 .. Len(s) + 1 /\ Append(s, x)[Len(s) + 1] = x
         /\ \A i \in 1 .. Len(s) : Append(s, x)[i] = s[i]
         /\ Range(Append(s, x)) = Range(s) \cup {x}
         /\ NoRepeats(s) /\ x \notin Range(s) => NoRepeats(Append(s, x))
<1>1. /\ Append(s, x) \in Seq(S) /\ Len(Append(s, x)) = Len(s) + 1 /\ Len(s) \in Nat
      /\ DOMAIN Append(s, x) = 1 .. Len(s) + 1 /\ Append(s, x)[Len(s) + 1] = x
      /\ DOMAIN s = 1 .. Len(s)
      /\ \A i \in 1 .. Len(s) : Append(s, x)[i] = s[i]
  OBVIOUS
<1>2. Range(Append(s, x)) = Range(s) \cup {x}
  <2>1. ASSUME NEW y \in Range(Append(s, x)) PROVE y \in Range(s) \cup {x}
    BY <1>1 DEF Range
  <2>2. ASSUME NEW y \in Range(s) PROVE y \in Range(Append(s, x))
    <3>1. PICK i \in 1 .. Len(s) : y = s[i]
      BY <1>1 DEF Range
    <3>2. i \in 1 .. Len(s) + 1 /\ y = Append(s, x)[i]
      BY <1>1, <3>1
    <3> QED
      BY <1>1, <3>2 DEF Range
  <2>3. x \in Range(Append(s, x))
    BY <1>1 DEF Range
  <2> QED
    BY <2>1, <2>2, <2>3
<1>3. ASSUME NoRepeats(s), x \notin Range(s) PROVE NoRepeats(Append(s, x))
  BY <1>1, <1>3 DEF NoRepeats, Range
<1> HIDE DEF Range
<1> QED
  BY <1>1, <1>2, <1>3

(* As many members as elements, if none is repeated. *)
LEMMA RangeCount ==
  ASSUME NEW S, NEW s \in Seq(S), NoRepeats(s)
  PROVE  IsFiniteSet(Range(s)) /\ Cardinality(Range(s)) = Len(s)
<1>1. Len(s) \in Nat /\ DOMAIN s = 1 .. Len(s)
  OBVIOUS
<1>2. s \in Bijection(1 .. Len(s), Range(s))
  <2>1. s \in [1 .. Len(s) -> Range(s)]
    BY <1>1 DEF Range
  <2> QED
    BY <1>1, <2>1 DEF Bijection, Injection, Surjection, IsInjective, NoRepeats, Range
<1>3. IsFiniteSet(1 .. Len(s)) /\ Cardinality(1 .. Len(s)) = Len(s)
  BY <1>1, FS_Interval
<1>4. ExistsBijection(1 .. Len(s), Range(s))
  BY <1>2 DEF ExistsBijection
<1> QED
  BY <1>3, <1>4, FS_Bijection

-----------------------------------------------------------------------------
(* Threads that are woken. *)

(* A carriage's thread stays where it is or is woken there. *)
Woke(d) == \/ cpc'[d] = cpc[d]
           \/ cpc[d] = "turnwait" /\ cpc'[d] = "turn"
           \/ cpc[d] = "boardwait" /\ cpc'[d] = "boarded"
           \/ cpc[d] = "presswait" /\ cpc'[d] = "pressed"
           \/ cpc[d] = "dropwait" /\ cpc'[d] = "dropdone"

(* A carriage goes to a place and no other does more than wake up. *)
Only(c, there) ==
  /\ cpc'[c] = there
  /\ \A d \in Carriage : d # c => Woke(d)

(* A passenger's thread stays on its side of the carriage's door. *)
Outside == {"loop", "entry", "entrysleepy", "entrywait", "done"}
SameSide(p) == ppc'[p] \in Outside <=> ppc[p] \in Outside

(* What CarriageGoto and WakeCarriage do. *)
LEMMA CarriageMoves ==
  ASSUME TypeOK, NEW c \in Carriage, NEW there,
         CarriageGoto(c, there) \/ \E w : WakeCarriage(w, c, there)
  PROVE  Only(c, there) /\ DOMAIN cpc' = Carriage
<1>1. DOMAIN cpc = Carriage
  BY DEF TypeOK
<1>2. CASE CarriageGoto(c, there)
  BY <1>1, <1>2 DEF CarriageGoto, Only, Woke
<1>3. ASSUME NEW w, WakeCarriage(w, c, there)
      PROVE  Only(c, there) /\ DOMAIN cpc' = Carriage
  <2>1. \A d \in Carriage :
          cpc'[d] = IF d = c THEN there
                    ELSE IF d = w /\ cpc[d] = "turnwait" THEN "turn" ELSE cpc[d]
    BY <1>3 DEF WakeCarriage
  <2> QED
    BY <1>3, <2>1 DEF WakeCarriage, Only, Woke
<1> QED
  BY <1>2, <1>3

(* What PassengerWakes does to the carriages. *)
LEMMA PassengerWakesCarriages ==
  ASSUME TypeOK, NEW p, NEW there, NEW here \in {"boardwait", "presswait", "dropwait"},
         PassengerWakes(p, there, here)
  PROVE  (\A d \in Carriage : Woke(d)) /\ DOMAIN cpc' = Carriage
<1>1. cpc' = [d \in Carriage |-> IF cpc[d] = here THEN Woken(here) ELSE cpc[d]]
  BY DEF PassengerWakes
<1>2. /\ Woken("boardwait") = "boarded" /\ Woken("presswait") = "pressed"
      /\ Woken("dropwait") = "dropdone"
  BY DEF Woken
<1> QED
  BY <1>1, <1>2 DEF Woke

(* A woken carriage is as full as before, and stays at the platform or away. *)
LEMMA WokenStays ==
  ASSUME NEW d \in Carriage, Woke(d),
         passengers'[d] = passengers[d], dropped'[d] = dropped[d]
  PROVE  /\ Told(d)' = Told(d) /\ Seated(d)' = Seated(d) /\ Kept(d)' = Kept(d)
         /\ NextPassenger(d)' = NextPassenger(d)
         /\ AtPlatform(d)' <=> AtPlatform(d)
         /\ Over(d)' <=> Over(d)
         /\ cpc'[d] = "ended" <=> cpc[d] = "ended"
         /\ cpc'[d] \in Dropping <=> cpc[d] \in Dropping
         /\ carriageSeatsState'[d] = carriageSeatsState[d] /\ Seating(d) => Seating(d)'
<1>1. /\ NextPassenger(d)' = NextPassenger(d) /\ Seated(d)' = Seated(d)
      /\ cpc'[d] \in {"dropwait", "dropdone"} <=> cpc[d] \in {"dropwait", "dropdone"}
      /\ cpc'[d] \in Dropping <=> cpc[d] \in Dropping
      /\ cpc'[d] = "ended" <=> cpc[d] = "ended"
      /\ AtPlatform(d)' <=> AtPlatform(d)
      /\ Over(d)' <=> Over(d)
  BY DEF Woke, NextPassenger, Seated, Dropping, AtPlatform, Over
<1>2. Told(d)' = Told(d) /\ Kept(d)' = Kept(d)
  BY <1>1 DEF Told, Kept
<1>3. ASSUME carriageSeatsState'[d] = carriageSeatsState[d], Seating(d) PROVE Seating(d)'
  BY <1>1, <1>2, <1>3 DEF Seating, NoRepeats, Woke, Over
<1> QED
  BY <1>1, <1>2, <1>3

-----------------------------------------------------------------------------
(* The turns. *)

(* A step that does not pass on the turn.  A carriage comes to the         *)
(* platform only in its turn and ends only after its last tour.            *)
LEMMA RoundStays ==
  ASSUME TypeOK, RoundInv, UNCHANGED <<turnVars, tour>>,
         \A d \in Carriage : Over(d)' <=> Over(d),
         \A d \in Carriage : AtPlatform(d)' => AtPlatform(d) \/ actualCarriageID = d,
         \A d \in Carriage : cpc'[d] = "ended" => cpc[d] = "ended" \/ tour[d] > tourCount,
         \A d \in Carriage : tour[d] > tourCount /\ cpc[d] \in Dropping \cup {"ended"} =>
                               cpc'[d] \in Dropping \cup {"ended"}
  PROVE  RoundInv'
<1>1. PICK r \in 1 .. tourCount : Round(r)
  BY DEF RoundInv
<1>2. /\ tour \in [Carriage -> 1 .. tourCount + 1]
      /\ UNCHANGED <<actualCarriageID, endedCarriage, lastLeft, tour>>
  BY DEF TypeOK, turnVars
<1>3. Round(r)'
  <2> SUFFICES ASSUME NEW c \in Carriage, c = actualCarriageID
               PROVE  \/ tour[c] = r /\ cpc'[c] # "ended"
                      \/ r = tourCount /\ tour[c] = r + 1 /\ cpc'[c] \in Dropping \cup {"ended"}
    BY <1>1, <1>2 DEF Round
  <2>1. CASE tour[c] = r /\ cpc[c] # "ended"
    BY <2>1
  <2>2. CASE r = tourCount /\ tour[c] = r + 1 /\ cpc[c] \in Dropping \cup {"ended"}
    BY <2>2
  <2> QED
    BY <1>1, <2>1, <2>2 DEF Round
<1> QED
  BY <1>2, <1>3 DEF RoundInv

(* The same for a step of carriage c. *)
LEMMA RoundOnly ==
  ASSUME TypeOK, RoundInv, UNCHANGED <<turnVars, tour>>,
         NEW c \in Carriage, NEW there, Only(c, there),
         there \in {"test", "wakenext", "wakeall", "done"} <=> Over(c),
         AtPlatform(c)' => AtPlatform(c) \/ actualCarriageID = c,
         there = "ended" => tour[c] > tourCount,
         tour[c] > tourCount /\ cpc[c] \in Dropping \cup {"ended"} =>
           there \in Dropping \cup {"ended"}
  PROVE  RoundInv'
<1>1. ASSUME NEW d \in Carriage, d # c
      PROVE  /\ Over(d)' <=> Over(d)
             /\ AtPlatform(d)' <=> AtPlatform(d)
             /\ cpc'[d] = "ended" <=> cpc[d] = "ended"
             /\ cpc'[d] \in Dropping <=> cpc[d] \in Dropping
  BY <1>1 DEF Only, Woke, Over, AtPlatform, Dropping
<1>2. cpc'[c] = there /\ (Over(c)' <=> Over(c))
  BY DEF Only, Over
<1> QED
  BY <1>1, <1>2, RoundStays

(* And for a step of a passenger. *)
LEMMA RoundWoken ==
  ASSUME TypeOK, RoundInv, UNCHANGED <<turnVars, tour>>, \A d \in Carriage : Woke(d)
  PROVE  RoundInv'
<1>1. ASSUME NEW d \in Carriage
      PROVE  /\ Over(d)' <=> Over(d)
             /\ AtPlatform(d)' <=> AtPlatform(d)
             /\ cpc'[d] = "ended" <=> cpc[d] = "ended"
             /\ cpc'[d] \in Dropping <=> cpc[d] \in Dropping
  BY DEF Woke, Over, AtPlatform, Dropping
<1> QED
  BY <1>1, RoundStays

(* The carriage at the platform passes on the turn, to the next or, after  *)
(* the last one, to the first that still runs.                             *)
LEMMA TurnPassed ==
  ASSUME NEW a \in Carriage
  PROVE  /\ a = carriageCount - 1 => (a + 1) % carriageCount = 0
         /\ a # carriageCount - 1 => (a + 1) % carriageCount = a + 1
BY ModFacts

(* A ride that is not the last. *)
LEMMA RideKeepsRound ==
  ASSUME TypeOK, RoundInv, NEW c \in Carriage, StartRide(c), tour[c] # tourCount
  PROVE  RoundInv'
<1>1. /\ cpc[c] = "pressed" /\ tour' = [tour EXCEPT ![c] = @ + 1]
      /\ endedCarriage' = endedCarriage /\ actualCarriageID' = NextCarriage /\ lastLeft' = c
      /\ WakeCarriage(actualCarriageID', c, "turn")
  BY DEF StartRide
<1>2. actualCarriageID = c
  BY <1>1 DEF RoundInv, AtPlatform
<1>3. PICK r \in 1 .. tourCount : Round(r)
  BY DEF RoundInv
<1>4. tour[c] = r /\ r < tourCount /\ endedCarriage = 0
  <2>1. tour[c] = r
    BY <1>1, <1>2, <1>3 DEF Round, Dropping
  <2>2. endedCarriage \in 0 .. carriageCount
    BY DEF TypeOK
  <2> QED
    BY <1>3, <2>1, <2>2 DEF Round
<1>5. /\ tour \in [Carriage -> 1 .. tourCount + 1] /\ tour'[c] = r + 1
      /\ \A d \in Carriage : d # c => tour'[d] = tour[d]
  BY <1>1, <1>4 DEF TypeOK
<1>6. Only(c, "turn")
  BY <1>1, CarriageMoves
<1>7. ASSUME NEW d \in Carriage
      PROVE  (Over(d)' <=> Over(d)) /\ ~AtPlatform(d)' /\ cpc'[d] # "ended"
  <2>1. CASE d = c
    BY <1>1, <1>6, <2>1 DEF Only, Over, AtPlatform
  <2>2. CASE d # c
    BY <1>2, <1>6, <2>2 DEF Only, Woke, Over, AtPlatform, RoundInv
  <2> QED
    BY <2>1, <2>2
<1>8. CASE c = carriageCount - 1
  <2>1. actualCarriageID' = 0 /\ 0 \in Carriage
    BY <1>1, <1>2, <1>4, <1>8 DEF NextCarriage
  <2>2. Round(r + 1)'
    BY <1>2, <1>3, <1>4, <1>5, <1>7, <1>8, <2>1, <1>1 DEF Round
  <2>3. actualCarriageID' = (lastLeft' + 1) % carriageCount
    BY <1>1, <1>8, <2>1, TurnPassed
  <2> QED
    BY <1>1, <1>4, <1>7, <2>1, <2>2, <2>3 DEF RoundInv
<1>9. CASE c # carriageCount - 1
  <2>1. actualCarriageID' = c + 1 /\ c + 1 \in Carriage
    BY <1>1, <1>2, <1>9 DEF NextCarriage
  <2>2. Round(r)'
    BY <1>2, <1>3, <1>4, <1>5, <1>7, <1>9, <2>1, <1>1 DEF Round
  <2>3. actualCarriageID' = (lastLeft' + 1) % carriageCount
    BY <1>1, <1>9, <2>1, TurnPassed
  <2> QED
    BY <1>1, <1>4, <1>7, <2>1, <2>2, <2>3 DEF RoundInv
<1> QED
  BY <1>8, <1>9

(* A carriage ends: it is the first of those that still run. *)
LEMMA EndKeepsRound ==
  ASSUME TypeOK, RoundInv, NEW c \in Carriage, EndCarriage(c)
  PROVE  /\ RoundInv' /\ endedCarriage' = c + 1 /\ actualCarriageID' = c + 1
         /\ tour[c] = tourCount + 1
<1>1. /\ cpc[c] = "ended" /\ tour' = tour /\ endedCarriage' = endedCarriage + 1
      /\ actualCarriageID' = NextCarriage /\ lastLeft' = c /\ CarriageGoto(c, "test")
  BY DEF EndCarriage, carriageVars
<1>2. actualCarriageID = c
  BY <1>1 DEF RoundInv, AtPlatform
<1>3. PICK r \in 1 .. tourCount : Round(r)
  BY DEF RoundInv
<1>4. tour[c] = r + 1 /\ r = tourCount
  BY <1>1, <1>2, <1>3 DEF Round
<1>5. endedCarriage = c
  <2>1. endedCarriage \in 0 .. carriageCount
    BY DEF TypeOK
  <2>2. CASE endedCarriage > 0
    BY <1>2, <2>2 DEF RoundInv
  <2>3. CASE endedCarriage = 0
    BY <1>2, <1>3, <1>4, <2>3 DEF Round
  <2> QED
    BY <2>1, <2>2, <2>3
<1>6. endedCarriage' = c + 1 /\ actualCarriageID' = c + 1
  BY <1>1, <1>2, <1>5 DEF NextCarriage
<1>7. Only(c, "test")
  BY <1>1, CarriageMoves
<1>8. ASSUME NEW d \in Carriage
      PROVE  (Over(d)' <=> d < endedCarriage') /\ ~AtPlatform(d)' /\ cpc'[d] # "ended"
  <2>1. CASE d = c
    BY <1>6, <1>7, <2>1 DEF Only, Over, AtPlatform
  <2>2. CASE d # c
    <3>1. (Over(d) <=> d < endedCarriage) /\ ~AtPlatform(d)
      BY <1>2, <2>2 DEF RoundInv
    <3>2. (Over(d)' <=> Over(d)) /\ ~AtPlatform(d)' /\ cpc'[d] # "ended"
      BY <1>7, <2>2, <3>1 DEF Only, Woke, Over, AtPlatform
    <3> QED
      BY <1>5, <1>6, <2>2, <3>1, <3>2
  <2> QED
    BY <2>1, <2>2
<1>9. Round(r)'
  BY <1>1, <1>2, <1>3, <1>4, <1>6, <1>8 DEF Round
<1>10. actualCarriageID' \in Carriage => actualCarriageID' = (lastLeft' + 1) % carriageCount
  BY <1>1, <1>6, TurnPassed
<1>11. endedCarriage' > 0 /\ actualCarriageID' = endedCarriage'
  BY <1>6
<1>12. RoundInv'
  BY <1>8, <1>9, <1>10, <1>11 DEF RoundInv
<1> QED
  BY <1>4, <1>6, <1>12

(* The last ride: the carriage stays at the platform. *)
LEMMA LastRideKeepsRound ==
  ASSUME TypeOK, RoundInv, NEW c \in Carriage, StartRide(c), tour[c] = tourCount
  PROVE  RoundInv'
<1>1. /\ cpc[c] = "pressed" /\ tour' = [tour EXCEPT ![c] = @ + 1]
      /\ UNCHANGED <<endedCarriage, actualCarriageID, lastLeft>> /\ CarriageGoto(c, "drop")
  BY DEF StartRide
<1>2. actualCarriageID = c
  BY <1>1 DEF RoundInv, AtPlatform
<1>3. PICK r \in 1 .. tourCount : Round(r)
  BY DEF RoundInv
<1>4. tour[c] = r
  BY <1>1, <1>2, <1>3 DEF Round, Dropping
<1>5. /\ tour \in [Carriage -> 1 .. tourCount + 1] /\ tour'[c] = r + 1
      /\ \A d \in Carriage : d # c => tour'[d] = tour[d]
  BY <1>1, <1>4 DEF TypeOK
<1>6. Only(c, "drop")
  BY <1>1, CarriageMoves
<1>7. ASSUME NEW d \in Carriage
      PROVE  (Over(d)' <=> Over(d)) /\ (AtPlatform(d)' <=> AtPlatform(d))
  <2>1. CASE d = c
    BY <1>1, <1>6, <2>1 DEF Only, Over, AtPlatform
  <2>2. CASE d # c
    BY <1>6, <2>2 DEF Only, Woke, Over, AtPlatform
  <2> QED
    BY <2>1, <2>2
<1>8. Round(r)'
  BY <1>1, <1>2, <1>3, <1>4, <1>5, <1>6 DEF Round, Only, Dropping
<1> QED
  BY <1>1, <1>7, <1>8 DEF RoundInv

(* The turns go round in every step. *)
LEMMA RoundStep ==
  ASSUME TypeOK, RoundInv, [Next]_vars
  PROVE  RoundInv'
<1>1. CASE UNCHANGED vars
  BY <1>1, RoundWoken DEF vars, turnVars, Woke
<1>2. ASSUME NEW c \in Carriage, threadCarriage(c) PROVE RoundInv'
  <2>0. \A there : CarriageGoto(c, there) => Only(c, there)
    BY CarriageMoves
  <2>1. CASE CheckTurn(c) \/ SleepTurn(c)
    <3>1. PICK there \in {"open", "turnsleepy", "turnwait"} :
            /\ CarriageGoto(c, there) /\ cpc[c] \in {"turn", "turnsleepy"}
            /\ there = "open" => actualCarriageID = c
      BY <2>1 DEF CheckTurn, SleepTurn
    <3>2. UNCHANGED <<turnVars, tour>>
      BY <2>1 DEF CheckTurn, SleepTurn, carriageVars
    <3> QED
      BY <2>0, <3>1, <3>2, RoundOnly DEF Only, AtPlatform, Over, Dropping
  <2>2. CASE OpenDoor(c) \/ BoardPassenger(c) \/ Boarded(c)
    <3>1. PICK there \in {"board", "drop", "boardwait", "press"} :
            CarriageGoto(c, there) /\ cpc[c] \in {"open", "board", "boarded"}
      BY <2>2 DEF OpenDoor, BoardPassenger, Boarded
    <3>2. UNCHANGED <<turnVars, tour>>
      BY <2>2 DEF OpenDoor, BoardPassenger, Boarded, carriageVars
    <3> QED
      BY <2>0, <3>1, <3>2, RoundOnly DEF Only, AtPlatform, Over, Dropping
  <2>3. CASE DropPassenger(c) \/ ChoosePresser(c)
    <3>1. \/ CarriageGoto(c, "dropwait") /\ cpc[c] = "drop"
          \/ CarriageGoto(c, "presswait") /\ cpc[c] = "press"
      BY <2>3 DEF DropPassenger, ChoosePresser
    <3>2. UNCHANGED <<turnVars, tour>>
      BY <2>3 DEF DropPassenger, ChoosePresser, carriageVars
    <3> QED
      BY <2>0, <3>1, <3>2, RoundOnly DEF Only, AtPlatform, Over, Dropping
  <2>4. CASE DropDone(c)
    <3>1. CarriageGoto(c, AfterDrop(c)) /\ cpc[c] = "dropdone" /\ UNCHANGED <<turnVars, tour>>
      BY <2>4 DEF DropDone
    <3>2. /\ AfterDrop(c) \in {"drop", "ended", "board"}
          /\ AfterDrop(c) = "ended" => tour[c] > tourCount
          /\ tour[c] > tourCount => AfterDrop(c) \in {"drop", "ended"}
      BY DEF AfterDrop
    <3> HIDE DEF AfterDrop
    <3> QED
      BY <2>0, <3>1, <3>2, RoundOnly DEF Only, AtPlatform, Over, Dropping
  <2>5. CASE StartRide(c)
    BY <2>5, RideKeepsRound, LastRideKeepsRound
  <2>6. CASE EndCarriage(c)
    BY <2>6, EndKeepsRound
  <2>7. CASE TestNext(c) \/ WakeNext(c) \/ WakeAll(c)
    <3>1. PICK there \in {"wakenext", "wakeall", "done"} :
            /\ CarriageGoto(c, there) \/ \E w : WakeCarriage(w, c, there)
            /\ cpc[c] \in {"test", "wakenext", "wakeall"}
      BY <2>7 DEF TestNext, WakeNext, WakeAll
    <3>2. UNCHANGED <<turnVars, tour>>
      BY <2>7 DEF TestNext, WakeNext, WakeAll, carriageVars
    <3>3. Only(c, there)
      BY <3>1, CarriageMoves
    <3> QED
      BY <3>1, <3>2, <3>3, RoundOnly DEF Only, AtPlatform, Over, Dropping
  <2> QED
    BY <1>2, <2>1, <2>2, <2>3, <2>4, <2>5, <2>6, <2>7 DEF threadCarriage
<1>3. ASSUME NEW p \in Passenger, threadPassenger(p) PROVE RoundInv'
  <2>1. UNCHANGED <<turnVars, tour>>
    BY <1>3 DEF threadPassenger, Loop, CheckEntry, SleepEntry, EnterCarriage, WaitForButton,
       PressButton, SeeButton, WaitForStop, LeaveCarriage, carriageVars
  <2>2. \A d \in Carriage : Woke(d)
    <3>1. CASE EnterCarriage(p) \/ PressButton(p) \/ LeaveCarriage(p)
      BY <3>1, PassengerWakesCarriages DEF EnterCarriage, PressButton, LeaveCarriage
    <3>2. CASE ~(EnterCarriage(p) \/ PressButton(p) \/ LeaveCarriage(p))
      BY <1>3, <3>2 DEF threadPassenger, Loop, CheckEntry, SleepEntry, WaitForButton,
         SeeButton, WaitForStop, Woke
    <3> QED
      BY <3>1, <3>2
  <2> QED
    BY <2>1, <2>2, RoundWoken
<1> QED
  BY <1>1, <1>2, <1>3 DEF Next, Terminated

-----------------------------------------------------------------------------
(* Who sits in a carriage. *)

(* The members of s behind the k-th. *)
Slice(s, k) == {s[i] : i \in k + 1 .. Len(s)}

LEMMA SliceFacts ==
  ASSUME NEW S, NEW s \in Seq(S), NoRepeats(s), NEW k \in 0 .. Len(s)
  PROVE  /\ k = Len(s) => Slice(s, k) = {}
         /\ k < Len(s) => /\ s[k + 1] \in S /\ s[k + 1] \in Slice(s, k)
                          /\ Slice(s, k) \ {s[k + 1]} = Slice(s, k + 1)
         /\ IsFiniteSet(Slice(s, k)) /\ Cardinality(Slice(s, k)) = Len(s) - k
         /\ Slice(s, k) \subseteq S
<1>1. Len(s) \in Nat /\ DOMAIN s = 1 .. Len(s) /\ \A i \in 1 .. Len(s) : s[i] \in S
  OBVIOUS
<1>2. k = Len(s) => Slice(s, k) = {}
  BY <1>1 DEF Slice
<1>3. ASSUME k < Len(s)
      PROVE  /\ s[k + 1] \in S /\ s[k + 1] \in Slice(s, k)
             /\ Slice(s, k) \ {s[k + 1]} = Slice(s, k + 1)
  <2>1. s[k + 1] \in S /\ s[k + 1] \in Slice(s, k)
    BY <1>1, <1>3 DEF Slice
  <2>2. ASSUME NEW x \in Slice(s, k), x # s[k + 1] PROVE x \in Slice(s, k + 1)
    <3>1. PICK i \in k + 1 .. Len(s) : x = s[i]
      BY DEF Slice
    <3>2. i \in (k + 1) + 1 .. Len(s)
      BY <1>1, <2>2, <3>1
    <3> QED
      BY <3>1, <3>2 DEF Slice
  <2>3. ASSUME NEW x \in Slice(s, k + 1) PROVE x \in Slice(s, k) /\ x # s[k + 1]
    <3>1. PICK i \in (k + 1) + 1 .. Len(s) : x = s[i]
      BY DEF Slice
    <3>2. i \in k + 1 .. Len(s) /\ i \in DOMAIN s /\ k + 1 \in DOMAIN s /\ i # k + 1
      BY <1>1, <1>3, <3>1
    <3> QED
      BY <3>1, <3>2 DEF Slice, NoRepeats
  <2> QED
    BY <2>1, <2>2, <2>3
<1>4. IsFiniteSet(Slice(s, k)) /\ Cardinality(Slice(s, k)) = Len(s) - k
  <2> DEFINE I == k + 1 .. Len(s)
             f == [i \in I |-> s[i]]
  <2>1. f \in Bijection(I, Slice(s, k))
    <3>1. f \in [I -> Slice(s, k)]
      BY DEF Slice
    <3>2. \A i, j \in I : f[i] = f[j] => i = j
      BY <1>1 DEF NoRepeats
    <3>3. \A x \in Slice(s, k) : \E i \in I : f[i] = x
      BY DEF Slice
    <3> QED
      BY <3>1, <3>2, <3>3 DEF Bijection, Injection, Surjection, IsInjective
  <2>2. IsFiniteSet(I) /\ Cardinality(I) = Len(s) - k
    <3>1. k + 1 \in Int /\ Len(s) \in Int /\ k <= Len(s)
      BY <1>1
    <3>2. /\ IsFiniteSet(I)
          /\ Cardinality(I) = IF k + 1 > Len(s) THEN 0 ELSE Len(s) - (k + 1) + 1
      BY <3>1, FS_Interval
    <3> QED
      BY <3>1, <3>2
  <2>3. ExistsBijection(I, Slice(s, k))
    BY <2>1 DEF ExistsBijection
  <2> HIDE DEF I
  <2> QED
    BY <2>2, <2>3, FS_Bijection
<1>5. Slice(s, k) \subseteq S
  BY <1>1 DEF Slice
<1> QED
  BY <1>2, <1>3, <1>4, <1>5

(* One more gets in. *)
LEMMA SliceAppend ==
  ASSUME NEW S, NEW s \in Seq(S), NEW x \in S, NEW k \in 0 .. Len(s)
  PROVE  Slice(Append(s, x), k) = Slice(s, k) \cup {x}
<1>1. /\ Len(s) \in Nat /\ Len(Append(s, x)) = Len(s) + 1 /\ Append(s, x)[Len(s) + 1] = x
      /\ \A i \in 1 .. Len(s) : Append(s, x)[i] = s[i]
  OBVIOUS
<1>2. ASSUME NEW y \in Slice(Append(s, x), k) PROVE y \in Slice(s, k) \cup {x}
  <2>1. PICK i \in k + 1 .. Len(s) + 1 : y = Append(s, x)[i]
    BY <1>1 DEF Slice
  <2>2. CASE i = Len(s) + 1
    BY <1>1, <2>1, <2>2
  <2>3. CASE i # Len(s) + 1
    <3>1. i \in k + 1 .. Len(s) /\ y = s[i]
      BY <1>1, <2>1, <2>3
    <3> QED
      BY <3>1 DEF Slice
  <2> QED
    BY <2>2, <2>3
<1>3. ASSUME NEW y \in Slice(s, k) PROVE y \in Slice(Append(s, x), k)
  <2>1. PICK i \in k + 1 .. Len(s) : y = s[i]
    BY DEF Slice
  <2>2. i \in k + 1 .. Len(s) + 1 /\ y = Append(s, x)[i]
    BY <1>1, <2>1
  <2> QED
    BY <1>1, <2>2 DEF Slice
<1>4. x \in Slice(Append(s, x), k)
  <2>1. Len(s) + 1 \in k + 1 .. Len(s) + 1
    BY <1>1
  <2> QED
    BY <1>1, <2>1 DEF Slice
<1> QED
  BY <1>2, <1>3, <1>4

(* Whom a carriage has and has not told to get out. *)
LEMMA KeptFacts ==
  ASSUME TypeOK, NEW c \in Carriage, Seating(c)
  PROVE  /\ passengers[c] \in Seq(Passenger) /\ Len(passengers[c]) \in Nat
         /\ NoRepeats(passengers[c])
         /\ dropped[c] \in 0 .. carriageCapacity - 1
         /\ Told(c) \in 0 .. 1 /\ dropped[c] + Told(c) \in 0 .. Len(passengers[c])
         /\ Seated(c) = Slice(passengers[c], dropped[c])
         /\ Kept(c) = Slice(passengers[c], dropped[c] + Told(c))
         /\ Kept(c) \subseteq Seated(c) /\ Seated(c) \subseteq Passenger
         /\ IsFiniteSet(Kept(c)) /\ Cardinality(Kept(c)) = carriageSeatsState[c]
         /\ IsFiniteSet(Seated(c)) /\ Cardinality(Seated(c)) = Len(passengers[c]) - dropped[c]
<1>1. /\ passengers[c] \in Seq(Passenger) /\ Len(passengers[c]) \in Nat
      /\ dropped[c] \in 0 .. carriageCapacity - 1 /\ carriageSeatsState[c] \in Nat
  BY DEF TypeOK
<1>2. Told(c) \in 0 .. 1
  BY DEF Told
<1>3. /\ NoRepeats(passengers[c])
      /\ carriageSeatsState[c] = Len(passengers[c]) - dropped[c] - Told(c)
  BY DEF Seating
<1>4. dropped[c] + Told(c) \in 0 .. Len(passengers[c]) /\ dropped[c] \in 0 .. Len(passengers[c])
  BY <1>1, <1>2, <1>3
<1>5. Seated(c) = Slice(passengers[c], dropped[c])
  BY DEF Seated, Slice
<1>6. Kept(c) = Slice(passengers[c], dropped[c] + Told(c))
  <2>1. CASE cpc[c] \in {"dropwait", "dropdone"}
    <3>1. Told(c) = 1 /\ Kept(c) = Seated(c) \ {NextPassenger(c)}
      BY <2>1 DEF Told, Kept
    <3>2. dropped[c] < Len(passengers[c])
      BY <1>1, <1>4, <3>1
    <3>3. \A s \in Seq(Passenger) : \A k \in 0 .. Len(s) :
            NoRepeats(s) /\ k < Len(s) => Slice(s, k) \ {s[k + 1]} = Slice(s, k + 1)
      BY SliceFacts
    <3> QED
      BY <1>1, <1>3, <1>4, <1>5, <3>1, <3>2, <3>3 DEF NextPassenger
  <2>2. CASE cpc[c] \notin {"dropwait", "dropdone"}
    BY <1>1, <1>5, <2>2 DEF Told, Kept
  <2> QED
    BY <2>1, <2>2
<1>7. Kept(c) \subseteq Seated(c)
  BY DEF Kept
<1> QED
  BY <1>1, <1>2, <1>3, <1>4, <1>5, <1>6, <1>7, SliceFacts, SMTT(30)

(* Nobody is awaited at a carriage that is away, or neither takes in nor   *)
(* lets out.                                                               *)
LEMMA NobodyAwaited ==
  ASSUME NEW c \in Carriage, ~AtPlatform(c)
  PROVE  Awaited(c) = {} /\ Told(c) = 0
BY DEF AtPlatform, Awaited, Told

(* A woken carriage waits for whom it waited for. *)
LEMMA WokenAwaits ==
  ASSUME NEW d \in Carriage, Woke(d), UNCHANGED <<waitForEntry, waitForRelease>>,
         passengers'[d] = passengers[d], dropped'[d] = dropped[d]
  PROVE  Awaited(d)' = Awaited(d)
<1>1. /\ NextPassenger(d)' = NextPassenger(d)
      /\ cpc'[d] \in {"dropwait", "dropdone"} <=> cpc[d] \in {"dropwait", "dropdone"}
      /\ cpc'[d] \in {"boardwait", "boarded"} <=> cpc[d] \in {"boardwait", "boarded"}
  BY DEF Woke, NextPassenger
<1> QED
  BY <1>1 DEF Awaited

(* Nobody changes his place. *)
LEMMA PlacesStay ==
  ASSUME OnePlaceEach, UNCHANGED <<passengerQueue, passengerState>>,
         \A d \in Carriage : Kept(d)' = Kept(d)
  PROVE  OnePlaceEach'
BY DEF OnePlaceEach

(* Nobody gets in or out. *)
LEMMA InsideStays ==
  ASSUME InsideInv, UNCHANGED inside,
         \A d \in Carriage : Seated(d)' \ Awaited(d)' = Seated(d) \ Awaited(d),
         \A p \in Passenger : SameSide(p)
  PROVE  InsideInv'
<1>1. \A d \in Carriage : Inside(d)' = Inside(d)
  BY DEF Inside
<1> QED
  BY <1>1 DEF InsideInv, SameSide, Outside

(* A step of a carriage that neither takes in nor lets out anybody. *)
LEMMA Quiet ==
  ASSUME SeatsInv, TypeOK', RoundInv', NEW c \in Carriage, NEW there, Only(c, there),
         UNCHANGED <<queueVars, waitForEntry, waitForRelease, passengers, dropped, inside>>,
         cpc[c] \notin {"dropwait", "dropdone", "boardwait"}, cpc[c] = "boarded" => ~waitForEntry,
         there \notin {"dropwait", "dropdone", "boardwait", "boarded"}, Seating(c)',
         \A p \in Passenger : SameSide(p)
  PROVE  SeatsInv'
<1>1. /\ UNCHANGED <<passengerQueue, passengerState, carriageSeatsState>>
      /\ passengers' = passengers /\ dropped' = dropped /\ cpc'[c] = there
  BY DEF queueVars, Only
<1>2. /\ Told(c)' = Told(c) /\ Awaited(c)' = {} /\ Awaited(c) = {} /\ Seated(c)' = Seated(c)
      /\ Kept(c)' = Kept(c)
  BY <1>1 DEF Told, Awaited, Seated, Kept
<1>3. ASSUME NEW d \in Carriage, d # c
      PROVE  /\ Awaited(d)' = Awaited(d) /\ Seated(d)' = Seated(d) /\ Kept(d)' = Kept(d)
             /\ Seating(d)'
  <2>1. Woke(d) /\ Seating(d)
    BY <1>3 DEF Only, SeatsInv
  <2> QED
    BY <1>1, <2>1, WokenStays, WokenAwaits
<1>4. \A d \in Carriage : Seating(d)'
  BY <1>3
<1>5. NoRepeats(passengerQueue)'
  BY <1>1 DEF SeatsInv
<1>6. OnePlaceEach'
  BY <1>1, <1>2, <1>3, PlacesStay DEF SeatsInv
<1>7. InsideInv'
  BY <1>1, <1>2, <1>3, InsideStays DEF SeatsInv
<1> QED
  BY <1>4, <1>5, <1>6, <1>7 DEF SeatsInv

(* A step of a passenger who neither gets in nor out. *)
LEMMA QuietPassenger ==
  ASSUME SeatsInv, TypeOK', RoundInv', \A d \in Carriage : Woke(d),
         UNCHANGED <<queueVars, waitForEntry, waitForRelease, passengers, dropped, inside>>,
         \A p \in Passenger : SameSide(p)
  PROVE  SeatsInv'
<1>1. /\ UNCHANGED <<passengerQueue, passengerState, carriageSeatsState>>
      /\ passengers' = passengers /\ dropped' = dropped
  BY DEF queueVars
<1>2. ASSUME NEW d \in Carriage
      PROVE  /\ Awaited(d)' = Awaited(d) /\ Seated(d)' = Seated(d) /\ Kept(d)' = Kept(d)
             /\ Seating(d)'
  BY <1>1, WokenStays, WokenAwaits DEF SeatsInv
<1>3. NoRepeats(passengerQueue)'
  BY <1>1 DEF SeatsInv
<1>4. OnePlaceEach'
  BY <1>1, <1>2, PlacesStay DEF SeatsInv
<1>5. InsideInv'
  BY <1>1, <1>2, InsideStays DEF SeatsInv
<1> QED
  BY <1>2, <1>3, <1>4, <1>5 DEF SeatsInv

(* When a carriage asks for a passenger there are fewer in the carriages   *)
(* than seats, and so than passengers: somebody stands in the queue.       *)
LEMMA SomebodyWaits ==
  ASSUME SeatsInv, NEW a \in Carriage, cpc[a] = "board"
  PROVE  passengerQueue # <<>>
<1> SUFFICES ASSUME passengerQueue = <<>> PROVE FALSE
  OBVIOUS
<1> DEFINE seats == Carriage \X (1 .. carriageCapacity)
           T == seats \ {<<a, carriageCapacity>>}
<1>1. /\ IsFiniteSet(seats) /\ Cardinality(seats) = carriageCount * carriageCapacity
      /\ IsFiniteSet(Passenger) /\ Cardinality(Passenger) = passengerCount
  <2>1. IsFiniteSet(Carriage) /\ Cardinality(Carriage) = carriageCount
    BY FS_Interval
  <2>2. IsFiniteSet(1 .. carriageCapacity) /\ Cardinality(1 .. carriageCapacity) = carriageCapacity
    BY FS_Interval
  <2>3. IsFiniteSet(Passenger) /\ Cardinality(Passenger) = passengerCount
    BY FS_Interval
  <2> QED
    BY <2>1, <2>2, <2>3, FS_Product, ZenonT(40)
<1>2. IsFiniteSet(T) /\ Cardinality(T) = carriageCount * carriageCapacity - 1
  <2>1. <<a, carriageCapacity>> \in seats
    OBVIOUS
  <2> HIDE DEF seats
  <2> QED
    BY <1>1, <2>1, FS_RemoveElement
<1>3. ASSUME NEW p \in Passenger PROVE \E s \in T : p = passengers[s[1]][s[2]]
  <2>1. p \notin Range(passengerQueue)
    BY DEF Range
  <2>2. PICK c \in Carriage : p \in Kept(c)
    BY <2>1 DEF SeatsInv, OnePlaceEach, TypeOK
  <2>3. Seating(c) /\ TypeOK
    BY DEF SeatsInv
  <2>4. PICK i \in dropped[c] + 1 .. Len(passengers[c]) : p = passengers[c][i]
    BY <2>2 DEF Kept, Seated
  <2>5. /\ i \in 1 .. carriageCapacity
        /\ c = a => i < carriageCapacity
    <3>1. Len(passengers[c]) <= carriageCapacity /\ dropped[c] \in Nat /\ Len(passengers[c]) \in Nat
      BY <2>3, KeptFacts DEF Seating
    <3>2. c = a => Len(passengers[c]) < carriageCapacity
      BY <2>3 DEF Seating
    <3> QED
      BY <2>4, <3>1, <3>2
  <2>6. <<c, i>> \in T
    BY <2>5
  <2> QED
    BY <2>4, <2>6
<1>4. PICK f \in [Passenger -> T] : \A p \in Passenger : p = passengers[f[p][1]][f[p][2]]
  <2> DEFINE f == [p \in Passenger |-> CHOOSE s \in T : p = passengers[s[1]][s[2]]]
  <2> HIDE DEF T
  <2>1. f \in [Passenger -> T] /\ \A p \in Passenger : p = passengers[f[p][1]][f[p][2]]
    BY <1>3
  <2> QED
    BY <2>1
<1>5. f \in Injection(Passenger, T)
  BY <1>4, ZenonT(40) DEF Injection, IsInjective
<1> HIDE DEF T
<1>6. passengerCount <= carriageCount * carriageCapacity - 1
  BY <1>1, <1>2, <1>5, FS_Injection
<1>7. carriageCount * carriageCapacity \in Nat
  OBVIOUS
<1> QED
  BY <1>6, <1>7

-----------------------------------------------------------------------------
(* Getting in and out. *)

(* A passenger who is told to get in is the one the carriage at the        *)
(* platform waits for.                                                     *)
LEMMA WhoEnters ==
  ASSUME SeatsInv, NEW p \in Passenger, inside[p] = Nobody, passengerState[p] = "IN_CARRIAGE"
  PROVE  LET c == actualCarriageID
         IN  c \in Carriage /\ cpc[c] \in {"boardwait", "boarded"} /\ waitForEntry
             /\ p \in Seated(c) /\ Awaited(c) = {p}
<1>1. PICK c \in Carriage : p \in Kept(c)
  BY DEF SeatsInv, OnePlaceEach
<1>2. p \in Seated(c) /\ p \notin Inside(c)
  BY <1>1 DEF Kept, SeatsInv, InsideInv, Inside
<1>3. p \in Awaited(c)
  BY <1>2 DEF SeatsInv, InsideInv
<1>4. ~(cpc[c] \in {"dropwait", "dropdone"} /\ ~waitForRelease)
  BY <1>1, <1>3 DEF Awaited, Kept
<1>5. cpc[c] \in {"boardwait", "boarded"} /\ waitForEntry /\ Awaited(c) = {p}
  BY <1>3, <1>4 DEF Awaited
<1>6. actualCarriageID = c
  BY <1>5 DEF SeatsInv, RoundInv, AtPlatform
<1> QED
  BY <1>2, <1>5, <1>6

LEMMA EnterKeeps ==
  ASSUME SeatsInv, TypeOK', RoundInv', NEW p \in Passenger, EnterCarriage(p)
  PROVE  SeatsInv'
<1>1. /\ UNCHANGED <<passengerQueue, passengerState, carriageSeatsState, passengers, dropped>>
      /\ PassengerWakes(p, "button", "boardwait") /\ waitForEntry' = FALSE
      /\ waitForRelease' = waitForRelease
      /\ inside' = [inside EXCEPT ![p] = actualCarriageID]
      /\ ppc[p] = "entry" /\ passengerState[p] = "IN_CARRIAGE"
  BY DEF EnterCarriage, queueVars, carriageVars
<1>2. \A d \in Carriage : Woke(d)
  BY <1>1, PassengerWakesCarriages DEF SeatsInv
<1>3. PICK c \in Carriage :
        /\ c = actualCarriageID /\ cpc[c] \in {"boardwait", "boarded"} /\ waitForEntry
        /\ p \in Seated(c) /\ Awaited(c) = {p}
  BY <1>1, WhoEnters DEF SeatsInv, InsideInv
<1>4. ASSUME NEW d \in Carriage
      PROVE  Seated(d)' = Seated(d) /\ Kept(d)' = Kept(d) /\ Seating(d)'
  BY <1>1, <1>2, WokenStays DEF SeatsInv
<1>5. ASSUME NEW d \in Carriage, d # c PROVE Awaited(d)' = {} /\ Awaited(d) = {}
  <2>1. ~AtPlatform(d) /\ ~AtPlatform(d)'
    BY <1>1, <1>2, <1>5, <1>3, WokenStays DEF SeatsInv, RoundInv
  <2> QED
    BY <2>1, NobodyAwaited DEF AtPlatform, Awaited
<1>6. Awaited(c)' = {}
  <2>1. cpc'[c] \in {"boardwait", "boarded"}
    BY <1>2, <1>3 DEF Woke
  <2> QED
    BY <1>1, <2>1 DEF Awaited
<1>7. InsideInv'
  <2>0. inside \in [Passenger -> Carriage \cup {Nobody}] /\ inside[p] = Nobody
    BY <1>1 DEF SeatsInv, TypeOK, InsideInv
  <2>1. Inside(c)' = Inside(c) \cup {p}
    BY <1>1, <1>3, <2>0 DEF Inside
  <2>2. ASSUME NEW d \in Carriage, d # c PROVE Inside(d)' = Inside(d)
    BY <1>1, <1>3, <2>0, <2>2 DEF Inside
  <2>3. ASSUME NEW d \in Carriage PROVE Inside(d)' = Seated(d)' \ Awaited(d)'
    BY <1>3, <1>4, <1>5, <1>6, <2>1, <2>2 DEF SeatsInv, InsideInv
  <2>4. ASSUME NEW q \in Passenger
        PROVE  inside'[q] = Nobody <=> ppc'[q] \in Outside
    <3>1. CASE q = p
      <4>1. ppc'[q] = "button"
        BY <1>1, <3>1 DEF PassengerWakes, PassengerGoto, SeatsInv, TypeOK
      <4>2. inside'[q] = c
        BY <1>1, <1>3, <2>0, <3>1
      <4> QED
        BY <1>3, <4>1, <4>2 DEF Outside
    <3>2. CASE q # p
      <4>1. ppc'[q] = ppc[q] /\ inside'[q] = inside[q]
        BY <1>1, <2>0, <3>2 DEF PassengerWakes, PassengerGoto, SeatsInv, TypeOK
      <4> QED
        BY <4>1 DEF Outside, SeatsInv, InsideInv
    <3> QED
      BY <3>1, <3>2
  <2> QED
    BY <2>3, <2>4 DEF InsideInv, Outside
<1>8. OnePlaceEach'
  BY <1>1, <1>4, PlacesStay DEF SeatsInv
<1> QED
  BY <1>1, <1>4, <1>7, <1>8 DEF SeatsInv

(* A passenger who is told to get out is the one the carriage at the       *)
(* platform waits for.                                                     *)
LEMMA WhoLeaves ==
  ASSUME SeatsInv, NEW p \in Passenger, ppc[p] = "out", passengerState[p] = "WAIT"
  PROVE  LET c == actualCarriageID
         IN  c \in Carriage /\ cpc[c] \in {"dropwait", "dropdone"} /\ waitForRelease
             /\ p = NextPassenger(c) /\ inside[p] = c
<1> DEFINE c == inside[p]
<1>1. c \in Carriage
  BY DEF SeatsInv, InsideInv, TypeOK
<1> HIDE DEF c
<1>2. p \in Inside(c)
  BY DEF Inside, c
<1>3. p \in Seated(c) /\ p \notin Awaited(c)
  BY <1>1, <1>2 DEF SeatsInv, InsideInv
<1>4. p \notin Kept(c)
  BY <1>1 DEF SeatsInv, OnePlaceEach
<1>5. cpc[c] \in {"dropwait", "dropdone"} /\ p = NextPassenger(c)
  BY <1>3, <1>4 DEF Kept
<1>6. waitForRelease
  BY <1>3, <1>5 DEF Awaited, SeatsInv, TypeOK
<1>7. actualCarriageID = c
  BY <1>1, <1>5 DEF SeatsInv, RoundInv, AtPlatform
<1> QED
  BY <1>1, <1>5, <1>6, <1>7 DEF c

LEMMA LeaveKeeps ==
  ASSUME SeatsInv, TypeOK', RoundInv', NEW p \in Passenger, LeaveCarriage(p)
  PROVE  SeatsInv'
<1>1. /\ UNCHANGED <<passengerQueue, passengerState, carriageSeatsState, passengers, dropped>>
      /\ PassengerWakes(p, "loop", "dropwait") /\ waitForRelease' = FALSE
      /\ waitForEntry' = waitForEntry
      /\ inside' = [inside EXCEPT ![p] = Nobody]
      /\ ppc[p] = "out" /\ passengerState[p] = "WAIT"
  BY DEF LeaveCarriage, queueVars, carriageVars
<1>2. \A d \in Carriage : Woke(d)
  BY <1>1, PassengerWakesCarriages DEF SeatsInv
<1>3. PICK c \in Carriage :
        /\ c = actualCarriageID /\ cpc[c] \in {"dropwait", "dropdone"} /\ waitForRelease
        /\ p = NextPassenger(c) /\ inside[p] = c
  BY <1>1, WhoLeaves
<1>4. ASSUME NEW d \in Carriage
      PROVE  /\ Seated(d)' = Seated(d) /\ Kept(d)' = Kept(d) /\ Seating(d)'
             /\ NextPassenger(d)' = NextPassenger(d)
  BY <1>1, <1>2, WokenStays DEF SeatsInv
<1>5. ASSUME NEW d \in Carriage, d # c PROVE Awaited(d)' = {} /\ Awaited(d) = {}
  <2>1. ~AtPlatform(d) /\ ~AtPlatform(d)'
    BY <1>1, <1>2, <1>5, <1>3, WokenStays DEF SeatsInv, RoundInv
  <2> QED
    BY <2>1, NobodyAwaited DEF AtPlatform, Awaited
<1>6. Awaited(c) = {} /\ Awaited(c)' = {p}
  <2>1. cpc'[c] \in {"dropwait", "dropdone"}
    BY <1>2, <1>3 DEF Woke
  <2>2. Awaited(c)' = {NextPassenger(c)'}
    BY <1>1, <2>1 DEF Awaited
  <2> QED
    BY <1>3, <1>4, <2>2 DEF Awaited
<1>7. InsideInv'
  <2>0. inside \in [Passenger -> Carriage \cup {Nobody}]
    BY DEF SeatsInv, TypeOK
  <2>1. Inside(c)' = Inside(c) \ {p}
    BY <1>1, <1>3, <2>0 DEF Inside
  <2>2. ASSUME NEW d \in Carriage, d # c PROVE Inside(d)' = Inside(d)
    BY <1>1, <1>3, <2>0, <2>2 DEF Inside
  <2>3. ASSUME NEW d \in Carriage PROVE Inside(d)' = Seated(d)' \ Awaited(d)'
    BY <1>3, <1>4, <1>5, <1>6, <2>1, <2>2 DEF SeatsInv, InsideInv
  <2>4. ASSUME NEW q \in Passenger
        PROVE  inside'[q] = Nobody <=> ppc'[q] \in Outside
    <3>1. CASE q = p
      <4>1. ppc'[q] = "loop" /\ inside'[q] = Nobody
        BY <1>1, <2>0, <3>1 DEF PassengerWakes, PassengerGoto, SeatsInv, TypeOK
      <4> QED
        BY <4>1 DEF Outside
    <3>2. CASE q # p
      <4>1. ppc'[q] = ppc[q] /\ inside'[q] = inside[q]
        BY <1>1, <2>0, <3>2 DEF PassengerWakes, PassengerGoto, SeatsInv, TypeOK
      <4> QED
        BY <4>1 DEF Outside, SeatsInv, InsideInv
    <3> QED
      BY <3>1, <3>2
  <2> QED
    BY <2>3, <2>4 DEF InsideInv, Outside
<1>8. OnePlaceEach'
  BY <1>1, <1>4, PlacesStay DEF SeatsInv
<1> QED
  BY <1>1, <1>4, <1>7, <1>8 DEF SeatsInv

(* What setPassengerState does to the passengers' threads. *)
LEMMA StateWakes ==
  ASSUME TypeOK, NEW q, NEW state, setPassengerState(q, state)
  PROVE  \A p \in Passenger : SameSide(p)
<1>1. ppc \in [Passenger -> {"loop", "entry", "entrysleepy", "entrywait", "button",
                             "buttonwait", "out", "outwait", "done"}]
  BY DEF TypeOK
<1>2. Woken("entrywait") = "entry" /\ Woken("outwait") = "out"
  BY DEF Woken
<1>3. ASSUME NEW p \in Passenger
      PROVE  ppc'[p] = IF p = q /\ ppc[p] \in {"entrywait", "outwait"} THEN Woken(ppc[p])
                       ELSE ppc[p]
  BY <1>1 DEF setPassengerState, WakePassenger
<1> QED
  BY <1>2, <1>3 DEF SameSide, Outside

(* The first of the queue, h, is told to get in. *)
Boards(c, h) ==
  /\ passengerQueue # <<>> /\ passengerQueue' = Tail(passengerQueue)
  /\ h \in Passenger /\ h \in Range(passengerQueue) /\ NoRepeats(passengerQueue')
  /\ Range(passengerQueue') = Range(passengerQueue) \ {h}
  /\ passengerState' = [passengerState EXCEPT ![h] = "IN_CARRIAGE"]
  /\ inside' = inside /\ \A p \in Passenger : SameSide(p)
  /\ c = actualCarriageID /\ cpc[c] = "board" /\ cpc'[c] = "boardwait"
  /\ Only(c, "boardwait")
  /\ passengers[c] \in Seq(Passenger) /\ dropped[c] = 0 /\ Told(c) = 0
  /\ Len(passengers[c]) \in Nat /\ Len(passengers[c]) < carriageCapacity
  /\ passengers'[c] = Append(passengers[c], h)
  /\ Len(passengers'[c]) = Len(passengers[c]) + 1
  /\ passengers'[c][Len(passengers[c]) + 1] = h /\ NoRepeats(passengers'[c])
  /\ dropped'[c] = 0 /\ Told(c)' = 0
  /\ carriageSeatsState'[c] = carriageSeatsState[c] + 1
  /\ Seated(c) = Kept(c) /\ Awaited(c) = {}
  /\ Seated(c)' = Kept(c) \cup {h} /\ Kept(c)' = Kept(c) \cup {h}
  /\ Awaited(c)' = {h} /\ \A d \in Carriage : h \notin Kept(d)
  /\ \A d \in Carriage : d # c =>
       /\ Awaited(d)' = {} /\ Awaited(d) = {} /\ Seated(d)' = Seated(d)
       /\ Kept(d)' = Kept(d) /\ Seating(d)' /\ ~AtPlatform(d)
       /\ passengers'[d] = passengers[d] /\ dropped'[d] = dropped[d]
       /\ Told(d)' = Told(d)

LEMMA BoardFacts ==
  ASSUME SeatsInv, NEW c \in Carriage, BoardPassenger(c)
  PROVE  Boards(c, Head(passengerQueue))
<1> DEFINE h == Head(passengerQueue)
<1>1. /\ passengerQueue' = Tail(passengerQueue)
      /\ passengers' = [passengers EXCEPT ![c] = Append(@, h)]
      /\ carriageSeatsState' = [carriageSeatsState EXCEPT ![actualCarriageID] = @ + 1]
      /\ passengerState' = [passengerState EXCEPT ![h] = "IN_CARRIAGE"]
      /\ waitForEntry' = TRUE /\ waitForRelease' = waitForRelease
      /\ dropped' = dropped /\ inside' = inside
      /\ cpc[c] = "board" /\ CarriageGoto(c, "boardwait")
      /\ \A p \in Passenger : SameSide(p)
  BY StateWakes DEF BoardPassenger, getPassengerFromQueue, setPassengerState, seen, SeatsInv
<1>2. /\ TypeOK /\ Seating(c) /\ actualCarriageID = c
      /\ NoRepeats(passengerQueue) /\ OnePlaceEach /\ InsideInv
  BY <1>1 DEF SeatsInv, RoundInv, AtPlatform
<1>3. /\ passengerQueue # <<>>
      /\ h \in Passenger /\ h \in Range(passengerQueue) /\ NoRepeats(passengerQueue')
      /\ Range(passengerQueue') = Range(passengerQueue) \ {h}
  <2>1. passengerQueue # <<>> /\ passengerQueue \in Seq(Passenger)
    BY <1>1, <1>2, SomebodyWaits DEF TypeOK
  <2> QED
    BY <1>1, <1>2, <2>1, TailFacts
<1> HIDE DEF h
<1>4. Only(c, "boardwait")
  BY <1>1, <1>2, CarriageMoves
<1>5. /\ passengers[c] \in Seq(Passenger) /\ dropped[c] = 0 /\ Told(c) = 0
      /\ Len(passengers[c]) \in Nat /\ Len(passengers[c]) < carriageCapacity
      /\ Kept(c) = Slice(passengers[c], 0) /\ Seated(c) = Kept(c) /\ Awaited(c) = {}
  <2>1. dropped[c] = 0 /\ Told(c) = 0 /\ Len(passengers[c]) < carriageCapacity
    BY <1>1, <1>2 DEF Seating, Told, Dropping
  <2>2. Seated(c) = Kept(c) /\ Awaited(c) = {}
    BY <1>1 DEF Kept, Awaited
  <2> QED
    BY <1>2, <2>1, <2>2, KeptFacts
<1>6. /\ passengers'[c] = Append(passengers[c], h) /\ dropped'[c] = 0
      /\ Told(c)' = 0 /\ cpc'[c] = "boardwait"
      /\ \A d \in Carriage : d # c => /\ passengers'[d] = passengers[d]
                                      /\ carriageSeatsState'[d] = carriageSeatsState[d]
      /\ carriageSeatsState'[c] = carriageSeatsState[c] + 1
  <2>1. /\ passengers'[c] = Append(passengers[c], h) /\ dropped'[c] = 0
        /\ \A d \in Carriage : d # c => passengers'[d] = passengers[d]
    BY <1>1, <1>2, <1>5 DEF TypeOK
  <2>2. /\ \A d \in Carriage : d # c => carriageSeatsState'[d] = carriageSeatsState[d]
        /\ carriageSeatsState'[c] = carriageSeatsState[c] + 1
    BY <1>1, <1>2 DEF TypeOK
  <2>3. cpc'[c] = "boardwait"
    BY <1>4 DEF Only
  <2> QED
    BY <2>1, <2>2, <2>3 DEF Told
<1>7. h \notin Kept(c) /\ passengerState[h] = "WAIT" /\ \A d \in Carriage : h \notin Kept(d)
  BY <1>2, <1>3 DEF OnePlaceEach
<1>8. /\ Len(Append(passengers[c], h)) = Len(passengers[c]) + 1
      /\ Append(passengers[c], h)[Len(passengers[c]) + 1] = h
      /\ Slice(Append(passengers[c], h), 0) = Kept(c) \cup {h}
      /\ NoRepeats(Append(passengers[c], h))
  <2>1. Slice(Append(passengers[c], h), 0) = Kept(c) \cup {h}
    <3>1. 0 \in 0 .. Len(passengers[c])
      BY <1>5
    <3> QED
      BY <1>3, <1>5, <3>1, SliceAppend
  <2>2. h \notin Range(passengers[c])
    BY <1>5, <1>7 DEF Slice, Range
  <2> QED
    BY <1>2, <1>3, <1>5, <2>1, <2>2, AppendFacts DEF Seating
<1>9. Seated(c)' = Kept(c) \cup {h} /\ Kept(c)' = Kept(c) \cup {h} /\ Awaited(c)' = {h}
  <2>1. Seated(c)' = Kept(c) \cup {h}
    BY <1>6, <1>8 DEF Seated, Slice
  <2>2. Kept(c)' = Seated(c)'
    BY <1>6 DEF Kept
  <2>3. Awaited(c)' = {h}
    BY <1>1, <1>6, <1>8 DEF Awaited
  <2> QED
    BY <2>1, <2>2, <2>3
<1>10. ASSUME NEW d \in Carriage, d # c
       PROVE  /\ Awaited(d)' = {} /\ Awaited(d) = {} /\ Seated(d)' = Seated(d)
              /\ Kept(d)' = Kept(d) /\ Seating(d)' /\ ~AtPlatform(d) /\ Told(d)' = Told(d)
              /\ dropped'[d] = dropped[d]
  <2>1. Woke(d) /\ Seating(d) /\ dropped'[d] = dropped[d]
    BY <1>1, <1>4, <1>10 DEF Only, SeatsInv
  <2>2. /\ Seated(d)' = Seated(d) /\ Kept(d)' = Kept(d) /\ Seating(d)'
        /\ AtPlatform(d)' <=> AtPlatform(d)
        /\ Told(d)' = Told(d)
    BY <1>6, <1>10, <2>1, WokenStays
  <2>3. ~AtPlatform(d)
    BY <1>2, <1>10 DEF SeatsInv, RoundInv
  <2> QED
    BY <2>1, <2>2, <2>3, NobodyAwaited DEF AtPlatform, Awaited
<1> QED
  BY <1>1, <1>2, <1>3, <1>4, <1>5, <1>6, <1>7, <1>8, <1>9, <1>10 DEF Boards, h

LEMMA BoardKeeps ==
  ASSUME SeatsInv, TypeOK', RoundInv', NEW c \in Carriage, BoardPassenger(c)
  PROVE  SeatsInv'
<1> DEFINE h == Head(passengerQueue)
<1>1. TypeOK /\ Seating(c) /\ OnePlaceEach /\ InsideInv
  BY DEF SeatsInv
<1>2. Boards(c, h)
  BY BoardFacts
<1> HIDE DEF h
<1>3. Seating(c)'
  <2>1. /\ NoRepeats(passengers'[c]) /\ Len(passengers'[c]) <= carriageCapacity
        /\ Len(passengers'[c]) > 0
    BY <1>2 DEF Boards
  <2>2. carriageSeatsState'[c] = Len(passengers'[c]) - dropped'[c] - Told(c)'
    <3>1. carriageSeatsState[c] = Len(passengers[c])
      BY <1>1, <1>2 DEF Boards, Seating
    <3> QED
      BY <1>2, <3>1 DEF Boards
  <2>3. cpc'[c] = "boardwait" /\ dropped'[c] = 0
    BY <1>2 DEF Boards
  <2> QED
    BY <2>1, <2>2, <2>3 DEF Seating, Over, NoRepeats, Dropping
<1>4. OnePlaceEach'
  <2>1. ASSUME NEW p \in Passenger
        PROVE  /\ passengerState'[p] = "WAIT" <=> p \in Range(passengerQueue')
               /\ passengerState'[p] = "IN_CARRIAGE" <=> \E d \in Carriage : p \in Kept(d)'
    <3>1. CASE p = h
      <4>1. passengerState'[p] = "IN_CARRIAGE"
        BY <1>1, <1>2, <3>1 DEF Boards, TypeOK
      <4> QED
        BY <1>2, <3>1, <4>1 DEF Boards
    <3>2. CASE p # h
      <4>1. passengerState'[p] = passengerState[p]
        BY <1>1, <1>2, <3>2 DEF Boards, TypeOK
      <4>2. \A d \in Carriage : p \in Kept(d)' <=> p \in Kept(d)
        BY <1>2, <3>2 DEF Boards
      <4>3. p \in Range(passengerQueue') <=> p \in Range(passengerQueue)
        BY <1>2, <3>2 DEF Boards
      <4> QED
        BY <1>1, <4>1, <4>2, <4>3 DEF OnePlaceEach
    <3> QED
      BY <3>1, <3>2
  <2>2. ASSUME NEW d \in Carriage, NEW e \in Carriage, d # e PROVE Kept(d)' \cap Kept(e)' = {}
    <3>1. Kept(d) \cap Kept(e) = {}
      BY <1>1, <2>2 DEF OnePlaceEach
    <3> QED
      BY <1>2, <2>2, <3>1, SMTT(30) DEF Boards
  <2> QED
    BY <2>1, <2>2 DEF OnePlaceEach
<1>5. InsideInv'
  <2>1. ASSUME NEW d \in Carriage PROVE Seated(d)' \ Awaited(d)' = Seated(d) \ Awaited(d)
    <3>1. CASE d = c
      BY <1>2, <3>1 DEF Boards
    <3>2. CASE d # c
      BY <1>2, <3>2 DEF Boards
    <3> QED
      BY <3>1, <3>2
  <2>2. inside' = inside /\ \A p \in Passenger : SameSide(p)
    BY <1>2 DEF Boards
  <2> QED
    BY <1>1, <2>1, <2>2, InsideStays
<1>6. \A d \in Carriage : Seating(d)'
  BY <1>2, <1>3 DEF Boards
<1>7. NoRepeats(passengerQueue')
  BY <1>2 DEF Boards
<1> QED
  BY <1>4, <1>5, <1>6, <1>7 DEF SeatsInv

(* Passenger n is told to get out. *)
Drops(c, n) ==
  /\ passengerQueue' = Append(passengerQueue, n)
  /\ n \in Passenger /\ n \notin Range(passengerQueue) /\ NoRepeats(passengerQueue')
  /\ Range(passengerQueue') = Range(passengerQueue) \cup {n}
  /\ passengerState' = [passengerState EXCEPT ![n] = "WAIT"]
  /\ inside' = inside /\ inside[n] = c /\ \A p \in Passenger : SameSide(p)
  /\ c = actualCarriageID /\ cpc[c] = "drop" /\ cpc'[c] = "dropwait"
  /\ Only(c, "dropwait")
  /\ passengers' = passengers /\ dropped' = dropped
  /\ NoRepeats(passengers[c]) /\ dropped[c] \in 0 .. Len(passengers[c])
  /\ Told(c) = 0 /\ Told(c)' = 1 /\ n = passengers[c][dropped[c] + 1]
  /\ carriageSeatsState'[c] = carriageSeatsState[c] - 1
  /\ Seated(c) = Kept(c) /\ Awaited(c) = {} /\ n \in Kept(c)
  /\ Seated(c)' = Seated(c) /\ Kept(c)' = Kept(c) \ {n} /\ Awaited(c)' = {}
  /\ \A d \in Carriage : d # c =>
       /\ n \notin Kept(d)
       /\ Awaited(d)' = {} /\ Awaited(d) = {} /\ Seated(d)' = Seated(d)
       /\ Kept(d)' = Kept(d) /\ Seating(d)' /\ Told(d)' = Told(d)

LEMMA DropFacts ==
  ASSUME SeatsInv, NEW c \in Carriage, DropPassenger(c)
  PROVE  Drops(c, NextPassenger(c))
<1> DEFINE n == NextPassenger(c)
<1>1. /\ passengerQueue' = Append(passengerQueue, n)
      /\ carriageSeatsState' = [carriageSeatsState EXCEPT ![actualCarriageID] = @ - 1]
      /\ passengerState' = [passengerState EXCEPT ![n] = "WAIT"]
      /\ waitForRelease' = TRUE /\ waitForEntry' = waitForEntry
      /\ passengers' = passengers /\ dropped' = dropped /\ inside' = inside
      /\ cpc[c] = "drop" /\ CarriageGoto(c, "dropwait")
      /\ \A p \in Passenger : SameSide(p)
  BY StateWakes DEF DropPassenger, addPassengerToQueue, setPassengerState, seen, carriageVars,
     SeatsInv
<1>2. /\ TypeOK /\ Seating(c) /\ actualCarriageID = c
      /\ NoRepeats(passengerQueue) /\ OnePlaceEach /\ InsideInv
  BY <1>1 DEF SeatsInv, RoundInv, AtPlatform
<1>3. Only(c, "dropwait") /\ cpc'[c] = "dropwait"
  BY <1>1, <1>2, CarriageMoves DEF Only
<1>4. /\ passengers[c] \in Seq(Passenger) /\ NoRepeats(passengers[c]) /\ Told(c) = 0
      /\ dropped[c] \in 0 .. Len(passengers[c]) /\ dropped[c] < Len(passengers[c])
      /\ Seated(c) = Slice(passengers[c], dropped[c]) /\ Seated(c) = Kept(c) /\ Awaited(c) = {}
  <2>1. Told(c) = 0 /\ Len(passengers[c]) = carriageCapacity
    BY <1>1, <1>2 DEF Seating, Told, Dropping
  <2>2. Seated(c) = Kept(c) /\ Awaited(c) = {}
    BY <1>1 DEF Kept, Awaited
  <2>3. /\ passengers[c] \in Seq(Passenger) /\ NoRepeats(passengers[c])
        /\ dropped[c] \in 0 .. carriageCapacity - 1
        /\ Seated(c) = Slice(passengers[c], dropped[c])
    BY <1>2, KeptFacts
  <2>4. dropped[c] \in 0 .. Len(passengers[c]) /\ dropped[c] < Len(passengers[c])
    BY <2>1, <2>3
  <2> QED
    BY <2>1, <2>2, <2>3, <2>4
<1>5. n \in Passenger /\ n \in Kept(c)
  <2>1. n = passengers[c][dropped[c] + 1]
    BY DEF NextPassenger
  <2>2. \A s \in Seq(Passenger) : \A k \in 0 .. Len(s) :
          NoRepeats(s) /\ k < Len(s) => s[k + 1] \in Passenger /\ s[k + 1] \in Slice(s, k)
    BY SliceFacts
  <2> HIDE DEF n
  <2> QED
    BY <1>4, <2>1, <2>2
<1>12. n = passengers[c][dropped[c] + 1]
  BY DEF NextPassenger
<1> HIDE DEF n
<1>6. /\ passengerState[n] = "IN_CARRIAGE" /\ n \notin Range(passengerQueue)
      /\ \A d \in Carriage : d # c => n \notin Kept(d)
  BY <1>2, <1>5 DEF OnePlaceEach
<1>7. /\ Range(passengerQueue') = Range(passengerQueue) \cup {n}
      /\ NoRepeats(passengerQueue')
  <2>1. passengerQueue \in Seq(Passenger)
    BY <1>2 DEF TypeOK
  <2> QED
    BY <1>1, <1>2, <1>5, <1>6, <2>1, AppendFacts
<1>8. Seated(c)' = Seated(c) /\ Kept(c)' = Kept(c) \ {n} /\ Awaited(c)' = {} /\ Told(c)' = 1
  <2>1. Seated(c)' = Seated(c) /\ NextPassenger(c)' = n
    BY <1>1 DEF Seated, NextPassenger, n
  <2> QED
    BY <1>1, <1>3, <1>4, <2>1 DEF Kept, Awaited, Told
<1>9. /\ \A d \in Carriage : d # c => carriageSeatsState'[d] = carriageSeatsState[d]
      /\ carriageSeatsState'[c] = carriageSeatsState[c] - 1
  BY <1>1, <1>2 DEF TypeOK
<1>10. ASSUME NEW d \in Carriage, d # c
       PROVE  /\ Awaited(d)' = {} /\ Awaited(d) = {} /\ Seated(d)' = Seated(d)
              /\ Kept(d)' = Kept(d) /\ Seating(d)' /\ Told(d)' = Told(d)
  <2>1. Woke(d) /\ Seating(d) /\ dropped'[d] = dropped[d] /\ passengers'[d] = passengers[d]
    BY <1>1, <1>3, <1>10 DEF Only, SeatsInv
  <2>2. /\ Seated(d)' = Seated(d) /\ Kept(d)' = Kept(d) /\ Seating(d)'
        /\ AtPlatform(d)' <=> AtPlatform(d)
        /\ Told(d)' = Told(d)
    BY <1>9, <1>10, <2>1, WokenStays
  <2>3. ~AtPlatform(d)
    BY <1>2, <1>10 DEF SeatsInv, RoundInv
  <2> QED
    BY <2>2, <2>3, NobodyAwaited DEF AtPlatform, Awaited
<1>11. inside[n] = c
  BY <1>2, <1>4, <1>5 DEF InsideInv, Inside
<1> QED
  BY <1>1, <1>2, <1>3, <1>4, <1>5, <1>6, <1>7, <1>8, <1>9, <1>10, <1>11, <1>12 DEF Drops, n

LEMMA DropKeeps ==
  ASSUME SeatsInv, TypeOK', RoundInv', NEW c \in Carriage, DropPassenger(c)
  PROVE  SeatsInv'
<1> DEFINE n == NextPassenger(c)
<1>1. TypeOK /\ Seating(c) /\ OnePlaceEach /\ InsideInv
  BY DEF SeatsInv
<1>2. Drops(c, n)
  BY DropFacts
<1> HIDE DEF n
<1>3. Seating(c)'
  <2>1. /\ passengers'[c] = passengers[c] /\ cpc'[c] = "dropwait" /\ cpc[c] = "drop"
        /\ Told(c) = 0 /\ Told(c)' = 1 /\ dropped'[c] = dropped[c]
        /\ carriageSeatsState'[c] = carriageSeatsState[c] - 1
    BY <1>2 DEF Drops
  <2>2. /\ NoRepeats(passengers[c]) /\ Len(passengers[c]) = carriageCapacity
        /\ carriageSeatsState[c] = Len(passengers[c]) - dropped[c]
        /\ dropped[c] \in 0 .. carriageCapacity - 1
    BY <1>1, <2>1, KeptFacts DEF Seating, Dropping
  <2>3. carriageSeatsState'[c] = Len(passengers'[c]) - dropped'[c] - Told(c)'
    BY <2>1, <2>2
  <2> QED
    BY <2>1, <2>2, <2>3 DEF Seating, Over, NoRepeats, Dropping
<1>4. OnePlaceEach'
  <2>1. ASSUME NEW p \in Passenger
        PROVE  /\ passengerState'[p] = "WAIT" <=> p \in Range(passengerQueue')
               /\ passengerState'[p] = "IN_CARRIAGE" <=> \E d \in Carriage : p \in Kept(d)'
    <3>1. CASE p = n
      <4>1. passengerState'[p] = "WAIT"
        BY <1>1, <1>2, <3>1 DEF Drops, TypeOK
      <4>2. \A d \in Carriage : p \notin Kept(d)'
        BY <1>2, <3>1 DEF Drops
      <4> QED
        BY <1>2, <3>1, <4>1, <4>2 DEF Drops
    <3>2. CASE p # n
      <4>1. passengerState'[p] = passengerState[p]
        BY <1>1, <1>2, <3>2 DEF Drops, TypeOK
      <4>2. \A d \in Carriage : p \in Kept(d)' <=> p \in Kept(d)
        BY <1>2, <3>2 DEF Drops
      <4>3. p \in Range(passengerQueue') <=> p \in Range(passengerQueue)
        BY <1>2, <3>2 DEF Drops
      <4> QED
        BY <1>1, <4>1, <4>2, <4>3 DEF OnePlaceEach
    <3> QED
      BY <3>1, <3>2
  <2>2. ASSUME NEW d \in Carriage, NEW e \in Carriage, d # e PROVE Kept(d)' \cap Kept(e)' = {}
    <3>1. Kept(d) \cap Kept(e) = {}
      BY <1>1, <2>2 DEF OnePlaceEach
    <3> QED
      BY <1>2, <2>2, <3>1 DEF Drops
  <2> QED
    BY <2>1, <2>2 DEF OnePlaceEach
<1>5. InsideInv'
  <2>1. ASSUME NEW d \in Carriage PROVE Seated(d)' \ Awaited(d)' = Seated(d) \ Awaited(d)
    <3>1. CASE d = c
      BY <1>2, <3>1 DEF Drops
    <3>2. CASE d # c
      BY <1>2, <3>2 DEF Drops
    <3> QED
      BY <3>1, <3>2
  <2>2. inside' = inside /\ \A p \in Passenger : SameSide(p)
    BY <1>2 DEF Drops
  <2> QED
    BY <1>1, <2>1, <2>2, InsideStays
<1>6. \A d \in Carriage : Seating(d)'
  BY <1>2, <1>3 DEF Drops
<1>7. NoRepeats(passengerQueue')
  BY <1>2 DEF Drops
<1> QED
  BY <1>4, <1>5, <1>6, <1>7 DEF SeatsInv

(* A passenger is out, and the carriage c goes to there. *)
Released(c, there) ==
  /\ UNCHANGED <<passengerQueue, passengerState, carriageSeatsState, inside, ppc>>
  /\ c = actualCarriageID /\ cpc[c] = "dropdone" /\ cpc'[c] = there /\ Only(c, there)
  /\ there \in {"drop", "ended", "board"}
  /\ there = "drop" <=> dropped[c] + 1 < carriageCapacity
  /\ there = "drop" => passengers'[c] = passengers[c] /\ dropped'[c] = dropped[c] + 1
  /\ there # "drop" => passengers'[c] = <<>> /\ dropped'[c] = 0
  /\ Len(passengers[c]) = carriageCapacity /\ NoRepeats(passengers[c])
  /\ dropped[c] \in 0 .. Len(passengers[c]) /\ dropped[c] < Len(passengers[c])
  /\ Told(c) = 1 /\ Told(c)' = 0
  /\ Kept(c)' = Kept(c) /\ Seated(c)' = Kept(c) /\ Awaited(c)' = {}
  /\ Kept(c) = Seated(c) \ Awaited(c)
  /\ \A d \in Carriage : d # c =>
       /\ Awaited(d)' = {} /\ Awaited(d) = {} /\ Seated(d)' = Seated(d)
       /\ Kept(d)' = Kept(d) /\ Seating(d)' /\ Told(d)' = Told(d)
       /\ passengers'[d] = passengers[d] /\ dropped'[d] = dropped[d]

LEMMA DropDoneFacts ==
  ASSUME SeatsInv, NEW c \in Carriage, DropDone(c)
  PROVE  Released(c, AfterDrop(c))
<1> DEFINE n == NextPassenger(c)
           there == AfterDrop(c)
<1>1. /\ UNCHANGED <<passengerQueue, passengerState, carriageSeatsState, waitForEntry,
                     waitForRelease, inside, ppc>>
      /\ ~waitForRelease /\ cpc[c] = "dropdone" /\ CarriageGoto(c, there)
  BY DEF DropDone, queueVars, handshakes, seen
<1>2. TypeOK /\ Seating(c) /\ actualCarriageID = c /\ OnePlaceEach /\ InsideInv
  BY <1>1 DEF SeatsInv, RoundInv, AtPlatform
<1>3. Only(c, there) /\ cpc'[c] = there
  BY <1>1, <1>2, CarriageMoves DEF Only
<1>4. /\ there \in {"drop", "ended", "board"}
      /\ there = "drop" <=> dropped[c] + 1 < carriageCapacity
  BY DEF AfterDrop
<1>5. /\ there = "drop" => dropped' = [dropped EXCEPT ![c] = @ + 1] /\ passengers' = passengers
      /\ there # "drop" => /\ dropped' = [dropped EXCEPT ![c] = 0]
                           /\ passengers' = [passengers EXCEPT ![c] = <<>>]
  BY DEF DropDone
<1> HIDE DEF there
<1>6. /\ passengers[c] \in Seq(Passenger) /\ NoRepeats(passengers[c]) /\ Told(c) = 1
      /\ dropped[c] \in 0 .. Len(passengers[c]) /\ dropped[c] < Len(passengers[c])
      /\ Len(passengers[c]) = carriageCapacity
      /\ Seated(c) = Slice(passengers[c], dropped[c])
      /\ Kept(c) = Slice(passengers[c], dropped[c] + 1)
      /\ Kept(c) = Seated(c) \ {n} /\ Awaited(c) = {n}
  <2>1. Told(c) = 1 /\ Len(passengers[c]) = carriageCapacity
    BY <1>1, <1>2 DEF Seating, Told, Dropping
  <2>2. Kept(c) = Seated(c) \ {n} /\ Awaited(c) = {n}
    BY <1>1 DEF Kept, Awaited
  <2>3. /\ passengers[c] \in Seq(Passenger) /\ NoRepeats(passengers[c])
        /\ dropped[c] \in 0 .. carriageCapacity - 1
        /\ Seated(c) = Slice(passengers[c], dropped[c])
        /\ Kept(c) = Slice(passengers[c], dropped[c] + Told(c))
    BY <1>2, KeptFacts
  <2>4. dropped[c] \in 0 .. Len(passengers[c]) /\ dropped[c] < Len(passengers[c])
    BY <2>1, <2>3
  <2> QED
    BY <2>1, <2>2, <2>3, <2>4
<1>7. /\ \A d \in Carriage : d # c => passengers'[d] = passengers[d] /\ dropped'[d] = dropped[d]
      /\ there = "drop" => passengers'[c] = passengers[c] /\ dropped'[c] = dropped[c] + 1
      /\ there # "drop" => passengers'[c] = <<>> /\ dropped'[c] = 0
  BY <1>2, <1>5 DEF TypeOK
<1>8. Kept(c)' = Kept(c) /\ Seated(c)' = Kept(c) /\ Awaited(c)' = {} /\ Told(c)' = 0
  <2>1. Kept(c)' = Seated(c)' /\ Awaited(c)' = {} /\ Told(c)' = 0
    BY <1>3, <1>4 DEF Kept, Awaited, Told
  <2>2. CASE there = "drop"
    <3>1. Seated(c)' = Slice(passengers'[c], dropped'[c])
      BY DEF Seated, Slice
    <3> QED
      BY <1>6, <1>7, <2>1, <2>2, <3>1
  <2>3. CASE there # "drop"
    <3>1. Seated(c)' = {}
      BY <1>7, <2>3 DEF Seated
    <3>2. dropped[c] + 1 = Len(passengers[c]) /\ dropped[c] + 1 \in 0 .. Len(passengers[c])
      BY <1>4, <1>6, <2>3
    <3>3. Kept(c) = {}
      BY <1>6, <3>2, SliceFacts
    <3> QED
      BY <2>1, <3>1, <3>3
  <2> QED
    BY <2>2, <2>3
<1>9. ASSUME NEW d \in Carriage, d # c
      PROVE  /\ Awaited(d)' = {} /\ Awaited(d) = {} /\ Seated(d)' = Seated(d)
             /\ Kept(d)' = Kept(d) /\ Seating(d)' /\ Told(d)' = Told(d)
  <2>1. Woke(d) /\ Seating(d)
    BY <1>3, <1>9 DEF Only, SeatsInv
  <2>2. /\ Seated(d)' = Seated(d) /\ Kept(d)' = Kept(d) /\ Seating(d)'
        /\ AtPlatform(d)' <=> AtPlatform(d)
        /\ Told(d)' = Told(d)
    BY <1>1, <1>7, <1>9, <2>1, WokenStays
  <2>3. ~AtPlatform(d)
    BY <1>2, <1>9 DEF SeatsInv, RoundInv
  <2> QED
    BY <2>2, <2>3, NobodyAwaited DEF AtPlatform, Awaited
<1>10. Kept(c) = Seated(c) \ Awaited(c)
  BY <1>6
<1>11. Released(c, there)
  BY <1>1, <1>2, <1>3, <1>4, <1>6, <1>7, <1>8, <1>9, <1>10 DEF Released
<1> QED
  BY <1>11 DEF there

LEMMA DropDoneKeeps ==
  ASSUME SeatsInv, TypeOK', RoundInv', NEW c \in Carriage, DropDone(c)
  PROVE  SeatsInv'
<1> DEFINE there == AfterDrop(c)
<1>1. TypeOK /\ Seating(c) /\ OnePlaceEach /\ InsideInv /\ NoRepeats(passengerQueue)
  BY DEF SeatsInv
<1>2. Released(c, there)
  BY DropDoneFacts
<1> HIDE DEF there
<1>3. Seating(c)'
  <2>1. /\ carriageSeatsState[c] = carriageCapacity - dropped[c] - 1 /\ dropped[c] \in Nat
        /\ carriageSeatsState'[c] = carriageSeatsState[c] /\ cpc'[c] = there
    BY <1>1, <1>2 DEF Seating, Released
  <2>2. CASE there = "drop"
    <3>1. /\ passengers'[c] = passengers[c] /\ dropped'[c] = dropped[c] + 1
          /\ Len(passengers[c]) = carriageCapacity /\ NoRepeats(passengers[c])
          /\ Told(c)' = 0
      BY <1>2, <2>2 DEF Released
    <3>2. carriageSeatsState'[c] = Len(passengers'[c]) - dropped'[c] - Told(c)'
      BY <2>1, <3>1
    <3> QED
      BY <2>1, <2>2, <3>1, <3>2 DEF Seating, Over, NoRepeats, Dropping
  <2>3. CASE there # "drop"
    <3>1. /\ passengers'[c] = <<>> /\ Len(passengers'[c]) = 0 /\ DOMAIN passengers'[c] = {}
          /\ dropped'[c] = 0 /\ Told(c)' = 0 /\ there \in {"ended", "board"}
          /\ dropped[c] + 1 = carriageCapacity
      BY <1>2, <2>1, <2>3 DEF Released
    <3>2. carriageSeatsState'[c] = Len(passengers'[c]) - dropped'[c] - Told(c)'
      BY <2>1, <3>1
    <3> QED
      BY <2>1, <3>1, <3>2 DEF Seating, Over, NoRepeats, Dropping
  <2> QED
    BY <2>2, <2>3
<1>4. \A d \in Carriage : Seating(d)'
  BY <1>2, <1>3 DEF Released
<1>5. OnePlaceEach'
  <2>1. UNCHANGED <<passengerQueue, passengerState>> /\ \A d \in Carriage : Kept(d)' = Kept(d)
    BY <1>2 DEF Released
  <2> QED
    BY <1>1, <2>1, PlacesStay
<1>6. InsideInv'
  <2>1. inside' = inside /\ \A p \in Passenger : SameSide(p)
    BY <1>2 DEF Released, SameSide
  <2>2. ASSUME NEW d \in Carriage PROVE Seated(d)' \ Awaited(d)' = Seated(d) \ Awaited(d)
    <3>1. CASE d = c
      BY <1>2, <3>1 DEF Released
    <3>2. CASE d # c
      BY <1>2, <3>2 DEF Released
    <3> QED
      BY <3>1, <3>2
  <2> QED
    BY <1>1, <2>1, <2>2, InsideStays
<1>7. NoRepeats(passengerQueue')
  BY <1>1, <1>2 DEF Released
<1> QED
  BY <1>4, <1>5, <1>6, <1>7 DEF SeatsInv

-----------------------------------------------------------------------------
(* The types. *)

CarriagePlace == {"turn", "turnsleepy", "turnwait", "open", "drop", "dropwait",
                  "dropdone", "board", "boardwait", "boarded", "press", "presswait",
                  "pressed", "ended", "test", "wakenext", "wakeall", "done"}
PassengerPlace == {"loop", "entry", "entrysleepy", "entrywait", "button",
                   "buttonwait", "out", "outwait", "done"}

(* Every move leads to a place. *)
LEMMA MovesType ==
  ASSUME TypeOK
  PROVE  /\ \A c \in Carriage, there \in CarriagePlace :
              CarriageGoto(c, there) \/ (\E w : WakeCarriage(w, c, there)) =>
                cpc' \in [Carriage -> CarriagePlace]
         /\ \A p \in Passenger, there \in PassengerPlace :
              PassengerGoto(p, there) => ppc' \in [Passenger -> PassengerPlace]
         /\ \A p : WakePassenger(p) => ppc' \in [Passenger -> PassengerPlace]
         /\ \A p \in Passenger, there \in PassengerPlace,
               here \in {"boardwait", "presswait", "dropwait"} :
              PassengerWakes(p, there, here) =>
                cpc' \in [Carriage -> CarriagePlace] /\ ppc' \in [Passenger -> PassengerPlace]
<1>1. cpc \in [Carriage -> CarriagePlace] /\ ppc \in [Passenger -> PassengerPlace]
  BY DEF TypeOK, CarriagePlace, PassengerPlace
<1>2. /\ Woken("boardwait") = "boarded" /\ Woken("presswait") = "pressed"
      /\ Woken("dropwait") = "dropdone" /\ Woken("entrywait") = "entry"
      /\ Woken("outwait") = "out"
  BY DEF Woken
<1>3. ASSUME NEW c \in Carriage, NEW there \in CarriagePlace,
             CarriageGoto(c, there) \/ \E w : WakeCarriage(w, c, there)
      PROVE  cpc' \in [Carriage -> CarriagePlace]
  <2>1. CASE CarriageGoto(c, there)
    BY <1>1, <2>1 DEF CarriageGoto
  <2>2. ASSUME NEW w, WakeCarriage(w, c, there) PROVE cpc' \in [Carriage -> CarriagePlace]
    <3>1. \A d \in Carriage : cpc[d] \in CarriagePlace /\ "turn" \in CarriagePlace
      BY <1>1 DEF CarriagePlace
    <3> QED
      BY <2>2, <3>1 DEF WakeCarriage
  <2> QED
    BY <1>3, <2>1, <2>2
<1>4. ASSUME NEW p \in Passenger, NEW there \in PassengerPlace, PassengerGoto(p, there)
      PROVE  ppc' \in [Passenger -> PassengerPlace]
  BY <1>1, <1>4 DEF PassengerGoto
<1>5. ASSUME NEW p, WakePassenger(p) PROVE ppc' \in [Passenger -> PassengerPlace]
  <2>1. "entry" \in PassengerPlace /\ "out" \in PassengerPlace
    BY DEF PassengerPlace
  <2>2. ppc' = [ppc EXCEPT ![p] = IF @ \in {"entrywait", "outwait"} THEN Woken(@) ELSE @]
    BY <1>5 DEF WakePassenger
  <2> QED
    BY <1>1, <1>2, <2>1, <2>2
<1>6. ASSUME NEW p \in Passenger, NEW there \in PassengerPlace,
             NEW here \in {"boardwait", "presswait", "dropwait"}, PassengerWakes(p, there, here)
      PROVE  cpc' \in [Carriage -> CarriagePlace] /\ ppc' \in [Passenger -> PassengerPlace]
  <2>1. /\ "boarded" \in CarriagePlace /\ "pressed" \in CarriagePlace
        /\ "dropdone" \in CarriagePlace
    BY DEF CarriagePlace
  <2>2. Woken(here) \in CarriagePlace
    BY <1>2, <2>1
  <2>3. cpc' \in [Carriage -> CarriagePlace]
    BY <1>1, <1>6, <2>2 DEF PassengerWakes
  <2> QED
    BY <1>4, <1>6, <2>3 DEF PassengerWakes
<1> QED
  BY <1>3, <1>4, <1>5, <1>6

LEMMA TypeStep ==
  ASSUME SeatsInv, [Next]_vars
  PROVE  TypeOK'
<1> DEFINE Pcs == cpc \in [Carriage -> CarriagePlace] /\ ppc \in [Passenger -> PassengerPlace]
           Numbers == /\ actualCarriageID \in 0 .. carriageCount
                      /\ endedCarriage \in 0 .. carriageCount /\ lastLeft \in Carriage
                      /\ tour \in [Carriage -> 1 .. tourCount + 1]
           Flags == /\ waitForEntry \in BOOLEAN /\ waitForButtonPress \in BOOLEAN
                    /\ waitForRelease \in BOOLEAN /\ buttonPresser \in Passenger \cup {Nobody}
                    /\ inside \in [Passenger -> Carriage \cup {Nobody}]
                    /\ rides \in [Passenger -> Nat]
           Lists == /\ passengerQueue \in Seq(Passenger)
                    /\ passengerState \in [Passenger -> {"WAIT", "IN_CARRIAGE"}]
                    /\ carriageSeatsState \in [Carriage -> 0 .. carriageCapacity]
                    /\ passengers \in [Carriage -> Seq(Passenger)]
                    /\ dropped \in [Carriage -> 0 .. carriageCapacity - 1]
<1>0. TypeOK /\ Pcs /\ Numbers /\ Flags /\ Lists
  BY DEF SeatsInv, TypeOK, CarriagePlace, PassengerPlace
<1>1. Pcs'
  <2>1. ASSUME NEW c \in Carriage, threadCarriage(c) PROVE Pcs'
    <3>1. /\ AfterDrop(c) \in CarriagePlace
          /\ {"turn", "turnsleepy", "turnwait", "open", "drop", "dropwait",
              "board", "boardwait", "press", "presswait", "test", "wakenext", "wakeall", "done"}
               \subseteq CarriagePlace
      BY DEF CarriagePlace, AfterDrop
    <3>2. CASE CheckTurn(c) \/ SleepTurn(c) \/ OpenDoor(c) \/ DropDone(c) \/ Boarded(c)
               \/ StartRide(c) \/ EndCarriage(c) \/ TestNext(c) \/ WakeNext(c)
      <4>1. \E there \in CarriagePlace :
              CarriageGoto(c, there) \/ \E w : WakeCarriage(w, c, there)
        BY <3>1, <3>2 DEF CheckTurn, SleepTurn, OpenDoor, DropDone, Boarded, StartRide,
           EndCarriage, TestNext, WakeNext
      <4>2. ppc' = ppc
        BY <3>2 DEF CheckTurn, SleepTurn, OpenDoor, DropDone, Boarded, StartRide,
           EndCarriage, TestNext, WakeNext
      <4>3. cpc' \in [Carriage -> CarriagePlace]
        BY <1>0, <4>1, MovesType
      <4> QED
        BY <1>0, <4>2, <4>3 DEF PassengerPlace
    <3>3. CASE DropPassenger(c) \/ BoardPassenger(c)
      <4>1. /\ CarriageGoto(c, "dropwait") \/ CarriageGoto(c, "boardwait")
            /\ \E p : WakePassenger(p)
        BY <3>3 DEF DropPassenger, BoardPassenger, setPassengerState
      <4> QED
        BY <1>0, <3>1, <4>1, MovesType
    <3>4. CASE ChoosePresser(c) \/ WakeAll(c)
      <4>1. CarriageGoto(c, "presswait") \/ CarriageGoto(c, "done")
        BY <3>4 DEF ChoosePresser, WakeAll
      <4>2. cpc' \in [Carriage -> CarriagePlace]
        BY <1>0, <3>1, <4>1, MovesType
      <4>3. CASE ChoosePresser(c)
        BY <1>0, <4>2, <4>3 DEF ChoosePresser, PassengerPlace
      <4>4. CASE WakeAll(c)
        <5>1. Woken("entrywait") = "entry" /\ Woken("outwait") = "out"
          BY DEF Woken
        <5>2. ppc' = [p \in Passenger |->
                        IF passengerState[p] = "WAIT" /\ ppc[p] \in {"entrywait", "outwait"}
                          THEN Woken(ppc[p]) ELSE ppc[p]]
          BY <4>4 DEF WakeAll
        <5>3. \A p \in Passenger : ppc'[p] \in PassengerPlace
          BY <1>0, <5>1, <5>2 DEF PassengerPlace
        <5> QED
          BY <4>2, <5>2, <5>3
      <4> QED
        BY <3>4, <4>3, <4>4
    <3> QED
      BY <2>1, <3>2, <3>3, <3>4 DEF threadCarriage
  <2>2. ASSUME NEW p \in Passenger, threadPassenger(p) PROVE Pcs'
    <3>1. PassengerPlace = {"loop", "entry", "entrysleepy", "entrywait", "button",
                            "buttonwait", "out", "outwait", "done"}
      BY DEF PassengerPlace
    <3>2. CASE EnterCarriage(p) \/ PressButton(p) \/ LeaveCarriage(p)
      <4>1. PICK there \in PassengerPlace, here \in {"boardwait", "presswait", "dropwait"} :
              PassengerWakes(p, there, here)
        BY <3>1, <3>2 DEF EnterCarriage, PressButton, LeaveCarriage
      <4>2. TypeOK
        BY <1>0
      <4> HIDE DEF Pcs, Numbers, Flags, Lists
      <4>3. cpc' \in [Carriage -> CarriagePlace] /\ ppc' \in [Passenger -> PassengerPlace]
        BY <4>1, <4>2, MovesType
      <4> QED
        BY <4>3 DEF Pcs
    <3>3. CASE ~(EnterCarriage(p) \/ PressButton(p) \/ LeaveCarriage(p))
      <4>1. /\ \E there \in PassengerPlace : PassengerGoto(p, there)
            /\ cpc' = cpc
        BY <2>2, <3>1, <3>3 DEF threadPassenger, Loop, CheckEntry, SleepEntry, WaitForButton,
           SeeButton, WaitForStop
      <4>2. ppc' \in [Passenger -> PassengerPlace]
        BY <1>0, <4>1, MovesType
      <4> QED
        BY <1>0, <4>1, <4>2 DEF CarriagePlace
    <3> QED
      BY <3>2, <3>3
  <2>3. CASE UNCHANGED vars
    BY <1>0, <2>3 DEF vars, CarriagePlace, PassengerPlace
  <2> QED
    BY <2>1, <2>2, <2>3 DEF Next, Terminated
<1>2. Numbers'
  <2>1. ASSUME NEW c \in Carriage, StartRide(c) PROVE Numbers'
    <3>1. tour[c] <= tourCount
      <4>1. PICK r \in 1 .. tourCount : Round(r)
        BY DEF SeatsInv, RoundInv
      <4>2. cpc[c] = "pressed" /\ actualCarriageID = c
        BY <2>1 DEF StartRide, SeatsInv, RoundInv, AtPlatform
      <4> QED
        BY <4>1, <4>2 DEF Round, Dropping
    <3>2. /\ tour' = [tour EXCEPT ![c] = @ + 1] /\ endedCarriage' = endedCarriage
          /\ lastLeft' \in {lastLeft, c}
          /\ \/ actualCarriageID' \in {actualCarriageID, endedCarriage}
             \/ actualCarriageID' = actualCarriageID + 1 /\ actualCarriageID # carriageCount - 1
      BY <2>1 DEF StartRide, NextCarriage
    <3>3. actualCarriageID = c
      BY <2>1 DEF StartRide, SeatsInv, RoundInv, AtPlatform
    <3>4. tour' \in [Carriage -> 1 .. tourCount + 1]
      <4>1. tour \in [Carriage -> 1 .. tourCount + 1]
        BY <1>0
      <4>2. tour[c] + 1 \in 1 .. tourCount + 1
        BY <3>1, <4>1
      <4> QED
        BY <3>2, <4>1, <4>2
    <3>5. actualCarriageID' \in 0 .. carriageCount
      <4>1. endedCarriage \in 0 .. carriageCount
        BY <1>0
      <4> QED
        BY <3>2, <3>3, <4>1
    <3>6. lastLeft' \in Carriage /\ endedCarriage' \in 0 .. carriageCount
      BY <1>0, <3>2
    <3> QED
      BY <3>4, <3>5, <3>6
  <2>2. ASSUME NEW c \in Carriage, EndCarriage(c) PROVE Numbers'
    <3>1. endedCarriage' = c + 1 /\ actualCarriageID' = c + 1
      BY <1>0, <2>2, EndKeepsRound DEF SeatsInv
    <3>2. lastLeft' = c /\ tour' = tour
      BY <2>2 DEF EndCarriage, carriageVars
    <3> QED
      BY <1>0, <3>1, <3>2, SMTT(30)
  <2>3. CASE UNCHANGED <<turnVars, tour>>
    BY <1>0, <2>3 DEF turnVars
  <2>4. ASSUME NEW c \in Carriage, threadCarriage(c), ~StartRide(c), ~EndCarriage(c)
        PROVE  UNCHANGED <<turnVars, tour>>
    BY <2>4 DEF threadCarriage, CheckTurn, SleepTurn, OpenDoor, DropPassenger, DropDone,
       BoardPassenger, Boarded, ChoosePresser, TestNext, WakeNext, WakeAll, carriageVars
  <2>5. ASSUME NEW p \in Passenger, threadPassenger(p) PROVE UNCHANGED <<turnVars, tour>>
    BY <2>5 DEF threadPassenger, Loop, CheckEntry, SleepEntry, EnterCarriage, WaitForButton,
       PressButton, SeeButton, WaitForStop, LeaveCarriage, carriageVars
  <2>6. CASE UNCHANGED vars
    BY <2>3, <2>6 DEF vars, turnVars
  <2> HIDE DEF Numbers
  <2> QED
    BY <2>1, <2>2, <2>3, <2>4, <2>5, <2>6 DEF Next, Terminated
<1>3. Flags'
  <2>1. ASSUME NEW c \in Carriage, threadCarriage(c) PROVE Flags'
    <3>1. CASE ChoosePresser(c)
      <4>1. Seating(c) /\ cpc[c] = "press"
        BY <3>1 DEF ChoosePresser, SeatsInv
      <4>2. \A k \in 1 .. carriageCapacity : passengers[c][k] \in Passenger
        <5>1. passengers[c] \in Seq(Passenger)
          BY <1>0
        <5>2. Len(passengers[c]) = carriageCapacity
          BY <4>1 DEF Seating
        <5> QED
          BY <5>1, <5>2
      <4>3. buttonPresser' \in Passenger
        BY <3>1, <4>2 DEF ChoosePresser
      <4> QED
        BY <1>0, <3>1, <4>3 DEF ChoosePresser, seen
    <3>2. CASE ~ChoosePresser(c)
      BY <1>0, <2>1, <3>2 DEF threadCarriage, CheckTurn, SleepTurn, OpenDoor, DropPassenger,
         DropDone, BoardPassenger, Boarded, StartRide, EndCarriage, TestNext, WakeNext,
         WakeAll, handshakes, seen
    <3> QED
      BY <3>1, <3>2
  <2>2. ASSUME NEW p \in Passenger, threadPassenger(p) PROVE Flags'
    <3>1. CASE EnterCarriage(p)
      <4>1. actualCarriageID \in Carriage
        BY <3>1, WhoEnters DEF EnterCarriage, SeatsInv, InsideInv
      <4>2. /\ inside \in [Passenger -> Carriage \cup {Nobody}] /\ rides \in [Passenger -> Nat]
            /\ inside' = [inside EXCEPT ![p] = actualCarriageID]
            /\ rides' = [rides EXCEPT ![p] = @ + 1]
        BY <1>0, <3>1 DEF EnterCarriage
      <4>3. inside' \in [Passenger -> Carriage \cup {Nobody}]
        BY <4>1, <4>2
      <4>4. rides' \in [Passenger -> Nat]
        BY <4>2
      <4> QED
        BY <1>0, <3>1, <4>3, <4>4 DEF EnterCarriage
    <3>2. CASE ~EnterCarriage(p)
      BY <1>0, <2>2, <3>2 DEF threadPassenger, Loop, CheckEntry, SleepEntry,
         WaitForButton, PressButton, SeeButton, WaitForStop, LeaveCarriage, handshakes, seen
    <3> QED
      BY <3>1, <3>2
  <2>3. CASE UNCHANGED vars
    BY <1>0, <2>3 DEF vars
  <2> QED
    BY <2>1, <2>2, <2>3 DEF Next, Terminated
<1>4. Lists'
  <2>1. ASSUME NEW c \in Carriage, BoardPassenger(c) PROVE Lists'
    <3>1. cpc[c] = "board" /\ Seating(c) /\ actualCarriageID = c
      BY <2>1 DEF BoardPassenger, SeatsInv, RoundInv, AtPlatform
    <3>2. carriageSeatsState[c] < carriageCapacity
      BY <1>0, <3>1, KeptFacts DEF Seating, Told, Dropping
    <3>3. Head(passengerQueue) \in Passenger /\ Tail(passengerQueue) \in Seq(Passenger)
      <4>1. passengerQueue # <<>> /\ passengerQueue \in Seq(Passenger)
        BY <1>0, <3>1, SomebodyWaits
      <4> QED
        BY <4>1
    <3>4. passengers' \in [Carriage -> Seq(Passenger)]
      <4>1. passengers \in [Carriage -> Seq(Passenger)]
        BY <1>0
      <4>2. Append(passengers[c], Head(passengerQueue)) \in Seq(Passenger)
        BY <3>3, <4>1
      <4>3. passengers' = [passengers EXCEPT ![c] = Append(@, Head(passengerQueue))]
        BY <2>1 DEF BoardPassenger
      <4> QED
        BY <4>1, <4>2, <4>3
    <3>5. carriageSeatsState' \in [Carriage -> 0 .. carriageCapacity]
      <4>1. carriageSeatsState \in [Carriage -> 0 .. carriageCapacity]
        BY <1>0
      <4>2. carriageSeatsState' = [carriageSeatsState EXCEPT ![c] = @ + 1]
        BY <2>1, <3>1 DEF BoardPassenger
      <4>3. carriageSeatsState[c] + 1 \in 0 .. carriageCapacity
        BY <3>2, <4>1
      <4> QED
        BY <4>1, <4>2, <4>3
    <3>6. passengerState' \in [Passenger -> {"WAIT", "IN_CARRIAGE"}]
      BY <1>0, <2>1, <3>3 DEF BoardPassenger, setPassengerState
    <3> QED
      BY <1>0, <2>1, <3>3, <3>4, <3>5, <3>6 DEF BoardPassenger, getPassengerFromQueue
  <2>2. ASSUME NEW c \in Carriage, DropPassenger(c) PROVE Lists'
    <3>1. cpc[c] = "drop" /\ Seating(c) /\ actualCarriageID = c
      BY <2>2 DEF DropPassenger, SeatsInv, RoundInv, AtPlatform
    <3>2. Len(passengers[c]) = carriageCapacity /\ dropped[c] \in 0 .. carriageCapacity - 1
      BY <1>0, <3>1 DEF Seating, Dropping
    <3>3. carriageSeatsState' \in [Carriage -> 0 .. carriageCapacity]
      <4>1. carriageSeatsState \in [Carriage -> 0 .. carriageCapacity]
        BY <1>0
      <4>2. carriageSeatsState' = [carriageSeatsState EXCEPT ![c] = @ - 1]
        BY <2>2, <3>1 DEF DropPassenger
      <4>3. carriageSeatsState[c] = carriageCapacity - dropped[c]
        BY <3>1, <3>2 DEF Seating, Told
      <4>4. carriageSeatsState[c] - 1 \in 0 .. carriageCapacity
        BY <3>2, <4>1, <4>3
      <4> QED
        BY <4>1, <4>2, <4>4
    <3>4. NextPassenger(c) \in Passenger
      <4>1. passengers[c] \in Seq(Passenger)
        BY <1>0
      <4>2. dropped[c] + 1 \in 1 .. Len(passengers[c])
        BY <3>2
      <4>3. passengers[c][dropped[c] + 1] \in Passenger
        BY <4>1, <4>2, SMTT(30)
      <4> QED
        BY <4>3 DEF NextPassenger
    <3>5. passengerQueue' \in Seq(Passenger)
      <4>1. passengerQueue \in Seq(Passenger)
        BY <1>0
      <4> QED
        BY <2>2, <3>4, <4>1 DEF DropPassenger, addPassengerToQueue
    <3>6. passengerState' \in [Passenger -> {"WAIT", "IN_CARRIAGE"}]
      BY <1>0, <2>2, <3>4 DEF DropPassenger, setPassengerState
    <3> QED
      BY <1>0, <2>2, <3>3, <3>5, <3>6 DEF DropPassenger, carriageVars
  <2>3. ASSUME NEW c \in Carriage, DropDone(c) PROVE Lists'
    <3>0. /\ dropped \in [Carriage -> 0 .. carriageCapacity - 1]
          /\ passengers \in [Carriage -> Seq(Passenger)]
      BY <1>0
    <3>1. AfterDrop(c) = "drop" => dropped[c] + 1 \in 0 .. carriageCapacity - 1
      BY <3>0 DEF AfterDrop
    <3>2. dropped' \in [Carriage -> 0 .. carriageCapacity - 1]
      <4>1. /\ AfterDrop(c) = "drop" => dropped' = [dropped EXCEPT ![c] = @ + 1]
            /\ AfterDrop(c) # "drop" => dropped' = [dropped EXCEPT ![c] = 0]
        BY <2>3 DEF DropDone
      <4>2. CASE AfterDrop(c) = "drop"
        <5>1. dropped' = [dropped EXCEPT ![c] = @ + 1] /\ dropped[c] + 1 \in 0 .. carriageCapacity - 1
          BY <3>1, <4>1, <4>2
        <5> QED
          BY <3>0, <5>1
      <4>3. CASE AfterDrop(c) # "drop"
        <5>1. dropped' = [dropped EXCEPT ![c] = 0] /\ 0 \in 0 .. carriageCapacity - 1
          BY <4>1, <4>3
        <5> QED
          BY <3>0, <5>1
      <4> QED
        BY <4>2, <4>3
    <3>3. passengers' \in [Carriage -> Seq(Passenger)]
      <4>1. passengers' = passengers \/ passengers' = [passengers EXCEPT ![c] = <<>>]
        BY <2>3 DEF DropDone
      <4>2. <<>> \in Seq(Passenger)
        OBVIOUS
      <4> QED
        BY <3>0, <4>1, <4>2
    <3> QED
      BY <1>0, <2>3, <3>2, <3>3 DEF DropDone, queueVars
  <2>4. CASE UNCHANGED <<queueVars, passengers, dropped>>
    BY <1>0, <2>4 DEF queueVars
  <2>5. ASSUME NEW c \in Carriage, threadCarriage(c),
               ~BoardPassenger(c), ~DropPassenger(c), ~DropDone(c)
        PROVE  UNCHANGED <<queueVars, passengers, dropped>>
    BY <2>5 DEF threadCarriage, CheckTurn, SleepTurn, OpenDoor, Boarded, ChoosePresser,
       StartRide, EndCarriage, TestNext, WakeNext, WakeAll, carriageVars
  <2>6. ASSUME NEW p \in Passenger, threadPassenger(p)
        PROVE  UNCHANGED <<queueVars, passengers, dropped>>
    BY <2>6 DEF threadPassenger, Loop, CheckEntry, SleepEntry, EnterCarriage, WaitForButton,
       PressButton, SeeButton, WaitForStop, LeaveCarriage, carriageVars
  <2>7. CASE UNCHANGED vars
    BY <2>4, <2>7 DEF vars, queueVars
  <2> HIDE DEF Lists
  <2> QED
    BY <2>1, <2>2, <2>3, <2>4, <2>5, <2>6, <2>7 DEF Next, Terminated
<1> QED
  BY <1>1, <1>2, <1>3, <1>4 DEF TypeOK, CarriagePlace, PassengerPlace

-----------------------------------------------------------------------------
(* The invariant. *)

LEMMA Start ==
  ASSUME Init
  PROVE  SeatsInv
<1>1. /\ passengerQueue \in Seq(Passenger) /\ Len(passengerQueue) = passengerCount
      /\ DOMAIN passengerQueue = 1 .. passengerCount
      /\ \A i \in 1 .. passengerCount : passengerQueue[i] = i - 1
  <2>1. passengerQueue = [i \in 1 .. passengerCount |-> i - 1]
    BY DEF Init
  <2>2. passengerQueue \in [1 .. passengerCount -> Passenger] /\ passengerCount \in Nat
    BY <2>1
  <2> QED
    BY <2>1, <2>2
<1>2. NoRepeats(passengerQueue)
  BY <1>1 DEF NoRepeats
<1>3. TypeOK
  <2>1. /\ 0 \in 0 .. carriageCount /\ 0 \in Passenger /\ carriageCount - 1 \in Carriage
        /\ 0 \in 0 .. carriageCapacity /\ 0 \in 0 .. carriageCapacity - 1
        /\ 1 \in 1 .. tourCount + 1 /\ <<>> \in Seq(Passenger) /\ 0 \in Nat
    OBVIOUS
  <2> QED
    BY <1>1, <2>1 DEF Init, TypeOK
<1>4. RoundInv
  <2>1. 0 = (lastLeft + 1) % carriageCount
    <3>1. lastLeft + 1 = carriageCount /\ carriageCount % carriageCount = 0
      BY ModFacts DEF Init
    <3> QED
      BY <3>1
  <2>2. Round(1)
    BY DEF Init, Round
  <2>3. 1 \in 1 .. tourCount
    OBVIOUS
  <2> QED
    BY <2>1, <2>2, <2>3 DEF Init, RoundInv, Over, AtPlatform
<1>5. ASSUME NEW c \in Carriage
      PROVE  Seating(c) /\ Seated(c) = {} /\ Kept(c) = {} /\ Awaited(c) = {}
  <2>1. passengers[c] = <<>> /\ Len(passengers[c]) = 0 /\ DOMAIN passengers[c] = {}
        /\ dropped[c] = 0 /\ cpc[c] = "turn" /\ carriageSeatsState[c] = 0
    BY DEF Init
  <2> QED
    BY <2>1 DEF Seating, Seated, Kept, Awaited, NoRepeats, Told, Over, Dropping
<1>6. OnePlaceEach
  <2>1. ASSUME NEW p \in Passenger PROVE p \in Range(passengerQueue) /\ passengerState[p] = "WAIT"
    <3>1. p + 1 \in 1 .. passengerCount /\ passengerQueue[p + 1] = p
      BY <1>1
    <3> QED
      BY <1>1, <3>1 DEF Init, Range
  <2> QED
    BY <1>5, <2>1 DEF OnePlaceEach
<1>7. InsideInv
  <2>1. \A p \in Passenger : inside[p] = Nobody /\ ppc[p] = "loop"
    BY DEF Init
  <2>2. \A c \in Carriage : Inside(c) = {}
    BY <2>1 DEF Inside
  <2> QED
    BY <1>5, <2>1, <2>2 DEF InsideInv
<1> QED
  BY <1>2, <1>3, <1>4, <1>5, <1>6, <1>7 DEF SeatsInv

LEMMA Step ==
  ASSUME SeatsInv, [Next]_vars
  PROVE  SeatsInv'
<1>1. TypeOK' /\ RoundInv' /\ TypeOK /\ RoundInv
  BY TypeStep, RoundStep DEF SeatsInv
<1>2. ASSUME NEW c \in Carriage, threadCarriage(c) PROVE SeatsInv'
  <2>0. Seating(c) /\ \A there : CarriageGoto(c, there) => Only(c, there) /\ cpc'[c] = there
    BY <1>1, CarriageMoves DEF Only, SeatsInv
  <2>1. CASE BoardPassenger(c) \/ DropPassenger(c) \/ DropDone(c)
    BY <1>1, <2>1, BoardKeeps, DropKeeps, DropDoneKeeps
  <2>2. ASSUME UNCHANGED <<queueVars, waitForEntry, waitForRelease, passengers, dropped, inside>>,
               NEW there, Only(c, there),
               cpc[c] \notin {"drop", "dropwait", "dropdone", "boardwait"},
               cpc[c] = "boarded" => ~waitForEntry,
               there \notin {"dropwait", "dropdone", "boardwait", "boarded"},
               there \in {"turn", "turnsleepy", "turnwait", "open"} =>
                 cpc[c] \in {"turn", "turnsleepy", "pressed"},
               there = "board" => Len(passengers[c]) < carriageCapacity,
               there \in {"press", "presswait", "drop"} => Len(passengers[c]) = carriageCapacity,
               there \notin {"pressed", "ended"},
               there \in {"test", "wakenext", "wakeall", "done"} =>
                 cpc[c] = "ended" \/ Over(c),
               \A p \in Passenger : SameSide(p)
        PROVE  SeatsInv'
    <3>1. /\ passengers'[c] = passengers[c] /\ dropped'[c] = dropped[c] /\ cpc'[c] = there
          /\ carriageSeatsState'[c] = carriageSeatsState[c]
      BY <2>2 DEF queueVars, Only
    <3>2. Told(c)' = Told(c) /\ Told(c) = 0
      BY <2>2, <3>1 DEF Told, Dropping
    <3>3. Seating(c)'
      <4>1. /\ dropped[c] = 0 /\ carriageSeatsState[c] = Len(passengers[c]) - dropped[c] - Told(c)
            /\ NoRepeats(passengers[c]) /\ Len(passengers[c]) <= carriageCapacity
        BY <2>0, <2>2 DEF Seating, Dropping
      <4>2. there \in {"turn", "turnsleepy", "turnwait", "open"} =>
              Len(passengers[c]) \in {0, carriageCapacity}
        BY <2>0, <2>2 DEF Seating
      <4>3. there \in {"test", "wakenext", "wakeall", "done"} => passengers[c] = <<>>
        BY <2>0, <2>2 DEF Seating
      <4> QED
        BY <2>2, <3>1, <3>2, <4>1, <4>2, <4>3 DEF Seating, NoRepeats, Dropping, Over
    <3> QED
      BY <1>1, <2>2, <3>3, Quiet
  <2>3. \A p \in Passenger : ppc'[p] = ppc[p] => SameSide(p)
    BY DEF SameSide
  <2> USE DEF queueVars, carriageVars, handshakes, seen
  <2>4. CASE CheckTurn(c) \/ SleepTurn(c)
    <3>1. PICK there \in {"open", "turnsleepy", "turnwait"} :
            CarriageGoto(c, there) /\ cpc[c] \in {"turn", "turnsleepy"}
      BY <2>4 DEF CheckTurn, SleepTurn
    <3> QED
      BY <2>0, <2>2, <2>3, <2>4, <3>1 DEF CheckTurn, SleepTurn, Dropping
  <2>5. CASE OpenDoor(c)
    <3>1. /\ cpc[c] = "open" /\ passengers[c] = <<>> => Len(passengers[c]) < carriageCapacity
          /\ passengers[c] # <<>> => Len(passengers[c]) = carriageCapacity
      <4>1. passengers[c] \in Seq(Passenger) /\ cpc[c] = "open"
        BY <1>1, <2>5 DEF TypeOK, OpenDoor
      <4>2. Len(passengers[c]) \in {0, carriageCapacity}
        BY <2>0, <4>1 DEF Seating
      <4> QED
        BY <4>1, <4>2
    <3> QED
      BY <2>0, <2>2, <2>3, <2>5, <3>1 DEF OpenDoor, Dropping
  <2>6. CASE Boarded(c)
    <3>1. /\ cpc[c] = "boarded" /\ ~waitForEntry
          /\ Len(passengers[c]) >= carriageCapacity => Len(passengers[c]) = carriageCapacity
      BY <1>1, <2>0, <2>6, KeptFacts DEF Boarded, Seating
    <3>2. PICK there \in {"board", "press"} :
            /\ CarriageGoto(c, there)
            /\ there = "board" => Len(passengers[c]) < carriageCapacity
            /\ there = "press" => ~(Len(passengers[c]) < carriageCapacity)
      BY <2>6 DEF Boarded
    <3>3. there = "press" => Len(passengers[c]) = carriageCapacity
      <4>1. Len(passengers[c]) \in Nat
        BY <1>1, <2>0, KeptFacts
      <4> QED
        BY <3>1, <3>2, <4>1
    <3>4. UNCHANGED <<queueVars, waitForEntry, waitForRelease, passengers, dropped, inside, ppc>>
      BY <2>6 DEF Boarded
    <3> QED
      BY <2>0, <2>2, <2>3, <3>1, <3>2, <3>3, <3>4
  <2>7. CASE ChoosePresser(c)
    <3>1. cpc[c] = "press" /\ Len(passengers[c]) = carriageCapacity
      BY <2>0, <2>7 DEF ChoosePresser, Seating
    <3>2. \A p \in Passenger : SameSide(p)
      BY <2>7 DEF ChoosePresser, SameSide, Outside
    <3> QED
      BY <2>0, <2>2, <2>7, <3>1, <3>2 DEF ChoosePresser, Dropping
  <2>8. CASE StartRide(c)
    <3>1. cpc[c] = "pressed" /\ Len(passengers[c]) = carriageCapacity
      BY <2>0, <2>8 DEF StartRide, Seating
    <3>2. PICK there \in {"drop", "turn"} :
            CarriageGoto(c, there) \/ \E w : WakeCarriage(w, c, there)
      BY <2>8 DEF StartRide
    <3>3. Only(c, there)
      BY <1>1, <3>2, CarriageMoves
    <3> QED
      BY <2>2, <2>3, <2>8, <3>1, <3>3 DEF StartRide, Dropping
  <2>9. CASE EndCarriage(c) \/ TestNext(c) \/ WakeNext(c) \/ WakeAll(c)
    <3>1. PICK there \in {"test", "wakenext", "wakeall", "done"} :
            /\ CarriageGoto(c, there) \/ \E w : WakeCarriage(w, c, there)
            /\ cpc[c] \in {"ended", "test", "wakenext", "wakeall"}
      BY <2>9 DEF EndCarriage, TestNext, WakeNext, WakeAll
    <3>2. Only(c, there)
      BY <1>1, <3>1, CarriageMoves
    <3>3. \A p \in Passenger : SameSide(p)
      <4>1. Woken("entrywait") = "entry" /\ Woken("outwait") = "out"
        BY DEF Woken
      <4> QED
        BY <2>3, <2>9, <4>1 DEF EndCarriage, TestNext, WakeNext, WakeAll, SameSide, Outside
    <3>4. cpc[c] = "ended" \/ Over(c)
      BY <3>1 DEF Over
    <3>5. UNCHANGED <<queueVars, waitForEntry, waitForRelease, passengers, dropped, inside>>
      BY <2>9 DEF EndCarriage, TestNext, WakeNext, WakeAll
    <3> QED
      BY <2>2, <3>1, <3>2, <3>3, <3>4, <3>5 DEF Dropping
  <2> QED
    BY <1>2, <2>1, <2>4, <2>5, <2>6, <2>7, <2>8, <2>9 DEF threadCarriage
<1>3. ASSUME NEW p \in Passenger, threadPassenger(p) PROVE SeatsInv'
  <2>1. CASE EnterCarriage(p) \/ LeaveCarriage(p)
    BY <1>1, <2>1, EnterKeeps, LeaveKeeps
  <2>2. CASE ~(EnterCarriage(p) \/ LeaveCarriage(p))
    <3>1. UNCHANGED <<queueVars, waitForEntry, waitForRelease, passengers, dropped, inside>>
      BY <1>3, <2>2 DEF threadPassenger, Loop, CheckEntry, SleepEntry, WaitForButton,
         PressButton, SeeButton, WaitForStop, handshakes, carriageVars, seen
    <3>2. \A d \in Carriage : Woke(d)
      <4>1. CASE PressButton(p)
        BY <1>1, <4>1, PassengerWakesCarriages DEF PressButton
      <4>2. CASE ~PressButton(p)
        BY <1>3, <2>2, <4>2 DEF threadPassenger, Loop, CheckEntry, SleepEntry, WaitForButton,
           SeeButton, WaitForStop, Woke
      <4> QED
        BY <4>1, <4>2
    <3>3. PICK there : PassengerGoto(p, there) /\ (there \in Outside <=> ppc[p] \in Outside)
      BY <1>3, <2>2 DEF threadPassenger, Loop, CheckEntry, SleepEntry, WaitForButton,
         PressButton, SeeButton, WaitForStop, PassengerWakes, Outside
    <3>4. \A q \in Passenger : SameSide(q)
      BY <1>1, <3>3 DEF PassengerGoto, SameSide, TypeOK
    <3> QED
      BY <1>1, <3>1, <3>2, <3>4, QuietPassenger
  <2> QED
    BY <2>1, <2>2
<1>4. CASE UNCHANGED vars
  <2>1. \A d \in Carriage : Woke(d)
    BY <1>4 DEF vars, Woke
  <2>2. \A q \in Passenger : SameSide(q)
    BY <1>4 DEF vars, SameSide
  <2> QED
    BY <1>1, <1>4, <2>1, <2>2, QuietPassenger DEF vars, queueVars
<1> QED
  BY <1>2, <1>3, <1>4 DEF Next, Terminated

(* RoundInv, Seating, OnePlaceEach and InsideInv are true in every state,  *)
(* for any number of passengers, carriages, seats and tours.               *)
LEMMA SeatsRight == Spec => []SeatsInv
<1>1. Init => SeatsInv
  BY Start
<1>2. SeatsInv /\ [Next]_vars => SeatsInv'
  BY Step
<1> QED
  BY <1>1, <1>2, PTL DEF Spec

(* One carriage is at the platform at a time, the one whose turn it is, and *)
(* none overtakes another.                                                 *)
THEOREM OneAtThePlatform == Spec => []PlatformInv
<1>1. SeatsInv => PlatformInv
  BY DEF SeatsInv, RoundInv, PlatformInv, AtPlatform
<1> QED
  BY <1>1, SeatsRight, PTL

(* Nobody is lost or stands twice in the queue, nobody is in two carriages, *)
(* and no carriage finds the queue empty.                                  *)
THEOREM NobodyLost == Spec => []QueueInv
<1>1. ASSUME SeatsInv PROVE QueueInv
  <2>1. Cardinality(Range(passengerQueue)) = Len(passengerQueue)
    BY <1>1, RangeCount DEF SeatsInv, TypeOK
  <2>2. \A c \in Carriage : cpc[c] = "board" => passengerQueue # <<>>
    BY <1>1, SomebodyWaits
  <2> QED
    BY <1>1, <2>1, <2>2 DEF SeatsInv, QueueInv
<1> QED
  BY <1>1, SeatsRight, PTL

(* Nobody gets in while one of the previous ride is inside, there are      *)
(* never too many inside, and the button is pressed by one of a full       *)
(* carriage.                                                               *)
THEOREM RidesAreSafe == Spec => []SafeRide
<1>1. ASSUME SeatsInv PROVE SafeRide
  <2> SUFFICES ASSUME NEW c \in Carriage
               PROVE  /\ cpc[c] \in {"board", "boardwait", "boarded"} =>
                           /\ Inside(c) \subseteq Seated(c)
                           /\ Cardinality(Inside(c)) <= carriageCapacity
                      /\ cpc[c] \in {"press", "presswait", "pressed"} =>
                           /\ Inside(c) = Seated(c)
                           /\ Cardinality(Inside(c)) = carriageCapacity
                      /\ AtPlatform(c) => carriageSeatsState[c] = Cardinality(Kept(c))
    BY DEF SafeRide
  <2>1. /\ Seating(c) /\ Inside(c) = Seated(c) \ Awaited(c)
        /\ Len(passengers[c]) \in Nat /\ Len(passengers[c]) <= carriageCapacity
        /\ dropped[c] \in Nat
        /\ Cardinality(Kept(c)) = carriageSeatsState[c]
        /\ IsFiniteSet(Seated(c)) /\ Cardinality(Seated(c)) = Len(passengers[c]) - dropped[c]
    BY <1>1, KeptFacts DEF SeatsInv, InsideInv, Seating
  <2>2. Inside(c) \subseteq Seated(c) /\ Cardinality(Inside(c)) <= carriageCapacity
    <3>1. Inside(c) \in SUBSET Seated(c)
      BY <2>1
    <3>2. IsFiniteSet(Inside(c)) /\ Cardinality(Inside(c)) <= Cardinality(Seated(c))
      BY <2>1, <3>1, FS_Subset
    <3>3. Cardinality(Inside(c)) \in Nat
      BY <3>2, FS_CardinalityType
    <3> QED
      BY <2>1, <3>1, <3>2, <3>3
  <2>3. ASSUME cpc[c] \in {"press", "presswait", "pressed"}
        PROVE  Inside(c) = Seated(c) /\ Cardinality(Inside(c)) = carriageCapacity
    <3>1. Awaited(c) = {} /\ dropped[c] = 0 /\ Len(passengers[c]) = carriageCapacity
      BY <2>1, <2>3 DEF Awaited, Seating, Dropping
    <3> QED
      BY <2>1, <3>1
  <2> QED
    BY <2>1, <2>2, <2>3
<1> QED
  BY <1>1, SeatsRight, PTL

-----------------------------------------------------------------------------
(* The order of the rides. *)

(* The carriages come to let out at different times. *)
LEMMA TurnFacts ==
  ASSUME SeatsInv, endedCarriage = 0
  PROVE  /\ actualCarriageID \in Carriage
         /\ \A c \in Carriage :
              /\ Turn(c) \in 0 .. carriageCount
              /\ Boarding(c) => c = actualCarriageID /\ Turn(c) = carriageCount
              /\ ~Boarding(c) => Turn(c) < carriageCount
              /\ c = actualCarriageID /\ ~Boarding(c) => Turn(c) = 0
              /\ c # actualCarriageID => Turn(c) \in 1 .. carriageCount - 1
         /\ \A c, d \in Carriage : c # d => Turn(c) # Turn(d)
<1>1. actualCarriageID \in Carriage /\ \A c \in Carriage : Boarding(c) => c = actualCarriageID
  BY DEF SeatsInv, RoundInv, Boarding, AtPlatform
<1> QED
  BY <1>1 DEF Turn

(* Whom a carriage has not told to get out: its members from there on. *)
LEMMA KeptIndex ==
  ASSUME SeatsInv, NEW c \in Carriage, NEW p \in Kept(c)
  PROVE  \E i \in (dropped[c] + Told(c)) + 1 .. Len(passengers[c]) : passengers[c][i] = p
<1>1. Kept(c) = Slice(passengers[c], dropped[c] + Told(c))
  BY KeptFacts DEF SeatsInv
<1> QED
  BY <1>1 DEF Slice

(* One of two rides before the other. *)
LEMMA OrderTotal ==
  ASSUME SeatsInv, endedCarriage = 0, NEW p \in Passenger, NEW q \in Passenger, p # q
  PROVE  RidesBefore(p, q) \/ RidesBefore(q, p)
<1>1. CASE p \in Range(passengerQueue) /\ q \in Range(passengerQueue)
  <2>1. Len(passengerQueue) \in Nat /\ DOMAIN passengerQueue = 1 .. Len(passengerQueue)
    BY DEF SeatsInv, TypeOK
  <2>2. PICK i, j \in 0 + 1 .. Len(passengerQueue) : passengerQueue[i] = p /\ passengerQueue[j] = q
    BY <1>1, <2>1 DEF Range
  <2>3. i < j \/ j < i
    BY <2>1, <2>2
  <2> QED
    BY <2>2, <2>3 DEF RidesBefore, InOrder
<1>2. CASE p \in Range(passengerQueue) /\ q \notin Range(passengerQueue)
  BY <1>2 DEF RidesBefore
<1>3. CASE p \notin Range(passengerQueue) /\ q \in Range(passengerQueue)
  BY <1>3 DEF RidesBefore
<1>4. CASE p \notin Range(passengerQueue) /\ q \notin Range(passengerQueue)
  <2>1. PICK c, d \in Carriage : p \in Kept(c) /\ q \in Kept(d)
    BY <1>4 DEF SeatsInv, OnePlaceEach, TypeOK
  <2>2. CASE c # d
    <3>1. Turn(c) < Turn(d) \/ Turn(d) < Turn(c)
      BY <2>2, TurnFacts
    <3> QED
      BY <2>1, <3>1 DEF RidesBefore
  <2>3. CASE c = d
    <3>1. /\ Told(c) \in Nat /\ dropped[c] \in Nat /\ Len(passengers[c]) \in Nat
      <4>1. /\ dropped \in [Carriage -> 0 .. carriageCapacity - 1]
            /\ passengers \in [Carriage -> Seq(Passenger)]
        BY DEF SeatsInv, TypeOK
      <4>2. dropped[c] \in Nat /\ Len(passengers[c]) \in Nat
        BY <4>1
      <4> QED
        BY <4>2 DEF Told
    <3>2. PICK i, j \in (dropped[c] + Told(c)) + 1 .. Len(passengers[c]) :
            passengers[c][i] = p /\ passengers[c][j] = q
      BY <2>1, <2>3, KeptIndex
    <3>3. i < j \/ j < i
      BY <3>1, <3>2
    <3> QED
      BY <3>2, <3>3 DEF RidesBefore, InOrder
  <2> QED
    BY <2>2, <2>3
<1> QED
  BY <1>1, <1>2, <1>3, <1>4

(* The one who is told to get in rides last. *)
LEMMA AwaitedIsLast ==
  ASSUME SeatsInv, endedCarriage = 0, NEW p \in Passenger, NEW w \in Passenger, p # w,
         inside[w] = Nobody, passengerState[w] = "IN_CARRIAGE"
  PROVE  RidesBefore(p, w) /\ (inside[p] # Nobody \/ passengerState[p] # "IN_CARRIAGE")
<1>1. PICK c \in Carriage : /\ c = actualCarriageID /\ cpc[c] \in {"boardwait", "boarded"}
                            /\ w \in Seated(c) /\ Awaited(c) = {w} /\ waitForEntry
  BY WhoEnters
<1>2. inside[p] # Nobody \/ passengerState[p] # "IN_CARRIAGE"
  BY <1>1, WhoEnters
<1>3. /\ w \notin Range(passengerQueue) /\ w \in Kept(c) /\ w = passengers[c][Len(passengers[c])]
      /\ Boarding(c)
  BY <1>1 DEF SeatsInv, OnePlaceEach, Kept, Boarding, Awaited
<1>4. CASE p \in Range(passengerQueue)
  BY <1>2, <1>3, <1>4 DEF RidesBefore
<1>5. CASE p \notin Range(passengerQueue)
  <2>1. PICK d \in Carriage : p \in Kept(d)
    BY <1>5 DEF SeatsInv, OnePlaceEach, TypeOK
  <2>2. CASE d # c
    <3>1. Turn(d) < Turn(c)
      <4>1. Turn(c) = carriageCount /\ Turn(d) \in 1 .. carriageCount - 1
        BY <1>1, <1>3, <2>2, TurnFacts
      <4> QED
        BY <4>1
    <3> QED
      BY <1>2, <1>3, <2>1, <3>1 DEF RidesBefore
  <2>3. CASE d = c
    <3>1. /\ Told(c) \in Nat /\ dropped[c] \in Nat /\ Len(passengers[c]) \in Nat
      <4>1. /\ dropped \in [Carriage -> 0 .. carriageCapacity - 1]
            /\ passengers \in [Carriage -> Seq(Passenger)]
        BY DEF SeatsInv, TypeOK
      <4>2. dropped[c] \in Nat /\ Len(passengers[c]) \in Nat
        BY <4>1
      <4> QED
        BY <4>2 DEF Told
    <3>2. PICK i \in (dropped[c] + Told(c)) + 1 .. Len(passengers[c]) : passengers[c][i] = p
      BY <2>1, <2>3, KeptIndex
    <3>3. /\ Len(passengers[c]) \in (dropped[c] + Told(c)) + 1 .. Len(passengers[c])
          /\ i < Len(passengers[c])
      BY <1>3, <3>1, <3>2
    <3> QED
      BY <1>2, <1>3, <3>2, <3>3 DEF RidesBefore, InOrder
  <2> QED
    BY <2>2, <2>3
<1> QED
  BY <1>4, <1>5

(* In that order nobody is two rides ahead of another. *)
LEMMA OrderIsFair ==
  ASSUME SeatsInv, endedCarriage = 0, Order, NEW p \in Passenger, NEW q \in Passenger
  PROVE  rides[p] <= rides[q] + 1
<1>0. /\ rides[p] \in Nat /\ rides[q] \in Nat
      /\ Due(p) = rides[p] + (IF passengerState[p] = "IN_CARRIAGE" /\ inside[p] = Nobody
                                THEN 1 ELSE 0)
      /\ Due(q) = rides[q] + (IF passengerState[q] = "IN_CARRIAGE" /\ inside[q] = Nobody
                                THEN 1 ELSE 0)
  BY DEF SeatsInv, TypeOK, Due
<1>1. CASE p = q
  BY <1>0, <1>1
<1>2. CASE p # q /\ passengerState[q] = "IN_CARRIAGE" /\ inside[q] = Nobody
  <2>1. RidesBefore(p, q) /\ Due(p) = rides[p] /\ Due(q) = rides[q] + 1
    BY <1>0, <1>2, AwaitedIsLast
  <2> QED
    BY <1>0, <2>1 DEF Order
<1>3. CASE p # q /\ ~(passengerState[q] = "IN_CARRIAGE" /\ inside[q] = Nobody)
  <2>1. Due(q) = rides[q] /\ Due(p) >= rides[p]
    BY <1>0, <1>3
  <2>2. Due(p) <= Due(q) + 1
    <3>1. Due(p) \in Nat /\ Due(q) \in Nat
      BY <1>0
    <3>2. \/ Due(p) <= Due(q) /\ Due(q) <= Due(p) + 1
          \/ Due(q) <= Due(p) /\ Due(p) <= Due(q) + 1
      BY <1>3, OrderTotal DEF Order
    <3> QED
      BY <3>1, <3>2
  <2> QED
    BY <1>0, <2>1, <2>2
<1> QED
  BY <1>1, <1>2, <1>3

(* A step in which nobody comes to ride before another. *)
LEMMA OrderStays ==
  ASSUME Order, \A p \in Passenger : Due(p)' = Due(p),
         \A p, q \in Passenger : RidesBefore(p, q)' => RidesBefore(p, q)
  PROVE  Order'
BY DEF Order

(* A step that moves nobody: the carriages with passengers keep their order. *)
LEMMA BeforeStays ==
  ASSUME TypeOK', passengerQueue' = passengerQueue,
         \A c \in Carriage : Kept(c)' = Kept(c),
         \A c \in Carriage : \/ /\ passengers'[c] = passengers[c]
                                /\ (dropped[c] + Told(c))' = dropped[c] + Told(c)
                             \/ passengers'[c] = <<>>,
         \A c, d \in Carriage : Kept(c) # {} /\ Kept(d) # {} /\ Turn(c)' < Turn(d)' =>
                                  Turn(c) < Turn(d)
  PROVE  \A p, q \in Passenger : RidesBefore(p, q)' => RidesBefore(p, q)
<1> SUFFICES ASSUME NEW p \in Passenger, NEW q \in Passenger, RidesBefore(p, q)'
             PROVE  RidesBefore(p, q)
  OBVIOUS
<1>1. CASE \/ InOrder(passengerQueue, 0, p, q)'
           \/ p \in Range(passengerQueue)' /\ q \notin Range(passengerQueue)'
  BY <1>1 DEF RidesBefore, InOrder
<1>2. ASSUME NEW c \in Carriage, InOrder(passengers[c], dropped[c] + Told(c), p, q)'
      PROVE  RidesBefore(p, q)
  <2>1. CASE passengers'[c] = <<>>
    <3>1. Len(passengers'[c]) = 0 /\ (dropped[c] + Told(c))' \in Nat
      <4>1. dropped'[c] \in Nat
        <5>1. dropped' \in [Carriage -> 0 .. carriageCapacity - 1]
          BY DEF TypeOK
        <5> QED
          BY <5>1
      <4>2. Told(c)' \in Nat
        BY DEF Told
      <4> QED
        BY <2>1, <4>1, <4>2
    <3>2. PICK i \in (dropped[c] + Told(c))' + 1 .. Len(passengers'[c]),
               j \in (dropped[c] + Told(c))' + 1 .. Len(passengers'[c]) :
            /\ i < j /\ passengers'[c][i] = p /\ passengers'[c][j] = q
      BY <1>2 DEF InOrder
    <3> QED
      BY <3>1, <3>2
  <2>2. CASE passengers'[c] = passengers[c] /\ (dropped[c] + Told(c))' = dropped[c] + Told(c)
    <3>1. InOrder(passengers[c], dropped[c] + Told(c), p, q)
      BY <1>2, <2>2 DEF InOrder
    <3> QED
      BY <3>1 DEF RidesBefore
  <2> QED
    BY <2>1, <2>2
<1>3. ASSUME NEW c \in Carriage, NEW d \in Carriage,
             (Turn(c) < Turn(d) /\ p \in Kept(c) /\ q \in Kept(d))'
      PROVE  RidesBefore(p, q)
  BY <1>3 DEF RidesBefore
<1> QED
  BY <1>1, <1>2, <1>3 DEF RidesBefore

(* A carriage goes on, and nobody gets in or out. *)
LEMMA OrderQuiet ==
  ASSUME SeatsInv, TypeOK', Order, NEW c \in Carriage, NEW there, Only(c, there),
         UNCHANGED <<passengerQueue, passengerState, passengers, dropped, inside, rides,
                     actualCarriageID>>,
         cpc[c] \notin {"dropwait", "dropdone"}, there \notin {"dropwait", "dropdone"},
         (Boarding(c)' <=> Boarding(c)) \/ Kept(c) = {}
  PROVE  Order'
<1>1. ASSUME NEW d \in Carriage
      PROVE  Kept(d)' = Kept(d) /\ Told(d)' = Told(d)
  <2>1. CASE d = c
    BY <2>1 DEF Only, Kept, Seated, Told
  <2>2. CASE d # c
    BY <2>2, WokenStays DEF Only
  <2> QED
    BY <2>1, <2>2
<1>2. ASSUME NEW d \in Carriage PROVE Turn(d)' = Turn(d) \/ Kept(d) = {}
  <2>1. d # c => Boarding(d)' = Boarding(d)
    BY DEF Only, Woke, Boarding
  <2> QED
    BY <2>1 DEF Turn
<1>3. \A p, q \in Passenger : RidesBefore(p, q)' => RidesBefore(p, q)
  BY <1>1, <1>2, BeforeStays
<1>4. \A p \in Passenger : Due(p)' = Due(p)
  BY DEF Due
<1> QED
  BY <1>3, <1>4, OrderStays

(* A passenger goes on. *)
LEMMA OrderPassenger ==
  ASSUME SeatsInv, TypeOK', Order, \A d \in Carriage : Woke(d),
         UNCHANGED <<passengerQueue, passengers, dropped, actualCarriageID>>,
         \A p \in Passenger : Due(p)' = Due(p)
  PROVE  Order'
<1>1. ASSUME NEW d \in Carriage
      PROVE  Kept(d)' = Kept(d) /\ Told(d)' = Told(d) /\ Turn(d)' = Turn(d)
  <2>1. Kept(d)' = Kept(d) /\ Told(d)' = Told(d)
    BY WokenStays
  <2>2. Boarding(d)' = Boarding(d)
    BY DEF Woke, Boarding
  <2> QED
    BY <2>1, <2>2 DEF Turn
<1>2. \A p, q \in Passenger : RidesBefore(p, q)' => RidesBefore(p, q)
  BY <1>1, BeforeStays
<1> QED
  BY <1>2, OrderStays

(* One who gets in has had the ride he was told to get in for. *)
LEMMA DueStays ==
  ASSUME SeatsInv, NEW p \in Passenger, threadPassenger(p), NEW q \in Passenger
  PROVE  Due(q)' = Due(q)
<1>1. /\ inside \in [Passenger -> Carriage \cup {Nobody}] /\ rides \in [Passenger -> Nat]
      /\ ppc[p] = "entry" => inside[p] = Nobody
  BY DEF SeatsInv, TypeOK, InsideInv
<1>2. CASE EnterCarriage(p)
  <2>1. /\ passengerState' = passengerState /\ passengerState[p] = "IN_CARRIAGE"
        /\ inside' = [inside EXCEPT ![p] = actualCarriageID]
        /\ rides' = [rides EXCEPT ![p] = @ + 1] /\ inside[p] = Nobody
    BY <1>1, <1>2 DEF EnterCarriage, queueVars
  <2>2. actualCarriageID # Nobody
    BY <2>1, WhoEnters
  <2>3. CASE q = p
    <3>1. rides'[p] = rides[p] + 1 /\ inside'[p] # Nobody /\ rides[p] \in Nat
      BY <1>1, <2>1, <2>2
    <3> QED
      BY <2>1, <2>3, <3>1 DEF Due
  <2>4. CASE q # p
    <3>1. rides'[q] = rides[q] /\ inside'[q] = inside[q]
      BY <1>1, <2>1, <2>4
    <3> QED
      BY <2>1, <3>1 DEF Due
  <2> QED
    BY <2>3, <2>4
<1>3. CASE LeaveCarriage(p)
  <2>1. /\ passengerState' = passengerState /\ passengerState[p] = "WAIT"
        /\ inside' = [inside EXCEPT ![p] = Nobody] /\ rides' = rides
    BY <1>3 DEF LeaveCarriage, queueVars
  <2>2. q # p => inside'[q] = inside[q]
    BY <1>1, <2>1
  <2> QED
    BY <2>1, <2>2 DEF Due
<1>4. CASE ~EnterCarriage(p) /\ ~LeaveCarriage(p)
  <2>1. UNCHANGED <<passengerState, inside, rides>>
    BY <1>4 DEF threadPassenger, Loop, CheckEntry, SleepEntry, WaitForButton, PressButton,
       SeeButton, WaitForStop, queueVars, seen
  <2> QED
    BY <2>1 DEF Due
<1> QED
  BY <1>2, <1>3, <1>4

(* A passenger is out. *)
LEMMA OrderDropDone ==
  ASSUME SeatsInv, TypeOK', Order, NEW c \in Carriage, DropDone(c)
  PROVE  Order'
<1>1. PICK there : Released(c, there)
  BY DropDoneFacts
<1>2. rides' = rides /\ actualCarriageID' = actualCarriageID
  BY DEF DropDone, seen, turnVars
<1>3. \A p \in Passenger : Due(p)' = Due(p)
  BY <1>1, <1>2 DEF Due, Released
<1>4. \A d \in Carriage : Kept(d)' = Kept(d)
  BY <1>1 DEF Released
<1>5. dropped[c] \in Nat
  <2>1. dropped \in [Carriage -> 0 .. carriageCapacity - 1]
    BY DEF SeatsInv, TypeOK
  <2> QED
    BY <2>1
<1>6. ASSUME NEW d \in Carriage
      PROVE  \/ passengers'[d] = passengers[d] /\ (dropped[d] + Told(d))' = dropped[d] + Told(d)
             \/ passengers'[d] = <<>>
  <2>1. CASE d = c
    BY <1>1, <1>5, <2>1 DEF Released
  <2>2. CASE d # c
    BY <1>1, <2>2 DEF Released
  <2> QED
    BY <2>1, <2>2
<1>7. ASSUME NEW d \in Carriage PROVE Turn(d)' = Turn(d) \/ Kept(d) = {}
  <2>1. CASE d = c
    <3>1. CASE there = "drop"
      BY <1>1, <1>2, <2>1, <3>1 DEF Released, Turn, Boarding
    <3>2. CASE there # "drop"
      <4>1. passengers'[c] = <<>> /\ dropped'[c] = 0 /\ Seated(c)' = Kept(c)
        BY <1>1, <3>2 DEF Released
      <4>2. Len(passengers'[c]) = 0
        BY <4>1
      <4> QED
        BY <2>1, <4>1, <4>2 DEF Seated
    <3> QED
      BY <3>1, <3>2
  <2>2. CASE d # c
    <3>1. Boarding(d)' = Boarding(d)
      BY <1>1, <2>2 DEF Released, Only, Woke, Boarding
    <3> QED
      BY <1>2, <3>1 DEF Turn
  <2> QED
    BY <2>1, <2>2
<1>8. passengerQueue' = passengerQueue
  BY <1>1 DEF Released
<1>9. \A p, q \in Passenger : RidesBefore(p, q)' => RidesBefore(p, q)
  BY <1>4, <1>6, <1>7, <1>8, BeforeStays
<1> QED
  BY <1>3, <1>9, OrderStays

(* A ride that is not the last: every carriage comes nearer to its turn. *)
LEMMA OrderRide ==
  ASSUME SeatsInv, TypeOK', Order, endedCarriage = 0, NEW c \in Carriage, StartRide(c),
         tour[c] # tourCount
  PROVE  Order'
<1>1. /\ UNCHANGED <<passengerQueue, passengerState, passengers, dropped, inside, rides>>
      /\ cpc[c] = "pressed" /\ WakeCarriage(actualCarriageID', c, "turn")
      /\ actualCarriageID' = NextCarriage /\ endedCarriage' = 0
  BY DEF StartRide, queueVars, seen
<1>2. TypeOK /\ c = actualCarriageID
  BY <1>1 DEF SeatsInv, RoundInv, AtPlatform
<1>3. Only(c, "turn")
  BY <1>1, <1>2, CarriageMoves
<1>4. ASSUME NEW d \in Carriage
      PROVE  Kept(d)' = Kept(d) /\ Told(d)' = Told(d)
  <2>1. CASE d = c
    BY <1>1, <1>3, <2>1 DEF Only, Kept, Seated, Told
  <2>2. CASE d # c
    BY <1>1, <1>3, <2>2, WokenStays DEF Only
  <2> QED
    BY <2>1, <2>2
<1>5. ASSUME NEW d \in Carriage PROVE Turn(d) = Turn(d)' + 1
  <2>1. ~Boarding(d)' /\ (Boarding(d) <=> d = c)
    <3>1. CASE d = c
      BY <1>1, <1>3, <3>1 DEF Only, Boarding
    <3>2. CASE d # c
      <4>1. ~Boarding(d)
        BY <1>2, <3>2 DEF SeatsInv, RoundInv, AtPlatform, Boarding
      <4> QED
        BY <1>3, <3>2, <4>1 DEF Only, Woke, Boarding
    <3> QED
      BY <3>1, <3>2
  <2>2. CASE c = carriageCount - 1
    <3>1. actualCarriageID' = 0
      BY <1>1, <1>2, <2>2 DEF NextCarriage
    <3> QED
      BY <1>2, <2>1, <2>2, <3>1 DEF Turn
  <2>3. CASE c # carriageCount - 1
    <3>1. actualCarriageID' = c + 1
      BY <1>1, <1>2, <2>3 DEF NextCarriage
    <3> QED
      BY <1>2, <2>1, <2>3, <3>1 DEF Turn
  <2> QED
    BY <2>2, <2>3
<1>6. \A d, e \in Carriage : Turn(d)' < Turn(e)' => Turn(d) < Turn(e)
  <2>1. \A d \in Carriage : Turn(d)' \in Int
    <3>1. actualCarriageID' \in Int
      BY DEF TypeOK
    <3> QED
      BY <3>1 DEF Turn
  <2> QED
    BY <1>5, <2>1
<1>7. \A p, q \in Passenger : RidesBefore(p, q)' => RidesBefore(p, q)
  BY <1>1, <1>4, <1>6, BeforeStays
<1>8. \A p \in Passenger : Due(p)' = Due(p)
  BY <1>1 DEF Due
<1> QED
  BY <1>7, <1>8, OrderStays

(* One who is told to get out goes to the end of the queue: of all who are *)
(* in a carriage he rode first.                                            *)
LEMMA OrderDrop ==
  ASSUME SeatsInv, TypeOK', Order, endedCarriage = 0, NEW c \in Carriage, DropPassenger(c)
  PROVE  Order'
<1>1. PICK n : Drops(c, n)
  BY DropFacts
<1>2. rides' = rides /\ actualCarriageID' = actualCarriageID
  BY DEF DropPassenger, seen, turnVars
<1>3. /\ TypeOK /\ passengerQueue \in Seq(Passenger) /\ Len(passengerQueue) \in Nat
      /\ DOMAIN passengerQueue = 1 .. Len(passengerQueue)
  <2>1. TypeOK /\ passengerQueue \in Seq(Passenger)
    BY DEF SeatsInv, TypeOK
  <2> QED
    BY <2>1
<1>4. /\ Len(passengerQueue') = Len(passengerQueue) + 1
      /\ passengerQueue'[Len(passengerQueue) + 1] = n
      /\ \A i \in 1 .. Len(passengerQueue) : passengerQueue'[i] = passengerQueue[i]
  BY <1>1, <1>3, AppendFacts DEF Drops
<1>5. \A p \in Passenger : Due(p)' = Due(p)
  <2>1. passengerState \in [Passenger -> {"WAIT", "IN_CARRIAGE"}] /\ n \in Passenger
        /\ passengerState' = [passengerState EXCEPT ![n] = "WAIT"]
        /\ inside' = inside /\ inside[n] = c
    BY <1>1, <1>3 DEF Drops, TypeOK
  <2>2. \A p \in Passenger : p # n => passengerState'[p] = passengerState[p]
    BY <2>1
  <2>3. c # Nobody
    OBVIOUS
  <2> QED
    BY <1>2, <2>1, <2>2, <2>3 DEF Due
<1>6. ASSUME NEW d \in Carriage
      PROVE  Turn(d)' = Turn(d) /\ Kept(d)' \subseteq Kept(d)
  <2>1. Boarding(d)' = Boarding(d)
    BY <1>1, SMTT(30) DEF Drops, Only, Woke, Boarding
  <2> QED
    BY <1>1, <1>2, <2>1 DEF Turn, Drops
<1>7. /\ dropped[c] \in Nat /\ Len(passengers[c]) \in Nat /\ Told(c) = 0
      /\ c = actualCarriageID /\ ~Boarding(c)
  BY <1>1, <1>3, KeptFacts DEF Drops, SeatsInv, Boarding
<1>8. ASSUME NEW p \in Passenger, NEW q \in Passenger, RidesBefore(p, q)'
      PROVE  RidesBefore(p, q)
  <2>1. CASE InOrder(passengerQueue, 0, p, q)'
    <3>1. PICK i, j \in 1 .. Len(passengerQueue) + 1 :
            i < j /\ passengerQueue'[i] = p /\ passengerQueue'[j] = q
      BY <1>4, <2>1 DEF InOrder
    <3>2. i \in 1 .. Len(passengerQueue) /\ passengerQueue[i] = p
      BY <1>3, <1>4, <3>1
    <3>3. CASE j = Len(passengerQueue) + 1
      <4>1. p \in Range(passengerQueue) /\ q \notin Range(passengerQueue)
        BY <1>1, <1>3, <1>4, <3>1, <3>2, <3>3 DEF Drops, Range
      <4> QED
        BY <4>1 DEF RidesBefore
    <3>4. CASE j # Len(passengerQueue) + 1
      <4>0. Len(passengerQueue) \in Nat /\ j \in 1 .. Len(passengerQueue) + 1
        BY <1>3, <3>1
      <4>1. j \in 1 .. Len(passengerQueue)
        BY <3>4, <4>0
      <4>2. passengerQueue[j] = q
        BY <1>4, <3>1, <4>1
      <4>3. /\ i \in 0 + 1 .. Len(passengerQueue) /\ j \in 0 + 1 .. Len(passengerQueue)
            /\ i < j /\ passengerQueue[i] = p
        BY <3>1, <3>2, <4>1
      <4> QED
        BY <4>2, <4>3 DEF RidesBefore, InOrder
    <3> QED
      BY <3>3, <3>4
  <2>2. CASE p \in Range(passengerQueue)' /\ q \notin Range(passengerQueue)'
    <3>1. q \notin Range(passengerQueue) /\ q # n
      BY <1>1, <2>2 DEF Drops
    <3>2. CASE p # n
      BY <1>1, <2>2, <3>1, <3>2 DEF Drops, RidesBefore
    <3>3. CASE p = n
      <4>1. PICK d \in Carriage : q \in Kept(d)
        BY <1>3, <3>1 DEF SeatsInv, OnePlaceEach, TypeOK
      <4>2. CASE d # c
        <5>1. Turn(c) < Turn(d)
          BY <1>7, <4>2, TurnFacts
        <5> QED
          BY <1>1, <3>3, <4>1, <5>1 DEF RidesBefore, Drops
      <4>3. CASE d = c
        <5>1. PICK j \in (dropped[c] + Told(c)) + 1 .. Len(passengers[c]) : passengers[c][j] = q
          BY <4>1, <4>3, KeptIndex
        <5>2. n = passengers[c][dropped[c] + 1]
          BY <1>1 DEF Drops
        <5>3. dropped[c] + 1 \in (dropped[c] + Told(c)) + 1 .. Len(passengers[c])
              /\ dropped[c] + 1 < j
          BY <1>7, <3>1, <5>1, <5>2, SMTT(30)
        <5> QED
          BY <3>3, <5>1, <5>2, <5>3 DEF RidesBefore, InOrder
      <4> QED
        BY <4>2, <4>3
    <3> QED
      BY <3>2, <3>3
  <2>3. ASSUME NEW d \in Carriage, InOrder(passengers[d], dropped[d] + Told(d), p, q)'
        PROVE  RidesBefore(p, q)
    <3>1. passengers' = passengers /\ dropped' = dropped
      BY <1>1 DEF Drops
    <3>2. CASE d = c
      <4>1. PICK i, j \in (dropped[c] + 1) + 1 .. Len(passengers[c]) :
              i < j /\ passengers[c][i] = p /\ passengers[c][j] = q
        BY <1>1, <2>3, <3>1, <3>2, SMTT(30) DEF InOrder, Drops
      <4>2. /\ i \in (dropped[c] + Told(c)) + 1 .. Len(passengers[c])
            /\ j \in (dropped[c] + Told(c)) + 1 .. Len(passengers[c])
        BY <1>7, <4>1
      <4> QED
        BY <4>1, <4>2 DEF RidesBefore, InOrder
    <3>3. CASE d # c
      <4>1. InOrder(passengers[d], dropped[d] + Told(d), p, q)
        BY <1>1, <2>3, <3>1, <3>3 DEF InOrder, Drops
      <4> QED
        BY <4>1 DEF RidesBefore
    <3> QED
      BY <3>2, <3>3
  <2>4. ASSUME NEW d \in Carriage, NEW e \in Carriage,
               Turn(d)' < Turn(e)', p \in Kept(d)', q \in Kept(e)'
        PROVE  RidesBefore(p, q)
    BY <1>6, <2>4 DEF RidesBefore
  <2> QED
    BY <1>8, <2>1, <2>2, <2>3, <2>4 DEF RidesBefore
<1> QED
  BY <1>5, <1>8, OrderStays

(* One who is told to get in goes from the head of the queue to the end.   *)
LEMMA OrderBoard ==
  ASSUME SeatsInv, TypeOK', Order, endedCarriage = 0, NEW c \in Carriage, BoardPassenger(c)
  PROVE  Order'
<1>1. PICK h : Boards(c, h) /\ h = Head(passengerQueue)
  BY BoardFacts
<1>2. rides' = rides /\ actualCarriageID' = actualCarriageID /\ endedCarriage' = endedCarriage
  BY DEF BoardPassenger, seen, turnVars
<1>3. /\ TypeOK /\ passengerQueue \in Seq(Passenger) /\ Len(passengerQueue) \in Nat \ {0}
      /\ passengerQueue[1] = h /\ DOMAIN passengerQueue = 1 .. Len(passengerQueue)
      /\ DOMAIN passengerQueue' = 1 .. Len(passengerQueue) - 1
      /\ Len(passengerQueue') = Len(passengerQueue) - 1
      /\ \A i \in 1 .. Len(passengerQueue) - 1 : passengerQueue'[i] = passengerQueue[i + 1]
  <2>1. passengerQueue \in Seq(Passenger) /\ passengerQueue # <<>> /\ TypeOK
        /\ passengerQueue' = Tail(passengerQueue)
    BY <1>1 DEF SeatsInv, TypeOK, Boards
  <2> QED
    BY <1>1, <2>1
<1>4. h \in Passenger /\ h \in Range(passengerQueue) /\ h \notin Range(passengerQueue')
      /\ \A d \in Carriage : h \notin Kept(d)
  BY <1>1 DEF Boards
<1>5. /\ c = actualCarriageID /\ Len(passengers[c]) \in Nat
      /\ Boarding(c) /\ Boarding(c)'
      /\ dropped[c] + Told(c) = 0 /\ (dropped[c] + Told(c))' = 0
  BY <1>1 DEF Boards, Boarding
<1>6. ASSUME NEW d \in Carriage PROVE Turn(d)' = Turn(d)
  <2>1. CASE d = c
    BY <1>2, <1>5, <2>1 DEF Turn
  <2>2. CASE d # c
    <3>1. Woke(d)
      BY <1>1, <2>2 DEF Boards, Only
    <3>2. Boarding(d)' = Boarding(d)
      BY <3>1 DEF Woke, Boarding
    <3> QED
      BY <1>2, <3>2 DEF Turn
  <2> QED
    BY <2>1, <2>2
<1>7. inside[h] = Nobody /\ passengerState[h] = "WAIT"
  <2>1. passengerState[h] = "WAIT"
    BY <1>4 DEF SeatsInv, OnePlaceEach
  <2>2. ASSUME inside[h] # Nobody PROVE FALSE
    <3>1. PICK d \in Carriage : h \in Inside(d)
      BY <1>3, <1>4, <2>2 DEF TypeOK, Inside
    <3>2. h \in Seated(d) /\ h \notin Kept(d)
      BY <1>4, <3>1 DEF SeatsInv, InsideInv
    <3>3. cpc[d] \in {"dropwait", "dropdone"}
      BY <3>2 DEF Kept
    <3> QED
      BY <1>1, <1>5, <3>3 DEF SeatsInv, RoundInv, AtPlatform, Boards
  <2> QED
    BY <2>1, <2>2
<1>8. /\ Due(h)' = Due(h) + 1
      /\ \A p \in Passenger : p # h => Due(p)' = Due(p)
      /\ \A p \in Passenger : Due(p) \in Nat
  <2>1. /\ passengerState \in [Passenger -> {"WAIT", "IN_CARRIAGE"}]
        /\ passengerState' = [passengerState EXCEPT ![h] = "IN_CARRIAGE"]
        /\ inside' = inside /\ rides \in [Passenger -> Nat]
    BY <1>1, <1>3 DEF Boards, TypeOK
  <2>2. /\ passengerState'[h] = "IN_CARRIAGE" /\ rides[h] \in Nat
        /\ \A p \in Passenger : p # h => passengerState'[p] = passengerState[p]
    BY <1>4, <2>1
  <2> QED
    BY <1>2, <1>7, <2>1, <2>2 DEF Due
<1>9. ASSUME NEW p \in Passenger, p # h PROVE RidesBefore(h, p)
  <2>1. CASE p \in Range(passengerQueue)
    <3>1. PICK j \in 1 .. Len(passengerQueue) : passengerQueue[j] = p
      BY <1>3, <2>1 DEF Range
    <3>2. 1 < j /\ 1 \in 1 .. Len(passengerQueue)
      BY <1>3, <1>9, <3>1
    <3> QED
      BY <1>3, <3>1, <3>2 DEF RidesBefore, InOrder
  <2>2. CASE p \notin Range(passengerQueue)
    BY <1>4, <2>2 DEF RidesBefore
  <2> QED
    BY <2>1, <2>2
<1>10. ASSUME NEW q \in Passenger PROVE ~RidesBefore(h, q)'
  <2>1. ASSUME InOrder(passengerQueue, 0, h, q)' PROVE FALSE
    <3>1. PICK i \in 1 .. Len(passengerQueue') : passengerQueue'[i] = h
      BY <2>1 DEF InOrder
    <3>2. i \in DOMAIN passengerQueue'
      BY <1>3, <3>1
    <3> QED
      BY <1>4, <3>1, <3>2 DEF Range
  <2>2. ASSUME NEW d \in Carriage, InOrder(passengers[d], dropped[d] + Told(d), h, q)' PROVE FALSE
    <3>1. CASE d # c
      <4>1. InOrder(passengers[d], dropped[d] + Told(d), h, q)
        BY <1>1, <2>2, <3>1 DEF InOrder, Boards
      <4>2. h \in Slice(passengers[d], dropped[d] + Told(d))
        BY <4>1 DEF InOrder, Slice
      <4> QED
        BY <1>4, <4>2, KeptFacts DEF SeatsInv
    <3>2. CASE d = c
      <4>1. PICK i, j \in 1 .. Len(passengers'[c]) : i < j /\ passengers'[c][i] = h
        BY <1>5, <2>2, <3>2 DEF InOrder
      <4>2. /\ Len(passengers'[c]) = Len(passengers[c]) + 1
            /\ passengers'[c][Len(passengers[c]) + 1] = h /\ NoRepeats(passengers'[c])
            /\ DOMAIN passengers'[c] = 1 .. Len(passengers[c]) + 1
        <5>1. passengers' \in [Carriage -> Seq(Passenger)]
          BY DEF TypeOK
        <5> QED
          BY <1>1, <5>1 DEF Boards
      <4>3. i = Len(passengers[c]) + 1
        BY <1>5, <4>1, <4>2 DEF NoRepeats
      <4> QED
        BY <1>5, <4>1, <4>2, <4>3
    <3> QED
      BY <3>1, <3>2
  <2>3. ASSUME NEW d \in Carriage, NEW e \in Carriage, Turn(d)' < Turn(e)', h \in Kept(d)'
        PROVE  FALSE
    <3>1. d = c
      BY <1>1, <1>4, <2>3 DEF Boards
    <3>2. Turn(c)' = carriageCount /\ Turn(e)' \in 0 .. carriageCount
      BY <1>5, <1>6, TurnFacts
    <3> QED
      BY <2>3, <3>1, <3>2
  <2> QED
    BY <1>4, <2>1, <2>2, <2>3 DEF RidesBefore
<1>11. ASSUME NEW p \in Passenger, NEW q \in Passenger, p # h, q # h, RidesBefore(p, q)'
       PROVE  RidesBefore(p, q)
  <2>1. CASE InOrder(passengerQueue, 0, p, q)'
    <3>1. PICK i, j \in 1 .. Len(passengerQueue) - 1 :
            i < j /\ passengerQueue'[i] = p /\ passengerQueue'[j] = q
      BY <1>3, <2>1 DEF InOrder
    <3>2. /\ i + 1 \in 0 + 1 .. Len(passengerQueue) /\ j + 1 \in 0 + 1 .. Len(passengerQueue)
          /\ i + 1 < j + 1 /\ passengerQueue[i + 1] = p /\ passengerQueue[j + 1] = q
      BY <1>3, <3>1
    <3> QED
      BY <3>2 DEF RidesBefore, InOrder
  <2>2. CASE p \in Range(passengerQueue)' /\ q \notin Range(passengerQueue)'
    BY <1>1, <1>11, <2>2 DEF Boards, RidesBefore
  <2>3. ASSUME NEW d \in Carriage, InOrder(passengers[d], dropped[d] + Told(d), p, q)'
        PROVE  RidesBefore(p, q)
    <3>1. CASE d # c
      <4>1. InOrder(passengers[d], dropped[d] + Told(d), p, q)
        BY <1>1, <2>3, <3>1 DEF InOrder, Boards
      <4> QED
        BY <4>1 DEF RidesBefore
    <3>2. CASE d = c
      <4>1. PICK i, j \in 1 .. Len(passengers'[c]) :
              i < j /\ passengers'[c][i] = p /\ passengers'[c][j] = q
        BY <1>5, <2>3, <3>2 DEF InOrder
      <4>2. /\ Len(passengers'[c]) = Len(passengers[c]) + 1
            /\ passengers'[c][Len(passengers[c]) + 1] = h
            /\ passengers[c] \in Seq(Passenger) /\ passengers'[c] = Append(passengers[c], h)
        BY <1>1 DEF Boards
      <4>3. i \in 1 .. Len(passengers[c]) /\ j \in 1 .. Len(passengers[c])
        <5>1. j # Len(passengers[c]) + 1
          BY <1>11, <4>1, <4>2
        <5>2. /\ Len(passengers[c]) \in Nat /\ i < j
              /\ i \in 1 .. Len(passengers[c]) + 1 /\ j \in 1 .. Len(passengers[c]) + 1
          BY <1>5, <4>1, <4>2
        <5> QED
          BY <5>1, <5>2
      <4>4. passengers[c][i] = p /\ passengers[c][j] = q
        BY <1>4, <4>1, <4>2, <4>3, AppendFacts
      <4> QED
        BY <1>5, <4>1, <4>3, <4>4 DEF RidesBefore, InOrder
    <3> QED
      BY <3>1, <3>2
  <2>4. ASSUME NEW d \in Carriage, NEW e \in Carriage,
               Turn(d)' < Turn(e)', p \in Kept(d)', q \in Kept(e)'
        PROVE  RidesBefore(p, q)
    <3>1. p \in Kept(d) /\ q \in Kept(e)
      BY <1>1, <1>11, <2>4 DEF Boards
    <3> QED
      BY <1>6, <2>4, <3>1 DEF RidesBefore
  <2> QED
    BY <1>11, <2>1, <2>2, <2>3, <2>4 DEF RidesBefore
<1>12. ASSUME NEW p \in Passenger, NEW q \in Passenger, RidesBefore(p, q)'
       PROVE  Due(p)' <= Due(q)' /\ Due(q)' <= Due(p)' + 1
  <2>1. p # h
    BY <1>10, <1>12
  <2>2. CASE q = h
    <3>1. Due(h) <= Due(p) /\ Due(p) <= Due(h) + 1
      BY <1>4, <1>9, <2>1 DEF Order
    <3> QED
      BY <1>4, <1>8, <2>1, <2>2, <3>1
  <2>3. CASE q # h
    BY <1>8, <1>11, <1>12, <2>1, <2>3 DEF Order
  <2> QED
    BY <2>2, <2>3
<1> QED
  BY <1>12 DEF Order

(* Until the first carriage makes its last ride, every step keeps the      *)
(* order; from then on until it has ended nobody gets in.                  *)
LEMMA OrderStep ==
  ASSUME SeatsInv, TypeOK', OrderInv, [Next]_vars
  PROVE  OrderInv'
<1> SUFFICES ASSUME endedCarriage' = 0 PROVE OrderInv'
  BY DEF OrderInv
<1>1. ASSUME NEW c \in Carriage, EndCarriage(c) PROVE FALSE
  BY <1>1, EndKeepsRound DEF SeatsInv
<1>2. endedCarriage = 0
  <2>1. ASSUME NEW c \in Carriage, threadCarriage(c) PROVE endedCarriage' = endedCarriage
    BY <1>1, <2>1 DEF threadCarriage, CheckTurn, SleepTurn, OpenDoor, DropPassenger, DropDone,
       BoardPassenger, Boarded, ChoosePresser, StartRide, TestNext, WakeNext, WakeAll, turnVars
  <2>2. ASSUME NEW p \in Passenger, threadPassenger(p) PROVE endedCarriage' = endedCarriage
    BY <2>2 DEF threadPassenger, Loop, CheckEntry, SleepEntry, EnterCarriage, WaitForButton,
       PressButton, SeeButton, WaitForStop, LeaveCarriage, turnVars
  <2>3. CASE UNCHANGED vars
    BY <2>3 DEF vars
  <2> QED
    BY <2>1, <2>2, <2>3 DEF Next, Terminated
<1>3. TypeOK /\ RoundInv /\ actualCarriageID \in Carriage
  BY <1>2 DEF SeatsInv, RoundInv
<1> DEFINE Late == tour[actualCarriageID] > tourCount
           Level == \A p, q \in Passenger : rides[p] <= rides[q] + 1
<1>4. tour \in [Carriage -> 1 .. tourCount + 1] /\ rides \in [Passenger -> Nat]
  BY <1>3 DEF TypeOK
<1>5. (~Late /\ Order) \/ (Late /\ Level)
  BY <1>2, <1>3, <1>4, SMTT(30) DEF OrderInv
<1>6. Level
  BY <1>2, <1>5, OrderIsFair
<1>7. ASSUME NEW c \in Carriage, StartRide(c) PROVE OrderInv'
  <2>1. /\ cpc[c] = "pressed" /\ rides' = rides
        /\ tour' = [tour EXCEPT ![c] = @ + 1]
    BY <1>7 DEF StartRide, seen
  <2>2. actualCarriageID = c
    BY <1>3, <2>1 DEF RoundInv, AtPlatform
  <2>3. PICK r \in 1 .. tourCount : Round(r)
    BY <1>3 DEF RoundInv
  <2>4. tour[c] = r
    BY <2>1, <2>2, <2>3 DEF Round, Dropping
  <2>5. Level'
    BY <1>6, <2>1
  <2>6. CASE tour[c] = tourCount
    <3>1. actualCarriageID' = c /\ tour'[c] = tourCount + 1
      BY <1>4, <1>7, <2>1, <2>2, <2>6 DEF StartRide
    <3> QED
      BY <2>5, <3>1 DEF OrderInv
  <2>7. CASE tour[c] # tourCount
    <3>1. Order
      BY <1>5, <2>2, <2>4
    <3>2. Order'
      BY <1>2, <1>7, <2>7, <3>1, OrderRide
    <3> QED
      BY <2>5, <3>2 DEF OrderInv
  <2> QED
    BY <2>6, <2>7
<1>8. ASSUME UNCHANGED <<turnVars, tour>>, ~Late => Order', Late => rides' = rides
      PROVE  OrderInv'
  <2>1. actualCarriageID' = actualCarriageID /\ tour' = tour
    BY <1>8 DEF turnVars
  <2>2. CASE Late
    <3>1. Level'
      BY <1>6, <1>8, <2>2
    <3>2. ~(tour'[actualCarriageID'] <= tourCount)
      BY <1>3, <1>4, <2>1, <2>2
    <3> QED
      BY <3>1, <3>2 DEF OrderInv
  <2>3. CASE ~Late
    <3>1. tour'[actualCarriageID'] <= tourCount
      BY <1>3, <1>4, <2>1, <2>3
    <3> QED
      BY <1>8, <2>3, <3>1 DEF OrderInv
  <2> QED
    BY <2>2, <2>3
<1> HIDE DEF Late, Level
<1>9. ASSUME NEW c \in Carriage, threadCarriage(c), ~StartRide(c) PROVE OrderInv'
  <2>1. UNCHANGED <<turnVars, tour, rides>>
    BY <1>1, <1>9 DEF threadCarriage, CheckTurn, SleepTurn, OpenDoor, DropPassenger, DropDone,
       BoardPassenger, Boarded, ChoosePresser, TestNext, WakeNext, WakeAll, carriageVars, seen
  <2>2. CASE DropPassenger(c) \/ BoardPassenger(c) \/ DropDone(c)
    BY <1>2, <1>5, <1>8, <2>1, <2>2, OrderDrop, OrderBoard, OrderDropDone
  <2>3. ASSUME NEW there, Only(c, there),
               cpc[c] \notin {"dropwait", "dropdone"}, there \notin {"dropwait", "dropdone"},
               (Boarding(c)' <=> Boarding(c)) \/ Kept(c) = {},
               UNCHANGED <<queueVars, passengers, dropped, inside>>
        PROVE  OrderInv'
    <3>1. Order => Order'
      BY <2>1, <2>3, OrderQuiet DEF queueVars, turnVars
    <3> QED
      BY <1>5, <1>8, <2>1, <3>1
  <2>4. \A there : CarriageGoto(c, there) => Only(c, there) /\ cpc'[c] = there
    BY <1>3, CarriageMoves DEF Only
  <2>5. CASE CheckTurn(c) \/ SleepTurn(c) \/ TestNext(c) \/ WakeNext(c) \/ WakeAll(c)
    <3>1. PICK there \in {"open", "turnsleepy", "turnwait", "wakenext", "wakeall", "done"} :
            /\ CarriageGoto(c, there) \/ \E w : WakeCarriage(w, c, there)
            /\ cpc[c] \in {"turn", "turnsleepy", "test", "wakenext", "wakeall"}
      BY <2>5 DEF CheckTurn, SleepTurn, TestNext, WakeNext, WakeAll
    <3>2. Only(c, there) /\ cpc'[c] = there
      BY <1>3, <3>1, CarriageMoves DEF Only
    <3>3. UNCHANGED <<queueVars, passengers, dropped, inside>>
      BY <2>5 DEF CheckTurn, SleepTurn, TestNext, WakeNext, WakeAll, carriageVars, seen
    <3>4. Boarding(c)' <=> Boarding(c)
      BY <3>1, <3>2 DEF Boarding
    <3> QED
      BY <2>3, <3>1, <3>2, <3>3, <3>4
  <2>6. CASE OpenDoor(c)
    <3>1. /\ cpc[c] = "open" /\ UNCHANGED <<queueVars, passengers, dropped, inside>>
          /\ passengers[c] = <<>> => CarriageGoto(c, "board")
          /\ passengers[c] # <<>> => CarriageGoto(c, "drop")
      BY <2>6 DEF OpenDoor, carriageVars, seen
    <3>2. CASE passengers[c] = <<>>
      <4>1. Kept(c) = {}
        <5>1. Len(passengers[c]) = 0 /\ dropped[c] = 0
          BY <3>1, <3>2 DEF SeatsInv, Seating, Dropping
        <5> QED
          BY <5>1 DEF Kept, Seated
      <4> QED
        BY <2>3, <2>4, <3>1, <3>2, <4>1
    <3>3. CASE passengers[c] # <<>>
      <4>1. Only(c, "drop") /\ (Boarding(c)' <=> Boarding(c))
        BY <2>4, <3>1, <3>3 DEF Boarding
      <4> QED
        BY <2>3, <3>1, <4>1
    <3> QED
      BY <3>2, <3>3
  <2>7. CASE Boarded(c) \/ ChoosePresser(c)
    <3>1. PICK there \in {"board", "press", "presswait"} :
            CarriageGoto(c, there) /\ cpc[c] \in {"boarded", "press"}
      BY <2>7 DEF Boarded, ChoosePresser
    <3>2. UNCHANGED <<queueVars, passengers, dropped, inside>>
      BY <2>7 DEF Boarded, ChoosePresser, carriageVars, seen
    <3>3. Boarding(c)' <=> Boarding(c)
      BY <2>4, <3>1 DEF Boarding
    <3> QED
      BY <2>3, <2>4, <3>1, <3>2, <3>3
  <2> QED
    BY <1>1, <1>9, <2>2, <2>5, <2>6, <2>7 DEF threadCarriage
<1>10. ASSUME NEW p \in Passenger, threadPassenger(p) PROVE OrderInv'
  <2>1. UNCHANGED <<turnVars, tour, queueVars, passengers, dropped>>
    BY <1>10 DEF threadPassenger, Loop, CheckEntry, SleepEntry, EnterCarriage, WaitForButton,
       PressButton, SeeButton, WaitForStop, LeaveCarriage, carriageVars
  <2>2. \A d \in Carriage : Woke(d)
    <3>1. CASE EnterCarriage(p) \/ PressButton(p) \/ LeaveCarriage(p)
      BY <1>3, <3>1, PassengerWakesCarriages DEF EnterCarriage, PressButton, LeaveCarriage
    <3>2. CASE ~(EnterCarriage(p) \/ PressButton(p) \/ LeaveCarriage(p))
      BY <1>10, <3>2 DEF threadPassenger, Loop, CheckEntry, SleepEntry, WaitForButton,
         SeeButton, WaitForStop, Woke
    <3> QED
      BY <3>1, <3>2
  <2>3. Order => Order'
    BY <1>10, <2>1, <2>2, DueStays, OrderPassenger DEF queueVars, turnVars
  <2>4. Late => rides' = rides
    <3>1. CASE EnterCarriage(p)
      <4>1. PICK c \in Carriage : c = actualCarriageID /\ cpc[c] \in {"boardwait", "boarded"}
        BY <3>1, WhoEnters DEF EnterCarriage, SeatsInv, InsideInv
      <4>2. PICK r \in 1 .. tourCount : Round(r)
        BY <1>3 DEF RoundInv
      <4>3. tour[c] = r
        BY <4>1, <4>2 DEF Round, Dropping
      <4> QED
        BY <4>1, <4>3 DEF Late
    <3>2. CASE ~EnterCarriage(p)
      BY <1>10, <3>2 DEF threadPassenger, Loop, CheckEntry, SleepEntry, WaitForButton,
         PressButton, SeeButton, WaitForStop, LeaveCarriage, seen
    <3> QED
      BY <3>1, <3>2
  <2> QED
    BY <1>5, <1>8, <2>1, <2>3, <2>4
<1>11. CASE UNCHANGED vars
  <2>1. UNCHANGED <<turnVars, tour, rides>> /\ \A d \in Carriage : Woke(d)
    BY <1>11 DEF vars, turnVars, Woke
  <2>2. \A p \in Passenger : Due(p)' = Due(p)
    BY <1>11 DEF vars, Due
  <2>3. Order => Order'
    BY <1>11, <2>1, <2>2, OrderPassenger DEF vars
  <2> QED
    BY <1>5, <1>8, <2>1, <2>3
<1> QED
  BY <1>7, <1>9, <1>10, <1>11 DEF Next, Terminated

(* RoundInv, Seating, OnePlaceEach, InsideInv and OrderInv are true in     *)
(* every state, for any number of passengers, carriages, seats and tours.  *)
THEOREM Invariance == Spec => []IInv
<1>1. ASSUME Init PROVE OrderInv
  <2>1. \A p \in Passenger : Due(p) = 0
    BY <1>1 DEF Init, Due
  <2>2. Order
    BY <2>1 DEF Order
  <2>3. tour[actualCarriageID] <= tourCount
    BY <1>1 DEF Init
  <2> QED
    BY <2>2, <2>3 DEF OrderInv
<1>2. Init => IInv
  BY <1>1, Start DEF IInv
<1>3. IInv /\ [Next]_vars => IInv'
  BY Step, TypeStep, OrderStep DEF IInv
<1> QED
  BY <1>2, <1>3, PTL DEF Spec

(* As long as all carriages run, no passenger is two rides ahead of        *)
(* another.                                                                *)
THEOREM RidesAreFair == Spec => []FairRides
<1>1. ASSUME IInv PROVE FairRides
  <2> SUFFICES ASSUME endedCarriage = 0, NEW p \in Passenger, NEW q \in Passenger
               PROVE  rides[p] <= rides[q] + 1
    BY DEF FairRides
  <2>1. Order \/ rides[p] <= rides[q] + 1
    BY <1>1 DEF IInv, OrderInv
  <2> QED
    BY <1>1, <2>1, OrderIsFair DEF IInv
<1> QED
  BY <1>1, Invariance, PTL
=============================================================================
