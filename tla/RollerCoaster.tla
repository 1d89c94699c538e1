---------------------------- MODULE RollerCoaster ----------------------------
(***************************************************************************)
(* lab9: a thread per passenger and per carriage, four mutexes and their   *)
(* condition variables.                                                    *)
(*                                                                         *)
(* A thread that waits for a condition variable is at a place whose name   *)
(* ends in "wait"; a broadcast takes it to the place where it locks the    *)
(* mutex again and tests its condition.  What a thread does under a mutex  *)
(* is one step, up to the next wait, if everything it touches is written   *)
(* under that mutex only.  Twice this is not so, because the writer does   *)
(* not lock the mutex: in front of the waits for actualCarriageID and for  *)
(* passengerState and endedCarriage, where the thread has decided to sleep *)
(* and does not sleep yet (the places ending in "sleepy").  There it holds *)
(* the mutex; no mutex is held anywhere else between two steps.            *)
(* Spurious wake-ups are left out: every wait tests its condition again.   *)
(***************************************************************************)
EXTENDS Integers, Sequences, FiniteSets, Functions

CONSTANTS passengerCount, carriageCount, carriageCapacity, tourCount

ASSUME RollerCoasterAssumption ==
  /\ passengerCount \in Nat \ {0} /\ carriageCount \in Nat \ {0}
  /\ carriageCapacity \in Nat \ {0} /\ tourCount \in Nat \ {0}
  /\ passengerCount >= carriageCount * carriageCapacity

Passenger == 0 .. passengerCount - 1
Carriage == 0 .. carriageCount - 1
Nobody == -1

VARIABLES
  actualCarriageID, passengerQueue, passengerState, carriageSeatsState,
  waitForEntry, waitForButtonPress, waitForRelease, buttonPresser, endedCarriage,
  cpc,          \* where each carriage's thread is
  ppc,          \* where each passenger's thread is
  tour,         \* each carriage's loop over its tours
  passengers,   \* who each carriage has; empty as long as isFree
  dropped,      \* how many of them it has released at this platform
  inside,       \* history: the carriage each passenger sits in, or Nobody
  rides,        \* history: how often each passenger has entered a carriage
  lastLeft      \* history: the carriage that left the platform last

carriageVars == <<tour, passengers, dropped>>
handshakes == <<waitForEntry, waitForButtonPress, waitForRelease>>
queueVars == <<passengerQueue, passengerState, carriageSeatsState>>
turnVars == <<actualCarriageID, endedCarriage, lastLeft>>
seen == <<inside, rides>>
vars == <<actualCarriageID, passengerQueue, passengerState, carriageSeatsState,
          waitForEntry, waitForButtonPress, waitForRelease, buttonPresser,
          endedCarriage, cpc, ppc, tour, passengers, dropped, inside, rides, lastLeft>>

Init ==
  /\ actualCarriageID = 0 /\ endedCarriage = 0 /\ buttonPresser = 0
  /\ passengerQueue = [i \in 1 .. passengerCount |-> i - 1]
  /\ passengerState = [p \in Passenger |-> "WAIT"]
  /\ carriageSeatsState = [c \in Carriage |-> 0]
  /\ waitForEntry = FALSE /\ waitForButtonPress = FALSE /\ waitForRelease = FALSE
  /\ cpc = [c \in Carriage |-> "turn"] /\ ppc = [p \in Passenger |-> "loop"]
  /\ tour = [c \in Carriage |-> 1]
  /\ passengers = [c \in Carriage |-> <<>>] /\ dropped = [c \in Carriage |-> 0]
  /\ inside = [p \in Passenger |-> Nobody] /\ rides = [p \in Passenger |-> 0]
  /\ lastLeft = carriageCount - 1

-----------------------------------------------------------------------------
(* Moves of the threads.  A broadcast wakes all who wait; their names are  *)
(* those of the condition variables.                                       *)

CarriageGoto(c, there) == cpc' = [cpc EXCEPT ![c] = there]
PassengerGoto(p, there) == ppc' = [ppc EXCEPT ![p] = there]

Woken(here) == CASE here = "turnwait" -> "turn"
                 [] here = "boardwait" -> "boarded"
                 [] here = "presswait" -> "pressed"
                 [] here = "dropwait" -> "dropdone"
                 [] here = "entrywait" -> "entry"
                 [] here = "buttonwait" -> "button"
                 [] here = "outwait" -> "out"
                 [] OTHER -> here

(* passengersWaitCond[p], at either of the places where p waits for it. *)
WakePassenger(p) == ppc' = [ppc EXCEPT ![p] = IF @ \in {"entrywait", "outwait"}
                                                THEN Woken(@) ELSE @]
(* Passenger p goes on and every carriage that waits at here is woken. *)
PassengerWakes(p, there, here) ==
  /\ PassengerGoto(p, there)
  /\ cpc' = [c \in Carriage |-> IF cpc[c] = here THEN Woken(here) ELSE cpc[c]]

carriagesWaitMutexFree == \A c \in Carriage : cpc[c] # "turnsleepy"
entryProcessMutexFree == \A p \in Passenger : ppc[p] # "entrysleepy"

-----------------------------------------------------------------------------
(* The carriage. *)

(* while (actualCarriageID != id): the test, and the wait. *)
CheckTurn(c) ==
  /\ cpc[c] = "turn" /\ carriagesWaitMutexFree
  /\ CarriageGoto(c, IF actualCarriageID = c THEN "open" ELSE "turnsleepy")
  /\ UNCHANGED <<turnVars, queueVars, handshakes, buttonPresser, ppc, carriageVars, seen>>

SleepTurn(c) ==
  /\ cpc[c] = "turnsleepy"
  /\ CarriageGoto(c, "turnwait")
  /\ UNCHANGED <<turnVars, queueVars, handshakes, buttonPresser, ppc, carriageVars, seen>>

(* The door opens; buttonPresser is reset without its mutex. *)
OpenDoor(c) ==
  /\ cpc[c] = "open"
  /\ buttonPresser' = Nobody
  /\ CarriageGoto(c, IF passengers[c] = <<>> THEN "board" ELSE "drop")
  /\ UNCHANGED <<turnVars, queueVars, handshakes, ppc, carriageVars, seen>>

(* Bug: the one who gets out is the first to get in again. *)
JumpsTheQueue(p) == passengerQueue' = <<p>> \o passengerQueue

addPassengerToQueue(p) == passengerQueue' = Append(passengerQueue, p)

(* Bug: the head is read and stays where it is. *)
LeavesTheHead == UNCHANGED passengerQueue

(* The queue is never empty here (QueueInv), where the code would exit. *)
getPassengerFromQueue == passengerQueue' = Tail(passengerQueue)

setPassengerState(p, state) ==
  /\ passengerState' = [passengerState EXCEPT ![p] = state]
  /\ WakePassenger(p)

NextPassenger(c) == passengers[c][dropped[c] + 1]

(* Bug: the carriage does not wait until the passenger is out. *)
DropsAndGoesOn(c) ==
  /\ cpc[c] = "drop"
  /\ carriageSeatsState' = [carriageSeatsState EXCEPT ![actualCarriageID] = @ - 1]
  /\ addPassengerToQueue(NextPassenger(c))
  /\ setPassengerState(NextPassenger(c), "WAIT")
  /\ waitForRelease' = FALSE
  /\ CarriageGoto(c, "dropdone")
  /\ UNCHANGED <<turnVars, waitForEntry, waitForButtonPress, buttonPresser,
                 carriageVars, seen>>

(* One passenger is told to get out, at the platform and after the last    *)
(* tour alike: it stands at the end of the queue before it is out.         *)
DropPassenger(c) ==
  /\ cpc[c] = "drop"
  /\ carriageSeatsState' = [carriageSeatsState EXCEPT ![actualCarriageID] = @ - 1]
  /\ addPassengerToQueue(NextPassenger(c))
  /\ setPassengerState(NextPassenger(c), "WAIT")
  /\ waitForRelease' = TRUE
  /\ CarriageGoto(c, "dropwait")
  /\ UNCHANGED <<turnVars, waitForEntry, waitForButtonPress, buttonPresser,
                 carriageVars, seen>>

AfterDrop(c) == IF dropped[c] + 1 < carriageCapacity THEN "drop"
                ELSE IF tour[c] > tourCount THEN "ended" ELSE "board"

DropDone(c) ==
  /\ cpc[c] = "dropdone" /\ ~waitForRelease
  /\ CarriageGoto(c, AfterDrop(c))
  /\ IF AfterDrop(c) = "drop"
       THEN dropped' = [dropped EXCEPT ![c] = @ + 1] /\ UNCHANGED passengers
       ELSE /\ dropped' = [dropped EXCEPT ![c] = 0]
            /\ passengers' = [passengers EXCEPT ![c] = <<>>]
  /\ UNCHANGED <<turnVars, queueVars, handshakes, buttonPresser, ppc, tour, seen>>

(* The first of the queue is told to get in. *)
BoardPassenger(c) ==
  /\ cpc[c] = "board" /\ entryProcessMutexFree
  /\ getPassengerFromQueue
  /\ passengers' = [passengers EXCEPT ![c] = Append(@, Head(passengerQueue))]
  /\ carriageSeatsState' = [carriageSeatsState EXCEPT ![actualCarriageID] = @ + 1]
  /\ waitForEntry' = TRUE
  /\ setPassengerState(Head(passengerQueue), "IN_CARRIAGE")
  /\ CarriageGoto(c, "boardwait")
  /\ UNCHANGED <<turnVars, waitForButtonPress, waitForRelease, buttonPresser, tour,
                 dropped, seen>>

Boarded(c) ==
  /\ cpc[c] = "boarded" /\ entryProcessMutexFree /\ ~waitForEntry
  /\ CarriageGoto(c, IF Len(passengers[c]) < carriageCapacity THEN "board" ELSE "press")
  /\ UNCHANGED <<turnVars, queueVars, handshakes, buttonPresser, ppc, carriageVars, seen>>

(* One of the passengers, at random, is to press the button. *)
ChoosePresser(c) ==
  /\ cpc[c] = "press"
  /\ \E k \in 1 .. carriageCapacity : buttonPresser' = passengers[c][k]
  /\ waitForButtonPress' = TRUE
  /\ CarriageGoto(c, "presswait")
  /\ ppc' = [p \in Passenger |-> IF ppc[p] = "buttonwait" THEN "button" ELSE ppc[p]]
  /\ UNCHANGED <<turnVars, queueVars, waitForEntry, waitForRelease, carriageVars, seen>>

NextCarriage == IF actualCarriageID = carriageCount - 1 THEN endedCarriage'
                                                        ELSE actualCarriageID + 1

WakeCarriage(w, c, there) ==
  cpc' = [d \in Carriage |-> IF d = c THEN there
                             ELSE IF d = w THEN IF cpc[d] = "turnwait" THEN "turn" ELSE cpc[d]
                             ELSE cpc[d]]

(* Bug: the carriage makes room although it is going to stay. *)
DepartsTwice(c) ==
  /\ cpc[c] = "pressed" /\ ~waitForButtonPress
  /\ tour' = [tour EXCEPT ![c] = @ + 1]
  /\ UNCHANGED endedCarriage
  /\ actualCarriageID' = NextCarriage /\ lastLeft' = c
  /\ WakeCarriage(actualCarriageID', c, IF tour[c] = tourCount THEN "drop" ELSE "turn")
  /\ UNCHANGED <<queueVars, handshakes, buttonPresser, ppc, passengers, dropped, seen>>

(* The ride.  On the last one the carriage stays at the platform. *)
StartRide(c) ==
  /\ cpc[c] = "pressed" /\ ~waitForButtonPress
  /\ tour' = [tour EXCEPT ![c] = @ + 1]
  /\ UNCHANGED endedCarriage
  /\ IF tour[c] = tourCount
       THEN CarriageGoto(c, "drop") /\ UNCHANGED <<actualCarriageID, lastLeft>>
       ELSE /\ actualCarriageID' = NextCarriage /\ lastLeft' = c
            /\ WakeCarriage(actualCarriageID', c, "turn")
  /\ UNCHANGED <<queueVars, handshakes, buttonPresser, ppc, passengers, dropped, seen>>

(* endedCarriage++ and the next carriage's turn, without a mutex.  Only    *)
(* the carriage at the platform does this.                                 *)
EndCarriage(c) ==
  /\ cpc[c] = "ended"
  /\ endedCarriage' = endedCarriage + 1
  /\ actualCarriageID' = NextCarriage /\ lastLeft' = c
  /\ CarriageGoto(c, "test")
  /\ UNCHANGED <<queueVars, handshakes, buttonPresser, ppc, carriageVars, seen>>

(* actualCarriageID is read again for the broadcast: by then the next      *)
(* carriages may have changed it.                                          *)
TestNext(c) ==
  /\ cpc[c] = "test"
  /\ CarriageGoto(c, IF actualCarriageID # carriageCount THEN "wakenext" ELSE "wakeall")
  /\ UNCHANGED <<turnVars, queueVars, handshakes, buttonPresser, ppc, carriageVars, seen>>

(* A broadcast behind the end of carriagesWaitCond wakes nobody. *)
WakeNext(c) ==
  /\ cpc[c] = "wakenext"
  /\ WakeCarriage(actualCarriageID, c, "wakeall")
  /\ UNCHANGED <<turnVars, queueVars, handshakes, buttonPresser, ppc, carriageVars, seen>>

(* The passengers' states are read and the broadcasts sent without a mutex. *)
WakeAll(c) ==
  /\ cpc[c] = "wakeall"
  /\ ppc' = [p \in Passenger |-> IF passengerState[p] = "WAIT" /\ ppc[p] \in {"entrywait", "outwait"}
                                   THEN Woken(ppc[p]) ELSE ppc[p]]
  /\ CarriageGoto(c, "done")
  /\ UNCHANGED <<turnVars, queueVars, handshakes, buttonPresser, carriageVars, seen>>

threadCarriage(c) ==
  \/ CheckTurn(c) \/ SleepTurn(c) \/ OpenDoor(c) \/ DropPassenger(c) \/ DropDone(c)
  \/ BoardPassenger(c) \/ Boarded(c) \/ ChoosePresser(c) \/ StartRide(c)
  \/ EndCarriage(c) \/ TestNext(c) \/ WakeNext(c) \/ WakeAll(c)

-----------------------------------------------------------------------------
(* The passenger. *)

Loop(p) ==
  /\ ppc[p] = "loop"
  /\ PassengerGoto(p, IF endedCarriage < carriageCount THEN "entry" ELSE "done")
  /\ UNCHANGED <<turnVars, queueVars, handshakes, buttonPresser, cpc, carriageVars, seen>>

(* while (passengerState[id] == WAIT && endedCarriage < carriageCount) *)
CheckEntry(p) ==
  /\ ppc[p] = "entry" /\ entryProcessMutexFree
  /\ endedCarriage >= carriageCount \/ passengerState[p] = "WAIT"
  /\ PassengerGoto(p, IF endedCarriage < carriageCount THEN "entrysleepy" ELSE "done")
  /\ UNCHANGED <<turnVars, queueVars, handshakes, buttonPresser, cpc, carriageVars, seen>>

SleepEntry(p) ==
  /\ ppc[p] = "entrysleepy"
  /\ PassengerGoto(p, "entrywait")
  /\ UNCHANGED <<turnVars, queueVars, handshakes, buttonPresser, cpc, carriageVars, seen>>

EnterCarriage(p) ==
  /\ ppc[p] = "entry" /\ entryProcessMutexFree
  /\ endedCarriage < carriageCount /\ passengerState[p] = "IN_CARRIAGE"
  /\ waitForEntry' = FALSE
  /\ PassengerWakes(p, "button", "boardwait")
  /\ inside' = [inside EXCEPT ![p] = actualCarriageID]
  /\ rides' = [rides EXCEPT ![p] = @ + 1]
  /\ UNCHANGED <<turnVars, queueVars, waitForButtonPress, waitForRelease, buttonPresser,
                 carriageVars>>

(* while (buttonPresser == -1): a passenger who comes late may find the    *)
(* next carriage's reset.                                                  *)
WaitForButton(p) ==
  /\ ppc[p] = "button" /\ buttonPresser = Nobody
  /\ PassengerGoto(p, "buttonwait")
  /\ UNCHANGED <<turnVars, queueVars, handshakes, buttonPresser, cpc, carriageVars, seen>>

(* Bug: the carriage is not told. *)
PressesSilently(p) ==
  /\ ppc[p] = "button" /\ buttonPresser = p
  /\ waitForButtonPress' = FALSE
  /\ PassengerGoto(p, "out")
  /\ UNCHANGED <<turnVars, queueVars, waitForEntry, waitForRelease, buttonPresser, cpc,
                 carriageVars, seen>>

(* The broadcast also wakes the passengers who wait for the same condition. *)
PressButton(p) ==
  /\ ppc[p] = "button" /\ buttonPresser = p
  /\ waitForButtonPress' = FALSE
  /\ PassengerWakes(p, "out", "presswait")
  /\ UNCHANGED <<turnVars, queueVars, waitForEntry, waitForRelease, buttonPresser,
                 carriageVars, seen>>

SeeButton(p) ==
  /\ ppc[p] = "button" /\ buttonPresser \notin {Nobody, p}
  /\ PassengerGoto(p, "out")
  /\ UNCHANGED <<turnVars, queueVars, handshakes, buttonPresser, cpc, carriageVars, seen>>

WaitForStop(p) ==
  /\ ppc[p] = "out" /\ passengerState[p] = "IN_CARRIAGE"
  /\ PassengerGoto(p, "outwait")
  /\ UNCHANGED <<turnVars, queueVars, handshakes, buttonPresser, cpc, carriageVars, seen>>

LeaveCarriage(p) ==
  /\ ppc[p] = "out" /\ passengerState[p] = "WAIT"
  /\ waitForRelease' = FALSE
  /\ PassengerWakes(p, "loop", "dropwait")
  /\ inside' = [inside EXCEPT ![p] = Nobody]
  /\ UNCHANGED <<turnVars, queueVars, waitForEntry, waitForButtonPress, buttonPresser,
                 carriageVars, rides>>

threadPassenger(p) ==
  \/ Loop(p) \/ CheckEntry(p) \/ SleepEntry(p) \/ EnterCarriage(p)
  \/ WaitForButton(p) \/ PressButton(p) \/ SeeButton(p)
  \/ WaitForStop(p) \/ LeaveCarriage(p)

AllEnded == (\A c \in Carriage : cpc[c] = "done") /\ (\A p \in Passenger : ppc[p] = "done")

Terminated == AllEnded /\ UNCHANGED vars

Next == \/ \E c \in Carriage : threadCarriage(c)
        \/ \E p \in Passenger : threadPassenger(p)
        \/ Terminated

Spec == Init /\ [][Next]_vars

(* Every thread that can run does, and none is refused a mutex for ever. *)
Fairness == /\ \A c \in Carriage : SF_vars(threadCarriage(c))
            /\ \A p \in Passenger : SF_vars(threadPassenger(p))

FairSpec == Spec /\ Fairness

-----------------------------------------------------------------------------
(* Properties. *)

TypeOK ==
  /\ actualCarriageID \in 0 .. carriageCount /\ endedCarriage \in 0 .. carriageCount
  /\ passengerQueue \in Seq(Passenger)
  /\ passengerState \in [Passenger -> {"WAIT", "IN_CARRIAGE"}]
  /\ carriageSeatsState \in [Carriage -> 0 .. carriageCapacity]
  /\ waitForEntry \in BOOLEAN /\ waitForButtonPress \in BOOLEAN /\ waitForRelease \in BOOLEAN
  /\ buttonPresser \in Passenger \cup {Nobody}
  /\ cpc \in [Carriage -> {"turn", "turnsleepy", "turnwait", "open", "drop", "dropwait",
                           "dropdone", "board", "boardwait", "boarded", "press", "presswait",
                           "pressed", "ended", "test", "wakenext", "wakeall", "done"}]
  /\ ppc \in [Passenger -> {"loop", "entry", "entrysleepy", "entrywait", "button",
                            "buttonwait", "out", "outwait", "done"}]
  /\ tour \in [Carriage -> 1 .. tourCount + 1]
  /\ passengers \in [Carriage -> Seq(Passenger)]
  /\ dropped \in [Carriage -> 0 .. carriageCapacity - 1]
  /\ inside \in [Passenger -> Carriage \cup {Nobody}] /\ rides \in [Passenger -> Nat]
  /\ lastLeft \in Carriage

AtPlatform(c) == cpc[c] \in {"open", "drop", "dropwait", "dropdone", "board", "boardwait",
                             "boarded", "press", "presswait", "pressed", "ended"}

(* A carriage is at the platform only in its turn, after the one in front  *)
(* of it has left: there is one at a time, and none overtakes another.     *)
PlatformInv ==
  /\ TypeOK
  /\ \A c \in Carriage : AtPlatform(c) =>
       actualCarriageID = c /\ c = (lastLeft + 1) % carriageCount

Seated(c) == {passengers[c][i] : i \in dropped[c] + 1 .. Len(passengers[c])}

(* Whom the carriage c has not yet told to get out. *)
Kept(c) == Seated(c) \ IF cpc[c] \in {"dropwait", "dropdone"} THEN {NextPassenger(c)} ELSE {}

(* Every passenger is exactly once in the queue or in one carriage, as its *)
(* state says, and the queue is never empty when a carriage asks for one.  *)
OnePlaceEach ==
  /\ \A p \in Passenger :
       /\ passengerState[p] = "WAIT" <=> p \in Range(passengerQueue)
       /\ passengerState[p] = "IN_CARRIAGE" <=> \E c \in Carriage : p \in Kept(c)
  /\ \A c, d \in Carriage : c # d => Kept(c) \cap Kept(d) = {}

QueueInv ==
  /\ Cardinality(Range(passengerQueue)) = Len(passengerQueue)
  /\ OnePlaceEach
  /\ \A c \in Carriage : cpc[c] = "board" => passengerQueue # <<>>

Inside(c) == {p \in Passenger : inside[p] = c}

(* README, what is inadmissible: nobody gets in while one of the previous  *)
(* ride is inside, there are never more than carriageCapacity inside, and  *)
(* the button is pressed when exactly so many are.                         *)
SafeRide ==
  \A c \in Carriage :
    /\ cpc[c] \in {"board", "boardwait", "boarded"} =>
         Inside(c) \subseteq Seated(c) /\ Cardinality(Inside(c)) <= carriageCapacity
    /\ cpc[c] \in {"press", "presswait", "pressed"} =>
         Inside(c) = Seated(c) /\ Cardinality(Inside(c)) = carriageCapacity
    /\ AtPlatform(c) => carriageSeatsState[c] = Cardinality(Kept(c))

(* README, no starvation: as long as all carriages run no passenger is two *)
(* rides ahead of another.  (The passengers of a carriage that has ended   *)
(* stand in the queue before those of the next.)                           *)
FairRides ==
  endedCarriage = 0 => \A p, q \in Passenger : rides[p] <= rides[q] + 1

(* What the above rest on.  The carriages make their tours in turn, and    *)
(* those whose last tour is over are the first endedCarriage of them.      *)
Over(c) == cpc[c] \in {"test", "wakenext", "wakeall", "done"}
Dropping == {"drop", "dropwait", "dropdone"}

Round(r) ==
  /\ endedCarriage > 0 => r = tourCount
  /\ endedCarriage = 0 /\ actualCarriageID > 0 => r < tourCount
  /\ \A c \in Carriage :
       /\ c < actualCarriageID => tour[c] = r + 1
       /\ c > actualCarriageID => tour[c] = r
       /\ c = actualCarriageID =>
            \/ tour[c] = r /\ cpc[c] # "ended"
            \/ r = tourCount /\ tour[c] = r + 1 /\ cpc[c] \in Dropping \cup {"ended"}

RoundInv ==
  /\ \A c \in Carriage : Over(c) <=> c < endedCarriage
  /\ IF endedCarriage > 0 THEN actualCarriageID = endedCarriage
                          ELSE actualCarriageID \in Carriage
  /\ actualCarriageID \in Carriage => actualCarriageID = (lastLeft + 1) % carriageCount
  /\ \A c \in Carriage : AtPlatform(c) => actualCarriageID = c
  /\ \E r \in 1 .. tourCount : Round(r)

NoRepeats(s) == \A i, j \in DOMAIN s : s[i] = s[j] => i = j

(* How many passengers a carriage has, wherever it is. *)
Told(c) == IF cpc[c] \in {"dropwait", "dropdone"} THEN 1 ELSE 0

Seating(c) ==
  /\ NoRepeats(passengers[c]) /\ Len(passengers[c]) <= carriageCapacity
  /\ cpc[c] \in {"turn", "turnsleepy", "turnwait", "open"} =>
       Len(passengers[c]) \in {0, carriageCapacity}
  /\ cpc[c] = "board" => Len(passengers[c]) < carriageCapacity
  /\ cpc[c] \in {"boardwait", "boarded"} => Len(passengers[c]) > 0
  /\ cpc[c] \in {"press", "presswait", "pressed"} \cup Dropping =>
       Len(passengers[c]) = carriageCapacity
  /\ cpc[c] = "ended" \/ Over(c) => passengers[c] = <<>>
  /\ cpc[c] \notin Dropping => dropped[c] = 0
  /\ carriageSeatsState[c] = Len(passengers[c]) - dropped[c] - Told(c)

(* Who sits in a carriage: those it has, except the one who is told to get *)
(* in and has not done it, and the one who has got out.                    *)
Awaited(c) ==
  CASE cpc[c] \in {"boardwait", "boarded"} /\ waitForEntry ->
         {passengers[c][Len(passengers[c])]}
    [] cpc[c] \in {"dropwait", "dropdone"} /\ ~waitForRelease -> {NextPassenger(c)}
    [] OTHER -> {}

InsideInv ==
  /\ \A c \in Carriage : Inside(c) = Seated(c) \ Awaited(c)
  /\ \A p \in Passenger :
       inside[p] = Nobody <=> ppc[p] \in {"loop", "entry", "entrysleepy", "entrywait", "done"}

SeatsInv ==
  /\ TypeOK /\ RoundInv /\ \A c \in Carriage : Seating(c)
  /\ NoRepeats(passengerQueue) /\ OnePlaceEach /\ InsideInv

(* The passengers ride in this order: those in the queue, then those of    *)
(* the carriages as these come to let them out, last those who have got in *)
(* at the platform.                                                        *)
Boarding(c) == cpc[c] \in {"board", "boardwait", "boarded", "press", "presswait", "pressed"}

Turn(c) == IF c < actualCarriageID \/ Boarding(c) THEN c + carriageCount - actualCarriageID
                                                  ELSE c - actualCarriageID

InOrder(s, k, p, q) == \E i, j \in k + 1 .. Len(s) : i < j /\ s[i] = p /\ s[j] = q

RidesBefore(p, q) ==
  \/ InOrder(passengerQueue, 0, p, q)
  \/ p \in Range(passengerQueue) /\ q \notin Range(passengerQueue)
  \/ \E c \in Carriage : InOrder(passengers[c], dropped[c] + Told(c), p, q)
  \/ \E c, d \in Carriage : Turn(c) < Turn(d) /\ p \in Kept(c) /\ q \in Kept(d)

(* The rides of a passenger with the one he is told to get in for.  Nobody *)
(* has had more than those behind him, and none of them two more.          *)
Due(p) == rides[p] + IF passengerState[p] = "IN_CARRIAGE" /\ inside[p] = Nobody THEN 1 ELSE 0

Order == \A p, q \in Passenger :
           RidesBefore(p, q) => Due(p) <= Due(q) /\ Due(q) <= Due(p) + 1

(* After its last ride the first carriage lets its passengers out out of   *)
(* turn; until it has ended nobody gets in.                                *)
OrderInv ==
  endedCarriage = 0 =>
    IF tour[actualCarriageID] <= tourCount
      THEN Order
      ELSE \A p, q \in Passenger : rides[p] <= rides[q] + 1

IInv == SeatsInv /\ OrderInv

(* The ways in which the threads can come to a standstill: a carriage has  *)
(* missed its turn; a passenger who came late to the button waits for the  *)
(* next ride in a carriage that waits for him to get out; or passengers    *)
(* have missed the end.                                                    *)
MissedTurn == \E c \in Carriage : cpc[c] = "turnwait" /\ actualCarriageID = c

LateAtButton ==
  \E p \in Passenger : /\ ppc[p] = "buttonwait" /\ passengerState[p] = "WAIT"
                       /\ buttonPresser = Nobody /\ waitForRelease
                       /\ cpc[inside[p]] = "dropwait"

MissedEnd == /\ \A c \in Carriage : cpc[c] = "done"
             /\ \A p \in Passenger : ppc[p] \in {"entrywait", "done"}

Stuck == ~ENABLED (\/ \E c \in Carriage : threadCarriage(c)
                   \/ \E p \in Passenger : threadPassenger(p))

(* There are no other ways: every other wait in the program is ended by    *)
(* the thread that is responsible for it.                                  *)
StuckOnlyAs == Stuck => AllEnded \/ MissedTurn \/ LateAtButton \/ MissedEnd

(* lab9/README: each carriage makes its n rides and then ends its work.    *)
CarriagesFinish == <>(\A c \in Carriage : cpc[c] = "done")

(* lab9/README: the passengers' threads run as long as a carriage does.    *)
PassengersFinish ==
  (\A c \in Carriage : cpc[c] = "done") ~> (\A p \in Passenger : ppc[p] = "done")

=============================================================================
