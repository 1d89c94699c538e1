----------------------------- MODULE SignalsAck -----------------------------
(***************************************************************************)
(* lab4 zad3b: as zad3a, with every signal confirmed by a SIGUSR1 before   *)
(* the next is sent.  Both programs use one handler for the signals and    *)
(* the confirmations and tell them apart by who is sending now.            *)
(*                                                                         *)
(* A handler blocks all the signals in use, so it is one step; what it     *)
(* sends is delivered when the other process is not in a handler.          *)
(***************************************************************************)
EXTENDS Signals

CONSTANT Limits       \* the numbers of signals that the sender is told to send

AckAssumption == Limits \subseteq Nat

VARIABLES mode,
          spc, signalsLimit, sendSignalCount, receivedConfirmationCount,
          receivedSignalsCount, senderMode, toSender,
          cpc, sigCount, sendSigCount, confirmationSigCount, receiverMode, toCatcher

senderVars == <<spc, signalsLimit, sendSignalCount, receivedConfirmationCount,
                receivedSignalsCount, senderMode>>
catcherVars == <<cpc, sigCount, sendSigCount, confirmationSigCount, receiverMode>>
vars == <<mode, senderVars, toSender, catcherVars, toCatcher>>

Init ==
  /\ mode = 0
  /\ spc = "new" /\ signalsLimit = 0 /\ sendSignalCount = 0 /\ receivedConfirmationCount = 0
  /\ receivedSignalsCount = 0 /\ senderMode = TRUE /\ toSender = NonePending
  /\ cpc = "pause" /\ sigCount = 0 /\ sendSigCount = 0 /\ confirmationSigCount = 0
  /\ receiverMode = TRUE /\ toCatcher = NonePending

-----------------------------------------------------------------------------
(* The sender. *)

(* The next signal, if there is one left, and the last one if it is asked  *)
(* for; pending is what is left for the catcher, limit the limit.          *)
sendSignal(m, limit, lastSig) ==
  LET next == IF limit > sendSignalCount THEN With(toCatcher, First(m)) ELSE toCatcher
  IN /\ sendSignalCount' = IF limit > sendSignalCount THEN sendSignalCount + 1
                           ELSE sendSignalCount
     /\ toCatcher' = IF lastSig THEN With(next, Last(m)) ELSE next

Start ==
  /\ spc = "new" /\ spc' = "pause"
  /\ mode' \in Mode /\ signalsLimit' \in Limits
  /\ sendSignal(mode', signalsLimit', FALSE)
  /\ UNCHANGED <<receivedConfirmationCount, receivedSignalsCount, senderMode, toSender,
                 catcherVars>>

(* A signal of the catcher: it is counted and confirmed. *)
SenderCounts(s) ==
  /\ spc = "pause" /\ ~senderMode
  /\ s \in {First(mode), SIGUSR1} /\ Delivers(toSender, s)
  /\ toSender' = Without(toSender, s)
  /\ receivedSignalsCount' = receivedSignalsCount + 1
  /\ toCatcher' = With(toCatcher, SIGUSR1)
  /\ UNCHANGED <<mode, spc, signalsLimit, sendSignalCount, receivedConfirmationCount, senderMode,
                 catcherVars>>

(* Bug: after the last confirmation the sender goes on as a sender. *)
StaysSender(s) ==
  /\ spc = "pause" /\ senderMode
  /\ s \in {First(mode), SIGUSR1} /\ Delivers(toSender, s)
  /\ toSender' = Without(toSender, s)
  /\ receivedConfirmationCount' = receivedConfirmationCount + 1
  /\ sendSignal(mode, signalsLimit, receivedConfirmationCount' = signalsLimit)
  /\ UNCHANGED <<mode, spc, signalsLimit, receivedSignalsCount, senderMode, catcherVars>>

(* A confirmation: the next signal, or the last one. *)
SenderConfirmed(s) ==
  /\ spc = "pause" /\ senderMode
  /\ s \in {First(mode), SIGUSR1} /\ Delivers(toSender, s)
  /\ toSender' = Without(toSender, s)
  /\ receivedConfirmationCount' = receivedConfirmationCount + 1
  /\ senderMode' = (receivedConfirmationCount' # signalsLimit)
  /\ sendSignal(mode, signalsLimit, ~senderMode')
  /\ UNCHANGED <<mode, spc, signalsLimit, receivedSignalsCount, catcherVars>>

SenderEnds ==
  /\ spc = "pause" /\ Delivers(toSender, Last(mode))
  /\ toSender' = Without(toSender, Last(mode))
  /\ toCatcher' = With(toCatcher, SIGUSR1)
  /\ spc' = "ended"
  /\ UNCHANGED <<mode, signalsLimit, sendSignalCount, receivedConfirmationCount,
                 receivedSignalsCount, senderMode, catcherVars>>

-----------------------------------------------------------------------------
(* The catcher. *)

(* The next signal back, or the last one. *)
SendBack(pending) ==
  IF sendSigCount < sigCount
    THEN /\ sendSigCount' = sendSigCount + 1
         /\ toSender' = With(pending, First(mode))
    ELSE /\ toSender' = With(pending, Last(mode))
         /\ UNCHANGED sendSigCount

CatcherCounts(s) ==
  /\ cpc = "pause" /\ receiverMode
  /\ s \in {First(mode), SIGUSR1} /\ Delivers(toCatcher, s)
  /\ toCatcher' = Without(toCatcher, s)
  /\ sigCount' = sigCount + 1
  /\ toSender' = With(toSender, SIGUSR1)
  /\ UNCHANGED <<mode, senderVars, cpc, sendSigCount, confirmationSigCount, receiverMode>>

(* A confirmation: the next signal, or it was that of the last one.        *)
CatcherConfirmed(s) ==
  /\ cpc = "pause" /\ ~receiverMode
  /\ s \in {First(mode), SIGUSR1} /\ Delivers(toCatcher, s)
  /\ toCatcher' = Without(toCatcher, s)
  /\ IF confirmationSigCount # sigCount
       THEN /\ confirmationSigCount' = confirmationSigCount + 1
            /\ SendBack(toSender)
            /\ UNCHANGED cpc
       ELSE /\ cpc' = "ended"
            /\ UNCHANGED <<confirmationSigCount, toSender, sendSigCount>>
  /\ UNCHANGED <<mode, senderVars, sigCount, receiverMode>>

CatcherTurns ==
  /\ cpc = "pause" /\ Delivers(toCatcher, Last(mode))
  /\ toCatcher' = Without(toCatcher, Last(mode))
  /\ receiverMode' = FALSE
  /\ SendBack(toSender)
  /\ UNCHANGED <<mode, senderVars, cpc, sigCount, confirmationSigCount>>

Step == \/ SenderEnds \/ CatcherTurns
        \/ \E s \in {SIGUSR1, RTMIN1} : SenderCounts(s) \/ SenderConfirmed(s)
                                         \/ CatcherCounts(s) \/ CatcherConfirmed(s)
Next == Start \/ Step

Spec == Init /\ [][Next]_vars

-----------------------------------------------------------------------------
(* Properties. *)

InFlight == ({"sender"} \X {s \in Signal : toSender[s] > 0})
              \cup ({"catcher"} \X {s \in Signal : toCatcher[s] > 0})

(* "a solution in which as many signals are received as are sent, and      *)
(* without deadlock" (lab4/README.md:38).  At most one signal is under way *)
(* in all, so none is lost in the other; somebody can always go on until   *)
(* both programs have ended; and then all the counts are the same.  It is  *)
(* so for every limit but 0, with which nothing is ever sent.              *)
Agree ==
  /\ \A x, y \in InFlight : x = y
  /\ signalsLimit > 0 /\ InFlight = {} => spc = "ended" /\ cpc = "ended"
  /\ spc = "ended" /\ cpc = "ended" =>
       /\ sigCount = signalsLimit /\ sendSignalCount = signalsLimit
       /\ receivedSignalsCount = signalsLimit /\ sendSigCount = signalsLimit

(* The same for every limit. *)
EndsAlways == spc # "new" /\ InFlight = {} => spc = "ended" /\ cpc = "ended"

-----------------------------------------------------------------------------
(* The phases of a transmission: why Agree holds. *)

One(s) == With(NonePending, s)

(* Nobody has started, or the limit is 0 and nobody ever sends. *)
Quiet ==
  /\ spc \in {"new", "pause"} /\ cpc = "pause" /\ senderMode /\ receiverMode
  /\ spc = "new" => mode = 0
  /\ signalsLimit = 0
  /\ toSender = NonePending /\ toCatcher = NonePending
  /\ sendSignalCount = 0 /\ sigCount = 0 /\ receivedConfirmationCount = 0
  /\ sendSigCount = 0 /\ receivedSignalsCount = 0 /\ confirmationSigCount = 0

(* The sender transmits: a signal, its confirmation or the end is under way. *)
Forth ==
  /\ mode \in Mode /\ signalsLimit \in Nat \ {0}
  /\ spc = "pause" /\ cpc = "pause" /\ receiverMode
  /\ sendSigCount = 0 /\ receivedSignalsCount = 0 /\ confirmationSigCount = 0
  /\ \/ /\ senderMode /\ toSender = NonePending /\ toCatcher = One(First(mode))
        /\ sendSignalCount \in 1 .. signalsLimit
        /\ sigCount = sendSignalCount - 1 /\ receivedConfirmationCount = sendSignalCount - 1
     \/ /\ senderMode /\ toSender = One(SIGUSR1) /\ toCatcher = NonePending
        /\ sendSignalCount \in 1 .. signalsLimit
        /\ sigCount = sendSignalCount /\ receivedConfirmationCount = sendSignalCount - 1
     \/ /\ ~senderMode /\ toSender = NonePending /\ toCatcher = One(Last(mode))
        /\ sendSignalCount = signalsLimit /\ sigCount = signalsLimit

(* The catcher sends back as many. *)
Back ==
  /\ mode \in Mode /\ signalsLimit \in Nat \ {0}
  /\ cpc = "pause" /\ ~senderMode /\ ~receiverMode
  /\ sendSignalCount = signalsLimit /\ sigCount = signalsLimit
  /\ \/ /\ spc = "pause" /\ toSender = One(First(mode)) /\ toCatcher = NonePending
        /\ sendSigCount \in 1 .. signalsLimit
        /\ receivedSignalsCount = sendSigCount - 1 /\ confirmationSigCount = sendSigCount - 1
     \/ /\ spc = "pause" /\ toSender = NonePending /\ toCatcher = One(SIGUSR1)
        /\ sendSigCount \in 1 .. signalsLimit
        /\ receivedSignalsCount = sendSigCount /\ confirmationSigCount = sendSigCount - 1
     \/ /\ \/ spc = "pause" /\ toSender = One(Last(mode)) /\ toCatcher = NonePending
           \/ spc = "ended" /\ toSender = NonePending /\ toCatcher = One(SIGUSR1)
        /\ sendSigCount = signalsLimit /\ receivedSignalsCount = signalsLimit
        /\ confirmationSigCount = signalsLimit

Over ==
  /\ spc = "ended" /\ cpc = "ended"
  /\ toSender = NonePending /\ toCatcher = NonePending
  /\ sendSignalCount = signalsLimit /\ sigCount = signalsLimit
  /\ sendSigCount = signalsLimit /\ receivedSignalsCount = signalsLimit

IInv == Quiet \/ Forth \/ Back \/ Over

=============================================================================
