---------------------------- MODULE SignalsCount ----------------------------
(***************************************************************************)
(* lab4 zad3a: the sender sends a number of signals and one that ends the  *)
(* transmission; the catcher counts them, sends as many back and ends in   *)
(* the same way.  The catcher goes on with the next sender and does not    *)
(* reset its count.  Both get the same mode.                               *)
(*                                                                         *)
(* Handlers block both signals.  The sender is one process at a time.      *)
(***************************************************************************)
EXTENDS Signals

CONSTANTS Limits,     \* the numbers of signals that senders are told to send
          MaxSenders  \* bound: senders, one after another

CountAssumption == Limits \subseteq Nat /\ MaxSenders \in Nat

VARIABLES mode,
          senders,                            \* how many have been started
          spc, signalsLimit, sent, receivedSignalsCount, toSender,
          cpc, sigCount, sentBack, toCatcher

senderVars == <<senders, spc, signalsLimit, sent, receivedSignalsCount>>
catcherVars == <<cpc, sigCount, sentBack>>
vars == <<mode, senderVars, toSender, catcherVars, toCatcher>>

Init ==
  /\ mode = 0 /\ senders = 0
  /\ spc = "ended" /\ signalsLimit = 0 /\ sent = 0 /\ receivedSignalsCount = 0
  /\ toSender = NonePending
  /\ cpc = "new" /\ sigCount = 0 /\ sentBack = 0 /\ toCatcher = NonePending

StartCatcher ==
  /\ cpc = "new" /\ cpc' = "pause"
  /\ mode' \in Mode
  /\ UNCHANGED <<senderVars, toSender, sigCount, sentBack, toCatcher>>

StartSender ==
  /\ cpc # "new" /\ spc = "ended" /\ senders < MaxSenders
  /\ senders' = senders + 1
  /\ spc' = "send" /\ signalsLimit' \in Limits
  /\ sent' = 0 /\ receivedSignalsCount' = 0
  /\ toSender' = NonePending
  /\ UNCHANGED <<mode, catcherVars, toCatcher>>

(* sendSignalsKill, sendSignalsSigQueue and sendSignalsRT. *)
sendSignals ==
  /\ spc = "send"
  /\ IF sent < signalsLimit
       THEN /\ sent' = sent + 1
            /\ toCatcher' = With(toCatcher, First(mode))
            /\ UNCHANGED spc
       ELSE /\ spc' = "pause"
            /\ toCatcher' = With(toCatcher, Last(mode))
            /\ UNCHANGED sent
  /\ UNCHANGED <<mode, senders, signalsLimit, receivedSignalsCount, toSender, catcherVars>>

handleReceiver ==
  /\ cpc = "pause" /\ Delivers(toCatcher, First(mode))
  /\ toCatcher' = Without(toCatcher, First(mode))
  /\ sigCount' = sigCount + 1
  /\ UNCHANGED <<mode, senderVars, toSender, cpc, sentBack>>

handleSender ==
  /\ cpc = "pause" /\ Delivers(toCatcher, Last(mode))
  /\ toCatcher' = Without(toCatcher, Last(mode))
  /\ cpc' = "sending" /\ sentBack' = 0
  /\ UNCHANGED <<mode, senderVars, toSender, sigCount>>

(* The loop of handleSender, and the signal behind it. *)
SendBack ==
  /\ cpc = "sending"
  /\ IF sentBack < sigCount
       THEN /\ sentBack' = sentBack + 1
            /\ toSender' = With(toSender, First(mode))
            /\ UNCHANGED cpc
       ELSE /\ cpc' = "pause"
            /\ toSender' = With(toSender, Last(mode))
            /\ UNCHANGED sentBack
  /\ UNCHANGED <<mode, senderVars, sigCount, toCatcher>>

handleSignalFromCatcher ==
  /\ spc \in {"send", "pause"} /\ Delivers(toSender, First(mode))
  /\ toSender' = Without(toSender, First(mode))
  /\ receivedSignalsCount' = receivedSignalsCount + 1
  /\ UNCHANGED <<mode, senders, spc, signalsLimit, sent, catcherVars, toCatcher>>

handleEndSignal ==
  /\ spc \in {"send", "pause"} /\ Delivers(toSender, Last(mode))
  /\ toSender' = Without(toSender, Last(mode))
  /\ spc' = "ended"
  /\ UNCHANGED <<mode, senders, signalsLimit, sent, receivedSignalsCount, catcherVars, toCatcher>>

Next == \/ StartCatcher \/ StartSender \/ sendSignals \/ handleReceiver \/ handleSender
        \/ SendBack \/ handleSignalFromCatcher \/ handleEndSignal

Spec == Init /\ [][Next]_vars

-----------------------------------------------------------------------------
(* Properties. *)

(* What a sender reports when it ends.  Signals are lost, but the last one *)
(* never overtakes the others, so that at least one arrives where one was  *)
(* sent; and with real time signals none is lost in either direction       *)
(* (handleReceiver, handleSender, handleEndSignal).                        *)
Counted ==
  spc = "ended" /\ senders > 0 =>
    /\ toCatcher = NonePending
    /\ receivedSignalsCount <= sigCount
    /\ sigCount > 0 => receivedSignalsCount > 0
    /\ signalsLimit > 0 => sigCount > 0
    /\ mode = 3 => receivedSignalsCount = sigCount
    /\ senders = 1 => sigCount <= signalsLimit /\ (mode = 3 => sigCount = signalsLimit)

(* What is under way to one of the two, besides a number of signals: last  *)
(* times the one that ends the transmission.                               *)
Pending(pending, last) ==
  /\ pending \in [Signal -> Nat] /\ pending[Last(mode)] = last
  /\ \A s \in Signal \ {First(mode), Last(mode)} : pending[s] = 0

Numbers ==
  /\ senders \in Nat /\ signalsLimit \in Nat /\ sent \in Nat /\ receivedSignalsCount \in Nat
  /\ sigCount \in Nat /\ sentBack \in Nat
  /\ cpc = "new" \/ mode \in Mode

(* Nobody has sent yet. *)
Before ==
  /\ senders = 0 /\ spc = "ended" /\ cpc \in {"new", "pause"} /\ sigCount = 0
  /\ toCatcher = NonePending

(* A sender sends or has sent its signals, and the last one is not there.  *)
Sending ==
  /\ senders > 0 /\ spc \in {"send", "pause"} /\ cpc = "pause"
  /\ Pending(toCatcher, IF spc = "pause" THEN 1 ELSE 0) /\ toSender = NonePending
  /\ receivedSignalsCount = 0
  /\ sent <= signalsLimit /\ (spc = "pause" => sent = signalsLimit)
  /\ sent > 0 => sigCount + toCatcher[First(mode)] > 0
  /\ senders = 1 => /\ sigCount + toCatcher[First(mode)] <= sent
                    /\ mode = 3 => sigCount + toCatcher[First(mode)] = sent

(* What the catcher has counted when the last one is there. *)
Total ==
  /\ signalsLimit > 0 => sigCount > 0
  /\ senders = 1 => /\ sigCount <= signalsLimit
                    /\ mode = 3 => sigCount = signalsLimit

(* The catcher sends or has sent them back. *)
Returning ==
  /\ senders > 0 /\ spc = "pause" /\ cpc \in {"sending", "pause"} /\ toCatcher = NonePending
  /\ Pending(toSender, IF cpc = "pause" THEN 1 ELSE 0)
  /\ sentBack <= sigCount /\ (cpc = "pause" => sentBack = sigCount)
  /\ receivedSignalsCount + toSender[First(mode)] <= sentBack
  /\ sentBack > 0 => receivedSignalsCount + toSender[First(mode)] > 0
  /\ mode = 3 => receivedSignalsCount + toSender[First(mode)] = sentBack
  /\ Total

Reported ==
  /\ senders > 0 /\ spc = "ended" /\ cpc = "pause" /\ toCatcher = NonePending
  /\ receivedSignalsCount <= sigCount /\ (sigCount > 0 => receivedSignalsCount > 0)
  /\ mode = 3 => receivedSignalsCount = sigCount
  /\ Total

(* The phases of a transmission: why it ends as Counted says.              *)
IInv == Numbers /\ (Before \/ Sending \/ Returning \/ Reported)

(* "the catcher sends the sender as many signals as it has got" and ends   *)
(* (lab4/README.md:28): no sender is sent more than it sent itself.        *)
NoMoreThanSent == spc = "ended" => receivedSignalsCount <= sent
=============================================================================
