---------------------------- MODULE Labs_proofs ----------------------------
(***************************************************************************)
(* Proofs about Labs: the programs that handle signals, watch files or     *)
(* meet at sockets keep their counts, their backups, their pauses and      *)
(* their ports, for every number of processes, files and signals.  Each    *)
(* has an inductive invariant of its own, proved in a section of its own;  *)
(* the last section puts them together.                                    *)
(***************************************************************************)
EXTENDS Labs, FiniteSetTheorems, TLAPS

-----------------------------------------------------------------------------
(* lab4 zad3a: signals that are counted and sent back.                     *)

LEMMA CountKinds ==
  ASSUME NEW m \in Count!Mode
  PROVE  /\ Count!First(m) \in Count!Signal /\ Count!Last(m) \in Count!Signal
         /\ Count!First(m) < Count!Last(m) /\ Count!First(m) \in Nat /\ Count!Last(m) \in Nat
         /\ Count!First(m) < Count!RTMIN1 <=> m # 3
         /\ Count!Last(m) < Count!RTMIN1 <=> m # 3
  BY DEF Count!Mode, Count!First, Count!Last, Count!Signal, Count!SIGUSR1, Count!SIGUSR2,
         Count!RTMIN1, Count!RTMIN2

(* A signal that is sent: a standard one that is pending already is lost.  *)
LEMMA CountSends ==
  ASSUME mode \in Count!Mode, NEW p, NEW last \in {0, 1}, Count!Pending(p, last)
  PROVE  /\ Count!Pending(Count!With(p, Count!First(mode)), last)
         /\ Count!With(p, Count!First(mode))[Count!First(mode)] \in 1 .. p[Count!First(mode)] + 1
         /\ mode = 3 => Count!With(p, Count!First(mode))[Count!First(mode)] = p[Count!First(mode)] + 1
         /\ last = 0 => /\ Count!Pending(Count!With(p, Count!Last(mode)), 1)
                        /\ Count!With(p, Count!Last(mode))[Count!First(mode)] = p[Count!First(mode)]
<1> DEFINE f == Count!First(mode)
           l == Count!Last(mode)
<1>1. /\ f \in Count!Signal /\ l \in Count!Signal /\ f # l
      /\ f < Count!RTMIN1 <=> mode # 3
      /\ l < Count!RTMIN1 <=> mode # 3
  BY CountKinds
<1>2. p \in [Count!Signal -> Nat] /\ p[l] = last
      /\ \A s \in Count!Signal \ {f, l} : p[s] = 0
  BY DEF Count!Pending
<1>3. ASSUME NEW s \in Count!Signal
      PROVE  /\ Count!With(p, s) \in [Count!Signal -> Nat]
             /\ Count!With(p, s)[s] = IF s < Count!RTMIN1 THEN 1 ELSE p[s] + 1
             /\ \A t \in Count!Signal \ {s} : Count!With(p, s)[t] = p[t]
  BY <1>2 DEF Count!With
<1> HIDE DEF f, l
<1>4. Count!Pending(Count!With(p, f), last) /\ (last = 0 => Count!Pending(Count!With(p, l), 1))
  BY <1>1, <1>2, <1>3 DEF Count!Pending, f, l
<1>5. Count!With(p, f)[f] \in 1 .. p[f] + 1 /\ (mode = 3 => Count!With(p, f)[f] = p[f] + 1)
  BY <1>1, <1>2, <1>3
<1>6. Count!With(p, l)[f] = p[f]
  BY <1>1, <1>3
<1> QED
  BY <1>4, <1>5, <1>6 DEF f, l

(* A signal that is delivered: the last one only behind all the others.    *)
LEMMA CountTakes ==
  ASSUME mode \in Count!Mode, NEW p, NEW last \in {0, 1}, Count!Pending(p, last)
  PROVE  /\ Count!Delivers(p, Count!First(mode)) =>
              /\ p[Count!First(mode)] > 0
              /\ Count!Pending(Count!Without(p, Count!First(mode)), last)
              /\ Count!Without(p, Count!First(mode))[Count!First(mode)] = p[Count!First(mode)] - 1
         /\ Count!Delivers(p, Count!Last(mode)) =>
              /\ last = 1 /\ p[Count!First(mode)] = 0
              /\ Count!Without(p, Count!Last(mode)) = Count!NonePending
<1> DEFINE f == Count!First(mode)
           l == Count!Last(mode)
<1>1. f \in Count!Signal /\ l \in Count!Signal /\ f < l
  BY CountKinds
<1>2. p \in [Count!Signal -> Nat] /\ p[l] = last
      /\ \A s \in Count!Signal \ {f, l} : p[s] = 0
  BY DEF Count!Pending
<1>3. f # l
  BY CountKinds
<1> HIDE DEF f, l
<1>4. ASSUME Count!Delivers(p, f)
      PROVE  /\ p[f] > 0 /\ Count!Without(p, f)[f] = p[f] - 1 /\ Count!Pending(Count!Without(p, f), last)
  <2>1. p[f] > 0
    BY <1>1, <1>4 DEF Count!Delivers
  <2>2. /\ Count!Without(p, f) \in [Count!Signal -> Nat] /\ Count!Without(p, f)[f] = p[f] - 1
        /\ \A t \in Count!Signal \ {f} : Count!Without(p, f)[t] = p[t]
    BY <1>1, <1>2, <2>1 DEF Count!Without
  <2> QED
    BY <1>1, <1>2, <1>3, <2>1, <2>2 DEF Count!Pending, f, l
<1>5. ASSUME Count!Delivers(p, l)
      PROVE  last = 1 /\ p[f] = 0 /\ Count!Without(p, l) = Count!NonePending
  <2>1. p[l] > 0 /\ p[f] = 0
    BY <1>1, <1>5 DEF Count!Delivers
  <2> QED
    <3>1. /\ Count!Without(p, l) = [p EXCEPT ![l] = p[l] - 1]
          /\ p[l] = 1 /\ last = 1
      BY <1>1, <1>2, <2>1 DEF Count!Without
    <3>2. \A s \in Count!Signal : Count!Without(p, l)[s] = 0
      BY <1>1, <1>2, <1>3, <2>1, <3>1
    <3>3. Count!Without(p, l) = [s \in Count!Signal |-> Count!Without(p, l)[s]]
      BY <1>2, <3>1
    <3> QED
      BY <2>1, <3>1, <3>2, <3>3 DEF Count!NonePending
<1> QED
  BY <1>4, <1>5 DEF f, l

(* Where nothing is pending, nothing is delivered. *)
LEMMA CountNone ==
  ASSUME mode \in Count!Mode
  PROVE  /\ ~Count!Delivers(Count!NonePending, Count!First(mode))
         /\ ~Count!Delivers(Count!NonePending, Count!Last(mode))
         /\ Count!Pending(Count!NonePending, 0) /\ Count!NonePending[Count!First(mode)] = 0
  BY CountKinds DEF Count!NonePending, Count!Delivers, Count!Pending

-----------------------------------------------------------------------------
LEMMA CountInit == Count!Init => Count!IInv
  BY DEF Count!Init, Count!IInv, Count!Numbers, Count!Before

LEMMA CountStarts ==
  ASSUME Count!IInv, Count!StartCatcher \/ Count!StartSender
  PROVE  Count!IInv'
<1>1. CASE Count!StartCatcher
  <2>1. Count!Before
    BY <1>1 DEF Count!StartCatcher, Count!IInv, Count!Sending, Count!Returning, Count!Reported
  <2> QED
    BY <1>1, <2>1 DEF Count!StartCatcher, Count!IInv, Count!Numbers, Count!Before, Count!senderVars
<1>2. CASE Count!StartSender
  <2>1. /\ cpc = "pause" /\ mode \in Count!Mode /\ toCatcher = Count!NonePending
        /\ senders = 0 => sigCount = 0
    BY <1>2 DEF Count!StartSender, Count!IInv, Count!Numbers, Count!Before, Count!Sending,
                Count!Returning, Count!Reported
  <2>2. Count!Numbers'
    BY <1>2, LabsAssumption DEF Count!StartSender, Count!IInv, Count!Numbers, Count!catcherVars,
                                Count!CountAssumption
  <2>3. Count!Pending(toCatcher, 0)' /\ toCatcher'[Count!First(mode')] = 0
    BY <1>2, <2>1, CountNone DEF Count!StartSender, Count!Pending
  <2>4. Count!Sending'
    BY <1>2, <2>1, <2>2, <2>3 DEF Count!StartSender, Count!IInv, Count!Numbers, Count!Sending,
                               Count!catcherVars
  <2> QED
    BY <2>2, <2>4 DEF Count!IInv
<1> QED
  BY <1>1, <1>2

LEMMA CountSendSignals ==
  ASSUME Count!IInv, Count!sendSignals
  PROVE  Count!IInv'
<1>1. Count!Sending /\ spc = "send" /\ mode \in Count!Mode /\ Count!Numbers
  BY DEF Count!sendSignals, Count!IInv, Count!Numbers, Count!Before, Count!Sending, Count!Returning,
         Count!Reported
<1>2. Count!Pending(toCatcher, 0) /\ toCatcher[Count!First(mode)] \in Nat
  BY <1>1, CountKinds DEF Count!Sending, Count!Pending
<1>3. /\ UNCHANGED <<mode, senders, signalsLimit, receivedSignalsCount, toSender, cpc, sigCount, sentBack>>
  BY DEF Count!sendSignals, Count!catcherVars
<1>4. CASE sent < signalsLimit
  <2>1. /\ sent' = sent + 1 /\ spc' = "send"
        /\ toCatcher' = Count!With(toCatcher, Count!First(mode))
    BY <1>1, <1>4 DEF Count!sendSignals
  <2>2. Count!Numbers'
    BY <1>1, <1>3, <2>1 DEF Count!Numbers
  <2>3. /\ Count!Pending(toCatcher, 0)'
        /\ toCatcher'[Count!First(mode)] \in 1 .. toCatcher[Count!First(mode)] + 1
        /\ mode = 3 => toCatcher'[Count!First(mode)] = toCatcher[Count!First(mode)] + 1
    BY <1>1, <1>2, <1>3, <2>1, CountSends DEF Count!Pending
  <2>4. Count!Sending'
    BY <1>1, <1>2, <1>3, <1>4, <2>1, <2>3 DEF Count!Sending, Count!Numbers
  <2> QED
    BY <2>2, <2>4 DEF Count!IInv
<1>5. CASE ~(sent < signalsLimit)
  <2>1. /\ sent' = sent /\ spc' = "pause"
        /\ toCatcher' = Count!With(toCatcher, Count!Last(mode))
    BY <1>1, <1>5 DEF Count!sendSignals
  <2>2. Count!Numbers'
    BY <1>1, <1>3, <2>1 DEF Count!Numbers
  <2>3. /\ Count!Pending(toCatcher, 1)'
        /\ toCatcher'[Count!First(mode)] = toCatcher[Count!First(mode)]
    BY <1>1, <1>2, <1>3, <2>1, CountSends DEF Count!Pending
  <2>4. Count!Sending'
    BY <1>1, <1>2, <1>3, <1>5, <2>1, <2>3 DEF Count!Sending, Count!Numbers
  <2> QED
    BY <2>2, <2>4 DEF Count!IInv
<1> QED
  BY <1>4, <1>5

LEMMA CountHandleReceiver ==
  ASSUME Count!IInv, Count!handleReceiver
  PROVE  Count!IInv'
<1>1. Count!Sending /\ mode \in Count!Mode /\ Count!Numbers
  BY CountNone DEF Count!handleReceiver, Count!IInv, Count!Numbers, Count!Before, Count!Sending,
                   Count!Returning, Count!Reported
<1>2. /\ UNCHANGED <<mode, senders, spc, signalsLimit, sent, receivedSignalsCount, toSender, cpc,
                     sentBack>>
      /\ sigCount' = sigCount + 1 /\ toCatcher' = Count!Without(toCatcher, Count!First(mode))
      /\ Count!Delivers(toCatcher, Count!First(mode))
  BY DEF Count!handleReceiver, Count!senderVars
<1>3. Count!Numbers'
  BY <1>1, <1>2 DEF Count!Numbers
<1>4. PICK last \in {0, 1} : last = (IF spc = "pause" THEN 1 ELSE 0)
  OBVIOUS
<1>5. Count!Pending(toCatcher, last) /\ toCatcher[Count!First(mode)] \in Nat
  BY <1>1, <1>4, CountKinds DEF Count!Sending, Count!Pending
<1>6. /\ toCatcher[Count!First(mode)] > 0 /\ Count!Pending(toCatcher', last)
      /\ toCatcher'[Count!First(mode)] = toCatcher[Count!First(mode)] - 1
  BY <1>1, <1>2, <1>5, CountTakes
<1>7. Count!Pending(toCatcher, IF spc = "pause" THEN 1 ELSE 0)'
  BY <1>2, <1>4, <1>6 DEF Count!Pending
<1>8. Count!Sending'
  BY <1>1, <1>2, <1>5, <1>6, <1>7 DEF Count!Sending, Count!Numbers
<1> QED
  BY <1>3, <1>8 DEF Count!IInv

(* When the last signal is delivered, all that came before it are counted. *)
LEMMA CountHandleSender ==
  ASSUME Count!IInv, Count!handleSender
  PROVE  Count!IInv'
<1>1. Count!Sending /\ mode \in Count!Mode /\ Count!Numbers
  BY CountNone DEF Count!handleSender, Count!IInv, Count!Numbers, Count!Before, Count!Sending,
                   Count!Returning, Count!Reported
<1>2. /\ UNCHANGED <<mode, senders, spc, signalsLimit, sent, receivedSignalsCount, toSender, sigCount>>
      /\ cpc' = "sending" /\ sentBack' = 0
      /\ toCatcher' = Count!Without(toCatcher, Count!Last(mode))
      /\ Count!Delivers(toCatcher, Count!Last(mode))
  BY DEF Count!handleSender, Count!senderVars
<1>3. Count!Numbers'
  BY <1>1, <1>2 DEF Count!Numbers
<1>4. PICK last \in {0, 1} : last = (IF spc = "pause" THEN 1 ELSE 0)
  OBVIOUS
<1>5. spc = "pause" /\ toCatcher[Count!First(mode)] = 0 /\ toCatcher' = Count!NonePending
  BY <1>1, <1>2, <1>4, CountTakes DEF Count!Sending
<1>6. Count!Total
  BY <1>1, <1>5 DEF Count!Sending, Count!Total, Count!Numbers
<1>7. Count!Pending(toSender, 0)' /\ toSender'[Count!First(mode')] = 0
  BY <1>1, <1>2, CountNone DEF Count!Sending, Count!Pending
<1>8. Count!Returning'
  BY <1>1, <1>2, <1>5, <1>6, <1>7 DEF Count!Sending, Count!Returning, Count!Total, Count!Numbers
<1> QED
  BY <1>3, <1>8 DEF Count!IInv

LEMMA CountSendBack ==
  ASSUME Count!IInv, Count!SendBack
  PROVE  Count!IInv'
<1>1. Count!Returning /\ cpc = "sending" /\ mode \in Count!Mode /\ Count!Numbers
  BY DEF Count!SendBack, Count!IInv, Count!Numbers, Count!Before, Count!Sending, Count!Returning,
         Count!Reported
<1>2. Count!Pending(toSender, 0) /\ toSender[Count!First(mode)] \in Nat
  BY <1>1, CountKinds DEF Count!Returning, Count!Pending
<1>3. UNCHANGED <<mode, senders, spc, signalsLimit, sent, receivedSignalsCount, sigCount, toCatcher>>
  BY DEF Count!SendBack, Count!senderVars
<1>4. Count!Total'
  BY <1>1, <1>3 DEF Count!Returning, Count!Total
<1>5. CASE sentBack < sigCount
  <2>1. /\ sentBack' = sentBack + 1 /\ cpc' = "sending"
        /\ toSender' = Count!With(toSender, Count!First(mode))
    BY <1>1, <1>5 DEF Count!SendBack
  <2>2. Count!Numbers'
    BY <1>1, <1>3, <2>1 DEF Count!Numbers
  <2>3. /\ Count!Pending(toSender, 0)'
        /\ toSender'[Count!First(mode)] \in 1 .. toSender[Count!First(mode)] + 1
        /\ mode = 3 => toSender'[Count!First(mode)] = toSender[Count!First(mode)] + 1
    BY <1>1, <1>2, <1>3, <2>1, CountSends DEF Count!Pending
  <2>4. Count!Returning'
    BY <1>1, <1>2, <1>3, <1>4, <1>5, <2>1, <2>3 DEF Count!Returning, Count!Numbers
  <2> QED
    BY <2>2, <2>4 DEF Count!IInv
<1>6. CASE ~(sentBack < sigCount)
  <2>1. /\ sentBack' = sentBack /\ cpc' = "pause"
        /\ toSender' = Count!With(toSender, Count!Last(mode))
    BY <1>1, <1>6 DEF Count!SendBack
  <2>2. Count!Numbers'
    BY <1>1, <1>3, <2>1 DEF Count!Numbers
  <2>3. /\ Count!Pending(toSender, 1)'
        /\ toSender'[Count!First(mode)] = toSender[Count!First(mode)]
    BY <1>1, <1>2, <1>3, <2>1, CountSends DEF Count!Pending
  <2>4. Count!Returning'
    BY <1>1, <1>2, <1>3, <1>4, <1>6, <2>1, <2>3 DEF Count!Returning, Count!Numbers
  <2> QED
    BY <2>2, <2>4 DEF Count!IInv
<1> QED
  BY <1>5, <1>6

LEMMA CountHandleSignal ==
  ASSUME Count!IInv, Count!handleSignalFromCatcher
  PROVE  Count!IInv'
<1>1. Count!Returning /\ mode \in Count!Mode /\ Count!Numbers
  BY CountNone DEF Count!handleSignalFromCatcher, Count!IInv, Count!Numbers, Count!Before,
                   Count!Sending, Count!Returning, Count!Reported
<1>2. /\ UNCHANGED <<mode, senders, spc, signalsLimit, sent, cpc, sigCount, sentBack, toCatcher>>
      /\ receivedSignalsCount' = receivedSignalsCount + 1
      /\ toSender' = Count!Without(toSender, Count!First(mode))
      /\ Count!Delivers(toSender, Count!First(mode))
  BY DEF Count!handleSignalFromCatcher, Count!catcherVars
<1>3. Count!Numbers'
  BY <1>1, <1>2 DEF Count!Numbers
<1>4. PICK last \in {0, 1} : last = (IF cpc = "pause" THEN 1 ELSE 0)
  OBVIOUS
<1>5. Count!Pending(toSender, last) /\ toSender[Count!First(mode)] \in Nat
  BY <1>1, <1>4, CountKinds DEF Count!Returning, Count!Pending
<1>6. /\ toSender[Count!First(mode)] > 0 /\ Count!Pending(toSender', last)
      /\ toSender'[Count!First(mode)] = toSender[Count!First(mode)] - 1
  BY <1>1, <1>2, <1>5, CountTakes
<1>7. Count!Pending(toSender, IF cpc = "pause" THEN 1 ELSE 0)'
  BY <1>2, <1>4, <1>6 DEF Count!Pending
<1>8. Count!Returning'
  BY <1>1, <1>2, <1>5, <1>6, <1>7 DEF Count!Returning, Count!Total, Count!Numbers
<1> QED
  BY <1>3, <1>8 DEF Count!IInv

LEMMA CountHandleEnd ==
  ASSUME Count!IInv, Count!handleEndSignal
  PROVE  Count!IInv'
<1>1. Count!Returning /\ mode \in Count!Mode /\ Count!Numbers
  BY CountNone DEF Count!handleEndSignal, Count!IInv, Count!Numbers, Count!Before,
                   Count!Sending, Count!Returning, Count!Reported
<1>2. /\ UNCHANGED <<mode, senders, signalsLimit, sent, receivedSignalsCount, cpc, sigCount, sentBack,
                     toCatcher>>
      /\ spc' = "ended" /\ Count!Delivers(toSender, Count!Last(mode))
  BY DEF Count!handleEndSignal, Count!catcherVars
<1>3. Count!Numbers'
  BY <1>1, <1>2 DEF Count!Numbers
<1>4. PICK last \in {0, 1} : last = (IF cpc = "pause" THEN 1 ELSE 0)
  OBVIOUS
<1>5. cpc = "pause" /\ toSender[Count!First(mode)] = 0
  BY <1>1, <1>2, <1>4, CountTakes DEF Count!Returning
<1>6. Count!Reported'
  BY <1>1, <1>2, <1>5 DEF Count!Returning, Count!Reported, Count!Total, Count!Numbers
<1> QED
  BY <1>3, <1>6 DEF Count!IInv

LEMMA CountStep ==
  ASSUME Count!IInv, [Count!Next]_(Count!vars)
  PROVE  Count!IInv'
<1>1. CASE UNCHANGED Count!vars
  BY <1>1 DEF Count!vars, Count!senderVars, Count!catcherVars, Count!IInv, Count!Numbers,
              Count!Before, Count!Sending, Count!Returning, Count!Reported, Count!Total,
              Count!Pending
<1> QED
  BY <1>1, CountStarts, CountSendSignals, CountHandleReceiver, CountHandleSender, CountSendBack,
     CountHandleSignal, CountHandleEnd DEF Count!Next

LEMMA CountCounted == Count!IInv => Count!Counted
  BY DEF Count!IInv, Count!Before, Count!Sending, Count!Returning, Count!Reported, Count!Total,
         Count!Counted

-----------------------------------------------------------------------------
(* One pending signal. *)

(* It is the one that is delivered. *)
LEMMA OneDelivers ==
  ASSUME NEW s \in Ack!Signal, NEW t \in Ack!Signal
  PROVE  /\ ~Ack!Delivers(Ack!NonePending, t)
         /\ Ack!Delivers(Ack!One(s), t) => t = s
         /\ Ack!One(s)[t] > 0 => t = s
         /\ Ack!One(s)[s] > 0
         /\ Ack!NonePending[t] = 0
  BY DEF Ack!One, Ack!With, Ack!NonePending, Ack!Delivers, Ack!Signal, Ack!SIGUSR1, Ack!SIGUSR2,
         Ack!RTMIN1, Ack!RTMIN2

(* And after that none is left. *)
LEMMA OneTaken ==
  ASSUME NEW s \in Ack!Signal
  PROVE  Ack!Without(Ack!One(s), s) = Ack!NonePending
  BY DEF Ack!One, Ack!With, Ack!Without, Ack!NonePending, Ack!Signal, Ack!SIGUSR1, Ack!SIGUSR2,
         Ack!RTMIN1, Ack!RTMIN2

(* A signal, the end and, unless it is a signal, the confirmation differ.  *)
LEMMA Kinds ==
  ASSUME NEW m \in Ack!Mode
  PROVE  /\ Ack!First(m) \in Ack!Signal /\ Ack!Last(m) \in Ack!Signal /\ Ack!SIGUSR1 \in Ack!Signal
         /\ Ack!Last(m) # Ack!First(m) /\ Ack!Last(m) # Ack!SIGUSR1
  BY DEF Ack!Mode, Ack!First, Ack!Last, Ack!Signal, Ack!SIGUSR1, Ack!SIGUSR2, Ack!RTMIN1, Ack!RTMIN2

-----------------------------------------------------------------------------
LEMMA AckInit == Ack!Init => Ack!IInv
  BY DEF Ack!Init, Ack!IInv, Ack!Quiet

LEMMA StartIInv ==
  ASSUME Ack!AckAssumption, Ack!IInv, Ack!Start
  PROVE  Ack!IInv'
<1>1. Ack!Quiet /\ spc = "new"
  BY DEF Ack!Start, Ack!IInv, Ack!Forth, Ack!Back, Ack!Over
<1>2. CASE signalsLimit' = 0
  BY <1>1, <1>2 DEF Ack!Start, Ack!Quiet, Ack!IInv, Ack!sendSignal, Ack!catcherVars
<1>3. CASE signalsLimit' # 0
  <2>1. signalsLimit' \in Nat \ {0} /\ mode' \in Ack!Mode
    BY <1>3 DEF Ack!Start, Ack!AckAssumption
  <2>2. sendSignalCount' = 1 /\ toCatcher' = Ack!One(Ack!First(mode'))
    BY <1>1, <2>1 DEF Ack!Start, Ack!Quiet, Ack!sendSignal, Ack!One
  <2>3. Ack!Forth'
    BY <1>1, <2>1, <2>2 DEF Ack!Start, Ack!Quiet, Ack!Forth, Ack!catcherVars
  <2> QED
    BY <2>3 DEF Ack!IInv
<1> QED
  BY <1>2, <1>3

(* A signal that is delivered is the one under way, in a phase of its own. *)
LEMMA CatcherCountsIInv ==
  ASSUME Ack!IInv, NEW s \in {Ack!SIGUSR1, Ack!RTMIN1}, Ack!CatcherCounts(s)
  PROVE  Ack!IInv'
<1>1. s \in Ack!Signal
  BY DEF Ack!Signal
<1>2. /\ Ack!Forth /\ senderMode /\ toSender = Ack!NonePending /\ toCatcher = Ack!One(Ack!First(mode))
      /\ sendSignalCount \in 1 .. signalsLimit
      /\ sigCount = sendSignalCount - 1 /\ receivedConfirmationCount = sendSignalCount - 1
  BY <1>1, OneDelivers, Kinds DEF Ack!CatcherCounts, Ack!IInv, Ack!Quiet, Ack!Forth, Ack!Back,
                                  Ack!Over
<1>3. s = Ack!First(mode)
  BY <1>1, <1>2, OneDelivers, Kinds DEF Ack!CatcherCounts, Ack!Forth
<1>4. toCatcher' = Ack!NonePending /\ toSender' = Ack!One(Ack!SIGUSR1)
  BY <1>2, <1>3, <1>1, OneTaken DEF Ack!CatcherCounts, Ack!One
<1>5. Ack!Forth'
  BY <1>2, <1>4 DEF Ack!CatcherCounts, Ack!Forth, Ack!senderVars
<1> QED
  BY <1>5 DEF Ack!IInv

LEMMA SenderConfirmedIInv ==
  ASSUME Ack!IInv, NEW s \in {Ack!SIGUSR1, Ack!RTMIN1}, Ack!SenderConfirmed(s)
  PROVE  Ack!IInv'
<1>1. s \in Ack!Signal /\ Ack!SIGUSR1 \in Ack!Signal
  BY DEF Ack!Signal
<1>2. /\ Ack!Forth /\ senderMode /\ toSender = Ack!One(Ack!SIGUSR1) /\ toCatcher = Ack!NonePending
      /\ sendSignalCount \in 1 .. signalsLimit
      /\ sigCount = sendSignalCount /\ receivedConfirmationCount = sendSignalCount - 1
  BY <1>1, OneDelivers, Kinds DEF Ack!SenderConfirmed, Ack!IInv, Ack!Quiet, Ack!Forth, Ack!Back,
                                  Ack!Over
<1>3. s = Ack!SIGUSR1
  BY <1>1, <1>2, OneDelivers DEF Ack!SenderConfirmed
<1>4. toSender' = Ack!NonePending /\ receivedConfirmationCount' = sendSignalCount
  BY <1>1, <1>2, <1>3, OneTaken DEF Ack!SenderConfirmed, Ack!Forth
<1>5. CASE sendSignalCount = signalsLimit
  <2>1. senderMode' = FALSE /\ signalsLimit = sendSignalCount /\ sendSignalCount \in Nat
    BY <1>2, <1>4, <1>5 DEF Ack!SenderConfirmed, Ack!Forth
  <2>2. Ack!sendSignal(mode, signalsLimit, TRUE)
    BY <2>1 DEF Ack!SenderConfirmed
  <2>3. toCatcher' = Ack!One(Ack!Last(mode)) /\ sendSignalCount' = sendSignalCount
    BY <1>2, <2>1, <2>2 DEF Ack!sendSignal, Ack!One
  <2> QED
    BY <1>2, <1>4, <1>5, <2>1, <2>3 DEF Ack!SenderConfirmed, Ack!Forth, Ack!IInv, Ack!catcherVars
<1>6. CASE sendSignalCount # signalsLimit
  <2>1. signalsLimit > sendSignalCount /\ sendSignalCount + 1 \in 1 .. signalsLimit
    BY <1>2, <1>6 DEF Ack!Forth
  <2>2. senderMode' /\ toCatcher' = Ack!One(Ack!First(mode)) /\ sendSignalCount' = sendSignalCount + 1
    BY <1>2, <1>4, <1>6, <2>1 DEF Ack!SenderConfirmed, Ack!sendSignal, Ack!One
  <2>3. sigCount' = sendSignalCount' - 1 /\ receivedConfirmationCount' = sendSignalCount' - 1
    BY <1>2, <1>4, <2>2, <2>1 DEF Ack!SenderConfirmed, Ack!catcherVars, Ack!Forth
  <2> QED
    BY <1>2, <1>4, <2>1, <2>2, <2>3 DEF Ack!SenderConfirmed, Ack!Forth, Ack!IInv, Ack!catcherVars
<1> QED
  BY <1>5, <1>6

LEMMA CatcherTurnsIInv ==
  ASSUME Ack!IInv, Ack!CatcherTurns
  PROVE  Ack!IInv'
<1>1. /\ Ack!Forth /\ ~senderMode /\ toSender = Ack!NonePending /\ toCatcher = Ack!One(Ack!Last(mode))
      /\ sendSignalCount = signalsLimit /\ sigCount = signalsLimit
  <2>1. ~Ack!Quiet
    BY OneDelivers, Kinds DEF Ack!CatcherTurns, Ack!Quiet, Ack!Delivers, Ack!NonePending,
                              Ack!Last, Ack!Signal
  <2>2. ~Ack!Over
    BY DEF Ack!CatcherTurns, Ack!Over
  <2>3. ~Ack!Back
    BY OneDelivers, Kinds DEF Ack!CatcherTurns, Ack!Back
  <2> QED
    BY <2>1, <2>2, <2>3, OneDelivers, Kinds DEF Ack!CatcherTurns, Ack!IInv, Ack!Forth
<1>2. toCatcher' = Ack!NonePending
  BY <1>1, OneTaken, Kinds DEF Ack!CatcherTurns, Ack!Forth
<1>3. sendSigCount' = 1 /\ toSender' = Ack!One(Ack!First(mode))
  BY <1>1 DEF Ack!CatcherTurns, Ack!SendBack, Ack!Forth, Ack!One
<1>4. 1 \in 1 .. signalsLimit
  BY <1>1 DEF Ack!Forth
<1> QED
  BY <1>1, <1>2, <1>3, <1>4 DEF Ack!CatcherTurns, Ack!Forth, Ack!Back, Ack!IInv, Ack!senderVars

LEMMA SenderCountsIInv ==
  ASSUME Ack!IInv, NEW s \in {Ack!SIGUSR1, Ack!RTMIN1}, Ack!SenderCounts(s)
  PROVE  Ack!IInv'
<1>1. s \in Ack!Signal
  BY DEF Ack!Signal
<1>2. /\ Ack!Back /\ toSender = Ack!One(Ack!First(mode)) /\ toCatcher = Ack!NonePending
      /\ sendSigCount \in 1 .. signalsLimit
      /\ receivedSignalsCount = sendSigCount - 1 /\ confirmationSigCount = sendSigCount - 1
  BY <1>1, OneDelivers, Kinds DEF Ack!SenderCounts, Ack!IInv, Ack!Quiet, Ack!Forth, Ack!Back,
                                  Ack!Over
<1>3. s = Ack!First(mode)
  BY <1>1, <1>2, OneDelivers, Kinds DEF Ack!SenderCounts, Ack!Back
<1>4. toSender' = Ack!NonePending /\ toCatcher' = Ack!One(Ack!SIGUSR1)
  BY <1>1, <1>2, <1>3, OneTaken DEF Ack!SenderCounts, Ack!One
<1>5. Ack!Back'
  BY <1>2, <1>4 DEF Ack!SenderCounts, Ack!Back, Ack!catcherVars
<1> QED
  BY <1>5 DEF Ack!IInv

LEMMA CatcherConfirmedIInv ==
  ASSUME Ack!IInv, NEW s \in {Ack!SIGUSR1, Ack!RTMIN1}, Ack!CatcherConfirmed(s)
  PROVE  Ack!IInv'
<1>1. s \in Ack!Signal /\ Ack!SIGUSR1 \in Ack!Signal
  BY DEF Ack!Signal
<1>2. Ack!Back /\ toSender = Ack!NonePending /\ toCatcher = Ack!One(Ack!SIGUSR1)
  BY <1>1, OneDelivers, Kinds DEF Ack!CatcherConfirmed, Ack!IInv, Ack!Quiet, Ack!Forth, Ack!Back,
                                  Ack!Over
<1>3. s = Ack!SIGUSR1
  BY <1>1, <1>2, OneDelivers DEF Ack!CatcherConfirmed
<1>4. toCatcher' = Ack!NonePending
  BY <1>1, <1>2, <1>3, OneTaken DEF Ack!CatcherConfirmed
<1>5. CASE spc = "ended"
  BY <1>2, <1>4, <1>5 DEF Ack!CatcherConfirmed, Ack!Back, Ack!Over, Ack!IInv, Ack!senderVars
<1>6. CASE spc = "pause"
  <2>1. /\ sendSigCount \in 1 .. signalsLimit
        /\ receivedSignalsCount = sendSigCount /\ confirmationSigCount = sendSigCount - 1
    BY <1>1, <1>2, <1>6, Kinds, OneDelivers DEF Ack!Back
  <2>2. confirmationSigCount' = sendSigCount /\ Ack!SendBack(toSender) /\ cpc' = cpc
    BY <1>2, <2>1 DEF Ack!CatcherConfirmed, Ack!Back
  <2>3. CASE sendSigCount < signalsLimit
    <3>1. sendSigCount' = sendSigCount + 1 /\ toSender' = Ack!One(Ack!First(mode))
      BY <1>2, <2>2, <2>3 DEF Ack!SendBack, Ack!Back, Ack!One
    <3>2. /\ sendSigCount' \in 1 .. signalsLimit
          /\ sendSigCount = sendSigCount' - 1
      BY <1>2, <2>1, <2>3, <3>1 DEF Ack!Back
    <3> QED
      BY <1>2, <1>4, <1>6, <2>1, <2>2, <3>1, <3>2 DEF Ack!CatcherConfirmed, Ack!Back, Ack!IInv,
                                                      Ack!senderVars
  <2>4. CASE sendSigCount = signalsLimit
    <3>1. sendSigCount' = sendSigCount /\ toSender' = Ack!One(Ack!Last(mode))
      BY <1>2, <2>2, <2>4 DEF Ack!SendBack, Ack!Back, Ack!One
    <3> QED
      BY <1>2, <1>4, <1>6, <2>1, <2>2, <2>4, <3>1 DEF Ack!CatcherConfirmed, Ack!Back, Ack!IInv,
                                                      Ack!senderVars
  <2> QED
    BY <1>2, <2>1, <2>3, <2>4 DEF Ack!Back
<1> QED
  BY <1>2, <1>5, <1>6 DEF Ack!Back

LEMMA SenderEndsIInv ==
  ASSUME Ack!IInv, Ack!SenderEnds
  PROVE  Ack!IInv'
<1>1. /\ Ack!Back /\ spc = "pause" /\ toSender = Ack!One(Ack!Last(mode)) /\ toCatcher = Ack!NonePending
      /\ sendSigCount = signalsLimit /\ receivedSignalsCount = signalsLimit
      /\ confirmationSigCount = signalsLimit
  <2>1. ~Ack!Quiet
    BY OneDelivers, Kinds DEF Ack!SenderEnds, Ack!Quiet, Ack!Delivers, Ack!NonePending, Ack!Last,
                              Ack!Signal
  <2>2. ~Ack!Over
    BY DEF Ack!SenderEnds, Ack!Over
  <2>3. ~Ack!Forth
    BY OneDelivers, Kinds DEF Ack!SenderEnds, Ack!Forth
  <2> QED
    BY <2>1, <2>2, <2>3, OneDelivers, Kinds DEF Ack!SenderEnds, Ack!IInv, Ack!Back
<1>2. toSender' = Ack!NonePending /\ toCatcher' = Ack!One(Ack!SIGUSR1)
  BY <1>1, OneTaken, Kinds DEF Ack!SenderEnds, Ack!Back, Ack!One
<1> QED
  BY <1>1, <1>2 DEF Ack!SenderEnds, Ack!Back, Ack!IInv, Ack!catcherVars

(* In each phase one signal at most is under way, none only before the     *)
(* start and at the end, and at the end all the counts are the limit.      *)
LEMMA PhasesAgree == Ack!IInv => Ack!Agree
<1> SUFFICES ASSUME Ack!IInv PROVE Ack!Agree
  OBVIOUS
<1>1. CASE Ack!Quiet \/ Ack!Over
  <2>1. Ack!InFlight = {}
    BY <1>1 DEF Ack!InFlight, Ack!Quiet, Ack!Over, Ack!NonePending
  <2> QED
    BY <1>1, <2>1 DEF Ack!Agree, Ack!Quiet, Ack!Over
<1>2. CASE Ack!Forth \/ Ack!Back
  <2>1. mode \in Ack!Mode
    BY <1>2 DEF Ack!Forth, Ack!Back
  <2>2. PICK s \in Ack!Signal :
          \/ toSender = Ack!One(s) /\ toCatcher = Ack!NonePending
          \/ toSender = Ack!NonePending /\ toCatcher = Ack!One(s)
    BY <1>2, <2>1, Kinds DEF Ack!Forth, Ack!Back
  <2>3. Ack!InFlight = {<<"sender", s>>} \/ Ack!InFlight = {<<"catcher", s>>}
    BY <2>2, OneDelivers DEF Ack!InFlight
  <2>4. ~(spc = "ended" /\ cpc = "ended")
    BY <1>2 DEF Ack!Forth, Ack!Back
  <2> QED
    BY <2>3, <2>4 DEF Ack!Agree
<1> QED
  BY <1>1, <1>2 DEF Ack!IInv

LEMMA AckStep ==
  ASSUME Ack!IInv, [Ack!Next]_(Ack!vars)
  PROVE  Ack!IInv'
<1>1. CASE Ack!Start
  BY <1>1, LabsAssumption, StartIInv
<1>2. CASE Ack!SenderEnds
  BY <1>2, SenderEndsIInv
<1>3. CASE Ack!CatcherTurns
  BY <1>3, CatcherTurnsIInv
<1>4. ASSUME NEW s \in {Ack!SIGUSR1, Ack!RTMIN1},
             \/ Ack!SenderCounts(s) \/ Ack!SenderConfirmed(s)
             \/ Ack!CatcherCounts(s) \/ Ack!CatcherConfirmed(s)
      PROVE  Ack!IInv'
  BY <1>4, SenderCountsIInv, SenderConfirmedIInv, CatcherCountsIInv, CatcherConfirmedIInv
<1>5. CASE UNCHANGED Ack!vars
  BY <1>5 DEF Ack!vars, Ack!senderVars, Ack!catcherVars, Ack!IInv, Ack!Quiet, Ack!Forth, Ack!Back,
              Ack!Over
<1> QED
  BY <1>1, <1>2, <1>3, <1>4, <1>5 DEF Ack!Next, Ack!Step

-----------------------------------------------------------------------------
(* lab4 zad2: the flags of the monitors.                                   *)

LEMMA MonitorSignals ==
  /\ Monitor!SIGINT \in Monitor!Signal /\ Monitor!SIGUSR1 \in Monitor!Signal
  /\ Monitor!SIGUSR2 \in Monitor!Signal /\ Monitor!SIGINT # Monitor!SIGUSR1
  /\ Monitor!SIGINT # Monitor!SIGUSR2 /\ Monitor!SIGUSR1 # Monitor!SIGUSR2
  /\ \A s \in Monitor!Signal :
       s = Monitor!SIGINT \/ s = Monitor!SIGUSR1 \/ s = Monitor!SIGUSR2
  BY DEF Monitor!Signal, Monitor!SIGINT, Monitor!SIGUSR1, Monitor!SIGUSR2

LEMMA MonitorInitFlags == Monitor!Init => Monitor!Flags
<1> SUFFICES ASSUME Monitor!Init PROVE Monitor!Flags
  OBVIOUS
<1>1. wpc \in [Monitor!Watcher -> {"ended", "read"}]
  BY DEF Monitor!Init
<1>2. Monitor!FlagTypes
  BY <1>1 DEF Monitor!Init, Monitor!FlagTypes, Monitor!Places
<1>3. \A w \in Monitor!Watcher : Monitor!Handled(w)
  BY <1>1, MonitorSignals DEF Monitor!Init, Monitor!Handled, Monitor!Between
<1> QED
  BY <1>2, <1>3 DEF Monitor!Flags

(* The other processes have their flags and their handlers still. *)
LEMMA MonitorUntouched ==
  ASSUME NEW w \in Monitor!Watcher, Monitor!Handled(w),
         wpc'[w] = wpc[w], reciveSIGUSR1'[w] = reciveSIGUSR1[w], reciveSIGUSR2'[w] = reciveSIGUSR2[w],
         endProgram'[w] = endProgram[w], stage'[w] = stage[w], depth'[w] = depth[w],
         missed'[w] = missed[w], torn'[w] = torn[w]
  PROVE  Monitor!Handled(w)'
  BY DEF Monitor!Handled, Monitor!Between, Monitor!Active

(* A step of the program, between two signals. *)
LEMMA MonitorRuns ==
  ASSUME Monitor!Flags, NEW w \in Monitor!Watcher,
         \/ Monitor!FirstRead(w) \/ Monitor!Loop(w) \/ Monitor!Test(w) \/ Monitor!Pause(w)
         \/ Monitor!Stat(w) \/ Monitor!Save(w) \/ Monitor!Load(w) \/ Monitor!Slept(w)
  PROVE  Monitor!Flags'
<1> USE DEF Monitor!Flags, Monitor!FlagTypes
<1>1. /\ UNCHANGED <<reciveSIGUSR1, reciveSIGUSR2, endProgram, pending, stage, depth, torn>>
      /\ Monitor!Active(w) = {}
  BY DEF Monitor!FirstRead, Monitor!Loop, Monitor!Test, Monitor!Pause, Monitor!Stat, Monitor!Save,
         Monitor!Load, Monitor!Slept, Monitor!At, Monitor!signals, Monitor!flags
<1>2. PICK where \in {"loop", "test", "beforepause", "pause", "stat", "save", "load", "sleep",
                      "ended"} :
        /\ wpc' = [wpc EXCEPT ![w] = where]
        /\ where = "test" => reciveSIGUSR1[w]
        /\ where = "beforepause" => wpc[w] = "test" /\ ~reciveSIGUSR2[w] /\ ~endProgram[w]
        /\ where = "pause" => wpc[w] = "beforepause" /\ missed' = missed
  BY DEF Monitor!FirstRead, Monitor!Loop, Monitor!Test, Monitor!Pause, Monitor!Stat, Monitor!Save,
         Monitor!Load, Monitor!Slept, Monitor!At, Monitor!Goto, Monitor!history
<1>3. missed' = missed \/ missed' = [missed EXCEPT ![w] = FALSE]
  BY DEF Monitor!FirstRead, Monitor!Loop, Monitor!Test, Monitor!Pause, Monitor!Stat, Monitor!Save,
         Monitor!Load, Monitor!Slept, Monitor!history
<1>4. Monitor!FlagTypes'
  <2>1. wpc' \in [Monitor!Watcher -> Monitor!Places] /\ missed' \in [Monitor!Watcher -> BOOLEAN]
    BY <1>2, <1>3 DEF Monitor!Places
  <2> QED
    BY <1>1, <2>1
<1>5. /\ wpc'[w] = where /\ \A x \in Monitor!Watcher \ {w} : wpc'[x] = wpc[x] /\ missed'[x] = missed[x]
      /\ Monitor!Active(w)' = Monitor!Active(w)
  BY <1>1, <1>2, <1>3 DEF Monitor!Active
<1>6. /\ Monitor!Between(w, Monitor!SIGUSR1, Monitor!SIGUSR2)'
      /\ Monitor!Between(w, Monitor!SIGUSR2, Monitor!SIGUSR1)'
  BY <1>1, <1>5 DEF Monitor!Between
<1>7. Monitor!Handled(w)'
  <2>1. Monitor!Handled(w)
    OBVIOUS
  <2>2. stage'[w][Monitor!SIGUSR1] = "between" => reciveSIGUSR1'[w]
    BY <1>1, <2>1 DEF Monitor!Handled
  <2>3. CASE where \in {"test", "beforepause", "pause"}
    BY <1>1, <1>2, <1>5, <1>6, <2>1, <2>2, <2>3 DEF Monitor!Handled
  <2>4. CASE where \notin {"test", "beforepause", "pause"}
    BY <1>5, <1>6, <2>2, <2>4 DEF Monitor!Handled
  <2> QED
    BY <2>3, <2>4
<1>8. \A x \in Monitor!Watcher \ {w} : Monitor!Handled(x)'
  BY <1>1, <1>5, MonitorUntouched
<1> QED
  BY <1>4, <1>7, <1>8

(* Handlers that are entered: nobody is between two flags, who has been    *)
(* interrupted by the other handler.                                       *)
LEMMA MonitorDelivers ==
  ASSUME Monitor!Flags, NEW w \in Monitor!Watcher, Monitor!Deliver(w)
  PROVE  Monitor!Flags'
<1> USE DEF Monitor!Flags, Monitor!FlagTypes
<1>1. /\ UNCHANGED <<reciveSIGUSR1, reciveSIGUSR2, endProgram, torn>>
      /\ missed' = [missed EXCEPT ![w] = @ \/ wpc[w] = "beforepause"]
      /\ wpc' = [wpc EXCEPT ![w] = IF @ = "pause" THEN "test" ELSE IF @ = "sleep" THEN "loop" ELSE @]
  BY DEF Monitor!Deliver
<1>0. /\ stage' = [stage EXCEPT ![w] = [s \in Monitor!Signal |->
                     IF s \in Monitor!New(w) THEN "entered"
                     ELSE IF @[s] = "between" /\ Monitor!New(w) \ {Monitor!SIGINT} # {}
                            THEN "interrupted"
                     ELSE @[s]]]
      /\ depth' = [depth EXCEPT ![w] = [s \in Monitor!Signal |->
                     IF s \in Monitor!New(w)
                       THEN Monitor!Cardinality(Monitor!Active(w))
                              + Monitor!Cardinality({n \in Monitor!New(w) : n <= s})
                       ELSE @[s]]]
  <2>1. stage' = [stage EXCEPT ![w] = [s \in Monitor!Signal |->
                    IF s \in Monitor!New(w) THEN "entered"
                    ELSE IF @[s] = "between" /\ Monitor!New(w) \ {Monitor!SIGINT} # {}
                           THEN "interrupted"
                    ELSE @[s]]]
    BY DEF Monitor!Deliver
  <2>2. depth' = [depth EXCEPT ![w] = [s \in Monitor!Signal |->
                    IF s \in Monitor!New(w)
                      THEN Monitor!Cardinality(Monitor!Active(w))
                             + Monitor!Cardinality({n \in Monitor!New(w) : n <= s})
                      ELSE @[s]]]
    BY DEF Monitor!Deliver
  <2> QED
    BY <2>1, <2>2
<1>2. /\ \A x \in Monitor!Watcher \ {w} : stage'[x] = stage[x] /\ depth'[x] = depth[x]
      /\ stage'[w] = [s \in Monitor!Signal |->
                        IF s \in Monitor!New(w) THEN "entered"
                        ELSE IF stage[w][s] = "between" /\ Monitor!New(w) \ {Monitor!SIGINT} # {}
                               THEN "interrupted"
                        ELSE stage[w][s]]
      /\ depth'[w] = [s \in Monitor!Signal |->
                        IF s \in Monitor!New(w)
                          THEN Monitor!Cardinality(Monitor!Active(w))
                                 + Monitor!Cardinality({n \in Monitor!New(w) : n <= s})
                          ELSE depth[w][s]]
      /\ stage' = [stage EXCEPT ![w] = stage'[w]] /\ depth' = [depth EXCEPT ![w] = depth'[w]]
  BY <1>0
<1>3. stage' \in [Monitor!Watcher -> [Monitor!Signal -> {"none", "entered", "between", "interrupted"}]]
  <2>1. stage'[w] \in [Monitor!Signal -> {"none", "entered", "between", "interrupted"}]
    BY <1>2
  <2> QED
    BY <1>2, <2>1
<1>4. depth' \in [Monitor!Watcher -> [Monitor!Signal -> Int]]
  <2>1. IsFiniteSet(Monitor!Signal)
    <3>1. IsFiniteSet({Monitor!SIGINT})
      BY FS_Singleton
    <3>2. IsFiniteSet({Monitor!SIGINT} \cup {Monitor!SIGUSR1})
      BY <3>1, FS_AddElement
    <3>3. IsFiniteSet({Monitor!SIGINT} \cup {Monitor!SIGUSR1} \cup {Monitor!SIGUSR2})
      BY <3>2, FS_AddElement
    <3>4. Monitor!Signal = {Monitor!SIGINT} \cup {Monitor!SIGUSR1} \cup {Monitor!SIGUSR2}
      BY DEF Monitor!Signal
    <3> QED
      BY <3>3, <3>4
  <2>2. /\ Monitor!Active(w) \subseteq Monitor!Signal
        /\ \A S : Monitor!Cardinality(S) = Cardinality(S)
    BY DEF Monitor!Active, Monitor!Cardinality, Cardinality
  <2>3. Monitor!Cardinality(Monitor!Active(w)) \in Int
    <3>1. IsFiniteSet(Monitor!Active(w))
      BY <2>1, <2>2, FS_Subset
    <3> QED
      BY <2>2, <3>1, FS_CardinalityType
  <2>4. ASSUME NEW s \in Monitor!Signal, s \in Monitor!New(w)
        PROVE  Monitor!Cardinality({n \in Monitor!New(w) : n <= s}) \in Int
    <3>1. IsFiniteSet({n \in Monitor!Signal : n <= s /\ n \in Monitor!New(w)})
      BY <2>1, FS_Subset
    <3>2. IsFiniteSet({n \in Monitor!New(w) : n <= s})
      <4>1. pending[w] \subseteq Monitor!Signal
        OBVIOUS
      <4>2. {n \in Monitor!New(w) : n <= s} = {n \in Monitor!Signal : n <= s /\ n \in Monitor!New(w)}
        BY <4>1 DEF Monitor!New
      <4> QED
        BY <3>1, <4>2
    <3> QED
      BY <2>2, <3>2, FS_CardinalityType
  <2>5. depth'[w] \in [Monitor!Signal -> Int]
    <3>1. \A s \in Monitor!Signal : depth[w][s] \in Int
      OBVIOUS
    <3>2. \A a, b \in Int : a + b \in Int
      OBVIOUS
    <3> DEFINE place == [s \in Monitor!Signal |->
                           Monitor!Cardinality(Monitor!Active(w))
                             + Monitor!Cardinality({n \in Monitor!New(w) : n <= s})]
    <3>3. \A s \in Monitor!Signal : s \in Monitor!New(w) => place[s] \in Int
      BY <2>3, <2>4, <3>2
    <3>4. depth'[w] = [s \in Monitor!Signal |-> IF s \in Monitor!New(w) THEN place[s] ELSE depth[w][s]]
      BY <1>2
    <3> HIDE DEF place
    <3> QED
      BY <3>1, <3>3, <3>4
  <2> QED
    BY <1>2, <2>5
<1>5. Monitor!FlagTypes'
  <2>1. (missed[w] \/ wpc[w] = "beforepause") \in BOOLEAN
    OBVIOUS
  <2>2. missed' \in [Monitor!Watcher -> BOOLEAN] /\ wpc' \in [Monitor!Watcher -> Monitor!Places]
    BY <1>1, <2>1 DEF Monitor!Places
  <2>3. pending' \in [Monitor!Watcher -> SUBSET Monitor!Signal]
    BY DEF Monitor!Deliver
  <2> QED
    BY <1>1, <1>3, <1>4, <2>2, <2>3
<1>6. /\ wpc'[w] \in {"test", "beforepause", "pause"} => wpc[w] \in {"test", "beforepause", "pause"}
      /\ wpc'[w] # "pause" /\ (wpc'[w] = "beforepause" => missed'[w])
      /\ \A x \in Monitor!Watcher \ {w} : wpc'[x] = wpc[x] /\ missed'[x] = missed[x]
  BY <1>1
<1>7. /\ Monitor!Active(w)' = Monitor!Active(w) \cup (Monitor!New(w) \cap Monitor!Signal)
      /\ \A s \in {Monitor!SIGUSR1, Monitor!SIGUSR2} :
           stage'[w][s] = "between" =>
             /\ stage[w][s] = "between"
             /\ \A other \in {Monitor!SIGUSR1, Monitor!SIGUSR2} :
                  other \notin Monitor!New(w) /\ depth'[w][other] = depth[w][other]
  BY <1>2, MonitorSignals DEF Monitor!Active, Monitor!New
<1>8. Monitor!Handled(w)'
  <2>1. Monitor!Handled(w)
    OBVIOUS
  <2>2. /\ Monitor!Between(w, Monitor!SIGUSR1, Monitor!SIGUSR2)'
        /\ Monitor!Between(w, Monitor!SIGUSR2, Monitor!SIGUSR1)'
    BY <1>7, <2>1 DEF Monitor!Between, Monitor!Handled
  <2> QED
    BY <1>1, <1>6, <1>7, <2>1, <2>2 DEF Monitor!Handled
<1>9. \A x \in Monitor!Watcher \ {w} : Monitor!Handled(x)'
  BY <1>1, <1>2, <1>6, MonitorUntouched
<1> QED
  BY <1>5, <1>8, <1>9

(* A handler sets a flag: it is on top, the other one not. *)
LEMMA MonitorHandles ==
  ASSUME Monitor!Flags, NEW w \in Monitor!Watcher,
         Monitor!handleSIGINT(w) \/ Monitor!handleSIGUSR1(w) \/ Monitor!handleSIGUSR2(w)
  PROVE  Monitor!Flags'
<1> USE DEF Monitor!Flags, Monitor!FlagTypes
<1>1. PICK s \in Monitor!Signal :
        /\ Monitor!OnTop(w, s)
        /\ \/ /\ stage[w][s] = "entered" /\ s # Monitor!SIGINT
              /\ stage' = [stage EXCEPT ![w][s] = "between"] /\ UNCHANGED <<depth, torn>>
           \/ /\ s = Monitor!SIGINT \/ stage[w][s] # "entered"
              /\ stage' = [stage EXCEPT ![w][s] = "none"] /\ depth' = [depth EXCEPT ![w][s] = 0]
              /\ torn' = IF s = Monitor!SIGINT THEN torn
                                               ELSE [torn EXCEPT ![w] = stage[w][s] = "interrupted"]
        /\ endProgram' = IF s = Monitor!SIGINT THEN [endProgram EXCEPT ![w] = TRUE] ELSE endProgram
        /\ reciveSIGUSR1' =
             IF s # Monitor!SIGINT /\ stage[w][s] = "entered"
               THEN [reciveSIGUSR1 EXCEPT ![w] = s = Monitor!SIGUSR1] ELSE reciveSIGUSR1
        /\ reciveSIGUSR2' =
             IF s # Monitor!SIGINT /\ stage[w][s] # "entered"
               THEN [reciveSIGUSR2 EXCEPT ![w] = s = Monitor!SIGUSR2] ELSE reciveSIGUSR2
  <2>1. CASE Monitor!handleSIGINT(w)
    BY <2>1, MonitorSignals DEF Monitor!handleSIGINT, Monitor!Ends
  <2>2. CASE Monitor!handleSIGUSR1(w)
    BY <2>2, MonitorSignals DEF Monitor!handleSIGUSR1, Monitor!First, Monitor!Last, Monitor!Ends,
                                Monitor!Sets1, Monitor!Sets2
  <2>3. CASE Monitor!handleSIGUSR2(w)
    BY <2>3, MonitorSignals DEF Monitor!handleSIGUSR2, Monitor!First, Monitor!Last, Monitor!Ends,
                                Monitor!Sets1, Monitor!Sets2
  <2> QED
    BY <2>1, <2>2, <2>3
<1>2. UNCHANGED <<wpc, pending, missed>>
  BY DEF Monitor!handleSIGINT, Monitor!handleSIGUSR1, Monitor!handleSIGUSR2, Monitor!history
<1>3. Monitor!FlagTypes'
  <2>1. (stage[w][s] = "interrupted") \in BOOLEAN /\ (s = Monitor!SIGUSR1) \in BOOLEAN
        /\ (s = Monitor!SIGUSR2) \in BOOLEAN
    OBVIOUS
  <2>2. /\ endProgram' \in [Monitor!Watcher -> BOOLEAN] /\ torn' \in [Monitor!Watcher -> BOOLEAN]
        /\ reciveSIGUSR1' \in [Monitor!Watcher -> BOOLEAN]
        /\ reciveSIGUSR2' \in [Monitor!Watcher -> BOOLEAN]
    BY <1>1, <2>1
  <2>3. stage' \in [Monitor!Watcher -> [Monitor!Signal -> {"none", "entered", "between", "interrupted"}]]
    <3>1. /\ [stage[w] EXCEPT ![s] = "between"]
              \in [Monitor!Signal -> {"none", "entered", "between", "interrupted"}]
          /\ [stage[w] EXCEPT ![s] = "none"]
              \in [Monitor!Signal -> {"none", "entered", "between", "interrupted"}]
      OBVIOUS
    <3>2. \/ stage' = [stage EXCEPT ![w] = [stage[w] EXCEPT ![s] = "between"]]
          \/ stage' = [stage EXCEPT ![w] = [stage[w] EXCEPT ![s] = "none"]]
      BY <1>1, Zenon
    <3>3. PICK stages \in [Monitor!Signal -> {"none", "entered", "between", "interrupted"}] :
            stage' = [stage EXCEPT ![w] = stages]
      BY <3>1, <3>2
    <3> QED
      BY <3>3
  <2>4. depth' = depth \/ depth' = [depth EXCEPT ![w][s] = 0]
    BY <1>1, Zenon
  <2>5. depth' \in [Monitor!Watcher -> [Monitor!Signal -> Int]]
    <3>1. CASE depth' = depth
      BY <3>1
    <3>2. CASE depth' = [depth EXCEPT ![w][s] = 0]
      <4>1. [depth[w] EXCEPT ![s] = 0] \in [Monitor!Signal -> Int]
        OBVIOUS
      <4> QED
        BY <3>2, <4>1
    <3> QED
      BY <2>4, <3>1, <3>2
  <2> QED
    BY <1>2, <2>2, <2>3, <2>5
<1>4. /\ s \in Monitor!Active(w) /\ stage[w][s] # "none"
      /\ \A other \in Monitor!Signal \ {s} :
           /\ stage'[w][other] = stage[w][other] /\ depth'[w][other] = depth[w][other]
           /\ other \in Monitor!Active(w)' <=> other \in Monitor!Active(w)
           /\ other \in Monitor!Active(w) => ~(depth[w][s] < depth[w][other])
           /\ other \in Monitor!Active(w) => depth[w][other] < depth[w][s]
  BY <1>1 DEF Monitor!OnTop, Monitor!Active
<1>5. Monitor!Handled(w)
  OBVIOUS
<1>6. wpc[w] \in {"beforepause", "pause"} => missed[w]
  BY <1>4, <1>5 DEF Monitor!Handled
<1>7. Monitor!Handled(w)'
  <2>1. CASE s = Monitor!SIGINT
    <3>1. /\ UNCHANGED <<reciveSIGUSR1, reciveSIGUSR2, torn>>
      BY <1>1, <2>1, MonitorSignals
    <3>2. /\ Monitor!Between(w, Monitor!SIGUSR1, Monitor!SIGUSR2)'
          /\ Monitor!Between(w, Monitor!SIGUSR2, Monitor!SIGUSR1)'
      BY <1>4, <1>5, <2>1, MonitorSignals DEF Monitor!Handled, Monitor!Between
    <3>3. Monitor!Active(w)' \subseteq {Monitor!SIGINT} => Monitor!Active(w) \subseteq {Monitor!SIGINT}
      BY <1>4, <2>1 DEF Monitor!Active
    <3>4. stage'[w][Monitor!SIGUSR1] = stage[w][Monitor!SIGUSR1]
      BY <1>4, <2>1, MonitorSignals
    <3> QED
      BY <1>2, <1>5, <1>6, <3>1, <3>2, <3>3, <3>4 DEF Monitor!Handled
  <2>2. ASSUME NEW other \in Monitor!Signal, {s, other} = {Monitor!SIGUSR1, Monitor!SIGUSR2}
        PROVE  Monitor!Handled(w)'
    <3>1. s # other /\ s # Monitor!SIGINT /\ other # Monitor!SIGINT
      BY <2>2, MonitorSignals
    <3>2. Monitor!Between(w, s, other)'
      <4>1. stage'[w][s] = "between" => depth'[w][s] = depth[w][s]
        BY <1>1
      <4> QED
        BY <1>4, <3>1, <4>1 DEF Monitor!Between
    <3>3. stage[w][other] # "between"
      <4>1. Monitor!Between(w, other, s)
        <5>1. CASE s = Monitor!SIGUSR1 /\ other = Monitor!SIGUSR2
          BY <1>5, <5>1 DEF Monitor!Handled
        <5>2. CASE s = Monitor!SIGUSR2 /\ other = Monitor!SIGUSR1
          BY <1>5, <5>2 DEF Monitor!Handled
        <5> QED
          BY <2>2, <3>1, <5>1, <5>2
      <4> QED
        BY <1>4, <3>1, <4>1 DEF Monitor!Between, Monitor!Active
    <3>4. Monitor!Between(w, other, s)'
      BY <1>4, <3>1, <3>3 DEF Monitor!Between
    <3>5. stage'[w][Monitor!SIGUSR1] = "between" => reciveSIGUSR1'[w]
      <4>1. CASE s = Monitor!SIGUSR1
        <5>1. stage'[w][s] = "between" => stage[w][s] = "entered"
          BY <1>1
        <5>2. stage'[w][s] = "between" => reciveSIGUSR1' = [reciveSIGUSR1 EXCEPT ![w] = TRUE]
          BY <1>1, <3>1, <4>1, <5>1
        <5> QED
          BY <4>1, <5>2
      <4>2. CASE other = Monitor!SIGUSR1
        BY <1>4, <3>1, <3>3, <4>2
      <4> QED
        BY <2>2, <4>1, <4>2
    <3>6. Monitor!Active(w)' \subseteq {Monitor!SIGINT} /\ ~torn'[w] =>
            reciveSIGUSR1'[w] \/ reciveSIGUSR2'[w]
      <4>1. CASE stage[w][s] = "entered"
        BY <1>1, <3>1, <4>1 DEF Monitor!Active
      <4>2. CASE stage[w][s] = "interrupted"
        BY <1>1, <3>1, <4>2
      <4>3. CASE stage[w][s] = "between"
        <5>1. CASE s = Monitor!SIGUSR1
          BY <1>1, <1>5, <3>1, <4>3, <5>1 DEF Monitor!Handled
        <5>2. CASE s = Monitor!SIGUSR2
          BY <1>1, <3>1, <4>3, <5>2
        <5> QED
          BY <2>2, <5>1, <5>2
      <4> QED
        BY <1>4, <4>1, <4>2, <4>3
    <3>7. /\ Monitor!Between(w, Monitor!SIGUSR1, Monitor!SIGUSR2)'
          /\ Monitor!Between(w, Monitor!SIGUSR2, Monitor!SIGUSR1)'
      <4>1. \/ s = Monitor!SIGUSR1 /\ other = Monitor!SIGUSR2
            \/ s = Monitor!SIGUSR2 /\ other = Monitor!SIGUSR1
        BY <2>2, <3>1
      <4>2. CASE s = Monitor!SIGUSR1 /\ other = Monitor!SIGUSR2
        BY <3>2, <3>4, <4>2
      <4>3. CASE s = Monitor!SIGUSR2 /\ other = Monitor!SIGUSR1
        BY <3>2, <3>4, <4>3
      <4> QED
        BY <4>1, <4>2, <4>3
    <3> QED
      BY <1>2, <1>6, <3>5, <3>6, <3>7 DEF Monitor!Handled
  <2> QED
    BY <2>1, <2>2, MonitorSignals
<1>8. \A x \in Monitor!Watcher \ {w} : Monitor!Handled(x)'
  <2>1. \A x \in Monitor!Watcher \ {w} :
          /\ stage'[x] = stage[x] /\ depth'[x] = depth[x] /\ torn'[x] = torn[x]
          /\ endProgram'[x] = endProgram[x] /\ reciveSIGUSR1'[x] = reciveSIGUSR1[x]
          /\ reciveSIGUSR2'[x] = reciveSIGUSR2[x]
    BY <1>1
  <2> QED
    BY <1>2, <2>1, MonitorUntouched
<1> QED
  BY <1>3, <1>7, <1>8

LEMMA MonitorFlags ==
  ASSUME Monitor!Flags, [Monitor!Next]_(Monitor!vars)
  PROVE  Monitor!Flags'
<1>1. ASSUME UNCHANGED <<wpc, reciveSIGUSR1, reciveSIGUSR2, endProgram, stage, depth, missed, torn>>,
             pending' \in [Monitor!Watcher -> SUBSET Monitor!Signal]
      PROVE  Monitor!Flags'
  BY <1>1, MonitorUntouched DEF Monitor!Flags, Monitor!FlagTypes
<1>2. CASE \/ Monitor!Tick \/ Monitor!Wait \/ UNCHANGED Monitor!vars
           \/ \E w \in Monitor!Watcher : Monitor!Write(w)
  BY <1>1, <1>2 DEF Monitor!Tick, Monitor!Wait, Monitor!Write, Monitor!vars, Monitor!signals,
                    Monitor!flags, Monitor!history, Monitor!Flags, Monitor!FlagTypes
<1>3. CASE Monitor!UserCommand \/ Monitor!EndCommand \/ Monitor!Interrupt
  <2>1. UNCHANGED <<wpc, reciveSIGUSR1, reciveSIGUSR2, endProgram, stage, depth, missed, torn>>
    BY <1>3 DEF Monitor!UserCommand, Monitor!EndCommand, Monitor!Interrupt, Monitor!flags,
                Monitor!history
  <2>2. PICK watchers \in SUBSET Monitor!Watcher, signal \in Monitor!Signal :
          Monitor!Kill(watchers, signal)
    BY <1>3, MonitorSignals DEF Monitor!UserCommand, Monitor!EndCommand, Monitor!Interrupt, Monitor!End
  <2>3. pending' \in [Monitor!Watcher -> SUBSET Monitor!Signal]
    BY <2>2 DEF Monitor!Kill, Monitor!Flags, Monitor!FlagTypes
  <2> QED
    BY <1>1, <2>1, <2>3
<1> QED
  BY <1>2, <1>3, MonitorRuns, MonitorDelivers, MonitorHandles DEF Monitor!Next, Monitor!WatcherStep

LEMMA MonitorSleepsOnlyStopped == Monitor!Flags => Monitor!SleepsOnlyStopped
  BY DEF Monitor!Flags, Monitor!FlagTypes, Monitor!Handled, Monitor!SleepsOnlyStopped

-----------------------------------------------------------------------------
(* Backups of which none is written over another: those of lab4 zad2.      *)

LEMMA MonitorInitCopies == Monitor!Init => Monitor!Copies
<1> SUFFICES ASSUME Monitor!Init PROVE Monitor!Copies
  OBVIOUS
<1>1. now \in Monitor!Second /\ fileName \in [Monitor!Watcher -> FileNames]
  BY LabsAssumption DEF Monitor!MonitorAssumption, Monitor!Init, Monitor!Second, Monitor!Watcher
<1>2. wpc \in [Monitor!Watcher -> Monitor!Places]
  BY DEF Monitor!Init, Monitor!Places
<1>3. version \in [Monitor!Watcher -> Nat]
  BY DEF Monitor!Init, Monitor!Watcher
<1>4. Monitor!CopyTypes
  BY <1>1, <1>2, <1>3 DEF Monitor!Init, Monitor!CopyTypes, Monitor!Nothing
<1>5. \A w \in Monitor!Watcher : Monitor!Kept(w)
  BY <1>1 DEF Monitor!Init, Monitor!Kept
<1> QED
  BY <1>4, <1>5 DEF Monitor!Copies

(* What a process has of its file, and where it is, after a step of its    *)
(* own that writes no backup.                                              *)
LEMMA MonitorReads ==
  ASSUME Monitor!Copies, NEW w \in Monitor!Watcher,
         \/ Monitor!FirstRead(w) \/ Monitor!Loop(w) \/ Monitor!Test(w) \/ Monitor!Pause(w)
         \/ Monitor!Stat(w) \/ Monitor!Load(w) \/ Monitor!Slept(w)
  PROVE  Monitor!Copies'
<1> USE DEF Monitor!Copies, Monitor!CopyTypes
<1>0. now \in Int /\ interval \in Nat
  BY LabsAssumption DEF Monitor!Second, Monitor!MonitorAssumption
<1>1. UNCHANGED <<now, fileName, archiwum, writes, version, woken>>
  BY DEF Monitor!FirstRead, Monitor!Loop, Monitor!Test, Monitor!Pause, Monitor!Stat, Monitor!Load,
         Monitor!Slept, Monitor!files, Monitor!copying, Monitor!history
<1>2. PICK where \in {"loop", "test", "beforepause", "pause", "stat", "save", "sleep", "ended"} :
        wpc' = [wpc EXCEPT ![w] = where]
  BY DEF Monitor!FirstRead, Monitor!Loop, Monitor!Test, Monitor!Pause, Monitor!Stat, Monitor!Load,
         Monitor!Slept, Monitor!Goto
<1>3. \/ UNCHANGED <<known, lastFileContent>> /\ wpc[w] \notin {"read", "load"}
      \/ Monitor!Read(w) /\ wpc[w] \in {"read", "load"}
  BY DEF Monitor!FirstRead, Monitor!Loop, Monitor!Test, Monitor!Pause, Monitor!Stat, Monitor!Load,
         Monitor!Slept, Monitor!copying, Monitor!At
<1>4. /\ wake' \in [Monitor!Watcher -> Int]
      /\ \A x \in Monitor!Watcher \ {w} : wake'[x] = wake[x]
      /\ where = "sleep" => wake'[w] = now + interval
  BY <1>0, <1>2 DEF Monitor!FirstRead, Monitor!Loop, Monitor!Test, Monitor!Pause, Monitor!Stat,
                   Monitor!Load, Monitor!Slept, Monitor!Goto
<1>5. /\ known' \in [Monitor!Watcher -> SUBSET Nat] /\ lastFileContent' \in [Monitor!Watcher -> Int]
      /\ \A x \in Monitor!Watcher \ {w} : known'[x] = known[x] /\ lastFileContent'[x] = lastFileContent[x]
      /\ \/ known'[w] = known[w] /\ lastFileContent'[w] = lastFileContent[w]
         \/ known'[w] = known[w] \cup {version[w]} /\ lastFileContent'[w] = version[w]
  BY <1>3 DEF Monitor!Read
<1>6. /\ wpc' \in [Monitor!Watcher -> Monitor!Places]
      /\ wpc'[w] = where /\ \A x \in Monitor!Watcher \ {w} : wpc'[x] = wpc[x]
  BY <1>2 DEF Monitor!Places
<1>7. \A x \in Monitor!Watcher : /\ Monitor!Archived(x)' = Monitor!Archived(x)
                                 /\ Monitor!Alone(x)' = Monitor!Alone(x)
  BY <1>1 DEF Monitor!Archived, Monitor!Alone
<1>8. interval > 0 /\ ~woken[w] /\ wpc[w] # "ended" =>
        \A s \in Monitor!Second : s >= Monitor!FreeFrom(w)' => s >= Monitor!FreeFrom(w)
  <2>1. CASE wpc[w] = "load"
    <3>1. where = "sleep" /\ wake'[w] = now + interval
      BY <1>4, <1>6, <2>1 DEF Monitor!FirstRead, Monitor!Loop, Monitor!Test, Monitor!Pause,
                           Monitor!Stat, Monitor!Load, Monitor!Slept, Monitor!Goto, Monitor!At
    <3> QED
      BY <1>0, <1>1, <1>6, <2>1, <3>1 DEF Monitor!FreeFrom, Monitor!Second
  <2>2. CASE wpc[w] = "sleep"
    <3>1. where = "loop" /\ now >= wake[w]
      BY <1>6, <2>2 DEF Monitor!FirstRead, Monitor!Loop, Monitor!Test, Monitor!Pause, Monitor!Stat,
                      Monitor!Load, Monitor!Slept, Monitor!Goto, Monitor!At
    <3> QED
      BY <1>0, <1>1, <1>6, <2>2, <3>1 DEF Monitor!FreeFrom, Monitor!Second
  <2>3. CASE wpc[w] \notin {"load", "sleep"}
    BY <1>0, <1>1, <1>4, <1>6, <2>3 DEF Monitor!FreeFrom, Monitor!Second
  <2> QED
    BY <2>1, <2>2, <2>3
<1>9. ASSUME NEW x \in Monitor!Watcher, interval > 0, Monitor!Kept(x), ~woken[x]
      PROVE  Monitor!Kept(x)'
  <2>1. CASE x # w
    <3>1. Monitor!FreeFrom(x)' = Monitor!FreeFrom(x)
      BY <1>1, <1>4, <1>6, <2>1 DEF Monitor!FreeFrom
    <3> QED
      BY <1>1, <1>5, <1>6, <1>7, <1>9, <2>1, <3>1 DEF Monitor!Kept
  <2>2. CASE x = w
    <3>1. wpc[w] # "ended" /\ where \notin {"read", "load"}
      BY DEF Monitor!FirstRead, Monitor!Loop, Monitor!Test, Monitor!Pause, Monitor!Stat,
             Monitor!Load, Monitor!Slept, Monitor!At
    <3>2. known'[w] \subseteq Monitor!Archived(w) \cup {lastFileContent'[w]}
      BY <1>1, <1>3, <1>5, <1>9, <2>2 DEF Monitor!Read, Monitor!Kept
    <3> QED
      BY <1>1, <1>6, <1>7, <1>8, <1>9, <2>2, <3>1, <3>2 DEF Monitor!Kept
  <2> QED
    BY <2>1, <2>2
<1>10. Monitor!CopyTypes'
  BY <1>1, <1>4, <1>5, <1>6
<1> QED
  BY <1>1, <1>7, <1>9, <1>10

(* The backup is written where there is none, if no other file has the     *)
(* name; and not among the backups of a file that has another name.        *)
LEMMA MonitorSaves ==
  ASSUME Monitor!Copies, NEW w \in Monitor!Watcher, Monitor!Save(w)
  PROVE  Monitor!Copies'
<1> USE DEF Monitor!Copies, Monitor!CopyTypes, Monitor!Save
<1>1. /\ UNCHANGED <<now, fileName, writes, version, woken, known, lastFileContent, wake>> /\ now \in Int
      /\ wpc[w] = "save" /\ wpc' = [wpc EXCEPT ![w] = "load"]
      /\ archiwum' = [archiwum EXCEPT ![fileName[w]][now] = lastFileContent[w]]
  BY DEF Monitor!files, Monitor!history, Monitor!Goto, Monitor!Second, Monitor!At
<1>2. Monitor!CopyTypes'
  <2>1. /\ archiwum' \in [FileNames -> [Monitor!Second -> Int]]
        /\ wpc' \in [Monitor!Watcher -> Monitor!Places]
    BY <1>1 DEF Monitor!Places
  <2> QED
    BY <1>1, <2>1
<1>3. ASSUME NEW x \in Monitor!Watcher, interval > 0, Monitor!Alone(x), ~woken[x], Monitor!Kept(x)
      PROVE  Monitor!Kept(x)'
  <2>1. CASE x # w
    <3>1. /\ Monitor!FreeFrom(x)' = Monitor!FreeFrom(x) /\ wpc'[x] = wpc[x]
          /\ archiwum'[fileName[x]] = archiwum[fileName[x]]
      <4>1. fileName[x] # fileName[w] /\ fileName[x] \in FileNames /\ fileName[w] \in FileNames
        BY <1>3, <2>1 DEF Monitor!Alone
      <4> QED
        BY <1>1, <2>1, <4>1 DEF Monitor!FreeFrom
    <3>2. Monitor!Archived(x)' = Monitor!Archived(x)
      BY <1>1, <3>1 DEF Monitor!Archived
    <3> QED
      BY <1>1, <1>3, <3>1, <3>2 DEF Monitor!Kept
  <2>2. CASE x = w
    <3>1. /\ wpc'[w] = "load" /\ Monitor!FreeFrom(w) = now /\ Monitor!FreeFrom(w)' = now + 1
          /\ archiwum'[fileName[w]][now] = lastFileContent[w]
          /\ \A s \in Monitor!Second \ {now} : archiwum'[fileName[w]][s] = archiwum[fileName[w]][s]
      BY <1>1 DEF Monitor!FreeFrom
    <3>2. \A s \in Monitor!Second : s >= now => archiwum[fileName[w]][s] = Monitor!Nothing
      BY <1>1, <1>3, <2>2, <3>1 DEF Monitor!Kept
    <3>3. \A s \in Monitor!Second : s >= now + 1 => archiwum'[fileName[w]][s] = Monitor!Nothing
      BY <1>1, <3>1, <3>2 DEF Monitor!Second
    <3>4. Monitor!Archived(w) \subseteq Monitor!Archived(w)' \cup {Monitor!Nothing}
      BY <1>1, <3>1, <3>2 DEF Monitor!Archived, Monitor!Second
    <3>5. known[w] \subseteq Nat /\ lastFileContent[w] \in Monitor!Archived(w)'
      BY <1>1, <3>1 DEF Monitor!Archived
    <3>6. known[w] \subseteq Monitor!Archived(w) \cup {lastFileContent[w]}
      BY <1>1, <1>3, <2>2 DEF Monitor!Kept
    <3>7. known'[w] \subseteq Monitor!Archived(w)'
      BY <1>1, <3>4, <3>5, <3>6 DEF Monitor!Nothing
    <3> QED
      BY <1>1, <2>2, <3>1, <3>3, <3>7 DEF Monitor!Kept
  <2> QED
    BY <2>1, <2>2
<1> QED
  BY <1>1, <1>2, <1>3 DEF Monitor!Alone

LEMMA MonitorCopies ==
  ASSUME Monitor!Copies, [Monitor!Next]_(Monitor!vars)
  PROVE  Monitor!Copies'
<1> USE DEF Monitor!Copies, Monitor!CopyTypes
<1>1. ASSUME UNCHANGED <<fileName, archiwum, known, lastFileContent, wake>>, writes' \in Nat,
             now' \in Monitor!Second, now' >= now, version' \in [Monitor!Watcher -> Nat],
             wpc' \in [Monitor!Watcher -> Monitor!Places],
             woken' \in [Monitor!Watcher -> BOOLEAN],
             \A w \in Monitor!Watcher : ~woken'[w] =>
               /\ ~woken[w] /\ (wpc[w] = "ended" => wpc'[w] = "ended")
               /\ \A place \in {"read", "load", "sleep"} : wpc[w] = place <=> wpc'[w] = place
      PROVE  Monitor!Copies'
  <2>1. ASSUME NEW w \in Monitor!Watcher, Monitor!Kept(w), ~woken'[w]
        PROVE  Monitor!Kept(w)'
    <3>1. Monitor!Archived(w)' = Monitor!Archived(w)
      BY <1>1 DEF Monitor!Archived
    <3>2. \A s \in Monitor!Second : s >= Monitor!FreeFrom(w)' => s >= Monitor!FreeFrom(w)
      BY <1>1, <2>1 DEF Monitor!FreeFrom, Monitor!Second
    <3> QED
      BY <1>1, <2>1, <3>1, <3>2 DEF Monitor!Kept
  <2>2. \A w \in Monitor!Watcher : Monitor!Alone(w)' = Monitor!Alone(w)
    BY <1>1 DEF Monitor!Alone
  <2> QED
    BY <1>1, <2>1, <2>2
<1>2. now \in Int
  BY DEF Monitor!Second
<1>3. ASSUME NEW w \in Monitor!Watcher, Monitor!Deliver(w)
      PROVE  Monitor!Copies'
  <2>1. /\ UNCHANGED <<now, fileName, writes, version, archiwum, known, lastFileContent, wake>>
        /\ wpc[w] # "ended" /\ woken' = [woken EXCEPT ![w] = @ \/ wpc[w] = "sleep"]
        /\ wpc' = [wpc EXCEPT ![w] = IF @ = "pause" THEN "test"
                                     ELSE IF @ = "sleep" THEN "loop" ELSE @]
    BY <1>3 DEF Monitor!Deliver, Monitor!files, Monitor!copying
  <2>2. woken' \in [Monitor!Watcher -> BOOLEAN]
    <3>1. (woken[w] \/ wpc[w] = "sleep") \in BOOLEAN
      OBVIOUS
    <3> QED
      BY <2>1, <3>1
  <2>3. ASSUME NEW x \in Monitor!Watcher, ~woken'[x]
        PROVE  /\ ~woken[x] /\ (wpc[x] = "ended" => wpc'[x] = "ended")
               /\ \A place \in {"read", "load", "sleep"} : wpc[x] = place <=> wpc'[x] = place
    BY <2>1, <2>3
  <2>4. wpc' \in [Monitor!Watcher -> Monitor!Places]
    BY <2>1 DEF Monitor!Places
  <2> QED
    BY <1>1, <1>2, <2>1, <2>2, <2>3, <2>4
<1>4. CASE Monitor!Tick
  <2>1. UNCHANGED <<fileName, writes, version, wpc, woken, archiwum, known, lastFileContent, wake>>
    BY <1>4 DEF Monitor!Tick, Monitor!copying, Monitor!history
  <2>2. now' \in Monitor!Second /\ now' >= now
    BY <1>2, <1>4, LabsAssumption DEF Monitor!Tick, Monitor!Second, Monitor!MonitorAssumption
  <2> QED
    BY <1>1, <2>1, <2>2
<1>5. ASSUME NEW w \in Monitor!Watcher, Monitor!Write(w)
      PROVE  Monitor!Copies'
  <2>1. /\ UNCHANGED <<now, fileName, wpc, woken, archiwum, known, lastFileContent, wake>>
        /\ writes' = writes + 1 /\ version' = [version EXCEPT ![w] = watchingFileCount + writes']
    BY <1>5 DEF Monitor!Write, Monitor!copying, Monitor!history
  <2>2. watchingFileCount + writes' \in Nat /\ writes' \in Nat
    BY <2>1, LabsAssumption DEF Monitor!MonitorAssumption
  <2>3. version' \in [Monitor!Watcher -> Nat]
    BY <2>1, <2>2
  <2> QED
    BY <1>1, <1>2, <2>1, <2>2, <2>3
<1>6. CASE \/ Monitor!UserCommand \/ Monitor!EndCommand \/ Monitor!Interrupt \/ Monitor!Wait
           \/ UNCHANGED Monitor!vars
           \/ \E w \in Monitor!Watcher :
                Monitor!handleSIGINT(w) \/ Monitor!handleSIGUSR1(w) \/ Monitor!handleSIGUSR2(w)
  <2>1. UNCHANGED <<now, fileName, writes, version, wpc, woken, archiwum, known, lastFileContent, wake>>
    BY <1>6 DEF Monitor!UserCommand, Monitor!EndCommand, Monitor!Interrupt, Monitor!Wait,
                Monitor!handleSIGINT, Monitor!handleSIGUSR1, Monitor!handleSIGUSR2,
                Monitor!vars, Monitor!files, Monitor!copying, Monitor!history
  <2> QED
    BY <1>1, <1>2, <2>1
<1> QED
  BY <1>3, <1>4, <1>5, <1>6, MonitorReads, MonitorSaves DEF Monitor!Next, Monitor!WatcherStep

LEMMA MonitorKeptAll == Monitor!Copies => Monitor!KeptAll
  BY DEF Monitor!Copies, Monitor!CopyTypes, Monitor!KeptAll, Monitor!Kept

-----------------------------------------------------------------------------
(* Backups of which none is written over another, and their number: those  *)
(* of lab3.                                                                *)

(* The copying processes are counted. *)
LEMMA WatchCardinality ==
  ASSUME NEW c \in SUBSET Watch!Second
  PROVE  /\ Watch!Cardinality({}) = 0 /\ Watch!Cardinality(c) \in Nat
         /\ \A s \in Watch!Second \ c : Watch!Cardinality(c \cup {s}) = Watch!Cardinality(c) + 1
         /\ \A s \in c : Watch!Cardinality(c \ {s}) = Watch!Cardinality(c) - 1
<1>1. ASSUME NEW S PROVE Watch!Cardinality(S) = Cardinality(S)
  BY DEF Watch!Cardinality, Cardinality
<1>2. IsFiniteSet(c) /\ Cardinality(c) \in Nat
  <2>1. WatchTime \in Int
    BY LabsAssumption DEF Watch!WatchersAssumption
  <2>2. IsFiniteSet(Watch!Second)
    BY <2>1, FS_Interval DEF Watch!Second
  <2> QED
    BY <2>2, FS_Subset, FS_CardinalityType
<1> QED
  BY <1>1, <1>2, FS_EmptySet, FS_AddElement, FS_RemoveElement

(* A step leaves a watcher alone. *)
Untouched(w) ==
  /\ wpc'[w] = wpc[w] /\ lastFileContent'[w] = lastFileContent[w] /\ known'[w] = known[w]
  /\ wake'[w] = wake[w] /\ cp'[w] = cp[w] /\ made'[w] = made[w] /\ killed'[w] = killed[w]
  /\ howCopies'[w] = howCopies[w] /\ exitStatus'[w] = exitStatus[w] /\ copped'[w] = copped[w]
  /\ fileName' = fileName
  /\ Watch!Alone(w) => archiwum'[fileName[w]] = archiwum[fileName[w]]

LEMMA WatchAlone ==
  ASSUME NEW w, UNCHANGED fileName
  PROVE  Watch!Alone(w)' <=> Watch!Alone(w)
  BY DEF Watch!Alone

(* Then time and failures of others do not matter to it. *)
LEMMA WatchUntouched ==
  ASSUME Watch!Tables, Watch!Tables', NEW w \in Watch!Watcher, Watch!Watched(w), Untouched(w),
         UNCHANGED <<zad, way, fileName, intervals>>, now' >= now, failures' >= failures
  PROVE  Watch!Watched(w)'
<1> USE DEF Untouched
<1>1. /\ now \in Int /\ now' \in Int /\ failures \in Nat /\ failures' \in Nat
      /\ made[w] \in Nat /\ wake[w] \in Int /\ howCopies[w] \in Int /\ cp[w] \subseteq Watch!Second
  BY DEF Watch!Tables, Watch!Second
<1>2. /\ Watch!Alone(w) => Watch!Archived(w)' = Watch!Archived(w)
      /\ \A s \in Watch!Second : /\ s >= Watch!FreeFrom(w)' => s >= Watch!FreeFrom(w)
                                 /\ s < Watch!FreeFrom(w) => s < Watch!FreeFrom(w)'
  BY <1>1 DEF Watch!Archived, Watch!FreeFrom, Watch!Second
<1>3. Watch!Placed(w)'
  BY WatchAlone DEF Watch!Watched, Watch!Placed
<1>4. Watch!FromMemory(w) => Watch!FromMemory(w)'
  <2>1. {n % 256 : n \in made[w] .. made[w] + failures}
          \subseteq {n % 256 : n \in made[w] .. made[w] + failures'}
    <3>1. made[w] .. made[w] + failures \subseteq made[w] .. made[w] + failures'
      BY <1>1
    <3> QED
      BY <3>1
  <2>2. Watch!Alone(w) /\ Watch!Kept(w) => Watch!Kept(w)'
    BY <1>2 DEF Watch!Kept
  <2> QED
    BY <2>1, <2>2, WatchAlone DEF Watch!FromMemory
<1>5. Watch!Forked(w) => Watch!Forked(w)'
  <2> SUFFICES ASSUME Watch!Forked(w) PROVE Watch!Forked(w)'
    OBVIOUS
  <2>1. Watch!Cardinality(cp[w]) \in Nat
    BY <1>1, WatchCardinality
  <2>2. \A s \in cp[w] : s < Watch!FreeFrom(w) => s < Watch!FreeFrom(w)'
    BY <1>1, <1>2
  <2> QED
    BY <1>1, <2>1, <2>2 DEF Watch!Forked
<1>6. Watch!WaitedFor(w) => Watch!WaitedFor(w)'
  BY DEF Watch!WaitedFor, Watch!Counted
<1> QED
  BY <1>3, <1>4, <1>5, <1>6 DEF Watch!Watched

(* A step of one watcher. *)
LEMMA WatchOne ==
  ASSUME Watch!IInv, Watch!Tables', NEW w \in Watch!Watcher, Watch!Watched(w)',
         UNCHANGED <<zad, way, fileName, intervals, limit, now>>, failures' >= failures,
         \A x \in Watch!Watcher \ {w} : Untouched(x)
  PROVE  Watch!IInv'
<1>1. now' >= now
  BY DEF Watch!IInv, Watch!Tables, Watch!Second
<1>2. ASSUME NEW x \in Watch!Watcher PROVE Watch!Watched(x)'
  BY <1>1, <1>2, WatchUntouched DEF Watch!IInv
<1> QED
  BY <1>2 DEF Watch!IInv

LEMMA WatchInit == Watch!Init => Watch!IInv
<1> SUFFICES ASSUME Watch!Init PROVE Watch!IInv
  OBVIOUS
<1>1. now \in Watch!Second
  BY LabsAssumption DEF Watch!WatchersAssumption, Watch!Init, Watch!Second
<1>2. Watch!Tables
  <2>1. PICK list \in Lists : /\ fileName = [w \in Watch!Watcher |-> list[w][1]]
                             /\ intervals = [w \in Watch!Watcher |-> list[w][2]]
                             /\ limit = WatchWrites[list]
    BY DEF Watch!Init
  <2>2. /\ list \in [Watch!Watcher -> FileNames \X Nat] /\ WatchWrites \in [Lists -> Nat]
    BY <2>1, LabsAssumption DEF Watch!WatchersAssumption, Watch!Watcher
  <2>3. /\ fileName \in [Watch!Watcher -> FileNames] /\ intervals \in [Watch!Watcher -> Nat]
        /\ limit \in Nat
    BY <2>1, <2>2
  <2> QED
    BY <1>1, <2>3 DEF Watch!Init, Watch!Tables, Watch!Nothing, Watch!Watcher
<1>3. ASSUME NEW w \in Watch!Watcher PROVE Watch!Watched(w)
  <2>1. fileName[w] \in FileNames
    BY <1>2 DEF Watch!Tables
  <2> QED
    BY <2>1 DEF Watch!Init, Watch!Watched, Watch!Placed, Watch!Nothing
<1> QED
  BY <1>2, <1>3 DEF Watch!IInv

(* The world. *)
LEMMA WatchWorld ==
  ASSUME Watch!IInv,
         \/ Watch!Tick \/ (\E w \in Watch!Watcher : Watch!TesterSaves(w)) \/ UNCHANGED Watch!vars
  PROVE  Watch!IInv'
<1> USE DEF Watch!IInv
<1>1. /\ UNCHANGED <<zad, way, fileName, intervals, failures, wpc, lastFileContent, known, archiwum,
                     wake, cp, made, killed, howCopies, exitStatus, copped>>
      /\ now' = now \/ (now < WatchTime /\ now' = now + 1)
      /\ version' \in [Watch!Watcher -> Nat] /\ limit' \in Nat
  <2>1. CASE Watch!Tick
    BY <2>1 DEF Watch!Tables, Watch!Tick, Watch!arguments, Watch!watching, Watch!backups,
                Watch!parent
  <2>2. ASSUME NEW w \in Watch!Watcher, Watch!TesterSaves(w)
        PROVE  /\ UNCHANGED <<zad, way, fileName, intervals, failures, wpc, lastFileContent, known,
                              archiwum, wake, cp, made, killed, howCopies, exitStatus, copped, now>>
               /\ version' \in [Watch!Watcher -> Nat] /\ limit' \in Nat
    <3>1. howWatchingFile \in Nat /\ limit \in Nat /\ version \in [Watch!Watcher -> Nat]
      BY LabsAssumption DEF Watch!WatchersAssumption, Watch!Tables
    <3>2. howWatchingFile + limit \in Nat /\ (limit > 0 => limit - 1 \in Nat)
      BY <3>1
    <3>3. version' \in [Watch!Watcher -> Nat] /\ limit' \in Nat
      BY <2>2, <3>1, <3>2 DEF Watch!TesterSaves
    <3> QED
      BY <2>2, <3>3 DEF Watch!TesterSaves, Watch!arguments, Watch!watching, Watch!backups,
                        Watch!parent
  <2>3. CASE UNCHANGED Watch!vars
    BY <2>3 DEF Watch!Tables, Watch!vars, Watch!arguments, Watch!world, Watch!watching,
                Watch!backups, Watch!parent
  <2> QED
    BY <2>1, <2>2, <2>3
<1>2. now' \in Watch!Second /\ now' >= now /\ failures' >= failures
  <2>1. WatchTime \in Int /\ now \in 0 .. WatchTime /\ failures \in Int
    BY LabsAssumption DEF Watch!WatchersAssumption, Watch!Tables, Watch!Second
  <2>2. now' \in 0 .. WatchTime /\ now' >= now /\ failures' >= failures
    BY <1>1, <2>1
  <2> QED
    BY <2>2 DEF Watch!Second
<1>3. Watch!Tables'
  BY <1>1, <1>2 DEF Watch!Tables
<1>4. ASSUME NEW w \in Watch!Watcher PROVE Watch!Watched(w)'
  BY <1>1, <1>2, <1>3, WatchUntouched DEF Untouched
<1> QED
  BY <1>3, <1>4

LEMMA WatchMain ==
  ASSUME Watch!IInv, Watch!main
  PROVE  Watch!IInv'
<1> USE DEF Watch!IInv
<1>1. zad = 0 /\ way = "none" /\ zad' \in {2, 3} /\ way' \in {"prog", "cmd"}
  BY DEF Watch!main, Watch!Tables
<1>2. /\ wpc' = [w \in Watch!Watcher |-> IF way' = "prog" THEN "read" ELSE "loop"]
      /\ howCopies' = [w \in Watch!Watcher |-> IF way' = "prog" THEN 0 ELSE -1]
      /\ UNCHANGED <<fileName, intervals, limit, now, version, failures, lastFileContent, known,
                     archiwum, wake, cp, made, killed, exitStatus, copped>>
  BY DEF Watch!main, Watch!world, Watch!backups
<1>3. Watch!Tables'
  BY <1>1, <1>2 DEF Watch!Tables
<1>4. ASSUME NEW w \in Watch!Watcher PROVE Watch!Watched(w)'
  <2>1. /\ known[w] = {} /\ made[w] = 0 /\ killed[w] = 0 /\ cp[w] = {}
        /\ Watch!Alone(w) => \A s \in Watch!Second : archiwum[fileName[w]][s] = Watch!Nothing
        /\ copped[w] = Watch!Nothing
    BY <1>1 DEF Watch!Watched, Watch!Placed
  <2>2. Watch!Placed(w)'
    BY <1>1, <1>2, <2>1, WatchAlone DEF Watch!Placed
  <2>3. way' = "prog" => Watch!FromMemory(w)'
    BY <1>2, <2>1, WatchAlone DEF Watch!FromMemory, Watch!Kept
  <2>4. way' = "cmd" => Watch!Forked(w)'
    <3>1. Watch!Cardinality({}) = 0 /\ failures' \in Nat
      BY <1>3, WatchCardinality DEF Watch!Tables
    <3> QED
      BY <1>2, <2>1, <3>1 DEF Watch!Forked
  <2>5. way' = "cmd" => Watch!WaitedFor(w)'
    BY <1>2, <2>1 DEF Watch!WaitedFor, Watch!Counted
  <2> QED
    BY <2>2, <2>3, <2>4, <2>5 DEF Watch!Watched
<1> QED
  BY <1>3, <1>4

LEMMA WatchWaitpid ==
  ASSUME Watch!IInv, Watch!waitpid
  PROVE  Watch!IInv'
<1> USE DEF Watch!IInv
<1>1. PICK w \in Watch!Watcher : w = waiting
  BY DEF Watch!waitpid
<1>2. /\ UNCHANGED <<zad, way, fileName, intervals, limit, now, version, failures, wpc,
                     lastFileContent, known, archiwum, wake, cp, made, killed, howCopies, exitStatus>>
      /\ wpc[w] = "ended"
      /\ copped' = [copped EXCEPT ![w] = exitStatus[w]]
  BY <1>1 DEF Watch!waitpid, Watch!arguments, Watch!world, Watch!watching, Watch!backups
<1>3. Watch!Tables'
  BY <1>2 DEF Watch!Tables
<1>4. failures' >= failures
  BY <1>2 DEF Watch!Tables
<1>5. Watch!Watched(w)'
  <2>1. Watch!Watched(w) /\ copped'[w] = exitStatus[w]
    BY <1>2 DEF Watch!Tables
  <2>2. Watch!Placed(w)'
    BY <1>2, <2>1, WatchAlone DEF Watch!Watched, Watch!Placed
  <2>3. /\ Watch!FromMemory(w)' <=> Watch!FromMemory(w)
        /\ Watch!Forked(w)' <=> Watch!Forked(w)
        /\ Watch!WaitedFor(w)' <=> Watch!WaitedFor(w)
    <3>1. Watch!Kept(w)' <=> Watch!Kept(w)
      BY <1>2 DEF Watch!Kept, Watch!FreeFrom, Watch!Archived
    <3>2. Watch!FromMemory(w)' <=> Watch!FromMemory(w)
      BY <1>2, <3>1, WatchAlone DEF Watch!FromMemory
    <3>3. /\ Watch!Forked(w)' <=> Watch!Forked(w)
          /\ Watch!WaitedFor(w)' <=> Watch!WaitedFor(w)
      BY <1>2 DEF Watch!Forked, Watch!WaitedFor, Watch!Counted, Watch!FreeFrom
    <3> QED
      BY <3>2, <3>3
  <2> QED
    BY <1>2, <2>1, <2>2, <2>3 DEF Watch!Watched
<1>6. \A x \in Watch!Watcher \ {w} : Untouched(x)
  BY <1>2 DEF Untouched, Watch!Tables
<1> QED
  BY <1>2, <1>3, <1>4, <1>5, <1>6, WatchOne

-----------------------------------------------------------------------------
(* The steps of a watcher that writes and forgets no backup. *)

(* It ends, for want of time, of an interval or of memory. *)
LEMMA WatchEnds ==
  ASSUME Watch!IInv, NEW w \in Watch!Watcher, Watch!Divide(w) \/ Watch!Return(w)
  PROVE  Watch!IInv'
<1> USE DEF Watch!IInv
<1>1. PICK status \in Int :
        /\ exitStatus' = [exitStatus EXCEPT ![w] = status % 256]
        /\ IF intervals[w] = 0 THEN status = 0 ELSE status = Watch!Returned(w)
  <2>1. Watch!Returned(w) \in Int \/ intervals[w] = 0
    BY DEF Watch!Returned, Watch!Tables, Watch!Watched, Watch!Placed, Watch!Divide, Watch!Return
  <2> QED
    BY <2>1 DEF Watch!Divide, Watch!Return, Watch!End, Watch!Tables
<1>2. /\ wpc[w] = "loop" /\ wpc' = [wpc EXCEPT ![w] = "ended"]
      /\ UNCHANGED <<zad, way, fileName, intervals, limit, now, version, failures, lastFileContent, known,
                     archiwum, wake, cp, made, killed, howCopies, copped>>
  BY DEF Watch!Divide, Watch!Return, Watch!End, Watch!Goto, Watch!arguments, Watch!world,
         Watch!backups, Watch!parent
<1>3. Watch!Tables'
  <2>1. status % 256 \in Int
    OBVIOUS
  <2> QED
    BY <1>1, <1>2, <2>1 DEF Watch!Tables
<1>4. failures' >= failures /\ \A x \in Watch!Watcher \ {w} : Untouched(x)
  BY <1>1, <1>2 DEF Untouched, Watch!Tables
<1>5. exitStatus'[w] = status % 256 /\ wpc'[w] = "ended" /\ Watch!Archived(w)' = Watch!Archived(w)
  BY <1>1, <1>2 DEF Watch!Tables, Watch!Archived
<1>6. Watch!Watched(w) /\ intervals[w] \in Nat /\ made[w] \in Nat /\ failures \in Nat
  BY DEF Watch!Tables
<1>7. Watch!Placed(w)'
  BY <1>2, <1>5, <1>6, WatchAlone DEF Watch!Watched, Watch!Placed
<1>8. way = "prog" => Watch!FromMemory(w)'
  <2> SUFFICES ASSUME way = "prog" PROVE Watch!FromMemory(w)'
    OBVIOUS
  <2>1. status = made[w]
    BY <1>1, <1>2, <1>6 DEF Watch!Watched, Watch!FromMemory, Watch!Returned
  <2>2. status % 256 \in {n % 256 : n \in made[w] .. made[w] + failures}
    BY <1>6, <2>1
  <2>3. Watch!Kept(w) => Watch!Kept(w)'
    BY <1>2, <1>5 DEF Watch!Kept
  <2> QED
    BY <1>2, <1>5, <1>6, <2>2, <2>3, WatchAlone DEF Watch!Watched, Watch!FromMemory
<1>9. way = "cmd" /\ zad = 2 => Watch!Forked(w)'
  <2> SUFFICES ASSUME way = "cmd", zad = 2 PROVE Watch!Forked(w)'
    OBVIOUS
  <2>1. status = howCopies[w] + 1
    BY <1>1, <1>6 DEF Watch!Watched, Watch!Forked, Watch!Returned
  <2> QED
    BY <1>2, <1>5, <1>6, <2>1 DEF Watch!Watched, Watch!Forked
<1>10. way = "cmd" /\ zad = 3 => Watch!WaitedFor(w)'
  <2> SUFFICES ASSUME way = "cmd", zad = 3 PROVE Watch!WaitedFor(w)'
    OBVIOUS
  <2>1. /\ howCopies[w] + 1 = Watch!Counted(w) /\ howCopies[w] \in Int
        /\ Watch!Counted(w)' = Watch!Counted(w) /\ Watch!Counted(w) \in Nat
    BY <1>2, <1>6 DEF Watch!Watched, Watch!WaitedFor, Watch!Tables, Watch!Counted
  <2>2. status = IF Watch!Counted(w) = 0 THEN 0 ELSE Watch!Counted(w) - 1
    BY <1>1, <1>6, <2>1 DEF Watch!Watched, Watch!WaitedFor, Watch!Returned
  <2> QED
    BY <1>2, <1>5, <1>6, <2>1, <2>2 DEF Watch!Watched, Watch!WaitedFor
<1>11. Watch!Watched(w)'
  BY <1>2, <1>7, <1>8, <1>9, <1>10 DEF Watch!Watched
<1> QED
  BY <1>2, <1>3, <1>4, <1>11, WatchOne

LEMMA WatchSlept ==
  ASSUME Watch!IInv, NEW w \in Watch!Watcher, Watch!Slept(w)
  PROVE  Watch!IInv'
<1> USE DEF Watch!IInv
<1>1. /\ wpc[w] = "sleep" /\ wpc' = [wpc EXCEPT ![w] = "loop"] /\ now >= wake[w]
      /\ UNCHANGED <<zad, way, fileName, intervals, limit, now, version, failures, lastFileContent, known,
                     archiwum, wake, cp, made, killed, howCopies, exitStatus, copped>>
  BY DEF Watch!Slept, Watch!Goto, Watch!arguments, Watch!world, Watch!backups, Watch!parent
<1>2. Watch!Tables' /\ failures' >= failures
  BY <1>1 DEF Watch!Tables
<1>3. \A x \in Watch!Watcher \ {w} : Untouched(x)
  BY <1>1 DEF Untouched, Watch!Tables
<1>4. Watch!Watched(w) /\ wpc'[w] = "loop" /\ Watch!Archived(w)' = Watch!Archived(w)
  BY <1>1 DEF Watch!Tables, Watch!Archived
<1>5. /\ now \in Int /\ wake[w] \in Int /\ cp[w] \subseteq Watch!Second
      /\ Watch!FreeFrom(w) = wake[w] /\ Watch!FreeFrom(w)' = now
  BY <1>1, <1>4 DEF Watch!FreeFrom, Watch!Tables, Watch!Second
<1>6. Watch!Placed(w)'
  BY <1>1, <1>4, WatchAlone DEF Watch!Watched, Watch!Placed
<1>7. Watch!FromMemory(w) => Watch!FromMemory(w)'
  <2>1. Watch!Kept(w) => Watch!Kept(w)'
    BY <1>1, <1>4, <1>5 DEF Watch!Kept, Watch!Second
  <2> QED
    BY <1>1, <1>4, <2>1, WatchAlone DEF Watch!FromMemory
<1>8. Watch!Forked(w) => Watch!Forked(w)'
  BY <1>1, <1>4, <1>5 DEF Watch!Forked, Watch!Second
<1>9. Watch!WaitedFor(w) => Watch!WaitedFor(w)'
  BY <1>1, <1>4 DEF Watch!WaitedFor, Watch!Counted
<1>10. Watch!Watched(w)'
  BY <1>1, <1>4, <1>6, <1>7, <1>8, <1>9 DEF Watch!Watched
<1> QED
  BY <1>1, <1>2, <1>3, <1>10, WatchOne

(* Memory or a file is missing: the watcher ends with its count. *)
LEMMA WatchFails ==
  ASSUME Watch!IInv, NEW w \in Watch!Watcher, wpc[w] \in {"read", "save", "load"}, Watch!Fails,
         \/ wpc[w] = "read" /\ Watch!End(w, 0)
         \/ wpc[w] # "read" /\ Watch!End(w, howCopies[w]),
         UNCHANGED <<zad, way, fileName, intervals, limit, now, version, lastFileContent, known,
                     archiwum, wake, cp,
                     made, killed, howCopies, copped>>
  PROVE  Watch!IInv'
<1> USE DEF Watch!IInv
<1>1. /\ wpc' = [wpc EXCEPT ![w] = "ended"] /\ failures' = failures + 1 /\ failures \in Nat
      /\ way = "prog" /\ Watch!Watched(w) /\ made[w] \in Nat /\ howCopies[w] \in Int
  BY DEF Watch!End, Watch!Goto, Watch!Fails, Watch!Tables, Watch!Watched, Watch!Placed
<1>2. /\ exitStatus' = [exitStatus EXCEPT ![w] = howCopies[w] % 256]
      /\ howCopies[w] \in made[w] .. made[w] + failures'
  BY <1>1 DEF Watch!End, Watch!Watched, Watch!Placed, Watch!FromMemory
<1>3. Watch!Tables' /\ failures' >= failures /\ wpc'[w] = "ended"
  <2>1. howCopies[w] % 256 \in Int
    BY <1>1
  <2> QED
    BY <1>1, <1>2, <2>1 DEF Watch!Tables
<1>4. \A x \in Watch!Watcher \ {w} : Untouched(x)
  BY <1>1, <1>2 DEF Untouched, Watch!Tables
<1>5. Watch!Placed(w)'
  BY <1>1, <1>3, WatchAlone DEF Watch!Watched, Watch!Placed, Watch!Nothing
<1>6. exitStatus'[w] \in {n % 256 : n \in made[w] .. made[w] + failures'}
  BY <1>2 DEF Watch!Tables
<1>7. Watch!FromMemory(w)'
  <2>1. Watch!Archived(w)' = Watch!Archived(w)
    BY DEF Watch!Archived
  <2>2. Watch!Kept(w) => Watch!Kept(w)'
    BY <1>3, <2>1 DEF Watch!Kept
  <2> QED
    BY <1>1, <1>3, <1>6, <2>2, WatchAlone DEF Watch!Watched, Watch!FromMemory
<1>8. Watch!Watched(w)'
  BY <1>1, <1>5, <1>7 DEF Watch!Watched
<1> QED
  BY <1>3, <1>4, <1>8, WatchOne

LEMMA WatchFirstRead ==
  ASSUME Watch!IInv, NEW w \in Watch!Watcher, Watch!FirstRead(w)
  PROVE  Watch!IInv'
<1> USE DEF Watch!IInv
<1>1. /\ wpc[w] = "read"
      /\ UNCHANGED <<zad, way, fileName, intervals, limit, now, version, archiwum, wake, cp, made,
                     killed, howCopies, copped>>
  BY DEF Watch!FirstRead, Watch!arguments, Watch!backups, Watch!parent
<1>2. CASE Watch!Fails /\ Watch!End(w, 0) /\ UNCHANGED <<lastFileContent, known>>
  BY <1>1, <1>2, WatchFails
<1>3. CASE Watch!Read(w) /\ Watch!Goto(w, "loop") /\ UNCHANGED <<failures, exitStatus>>
  <2>1. /\ lastFileContent' = [lastFileContent EXCEPT ![w] = version[w]]
        /\ known' = [known EXCEPT ![w] = @ \cup {version[w]}]
        /\ wpc' = [wpc EXCEPT ![w] = "loop"]
    BY <1>3 DEF Watch!Read, Watch!Goto
  <2>2. Watch!Tables' /\ failures' >= failures
    BY <1>1, <1>3, <2>1 DEF Watch!Tables
  <2>3. \A x \in Watch!Watcher \ {w} : Untouched(x)
    BY <1>1, <1>3, <2>1 DEF Untouched, Watch!Tables
  <2>4. /\ way = "prog" /\ made[w] = 0 /\ cp[w] = {} /\ howCopies[w] = 0 /\ known'[w] = {version[w]}
        /\ Watch!Alone(w) => \A s \in Watch!Second : archiwum[fileName[w]][s] = Watch!Nothing
        /\ lastFileContent'[w] = version[w] /\ wpc'[w] = "loop" /\ copped[w] = Watch!Nothing
    BY <1>1, <2>1 DEF Watch!Tables, Watch!Watched, Watch!Placed, Watch!FromMemory
  <2>5. Watch!Placed(w)'
    BY <1>1, <2>4 DEF Watch!Placed
  <2>6. Watch!FromMemory(w)'
    BY <1>1, <2>4, WatchAlone DEF Watch!FromMemory, Watch!Kept
  <2>7. Watch!Watched(w)'
    BY <1>1, <2>4, <2>5, <2>6 DEF Watch!Watched
  <2> QED
    BY <1>1, <2>2, <2>3, <2>7, WatchOne
<1> QED
  BY <1>2, <1>3 DEF Watch!FirstRead

(* The file is looked at: there is a backup to write, or it sleeps. *)
LEMMA WatchStatProg ==
  ASSUME Watch!IInv, NEW w \in Watch!Watcher, Watch!StatProg(w)
  PROVE  Watch!IInv'
<1> USE DEF Watch!IInv
<1>1. /\ way = "prog" /\ wpc[w] = "loop" /\ intervals[w] > 0 /\ Watch!Watched(w)
      /\ UNCHANGED <<zad, way, fileName, intervals, limit, now, version, failures, lastFileContent, known,
                     archiwum, cp, made, killed, exitStatus, copped>>
      /\ intervals[w] \in Nat /\ now \in Int /\ failures \in Nat /\ howCopies[w] \in Int
  BY DEF Watch!StatProg, Watch!Turns, Watch!arguments, Watch!world, Watch!backups, Watch!parent,
         Watch!Tables, Watch!Second
<1>2. \/ /\ wpc' = [wpc EXCEPT ![w] = "save"] /\ wake' = wake
         /\ howCopies' = [howCopies EXCEPT ![w] = @ + 1]
      \/ /\ wpc' = [wpc EXCEPT ![w] = "sleep"] /\ howCopies' = howCopies
         /\ wake' = [wake EXCEPT ![w] = now + intervals[w]]
  BY DEF Watch!StatProg, Watch!Sleep, Watch!Goto
<1>3. Watch!Tables' /\ failures' >= failures
  <2>1. howCopies' \in [Watch!Watcher -> Int] /\ wake' \in [Watch!Watcher -> Int]
    BY <1>1, <1>2 DEF Watch!Tables
  <2>2. wpc' \in [Watch!Watcher -> {"none", "read", "loop", "sleep", "save", "load", "wait", "ended"}]
    BY <1>2 DEF Watch!Tables
  <2> QED
    BY <1>1, <2>1, <2>2 DEF Watch!Tables
<1>4. \A x \in Watch!Watcher \ {w} : Untouched(x)
  BY <1>1, <1>2 DEF Untouched, Watch!Tables
<1>5. /\ wpc'[w] \in {"save", "sleep"}
      /\ wpc'[w] = "save" => howCopies'[w] = howCopies[w] + 1
      /\ wpc'[w] = "sleep" => howCopies'[w] = howCopies[w] /\ wake'[w] = now + intervals[w]
  BY <1>2 DEF Watch!Tables
<1>6. Watch!Archived(w)' = Watch!Archived(w) /\ Watch!FreeFrom(w) = now /\ Watch!FreeFrom(w)' >= now
  BY <1>1, <1>5 DEF Watch!Archived, Watch!FreeFrom
<1>7. \A s \in Watch!Second : s >= Watch!FreeFrom(w)' => s >= Watch!FreeFrom(w)
  BY <1>1, <1>5, <1>6 DEF Watch!Second, Watch!FreeFrom
<1>8. Watch!Placed(w)'
  BY <1>1, <1>5, WatchAlone DEF Watch!Watched, Watch!Placed
<1>9. Watch!FromMemory(w)'
  <2>1. Watch!Kept(w) => Watch!Kept(w)'
    BY <1>1, <1>5, <1>6, <1>7 DEF Watch!Kept
  <2> QED
    BY <1>1, <1>5, <2>1, WatchAlone DEF Watch!Watched, Watch!FromMemory
<1>10. Watch!Watched(w)'
  BY <1>1, <1>8, <1>9 DEF Watch!Watched
<1> QED
  BY <1>1, <1>3, <1>4, <1>10, WatchOne

(* A backup is written: whoever has a name of its own does not notice. *)
LEMMA WatchArchives ==
  ASSUME Watch!Tables, NEW w \in Watch!Watcher, NEW s \in Watch!Second, NEW content \in Int,
         archiwum' = [archiwum EXCEPT ![fileName[w]][s] = content]
  PROVE  /\ archiwum' \in [FileNames -> [Watch!Second -> Int]]
         /\ archiwum'[fileName[w]][s] = content
         /\ \A t \in Watch!Second \ {s} : archiwum'[fileName[w]][t] = archiwum[fileName[w]][t]
         /\ \A x \in Watch!Watcher \ {w} :
              Watch!Alone(x) => archiwum'[fileName[x]] = archiwum[fileName[x]]
<1>1. /\ fileName[w] \in FileNames /\ archiwum \in [FileNames -> [Watch!Second -> Int]]
      /\ \A x \in Watch!Watcher : fileName[x] \in FileNames
  BY DEF Watch!Tables
<1>2. [archiwum[fileName[w]] EXCEPT ![s] = content] \in [Watch!Second -> Int]
  BY <1>1
<1>3. archiwum' \in [FileNames -> [Watch!Second -> Int]]
  BY <1>1, <1>2
<1>4. archiwum'[fileName[w]] = [archiwum[fileName[w]] EXCEPT ![s] = content]
  BY <1>1
<1>5. ASSUME NEW x \in Watch!Watcher \ {w}, Watch!Alone(x)
      PROVE  archiwum'[fileName[x]] = archiwum[fileName[x]]
  BY <1>1, <1>5 DEF Watch!Alone
<1> QED
  BY <1>1, <1>3, <1>4, <1>5

(* The backup is written where there is none. *)
LEMMA WatchSave ==
  ASSUME Watch!IInv, NEW w \in Watch!Watcher, Watch!Save(w)
  PROVE  Watch!IInv'
<1> USE DEF Watch!IInv
<1>1. /\ wpc[w] = "save" /\ way = "prog" /\ intervals[w] > 0 /\ Watch!Watched(w)
      /\ UNCHANGED <<zad, way, fileName, intervals, limit, now, version, lastFileContent, known, cp,
                     wake, howCopies, killed, copped>>
      /\ now \in Watch!Second /\ now \in Int /\ intervals[w] \in Nat /\ made[w] \in Nat
  BY DEF Watch!Save, Watch!arguments, Watch!parent, Watch!Watched, Watch!Placed, Watch!Tables,
         Watch!Second
<1>2. CASE Watch!Fails /\ Watch!End(w, howCopies[w]) /\ UNCHANGED <<archiwum, made, killed>>
  BY <1>1, <1>2, WatchFails
<1>3. CASE /\ archiwum' = [archiwum EXCEPT ![fileName[w]][now] = lastFileContent[w]]
           /\ made' = [made EXCEPT ![w] = @ + 1]
           /\ Watch!Goto(w, "load") /\ UNCHANGED <<failures, exitStatus>>
  <2>0. /\ lastFileContent[w] \in Int
        /\ archiwum' = [archiwum EXCEPT ![fileName[w]][now] = lastFileContent[w]]
    BY <1>3 DEF Watch!Tables
  <2>1. wpc' = [wpc EXCEPT ![w] = "load"]
    BY <1>3 DEF Watch!Goto
  <2>2. Watch!Tables' /\ failures' >= failures
    <3>1. archiwum' \in [FileNames -> [Watch!Second -> Int]]
      BY <1>1, <2>0, WatchArchives
    <3> QED
      BY <1>1, <1>3, <2>1, <3>1 DEF Watch!Tables
  <2>3. \A x \in Watch!Watcher \ {w} : Untouched(x)
    <3>1. \A x \in Watch!Watcher \ {w} :
            Watch!Alone(x) => archiwum'[fileName[x]] = archiwum[fileName[x]]
      BY <1>1, <2>0, WatchArchives
    <3> QED
      BY <1>1, <1>3, <2>1, <3>1 DEF Untouched, Watch!Tables
  <2>4. /\ wpc'[w] = "load" /\ Watch!FreeFrom(w) = now /\ Watch!FreeFrom(w)' = now + 1
        /\ made'[w] = made[w] + 1
    BY <1>1, <1>3, <2>1 DEF Watch!FreeFrom, Watch!Tables
  <2>5. Watch!FromMemory(w)
    BY <1>1 DEF Watch!Watched
  <2>6. /\ archiwum'[fileName[w]][now] = lastFileContent[w]
        /\ \A s \in Watch!Second \ {now} : archiwum'[fileName[w]][s] = archiwum[fileName[w]][s]
    <3>1. archiwum'[fileName[w]][now] = lastFileContent[w]
      BY <1>1, <2>0 DEF Watch!Tables
    <3>2. \A s \in Watch!Second \ {now} : archiwum'[fileName[w]][s] = archiwum[fileName[w]][s]
      BY <1>1, <2>0, WatchArchives
    <3> QED
      BY <3>1, <3>2
  <2>7. ASSUME Watch!Kept(w) PROVE Watch!Kept(w)'
    <3>1. \A s \in Watch!Second : s >= now => archiwum[fileName[w]][s] = Watch!Nothing
      BY <1>1, <2>4, <2>7 DEF Watch!Kept
    <3>2. \A s \in Watch!Second : s >= now + 1 => archiwum'[fileName[w]][s] = Watch!Nothing
      BY <1>1, <2>6, <3>1 DEF Watch!Second
    <3>3. Watch!Archived(w) \subseteq Watch!Archived(w)' \cup {Watch!Nothing}
      BY <1>1, <2>6, <3>1 DEF Watch!Archived, Watch!Second
    <3>4. known[w] \subseteq Nat /\ known[w] \subseteq Watch!Archived(w) \cup {lastFileContent[w]}
      BY <1>1, <2>7 DEF Watch!Kept, Watch!Tables
    <3>5. lastFileContent[w] \in Watch!Archived(w)'
      BY <1>1, <2>6 DEF Watch!Archived
    <3>6. known[w] \subseteq Watch!Archived(w)'
      BY <3>3, <3>4, <3>5 DEF Watch!Nothing
    <3> QED
      BY <1>1, <2>4, <3>2, <3>6 DEF Watch!Kept
  <2>8. Watch!FromMemory(w)'
    BY <1>1, <2>4, <2>5, <2>7, WatchAlone DEF Watch!FromMemory
  <2>9. Watch!Placed(w)'
    BY <1>1, <2>4, WatchAlone DEF Watch!Watched, Watch!Placed
  <2>10. Watch!Watched(w)'
    BY <1>1, <2>8, <2>9 DEF Watch!Watched
  <2> QED
    BY <1>1, <2>2, <2>3, <2>10, WatchOne
<1> QED
  BY <1>2, <1>3 DEF Watch!Save

LEMMA WatchLoad ==
  ASSUME Watch!IInv, NEW w \in Watch!Watcher, Watch!Load(w)
  PROVE  Watch!IInv'
<1> USE DEF Watch!IInv
<1>1. /\ wpc[w] = "load" /\ way = "prog" /\ intervals[w] > 0 /\ Watch!Watched(w)
      /\ UNCHANGED <<zad, way, fileName, intervals, limit, now, version, archiwum, cp, made, killed,
                     howCopies, copped>>
      /\ now \in Int /\ intervals[w] \in Nat
  <2>1. /\ wpc[w] = "load"
        /\ UNCHANGED <<zad, way, fileName, intervals, limit, now, version, archiwum, cp, made, killed,
                       howCopies, copped>>
    BY DEF Watch!Load, Watch!arguments, Watch!backups, Watch!parent
  <2> QED
    BY <2>1 DEF Watch!Watched, Watch!Placed, Watch!Tables, Watch!Second
<1>2. CASE Watch!Fails /\ Watch!End(w, howCopies[w]) /\ UNCHANGED <<lastFileContent, known, wake>>
  BY <1>1, <1>2, WatchFails
<1>3. CASE Watch!Read(w) /\ Watch!Sleep(w) /\ UNCHANGED <<failures, exitStatus>>
  <2>1. /\ lastFileContent' = [lastFileContent EXCEPT ![w] = version[w]]
        /\ known' = [known EXCEPT ![w] = @ \cup {version[w]}]
        /\ wpc' = [wpc EXCEPT ![w] = "sleep"]
        /\ wake' = [wake EXCEPT ![w] = now + intervals[w]]
    BY <1>3 DEF Watch!Read, Watch!Sleep, Watch!Goto
  <2>2. Watch!Tables' /\ failures' >= failures
    BY <1>1, <1>3, <2>1 DEF Watch!Tables
  <2>3. \A x \in Watch!Watcher \ {w} : Untouched(x)
    BY <1>1, <1>3, <2>1 DEF Untouched, Watch!Tables
  <2>4. /\ wpc'[w] = "sleep" /\ Watch!FreeFrom(w) = now + 1
        /\ Watch!FreeFrom(w)' = now + intervals[w]
        /\ known'[w] = known[w] \cup {version[w]} /\ lastFileContent'[w] = version[w]
        /\ Watch!Archived(w)' = Watch!Archived(w)
    BY <1>1, <2>1 DEF Watch!FreeFrom, Watch!Archived, Watch!Tables
  <2>5. \A s \in Watch!Second : s >= Watch!FreeFrom(w)' => s >= Watch!FreeFrom(w)
    BY <1>1, <2>4 DEF Watch!Second
  <2>6. Watch!FromMemory(w)'
    <3>1. Watch!Kept(w) => Watch!Kept(w)'
      BY <1>1, <2>4, <2>5 DEF Watch!Kept
    <3> QED
      BY <1>1, <2>4, <3>1, WatchAlone DEF Watch!Watched, Watch!FromMemory
  <2>7. Watch!Placed(w)'
    BY <1>1, <2>4, WatchAlone DEF Watch!Watched, Watch!Placed
  <2>8. Watch!Watched(w)'
    BY <1>1, <2>6, <2>7 DEF Watch!Watched
  <2> QED
    BY <1>1, <1>3, <2>2, <2>3, <2>8, WatchOne
<1> QED
  BY <1>2, <1>3 DEF Watch!Load

-----------------------------------------------------------------------------
(* The steps of the watchers that copy with cp. *)

(* A second of which there is no copy yet has its own. *)
LEMMA WatchStatCmd ==
  ASSUME Watch!IInv, NEW w \in Watch!Watcher, Watch!StatCmd(w)
  PROVE  Watch!IInv'
<1> USE DEF Watch!IInv
<1>1. /\ way = "cmd" /\ wpc[w] = "loop" /\ intervals[w] > 0 /\ Watch!Watched(w) /\ zad \in {2, 3}
      /\ UNCHANGED <<zad, way, fileName, intervals, limit, now, version, failures, lastFileContent, known,
                     archiwum, made, killed, exitStatus, copped>>
      /\ intervals[w] \in Nat /\ now \in Int /\ now \in Watch!Second /\ failures \in Nat
      /\ howCopies[w] \in Int /\ made[w] \in Nat /\ cp[w] \subseteq Watch!Second
  BY DEF Watch!StatCmd, Watch!Turns, Watch!arguments, Watch!world, Watch!parent, Watch!Tables,
         Watch!Second
<1>2. \/ /\ wpc' = [wpc EXCEPT ![w] = "sleep"] /\ UNCHANGED <<howCopies, cp>>
         /\ wake' = [wake EXCEPT ![w] = now + intervals[w]]
      \/ /\ zad = 2 /\ wpc' = [wpc EXCEPT ![w] = "sleep"]
         /\ howCopies' = [howCopies EXCEPT ![w] = @ + 1]
         /\ wake' = [wake EXCEPT ![w] = now + intervals[w]]
         /\ cp' = [cp EXCEPT ![w] = @ \cup {now}]
      \/ /\ zad = 3 /\ wpc' = [wpc EXCEPT ![w] = "wait"] /\ UNCHANGED <<howCopies, wake>>
         /\ cp' = [cp EXCEPT ![w] = @ \cup {now}]
  BY <1>1 DEF Watch!StatCmd, Watch!Sleep, Watch!Goto
<1>3. Watch!Tables' /\ failures' >= failures
  <2>1. PICK copies \in SUBSET Watch!Second : cp' = [cp EXCEPT ![w] = copies]
    <3>1. cp[w] \cup {now} \in SUBSET Watch!Second
      BY <1>1
    <3>2. cp = [cp EXCEPT ![w] = cp[w]]
      BY DEF Watch!Tables
    <3>3. cp' = cp \/ cp' = [cp EXCEPT ![w] = cp[w] \cup {now}]
      BY <1>2
    <3> QED
      BY <1>1, <3>1, <3>2, <3>3
  <2>2. cp' \in [Watch!Watcher -> SUBSET Watch!Second]
    BY <2>1 DEF Watch!Tables
  <2>3. howCopies' = howCopies \/ howCopies' = [howCopies EXCEPT ![w] = @ + 1]
    BY <1>2
  <2>4. howCopies' \in [Watch!Watcher -> Int]
    BY <1>1, <2>3 DEF Watch!Tables
  <2>5. wake' = wake \/ wake' = [wake EXCEPT ![w] = now + intervals[w]]
    BY <1>2
  <2>6. wake' \in [Watch!Watcher -> Int]
    BY <1>1, <2>5 DEF Watch!Tables
  <2>7. wpc' \in [Watch!Watcher -> {"none", "read", "loop", "sleep", "save", "load", "wait", "ended"}]
    BY <1>2 DEF Watch!Tables
  <2> QED
    BY <1>1, <2>2, <2>4, <2>6, <2>7 DEF Watch!Tables
<1>4. \A x \in Watch!Watcher \ {w} : Untouched(x)
  BY <1>1, <1>2 DEF Untouched, Watch!Tables
<1>5. \/ /\ wpc'[w] = "sleep" /\ howCopies'[w] = howCopies[w] /\ cp'[w] = cp[w]
         /\ wake'[w] = now + intervals[w]
      \/ /\ zad = 2 /\ wpc'[w] = "sleep" /\ howCopies'[w] = howCopies[w] + 1
         /\ wake'[w] = now + intervals[w] /\ cp'[w] = cp[w] \cup {now}
      \/ /\ zad = 3 /\ wpc'[w] = "wait" /\ howCopies'[w] = howCopies[w]
         /\ cp'[w] = cp[w] \cup {now}
  BY <1>2 DEF Watch!Tables
<1>6. Watch!Placed(w)'
  BY <1>1, <1>5, WatchAlone DEF Watch!Watched, Watch!Placed
<1>7. zad = 2 => Watch!Forked(w)'
  <2> SUFFICES ASSUME zad = 2 PROVE Watch!Forked(w)'
    OBVIOUS
  <2>1. Watch!Forked(w) /\ wpc'[w] = "sleep"
    BY <1>1, <1>5 DEF Watch!Watched
  <2>2. Watch!FreeFrom(w) = now /\ Watch!FreeFrom(w)' = now + intervals[w]
    BY <1>1, <1>5 DEF Watch!FreeFrom
  <2>3. \A s \in cp[w] : s < now
    BY <1>1, <2>1, <2>2 DEF Watch!Forked
  <2>4. \A s \in cp'[w] : s < Watch!FreeFrom(w)'
    BY <1>1, <1>5, <2>2, <2>3 DEF Watch!Second
  <2>5. /\ Watch!Cardinality(cp[w]) \in Nat
        /\ Watch!Cardinality(cp[w] \cup {now}) = Watch!Cardinality(cp[w]) + 1
    BY <1>1, <2>3, WatchCardinality
  <2>6. \/ howCopies'[w] = howCopies[w] /\ cp'[w] = cp[w]
        \/ howCopies'[w] = howCopies[w] + 1 /\ cp'[w] = cp[w] \cup {now}
    BY <1>5
  <2>7. \/ howCopies'[w] = howCopies[w] /\ Watch!Cardinality(cp'[w]) = Watch!Cardinality(cp[w])
        \/ /\ howCopies'[w] = howCopies[w] + 1
           /\ Watch!Cardinality(cp'[w]) = Watch!Cardinality(cp[w]) + 1
    BY <2>5, <2>6
  <2>8. /\ howCopies'[w] + 1 >= made[w] + Watch!Cardinality(cp'[w])
        /\ howCopies'[w] + 1 <= made[w] + Watch!Cardinality(cp'[w]) + failures
    BY <1>1, <2>1, <2>5, <2>7 DEF Watch!Forked
  <2> QED
    BY <1>1, <2>1, <2>4, <2>8 DEF Watch!Forked
<1>8. zad = 3 => Watch!WaitedFor(w)'
  BY <1>1, <1>5 DEF Watch!Watched, Watch!WaitedFor, Watch!Counted
<1>9. Watch!Watched(w)'
  BY <1>1, <1>6, <1>7, <1>8 DEF Watch!Watched
<1> QED
  BY <1>1, <1>3, <1>4, <1>9, WatchOne

(* cp ends, with the backup or without. *)
LEMMA WatchCp ==
  ASSUME Watch!IInv, NEW w \in Watch!Watcher, Watch!Cp(w)
  PROVE  Watch!IInv'
<1> USE DEF Watch!IInv
<1>1. PICK name \in cp[w], how \in {"made", "failed", "killed"} :
        /\ cp' = [cp EXCEPT ![w] = @ \ {name}]
        /\ \/ /\ how = "made" /\ made' = [made EXCEPT ![w] = @ + 1]
              /\ archiwum' = [archiwum EXCEPT ![fileName[w]][name] = version[w]]
              /\ UNCHANGED <<failures, killed>>
           \/ how = "failed" /\ Watch!Fails /\ UNCHANGED <<archiwum, made, killed>>
           \/ /\ how = "killed" /\ zad = 3 /\ Watch!Fails
              /\ killed' = [killed EXCEPT ![w] = @ + 1] /\ UNCHANGED <<archiwum, made>>
        /\ Watch!CpWaited(w, how)
        /\ UNCHANGED <<zad, way, fileName, intervals, limit, now, version, lastFileContent,
                       exitStatus, known, copped>>
  BY DEF Watch!Cp, Watch!arguments, Watch!parent
<1>2. /\ Watch!Watched(w) /\ Watch!Placed(w) /\ name \in Watch!Second /\ cp[w] \subseteq Watch!Second
      /\ intervals[w] \in Nat /\ now \in Int /\ failures \in Nat /\ made[w] \in Nat
      /\ killed[w] \in Nat /\ howCopies[w] \in Int
  BY DEF Watch!Tables, Watch!Watched, Watch!Second
<1>3. way = "cmd" /\ wpc[w] \notin {"none", "read", "save", "load"} /\ zad \in {2, 3}
  BY <1>2 DEF Watch!Watched, Watch!Placed, Watch!FromMemory, Watch!Tables
<1>4. /\ failures' = (IF how = "made" THEN failures ELSE failures + 1)
      /\ made' = [made EXCEPT ![w] = IF how = "made" THEN @ + 1 ELSE @]
      /\ killed' = [killed EXCEPT ![w] = IF how = "killed" THEN @ + 1 ELSE @]
      /\ how = "killed" => zad = 3
      /\ archiwum' = IF how = "made" THEN [archiwum EXCEPT ![fileName[w]][name] = version[w]]
                                     ELSE archiwum
  BY <1>1 DEF Watch!Fails, Watch!Tables
<1>5. \/ /\ wpc[w] # "wait" /\ UNCHANGED <<howCopies, wpc, wake>>
      \/ /\ wpc[w] = "wait" /\ zad = 3 /\ intervals[w] > 0
         /\ howCopies' = [howCopies EXCEPT ![w] = IF how = "failed" THEN @ ELSE @ + 1]
         /\ wpc' = [wpc EXCEPT ![w] = "sleep"]
         /\ wake' = [wake EXCEPT ![w] = now + intervals[w]]
  BY <1>1, <1>2 DEF Watch!CpWaited, Watch!Sleep, Watch!Goto, Watch!Placed, Watch!Tables
<1>6. Watch!Tables' /\ failures' >= failures
  <2>1. /\ cp' \in [Watch!Watcher -> SUBSET Watch!Second] /\ made' \in [Watch!Watcher -> Nat]
        /\ killed' \in [Watch!Watcher -> Nat]
    BY <1>1, <1>2, <1>4 DEF Watch!Tables
  <2>5. archiwum' \in [FileNames -> [Watch!Second -> Int]]
    <3>1. version[w] \in Int /\ archiwum \in [FileNames -> [Watch!Second -> Int]]
      BY DEF Watch!Tables
    <3> QED
      BY <1>2, <1>4, <3>1, WatchArchives
  <2>2. /\ howCopies' \in [Watch!Watcher -> Int] /\ wake' \in [Watch!Watcher -> Int]
    BY <1>2, <1>5 DEF Watch!Tables
  <2>3. wpc' \in [Watch!Watcher -> {"none", "read", "loop", "sleep", "save", "load", "wait", "ended"}]
    BY <1>5 DEF Watch!Tables
  <2>4. failures' \in Nat /\ failures' >= failures
    BY <1>2, <1>4
  <2> QED
    BY <1>1, <2>1, <2>2, <2>3, <2>4, <2>5 DEF Watch!Tables
<1>7. \A x \in Watch!Watcher \ {w} : Untouched(x)
  <2>1. ASSUME NEW x \in Watch!Watcher \ {w}
        PROVE  /\ cp'[x] = cp[x] /\ made'[x] = made[x] /\ killed'[x] = killed[x]
               /\ Watch!Alone(x) => archiwum'[fileName[x]] = archiwum[fileName[x]]
    <3>1. version[w] \in Int
      BY DEF Watch!Tables
    <3>2. Watch!Alone(x) => archiwum'[fileName[x]] = archiwum[fileName[x]]
      BY <1>2, <1>4, <3>1, WatchArchives
    <3> QED
      BY <1>1, <1>4, <3>2 DEF Watch!Tables
  <2>2. ASSUME NEW x \in Watch!Watcher \ {w}
        PROVE  wpc'[x] = wpc[x] /\ wake'[x] = wake[x] /\ howCopies'[x] = howCopies[x]
    BY <1>5 DEF Watch!Tables
  <2> QED
    BY <1>1, <2>1, <2>2 DEF Untouched
<1>8. /\ cp'[w] = cp[w] \ {name} /\ made'[w] = (IF how = "made" THEN made[w] + 1 ELSE made[w])
      /\ killed'[w] = (IF how = "killed" THEN killed[w] + 1 ELSE killed[w])
      /\ \/ wpc[w] # "wait" /\ wpc'[w] = wpc[w] /\ howCopies'[w] = howCopies[w] /\ wake'[w] = wake[w]
         \/ /\ wpc[w] = "wait" /\ zad = 3 /\ intervals[w] > 0 /\ wpc'[w] = "sleep"
            /\ howCopies'[w] = (IF how = "failed" THEN howCopies[w] ELSE howCopies[w] + 1)
  BY <1>1, <1>4, <1>5 DEF Watch!Tables
<1>9. Watch!Placed(w)'
  BY <1>1, <1>2, <1>3, <1>8 DEF Watch!Placed
<1>10. zad = 2 => Watch!Forked(w)'
  <2> SUFFICES ASSUME zad = 2 PROVE Watch!Forked(w)'
    OBVIOUS
  <2>1. /\ Watch!Forked(w) /\ wpc'[w] = wpc[w] /\ howCopies'[w] = howCopies[w]
        /\ Watch!FreeFrom(w)' = Watch!FreeFrom(w)
    BY <1>1, <1>2, <1>3, <1>8 DEF Watch!Watched, Watch!FreeFrom
  <2>2. /\ Watch!Cardinality(cp[w]) \in Nat /\ Watch!Cardinality(cp'[w]) \in Nat
        /\ Watch!Cardinality(cp'[w]) = Watch!Cardinality(cp[w]) - 1
    BY <1>2, <1>8, WatchCardinality
  <2>3. intervals[w] = 0 => howCopies'[w] = -1
    BY <2>1 DEF Watch!Forked
  <2>4. \/ made'[w] = made[w] + 1 /\ failures' = failures
        \/ made'[w] = made[w] /\ failures' = failures + 1
    BY <1>4, <1>8
  <2>5. /\ howCopies'[w] + 1 >= made'[w] + Watch!Cardinality(cp'[w])
        /\ howCopies'[w] + 1 <= made'[w] + Watch!Cardinality(cp'[w]) + failures'
    BY <1>2, <2>1, <2>2, <2>4 DEF Watch!Forked
  <2>6. wpc'[w] # "ended" => \A s \in cp'[w] : s < Watch!FreeFrom(w)'
    BY <1>8, <2>1 DEF Watch!Forked
  <2>7. wpc'[w] = "ended" => exitStatus'[w] = (howCopies'[w] + 1) % 256
    BY <1>1, <2>1 DEF Watch!Forked
  <2> QED
    BY <1>1, <2>3, <2>5, <2>6, <2>7 DEF Watch!Forked
<1>11. zad = 3 => Watch!WaitedFor(w)'
  <2> SUFFICES ASSUME zad = 3 PROVE Watch!WaitedFor(w)'
    OBVIOUS
  <2>1. Watch!WaitedFor(w)
    BY <1>2, <1>3 DEF Watch!Watched
  <2>2. wpc[w] = "wait" /\ cp'[w] = {}
    BY <1>8, <2>1 DEF Watch!WaitedFor
  <2>3. howCopies'[w] + 1 = Watch!Counted(w)' /\ wpc'[w] = "sleep"
    BY <1>2, <1>8, <2>1, <2>2 DEF Watch!WaitedFor, Watch!Counted
  <2> QED
    BY <1>1, <1>8, <2>2, <2>3 DEF Watch!WaitedFor
<1>12. Watch!Watched(w)'
  BY <1>1, <1>3, <1>9, <1>10, <1>11 DEF Watch!Watched
<1> QED
  BY <1>1, <1>6, <1>7, <1>12, WatchOne

-----------------------------------------------------------------------------
LEMMA WatchStep ==
  ASSUME Watch!IInv, [Watch!Next]_(Watch!vars)
  PROVE  Watch!IInv'
<1>1. ASSUME NEW w \in Watch!Watcher, Watch!WatcherStep(w) PROVE Watch!IInv'
  BY <1>1, WatchFirstRead, WatchEnds, WatchSlept, WatchStatProg, WatchSave, WatchLoad, WatchStatCmd,
     WatchCp DEF Watch!WatcherStep
<1> QED
  BY <1>1, WatchMain, WatchWaitpid, WatchWorld DEF Watch!Next

LEMMA WatchKeptAll == Watch!IInv => Watch!KeptAll
  BY DEF Watch!IInv, Watch!Watched, Watch!FromMemory, Watch!Kept, Watch!KeptAll

LEMMA WatchReports == Watch!IInv => Watch!Reports
<1> SUFFICES ASSUME Watch!IInv, NEW w \in Watch!Watcher, copped[w] # Watch!Nothing, cp[w] = {}
             PROVE  CASE way = "prog" \/ zad = 2 ->
                           copped[w] \in {n % 256 : n \in made[w] .. made[w] + failures}
                      [] way = "cmd" /\ zad = 3 ->
                           copped[w] = (IF Watch!Counted(w) = 0 THEN 0
                                        ELSE Watch!Counted(w) - 1) % 256
  BY DEF Watch!Reports
<1> USE DEF Watch!IInv
<1>1. wpc[w] = "ended" /\ copped[w] = exitStatus[w] /\ Watch!Watched(w)
  BY DEF Watch!Watched, Watch!Placed
<1>2. way \in {"prog", "cmd"} /\ zad \in {2, 3}
  BY <1>1 DEF Watch!Watched, Watch!Placed, Watch!Tables
<1>3. CASE way = "prog"
  BY <1>1, <1>2, <1>3 DEF Watch!Watched, Watch!FromMemory
<1>4. CASE way = "cmd" /\ zad = 2
  <2>1. Watch!Cardinality({}) = 0
    BY WatchCardinality
  <2>2. howCopies[w] + 1 \in made[w] .. made[w] + failures
    BY <1>1, <1>4, <2>1 DEF Watch!Watched, Watch!Forked, Watch!Tables
  <2>3. exitStatus[w] = (howCopies[w] + 1) % 256
    BY <1>1, <1>4 DEF Watch!Watched, Watch!Forked
  <2> QED
    BY <1>1, <1>4, <2>2, <2>3
<1>5. CASE way = "cmd" /\ zad = 3
  BY <1>1, <1>5 DEF Watch!Watched, Watch!WaitedFor
<1> QED
  BY <1>2, <1>3, <1>4, <1>5

-----------------------------------------------------------------------------
(* lab4 zad1: dates that are printed as the keys ask for it.               *)

LEMMA DateInit == Printer!Init => Printer!IInv
<1> SUFFICES ASSUME Printer!Init PROVE Printer!IInv
  OBVIOUS
<1>1. MaxSIGTSTP \in Nat
  BY LabsAssumption DEF Printer!DateAssumption
<1>2. Printer!Running = {}
  BY DEF Printer!Init, Printer!Running
<1>3. Printer!Control
  <2>1. typed \in 0 .. MaxSIGTSTP
    BY <1>1 DEF Printer!Init
  <2>2. child \in [Printer!Child -> {"none", "forked", "running", "stopped", "ended"}]
    BY DEF Printer!Init
  <2>3. run \in BOOLEAN /\ missedKey \in BOOLEAN /\ pid \in Printer!Child \cup {-1}
    BY DEF Printer!Init
  <2> QED
    BY <2>1, <2>2, <2>3 DEF Printer!Init, Printer!Control
<1>4. Printer!AsAsked
  BY <1>2 DEF Printer!Init, Printer!AsAsked
<1>5. pid = -1 /\ Printer!Last <= typed
  BY DEF Printer!Init, Printer!Last
<1> QED
  BY <1>3, <1>4, <1>5 DEF Printer!Init, Printer!IInv

(* A step of main1, and those of main2 that leave its children alone.      *)
LEMMA DateLoops ==
  ASSUME Printer!IInv,
         Printer!Start \/ Printer!Loop1 \/ Printer!Slept \/ Printer!Loop2 \/ Printer!Pause
  PROVE  Printer!IInv'
<1> USE DEF Printer!IInv, Printer!Control
<1>1. UNCHANGED <<run, pid, child, typed, missedKey>>
  BY DEF Printer!Start, Printer!Loop1, Printer!Slept, Printer!Loop2, Printer!Pause
<1>2. Printer!Running' = Printer!Running /\ Printer!Last' = Printer!Last
  BY <1>1 DEF Printer!Running, Printer!Last
<1>3. Printer!Last \in Int /\ typed \in Int
  BY DEF Printer!Last, Printer!Child
<1>4. Printer!Control'
  BY <1>1 DEF Printer!Start, Printer!Loop1, Printer!Slept, Printer!Loop2, Printer!Pause
<1>5. Printer!AsAsked'
  BY <1>1, <1>2 DEF Printer!AsAsked, Printer!Start, Printer!Loop1, Printer!Slept, Printer!Loop2,
                    Printer!Pause
<1>6. /\ pc' = "start" => pid' = -1
      /\ pc' # "ended" => Printer!Last' <= (IF pc' \in {"beforepause", "pause"} THEN typed' + 1
                                                                             ELSE typed')
  BY <1>1, <1>2, <1>3 DEF Printer!Start, Printer!Loop1, Printer!Slept, Printer!Loop2, Printer!Pause
<1> QED
  BY <1>4, <1>5, <1>6

(* A child starts the script, or its handler sends the key to all. *)
LEMMA DateChildren ==
  ASSUME Printer!IInv, Printer!EarlySIGTSTP \/ \E c \in Printer!Child : Printer!Exec(c)
  PROVE  Printer!IInv'
<1> USE DEF Printer!IInv, Printer!Control
<1>1. CASE Printer!EarlySIGTSTP
  <2>1. /\ pc' = "early" /\ typed' = typed + 1 /\ typed < MaxSIGTSTP /\ program = "main2"
        /\ UNCHANGED <<program, run, pid, child, missedKey>> /\ pc # "ended"
    BY <1>1 DEF Printer!EarlySIGTSTP
  <2>2. Printer!Last' = Printer!Last /\ Printer!Last \in Int /\ typed' \in 0 .. MaxSIGTSTP
    BY <2>1, LabsAssumption DEF Printer!Last, Printer!Child, Printer!DateAssumption
  <2>3. Printer!Control' /\ Printer!AsAsked'
    BY <2>1, <2>2 DEF Printer!AsAsked
  <2>4. Printer!Last' <= typed'
    BY <2>1, <2>2
  <2> QED
    BY <2>1, <2>3, <2>4
<1>2. ASSUME NEW c \in Printer!Child, Printer!Exec(c)
      PROVE  Printer!IInv'
  <2>1. /\ child[c] = "forked" /\ child' = [child EXCEPT ![c] = "running"]
        /\ UNCHANGED <<program, pc, run, pid, typed, missedKey>>
    BY <1>2 DEF Printer!Exec
  <2>2. Printer!Running' = Printer!Running /\ Printer!Last' = Printer!Last
    BY <2>1 DEF Printer!Running, Printer!Last
  <2>3. Printer!Control'
    BY <2>1
  <2>4. Printer!AsAsked'
    BY <2>1, <2>2 DEF Printer!AsAsked
  <2> QED
    BY <2>1, <2>2, <2>3, <2>4
<1> QED
  BY <1>1, <1>2

(* There is a place for the new child, and no other one runs. *)
LEMMA DateForks ==
  ASSUME Printer!IInv, Printer!Fork
  PROVE  Printer!IInv'
<1> USE DEF Printer!IInv, Printer!Control, Printer!Fork
<1>1. Printer!Last \in Nat /\ typed \in Nat /\ typed <= MaxSIGTSTP /\ MaxSIGTSTP \in Nat
  BY LabsAssumption DEF Printer!Last, Printer!Child, Printer!DateAssumption
<1>2. pid' = Printer!Last + 1 /\ pid' \in Printer!Child /\ Printer!Last' = pid'
  BY <1>1 DEF Printer!Child, Printer!Last
<1>3. Printer!Control'
  BY <1>2
<1>4. ~missedKey => Printer!Running' = {pid'} /\ run
  BY <1>2 DEF Printer!AsAsked, Printer!Running
<1>5. Printer!AsAsked'
  BY <1>4 DEF Printer!AsAsked
<1>6. pc' = "beforepause" /\ Printer!Last' <= typed' + 1
  BY <1>1, <1>2
<1> QED
  BY <1>3, <1>5, <1>6

(* A key that is not missed stops the child, or there is none that runs.   *)
LEMMA DateKeys ==
  ASSUME Printer!IInv, Printer!SIGTSTP
  PROVE  Printer!IInv'
<1> USE DEF Printer!IInv, Printer!Control
<1>1. /\ pc \notin {"start", "early", "ended"} /\ typed < MaxSIGTSTP /\ typed' = typed + 1 /\ run' = ~run
      /\ pc' = (IF pc \in {"pause", "sleep"} THEN "loop" ELSE pc)
      /\ missedKey' = (missedKey \/ pc \in {"beforepause", "fork"})
      /\ UNCHANGED <<program, pid>>
  BY DEF Printer!SIGTSTP, Printer!handleSIGTSTP1, Printer!handleSIGTSTP2
<1>2. /\ Printer!Last' = Printer!Last /\ Printer!Last \in Int /\ typed \in Nat
      /\ typed + 1 \in 0 .. MaxSIGTSTP
  BY <1>1, LabsAssumption DEF Printer!Last, Printer!Child, Printer!DateAssumption
<1>3. CASE Printer!handleSIGTSTP1
  <2>1. program = "main1" /\ UNCHANGED child
    BY <1>3 DEF Printer!handleSIGTSTP1
  <2>2. Printer!Control'
    BY <1>1, <1>2, <2>1
  <2>3. Printer!AsAsked'
    BY <1>1, <2>1 DEF Printer!AsAsked
  <2> QED
    BY <1>1, <1>2, <2>2, <2>3
<1>4. ASSUME NEW key \in BOOLEAN, Printer!handleSIGTSTP2(key)
      PROVE  Printer!IInv'
  <2>1. /\ program = "main2"
        /\ child' = IF run /\ pid # -1 THEN [Printer!TerminalStops(key) EXCEPT ![pid] = "stopped"]
                                       ELSE Printer!TerminalStops(key)
    BY <1>4 DEF Printer!handleSIGTSTP2
  <2>2. /\ child' \in [Printer!Child -> {"none", "forked", "running", "stopped", "ended"}]
        /\ Printer!Running' \subseteq Printer!Running
        /\ run /\ pid # -1 => pid \notin Printer!Running'
    BY <2>1 DEF Printer!TerminalStops, Printer!Running
  <2>3. Printer!Control'
    BY <1>1, <1>2, <2>1, <2>2
  <2>4. pid = -1 => pid \notin Printer!Running
    BY LabsAssumption DEF Printer!Running, Printer!Child, Printer!DateAssumption
  <2>5. ASSUME ~missedKey' PROVE pc' = "loop" /\ Printer!Running' = {}
    <3>1. ~missedKey /\ pc \in {"loop", "pause"}
      BY <1>1, <2>1, <2>5
    <3>2. Printer!Running \subseteq (IF pc = "pause" /\ run THEN {pid} ELSE {})
      BY <2>1, <3>1 DEF Printer!AsAsked
    <3> QED
      BY <1>1, <2>2, <2>4, <3>1, <3>2
  <2>6. Printer!AsAsked'
    BY <1>1, <2>1, <2>5 DEF Printer!AsAsked
  <2> QED
    BY <1>1, <1>2, <2>3, <2>6
<1> QED
  BY <1>3, <1>4 DEF Printer!SIGTSTP

LEMMA DateStep ==
  ASSUME Printer!IInv, [Printer!Next]_(Printer!vars)
  PROVE  Printer!IInv'
<1>1. CASE Printer!SIGINT
  <2>1. /\ pc' = "ended" /\ UNCHANGED <<program, run, pid, typed, missedKey>> /\ pc # "start"
        /\ child' \in [Printer!Child -> {"none", "forked", "running", "stopped", "ended"}]
    BY <1>1 DEF Printer!SIGINT, Printer!IInv, Printer!Control
  <2> QED
    BY <2>1 DEF Printer!IInv, Printer!Control, Printer!AsAsked
<1>2. CASE UNCHANGED Printer!vars
  BY <1>2 DEF Printer!vars, Printer!IInv, Printer!Control, Printer!AsAsked, Printer!Last,
              Printer!Running
<1> QED
  BY <1>1, <1>2, DateLoops, DateChildren, DateForks, DateKeys DEF Printer!Next

LEMMA DatePrintsAsAsked == Printer!IInv => Printer!PrintsAsAsked
  BY DEF Printer!IInv, Printer!Control, Printer!AsAsked, Printer!PrintsAsAsked

-----------------------------------------------------------------------------
(* lab10: servers that find their port and their name.                     *)

LEMMA StartInit == Start!Init => Start!IInv
  BY DEF Start!Init, Start!IInv, Start!Tables, Start!Keeps

(* A step of a server, which changes only what is its own or nobody's.     *)
LEMMA ServerStart ==
  ASSUME Start!IInv, NEW t \in Servers, NEW s \in Servers,
         \/ Start!Start(t) \/ Start!BindInternet(t) \/ Start!ListenInternet(t)
         \/ Start!BindLocal(t) \/ Start!ListenLocal(t) \/ Start!handleSIGINT(t)
         \/ Start!End(t) \/ Start!Killed(t)
  PROVE  Start!Keeps(s)'
<1> USE DEF Start!IInv, Start!Tables, Start!Keeps, Start!Goes
<1>1. None # t /\ None # s
  BY LabsAssumption DEF Start!StartAssumption
<1>2. CASE Start!Start(t)
  BY <1>1, <1>2 DEF Start!Start
<1>3. CASE Start!BindInternet(t)
  BY <1>1, <1>3 DEF Start!BindInternet
<1>4. CASE Start!ListenInternet(t)
  BY <1>1, <1>4 DEF Start!ListenInternet, Start!Closed
<1>5. CASE Start!BindLocal(t)
  BY <1>1, <1>5 DEF Start!BindLocal, Start!Closed
<1>6. CASE Start!ListenLocal(t)
  BY <1>1, <1>6 DEF Start!ListenLocal, Start!table
<1>7. CASE Start!handleSIGINT(t)
  BY <1>7 DEF Start!handleSIGINT, Start!table
<1>8. CASE Start!End(t)
  BY <1>1, <1>8 DEF Start!End, Start!Closed
<1>9. CASE Start!Killed(t)
  BY <1>1, <1>9 DEF Start!Killed, Start!Closed, Start!Alive
<1> QED
  BY <1>2, <1>3, <1>4, <1>5, <1>6, <1>7, <1>8, <1>9

(* A client has no port of a server and takes none. *)
LEMMA ClientStart ==
  ASSUME Start!IInv, NEW s \in Servers,
         \/ \E c \in Clients : \/ Start!ConnectLocal(c) \/ Start!BindClient(c)
                               \/ Start!ConnectInternet(c) \/ Start!Leaves(c)
         \/ \E p \in Ports : Start!TimeWaitEnds(p)
  PROVE  Start!Keeps(s)'
<1> USE DEF Start!IInv, Start!Tables, Start!Keeps, Start!servers, Start!table
<1>1. None # s /\ TimeWait # s /\ s \notin Clients
  BY LabsAssumption DEF Start!StartAssumption
<1>2. ASSUME NEW c \in Clients, Start!ConnectLocal(c) \/ Start!ConnectInternet(c)
      PROVE  Start!Keeps(s)'
  BY <1>2 DEF Start!ConnectLocal, Start!ConnectInternet
<1>3. ASSUME NEW c \in Clients, Start!BindClient(c)
      PROVE  Start!Keeps(s)'
  BY <1>1, <1>3 DEF Start!BindClient
<1>4. ASSUME NEW c \in Clients, Start!Leaves(c)
      PROVE  Start!Keeps(s)'
  BY <1>1, <1>4 DEF Start!Leaves
<1>5. ASSUME NEW p \in Ports, Start!TimeWaitEnds(p)
      PROVE  Start!Keeps(s)'
  BY <1>1, <1>5 DEF Start!TimeWaitEnds
<1> QED
  BY <1>2, <1>3, <1>4, <1>5

LEMMA StartStep ==
  ASSUME Start!IInv, [Start!Next]_(Start!vars)
  PROVE  Start!IInv'
<1>1. ASSUME NEW s \in Servers PROVE Start!Keeps(s)'
  <2>1. CASE Start!Build
    BY <2>1 DEF Start!Build, Start!IInv, Start!Keeps, Start!table, Start!servers
  <2>2. CASE UNCHANGED Start!vars
    BY <2>2 DEF Start!vars, Start!IInv, Start!Keeps, Start!table, Start!servers
  <2> QED
    BY <2>1, <2>2, ServerStart, ClientStart DEF Start!Next
<1>2. Start!Tables'
  <2> USE DEF Start!IInv, Start!Tables, Start!Goes, Start!table, Start!servers
  <2>1. ASSUME NEW t \in Servers,
               \/ Start!Start(t) \/ Start!BindInternet(t) \/ Start!ListenInternet(t)
               \/ Start!BindLocal(t) \/ Start!ListenLocal(t) \/ Start!handleSIGINT(t)
               \/ Start!End(t) \/ Start!Killed(t)
        PROVE  Start!Tables'
    BY <2>1 DEF Start!Start, Start!BindInternet, Start!ListenInternet, Start!BindLocal,
                Start!ListenLocal, Start!handleSIGINT, Start!End, Start!Killed, Start!Closed
  <2>2. ASSUME NEW c \in Clients, \/ Start!ConnectLocal(c) \/ Start!BindClient(c)
                                  \/ Start!ConnectInternet(c) \/ Start!Leaves(c)
        PROVE  Start!Tables'
    BY <2>2 DEF Start!ConnectLocal, Start!BindClient, Start!ConnectInternet, Start!Leaves
  <2> QED
    BY <2>1, <2>2 DEF Start!Next, Start!Build, Start!TimeWaitEnds, Start!vars
<1> QED
  BY <1>1, <1>2 DEF Start!IInv

LEMMA StartReachable == Start!IInv => Start!Reachable
  BY DEF Start!IInv, Start!Tables, Start!Keeps, Start!Reachable

-----------------------------------------------------------------------------
(* All of them together: the program that runs keeps its own invariant.    *)

LEMMA InitIInv == Init => IInv
  BY CountInit, AckInit, MonitorInitCopies, MonitorInitFlags, WatchInit, DateInit, StartInit
  DEF Init, IInv

(* A step is one of the program that runs. *)
LEMMA StepOfProgram ==
  ASSUME [Next]_labVars
  PROVE  /\ lab' = lab
         /\ lab = "SignalsCount" => [Count!Next]_(Count!vars)
         /\ lab = "SignalsAck" => [Ack!Next]_(Ack!vars)
         /\ lab = "FileMonitor" => [Monitor!Next]_(Monitor!vars)
         /\ lab = "Watchers" => [Watch!Next]_(Watch!vars)
         /\ lab = "DatePrinter" => [Printer!Next]_(Printer!vars)
         /\ lab = "ClusterStart" => [Start!Next]_(Start!vars)
<1>1. CASE Next
  BY <1>1 DEF Next
<1>2. CASE UNCHANGED labVars
  <2>1. UNCHANGED <<lab, signalVars, countVars, ackVars, fileVars, monitorVars, watchVars, dateVars,
                    startVars>>
    BY <1>2 DEF labVars
  <2>2. UNCHANGED Count!vars /\ UNCHANGED Ack!vars
    BY <2>1 DEF signalVars, countVars, ackVars, Count!vars, Count!senderVars, Count!catcherVars,
                Ack!vars, Ack!senderVars, Ack!catcherVars
  <2>3. UNCHANGED Monitor!vars
    BY <2>1 DEF fileVars, monitorVars, Monitor!vars, Monitor!files, Monitor!signals, Monitor!flags,
                Monitor!copying, Monitor!parent, Monitor!history
  <2>4. UNCHANGED Watch!vars
    BY <2>1 DEF fileVars, watchVars, Watch!vars, Watch!arguments, Watch!world, Watch!watching,
                Watch!backups, Watch!parent
  <2>5. UNCHANGED Printer!vars
    BY <2>1 DEF dateVars, Printer!vars
  <2>6. UNCHANGED Start!vars
    BY <2>1 DEF startVars, Start!vars, Start!table, Start!servers, Start!clients
  <2> QED
    BY <2>1, <2>2, <2>3, <2>4, <2>5, <2>6
<1> QED
  BY <1>1, <1>2

(* Each program keeps its inductive invariant: the phases of the signals,  *)
(* the places of the processes and the counts that go with them.           *)
THEOREM LabsInvariance == Spec => []IInv
<1>1. ASSUME IInv, [Next]_labVars PROVE IInv'
  <2>1. lab' = lab
    BY <1>1, StepOfProgram
  <2>2. CASE lab = "SignalsCount"
    BY <1>1, <2>1, <2>2, StepOfProgram, CountStep DEF IInv
  <2>3. CASE lab = "SignalsAck"
    BY <1>1, <2>1, <2>3, StepOfProgram, AckStep DEF IInv
  <2>4. CASE lab = "FileMonitor"
    BY <1>1, <2>1, <2>4, StepOfProgram, MonitorCopies, MonitorFlags DEF IInv
  <2>5. CASE lab = "Watchers"
    BY <1>1, <2>1, <2>5, StepOfProgram, WatchStep DEF IInv
  <2>6. CASE lab = "DatePrinter"
    BY <1>1, <2>1, <2>6, StepOfProgram, DateStep DEF IInv
  <2>7. CASE lab = "ClusterStart"
    BY <1>1, <2>1, <2>7, StepOfProgram, StartStep DEF IInv
  <2> QED
    BY <2>1, <2>2, <2>3, <2>4, <2>5, <2>6, <2>7 DEF IInv
<1> QED
  BY <1>1, InitIInv, PTL DEF Spec

(* lab4 zad3: the sender ends with the counts the way of sending allows:   *)
(* one at least where one was sent, all of them with real time signals;    *)
(* with a confirmation of each no signal is lost, nobody waits for ever    *)
(* and as many come back as were sent (lab4/README.md:38), whatever the    *)
(* limit, the way, the number of senders and the order of the steps.       *)
THEOREM SignalsCounted == Spec => []SignalsRight
<1>1. IInv => SignalsRight
  BY CountCounted, PhasesAgree DEF IInv, SignalsRight
<1> QED
  BY <1>1, LabsInvariance, PTL

(* lab3 zad2 and zad3, lab4 zad2: of a file whose name no other file of    *)
(* the list has, no backup from memory is written over another, unless a   *)
(* signal cuts the sleep short, so none is lost; and the report of lab3 is *)
(* the number of backups, but for the failures, the copies that were       *)
(* killed, the one zad3 does not count and the 8 bits of the status,       *)
(* whatever the lists, the times and the order of the steps.               *)
THEOREM BackupsKept == Spec => []BackupsRight
<1>1. IInv => BackupsRight
  BY MonitorKeptAll, WatchKeptAll, WatchReports DEF IInv, BackupsRight
<1> QED
  BY <1>1, LabsInvariance, PTL

(* lab4 zad1 and zad2: who pauses has been stopped last, unless a signal   *)
(* came between the test and the pause, or STOP and START were handled one *)
(* inside the other, for all keys and commands, up to a key that meets a   *)
(* child before its script.                                                *)
THEOREM PausesAsAsked == Spec => []PausesRight
<1>1. IInv => PausesRight
  BY MonitorSleepsOnlyStopped, DatePrintsAsAsked DEF IInv, PausesRight
<1> QED
  BY <1>1, LabsInvariance, PTL

(* lab10: a server that is up is the one its port leads to and, but for    *)
(* the name every server removes, its name too: no two share them, for all *)
(* servers, clients, ports and names.                                      *)
THEOREM ServersReachable == Spec => []Reachable
<1>1. IInv => Reachable
  BY StartReachable DEF IInv, Reachable
<1> QED
  BY <1>1, LabsInvariance, PTL
=============================================================================
