------------------------------ MODULE Signals -------------------------------
(***************************************************************************)
(* lab4 zad3: the signals of the catcher and the sender.  What is pending  *)
(* for a process counts the signals of each number.  A standard signal     *)
(* that is already pending is not queued again, however it is sent; a real *)
(* time signal is.                                                         *)
(***************************************************************************)
EXTENDS Naturals

SIGUSR1 == 10
SIGUSR2 == 12
RTMIN1 == 35      \* SIGRTMIN+1
RTMIN2 == 36      \* SIGRTMIN+2

Signal == {SIGUSR1, SIGUSR2, RTMIN1, RTMIN2}
Mode == 1 .. 3    \* kill, sigqueue, real time signals

NonePending == [s \in Signal |-> 0]

(* kill and sigqueue. *)
With(pending, s) ==
  [pending EXCEPT ![s] = IF s < RTMIN1 THEN 1 ELSE @ + 1]

(* The signal of the lowest number is delivered first. *)
Delivers(pending, s) ==
  /\ pending[s] > 0
  /\ \A t \in Signal : t < s => pending[t] = 0

Without(pending, s) == [pending EXCEPT ![s] = @ - 1]

(* The signal that is counted. *)
First(mode) == IF mode = 3 THEN RTMIN1 ELSE SIGUSR1

(* Bug: the transmission ends with SIGUSR2 in every mode. *)
LastIsUSR2(mode) == SIGUSR2

(* The signal that ends the transmission. *)
Last(mode) == IF mode = 3 THEN RTMIN2 ELSE SIGUSR2
=============================================================================
