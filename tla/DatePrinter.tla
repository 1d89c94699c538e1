----------------------------- MODULE DatePrinter ----------------------------
(***************************************************************************)
(* lab4 zad1: the date is printed until CTRL+Z, again after the next       *)
(* CTRL+Z, and CTRL+C ends it.  main1 prints by itself, main2 has a child  *)
(* run a script.  A handler sets a flag, which the program tests before it *)
(* pauses.  A signal of a number is pending once at most.                  *)
(***************************************************************************)
EXTENDS Integers

CONSTANTS MaxSIGTSTP,     \* bound: times the user types CTRL+Z
          MaxPrints       \* bound: dates that main1 prints

DateAssumption == MaxSIGTSTP \in Nat /\ MaxPrints \in Nat

Child == 1 .. MaxSIGTSTP + 1

VARIABLES program,      \* "main1" or "main2"
          pc, run,
          pid,          \* the last child, -1 before there is one
          child,        \* the children, which run the script
          typed, prints,
          missed,       \* history: a signal came between the test of run and the pause
          everybody     \* history: kill was called with -1, the pid of every process

vars == <<program, pc, run, pid, child, typed, prints, missed, everybody>>

Init ==
  /\ program = "none" /\ pc = "start" /\ run = TRUE /\ pid = -1
  /\ child = [c \in Child |-> "none"]
  /\ typed = 0 /\ prints = 0 /\ missed = FALSE /\ everybody = FALSE

Start ==
  /\ pc = "start" /\ pc' = "loop" /\ program' \in {"main1", "main2"}
  /\ UNCHANGED <<run, pid, child, typed, prints, missed, everybody>>

-----------------------------------------------------------------------------
(* main1. *)

Loop1 ==
  /\ program = "main1" /\ pc = "loop"
  /\ IF run
       THEN prints < MaxPrints /\ prints' = prints + 1 /\ pc' = "sleep"
       ELSE pc' = "beforepause" /\ UNCHANGED prints
  /\ UNCHANGED <<program, run, pid, child, typed, missed, everybody>>

Slept ==
  /\ pc = "sleep" /\ pc' = "loop"
  /\ UNCHANGED <<program, run, pid, child, typed, prints, missed, everybody>>

handleSIGTSTP1 ==
  /\ program = "main1"
  /\ run' = ~run
  /\ UNCHANGED <<pid, child, everybody>>

-----------------------------------------------------------------------------
(* main2. *)

Loop2 ==
  /\ program = "main2" /\ pc = "loop"
  /\ pc' = IF run THEN "fork" ELSE "beforepause"
  /\ UNCHANGED <<program, run, pid, child, typed, prints, missed, everybody>>

(* The children that have been made and go on. *)
Running == {c \in Child : child[c] \in {"forked", "running"}}

Last == IF pid = -1 THEN 0 ELSE pid

Fork ==
  /\ pc = "fork" /\ pc' = "beforepause"
  /\ pid' = Last + 1
  /\ child' = [child EXCEPT ![pid'] = "forked"]
  /\ UNCHANGED <<program, run, typed, prints, missed, everybody>>

(* execl: until then the child has the handlers of the program. *)
Exec(c) ==
  /\ child[c] = "forked" /\ child' = [child EXCEPT ![c] = "running"]
  /\ UNCHANGED <<program, pc, run, pid, typed, prints, missed, everybody>>

(* What the terminal does to the children, which are in its foreground     *)
(* group too.  By kill the signal comes to the program alone.              *)
TerminalStops(key) ==
  [c \in Child |-> IF key /\ child[c] = "running" THEN "stopped" ELSE child[c]]

(* The signal comes to a child that has not started the script.            *)
Early(key) == \E c \in Child : child[c] = "forked" /\ (key \/ (run /\ c = pid))

(* Bug: the child is stopped when it should go on. *)
StopsLate(key) ==
  /\ program = "main2" /\ ~Early(key)
  /\ run' = ~run
  /\ child' = IF ~run /\ pid # -1 THEN [TerminalStops(key) EXCEPT ![pid] = "stopped"]
                                  ELSE TerminalStops(key)
  /\ everybody' = (everybody \/ (~run /\ pid = -1))
  /\ UNCHANGED pid

(* The child is stopped, not ended: it is left when the next one is made.  *)
handleSIGTSTP2(key) ==
  /\ program = "main2" /\ ~Early(key)
  /\ run' = ~run
  /\ child' = IF run /\ pid # -1 THEN [TerminalStops(key) EXCEPT ![pid] = "stopped"]
                                 ELSE TerminalStops(key)
  /\ everybody' = (everybody \/ (run /\ pid = -1))
  /\ UNCHANGED pid

-----------------------------------------------------------------------------
(* Both. *)

Pause ==
  /\ pc = "beforepause" /\ pc' = "pause"
  /\ UNCHANGED <<program, run, pid, child, typed, prints, missed, everybody>>

(* pause and sleep end when the handler returns. *)
SIGTSTP ==
  /\ pc \notin {"start", "early", "ended"} /\ typed < MaxSIGTSTP /\ typed' = typed + 1
  /\ handleSIGTSTP1 \/ \E key \in BOOLEAN : handleSIGTSTP2(key)
  /\ pc' = IF pc \in {"pause", "sleep"} THEN "loop" ELSE pc
  /\ missed' = (missed \/ pc \in {"beforepause", "fork"})
  /\ UNCHANGED <<program, prints>>

(* Such a child is not stopped: its handler sends SIGTSTP to its group,    *)
(* the program and itself among them.  The model ends here.                *)
EarlySIGTSTP ==
  /\ program = "main2" /\ pc # "ended" /\ typed < MaxSIGTSTP /\ typed' = typed + 1
  /\ \E key \in BOOLEAN : Early(key)
  /\ pc' = "early"
  /\ UNCHANGED <<program, run, pid, child, prints, missed, everybody>>

(* exit: CTRL+C ends every child, kill of the program the last child, which *)
(* may be at its sleep and go on.  If one is stopped, the system then sends *)
(* SIGHUP to them all: nobody is left who could continue it.                *)
SIGINT ==
  /\ pc \notin {"start", "early", "ended"} /\ pc' = "ended"
  /\ \E key \in BOOLEAN, survives \in SUBSET Running :
       /\ key \/ (\E c \in Child : child[c] = "stopped") => survives = {}
       /\ Running \ survives \subseteq {pid} \/ survives = {}
       /\ child' = [c \in Child |-> IF c \in survives \/ child[c] = "none" THEN child[c]
                                                                       ELSE "ended"]
  /\ everybody' = (everybody \/ (program = "main2" /\ pid = -1))
  /\ UNCHANGED <<program, run, pid, typed, prints, missed>>

Next == \/ Start \/ Loop1 \/ Slept \/ Loop2 \/ Fork \/ Pause \/ SIGTSTP \/ EarlySIGTSTP \/ SIGINT
        \/ \E c \in Child : Exec(c)

Spec == Init /\ [][Next]_vars

-----------------------------------------------------------------------------
(* Properties. *)

(* While the program waits for a key, the date is printed if and only if   *)
(* the last CTRL+Z asked for it: main1 pauses only when it is stopped; in  *)
(* main2 one child runs when it is not, and none when it is.  It is not so *)
(* after a CTRL+Z between the test of run and the pause: then main1 sleeps *)
(* until it is typed twice more, and main2 can leave two children running. *)
(* Nor does it say anything of a CTRL+Z that reaches a child between fork  *)
(* and execl.                                                              *)
PrintsAsAsked ==
  pc = "pause" /\ ~missed =>
    IF program = "main1" THEN ~run
    ELSE IF run THEN Running = {pid} ELSE Running = {}

Control ==
  /\ pc \in {"start", "loop", "sleep", "fork", "beforepause", "pause", "early", "ended"}
  /\ program \in {"none", "main1", "main2"} /\ (program = "none" <=> pc = "start")
  /\ run \in BOOLEAN /\ missed \in BOOLEAN
  /\ pc = "fork" => program = "main2"
  /\ pc = "sleep" => program = "main1"
  /\ typed \in 0 .. MaxSIGTSTP /\ pid \in Child \cup {-1}
  /\ child \in [Child -> {"none", "forked", "running", "stopped", "ended"}]

(* Why it is so: unless a key was missed, no child runs while the program  *)
(* is not back at its pause.                                               *)
AsAsked ==
  ~missed =>
    /\ program = "main1" /\ pc \in {"beforepause", "pause"} => ~run
    /\ pc = "start" => Running = {}
    /\ program = "main2" =>
         /\ pc \in {"loop", "fork"} => Running = {}
         /\ pc = "fork" => run
         /\ pc \in {"beforepause", "pause"} => Running = (IF run THEN {pid} ELSE {})

(* There is a place for every child: each is asked for by a key.           *)
IInv == /\ Control
        /\ pc = "start" => pid = -1
        /\ pc # "ended" => Last <= (IF pc \in {"beforepause", "pause"} THEN typed + 1 ELSE typed)
        /\ AsAsked

(* "after it receives SIGTSTP it ends the process of the child"            *)
(* (lab4/README.md:12): the children that are stopped stay.                *)
NoneLeft == \A c \in Child : child[c] = "stopped" => FALSE

(* The signals go to the child alone.  Before the first fork they go to    *)
(* every process of the user.                                              *)
ChildAlone == ~everybody
=============================================================================
