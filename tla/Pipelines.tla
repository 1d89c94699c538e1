----------------------------- MODULE Pipelines ------------------------------
(***************************************************************************)
(* lab5 zad1: an interpreter of lines "prog args | prog args | ...".       *)
(*                                                                         *)
(* A line is a sequence of words; an empty word stands for a second blank  *)
(* in a row, an empty line for itself.  The first word of a command says   *)
(* how the program behaves: "source" writes and ends, "filter" copies its  *)
(* input until the end of it, "quit" ends at once, and "unknown" cannot be *)
(* executed.  A process is the interpreter, a program it has started, or a *)
(* child whose execvp failed: such a child goes on as an interpreter.      *)
(***************************************************************************)
EXTENDS Integers, Sequences, FiniteSets

CONSTANTS Files,       \* the files of commands: sequences of lines
          MaxProcess,  \* bound: processes
          Capacity,    \* bound: what a pipe holds
          Output       \* bound: what a source writes

PipelinesAssumption ==
  /\ MaxProcess \in Nat \ {0} /\ Capacity \in Nat \ {0} /\ Output \in Nat
  /\ \A file \in Files : \A i \in DOMAIN file : \A k \in DOMAIN file[i] : file[i][k] \in STRING

Process == 1 .. MaxProcess
Terminal == <<0, 0>>      \* the standard input and output that are no pipes
MAX_COMMANDS == 10

VARIABLES
  lines,         \* the lines of the file
  pc, parent, line, at, waited,   \* of each process
  pipes,         \* the pipes of the line, <<process that made them, line>>
  open,          \* the ends of pipes it has open, besides the next two
  stdin, stdout,
  filled,        \* what is in a pipe
  work           \* of a program: what it has still to write

vars == <<lines, pc, parent, line, at, waited, pipes, open, stdin, stdout, filled, work>>

Init ==
  /\ lines = <<>>
  /\ pc = [p \in Process |-> "unborn"] /\ parent = [p \in Process |-> 0]
  /\ line = [p \in Process |-> 0] /\ at = [p \in Process |-> 0]
  /\ waited = [p \in Process |-> 0] /\ pipes = [p \in Process |-> <<0, 0>>]
  /\ open = [p \in Process |-> {}]
  /\ stdin = [p \in Process |-> Terminal] /\ stdout = [p \in Process |-> Terminal]
  /\ filled = [e \in {} |-> 0] /\ work = [p \in Process |-> 0]

-----------------------------------------------------------------------------
(* Parsing. *)

(* The items between the delimiters, up to the first empty one. *)
explode(items, empty) ==
  LET kept == {n \in 0 .. Len(items) : \A i \in 1 .. n : items[i] # empty}
  IN SubSeq(items, 1, CHOOSE n \in kept : \A k \in kept : k <= n)

(* The first word of each command of a line, "" for a command of none. *)
Commands(text) ==
  LET words == explode(text, "")
      bars == {i \in DOMAIN words : words[i] = "|"}
      starts == {1} \cup {i + 1 : i \in bars}
      Start(k) == CHOOSE s \in starts : Cardinality({t \in starts : t < s}) = k
  IN [k \in 0 .. Cardinality(bars) |->
        IF Start(k) \in DOMAIN words /\ Start(k) \notin bars THEN words[Start(k)] ELSE ""]

Line(p) == Commands(lines[line[p]])
Count(p) == Cardinality(DOMAIN Line(p))
Program(p) == Line(p)[at[p]]

(* The ends of the k-th pipe of a process. *)
Reading(p, k) == <<"r", pipes[p], k>>
Writing(p, k) == <<"w", pipes[p], k>>
Ends(p, indices) == {Reading(p, k) : k \in indices} \cup {Writing(p, k) : k \in indices}

-----------------------------------------------------------------------------
(* The interpreter. *)

main ==
  /\ lines = <<>>
  /\ \E file \in Files : lines' = explode(file, <<>>)
  /\ pc' = [pc EXCEPT ![1] = "line"]
  /\ line' = [line EXCEPT ![1] = 1]
  /\ UNCHANGED <<parent, at, waited, pipes, open, stdin, stdout, filled, work>>

Live(p) == pc[p] \notin {"unborn", "ended", "reaped"}

(* The end of a process closes its files. *)
Exit(p) ==
  /\ pc' = [pc EXCEPT ![p] = "ended"]
  /\ open' = [open EXCEPT ![p] = {}]
  /\ stdin' = [stdin EXCEPT ![p] = Terminal] /\ stdout' = [stdout EXCEPT ![p] = Terminal]

EndOfFile(p) ==
  /\ pc[p] = "line" /\ line[p] > Len(lines)
  /\ Exit(p)
  /\ UNCHANGED <<lines, parent, line, at, waited, pipes, filled, work>>

(* executeLine, up to the pipes.  A line of more than 10 commands and one  *)
(* with a command of no words are left out.                                *)
executeLine(p) ==
  /\ pc[p] = "line" /\ line[p] <= Len(lines)
  /\ IF Count(p) > MAX_COMMANDS \/ \E k \in DOMAIN Line(p) : Line(p)[k] = ""
       THEN /\ line' = [line EXCEPT ![p] = @ + 1]
            /\ UNCHANGED <<pc, at, pipes, open, filled>>
       ELSE /\ pc' = [pc EXCEPT ![p] = "fork"] /\ at' = [at EXCEPT ![p] = 0]
            /\ pipes' = [pipes EXCEPT ![p] = <<p, line[p]>>]
            /\ LET mine == 0 .. Count(p) - 2
                   new == {<<pipes'[p], k>> : k \in mine}
               IN /\ open' = [open EXCEPT ![p] = @ \cup {<<side, pipes'[p], k>> :
                                                           side \in {"r", "w"}, k \in mine}]
                  /\ filled' = [e \in DOMAIN filled \cup new |->
                                  IF e \in new THEN 0 ELSE filled[e]]
            /\ UNCHANGED line
  /\ UNCHANGED <<lines, parent, waited, stdin, stdout, work>>

Fork(p) ==
  /\ pc[p] = "fork" /\ at[p] < Count(p)
  /\ LET child == CHOOSE q \in Process : /\ pc[q] = "unborn"
                                         /\ \A r \in Process : pc[r] = "unborn" => q <= r
     IN /\ pc' = [pc EXCEPT ![child] = "child"]
        /\ parent' = [parent EXCEPT ![child] = p]
        /\ line' = [line EXCEPT ![child] = line[p]]
        /\ at' = [at EXCEPT ![child] = at[p], ![p] = @ + 1]
        /\ pipes' = [pipes EXCEPT ![child] = pipes[p]]
        /\ open' = [open EXCEPT ![child] = open[p]]
        /\ stdin' = [stdin EXCEPT ![child] = stdin[p]]
        /\ stdout' = [stdout EXCEPT ![child] = stdout[p]]
  /\ UNCHANGED <<lines, waited, filled, work>>

(* The interpreter closes the pipes. *)
CloseAll(p) ==
  /\ pc[p] = "fork" /\ at[p] = Count(p)
  /\ pc' = [pc EXCEPT ![p] = "wait"]
  /\ open' = [open EXCEPT ![p] = @ \ Ends(p, 0 .. Count(p) - 2)]
  /\ waited' = [waited EXCEPT ![p] = 0]
  /\ UNCHANGED <<lines, parent, line, at, pipes, stdin, stdout, filled, work>>

Children(p) == {q \in Process : parent[q] = p /\ pc[q] \notin {"unborn", "reaped"}}

(* wait, once for each command: for any child, or for none if none is left. *)
Wait(p) ==
  /\ pc[p] = "wait" /\ waited[p] < Count(p)
  /\ waited' = [waited EXCEPT ![p] = @ + 1]
  /\ IF Children(p) = {}
       THEN UNCHANGED pc
       ELSE \E q \in Children(p) : pc[q] = "ended" /\ pc' = [pc EXCEPT ![q] = "reaped"]
  /\ UNCHANGED <<lines, parent, line, at, pipes, open, stdin, stdout, filled, work>>

(* The descriptors are freed.  For a line of one command the count of them *)
(* wraps around, and the process dies.                                     *)
Clean(p) ==
  /\ pc[p] = "wait" /\ waited[p] = Count(p)
  /\ IF Count(p) = 1
       THEN Exit(p) /\ UNCHANGED line
       ELSE /\ pc' = [pc EXCEPT ![p] = "line"] /\ line' = [line EXCEPT ![p] = @ + 1]
            /\ UNCHANGED <<open, stdin, stdout>>
  /\ UNCHANGED <<lines, parent, at, waited, pipes, filled, work>>

-----------------------------------------------------------------------------
(* A child. *)

(* Bug: the last command keeps the end of its own pipe that is written to. *)
KeepsWriting(p) ==
  LET i == at[p]
      last == Count(p) - 1
  IN open[p] \ (IF i = 0 THEN {Reading(p, 0)}
                ELSE IF i = last THEN Ends(p, 0 .. last - 2)
                ELSE Ends(p, (0 .. last - 1) \ {i - 1, i}) \cup {Writing(p, i - 1), Reading(p, i)})

(* What is left open.  The first command closes one end only.              *)
Kept(p) ==
  LET i == at[p]
      last == Count(p) - 1
  IN open[p] \ (IF i = 0 THEN {Reading(p, 0)}
                ELSE IF i = last THEN Ends(p, 0 .. last - 2) \cup {Writing(p, last - 1)}
                ELSE Ends(p, (0 .. last - 1) \ {i - 1, i}) \cup {Writing(p, i - 1), Reading(p, i)})

(* dup2 of an end that is open; it fails for one that is not.              *)
Redirected(p, end, before) == IF end \in open[p] THEN end ELSE before

(* The redirections and execvp.  A child of a line of one command dies at  *)
(* the pipe there is none of, and the first child at the one behind the    *)
(* last when its execvp fails; any other goes on as an interpreter.        *)
Child(p) ==
  /\ pc[p] = "child"
  /\ IF Count(p) = 1 \/ (at[p] = 0 /\ Program(p) = "unknown")
       THEN Exit(p) /\ UNCHANGED <<at, work>>
       ELSE /\ open' = [open EXCEPT ![p] = Kept(p)]
            /\ stdin' = [stdin EXCEPT ![p] =
                 IF at[p] = 0 THEN @ ELSE Redirected(p, Reading(p, at[p] - 1), @)]
            /\ stdout' = [stdout EXCEPT ![p] =
                 IF at[p] = Count(p) - 1 THEN @ ELSE Redirected(p, Writing(p, at[p]), @)]
            /\ IF Program(p) = "unknown"
                 THEN /\ pc' = [pc EXCEPT ![p] = "fork"] /\ at' = [at EXCEPT ![p] = @ + 1]
                      /\ UNCHANGED work
                 ELSE /\ pc' = [pc EXCEPT ![p] = Program(p)]
                      /\ work' = [work EXCEPT ![p] = IF Program(p) = "source" THEN Output ELSE 0]
                      /\ UNCHANGED at
  /\ UNCHANGED <<lines, parent, line, waited, pipes, filled>>

-----------------------------------------------------------------------------
(* The programs. *)

Holds(p, end) == end \in open[p] \cup {stdin[p], stdout[p]}
Pipe(end) == <<end[2], end[3]>>
Reader(end) == \E p \in Process : Holds(p, <<"r", end[2], end[3]>>)
Writer(end) == \E p \in Process : Holds(p, <<"w", end[2], end[3]>>)

(* One unit is written; with nobody to read it SIGPIPE ends the program.   *)
ProgramWrites(p) ==
  /\ pc[p] \in {"source", "filter"} /\ work[p] > 0
  /\ IF stdout[p] = Terminal
       THEN work' = [work EXCEPT ![p] = @ - 1] /\ UNCHANGED <<filled, pc, open, stdin, stdout>>
       ELSE IF Reader(stdout[p])
       THEN /\ filled[Pipe(stdout[p])] < Capacity
            /\ filled' = [filled EXCEPT ![Pipe(stdout[p])] = @ + 1]
            /\ work' = [work EXCEPT ![p] = @ - 1] /\ UNCHANGED <<pc, open, stdin, stdout>>
       ELSE Exit(p) /\ UNCHANGED <<filled, work>>
  /\ UNCHANGED <<lines, parent, line, at, waited, pipes>>

FilterReads(p) ==
  /\ pc[p] = "filter" /\ work[p] = 0 /\ stdin[p] # Terminal
  /\ filled[Pipe(stdin[p])] > 0
  /\ filled' = [filled EXCEPT ![Pipe(stdin[p])] = @ - 1]
  /\ work' = [work EXCEPT ![p] = 1]
  /\ UNCHANGED <<lines, pc, parent, line, at, waited, pipes, open, stdin, stdout>>

ProgramEnds(p) ==
  /\ \/ pc[p] = "quit"
     \/ pc[p] = "source" /\ work[p] = 0
     \/ /\ pc[p] = "filter" /\ work[p] = 0
        /\ stdin[p] = Terminal \/ (filled[Pipe(stdin[p])] = 0 /\ ~Writer(stdin[p]))
  /\ Exit(p)
  /\ UNCHANGED <<lines, parent, line, at, waited, pipes, filled, work>>

-----------------------------------------------------------------------------

Step(p) == \/ EndOfFile(p) \/ executeLine(p) \/ Fork(p) \/ CloseAll(p) \/ Wait(p) \/ Clean(p)
           \/ Child(p) \/ ProgramWrites(p) \/ FilterReads(p) \/ ProgramEnds(p)

Next == main \/ \E p \in Process : Step(p)

Spec == Init /\ [][Next]_vars

-----------------------------------------------------------------------------
(* Properties. *)

Executing(p) == pc[p] \in {"source", "filter", "quit"}

(* "after the start of the programs of a single command the interpreter    *)
(* should wait for the end of all of them" (lab5/README.md:12): a program  *)
(* runs only while its interpreter starts its line or waits for it.  And   *)
(* nobody waits for ever, for a child, for the end of the input or for     *)
(* room in a pipe: while a process is left, one can go on, whatever ends   *)
(* of pipes the processes have kept.                                       *)
LineByLine ==
  /\ \A q \in Process : Executing(q) =>
       line[q] = line[parent[q]] /\ pc[parent[q]] \in {"fork", "wait"}
  /\ (\E p \in Process : Live(p)) => \E p \in Process : ENABLED Step(p)

(* Every program of a line is started once.  It is not so when a command   *)
(* behind the first cannot be executed: what follows is started twice.     *)
StartedOnce ==
  \A p, q \in Process :
    p # q /\ Executing(p) /\ Executing(q) => <<line[p], at[p]>> # <<line[q], at[q]>>
=============================================================================
