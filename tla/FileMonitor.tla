---------------------------- MODULE FileMonitor -----------------------------
(***************************************************************************)
(* lab4 zad2: a process for each file looks for a new modification time,   *)
(* saves what it read before as a backup and reads the file again.  The    *)
(* parent stops, starts and ends these processes with signals, which set   *)
(* flags; the process tests the flags and pauses.                          *)
(*                                                                         *)
(* A content of a file is a number, no two of them alike.  A backup is     *)
(* named by the name of the file, without its directories, and the second  *)
(* in which it is written, in one directory for all processes.  Processes  *)
(* are numbered in the order of the list; one whose file cannot be opened  *)
(* ends at once.                                                           *)
(***************************************************************************)
EXTENDS Integers, FiniteSets

CONSTANTS watchingFileCount,
          FileNames,    \* names of files without their directories
          Missing,      \* the name of a file that cannot be opened
          Basenames,    \* the lists the program is called with
          interval,
          MaxTime,      \* bound: seconds
          MaxWrites,    \* bound, for each list: changes of the files
          MaxCommands,  \* bound, for each list: commands of the user, besides END
          MaxSIGINT     \* bound, for each list: times the user types CTRL+C

MonitorAssumption ==
  /\ watchingFileCount \in Nat \ {0} /\ interval \in Nat
  /\ Basenames \subseteq [1 .. watchingFileCount -> FileNames]
  /\ MaxTime \in Nat \ {0}
  /\ \A bound \in {MaxWrites, MaxCommands, MaxSIGINT} : bound \in [Basenames -> Nat]

Watcher == 1 .. watchingFileCount
Second == 0 .. MaxTime
Nothing == -1

SIGINT == 2
SIGUSR1 == 10
SIGUSR2 == 12
Signal == {SIGINT, SIGUSR1, SIGUSR2}

VARIABLES
  now, writes, version, modified,   \* the clock and the files
  fileName, wpc,                    \* the name of its file, and where each process is
  reciveSIGUSR1, reciveSIGUSR2, endProgram, pending,
  stage, depth,                     \* the handlers that run: how far, and their place on the stack
  lastFileContent, lastTimeMod, howCopies, wake,
  archiwum,                         \* the backup of each name and second
  ppc, waiting, copied,             \* the parent: what it reports
  commands, interrupts,
  known, woken,                     \* history: contents read; a sleep was cut short;
  missed, torn                      \* a signal came between the test and the pause; a STOP
                                    \* and a START were handled one inside the other

files == <<fileName, now, writes, version, modified>>
flags == <<reciveSIGUSR1, reciveSIGUSR2, endProgram, stage, torn>>
signals == <<flags, pending, depth>>
copying == <<lastFileContent, lastTimeMod, howCopies, archiwum, known>>
parent == <<ppc, waiting, copied, commands, interrupts>>
history == <<woken, missed>>
vars == <<files, wpc, signals, copying, wake, history, parent>>

(* The files were there before the program: their times are not 0. *)
Init ==
  /\ now = 1 /\ writes = 0 /\ fileName \in Basenames
  /\ version = [w \in Watcher |-> w] /\ modified = [w \in Watcher |-> 1]
  /\ wpc = [w \in Watcher |-> IF fileName[w] = Missing THEN "ended" ELSE "read"]
  /\ reciveSIGUSR1 = [w \in Watcher |-> FALSE] /\ reciveSIGUSR2 = [w \in Watcher |-> FALSE]
  /\ endProgram = [w \in Watcher |-> FALSE] /\ pending = [w \in Watcher |-> {}]
  /\ stage = [w \in Watcher |-> [s \in Signal |-> "none"]]
  /\ depth = [w \in Watcher |-> [s \in Signal |-> 0]] /\ torn = [w \in Watcher |-> FALSE]
  /\ lastFileContent = [w \in Watcher |-> Nothing] /\ lastTimeMod = [w \in Watcher |-> 0]
  /\ howCopies = [w \in Watcher |-> 0] /\ wake = [w \in Watcher |-> 0]
  /\ archiwum = [name \in FileNames |-> [s \in Second |-> Nothing]]
  /\ known = [w \in Watcher |-> {}] /\ woken = [w \in Watcher |-> FALSE]
  /\ missed = [w \in Watcher |-> FALSE]
  /\ ppc = "command" /\ waiting = 1 /\ copied = [w \in Watcher |-> Nothing]
  /\ commands = 0 /\ interrupts = 0

-----------------------------------------------------------------------------
(* The world. *)

Tick ==
  /\ now < MaxTime /\ now' = now + 1
  /\ UNCHANGED <<fileName, writes, version, modified, wpc, signals, copying, wake, history, parent>>

Write(w) ==
  /\ fileName[w] # Missing
  /\ writes < MaxWrites[fileName] /\ writes' = writes + 1
  /\ version' = [version EXCEPT ![w] = watchingFileCount + writes']
  /\ modified' = [modified EXCEPT ![w] = now]
  /\ UNCHANGED <<fileName, now, wpc, signals, copying, wake, history, parent>>

-----------------------------------------------------------------------------
(* watcherCopyViaProg, which runs while no handler does. *)

Active(w) == {s \in Signal : stage[w][s] # "none"}

At(w, where) == wpc[w] = where /\ Active(w) = {}

Goto(w, where) == wpc' = [wpc EXCEPT ![w] = where]

Read(w) ==
  /\ lastFileContent' = [lastFileContent EXCEPT ![w] = version[w]]
  /\ known' = [known EXCEPT ![w] = @ \cup {version[w]}]

FirstRead(w) ==
  /\ At(w, "read") /\ Goto(w, "loop")
  /\ Read(w)
  /\ UNCHANGED <<files, signals, lastTimeMod, howCopies, archiwum, wake, history, parent>>

Loop(w) ==
  /\ At(w, "loop")
  /\ Goto(w, IF endProgram[w] THEN "ended" ELSE IF reciveSIGUSR1[w] THEN "test" ELSE "stat")
  /\ UNCHANGED <<files, signals, copying, wake, history, parent>>

(* Bug: a process that is stopped looks only for START. *)
TestsStartOnly(w) ==
  /\ At(w, "test")
  /\ Goto(w, IF reciveSIGUSR2[w] THEN "stat" ELSE "beforepause")
  /\ missed' = [missed EXCEPT ![w] = FALSE]
  /\ UNCHANGED <<files, signals, copying, wake, woken, parent>>

(* The test of the flags and the pause behind it are two steps. *)
Test(w) ==
  /\ At(w, "test")
  /\ Goto(w, IF reciveSIGUSR2[w] \/ endProgram[w] THEN "stat" ELSE "beforepause")
  /\ missed' = [missed EXCEPT ![w] = FALSE]
  /\ UNCHANGED <<files, signals, copying, wake, woken, parent>>

Pause(w) ==
  /\ At(w, "beforepause") /\ Goto(w, "pause")
  /\ UNCHANGED <<files, signals, copying, wake, history, parent>>

(* Bug: the new content is read before the old one is saved. *)
StatsAndLoads(w) ==
  /\ At(w, "stat")
  /\ IF lastTimeMod[w] < modified[w]
       THEN /\ lastTimeMod' = [lastTimeMod EXCEPT ![w] = modified[w]]
            /\ howCopies' = [howCopies EXCEPT ![w] = @ + 1]
            /\ Read(w)
            /\ Goto(w, "save")
            /\ UNCHANGED wake
       ELSE /\ wake' = [wake EXCEPT ![w] = now + interval]
            /\ Goto(w, "sleep")
            /\ UNCHANGED <<lastTimeMod, howCopies, lastFileContent, known>>
  /\ UNCHANGED <<files, signals, archiwum, history, parent>>

Stat(w) ==
  /\ At(w, "stat")
  /\ IF lastTimeMod[w] < modified[w]
       THEN /\ lastTimeMod' = [lastTimeMod EXCEPT ![w] = modified[w]]
            /\ howCopies' = [howCopies EXCEPT ![w] = @ + 1]
            /\ Goto(w, "save")
            /\ UNCHANGED wake
       ELSE /\ wake' = [wake EXCEPT ![w] = now + interval]
            /\ Goto(w, "sleep")
            /\ UNCHANGED <<lastTimeMod, howCopies>>
  /\ UNCHANGED <<files, signals, lastFileContent, archiwum, known, history, parent>>

(* A backup of the same name is written over. *)
Save(w) ==
  /\ At(w, "save") /\ Goto(w, "load")
  /\ archiwum' = [archiwum EXCEPT ![fileName[w]][now] = lastFileContent[w]]
  /\ UNCHANGED <<files, signals, lastFileContent, lastTimeMod, howCopies, known, wake, history,
                 parent>>

Load(w) ==
  /\ At(w, "load") /\ Goto(w, "sleep")
  /\ Read(w)
  /\ wake' = [wake EXCEPT ![w] = now + interval]
  /\ UNCHANGED <<files, signals, lastTimeMod, howCopies, archiwum, history, parent>>

Slept(w) ==
  /\ At(w, "sleep") /\ now >= wake[w] /\ Goto(w, "loop")
  /\ UNCHANGED <<files, signals, copying, wake, history, parent>>

-----------------------------------------------------------------------------
(* The handlers.  Each masks its own signal only: the other one may come   *)
(* between the two flags that it sets.                                     *)

New(w) == pending[w] \ Active(w)

(* All handlers of new signals are entered before the first one runs, that *)
(* of the lowest number below the others.                                  *)
Deliver(w) ==
  /\ wpc[w] # "ended" /\ New(w) # {}
  /\ pending' = [pending EXCEPT ![w] = @ \ New(w)]
  /\ stage' = [stage EXCEPT ![w] = [s \in Signal |->
                  IF s \in New(w) THEN "entered"
                  ELSE IF @[s] = "between" /\ New(w) \ {SIGINT} # {} THEN "interrupted"
                  ELSE @[s]]]
  /\ depth' = [depth EXCEPT ![w] = [s \in Signal |->
                  IF s \in New(w) THEN Cardinality(Active(w)) + Cardinality({n \in New(w) : n <= s})
                  ELSE @[s]]]
  /\ wpc' = [wpc EXCEPT ![w] = IF @ = "pause" THEN "test" ELSE IF @ = "sleep" THEN "loop" ELSE @]
  /\ woken' = [woken EXCEPT ![w] = @ \/ wpc[w] = "sleep"]
  /\ missed' = [missed EXCEPT ![w] = @ \/ wpc[w] = "beforepause"]
  /\ UNCHANGED <<files, reciveSIGUSR1, reciveSIGUSR2, endProgram, torn, copying, wake, parent>>

OnTop(w, s) ==
  s \in Active(w) /\ \A other \in Active(w) \ {s} : depth[w][other] < depth[w][s]

Ends(w, s) == /\ stage' = [stage EXCEPT ![w][s] = "none"]
              /\ depth' = [depth EXCEPT ![w][s] = 0]

handleSIGINT(w) ==
  /\ OnTop(w, SIGINT) /\ Ends(w, SIGINT)
  /\ endProgram' = [endProgram EXCEPT ![w] = TRUE]
  /\ UNCHANGED <<files, wpc, reciveSIGUSR1, reciveSIGUSR2, pending, torn, copying, wake,
                 history, parent>>

(* The first flag that a handler sets, and the second. *)
First(w, s) == /\ OnTop(w, s) /\ stage[w][s] = "entered"
               /\ stage' = [stage EXCEPT ![w][s] = "between"]
               /\ UNCHANGED <<depth, torn>>
Last(w, s) == /\ OnTop(w, s) /\ stage[w][s] # "entered" /\ Ends(w, s)
              /\ torn' = [torn EXCEPT ![w] = stage[w][s] = "interrupted"]

Sets1(w, value) ==
  reciveSIGUSR1' = [reciveSIGUSR1 EXCEPT ![w] = value] /\ UNCHANGED reciveSIGUSR2
Sets2(w, value) ==
  reciveSIGUSR2' = [reciveSIGUSR2 EXCEPT ![w] = value] /\ UNCHANGED reciveSIGUSR1

handleSIGUSR1(w) ==
  /\ \/ First(w, SIGUSR1) /\ Sets1(w, TRUE)
     \/ Last(w, SIGUSR1) /\ Sets2(w, FALSE)
  /\ UNCHANGED <<files, wpc, endProgram, pending, copying, wake, history, parent>>

handleSIGUSR2(w) ==
  /\ \/ First(w, SIGUSR2) /\ Sets1(w, FALSE)
     \/ Last(w, SIGUSR2) /\ Sets2(w, TRUE)
  /\ UNCHANGED <<files, wpc, endProgram, pending, copying, wake, history, parent>>

-----------------------------------------------------------------------------
(* The parent. *)

Kill(watchers, signal) ==
  pending' = [w \in Watcher |-> IF w \in watchers /\ wpc[w] # "ended"
                                  THEN pending[w] \cup {signal} ELSE pending[w]]

(* start and stop, of one process or of all; list changes nothing. *)
UserCommand ==
  /\ ppc = "command" /\ commands < MaxCommands[fileName] /\ commands' = commands + 1
  /\ \E watchers \in {{w} : w \in Watcher} \cup {Watcher}, signal \in {SIGUSR1, SIGUSR2} :
       Kill(watchers, signal)
  /\ UNCHANGED <<files, wpc, flags, depth, copying, wake, history, ppc, waiting, copied,
                 interrupts>>

(* end, up to the first waitpid. *)
End ==
  /\ ppc' = "wait" /\ waiting' = 1
  /\ Kill(Watcher, SIGINT)

EndCommand ==
  /\ ppc = "command" /\ End
  /\ UNCHANGED <<files, wpc, flags, depth, copying, wake, history, copied, commands, interrupts>>

(* CTRL+C reaches every process; the handler of the parent calls end, also *)
(* when it interrupts a call of end.                                       *)
Interrupt ==
  /\ ppc \in {"command", "wait"} /\ interrupts < MaxSIGINT[fileName] /\ interrupts' = interrupts + 1
  /\ End
  /\ UNCHANGED <<files, wpc, flags, depth, copying, wake, history, copied, commands>>

(* waitpid and the report.  The status has 8 bits; it is 0 for a process   *)
(* that has been waited for already.                                       *)
Wait ==
  /\ ppc = "wait" /\ wpc[waiting] = "ended"
  /\ copied' = [copied EXCEPT ![waiting] = IF @ = Nothing THEN howCopies[waiting] % 256 ELSE 0]
  /\ waiting' = waiting + 1
  /\ ppc' = IF waiting = watchingFileCount THEN "done" ELSE "wait"
  /\ UNCHANGED <<files, wpc, signals, copying, wake, history, commands, interrupts>>

-----------------------------------------------------------------------------

WatcherStep(w) == \/ FirstRead(w) \/ Loop(w) \/ Test(w) \/ Pause(w) \/ Stat(w) \/ Save(w)
                  \/ Load(w) \/ Slept(w)
                  \/ Deliver(w) \/ handleSIGINT(w) \/ handleSIGUSR1(w) \/ handleSIGUSR2(w)

Next == \/ Tick \/ UserCommand \/ EndCommand \/ Interrupt \/ Wait
        \/ \E w \in Watcher : WatcherStep(w) \/ Write(w)

Spec == Init /\ [][Next]_vars

-----------------------------------------------------------------------------
(* Properties. *)

Archived(w) == {archiwum[fileName[w]][s] : s \in Second}

(* No other file of the list has its name. *)
Alone(w) == \A other \in Watcher \ {w} : fileName[other] # fileName[w]

(* What a process has read is in a backup, unless it is what it read last: *)
(* no backup is written over another, for a second passes between two of   *)
(* them, and nothing is read in between (watcherCopyViaProg).  A signal    *)
(* that cuts the sleep short breaks it, an interval of 0, and a file of    *)
(* the same name.                                                          *)
KeptAll ==
  interval > 0 =>
    \A w \in Watcher : Alone(w) /\ ~woken[w] =>
      known[w] \subseteq Archived(w) \cup {lastFileContent[w]}

(* A process pauses only while it is stopped: a START, and a SIGINT to a   *)
(* process that is stopped, always wake it, in every order of commands and *)
(* copies, but for a signal that falls between its test of the flags and   *)
(* its pause, and for a STOP and a START of which one is handled inside    *)
(* the other.  Such a process sleeps on, and END waits for it for ever.    *)
SleepsOnlyStopped ==
  \A w \in Watcher : wpc[w] = "pause" /\ ~missed[w] /\ ~torn[w] =>
    reciveSIGUSR1[w] /\ ~reciveSIGUSR2[w] /\ ~endProgram[w]

-----------------------------------------------------------------------------
(* Why it is so. *)

Places == {"read", "loop", "test", "beforepause", "pause", "stat", "save", "load", "sleep", "ended"}

(* Since when nobody has written a backup of this name, in each place. *)
FreeFrom(w) == CASE wpc[w] = "load" -> now + 1
                 [] wpc[w] = "sleep" -> wake[w]
                 [] OTHER -> now

Kept(w) ==
  /\ wpc[w] # "ended" => \A s \in Second : s >= FreeFrom(w) => archiwum[fileName[w]][s] = Nothing
  /\ wpc[w] = "read" => known[w] = {}
  /\ known[w] \subseteq Archived(w) \cup (IF wpc[w] = "load" THEN {} ELSE {lastFileContent[w]})

CopyTypes ==
  /\ now \in Second /\ fileName \in [Watcher -> FileNames] /\ wpc \in [Watcher -> Places]
  /\ archiwum \in [FileNames -> [Second -> Int]]
  /\ known \in [Watcher -> SUBSET Nat] /\ lastFileContent \in [Watcher -> Int]
  /\ writes \in Nat /\ version \in [Watcher -> Nat]
  /\ wake \in [Watcher -> Int] /\ woken \in [Watcher -> BOOLEAN]

Copies ==
  CopyTypes /\ (interval > 0 => \A w \in Watcher : Alone(w) /\ ~woken[w] => Kept(w))

(* A handler that has set its first flag, and is not interrupted, is above *)
(* the other one.                                                          *)
Between(w, s, other) ==
  stage[w][s] = "between" /\ other \in Active(w) => depth[w][other] < depth[w][s]

(* Whoever waits has been stopped, or has been started again. *)
Handled(w) ==
  /\ Between(w, SIGUSR1, SIGUSR2) /\ Between(w, SIGUSR2, SIGUSR1)
  /\ stage[w][SIGUSR1] = "between" => reciveSIGUSR1[w]
  /\ Active(w) \subseteq {SIGINT} /\ ~torn[w] /\ wpc[w] \in {"test", "beforepause", "pause"} =>
       reciveSIGUSR1[w] \/ reciveSIGUSR2[w]
  /\ wpc[w] \in {"beforepause", "pause"} /\ ~missed[w] =>
       ~reciveSIGUSR2[w] /\ ~endProgram[w] /\ Active(w) = {}

FlagTypes ==
  /\ wpc \in [Watcher -> Places]
  /\ reciveSIGUSR1 \in [Watcher -> BOOLEAN] /\ reciveSIGUSR2 \in [Watcher -> BOOLEAN]
  /\ endProgram \in [Watcher -> BOOLEAN] /\ pending \in [Watcher -> SUBSET Signal]
  /\ missed \in [Watcher -> BOOLEAN] /\ torn \in [Watcher -> BOOLEAN]
  /\ stage \in [Watcher -> [Signal -> {"none", "entered", "between", "interrupted"}]]
  /\ depth \in [Watcher -> [Signal -> Int]]

Flags == FlagTypes /\ \A w \in Watcher : Handled(w)

-----------------------------------------------------------------------------
(* What does not hold. *)

(* "END - the program ends all the processes and shows the last report"    *)
(* (lab4/README.md:22): a process that is waited for does not sleep with   *)
(* nothing left to wake it.                                                *)
EndEnds == ppc = "wait" /\ wpc[waiting] = "pause" => pending[waiting] # {}

(* A process pauses only while it is stopped, whatever handler is          *)
(* interrupted: both flags may be clear then.                              *)
StartWakes == \A w \in Watcher : wpc[w] = "pause" /\ ~missed[w] => reciveSIGUSR1[w]

(* The backups of two files of one name are kept: they are written at the  *)
(* first turn of both processes, most often in the same second.            *)
NamesakesKept ==
  interval > 0 =>
    \A w \in Watcher : ~woken[w] => known[w] \subseteq Archived(w) \cup {lastFileContent[w]}
=============================================================================
