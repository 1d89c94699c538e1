------------------------------ MODULE Watchers ------------------------------
(***************************************************************************)
(* lab3 zad2 and zad3: a process for each file makes backups of it for     *)
(* monitoringTime seconds, from memory (ViaProg) or with cp (ViaCmd), and  *)
(* returns the number of backups to the parent.  In zad3 it waits for cp.  *)
(* The tester writes to the files.                                         *)
(*                                                                         *)
(* A content of a file is a number, no two of them alike.  A backup is     *)
(* named by the name of the file, without its directories, and the second  *)
(* it is made in, in one directory for all processes.  The limits of zad3  *)
(* let the reading of a file fail, and let cp fail or be killed.           *)
(***************************************************************************)
EXTENDS Integers, FiniteSets

CONSTANTS howWatchingFile,
          FileNames,    \* names of files without their directories
          Lists,        \* the lists the program is called with: names and intervals
          Times,        \* the monitoring times the program is called with
          MaxTime,      \* bound: seconds
          MaxWrites,    \* bound, for each list: lines the tester writes (100 in the code)
          MaxFailures   \* bound: calls of cp, fopen or calloc that fail

WatchersAssumption ==
  /\ howWatchingFile \in Nat \ {0} /\ Times \subseteq Nat
  /\ Lists \subseteq [1 .. howWatchingFile -> FileNames \X Nat]
  /\ MaxTime \in Nat \ {0} /\ MaxWrites \in [Lists -> Nat] /\ MaxFailures \in Nat

Watcher == 1 .. howWatchingFile
Second == 0 .. MaxTime
Nothing == -1

VARIABLES
  zad, mode, monitoringTime,                 \* the program and its arguments
  fileName, interval,                        \* the list
  now, version, modified, limit, failures,   \* the world
  wpc, turn, lastFileContent, lastTimeMod, howCopies, wake, exitStatus,
  cp,                                        \* the copying processes: the names of their backups
  archiwum,                                  \* the backup of each name and second, Nothing if
                                             \* there is none
  waiting, copped,                           \* the parent: whom it waits for, what it reports
  known, made, killed                        \* history: contents read, backups made, cp's that
                                             \* a limit killed

arguments == <<zad, mode, monitoringTime, fileName, interval>>
world == <<now, version, modified, limit, failures>>
watching == <<wpc, turn, lastFileContent, lastTimeMod, howCopies, wake, exitStatus,
              known>>
backups == <<cp, archiwum, made, killed>>
parent == <<waiting, copped>>
vars == <<arguments, world, watching, backups, parent>>

Init ==
  /\ zad = 0 /\ mode = "none" /\ monitoringTime = 0
  /\ \E list \in Lists : /\ fileName = [w \in Watcher |-> list[w][1]]
                         /\ interval = [w \in Watcher |-> list[w][2]]
                         /\ limit = MaxWrites[list]
  /\ now = 1 /\ failures = 0
  /\ version = [w \in Watcher |-> w] /\ modified = [w \in Watcher |-> 1]
  /\ wpc = [w \in Watcher |-> "none"] /\ turn = [w \in Watcher |-> 0]
  /\ lastFileContent = [w \in Watcher |-> Nothing] /\ lastTimeMod = [w \in Watcher |-> 0]
  /\ howCopies = [w \in Watcher |-> 0]
  /\ wake = [w \in Watcher |-> 0] /\ exitStatus = [w \in Watcher |-> 0]
  /\ cp = [w \in Watcher |-> {}]
  /\ archiwum = [name \in FileNames |-> [s \in Second |-> Nothing]]
  /\ known = [w \in Watcher |-> {}]
  /\ made = [w \in Watcher |-> 0] /\ killed = [w \in Watcher |-> 0]
  /\ waiting = 0 /\ copped = [w \in Watcher |-> Nothing]

-----------------------------------------------------------------------------
(* The world. *)

Tick ==
  /\ now < MaxTime /\ now' = now + 1
  /\ UNCHANGED <<arguments, version, modified, limit, failures, watching, backups, parent>>

(* The tester appends a line to a file, limit times in all. *)
TesterSaves(w) ==
  /\ limit > 0 /\ limit' = limit - 1
  /\ version' = [version EXCEPT ![w] = howWatchingFile + limit]
  /\ modified' = [modified EXCEPT ![w] = now]
  /\ UNCHANGED <<arguments, now, failures, watching, backups, parent>>

-----------------------------------------------------------------------------
(* main: the arguments, and a process for each line of the list. *)
main ==
  /\ zad = 0 /\ zad' \in {2, 3} /\ mode' \in {"prog", "cmd"}
  /\ monitoringTime' \in Times
  /\ wpc' = [w \in Watcher |-> IF mode' = "prog" THEN "read" ELSE "loop"]
  /\ howCopies' = [w \in Watcher |-> IF mode' = "prog" THEN 0 ELSE -1]
  /\ waiting' = 1
  /\ UNCHANGED <<fileName, interval, world, turn, lastFileContent, lastTimeMod, wake, exitStatus,
                 known, backups, copped>>

(* waitpid and the report: the exit status has 8 bits, and is 0 also for a *)
(* process that a signal ended.                                            *)
waitpid ==
  /\ waiting \in Watcher /\ wpc[waiting] = "ended"
  /\ copped' = [copped EXCEPT ![waiting] = exitStatus[waiting]]
  /\ waiting' = waiting + 1
  /\ UNCHANGED <<arguments, world, watching, backups>>

-----------------------------------------------------------------------------
(* Both ways. *)

Goto(w, where) == wpc' = [wpc EXCEPT ![w] = where]

End(w, status) ==
  /\ Goto(w, "ended")
  /\ exitStatus' = [exitStatus EXCEPT ![w] = status % 256]

(* "fopen" or "calloc" gives nothing: the process ends with its count.     *)
Fails == failures < MaxFailures /\ failures' = failures + 1

Read(w) ==
  /\ lastFileContent' = [lastFileContent EXCEPT ![w] = version[w]]
  /\ known' = [known EXCEPT ![w] = @ \cup {version[w]}]

(* sleep(interval) and the next turn of the loop. *)
Sleep(w) ==
  /\ Goto(w, "sleep")
  /\ wake' = [wake EXCEPT ![w] = now + interval[w]]

Slept(w) ==
  /\ wpc[w] = "sleep" /\ now >= wake[w] /\ Goto(w, "loop")
  /\ turn' = [turn EXCEPT ![w] = @ + 1]
  /\ UNCHANGED <<arguments, world, lastFileContent, lastTimeMod, howCopies, wake,
                 exitStatus, known, backups, parent>>

(* monitoringTime / interval: a division by 0 ends the process. *)
Divide(w) ==
  /\ wpc[w] = "loop" /\ interval[w] = 0
  /\ End(w, 0)
  /\ UNCHANGED <<arguments, world, turn, lastFileContent, lastTimeMod, howCopies,
                 wake, known, backups, parent>>

(* The number that is returned. *)
Returned(w) ==
  CASE mode = "prog"             -> howCopies[w]
    [] mode = "cmd" /\ zad = 2   -> howCopies[w] + 1
    [] mode = "cmd" /\ zad = 3   -> IF howCopies[w] = -1 THEN 0 ELSE howCopies[w]

Return(w) ==
  /\ wpc[w] = "loop" /\ interval[w] > 0 /\ turn[w] >= monitoringTime \div interval[w]
  /\ End(w, Returned(w))
  /\ UNCHANGED <<arguments, world, turn, lastFileContent, lastTimeMod, howCopies,
                 wake, known, backups, parent>>

Turns(w) ==
  wpc[w] = "loop" /\ interval[w] > 0 /\ turn[w] < monitoringTime \div interval[w]

-----------------------------------------------------------------------------
(* watcherCopyViaProg. *)

FirstRead(w) ==
  /\ wpc[w] = "read"
  /\ \/ Read(w) /\ Goto(w, "loop") /\ UNCHANGED <<failures, exitStatus>>
     \/ Fails /\ End(w, 0) /\ UNCHANGED <<lastFileContent, known>>
  /\ UNCHANGED <<arguments, now, version, modified, limit, turn, lastTimeMod, howCopies,
                 wake, backups, parent>>

StatProg(w) ==
  /\ mode = "prog" /\ Turns(w)
  /\ IF lastTimeMod[w] < modified[w]
       THEN /\ howCopies' = [howCopies EXCEPT ![w] = @ + 1]
            /\ lastTimeMod' = [lastTimeMod EXCEPT ![w] = modified[w]]
            /\ Goto(w, "save") /\ UNCHANGED wake
       ELSE Sleep(w) /\ UNCHANGED <<howCopies, lastTimeMod>>
  /\ UNCHANGED <<arguments, world, turn, lastFileContent, exitStatus, known, backups,
                 parent>>

(* A backup of the same name is written over. *)
Save(w) ==
  /\ wpc[w] = "save"
  /\ \/ /\ archiwum' = [archiwum EXCEPT ![fileName[w]][now] = lastFileContent[w]]
        /\ made' = [made EXCEPT ![w] = @ + 1]
        /\ Goto(w, "load") /\ UNCHANGED <<failures, exitStatus>>
     \/ Fails /\ End(w, howCopies[w]) /\ UNCHANGED <<archiwum, made>>
  /\ UNCHANGED <<arguments, now, version, modified, limit, turn, lastFileContent, lastTimeMod,
                 howCopies, wake, known, cp, killed, parent>>

Load(w) ==
  /\ wpc[w] = "load"
  /\ \/ Read(w) /\ Sleep(w) /\ UNCHANGED <<failures, exitStatus>>
     \/ Fails /\ End(w, howCopies[w]) /\ UNCHANGED <<lastFileContent, known, wake>>
  /\ UNCHANGED <<arguments, now, version, modified, limit, turn, lastTimeMod, howCopies, backups, parent>>

-----------------------------------------------------------------------------
(* watcherCopyViaCmd. *)

(* fork: the copy of zad2 is counted now, that of zad3 when it is made.    *)
StatCmd(w) ==
  /\ mode = "cmd" /\ Turns(w)
  /\ IF lastTimeMod[w] < modified[w] \/ howCopies[w] = -1
       THEN /\ lastTimeMod' = [lastTimeMod EXCEPT ![w] = modified[w]]
            /\ cp' = [cp EXCEPT ![w] = @ \cup {now}]
            /\ IF zad = 2
                 THEN howCopies' = [howCopies EXCEPT ![w] = @ + 1] /\ Sleep(w)
                 ELSE Goto(w, "wait") /\ UNCHANGED <<howCopies, wake>>
       ELSE Sleep(w) /\ UNCHANGED <<lastTimeMod, howCopies, cp>>
  /\ UNCHANGED <<arguments, world, turn, lastFileContent, exitStatus, known, archiwum,
                 made, killed, parent>>

(* Bug: a copy is counted whether or not cp made it. *)
CountsFailures(w, how) ==
  IF wpc[w] = "wait"
    THEN howCopies' = [howCopies EXCEPT ![w] = @ + 1] /\ Sleep(w)
    ELSE UNCHANGED <<howCopies, wpc, wake>>

(* wait, in zad3: a copy is counted unless cp says that it failed; a cp    *)
(* that was killed has an exit status of 0.                                *)
CpWaited(w, how) ==
  IF wpc[w] = "wait"
    THEN /\ howCopies' = IF how = "failed" THEN howCopies ELSE [howCopies EXCEPT ![w] = @ + 1]
         /\ Sleep(w)
    ELSE UNCHANGED <<howCopies, wpc, wake>>

(* cp reads the file and writes the backup; zad3 limits what it may use.   *)
Cp(w) ==
  \E name \in cp[w], how \in {"made", "failed", "killed"} :
    /\ cp' = [cp EXCEPT ![w] = @ \ {name}]
    /\ \/ /\ how = "made" /\ made' = [made EXCEPT ![w] = @ + 1]
          /\ archiwum' = [archiwum EXCEPT ![fileName[w]][name] = version[w]]
          /\ UNCHANGED <<failures, killed>>
       \/ how = "failed" /\ Fails /\ UNCHANGED <<archiwum, made, killed>>
       \/ /\ how = "killed" /\ zad = 3 /\ Fails /\ killed' = [killed EXCEPT ![w] = @ + 1]
          /\ UNCHANGED <<archiwum, made>>
    /\ CpWaited(w, how)
    /\ UNCHANGED <<arguments, now, version, modified, limit, turn, lastFileContent, lastTimeMod,
                   exitStatus, known, parent>>

-----------------------------------------------------------------------------

WatcherStep(w) == \/ FirstRead(w) \/ Divide(w) \/ Return(w) \/ Slept(w)
                  \/ StatProg(w) \/ Save(w) \/ Load(w) \/ StatCmd(w) \/ Cp(w)

Next == main \/ waitpid \/ Tick \/ \E w \in Watcher : WatcherStep(w) \/ TesterSaves(w)

Spec == Init /\ [][Next]_vars

-----------------------------------------------------------------------------
(* Properties. *)

Archived(w) == {archiwum[fileName[w]][s] : s \in Second}

(* No other file of the list has its name. *)
Alone(w) == \A other \in Watcher \ {w} : fileName[other] # fileName[w]

(* What a process that copies from memory has read is in a backup, unless  *)
(* it is what it read last: no backup is written over another, but for     *)
(* those of two files of the same name.                                    *)
KeptAll ==
  mode = "prog" =>
    \A w \in Watcher : Alone(w) => known[w] \subseteq Archived(w) \cup {lastFileContent[w]}

(* What is counted of the copies that zad3 makes with cp. *)
Counted(w) == made[w] + killed[w]

(* What the report says, when every cp has ended: the backups that were    *)
(* made and those that failed; in zad3 with cp those that were made, and   *)
(* those of a cp that a limit killed, but not those of a cp that failed,   *)
(* one less, for the count goes on from -1; and that in the 8 bits of an   *)
(* exit status.                                                            *)
Reports ==
  \A w \in Watcher : copped[w] # Nothing /\ cp[w] = {} =>
    CASE mode = "prog" \/ zad = 2 -> copped[w] \in {n % 256 : n \in made[w] .. made[w] + failures}
      [] mode = "cmd" /\ zad = 3  -> copped[w] = (IF Counted(w) = 0 THEN 0 ELSE Counted(w) - 1) % 256

-----------------------------------------------------------------------------
(* Why it is so. *)

Tables ==
  /\ <<zad, mode>> \in ({2, 3} \X {"prog", "cmd"}) \cup {<<0, "none">>}
  /\ fileName \in [Watcher -> FileNames] /\ interval \in [Watcher -> Nat]
  /\ limit \in Nat /\ failures \in Nat /\ now \in Second
  /\ wpc \in [Watcher -> {"none", "read", "loop", "sleep", "save", "load", "wait", "ended"}]
  /\ version \in [Watcher -> Nat] /\ lastFileContent \in [Watcher -> Int]
  /\ known \in [Watcher -> SUBSET Nat] /\ archiwum \in [FileNames -> [Second -> Int]]
  /\ wake \in [Watcher -> Int] /\ cp \in [Watcher -> SUBSET Second]
  /\ made \in [Watcher -> Nat] /\ killed \in [Watcher -> Nat] /\ howCopies \in [Watcher -> Int]
  /\ exitStatus \in [Watcher -> Int] /\ copped \in [Watcher -> Int]

Placed(w) ==
  /\ mode = "none" <=> wpc[w] = "none"
  /\ wpc[w] \in {"read", "save", "load"} => mode = "prog"
  /\ wpc[w] = "wait" => mode = "cmd" /\ zad = 3
  /\ wpc[w] \in {"sleep", "save", "load", "wait"} => interval[w] > 0
  /\ mode = "none" \/ wpc[w] = "read" =>
       /\ known[w] = {} /\ made[w] = 0 /\ killed[w] = 0 /\ cp[w] = {}
       /\ Alone(w) => \A s \in Second : archiwum[fileName[w]][s] = Nothing
  /\ copped[w] # Nothing => wpc[w] = "ended" /\ copped[w] = exitStatus[w]

(* Since when nobody has written a backup of this name, in each place. *)
FreeFrom(w) == CASE wpc[w] = "load" -> now + 1
                 [] wpc[w] = "sleep" -> wake[w]
                 [] OTHER -> now

Kept(w) ==
  /\ wpc[w] # "ended" => \A s \in Second : s >= FreeFrom(w) => archiwum[fileName[w]][s] = Nothing
  /\ known[w] \subseteq Archived(w) \cup (IF wpc[w] = "load" THEN {} ELSE {lastFileContent[w]})

(* Backups from memory: none is written over another, all are counted.     *)
FromMemory(w) ==
  /\ cp[w] = {}
  /\ Alone(w) => Kept(w)
  /\ wpc[w] # "ended" => howCopies[w] = (IF wpc[w] = "save" THEN made[w] + 1 ELSE made[w])
  /\ interval[w] = 0 => made[w] = 0
  /\ wpc[w] = "ended" => exitStatus[w] \in {n % 256 : n \in made[w] .. made[w] + failures}

(* Those of cp in zad2: counted are those that were made, are being made   *)
(* and have failed.                                                        *)
Forked(w) ==
  /\ wpc[w] # "ended" => \A s \in cp[w] : s < FreeFrom(w)
  /\ interval[w] = 0 => howCopies[w] = -1
  /\ howCopies[w] + 1 >= made[w] + Cardinality(cp[w])
  /\ howCopies[w] + 1 <= made[w] + Cardinality(cp[w]) + failures
  /\ wpc[w] = "ended" => exitStatus[w] = (howCopies[w] + 1) % 256

(* Those of cp in zad3: one is made at a time. *)
WaitedFor(w) ==
  /\ howCopies[w] + 1 = Counted(w)
  /\ interval[w] = 0 => Counted(w) = 0
  /\ IF wpc[w] = "wait" THEN \E s \in Second : cp[w] = {s} ELSE cp[w] = {}
  /\ wpc[w] = "ended" => exitStatus[w] = (IF Counted(w) = 0 THEN 0 ELSE Counted(w) - 1) % 256

Watched(w) == /\ Placed(w)
              /\ mode = "prog" => FromMemory(w)
              /\ mode = "cmd" /\ zad = 2 => Forked(w)
              /\ mode = "cmd" /\ zad = 3 => WaitedFor(w)

IInv == Tables /\ \A w \in Watcher : Watched(w)

-----------------------------------------------------------------------------
(* What does not hold. *)

(* "returning to the parent, through the exit code of the process, the     *)
(* number of copies of the file that were made" (lab3/README.md:12).       *)
ReportsMade == \A w \in Watcher : copped[w] # Nothing => copped[w] = made[w]

(* "after each noted modification of the file, the process creates a new   *)
(* process" (lab3/README.md:17): while zad3 sleeps, what it saw last is in *)
(* a backup.  A copy that failed is not made again.                        *)
NothingForgotten ==
  \A w \in Watcher :
    zad = 3 /\ mode = "cmd" /\ wpc[w] = "sleep" /\ modified[w] = lastTimeMod[w]
      /\ modified[w] < now - interval[w] => version[w] \in Archived(w)

(* The backups of two files of one name are kept: they are made at the     *)
(* first turn of both processes, most often in the same second.            *)
NamesakesKept ==
  mode = "prog" =>
    \A w \in Watcher : known[w] \subseteq Archived(w) \cup {lastFileContent[w]}
=============================================================================
