-------------------------------- MODULE Labs --------------------------------
(***************************************************************************)
(* The small programs that handle signals, watch files or meet at sockets, *)
(* together in one specification.  They have nothing to do with each       *)
(* other: a behaviour is one of one program, chosen in Init.  The          *)
(* variables have the names they have in the module of the program, and    *)
(* the programs that have the same kind of state share them; those that    *)
(* the program does not have stay 0.                                       *)
(***************************************************************************)
EXTENDS Integers

CONSTANTS
  Limits, MaxSenders,                                                  \* lab4 zad3
  FileNames,                                                           \* lab4 zad2 and lab3
  watchingFileCount, Missing, Basenames, interval, MonitorTime, MonitorWrites, MaxCommands,
  MaxSIGINT,                                                           \* lab4 zad2
  howWatchingFile, Lists, Times, WatchTime, WatchWrites, MaxFailures,  \* lab3
  MaxSIGTSTP, MaxPrints,                                               \* lab4 zad1
  Servers, Clients, Ports, Names, mleko, None, TimeWait                \* lab10

VARIABLES
  lab,                                                                 \* the program
  mode, spc, signalsLimit, receivedSignalsCount, toSender, cpc, sigCount, toCatcher,
  senders, sent, sentBack,
  sendSignalCount, receivedConfirmationCount, senderMode,
  sendSigCount, confirmationSigCount, receiverMode,
  fileName, now, version, modified, wpc, lastFileContent, lastTimeMod, howCopies, wake,
  archiwum, waiting, known,
  writes, reciveSIGUSR1, reciveSIGUSR2, endProgram, pending, stage, depth, ppc, copied, commands,
  interrupts, woken, missed, torn,
  zad, way, monitoringTime, intervals, limit, failures, turn, exitStatus, cp, copped, made, killed,
  program, pc, run, pid, child, typed, prints, missedKey, everybody,
  kind, socketInternet, socketLocal, server, port, localSocketName, running, client, peer

signalVars == <<mode, spc, signalsLimit, receivedSignalsCount, toSender, cpc, sigCount, toCatcher>>
countVars == <<senders, sent, sentBack>>
ackVars == <<sendSignalCount, receivedConfirmationCount, senderMode, sendSigCount,
             confirmationSigCount, receiverMode>>
fileVars == <<fileName, now, version, modified, wpc, lastFileContent, lastTimeMod, howCopies, wake,
              archiwum, waiting, known>>
monitorVars == <<writes, reciveSIGUSR1, reciveSIGUSR2, endProgram, pending, stage, depth, ppc,
                 copied, commands, interrupts, woken, missed, torn>>
watchVars == <<zad, way, monitoringTime, intervals, limit, failures, turn, exitStatus, cp,
               copped, made, killed>>
dateVars == <<program, pc, run, pid, child, typed, prints, missedKey, everybody>>
startVars == <<kind, socketInternet, socketLocal, server, port, localSocketName, running,
               client, peer>>
labVars == <<lab, signalVars, countVars, ackVars, fileVars, monitorVars, watchVars, dateVars,
             startVars>>

Count == INSTANCE SignalsCount
Ack == INSTANCE SignalsAck
Monitor == INSTANCE FileMonitor WITH MaxTime <- MonitorTime, MaxWrites <- MonitorWrites
Watch == INSTANCE Watchers WITH MaxTime <- WatchTime, MaxWrites <- WatchWrites,
                                mode <- way, interval <- intervals
Printer == INSTANCE DatePrinter WITH missed <- missedKey
Start == INSTANCE ClusterStart

ASSUME LabsAssumption ==
  /\ Count!CountAssumption
  /\ Ack!AckAssumption
  /\ Monitor!MonitorAssumption
  /\ Watch!WatchersAssumption
  /\ Printer!DateAssumption
  /\ Start!StartAssumption

-----------------------------------------------------------------------------
NoSignals == /\ mode = 0 /\ spc = 0 /\ signalsLimit = 0 /\ receivedSignalsCount = 0
             /\ toSender = 0 /\ cpc = 0 /\ sigCount = 0 /\ toCatcher = 0
NoCount == senders = 0 /\ sent = 0 /\ sentBack = 0
NoAck == /\ sendSignalCount = 0 /\ receivedConfirmationCount = 0 /\ senderMode = 0
         /\ sendSigCount = 0 /\ confirmationSigCount = 0 /\ receiverMode = 0
NoFiles == /\ fileName = 0 /\ now = 0 /\ version = 0 /\ modified = 0 /\ wpc = 0 /\ lastFileContent = 0
           /\ lastTimeMod = 0 /\ howCopies = 0 /\ wake = 0 /\ archiwum = 0 /\ waiting = 0
           /\ known = 0
NoMonitor == /\ writes = 0 /\ reciveSIGUSR1 = 0 /\ reciveSIGUSR2 = 0 /\ endProgram = 0
             /\ pending = 0 /\ ppc = 0 /\ copied = 0 /\ commands = 0 /\ interrupts = 0
             /\ stage = 0 /\ depth = 0 /\ woken = 0 /\ missed = 0 /\ torn = 0
NoWatch == /\ zad = 0 /\ way = 0 /\ monitoringTime = 0 /\ intervals = 0 /\ limit = 0
           /\ failures = 0 /\ turn = 0 /\ exitStatus = 0 /\ cp = 0 /\ copped = 0 /\ made = 0
           /\ killed = 0
NoDate == /\ program = 0 /\ pc = 0 /\ run = 0 /\ pid = 0 /\ child = 0 /\ typed = 0
          /\ prints = 0 /\ missedKey = 0 /\ everybody = 0
NoStart == /\ kind = 0 /\ socketInternet = 0 /\ socketLocal = 0 /\ server = 0 /\ port = 0
           /\ localSocketName = 0 /\ running = 0 /\ client = 0 /\ peer = 0

Init ==
  \/ /\ lab = "SignalsCount" /\ Count!Init
     /\ NoAck /\ NoFiles /\ NoMonitor /\ NoWatch /\ NoDate /\ NoStart
  \/ /\ lab = "SignalsAck" /\ Ack!Init
     /\ NoCount /\ NoFiles /\ NoMonitor /\ NoWatch /\ NoDate /\ NoStart
  \/ /\ lab = "FileMonitor" /\ Monitor!Init
     /\ NoSignals /\ NoCount /\ NoAck /\ NoWatch /\ NoDate /\ NoStart
  \/ /\ lab = "Watchers" /\ Watch!Init
     /\ NoSignals /\ NoCount /\ NoAck /\ NoMonitor /\ NoDate /\ NoStart
  \/ /\ lab = "DatePrinter" /\ Printer!Init
     /\ NoSignals /\ NoCount /\ NoAck /\ NoFiles /\ NoMonitor /\ NoWatch /\ NoStart
  \/ /\ lab = "ClusterStart" /\ Start!Init
     /\ NoSignals /\ NoCount /\ NoAck /\ NoFiles /\ NoMonitor /\ NoWatch /\ NoDate

Next ==
  /\ UNCHANGED lab
  /\ \/ /\ lab = "SignalsCount" /\ Count!Next
        /\ UNCHANGED <<ackVars, fileVars, monitorVars, watchVars, dateVars, startVars>>
     \/ /\ lab = "SignalsAck" /\ Ack!Next
        /\ UNCHANGED <<countVars, fileVars, monitorVars, watchVars, dateVars, startVars>>
     \/ /\ lab = "FileMonitor" /\ Monitor!Next
        /\ UNCHANGED <<signalVars, countVars, ackVars, watchVars, dateVars, startVars>>
     \/ /\ lab = "Watchers" /\ Watch!Next
        /\ UNCHANGED <<signalVars, countVars, ackVars, monitorVars, dateVars, startVars>>
     \/ /\ lab = "DatePrinter" /\ Printer!Next
        /\ UNCHANGED <<signalVars, countVars, ackVars, fileVars, monitorVars, watchVars, startVars>>
     \/ /\ lab = "ClusterStart" /\ Start!Next
        /\ UNCHANGED <<signalVars, countVars, ackVars, fileVars, monitorVars, watchVars, dateVars>>

Spec == Init /\ [][Next]_labVars

-----------------------------------------------------------------------------
(* Properties: those of the modules, for the program that runs. *)

(* The sender and the catcher of signals end with counts that agree as far *)
(* as the way of sending allows (lab4 zad3a); with a confirmation of each  *)
(* no signal is lost and nobody waits for ever (lab4 zad3b).               *)
SignalsRight == /\ lab = "SignalsCount" => Count!Counted
                /\ lab = "SignalsAck" => Ack!Agree

(* No backup is lost of a file whose name no other file of the list has:   *)
(* what its watcher has read of it is in a backup, unless it is what it    *)
(* read last.  And the report of lab3 says how many backups there are, but *)
(* for failed copies, those of a cp that was killed and the first one of   *)
(* zad3 (lab3 zad2 and zad3, lab4 zad2).                                   *)
BackupsRight == /\ lab = "FileMonitor" => Monitor!KeptAll
                /\ lab = "Watchers" => Watch!KeptAll /\ Watch!Reports

(* Whoever pauses has been stopped last, by a command or a key (lab4 zad1  *)
(* and zad2), except for a signal between test and pause, two handlers one *)
(* inside the other, and a key that meets a child before its script.       *)
PausesRight == /\ lab = "FileMonitor" => Monitor!SleepsOnlyStopped
               /\ lab = "DatePrinter" => Printer!PrintsAsAsked

(* A server of the cluster that is up has its port and its name (lab10).   *)
Reachable == lab = "ClusterStart" => Start!Reachable

(* Why they hold: the inductive invariants of the modules. *)
IInv == /\ lab = "SignalsCount" => Count!IInv
        /\ lab = "SignalsAck" => Ack!IInv
        /\ lab = "FileMonitor" => Monitor!Copies /\ Monitor!Flags
        /\ lab = "Watchers" => Watch!IInv
        /\ lab = "DatePrinter" => Printer!IInv
        /\ lab = "ClusterStart" => Start!IInv
=============================================================================
