# TLA+ models of the operating-systems exercises

The repository holds ten sets of C programs, most of them about processes or threads
that share something: memory and a semaphore, queues, a socket, a pipe, a file, a
signal. This directory holds TLA+ models of these programs, TLC configurations that
check them on small instances, and proofs, checked by TLAPS, of the most important
guarantees for every size of the instance.

1. [The programs](#1-the-programs)
2. [Modules](#2-modules)
3. [The conveyor belt (lab7)](#3-the-conveyor-belt-lab7)
4. [The roller coaster (lab9)](#4-the-roller-coaster-lab9)
5. [The chat (lab6)](#5-the-chat-lab6)
6. [The cluster (lab10)](#6-the-cluster-lab10)
7. [The small programs](#7-the-small-programs)
8. [The runs](#8-the-runs)
9. [What is proved](#9-what-is-proved)
10. [Only model-checked; not modelled](#10-only-model-checked-not-modelled)
11. [Plan](#11-plan)

To check a model: `tlc -config SysVSafety.cfg MCConveyorSysV`. To check proofs: `tlapm
ConveyorSysV_proofs.tla`.

## 1. The programs

| program | state | operations | who shares it, how | hard | correct when |
|---|---|---|---|---|---|
| lab7 zad1: conveyor, System V (`trucker`, `loader`) | belt and counters in shared memory, one semaphore, the trucker's truck | put a parcel, take and move, empty the belt, create and remove the objects | one trucker and any number of loader processes; semop; SIGINT | mutual exclusion, counters against slots, shutdown, EINTR | at most K parcels and M mass, parcels loaded in order and none lost, everybody ends |
| lab7 zad2: conveyor, POSIX | as zad1, and `mode`, `loadersCount`, `loadersCountEndWord`, the length of the segments | as zad1, and counting the loaders out | as zad1; several invocations of `loader` | unguarded counters, a segment truncated by its users, a semaphore held during shutdown | as zad1, and the trucker ends after the loaders |
| lab9 zad1: roller coaster | queue and state of the passengers, the turn, three flags | board, press the button, ride, get out, end | a thread per passenger and per carriage; four mutexes, condition variables, unguarded variables | lost wakeups, stale flags | one carriage at the platform, in order; full rides; nobody starves; all threads end |
| lab6 zad1: chat, System V queues | table of users, groups, one queue for the server and one per client | INIT, STOP, LIST, ECHO, FRIENDS, ADD, DEL, 2ALL, 2FRIENDS, 2ONE, SHUTDOWN | server; a client is a sender and a catcher process | requests overtaking each other, STOP twice, slots given again, SIGINT at any point | the table, the groups and the ids agree; everybody who is told to shut down does |
| lab6 zad2: chat, POSIX queues | as zad1, with open queues in both directions | as zad1 | as zad1 | as zad1, and the closing of queues | as zad1 |
| lab10 zad1, zad2: compute cluster | table of clients, number of tasks; a client's message variable | register, log out, ping, remove, send task, receive result | three server threads; clients over sockets, with a worker per task | edge-triggered events, a removed client's slot, a message read after it was freed | the table is consistent, every task is answered once, every result is read, a dead client is removed |
| lab4 zad1: date printer | the flag `run`, the child | stop, go on, end | a process, its child, keys typed at the terminal | a signal between a test and `pause` | it prints if and only if it was asked to |
| lab4 zad2: file monitor | flags and the last content of each watcher | list, stop and start one or all, end | a process per file, signals | a signal between a test and `pause`, or in a `sleep` | no backup lost, nobody sleeps who was started |
| lab4 zad3: catcher and sender | counts of signals | send, count, send back, with or without a confirmation | two processes, signals | signals that coalesce | the counts agree |
| lab8 zad1: image filter | image, filter, result | filter a part of the columns | threads that write disjoint parts | the division into parts, the clamping of indices | every pixel computed, once |
| lab5 zad1: pipelines | lines, pipe ends, children | parse, fork, redirect, close, wait | an interpreter, its children, pipes | an end that stays open, a child whose `execvp` fails | a line after the other, nobody waits for ever |
| lab5 zad2: FIFO | the named pipe | open, write, read, close | one master, any number of slaves | the pipe forgets when nobody has it open | a line that is read is printed once |
| lab3 zad2, zad3: file watchers | last content and modification time | watch, copy from memory or with `cp`, report | a process per file, `cp` | seconds as names, exit status, limits | no backup lost, the report is right |
| lab2 zad2, lab3 zad1: directory walks | path, open directories | walk with `readdir` or `nftw`, compare dates, print, run `ls` | the walk of lab3 has a child per directory | relative paths, links | every matching file printed once |
| lab2 zad1: record sort in a file | a file of records | generate, sort, copy | none; the program may be killed | two writes for an exchange, sizes | a sorted permutation, a true copy |
| lab1: block array library | table of blocks, temporary file | create, search, remove | none; the program may be killed | indices, the name of the temporary file | an index names its block, no file is left or lost |

The `do_oddania` directories hold the copies of these programs that were handed in, and
lab9's `main_old.c` an earlier version that nothing builds.

How the parts interact: the labs are separate programs and never call each other. Inside
a lab, the interactions are those in the column "who shares it".

## 2. Modules

| module | what it is | uses |
|---|---|---|
| `Belt` | the belt: slots, parcels, `moveLine` | |
| `BeltFifo` | abstract specification: what the belt promises of the parcels | |
| `Conveyor` | what zad1 and zad2 of lab7 share: state, a loader's and the trucker's turn at the belt, properties, the refinement to `BeltFifo` | `Belt`, `BeltFifo` (INSTANCE) |
| `ConveyorSysV` | lab7 zad1: the processes, the semaphore, the life of the IPC objects | `Conveyor` |
| `ConveyorPosix` | lab7 zad2 | `Conveyor` |
| `RollerCoaster` | lab9 zad1 | |
| `ChatTable` | lab6: the table of users, the groups, the commands that change them | |
| `ChatServer` | lab6 zad1, over System V queues | `ChatTable` |
| `ChatPosix` | lab6 zad2, over POSIX queues | `ChatTable` |
| `CommandFile` | lab6: from typed lines and READ files to requests | |
| `ComputeCluster` | lab10 zad1: a server that is up, and its clients | `Sublists` |
| `ClusterStart` | lab10 zad1 and zad2: how servers and clients start and find each other | |
| `Words` | lab10: a client's counting threads | |
| `Signals` | lab4 zad3: pending signals | |
| `SignalsCount`, `SignalsAck` | lab4 zad3a, zad3b | `Signals` |
| `DatePrinter` | lab4 zad1, both programs | |
| `FileMonitor` | lab4 zad2 | |
| `Watchers` | lab3 zad2, zad3 | |
| `ListFile` | lab3 zad2, zad3, lab4 zad2: reading the list of files to watch | |
| `Walks` | lab2 zad2, lab3 zad1 | |
| `Pipelines`, `Fifo` | lab5 zad1, zad2 | |
| `ImageFilter` | lab8 zad1 | |
| `RecordSort` | lab2 zad1 | |
| `BlockTable` | lab1 | |
| `MCConveyorSysV`, `MCConveyorPosix`, `MCChatServer`, `MCChatPosix`, `MCComputeCluster` | values of constants for TLC | |
| `Labs` | the six small programs with signals, watched files or sockets, together, see [7](#7-the-small-programs) | `SignalsCount`, `SignalsAck`, `FileMonitor`, `Watchers`, `DatePrinter`, `ClusterStart` |
| `MCLabs` | all the small programs in one run | `Labs`, and the modules of the other nine |
| `Sublists` | the elements of a sequence that are in a set; sequences without repetition | |
| `Recursion` | induction over the numbers, least numbers, recursive functions, `Sublists`: lemmas | `Sublists` |
| `Conveyor_proofs`, `ConveyorSysV_proofs`, `ConveyorPosix_proofs`, `RollerCoaster_proofs`, `Chat_proofs`, `ComputeCluster_proofs`, `Labs_proofs` | theorems, see [9](#9-what-is-proved) | the module each is named after, `Recursion` |

Definitions have the names of the C functions and variables where there is one. Each
module also holds a few small operators whose comment begins with "Bug": they are what a
plausible mistake would make of the definition that follows, and each makes a property
of the module fail.

## 3. The conveyor belt (lab7)

`lab7/README.md` (in Polish) describes it: workers put parcels of their own mass on a
belt that carries at most K parcels and M units of mass; a truck at the end takes them
in the order of placement; a full truck is replaced; when the trucker ends it blocks the
belt, loads what is left and removes memory and semaphore.

**State.** `line`, `freePlaces`, `freeWeight` are `getLine` and the fields of
`LineParams`; `sem` is the semaphore's value and `ipc` the set of objects that exist;
`pc`, `endWork`, `iteration`, `truckPlacesCount`, `counter`, `end_i` are the processes'
locals. `placed`, `loaded`, `onTruck` record history. A parcel carries the number of its
placement where the code carries a time stamp that is printed but never compared.

**Actions.** One step is the code between two operations on the semaphore or on shared
state that is not guarded by it: `blockSem` and `releaseSem` are steps of their own; the
critical sections of loader (`PushParcel`, `NoPlace`) and trucker (`GetParcel`,
`MoveEmpty`) are one step each, which is sound because `SemInv` shows that only the
holder executes such code (and `SemInv` fails if the emptying loop does not take the
semaphore). The loop that empties the line has a step per access (`TruckerEndMove`,
`TruckerEndLoad`). `TruckerLeave` - a full truck leaves, and `endWork` is looked at - is
outside the semaphore, as in the code. SIGINT (`handleSIGINT`) may come at any time to
any process in `Interruptible`, sets `endWork`, and makes a sleeping `semop` or
`sem_wait` fail with EINTR, which the code takes for an error.

A `loader` started for n workers is n + 1 members of `Loader`: the parent runs the same
loop as the children. In `ConveyorPosix` an invocation opens the objects once for its
whole crew; `crew` says which loaders belong to which invocation and is chosen at the
start from `Crews`. What no semaphore guards is a step per access: an invocation reads
`len`, writes `loadersCount` and writes `loadersCountEndWord` in three steps
(`LoaderParams`, `NumberLoaders`, `ResetEndWord`), a loader counts itself out in two
(`LoaderEndRead`, `LoaderEndWrite`), and the trucker compares the two counters in two
(`TruckerReads`, `TruckerCompares`), in either order, which C leaves open.

**Abstract specification.** `BeltFifo` knows neither slots, masses, processes nor the
semaphore: a set of at most K numbered parcels, loaded oldest first, and a `Close` at
which the oldest may be lost. `Conveyor!FifoSpec` is the refinement: `onBelt` is the set
of numbers in occupied slots (`OnBeltNow`), `closed` is `Emptying`. That one parcel may
be lost is what the code does, not what its README says: see `NothingLost` below.

**What the models showed.** In both versions the belt keeps its promises while it is
served. The exceptions:

- `NothingLost` (run `sysv_lost`): `trucker.c:163` moves the line before it looks at the
  last slot; a parcel that lies there when the trucker stops is overwritten.
- `ShutdownCompletes` (run `posix_hangs`): the POSIX trucker takes the semaphore to
  empty the line, does not release it, and waits at `trucker.c:206` until the loaders
  have counted themselves out; a loader that waits in `sem_wait` never does. One loader
  is enough.

These formulas are violated too, by short scenarios; they have no run of their own:

- `TruckCapacity` (`Conveyor`): in the loop that empties the line `truckPlacesCount` is
  not incremented, so with K larger than what fits the truck is overloaded.
- `WithoutCForever`: `argc > 3 && ...` is the condition of the loader's loop, so that a
  loader without C ends at once; the README says it loops for ever.
- `NoLoadWhileLeaving` (`ConveyorSysV`): the semaphore is released before the full truck
  leaves, and a loader puts a parcel on the belt in between.
- `NothingLeftBehind`: a SIGINT that finds the trucker asleep in `semop` leaves all
  objects behind; and a loader that starts while the trucker ends creates the segments
  again with IPC_CREAT.
- `UnlinksAfterAll` (`ConveyorPosix`): at `trucker.c:206` the trucker can read
  `loadersCount`, still 0, before the only invocation writes 1; a loader of it ends and
  counts 1, the trucker reads that 1 and unlinks while the other loader runs. That is
  the exception in `UnlinksLast`, which says what is left of the comment: the trucker
  never unlinks before more processes have ended than it read the count to be.
- `CountsEveryLoader` (`ConveyorPosix`): `loadersCountEndWord++` is not guarded; two
  loaders that end together count as one, and the trucker waits for ever.
- `WaitsForEverybody`: a second invocation of `loader` overwrites `loadersCount` and
  resets `loadersCountEndWord`; the trucker then ends before the loaders of the first.
- `TruckerSurvives`: a loader that starts between the creation of the semaphore and the
  writing of `len` truncates the belt's segment to nothing; the trucker dies of SIGBUS.

The capacity X of the truck is counted in parcels, as the code does; the README speaks
of units of mass.

## 4. The roller coaster (lab9)

Carriages take turns at a platform; passengers get out, the next ones get in from a
queue, one presses the button, the carriage leaves. `RollerCoaster` has a program
counter per thread (`cpc`, `ppc`), and the steps are the pieces of code between two
accesses to something another thread can change: a mutex section is one step unless it
contains a wait; a wait is a step that releases the mutex, a state in which the thread
sleeps, and a step in which it tests its condition again. The variables that the code
reads and writes without a mutex (`buttonPresser`, `actualCarriageID`, `endedCarriage`)
are read and written in steps of their own. Where a broadcast is not under the mutex of
the wait (the turn at line 292, the end at line 328) the test and the falling asleep are
two steps (`CheckTurn` and `SleepTurn`, `CheckEntry` and `SleepEntry`), so that the
broadcast can fall in between.

`inside`, `rides`, `lastLeft` record history: the carriage a passenger has entered, how
many rides a passenger has had, the carriage that left last.

**What the model showed.** The safety half of `lab9/README.md` holds: `PlatformInv`,
`QueueInv`, `SafeRide`, `FairRides`, for every number of passengers, carriages, seats
and rides ([9](#9-what-is-proved)). `FairRides` is stated until the first carriage has
ended, because the passengers of a carriage that ends are put in the queue before those
of the next, whatever their number of rides. The liveness half does not hold.
`StuckOnlyAs` says that the threads can come to a standstill in three ways and no other,
each reachable:

- `LateAtButton` (run `roller_stuck`, `CarriagesFinish`): line 217 resets
  `buttonPresser` while a passenger of the ride before has not looked at it. That
  passenger waits for the button of the next ride; the carriage waits for the passenger
  to get out.
- `MissedTurn`: the carriage that leaves broadcasts between the next one's test and its
  wait.
- `MissedEnd`: the last carriage broadcasts between a passenger's test and its wait.
  `PassengersFinish` is the violated promise.

The other half of line 322 is that `actualCarriageID` is read again for the broadcast
after it was tested; a carriage woken in between may have moved it on, at the end to
`carriageCount`, which is outside the array. `WakeNext` has the second read; the
broadcast of a condition variable outside the array has no modelled effect.

Spurious wakeups are left out: every wait is in a loop that tests again, so they only
add stuttering - except at the passengers' two waits, where they would repair a missed
broadcast, which nobody can rely on.

## 5. The chat (lab6)

The server reads the requests of all clients from one queue with a negative type, that
is the lowest type first: STOP before LIST before FRIENDS before the rest. It answers
into a queue per client. The table of users, the groups and the commands that change
them are in `ChatTable`, which the servers of zad1 and zad2 have in common. A client is
two processes: the sender reads commands and sends them, the catcher prints what
arrives. `ChatServer` has the server's globals under their names, `serverQueue` and
`inbox` for the queues, and for each client where its main, its sender and its catcher
are.

A server step `Serve` is `msgrcv` and `executeCommand`; the answer is a step of its own
(`Reply`), since a SIGINT in between sends SHUTDOWN in front of it. Each command is an
operator (`Friends`, `Add`, `Del`, `To2All`, ..., `Stop`, `InitUser`) that stands for
the whole function. A message to a client is only its type: it decides whether and when
it is read. `responseType` survives from one command to the next as
`response.message_type` does. The rows of `friendsGroups` lie one after another as in
memory, because `addCMD` writes in front of a row.

**What the model showed.** `UsersInv`, `GroupInv` and `KnowsItsId` hold in every order
of INIT, STOP and commands, for every number of clients and size of the tables
([9](#9-what-is-proved)), and `ShutdownEnds` holds. The exceptions:

- `OwnStopOnly` (violated, no run): a typed STOP is sent at once and again by
  `endClient` a second later. If a new client was given the slot in between, the second
  STOP removes it.
- `Readable` (violated, no run): after a STOP of an unknown user `responseType` is 500,
  and 2ALL, 2FRIENDS and 2ONE, which send before the type is set, send 500, which no
  catcher reads (it reads up to 200). After a refused INIT it is -1 and nothing is sent.
- `FriendsReplaces` (violated, no run): a second FRIENDS of registered users leaves an
  empty group. `existInGroup` looks at the old size, and finds the id just written.
- `GroupInv` needs its hypotheses, `NoIdTwice` and `~stray`. The same id twice in one
  FRIENDS stays in the group
  twice (the old size is -1) and STOP removes it once, so the group goes on naming a
  user who has left. ADD without a FRIENDS before it starts at size -1 and writes its
  first id in front of the row, into the row of the user before (`stray`).
- A client whose first message is SHUTDOWN takes 30 for its id (`KnowsItsId` names the
  exception). Its requests then index the tables at -70; what happens depends on the
  layout, and the model ends there (`spc = "undefined"`).
- A line that is empty or begins with a blank, and READ without a file name, crash the
  sender: see `CommandFile` below.
- A client killed while it waits for the answer to INIT stays registered for ever, and
  the server never ends after SIGINT. A refused INIT gets no answer at all. When the
  last client leaves the server ends, without any SIGINT. After a SIGINT without clients
  it exits and leaves its queue behind.

**POSIX queues (zad2).** `ChatPosix` has the same table and commands, and what is
different underneath:

- a queue is read by descending priority, so STOP comes last: `StopFirst`, which
  `lab6/README.md:38` asks for, is violated (no run);
- every queue holds `MAX_MESSAGES`. A full one holds up the sender: each message that
  the server sends is a step (`Send`) with the rest kept in `outgoing`, and a client's
  `Submit` waits for room;
- `clientsQueueId` holds descriptors. `opened` says whose queue is behind each; a STOP
  does not close one, the SHUTDOWN after a SIGINT does, and `mq_open` then gives the
  number out again;
- a server that is interrupted without users exits in its handler and leaves its queue,
  with what is in it, to the next one (`Restart`).

`UsersAgree` holds: the count that ends the server agrees with the table, and no
descriptor stands in two slots although closed ones are left in the table. `Basis` is
what that rests on, and says of a server that was started after another that the
requests it finds do it no harm: its messages go to users of its own, and there is a
descriptor for whoever asks. Both are proved as well. `StuckOnlyAs`
says where the server can be held up for good, namely by a client that is gone or that
is itself waiting to send STOP; `Served` that apart from this nobody who could have been
registered or removed is overlooked. Violated without a run: `KnowsItsId`, since a
message of higher priority than the answer to INIT can be read in its place. Also seen
in the code: the result of `mq_open` is compared with 1 instead of -1, and a refused
INIT reads the slot in front of the table.

**What users type.** `CommandFile` is the client between the keyboard and the request:
`explode`, `executeCommand`, `executeFile`, `sender`. `SentRight` says that the requests
are those of the lines, in order, each with its own argument. It holds where no
delimiter is doubled. Violated without a run: `EveryLineSent` (`explode` gives up at an
empty item, so that an empty line hides the rest of the file) and `NothingAfterStop`
(the lines behind a STOP in a file are still sent; `ChatPosix` has this as
`ExecuteFile`).

## 6. The cluster (lab10)

The server's user types names of files; the server sends each text to a client, which
counts the words and sends the result back. `ComputeCluster` has the server's three
threads and the clients' two kinds:

- the main thread: `epoll_wait`, then for each event `accept`, `handleRequest` (read one
  message and handle it under the lock) or `SkipHangup`; the answer to REGISTER is sent
  after the lock is given back (`Reply`);
- `threadPing` (the loop that pings) and `Sweep` (the loop that removes), each under the
  lock;
- `threadInput`, which picks a client and sends the text, under the lock;
- a client's main thread: `Connect`, `Register`, `Receive`, `Clean`; its workers:
  `WorkerRead`, `WorkerSend`; Ctrl-C: `handleSIGINT`, `Exit`; a client that is killed:
  `Killed`.

A client makes one connection and registers once, so `clients[s].who` stands for the
name's memory and for the descriptor alike, and `freed` says whose name has been freed.
epoll is modelled by what the flags EPOLLIN | EPOLLET make it do: `ready` is its list, a
descriptor gets on it when something arrives, and `Poll` is the mask when it is
reported. A client that has gone is reported with EPOLLIN | EPOLLHUP = 17, which the
code skips, or, if it had not read everything, with EPOLLERR as well.

Where the code does what C leaves open, the model chooses: a comparison with a freed
name may say anything. Where nothing can be said any more, a name freed twice or while
it is in use, an access behind the array, a read that finds nothing, the model ends with
`spc = "undefined"`; a comparison with NULL ends it with SIGSEGV, writing to a closed
connection with SIGPIPE.

**What the model showed.** Until the server ends, `TableInv` and `KnownIsFound` hold:
removal leaves an entry of the moved client behind the count, but the used slots stay in
front, so that a registered name is always found before a NULL. `AnswersInv` holds, and
so does `ResultRead`, but only thanks to the pings: the server reads one message for
each event, and a result that arrives together with the answer to a ping is left until
the next ping is answered.

These formulas are violated; they have no run of their own:

- `EveryoneCanLeave`: removal frees the name in the slot behind the last one. After the
  first removal that is the leftover entry, so that the second removal, if nobody has
  registered in between, frees the name of a registered client or one that has been
  freed. Two clients that register and leave are enough.
- `SurvivesPing`: no status is ever set back to 0, so `Sweep` never removes anybody; and
  the ping to a client that has gone is a write to a closed connection, whose SIGPIPE
  ends the server. `README.md` of lab10 wants such clients removed. A LOGOUT does not
  always help: the client exits right after it, and if the server sees both at once it
  skips the event.
- `IdleFirst`: `free` is set to 1 and never to 0, so every task goes to the first slot,
  where lab10's README wants a client without work.
- `OwnLogoutOnly`: a client whose name was refused goes on, and its LOGOUT removes the
  namesake.
- `ResultRight`: the worker says `create = 1` when it has copied the pointer; by the
  time it reads the text, the main thread can have freed it or have read the next
  message into the variable.
- `AllAccepted`: of two connections that come together only one is accepted, until a
  third comes.

The number of a task (`response.code`) is never sent back: `taskId` is `message->type`.

**Starting.** `ClusterStart` has `main` of the server and the client up to the loop, for
both exercises, with several servers on one host and in one directory: the port, which
stays in TIME_WAIT after a kill, the name in the file system, which stays for ever, and
the server's `unlink`. `Reachable`: a server that is up holds its port, and its name
unless it is the one every server unlinks; it is proved too. Violated without a run:

- `ServedByServer`: a client with an internet socket binds the server's own address;
  when the server is there it fails, when it is not the client connects to itself.
- `Listens`: every server unlinks `../zad1/mleko.tmp`, also one in use by another
  server.
- `FailsForAlive`: a server that was killed leaves its name, and the next one cannot
  bind it.

With datagrams (zad2) `listen` fails, so that the server always ends there with 2, and
nothing behind it is ever reached. That is why `ComputeCluster` models stream sockets
only.

**Counting.** `Words` has a client's workers, which share `LIST_SIZE` and read the
message where the main thread has it. `WordsRight`: each worker counts the words of the
text it has read, whatever the others do. Violated without a run: `CountsRight`
(`pushUniq` does not compare the word with the last node, so that a word can have two
nodes; and the number of different words that is sent is `LIST_SIZE`, which all workers
add to) and `OwnText` (the next message may be there before the worker has read its
own).

## 7. The small programs

Each of these modules models one program, or two programs that do the same. They have
small state spaces, and are put together so that one run checks them and one module
proves what is proved: a behaviour chooses a program in its initial state. `Labs` has
the six programs whose properties are proved, with the variables of each under their own
names; `MCLabs` adds the other nine, whose variables are called `v1`, `v2`, ... The
properties are conjunctions of the modules' own, by subject: `SignalsRight`,
`BackupsRight`, `PausesRight` and `Reachable` in `Labs`, `PipesRight`, `ThreadsRight`
and `FilesRight` in `MCLabs`. Formulas below that are said to be violated have no run;
each is what the repository says, and a short scenario refutes it.

**Signals (lab4).** `Signals` keeps the pending signals of a process: an ordinary signal
is pending once at most, real-time signals are counted. In
zad3 handlers are steps, since they block what else may come; in `FileMonitor` they are
not.

- `SignalsCount` (zad3a). `Counted`, checked and proved: with real-time signals all are
  counted; otherwise at least one in each direction, and the last is not overtaken.
  Violated: `NoMoreThanSent` (`lab4/README.md:28`): the catcher does not reset its count
  between senders.
- `SignalsAck` (zad3b). `Agree`, checked and proved: one signal at most is under way,
  nobody waits for ever, and all four counts end equal. Violated: `EndsAlways`, with
  limit 0, for which nothing is ever sent.
- `DatePrinter` (zad1). `PrintsAsAsked`, checked and proved: a program that waits prints
  if and only if the last CTRL+Z asked for it, unless the key came between the test of
  `run` and `pause`. A key reaches the child too. Until `execl` (`Exec`) the child has
  the handlers of the program and is not stopped: its handler sends SIGTSTP to the whole
  group, its parent and itself among them, and the two go on answering each other. The
  model ends where that begins (`EarlySIGTSTP`). Violated: `NoneLeft`
  (`lab4/README.md:12`: a child is stopped where it should be ended), `ChildAlone`
  (before the first fork, `kill` with the initial `pid` reaches every process of the
  user).
- `FileMonitor` (zad2), both properties checked and proved. `archiwum` is one directory
  for all processes, and a backup has the name of the file without its directories and
  the second. `KeptAll`: what was read is in a backup or is the last content, if no
  other file of the list has the same name (`Alone`), the interval is not 0 and no
  signal cuts a sleep short: in the same second a backup is written over the other.
  A handler masks its own signal only, so that the other one may come between the two
  flags that it sets. `stage` and `depth` are the stack of handlers: `Deliver` enters
  those of all new signals, the one on top takes the next step (`First`, `Last`).
  `SleepsOnlyStopped`: a process pauses only while it is stopped; `missed` marks a
  signal between test and `pause`, and `torn` a STOP and a START of which one was
  handled inside the other. Violated: `EndEnds` (`lab4/README.md:22`), by a signal that
  is missed; `StartWakes`, by a START between the two stores of the handler of STOP,
  after which both flags are clear and the process pauses; `NamesakesKept`, by two files
  of one name.

**File watchers (lab3 zad2, zad3).** `Watchers` has both ways of copying and the report
through the exit status. Contents are versions; the archive is one for all processes,
its names are the files' and the second, as above. Checked and proved: `KeptAll`, for
the copies from memory of a file that is `Alone` in its name (with an interval of 0 a
division ends the process); `Reports` says what the count is worth: the backups made and
those that failed, in zad3 with `cp` one less than the copies made, counting a `cp` that
its limit killed (its `WEXITSTATUS` is 0), and only the lower 8 bits of either, as it is
an exit status. Violated: `ReportsMade` (`lab3/README.md:12`), `NothingForgotten` (`:17`:
a copy that failed is not made again) and `NamesakesKept` (two files of one name are
both saved in the first turn, in the same second). Also seen: zad3's
README names seconds, then megabytes, but the code reads memory in the fourth and
processor time, times 1024 squared, in the fifth argument; `backupName` is 11 bytes
short with `cp`. `ListFile` is the parser of the list of files that three programs have
in common. `ListRight`: an item per line, right as long as the lines before are well
formed. Violated: `EveryEntryWatched`: a line without a blank takes the next one with
it. Also seen, and left out: an empty list is read before its beginning, and paths whose
length leaves no room in the allocated chunk are not terminated.

**Pipes (lab5).** `Pipelines` is the interpreter with its children and every descriptor
of a pipe. `LineByLine`: programs run only while their interpreter starts their line or
waits for it, and somebody can always go on. Violated: `StartedOnce`: a child whose
`execvp` fails goes on as an interpreter and starts the rest of the line again. `Fifo`:
`HeardAreKept`: a line written while the master reads is printed once. Violated:
`AllKept` (`lab5/README.md:20`): what is in the FIFO is gone when the last process
closes it while the master sleeps.

**Image filter (lab8).** `ImageFilter`: loading, the division, each pixel, joining;
weights are tenths. `Filtered`: the saved image is what `filterForPixel` gives, whatever
the order of the threads. Violated: `AllColumns` (`lab8/README.md:29`: the width is
divided without rounding up), `ReadsInside` (indices are kept from below 0, not from
beyond the width and the height, so that pixels of the next row and memory behind the
image are read). Also seen: an image without a comment line is refused, and the
program's own output cannot be read again.

**Files (lab2, lab3 zad1, lab1).**

- `RecordSort`. `SortsRight`: a permutation, in order, records lost only by a kill
  between the two writes of an exchange. `CopiesRight`. Violated: `Unsigned`
  (`lab2/README.md:13`: bytes are compared as signed), `CopiesExactly` (`:14`: the last
  block is written in full, and with system calls what the destination held behind it
  stays).
- `Walks`. `WalkRight`: without links every matching entry is printed once and listed
  once. Violated: `FindsItsWay` (`lab2/README.md:38`, relative paths), `NoLinksFollowed`
  (`:38`), `AllPrinted` (`:31`: `main1` goes down only into directories that match
  themselves). Left out: the printed texts, `abs_to_rel`, and the output of a child that
  is lost when `exec` drops a buffer.
- `BlockTable`. `BlocksKept`: every search has one block, in order, freed once;
  `FilesKept`: no file of the user is touched and no temporary file left, except those
  that are `Exposed`: a file that is there but cannot be read counts as absent and is
  removed; and as the output goes to `./` followed by the name, a name `/t` makes the
  search create `./t`, or append to the user's, which is neither looked for nor removed
  (the program then ends with 103). Violated: `AllFilesKept`, by just these, and
  `RemovesAsAsked` (`lab1/README.md:35`: the index that is removed is the number of the
  removal, not its argument). Also seen: `clear` leaks the last block, `find() < 0` is
  never true, `main_dl` loads the library from an absolute path.

## 8. The runs

| run | module, cfg | asks | bounds | states |
|---|---|---|---|---|
| `sysv_safety` | `MCConveyorSysV`, `SysVSafety` | the inductive invariant; places, mass, truck; order of loading, refinement of `BeltFifo`; loaders finish or stop, parcels leave the belt | two loaders of mass 1 and 2, two parcels each, K = 3, M = 4, truck of 2, SIGINT to everybody | 62,941 |
| `sysv_lost` | `SysVLost` | `NothingLost`, violated | trucker stops after one parcel | |
| `posix_safety` | `MCConveyorPosix`, `PosixSafety` | the inductive invariant; semaphore, belt until truncated, unlinking; refinement until truncated | two loaders in one or two invocations, K = 2, M = 3, trucker stops after 3 parcels, SIGINT to everybody | 236,506 |
| `posix_hangs` | `PosixHangs` | `ShutdownCompletes`, violated under fairness | one loader | |
| `roller_safety` | `RollerCoaster`, `RollerSafety` | the inductive invariant; platform, queue, safe rides, fair rides; the three ways to stand still | 5 passengers, 2 carriages of 2 seats, 2 rides | 176,394 |
| `roller_stuck` | `RollerStuck` | `CarriagesFinish`, violated under fairness | 2 passengers, 1 carriage, 2 rides | |
| `chat_safety` | `MCChatServer`, `ChatSafety` | users, groups, ids, and `Basis`, which the proofs need besides | 3 clients, 2 slots, 2 commands FRIENDS, ADD or 2FRIENDS in all, no SIGINT | 1,536,146 |
| `chat_live` | `ChatLive` | `ShutdownEnds` | 2 clients, 1 command (2ALL, 2ONE or DEL), 1 SIGINT | 221,224 |
| `chat_posix` | `MCChatPosix`, `PosixChat` | `UsersAgree`, `Basis`, `StuckOnlyAs`, `Served` | 3 clients, 2 slots, queues of 2, 1 command, 1 SIGINT, 1 restart; FRIENDS, DEL, 2FRIENDS, 2ONE | 1,897,701 |
| `cluster_table` | `MCComputeCluster`, `ClusterTable` | table, no NULL on the way to a registered name | 3 clients with 2 names, 3 slots, 2 of them interrupted or killed, no tasks | 1,792,264 |
| `cluster_tasks` | `ClusterTasks` | `AnswersInv`, `ResultRead` | 2 clients that stay, 2 tasks | 168,288 |
| `labs` | `MCLabs`, `Labs` | the properties of section 7, and `Reachable`, `WordsRight`, `SentRight` | see below | 1,045,297 |

Why the bounds are enough:

- lab7: two loaders of different mass and a trucker make every pair of processes that
  can meet at the semaphore. Four parcels on three slots fill the belt, let it move
  while full, and fill the truck more than once; M is less than K of the heavier
  parcels, so that places and mass are each the tighter limit in some state. Both
  versions stop the trucker by SIGINT at any point, `PosixSafety` by the parcel counter
  as well.
- lab9: 5 passengers on 4 seats leave one in the queue while both carriages are full;
  two rides make the first, a repeated and the last tour differ.
- lab6: three clients on two slots are the least in which a slot is given again while
  the first owner's requests are still under way. Two commands make a second FRIENDS, an
  ADD with and without a FRIENDS before it, and a 2FRIENDS to a group happen. Clients
  are interchangeable, so `ChatSafety` and `PosixChat` use symmetry; `ChatLive` does
  not. Queues of two messages are full whenever two clients write together, which three
  clients do. Of single commands some do the same as others: `ChatLive` takes 2ALL, 2ONE
  and DEL of an empty group for LIST and ECHO, `PosixChat` FRIENDS for ADD, 2ONE for
  2ALL and DEL of an empty group for LIST and ECHO; the models contain them all.
- lab10: two of three clients leave and the third registers before, between or after, so
  that a slot is left over, given again and left over again. Two with the same name make
  a refusal and a name that is registered again. For the results, two tasks and a ping
  can arrive together at one client and be answered together. The clients with the same
  name are interchangeable (`ClusterTable` uses that symmetry).

- the small programs: limits up to 3 for the signals, so that signals coalesce and the
  two senders of zad3a leave a count; two modifications of one file,
  or three commands, or two files of one name or of two that are written once, with a
  file that is not there and one SIGINT, for the watchers; two slaves of two lines; a line file each for programs that write, copy,
  end at once and are not there; an image of 3 x 2 with filters of one, nine and a
  half-given four numbers, one or two threads, so that the width leaves a rest in
  blocks; files of up to four records with bytes above 127 and an incomplete end; all
  command lines of up to four phrases for the block table; trees of three levels with a
  hidden name and links that go up and nowhere; two servers and a client; every list of
  up to seven characters for the parser.

Named bounds: `Cycles` (parcels per loader), `ForceStop`, `tourCount`, `MaxCommands`,
`MaxSIGINT`, `MaxRestarts`, `MaxTasks`, `MaxDeaths`, `MaxUnread` and `LongSleep` (a ping
comes when the last one has been dealt with: the ping thread sleeps for twelve seconds
in all; with `LongSleep` also the main thread has nothing left to do), `MaxTime`,
`MaxWrites`, `MaxFailures`, `MaxPrints`, `MaxPrinted`, `MaxProcess`, `MaxTyped`, and the
sets `Loader`, `Invocation`, `Client`, `Slaves`, `Servers`. `ForceStop`, `Cycles` and
`tourCount` are arguments of the programs.

Deadlock is checked for System V (processes that have all ended are an explicit
stuttering step, `Terminated`). It is not checked for the POSIX conveyor, where a
process that dies with the semaphore stops the rest; for the roller coaster, where
`StuckOnlyAs` says precisely what may happen; for the chat, where everybody may be
waiting for input; for the cluster, whose model ends with the server; and for the small
programs, which end (where waiting for ever would be wrong, `Agree`, `LineByLine`,
`StuckOnlyAs` and `Served` say so).

**Fairness.** Conveyor: weak fairness for every process that has been started, since the
kernel schedules them, and strong fairness for taking the semaphore: waiters of a System
V semaphore and of a futex are woken in the order of arrival. Starting a program is not
fair. Roller coaster: strong fairness of each thread's steps, which covers a mutex that
is free again and again. It is more than a mutex promises, so the violation does not
depend on an unfair scheduler. Chat: weak fairness of the server's loop and of what the
clients' processes do by themselves; what users type, and signals, need not happen.
Cluster: weak fairness of each thread that has something to do; the pings go on for
ever, connecting and typing need not happen.

## 9. What is proved

The theorems hold for every value of the constants that the named assumptions admit:

- `BeltAssumption`, `ConveyorAssumption`: at least one slot, positive capacities and
  masses, finitely many loaders; any cycles and any set of interruptible processes.
  `PosixAssumption`: each loader belongs to one invocation.
- `RollerCoasterAssumption`: what `main.c:66-85` demands of its arguments: at least one
  passenger, carriage, seat and ride, and enough passengers to fill every carriage.
- `TableAssumption`, `ChatAssumption`: a table of 1 to 99 slots, since the ids of users
  begin at 100 and those of catchers' messages end at 200; rows of at least one place;
  finitely many clients; lists of ids of the table; any of the commands. For zad2
  `ChatPosix!PosixAssumption` says the same of the clients and commands, and that a
  queue has room for at least one message; any number of restarts.
- `ClusterAssumption`: finitely many clients, each with a name, and different ones may
  have the same; at least one slot; any numbers of tasks and of deaths.
- `LabsAssumption`: limits, times and intervals that are numbers, any lists of names for
  the watchers, a name that servers remove, and servers that are not clients.

| theorem | says |
|---|---|
| `ConveyorSysV_proofs!TypeCorrect`, `!MutualExclusion` | `[]TypeOK`; `[](SemInv /\ Control)`: the semaphore is exclusive and exists while held |
| `!Invariance` | `[]IInv` |
| `!BeltNeverOverfull`, `!BeltNeverTooHeavy` | `[]PlacesInv`, `[]WeightInv`: at most K parcels of at most M in all, and the two counters agree with the slots |
| `!BeltKeepsOrder`, `!TruckNeverOverfull` | `[]OrderInv`, `[]TruckInv` |
| `!ImplementsFifo`, `!LoadsInOrder` | `Spec => FifoSpec`: the System V programs implement `BeltFifo`; `[]LoadedInOrder` |
| `ConveyorPosix_proofs!TypeCorrect`, `!MutualExclusion` | types; `[]Control`: the semaphore, and who has touched which object when |
| `!Invariance` | `[]IInv` |
| `!SemaphoreGuards`, `!BeltIsKept` | `[]SemInv`; `[]BeltKept`: until the segment is truncated places, mass, order and truck are right, for any invocations |
| `!UnlinkedLast` | `[]UnlinksLast`: the trucker never unlinks before more processes have ended than it read `loadersCount` to be; with one invocation, before all have ended, unless it read the count too early |
| `!ImplementsFifo` | until it is truncated the belt is the queue of `BeltFifo` |
| `RollerCoaster_proofs!OneAtThePlatform`, `!NobodyLost` | `[]PlatformInv`; `[]QueueInv`: a passenger is in the queue or in one carriage, never both |
| `!RidesAreSafe` | `[]SafeRide`: nobody gets in before all got out, full rides, no seat twice |
| `!Invariance`, `!RidesAreFair` | `[]IInv`; `[]FairRides`: the numbers of rides of two passengers differ by one at most |
| `Chat_proofs!Invariance` | `[](UsersInv /\ KnowsItsId /\ Basis)`, which is `IInv` |
| `!UsersRight` | `[]UsersInv`: active users, table and next free id agree, no client has two slots |
| `!GroupsRight` | `[]GroupInv`: registered users other than the owner, each once |
| `!IdsRight` | `[]KnowsItsId` |
| `!PosixUsersRight` | zad2: `[](UsersAgree /\ Posix!Basis)`: the count, the table and the descriptors agree, over restarts of the server |
| `Conveyor_proofs!LoadsEveryParcelInOrder` | what `BeltFifo` means: loading in order, every parcel accounted for |
| `ComputeCluster_proofs!ClusterTableIsRight` | `[]TableInv`: while the server is up, the first `clientCount` slots hold clients with different names that are in use, and the used slots come first |
| `!ClusterFindsKnown` | `KnownIsFound`: no message under a registered name makes the server compare with a name that is NULL |
| `!ClusterAnswers` | `[]AnswersInv`: tasks under way, results under way and results printed are together no more than the tasks sent |
| `Labs_proofs!LabsInvariance` | `[]IInv`: each of the six programs of `Labs` keeps its inductive invariant |
| `!SignalsCounted` | `[]SignalsRight` (lab4 zad3): what the counts at the end are worth; with confirmations nothing is lost, nobody waits for ever and all counts are equal |
| `!BackupsKept` | `[]BackupsRight` (lab3, lab4 zad2): no backup that was made from memory is lost of a file whose name no other has, and what the report is worth |
| `!PausesAsAsked` | `[]PausesRight` (lab4 zad1, zad2): who pauses was stopped last, but for a signal between test and pause, two handlers one inside the other, and a key that meets a child before its script |
| `!ServersReachable` | `[]Reachable` (lab10): a server that is up has its port and its name |

The inductive invariants of the large programs are checked by the runs of their modules
as well (`ChatSafety` names its three parts `UsersInv`, `KnowsItsId` and `Basis`), so
that TLC has found nothing against them on a small instance. That of `Labs` is not named
in `Labs.cfg`, which has the properties that follow from it; `INVARIANT IInv` may be
added there.

**The conveyor, System V.** `IInv` is `TypeOK /\ SemInv /\ Control /\ BeltInv`. None of
the properties is inductive alone. `SemInv` needs `Control`: that the semaphore is still
there when it is released follows from the trucker being the only one to remove it, and
from where it is then. `PlacesInv` needs `BootInv`: before the trucker has set up the
belt, nobody can have pushed, because `freePlaces` is 0. `OrderInv` needs `StampInv`: a
new parcel is younger than every parcel on the belt because those carry numbers up to
`placed`. `TruckInv` needs `TruckControl`: a truck is full only between the taking of
its last parcel and its departure. The mass on the belt is a recursive function over the
slots (`MassBefore`); `WeightInv` is proved by induction over them.

`Conveyor_proofs` has the lemmas about the belt: what `moveLine` and `ClearEnd` do to
the occupied slots, their number and their mass, that `Push`, `Take`, `MoveEmpty` and
`SetUpBelt` preserve `BeltInv`, and that each of them is a step of `BeltFifo`
(`PushIsPut`, `TakeIsLoad`, `EndMoveIsClose`, `EndLoadIsLoad`) or leaves it unchanged.
They do not mention processes, and both versions use them. `OldestAtTheEnd` is the heart
of the refinement: because of `OrderInv`, a parcel in the last slot is the oldest.
`LoadsInOrder` combines `ImplementsFifo` with the theorem about `BeltFifo`.

**The conveyor, POSIX.** Here a process may be inside while the objects it holds are not
those the others see, so `IInv` says more of who has seen what: before the trucker has
created the objects nobody has come further than to miss them (`Untouched`); the segment
loses its slots only by a loader that came too early (`SegmentKept`); a loader knows the
size of the line exactly after it has read the parameters (`Sizes`); the belt is emptied
with the semaphore taken and nobody gets it again (`EmptiedAlone`). `TruncatedStays`
lets every property of the belt be given up at once. `UnlinksLast` rests on `CountInv`:
neither the count in memory, nor a value that a loader has read and not yet written
back, nor what the trucker has in its register exceeds the number of loaders that have
ended; and with one invocation `loadersCount`, in memory or read, is right or still 0.

**The roller coaster.** The proof has two storeys. The lower one, `SeatsInv`, is about
where everybody is. `RoundInv` says which carriage has the turn: `endedCarriage` of them
are over, `lastLeft` is the one before, and the carriages' tours differ by one at most,
the step being at the turn (`Round`). `Seating` ties the places of a carriage's thread to
the length of its list, the seats it has and those it has told to get out; `InsideInv`
says that those in the list are inside, except the one who was told to enter and has not
done so (`Awaited`), or has left and is still in the list; `OnePlaceEach` that no
passenger is in two lists. That the queue is not empty when a seat is free
(`SomebodyWaits`) is a counting argument: the other lists have at most the seats of
their carriages, and `RollerCoasterAssumption` has more passengers than that.

The upper storey, `OrderInv`, is about rides. At any moment the passengers have an order
of riding: the queue, then the carriages as they will come to the platform, and in each
of them the list. Nobody has had more rides than those behind him, and none of these two
more than he. Each step either keeps the order or moves a passenger from its front to
its end while his count rises by one. The numbers of two passengers then differ by one
at most. The order is given up when the first carriage has ended (see section 4).

**The chat.** `IInv` is `UsersInv /\ KnowsItsId /\ Basis`; `GroupInv` follows. `Basis` has:

- `RowsInv`: in the array itself, the first `groupsSize[u]` elements of the row of `u`
  are registered users other than `u`, each once, and users who never were have no group.
  The rows are one array, so the lemmas begin with products and quotients (`CellFacts`):
  rows do not overlap, and what a command writes behind its group stays in the row.
  `CollectFacts` and `DeleteFacts` say what `friendsCMD`, `addCMD`, `dellCMD` and
  `stopCMD` leave in a row, by induction over the list of ids.
- `AsksOnce`: a client that has not been answered has at most one INIT under way, stands
  in no slot, and has heard nothing. This is why an INIT never gives a client a second
  slot and why no message can be in front of its answer but a SHUTDOWN
  (`FirstMessage`), on which `KnowsItsId` rests.
- `Serving`, `Requests`, `OnlyRunning`: the server runs while it serves, requests have
  the arguments their commands need, and only a client that runs has processes.

`Whole` in `Chat_proofs` is the same invariant, sorted into what it says of the
server, of the queues and of each client. A step of the server is shown to keep the
server's part and only to write behind what clients have not read (`Reaches`); a step of
a client leaves the server and all other clients as they are (`OthersStay`).

The table of zad2 is the same, so the lemmas about `ChatTable` (`EnterTable`,
`StopTable`, `StopRows`, ...) are stated for any set of queues that may stand in it
(`TableOf`): clients in zad1, descriptors in zad2. The last part of `Chat_proofs` has
`ChatPosix` as an instance on the same variables, shows that the commands of both are
the same formulas (`PosixUsers`, `PosixGroups`, `PosixDel`), and proves `PosixWhole`,
which is `Basis` sorted by server, descriptors, requests and clients. Two of its parts
are not obvious:

- `initCMD` takes the lowest free descriptor, and there must be one. `PosixOpened` says
  that no client's queue is opened twice, `PosixAsks` that the client that asks is
  behind none yet; so if all descriptors were taken, as many as there are clients would
  go to one client less, and two would be the same (`DescriptorFree`, by the pigeonhole
  principle of the library).
- a descriptor that SHUTDOWN closed stays in the table and is given out again, and the
  table must not hold it twice. `userQueueExist` refuses the client in that case;
  `PosixInitStep` shows that it looks at every slot that matters, since used slots are
  in front of `nextClientID` (`UsersAgree`).

`PosixPlace` keeps to registered users what is still to be sent: during the sends no
command runs, and a SIGINT in between adds only users of the table.

**The cluster.** `TableInv` is inductive. Its parts were found by trying to prove
`TableRight` alone:

- `Add` needs that the client it writes is not in the table and its name has not been
  freed: `RegistersOnce`, which follows a REGISTER from the moment it is sent. That in
  turn needs `NoWorkBefore`: no worker sends a result in front of it.
- `logoutAction` searches only slots that are free, and `Sweep` removes who has not
  answered: `AllFree` says that neither condition ever excludes anybody.
- what lies behind the count matters because `Removed` leaves the entry of the moved
  client there and frees it the next time: it repeats a registered client, or it has been
  freed. `RemoveStep` is the longest case: the slot that is emptied, the last one that
  takes its place, and the one behind it, where each two may be the same.
- `accept` takes the head of a list that must not be empty, and `Reply` writes to
  the client of the event under way: `Reported`, for which a descriptor must be at most
  once on epoll's list. `Those`, the reported part of that list, is a recursive
  function; `ThoseFacts` in `Recursion` says what it keeps.

`KnownIsFound` follows, without an invariant of its own: `NoCrash` says that a search
cannot end at a NULL if some slot in use has the name.

`AnswersInv` is a sum over all clients, and the library has no facts about sums of
functions. `SumExists` shows by induction over the subsets of a finite set that
there is such a function and only one, whatever the order in which it takes the elements;
`TotalChange` that changing one summand changes the sum by as much. `LoadOf` is the work of
one client; each step of a client leaves it or lessens it (`ClientLoads`), a
task raises it by one together with `operationCount` (`InputBalanced`), and a result
that is read leaves it as `printed` is raised (`RequestBalanced`).

**The small programs.** `Labs!IInv` says that the program which runs keeps the invariant
of its own module, and a step is one of that program (`StepOfProgram`), so the rest is a
proof for each of the six:

- `SignalsAck`. `Agree` is not inductive, because it says nothing of the counts before
  the end. The invariant lists the phases: nobody sends (`Quiet`), the sender's signals
  go forth, the catcher's go back, it is over; in each it says which one signal is
  pending and how the six counts stand to each other. Each handler leads from one phase
  to the next.
- `SignalsCount` has phases as well (`Before`, `Sending`, `Total`, `Returning`,
  `Reported`), but any number of signals may be under way. What counts is a balance:
  with real-time signals those counted and those pending are those sent; with the
  others they are no more, and one at least. `Pending` says that the signal which ends
  the transmission is pending once or not at all; `CountTakes` that it is delivered only
  when no other is pending, which is where the order of delivery comes in.
- `FileMonitor` and `Watchers` from memory. A backup is written over another only if
  both are made in the same second. `FreeFrom` is the second from which no name is in
  use: now, the next second after one was written, or the time a sleep ends; an
  interval that is not 0 keeps it ahead of the last backup. Then every content that was
  read is in a backup, except the last (`Kept`). The directory is shared, so a step of
  one process has to leave the backups of another alone: it does if the names differ,
  which is why `Kept` is claimed of those that are `Alone` in their name (`Copies`,
  `FromMemory`).
- `Watchers` with `cp`. In zad2 the copies counted are those made, those still being
  made and those that failed (`Forked`); since copies under way have different names,
  their number is a cardinality, which grows by one with each fork. In zad3 there is one
  at a time and the count is exact (`WaitedFor`).
- `FileMonitor` and `DatePrinter`, pauses. `Flags` and `AsAsked` carry what a process
  knew when it went to pause over the steps in between; a signal that comes there is
  marked by `missed`. In `FileMonitor` the two flags pass through values no command asks
  for while handlers run. `Between` says that a handler which has set one flag and was
  not interrupted is above the other one on the stack; so when the last handler ends,
  one of the flags is set unless one was handled inside the other (`Handled`).
- `ClusterStart`. `Keeps` follows a server from `bind` on: the port is its own until it
  ends or is killed, and so is the name, unless it is the one that is unlinked. All that
  another server or a client does leaves ports and names with an owner alone.

**Induction.** The theorems of the library about induction take an operator as a
parameter and cannot be used. `Recursion` proves instead, from the existence of a least
number in a set, what is needed here: induction over a set of numbers (`Induction`), that
a function defined by recursion over the numbers exists and has its equations
(`RecursionExists`), and that a property which each step of such a function keeps holds
of its result (`StepsStay`).

## 10. Only model-checked; not modelled

Only model-checked:

- liveness, `StuckOnlyAs` of the roller coaster, and `StuckOnlyAs` and `Served` of the
  POSIX chat, which are about ENABLED: all outside TLAPS here;
- what the functions of `CommandFile`, `ListFile`, `Words` and `RecordSort` compute:
  they are run against their references by TLC only;
- `PipesRight`: the interpreter's part, `LineByLine`, is about ENABLED too;
- what the walks, the block table and the image filter produce (`FilesRight`,
  `ThreadsRight`): results of loops over data, compared with a reference.

Left out of the models:

- lab7: a second start of the trucker on the objects of the first; output; failures of
  system calls other than those named. The three calls with which a System V loader gets
  its memory are one step (`LoaderMemory`).
- lab9: spurious wakeups; broadcasts outside the array.
- lab6: texts, other than lists of ids and what `CommandFile` has of them; full queues
  of System V; a SIGINT to a client that is already ending; ids outside the table typed
  by users; a second server on the queue of the first; the moment between the removal of
  a client's queue and the killing of its processes; the slot in front of the table that
  zad2 reads after a refused INIT; in `ChatServer` the lines of a READ file behind a
  STOP, which are still sent (`ChatPosix` and `CommandFile` have them).
- lab10: SIGINT to a server with clients; messages of two writers that mix, since a
  message is written and read in one step; empty texts.
- small programs: texts that are printed, the measurement of time, failures of system
  calls where no property depends on them, memory that is leaked or overrun by texts of
  particular lengths (named above); what follows when a key reaches a child between fork
  and `execl` (lab4 zad1), and a SIGINT that interrupts the handler of
  SIGTSTP there. Two processes that write the same backup at once are taken as one after
  the other; a `cp` that fails or is killed leaves the archive as it was; a child of
  lab3 whose `execl` of `cp` fails, and a watcher of zad3 that its own limit kills, are
  left out.

Not modelled: lab9's `main_old.c`, which no makefile builds, and the archived copies in
`do_oddania`.

## 11. Plan

1. *Done:* every program of the repository has its module; both conveyors, the roller
   coaster, both chats, the cluster and the six programs of `Labs` have proofs of all
   their safety properties except `StuckOnlyAs` and `Served`.
2. Proofs: `HeardAreKept` of the FIFO, and the image filter, whose threads write
   disjoint blocks.
3. Models: a second server and SIGINT in the middle of an end for lab6, SIGINT to the
   server for lab10.
