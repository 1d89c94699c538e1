--------------------------- MODULE ComputeCluster ---------------------------
(***************************************************************************)
(* lab10 zad1: a server hands out tasks, texts whose words are counted, to *)
(* the clients that registered with it.  In the server, the main thread    *)
(* waits for events with an edge-triggered epoll and handles one message   *)
(* for each, a second thread pings the registered clients, and a third     *)
(* sends the tasks that the user types.  In a client, the main thread      *)
(* answers pings and starts a thread for each task.                        *)
(*                                                                         *)
(* A client makes one connection, through the local socket, and registers  *)
(* once, so the client also stands for its socket and for the block of     *)
(* memory with the copy of its name.  Messages are written and read as a   *)
(* whole.  Nothing happens after the end of the server.                    *)
(***************************************************************************)
EXTENDS Sublists, FiniteSets, FiniteSetsExt, Functions

CONSTANTS Client,
          NULL,
          Listener,           \* socketLocalFd
          NameOf,             \* the name each client was started with
          MAX_CLIENTS,
          MaxTasks,           \* bound: the tasks that the user types
          MaxDeaths,          \* bound: clients that are interrupted or killed
          MaxUnread,          \* bound: no ping while that many messages of a client are unread
          LongSleep           \* bound: no ping while the main thread has something to do

Slot == 0 .. MAX_CLIENTS - 1

ASSUME ClusterAssumption ==
  /\ IsFiniteSet(Client) /\ NULL \notin Client /\ Listener \notin Client
  /\ DOMAIN NameOf = Client
  /\ MAX_CLIENTS \in Nat \ {0}
  /\ MaxTasks \in Nat /\ MaxDeaths \in Nat /\ MaxUnread \in Nat
  /\ LongSleep \in BOOLEAN

REGISTER_ACTION == 1
WORK_ACTION == 2
LOGOUT_ACTION == 3
PING_ACTION == 4

VARIABLES
  clients,          \* clients[s].who stands for the name and the fd
  clientCount,
  freed,            \* the clients whose name has been freed
  operationCount,
  spc,              \* where the main thread is, or how the server ended
  events,           \* what epoll_wait returned and is still to be handled
  ready,            \* epoll's list of descriptors with something new
  backlog,          \* connections to be accepted
  accepted,
  ping,             \* what the ping thread does next
  outbox,           \* from each client to the server
  inbox,            \* from the server to each client
  socket,           \* the client's end of the connection
  pc,               \* the main thread of each client
  text,             \* message.data of the main thread, which the workers read, too
  started,          \* workers that have not read it yet
  results,          \* what the others are about to send
  printed           \* history: results that the server printed

table == <<clients, clientCount, freed>>
epoll == <<events, ready, backlog, accepted>>
server == <<table, operationCount, spc, epoll, ping, printed>>
worker == <<text, started, results>>
client == <<socket, pc, worker>>
vars == <<server, outbox, inbox, client>>

Unused == [who |-> NULL, free |-> 0, status |-> 0]

(* The id of a task, the code of the message, also stands for its text.    *)
(* In a result it is the task whose words were counted; the taskId that    *)
(* the code puts there is message->type, the same number for all tasks.    *)
Message(type, id) == [type |-> type, id |-> id]
NoId == -1
Garbage == -2                 \* read from freed memory
Empty == -3                   \* no words, dataLen is 0

Init ==
  /\ clients = [s \in Slot |-> Unused] /\ clientCount = 0 /\ freed = {}
  /\ operationCount = 0 /\ spc = "wait" /\ ping = "ping" /\ printed = 0
  /\ events = <<>> /\ ready = <<>> /\ backlog = <<>> /\ accepted = {}
  /\ outbox = [c \in Client |-> <<>>] /\ inbox = [c \in Client |-> <<>>]
  /\ socket = [c \in Client |-> "open"] /\ pc = [c \in Client |-> "new"]
  /\ text = [c \in Client |-> Empty] /\ started = [c \in Client |-> 0]
  /\ results = [c \in Client |-> <<>>]

Up == spc \in {"wait", "serve", "reply"}

Registered == {clients[s].who : s \in 0 .. clientCount - 1} \ {NULL}

-----------------------------------------------------------------------------
(* epoll.  A descriptor is put on the list whenever something arrives, and *)
(* is reported once, with what it has at that moment.                      *)

Trigger(fd) == IF \E i \in DOMAIN ready : ready[i] = fd THEN ready ELSE Append(ready, fd)

EPOLLIN == 1
EPOLLIN_HUP == 17             \* the client has closed the connection
EPOLLIN_ERR_HUP == 25         \* and had not read everything

Poll(fd) ==
  IF fd = Listener THEN IF backlog # <<>> THEN EPOLLIN ELSE 0
  ELSE IF socket[fd] = "closed" THEN EPOLLIN_HUP
  ELSE IF socket[fd] = "reset" THEN EPOLLIN_ERR_HUP
  ELSE IF outbox[fd] # <<>> THEN EPOLLIN ELSE 0

epoll_wait ==
  /\ spc = "wait" /\ ready # <<>>
  /\ LET found == Those(ready, {fd \in Client \union {Listener} : Poll(fd) # 0})
         n == Min({Len(found), MAX_CLIENTS})
     IN /\ events' = [i \in 1 .. n |-> [fd |-> found[i], events |-> Poll(found[i])]]
        /\ ready' = SubSeq(found, n + 1, Len(found))
        /\ spc' = IF n = 0 THEN "wait" ELSE "serve"
  /\ UNCHANGED <<table, operationCount, backlog, accepted, ping, printed, outbox, inbox,
                 client>>

-----------------------------------------------------------------------------
(* The server's table of clients.  Comparing with a name that was freed    *)
(* may say anything, comparing with one that is NULL ends the server.      *)

Used(s) == clients[s].who # NULL
Equal(s, name) == /\ Used(s) /\ clients[s].who \notin freed
                  /\ NameOf[clients[s].who] = name
MayEqual(s, name) == Equal(s, name) \/ (Used(s) /\ clients[s].who \in freed)

(* What the search for a name, with `free' in frees, can end with: a slot, *)
(* -1 where no slot has the name, or Crash where an unused slot comes      *)
(* before.                                                                 *)
Crash == -2
Search(name, frees) ==
  LET Reaches(s) == \A t \in 0 .. s - 1 :
                      Used(t) /\ ~(Equal(t, name) /\ clients[t].free \in frees)
  IN {s \in Slot : Reaches(s) /\ MayEqual(s, name) /\ clients[s].free \in frees}
       \union {i \in {-1} : Reaches(MAX_CLIENTS)}
       \union {i \in {Crash} : \E s \in Slot : Reaches(s) /\ ~Used(s)}

(* Bug: the slot is cleared and nobody takes it. *)
LeavesHole(t, s) ==
  [clients |-> [t.clients EXCEPT ![s] = Unused], count |-> t.count - 1,
   freed |-> t.freed \union {t.clients[s].who}, bad |-> t.bad]

(* The table t without the client in slot s: the last one takes its slot,  *)
(* and the name in the slot behind the last one's is freed.                *)
Removed(t, s) ==
  LET n == IF t.count > 0 THEN t.count - 1 ELSE 0
      moved == [t.clients EXCEPT ![s] = t.clients[n]]
      behind == IF n + 1 \in Slot THEN moved[n + 1].who ELSE NULL
      gone == t.freed \union {t.clients[s].who}
  IN [clients |-> moved, count |-> n, freed |-> gone \union ({behind} \ {NULL}),
      bad |-> \/ t.bad
              \/ t.clients[s].who \in t.freed \/ behind \in gone     \* freed twice
              \/ n + 1 \notin Slot \/ t.count = 0                    \* what lies there?
              \/ \E i \in 0 .. n - 1 : moved[i].who = behind]        \* still in use

Table == [clients |-> clients, count |-> clientCount, freed |-> freed, bad |-> FALSE]

(* The new table; a bad one is the end of what can be said. *)
Becomes(t, next) ==
  IF t.bad THEN spc' = "undefined" /\ UNCHANGED table
  ELSE clients' = t.clients /\ clientCount' = t.count /\ freed' = t.freed /\ spc' = next

-----------------------------------------------------------------------------
(* Handling a message of client c.  Each action is the whole handler;      *)
(* `next' is where the main thread goes on.                                *)

TakenName(c) == \E s \in Slot : Equal(s, NameOf[c])

(* The answer is sent in a step of its own, when the lock has been given   *)
(* back.  A table that is full is written beyond its end.                  *)
Refuse(c) ==
  /\ TakenName(c) \/ \E s \in Slot : Used(s) /\ clients[s].who \in freed
  /\ spc' = "reply"
  /\ UNCHANGED table

(* Bug: the count is increased before the client is written. *)
AddsBehind(c) ==
  /\ ~TakenName(c)
  /\ IF clientCount + 1 \in Slot
       THEN /\ clients' = [clients EXCEPT ![clientCount + 1] =
                            [who |-> c, free |-> 1, status |-> 1]]
            /\ clientCount' = clientCount + 1
            /\ spc' = "reply"
       ELSE spc' = "undefined" /\ UNCHANGED <<clients, clientCount>>
  /\ UNCHANGED freed

Add(c) ==
  /\ ~TakenName(c)
  /\ IF clientCount \in Slot
       THEN /\ clients' = [clients EXCEPT ![clientCount] = [who |-> c, free |-> 1, status |-> 1]]
            /\ clientCount' = clientCount + 1
            /\ spc' = "reply"
       ELSE spc' = "undefined" /\ UNCHANGED <<clients, clientCount>>
  /\ UNCHANGED freed

registerAction(c) == (Refuse(c) \/ Add(c)) /\ UNCHANGED printed

Ends(clientId, next) == IF clientId = Crash THEN "SIGSEGV" ELSE next

(* A result without words is not looked at. *)
workAction(c, id, next) ==
  \/ /\ id = Empty
     /\ spc' = next
     /\ UNCHANGED <<table, printed>>
  \/ /\ id # Empty
     /\ \E clientId \in Search(NameOf[c], {1}) :
          /\ clients' = IF clientId \in Slot THEN [clients EXCEPT ![clientId].free = 1]
                                             ELSE clients
          /\ printed' = IF clientId \in Slot THEN printed + 1 ELSE printed
          /\ spc' = Ends(clientId, next)
     /\ UNCHANGED <<clientCount, freed>>

logoutAction(c, next) ==
  /\ \E clientId \in Search(NameOf[c], {1}) :
       IF clientId \in Slot THEN Becomes(Removed(Table, clientId), next)
       ELSE spc' = Ends(clientId, next) /\ UNCHANGED table
  /\ UNCHANGED printed

(* Without the lock. *)
pingAction(c, next) ==
  /\ \E clientId \in Search(NameOf[c], {0, 1}) :
       /\ clients' = IF clientId \in Slot THEN [clients EXCEPT ![clientId].status = 1]
                                          ELSE clients
       /\ spc' = Ends(clientId, next)
  /\ UNCHANGED <<clientCount, freed, printed>>

-----------------------------------------------------------------------------
(* The main thread. *)

Event == Head(events)
AfterEvent == IF Len(events) = 1 THEN "wait" ELSE "serve"

(* One connection, however many there are. *)
accept ==
  /\ spc = "serve" /\ Event.fd = Listener
  /\ LET c == Head(backlog) IN
     /\ backlog' = Tail(backlog)
     /\ accepted' = accepted \union {c}
     /\ ready' = IF Poll(c) # 0 THEN Trigger(c) ELSE ready
  /\ events' = Tail(events)
  /\ spc' = AfterEvent
  /\ UNCHANGED <<table, operationCount, ping, printed, outbox, inbox, client>>

getMessage(c) == outbox[c] # <<>> /\ outbox' = [outbox EXCEPT ![c] = Tail(@)]

(* One message for each event, however many there are.  Where there is     *)
(* none, the fields of the message keep what the stack held before.        *)
handleRequest ==
  /\ spc = "serve" /\ Event.fd # Listener /\ Event.events # EPOLLIN_HUP
  /\ LET c == Event.fd IN
     \/ /\ outbox[c] = <<>>
        /\ spc' = "undefined"
        /\ UNCHANGED <<table, printed, events, outbox>>
     \/ /\ getMessage(c)
        /\ LET m == Head(outbox[c]) IN
           \/ /\ m.type = REGISTER_ACTION
              /\ registerAction(c)
              /\ UNCHANGED events
           \/ /\ \/ m.type = WORK_ACTION /\ workAction(c, m.id, AfterEvent)
                 \/ m.type = LOGOUT_ACTION /\ logoutAction(c, AfterEvent)
                 \/ m.type = PING_ACTION /\ pingAction(c, AfterEvent)
              /\ events' = Tail(events)
  /\ UNCHANGED <<operationCount, ready, backlog, accepted, ping, inbox, client>>

(* A client that hung up: whatever it has sent before is not read. *)
SkipHangup ==
  /\ spc = "serve" /\ Event.events = EPOLLIN_HUP
  /\ events' = Tail(events)
  /\ spc' = AfterEvent
  /\ UNCHANGED <<table, operationCount, ready, backlog, accepted, ping, printed, outbox,
                 inbox, client>>

(* Writing to a client that has closed its end is a SIGPIPE. *)
Send(receivers, m, next) ==
  IF \E c \in receivers : socket[c] # "open"
    THEN spc' = "SIGPIPE" /\ UNCHANGED inbox
    ELSE /\ inbox' = [c \in Client |-> IF c \in receivers THEN Append(inbox[c], m)
                                                          ELSE inbox[c]]
         /\ spc' = next

Reply ==
  /\ spc = "reply"
  /\ Send({Event.fd}, Message(REGISTER_ACTION, NoId), AfterEvent)
  /\ events' = Tail(events)
  /\ UNCHANGED <<table, operationCount, ready, backlog, accepted, ping, printed, outbox,
                 client>>

-----------------------------------------------------------------------------
(* The other threads.  Each holds the lock over the whole of its loop. *)

(* It sleeps ten seconds before it pings again. *)
threadPing ==
  /\ ping = "ping" /\ (LongSleep => spc = "wait" /\ ready = <<>>)
  /\ \A c \in Registered : inbox[c] = <<>> /\ Len(outbox[c]) < MaxUnread
  /\ Send(Registered, Message(PING_ACTION, NoId), spc)
  /\ ping' = "sweep"
  /\ UNCHANGED <<table, operationCount, epoll, printed, outbox, client>>

(* Bug: the thread does not go on. *)
PingsOnce ==
  /\ ping = "sweep" /\ ping' = "ended"
  /\ UNCHANGED <<table, spc, operationCount, epoll, printed, outbox, inbox, client>>

(* Who has not answered is removed; but nothing sets a status back to 0. *)
Sweep ==
  /\ ping = "sweep"
  /\ LET upTo[i \in 0 .. MAX_CLIENTS] ==
           IF i = 0 THEN Table
           ELSE LET t == upTo[i - 1]
                    silent == t.clients[i - 1].who # NULL /\ t.clients[i - 1].status = 0
                IN IF silent /\ ~t.bad THEN Removed(t, i - 1) ELSE t
     IN Becomes(upTo[MAX_CLIENTS], spc)
  /\ ping' = "ping"
  /\ UNCHANGED <<operationCount, epoll, printed, outbox, inbox, client>>

(* The first slot with a free client, which is the first slot that was     *)
(* ever used, or else slot 0.  With no client, fd 0 is the terminal.       *)
Chosen ==
  LET candidates == {s \in Slot : Used(s) /\ clients[s].free = 1} IN
  IF candidates = {} THEN 0 ELSE CHOOSE s \in candidates : \A t \in candidates : s <= t

(* Bug: the search does not stop at the first free client. *)
SendsToAll ==
  /\ operationCount < MaxTasks
  /\ operationCount' = operationCount + 1
  /\ Send(Registered, Message(WORK_ACTION, operationCount), spc)
  /\ UNCHANGED <<table, epoll, ping, printed, outbox, client>>

threadInput ==
  /\ operationCount < MaxTasks
  /\ operationCount' = operationCount + 1
  /\ Send({clients[Chosen].who} \ {NULL}, Message(WORK_ACTION, operationCount), spc)
  /\ UNCHANGED <<table, epoll, ping, printed, outbox, client>>

-----------------------------------------------------------------------------
(* A client. *)

ToServer(c, m) ==
  /\ outbox' = [outbox EXCEPT ![c] = Append(@, m)]
  /\ ready' = IF c \in accepted THEN Trigger(c) ELSE ready

Elsewhere == UNCHANGED <<table, operationCount, spc, events, accepted, ping, printed>>

Connect(c) ==
  /\ pc[c] = "new"
  /\ pc' = [pc EXCEPT ![c] = "connected"]
  /\ backlog' = Append(backlog, c)
  /\ ready' = Trigger(Listener)
  /\ Elsewhere /\ UNCHANGED <<outbox, inbox, socket, worker>>

Register(c) ==
  /\ pc[c] = "connected"
  /\ pc' = [pc EXCEPT ![c] = "running"]
  /\ ToServer(c, Message(REGISTER_ACTION, NoId))
  /\ Elsewhere /\ UNCHANGED <<backlog, inbox, socket, worker>>

(* A ping is answered, the answer to REGISTER is ignored, even a refusal,  *)
(* and for a task the thread waits until a worker has started.             *)
Receive(c) ==
  /\ pc[c] = "running" /\ inbox[c] # <<>>
  /\ LET m == Head(inbox[c]) IN
     /\ text' = [text EXCEPT ![c] = IF m.type = WORK_ACTION THEN m.id ELSE Empty]
     /\ \/ /\ m.type = WORK_ACTION
           /\ started' = [started EXCEPT ![c] = @ + 1]
           /\ pc' = [pc EXCEPT ![c] = "cleaning"]
           /\ UNCHANGED <<outbox, ready>>
        \/ /\ m.type = PING_ACTION
           /\ ToServer(c, Message(PING_ACTION, NoId))
           /\ UNCHANGED <<pc, started>>
        \/ /\ m.type = REGISTER_ACTION
           /\ UNCHANGED <<pc, started, outbox, ready>>
  /\ inbox' = [inbox EXCEPT ![c] = Tail(@)]
  /\ Elsewhere /\ UNCHANGED <<backlog, socket, results>>

(* The text is freed, whether the worker has read it or not. *)
Clean(c) ==
  /\ pc[c] = "cleaning"
  /\ text' = [text EXCEPT ![c] = Garbage]
  /\ pc' = [pc EXCEPT ![c] = "running"]
  /\ Elsewhere
  /\ UNCHANGED <<ready, backlog, outbox, inbox, socket, started, results>>

(* The worker reads the main thread's variable, whatever is there by then.               *)
WorkerRead(c) ==
  /\ started[c] > 0
  /\ started' = [started EXCEPT ![c] = @ - 1]
  /\ results' = [results EXCEPT ![c] = Append(@, text[c])]
  /\ Elsewhere
  /\ UNCHANGED <<ready, backlog, outbox, inbox, socket, pc, text>>

WorkerSend(c) ==
  /\ \E i \in DOMAIN results[c] :
       /\ ToServer(c, Message(WORK_ACTION, results[c][i]))
       /\ results' = [results EXCEPT ![c] = SubSeq(@, 1, i - 1) \o SubSeq(@, i + 1, Len(@))]
  /\ Elsewhere /\ UNCHANGED <<backlog, inbox, socket, pc, text, started>>

Leaving == Cardinality({c \in Client : pc[c] \in {"exiting", "ended"}})

(* Ctrl-C.  The server is not told before there is a connection. *)
handleSIGINT(c) ==
  /\ pc[c] \in {"connected", "running", "cleaning"} /\ Leaving < MaxDeaths
  /\ ToServer(c, Message(LOGOUT_ACTION, NoId))
  /\ pc' = [pc EXCEPT ![c] = "exiting"]
  /\ Elsewhere /\ UNCHANGED <<backlog, inbox, socket, worker>>

Close(c) ==
  /\ socket' = [socket EXCEPT ![c] = IF inbox[c] = <<>> THEN "closed" ELSE "reset"]
  /\ pc' = [pc EXCEPT ![c] = "ended"]
  /\ inbox' = [inbox EXCEPT ![c] = <<>>]
  /\ started' = [started EXCEPT ![c] = 0] /\ results' = [results EXCEPT ![c] = <<>>]
  /\ ready' = IF c \in accepted THEN Trigger(c) ELSE ready
  /\ Elsewhere /\ UNCHANGED <<backlog, outbox, text>>

Exit(c) == pc[c] = "exiting" /\ Close(c)

(* A client that is killed says nothing. *)
Killed(c) ==
  /\ pc[c] \in {"connected", "running", "cleaning"} /\ Leaving < MaxDeaths
  /\ Close(c)

-----------------------------------------------------------------------------

MainStep == epoll_wait \/ accept \/ handleRequest \/ SkipHangup \/ Reply
PingStep == threadPing \/ Sweep
ClientStep(c) == Register(c) \/ Receive(c) \/ Clean(c) \/ WorkerRead(c) \/ WorkerSend(c) \/ Exit(c)
Environment(c) == Connect(c) \/ handleSIGINT(c) \/ Killed(c)

Next == Up /\ (\/ MainStep \/ PingStep \/ threadInput
               \/ \E c \in Client : ClientStep(c) \/ Environment(c))

Spec == Init /\ [][Next]_vars

(* No thread of the server or of a client is held up for ever; the user    *)
(* need not type, and clients need not start or leave.                     *)
FairSpec == /\ Spec
            /\ WF_vars(Up /\ MainStep) /\ WF_vars(Up /\ PingStep)
            /\ \A c \in Client : /\ WF_vars(Up /\ (Register(c) \/ Receive(c) \/ Clean(c)))
                                 /\ WF_vars(Up /\ WorkerRead(c)) /\ WF_vars(Up /\ WorkerSend(c))
                                 /\ WF_vars(Up /\ Exit(c))

-----------------------------------------------------------------------------
(* Properties. *)

Plain == [type : {REGISTER_ACTION, LOGOUT_ACTION, PING_ACTION}, id : {NoId}]
Task == 0 .. MaxTasks - 1
Result == Task \union {Garbage, Empty}

(* The variables have their types. *)
TypeOK ==
  /\ clients \in [Slot -> [who : Client \union {NULL}, free : 0 .. 1, status : 0 .. 1]]
  /\ clientCount \in 0 .. MAX_CLIENTS /\ freed \subseteq Client
  /\ operationCount \in 0 .. MaxTasks
  /\ spc \in {"wait", "serve", "reply", "undefined", "SIGSEGV", "SIGPIPE"}
  /\ events \in Seq([fd : Client \union {Listener}, events : {1, 17, 25}])
  /\ ready \in Seq(Client \union {Listener})
  /\ backlog \in Seq(Client) /\ accepted \subseteq Client
  /\ ping \in {"ping", "sweep"}
  /\ outbox \in [Client -> Seq(Plain \union [type : {WORK_ACTION}, id : Result])]
  /\ inbox \in [Client -> Seq(Plain \union [type : {WORK_ACTION}, id : Task])]
  /\ socket \in [Client -> {"open", "closed", "reset"}]
  /\ pc \in [Client -> {"new", "connected", "running", "cleaning", "exiting", "ended"}]
  /\ text \in [Client -> Result]
  /\ started \in [Client -> Nat] /\ results \in [Client -> Seq(Result)]
  /\ Leaving <= MaxDeaths /\ printed \in Nat

(* The first clientCount slots hold registered clients whose names are in  *)
(* use and differ; the used slots come first; and a slot behind the count  *)
(* that is used repeats a registered client or one whose name was freed.   *)
TableRight ==
  /\ \A s \in 0 .. clientCount - 1 : Used(s)
  /\ \A s, t \in 0 .. clientCount - 1 :
       NameOf[clients[s].who] = NameOf[clients[t].who] => s = t
  /\ Registered \intersect freed = {}
  /\ \A s \in Slot : Used(s) => \A t \in 0 .. s : Used(t)
  /\ \A s \in Slot : Used(s) => clients[s].who \in Registered \union freed

(* Whoever is in the table counts as free and as having answered.          *)
AllFree == \A s \in Slot : Used(s) => clients[s].free = 1 /\ clients[s].status = 1

(* A client registers at most once, with its first message, before it is   *)
(* in the table and before its name is freed.                              *)
RegistersOnce ==
  \A c \in Client :
    /\ pc[c] \in {"new", "connected"} => outbox[c] = <<>> /\ c \notin Registered \union freed
    /\ \A i \in DOMAIN outbox[c] :
         outbox[c][i].type = REGISTER_ACTION => i = 1 /\ c \notin Registered \union freed

(* No worker is started before that. *)
NoWorkBefore ==
  \A c \in Client : pc[c] \in {"new", "connected"} => started[c] = 0 /\ results[c] = <<>>

(* The main thread has an event as long as it serves; a descriptor is on a *)
(* list at most once, so that a connection that is reported is there.      *)
Reported ==
  /\ spc \in {"serve", "reply"} => events # <<>>
  /\ Once(ready) /\ Once([i \in DOMAIN events |-> events[i].fd])
  /\ \A i \in DOMAIN events : events[i].fd = Listener => backlog # <<>>

(* registerAction and logoutAction keep the table right, as long as the    *)
(* server has not ended, whoever registers and leaves in whatever order.   *)
TableInv == TypeOK /\ NoWorkBefore /\ (Up => TableRight /\ AllFree /\ RegistersOnce /\ Reported)

(* A message with a registered name never makes the server compare with a  *)
(* name that is NULL: workAction, logoutAction and pingAction do not look  *)
(* for the end of the table, and rely on finding the name before it.       *)
KnownIsFound ==
  [][\A c \in Client :
       /\ spc = "serve" /\ Event.fd = c
       /\ NameOf[c] \in {NameOf[d] : d \in Registered}
       => spc' # "SIGSEGV"]_vars

(* Nobody answers more tasks than were sent: the tasks on the way, those   *)
(* being worked on, the results on the way and those printed are together  *)
(* no more than the tasks of the server.                                   *)
WorkIn(box) == Cardinality({i \in DOMAIN box : box[i].type = WORK_ACTION})
Unfinished(c) == WorkIn(inbox[c]) + started[c] + Len(results[c])
Work == [c \in Client |-> Unfinished(c) + WorkIn(outbox[c])]
AnswersInv == TypeOK /\ SumFunction(Work) + printed <= operationCount

(* A result that was sent is read by the server at last, though it may     *)
(* have come together with another message, for which one event was        *)
(* reported: the answers to the pings that follow report it, provided that *)
(* neither the server ends nor the client hangs up.                        *)
ResultRead ==
  \A c \in Client :
    WorkIn(outbox[c]) > 0 ~> WorkIn(outbox[c]) = 0 \/ ~Up \/ socket[c] # "open"

(* A task is sent to a registered client that has none, unless all have    *)
(* some.  The code's `free' never becomes 0.                               *)
IdleFirst ==
  [][\A c \in Client : /\ operationCount' > operationCount
                       /\ Unfinished(c)' > Unfinished(c) /\ Unfinished(c) > 0
                       => \A d \in Registered : Unfinished(d) > 0]_vars

(* The ping thread finds out that a client is gone, and removes it.  In    *)
(* the code its write ends the server.                                     *)
SurvivesPing == spc # "SIGPIPE"

(* Clients can leave, one after another.  The second removal without a     *)
(* registration in between frees a name that is in use or has been freed.  *)
EveryoneCanLeave == spc # "undefined"

(* Only who registered a name gives it up.  A client that was refused goes *)
(* on, and its LOGOUT removes the one that has the name.                   *)
OwnLogoutOnly ==
  [][\A c \in Registered : spc = "serve" /\ Up' /\ c \notin Registered' => Event.fd = c]_vars

(* Every connection is accepted.  Of two that come together only one is,   *)
(* until a third comes.                                                    *)
AllAccepted == \A c \in Client : (\E i \in DOMAIN backlog : backlog[i] = c) ~> c \in accepted \/ ~Up

(* What a worker counts is the text of a task. *)
ResultRight == \A c \in Client : \A i \in DOMAIN results[c] : results[c][i] >= 0
=============================================================================
