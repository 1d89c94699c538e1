----------------------------- MODULE ChatPosix ------------------------------
(***************************************************************************)
(* lab6 zad2: the chat over POSIX message queues.  It differs from zad1 in *)
(* what the queues do: a message of the highest priority is read first,    *)
(* every queue is short and a full one holds the sender up, a queue lives  *)
(* on until the last descriptor of it is closed, and the name of the       *)
(* server's queue may outlive the server.                                  *)
(*                                                                         *)
(* A descriptor in clientsQueueId is the number of an entry of opened, as  *)
(* in the process's table of files.  A message to a client is its type,    *)
(* which is its priority as well.                                          *)
(***************************************************************************)
EXTENDS ChatTable, Sublists

CONSTANTS Client,
          MAX_MESSAGES,
          Commands,           \* the types of the commands that users type, besides STOP
          MaxCommands,        \* bound: commands of all clients, besides STOP
          MaxSIGINT,          \* bound: SIGINTs, to the server and to clients
          MaxRestarts         \* bound: servers started after the first

Descriptor == 0 .. Cardinality(Client) - 1

PosixAssumption ==
  /\ IsFiniteSet(Client) /\ NoClient \notin Client \cup Descriptor
  /\ Commands \subseteq {LIST, FRIENDS, ECHO, _2ALL, _2FRIENDS, _2ONE, ADD, DEL}
  /\ MAX_MESSAGES \in Nat \ {0}
  /\ MaxCommands \in Nat /\ MaxSIGINT \in Nat /\ MaxRestarts \in Nat

ASSUME PosixAssumption

VARIABLES
  serverQueue,      \* the requests, in the order in which they were sent
  linked,           \* the queue has its name
  spc,              \* where the server is
  outgoing,         \* what it has still to send before it reads again
  opened,           \* the client whose queue is behind each descriptor
  responseType,     \* outputMsg.message_type: it survives from one to the next
  inbox,            \* the types of the messages in each client's queue
  pc,               \* where each client is, and where its two processes are
  sender, catcher,
  userID,
  sent, interrupts, restarts    \* counts for the bounds

server == <<spc, outgoing, opened, responseType, runServer, users, groups>>
client == <<pc, sender, catcher, userID, sent>>
vars == <<serverQueue, linked, server, inbox, client, interrupts, restarts>>

Init ==
  /\ serverQueue = <<>> /\ linked = TRUE
  /\ spc = "recv" /\ outgoing = <<>> /\ responseType = 0
  /\ opened = [d \in Descriptor |-> NoClient]
  /\ TableInit
  /\ inbox = [c \in Client |-> <<>>]
  /\ pc = [c \in Client |-> "new"]
  /\ sender = [c \in Client |-> "none"] /\ catcher = [c \in Client |-> "none"]
  /\ userID = [c \in Client |-> -1]
  /\ sent = 0 /\ interrupts = 0 /\ restarts = 0

-----------------------------------------------------------------------------
(* Queues. *)

Without(s, i) == SubSeq(s, 1, i - 1) \o SubSeq(s, i + 1, Len(s))

(* mq_receive: the oldest message of the highest priority. *)
IsNext(i, types) ==
  /\ i \in DOMAIN types
  /\ \A j \in DOMAIN types : types[i] > types[j] \/ (types[i] = types[j] /\ i <= j)

TypesOf(queue) == [i \in DOMAIN queue |-> queue[i].type]

HasRoom(queue) == Len(queue) < MAX_MESSAGES

(* mq_send to the server waits until there is room, whether or not there   *)
(* is a server that reads.                                                 *)
Submit(request) ==
  /\ HasRoom(serverQueue)
  /\ serverQueue' = Append(serverQueue, request)

(* The client whose queue is behind the descriptor in user u's slot;       *)
(* nobody when it has been closed, and mq_send fails.                      *)
Behind(u) == opened[clientsQueueId[u]]

Full(u) == Behind(u) # NoClient /\ ~HasRoom(inbox[Behind(u)])

-----------------------------------------------------------------------------
(* The commands.  Each is the function for the user u who asked, with what *)
(* it sends to others in relays, in order.                                 *)

(* listCMD and echoCMD only write the text of the answer. *)
Answer == UNCHANGED <<users, groups, runServer>>

friendsCMD(u, ids) == Friends(u, ids)
addCMD(u, ids) == Add(u, ids)
dellCMD(u, ids) == Del(u, ids)
stopCMD(u) == Stop(u)

Existing == {v \in Slot : userExist(v)}

Everyone == Those([i \in 1 .. nextClientID |-> i - 1], Existing)

_2allCMD(u) == Those(Everyone, Existing \ {u})

_2friendsCMD(u) ==
  IF groupsSize[u] < 0 THEN <<>>
  ELSE Those([j \in 1 .. groupsSize[u] |-> friendsGroups[At(u, j - 1)]], Existing \ {u})

(* Bug: the message goes to an id that nobody has. *)
ReachesAnyone(v) == <<v>>

_2oneCMD(v) == IF userExist(v) THEN <<v>> ELSE <<>>

(* mq_open returns the lowest descriptor that is free. *)
FreeDescriptor ==
  CHOOSE d \in Descriptor : /\ opened[d] = NoClient
                            /\ \A e \in 0 .. d - 1 : opened[e] # NoClient

(* Bug: the index is not kept, and the answer goes to the id of the        *)
(* request.                                                                *)
InitForgetsUser(c) ==
  LET d == FreeDescriptor
      index == getFreeIndex
  IN /\ opened' = [opened EXCEPT ![d] = c]
     /\ responseType' = -1
     /\ IF userQueueExist(d) \/ index = -1 THEN UNCHANGED users ELSE Enter(index, d)
     /\ UNCHANGED <<groups, runServer>>

(* A client is refused because a slot holds the same descriptor, which has *)
(* been closed since, or because the table is full.  Its descriptor stays  *)
(* open, and there is no answer.                                           *)
initCMD(c) ==
  LET d == FreeDescriptor
      index == getFreeIndex
  IN /\ opened' = [opened EXCEPT ![d] = c]
     /\ IF userQueueExist(d) \/ index = -1
          THEN responseType' = -1 /\ UNCHANGED users
          ELSE responseType' = index /\ Enter(index, d)
     /\ UNCHANGED <<groups, runServer>>

-----------------------------------------------------------------------------
(* The server. *)

Loop(run) == IF run THEN "recv" ELSE "close"

Relay(v) == [to |-> v, kind |-> "relay"]
TheAnswer(u) == [to |-> u, kind |-> "answer"]
Shutdown(u) == [to |-> u, kind |-> "shutdown"]

(* What a registered user asks for; the result is what is relayed. *)
Command(r, u, relays) ==
  \/ r.type \in {LIST, ECHO} /\ Answer /\ relays = <<>>
  \/ r.type = FRIENDS /\ friendsCMD(u, r.ids) /\ relays = <<>>
  \/ r.type = ADD /\ addCMD(u, r.ids) /\ relays = <<>>
  \/ r.type = DEL /\ dellCMD(u, r.ids) /\ relays = <<>>
  \/ r.type = _2ALL /\ Answer /\ relays = _2allCMD(u)
  \/ r.type = _2FRIENDS /\ Answer /\ relays = _2friendsCMD(u)
  \/ r.type = _2ONE /\ Answer /\ relays = _2oneCMD(r.ids[1])
  \/ r.type = STOP /\ stopCMD(u) /\ relays = <<>>

(* Goes on with what is to be sent, or with the loop. *)
Continue(messages, run) ==
  /\ outgoing' = messages
  /\ spc' = IF messages # <<>> THEN "send" ELSE Loop(run)

(* A STOP is not answered, nor is a user who does not exist, nor a client  *)
(* that is refused.  The type of the response is set after the relays.     *)
executeCommand(r) ==
  LET u == r.id
      Relays == {<<>>, _2allCMD(u)}
                \cup {<<v>> : v \in Slot} \cup (IF u \in Slot THEN {_2friendsCMD(u)} ELSE {})
  IN
  \/ /\ r.type = INIT
     /\ initCMD(r.from)
     /\ Continue(IF responseType' = -1 THEN <<>> ELSE <<TheAnswer(responseType')>>, runServer)
  \/ /\ r.type # INIT /\ userExist(u)
     /\ \E relays \in Relays :
          /\ Command(r, u, relays)
          /\ responseType' = IF relays = <<>> THEN u ELSE responseType
          /\ Continue([i \in DOMAIN relays |-> Relay(relays[i])]
                        \o (IF r.type = STOP THEN <<>> ELSE <<TheAnswer(u)>>), runServer')
     /\ UNCHANGED opened
  \/ /\ r.type # INIT /\ ~userExist(u)
     /\ responseType' = ERROR
     /\ Continue(<<>>, runServer)
     /\ UNCHANGED <<users, groups, runServer, opened>>

Serve ==
  /\ spc = "recv"
  /\ \E i \in DOMAIN serverQueue :
       /\ IsNext(i, TypesOf(serverQueue))
       /\ serverQueue' = Without(serverQueue, i)
       /\ executeCommand(serverQueue[i])
  /\ UNCHANGED <<linked, inbox, client, interrupts, restarts>>

(* One mq_send.  It fails on a descriptor that is closed and on a type     *)
(* that is negative, and waits while the queue is full.  Between the       *)
(* relays and the answer the type is set, which may also have been done    *)
(* when the SHUTDOWNs of the handler came in between.                      *)
Send ==
  LET m == Head(outgoing)
      c == Behind(m.to)
      rest == Tail(outgoing)
  IN
  /\ spc = "send"
  /\ \/ /\ c # NoClient /\ responseType >= 0
        /\ HasRoom(inbox[c])
        /\ inbox' = [inbox EXCEPT ![c] = Append(@, responseType)]
     \/ (c = NoClient \/ responseType < 0) /\ UNCHANGED inbox
  /\ opened' = IF m.kind = "shutdown" THEN [opened EXCEPT ![clientsQueueId[m.to]] = NoClient]
               ELSE opened
  /\ responseType' \in IF rest = <<>> \/ Head(rest).kind # "answer" THEN {responseType}
                       ELSE IF m.kind = "shutdown" THEN {responseType, Head(rest).to}
                       ELSE {Head(rest).to}
  /\ Continue(rest, runServer)
  /\ UNCHANGED <<serverQueue, linked, runServer, users, groups, client,
                 interrupts, restarts>>

(* mq_unlink: those who have opened the queue still send to it. *)
Close ==
  /\ spc = "close"
  /\ linked' = FALSE
  /\ spc' = "ended"
  /\ UNCHANGED <<serverQueue, outgoing, opened, responseType, runServer, users,
                 groups, inbox, client, interrupts, restarts>>

(* SIGINT, anywhere but in its own handler, where it is masked.  A send    *)
(* that waited is given up.                                                *)
handleSIGINT ==
  /\ spc \in {"recv", "send", "close"} /\ interrupts < MaxSIGINT
  /\ \A i \in DOMAIN outgoing : outgoing[i].kind # "shutdown"
  /\ interrupts' = interrupts + 1
  /\ IF activeUserCount > 0
       THEN /\ responseType' = SHUTDOWN
            /\ \E rest \in {outgoing, IF outgoing = <<>> THEN <<>> ELSE Tail(outgoing)} :
                 /\ rest # outgoing => Full(Head(outgoing).to)
                 /\ Continue([i \in DOMAIN Everyone |-> Shutdown(Everyone[i])] \o rest,
                             runServer)
       ELSE /\ outgoing' = <<>> /\ spc' = "exited"
            /\ UNCHANGED responseType
  /\ UNCHANGED <<serverQueue, linked, opened, runServer, users, groups, inbox,
                 client, restarts>>

(* After an exit in the handler the queue still has its name and its       *)
(* messages, and the next server opens it.                                 *)
Restart ==
  /\ spc = "exited" /\ restarts < MaxRestarts
  /\ restarts' = restarts + 1
  /\ spc' = "recv" /\ responseType' = 0
  /\ opened' = [d \in Descriptor |-> NoClient]
  /\ nextClientID' = 0 /\ activeUserCount' = 0 /\ runServer' = TRUE
  /\ clientsQueueId' = [u \in Slot |-> NoClient] /\ groupsSize' = [u \in Slot |-> -1]
  /\ friendsGroups' = [i \in DOMAIN friendsGroups |-> 0]
  /\ stray' = FALSE
  /\ UNCHANGED <<serverQueue, linked, outgoing, inbox, client, interrupts>>

-----------------------------------------------------------------------------
(* A client. *)

OpenQueues(c) ==
  /\ pc[c] = "new"
  /\ pc' = [pc EXCEPT ![c] = IF linked THEN "opened" ELSE "failed"]
  /\ UNCHANGED <<serverQueue, linked, server, inbox, sender, catcher, userID, sent,
                 interrupts, restarts>>

SendInit(c) ==
  /\ pc[c] = "opened"
  /\ Submit(Request(INIT, -1, c, <<>>))
  /\ pc' = [pc EXCEPT ![c] = "initwait"]
  /\ UNCHANGED <<linked, server, inbox, sender, catcher, userID, sent, interrupts, restarts>>

(* The type of the first message that is read becomes the user's id. *)
ReceiveId(c) ==
  /\ pc[c] = "initwait"
  /\ \E i \in DOMAIN inbox[c] :
       /\ IsNext(i, inbox[c])
       /\ userID' = [userID EXCEPT ![c] = inbox[c][i]]
       /\ inbox' = [inbox EXCEPT ![c] = Without(@, i)]
  /\ pc' = [pc EXCEPT ![c] = "running"]
  /\ sender' = [sender EXCEPT ![c] = "typing"]
  /\ catcher' = [catcher EXCEPT ![c] = "reading"]
  /\ UNCHANGED <<serverQueue, linked, server, sent, interrupts, restarts>>

SendLine(c) ==
  /\ sent < MaxCommands /\ sent' = sent + 1
  /\ \E type \in Commands : \E ids \in Arguments(type) :
       Submit(Request(type, userID[c], NoClient, ids))
  /\ UNCHANGED <<linked, server, inbox, pc, sender, catcher, userID, interrupts, restarts>>

SendCommand(c) == sender[c] = "typing" /\ SendLine(c)

(* The lines behind a STOP in a file of commands are sent all the same. *)
ExecuteFile(c) == sender[c] = "stopping" /\ SendLine(c)

(* A STOP that is typed, and the one that endClient sends after it. *)
SendStop(c, from, to) ==
  /\ sender[c] = from
  /\ Submit(Request(STOP, userID[c], NoClient, <<>>))
  /\ sender' = [sender EXCEPT ![c] = to]
  /\ UNCHANGED <<linked, server, inbox, pc, catcher, userID, sent, interrupts, restarts>>

TypeStop(c) == SendStop(c, "typing", "stopping")
SenderEnd(c) == SendStop(c, "stopping", "leaving")

(* Bug: only the client's own type is read, and SHUTDOWN. *)
ReadsOwnType(c) ==
  /\ catcher[c] = "reading"
  /\ \E i \in DOMAIN inbox[c] :
       /\ inbox[c][i] \in {userID[c], SHUTDOWN}
       /\ inbox' = [inbox EXCEPT ![c] = Without(@, i)]
       /\ catcher' = [catcher EXCEPT ![c] = IF inbox[c][i] = SHUTDOWN THEN "ending" ELSE @]
  /\ UNCHANGED <<serverQueue, linked, server, pc, sender, userID, sent, interrupts, restarts>>

CatcherRead(c) ==
  /\ catcher[c] = "reading"
  /\ \E i \in DOMAIN inbox[c] :
       /\ IsNext(i, inbox[c])
       /\ inbox' = [inbox EXCEPT ![c] = Without(@, i)]
       /\ catcher' = [catcher EXCEPT ![c] = IF inbox[c][i] = SHUTDOWN THEN "ending" ELSE @]
  /\ UNCHANGED <<serverQueue, linked, server, pc, sender, userID, sent, interrupts, restarts>>

CatcherEnd(c) ==
  /\ catcher[c] = "ending"
  /\ Submit(Request(STOP, userID[c], NoClient, <<>>))
  /\ catcher' = [catcher EXCEPT ![c] = "leaving"]
  /\ UNCHANGED <<linked, server, inbox, pc, sender, userID, sent, interrupts, restarts>>

(* The name of the client's queue is removed and both processes are        *)
(* killed.  What the server has opened stays, and nobody reads it.         *)
Leave(c) ==
  /\ "leaving" \in {sender[c], catcher[c]}
  /\ pc' = [pc EXCEPT ![c] = "ended"]
  /\ sender' = [sender EXCEPT ![c] = "none"] /\ catcher' = [catcher EXCEPT ![c] = "none"]
  /\ UNCHANGED <<serverQueue, linked, server, inbox, userID, sent, interrupts, restarts>>

(* SIGINT kills the sender, and the catcher ends the client.  Before the   *)
(* fork it kills the client.                                               *)
Interrupt(c) ==
  /\ interrupts < MaxSIGINT /\ interrupts' = interrupts + 1
  /\ \/ /\ pc[c] \in {"opened", "initwait"}
        /\ pc' = [pc EXCEPT ![c] = "killed"]
        /\ UNCHANGED <<sender, catcher>>
     \/ /\ catcher[c] = "reading"
        /\ catcher' = [catcher EXCEPT ![c] = "ending"]
        /\ sender' = [sender EXCEPT ![c] = "dead"]
        /\ UNCHANGED pc
  /\ UNCHANGED <<serverQueue, linked, server, inbox, userID, sent, restarts>>

-----------------------------------------------------------------------------

ServerStep == Serve \/ Send \/ Close
ClientStep(c) == \/ SendInit(c) \/ ReceiveId(c) \/ SenderEnd(c)
                 \/ CatcherRead(c) \/ CatcherEnd(c) \/ Leave(c)
User(c) == OpenQueues(c) \/ SendCommand(c) \/ ExecuteFile(c) \/ TypeStop(c) \/ Interrupt(c)

Next == \/ ServerStep \/ handleSIGINT \/ Restart
        \/ \E c \in Client : ClientStep(c) \/ User(c)

Spec == Init /\ [][Next]_vars

-----------------------------------------------------------------------------
(* Properties. *)

TypeOK ==
  /\ serverQueue \in Seq([type : Commands \cup {INIT, STOP}, id : Int,
                          from : Client \cup {NoClient}, ids : Seq(Slot)])
  /\ Len(serverQueue) <= MAX_MESSAGES
  /\ linked \in BOOLEAN /\ runServer \in BOOLEAN /\ stray \in BOOLEAN
  /\ spc \in {"recv", "send", "close", "ended", "exited"}
  /\ outgoing \in Seq([to : Slot, kind : {"relay", "answer", "shutdown"}])
  /\ opened \in [Descriptor -> Client \cup {NoClient}]
  /\ responseType \in Int /\ activeUserCount \in Int
  /\ nextClientID \in 0 .. MAX_CLIENTS_COUNT
  /\ clientsQueueId \in [Slot -> Descriptor \cup {NoClient}]
  /\ groupsSize \in [Slot -> -1 .. MAX_GROUP_SIZE]
  /\ friendsGroups \in [0 .. MAX_CLIENTS_COUNT * MAX_GROUP_SIZE - 1 -> Slot]
  /\ inbox \in [Client -> Seq(Nat)] /\ \A c \in Client : Len(inbox[c]) <= MAX_MESSAGES
  /\ pc \in [Client -> {"new", "opened", "initwait", "running", "failed", "killed", "ended"}]
  /\ sender \in [Client -> {"none", "typing", "stopping", "leaving", "dead"}]
  /\ catcher \in [Client -> {"none", "reading", "ending", "leaving"}]
  /\ userID \in [Client -> Int] /\ sent \in 0 .. MaxCommands
  /\ interrupts \in 0 .. MaxSIGINT /\ restarts \in 0 .. MaxRestarts

(* The server goes on until everybody has gone; what it has still to send, *)
(* it sends to users who are registered.                                   *)
Serving ==
  /\ spc \in {"recv", "send"} => runServer
  /\ spc \in {"close", "ended", "exited"} => Registered = {}
  /\ (spc = "send") = (outgoing # <<>>)
  /\ \A i \in DOMAIN outgoing : outgoing[i].to \in Registered

Requests ==
  \A i \in DOMAIN serverQueue :
    LET r == serverQueue[i] IN /\ r.type = INIT => r.from \in Client
                               /\ r.type \in Commands => r.ids \in Arguments(r.type)

(* A client asks once to be registered, and no queue is opened twice, so   *)
(* that there is a descriptor for everyone who asks.                       *)
AsksFor(i, c) == i \in DOMAIN serverQueue /\ serverQueue[i].type = INIT /\ serverQueue[i].from = c
Unknown(c) == \A d \in Descriptor : opened[d] # c

AsksOnce ==
  \A c \in Client :
    /\ \A d, e \in Descriptor : opened[d] = c /\ opened[e] = c => d = e
    /\ pc[c] \in {"new", "opened"} => Unknown(c) /\ \A i \in DOMAIN serverQueue : ~AsksFor(i, c)
    /\ \A i \in DOMAIN serverQueue : AsksFor(i, c) =>
         Unknown(c) /\ \A j \in DOMAIN serverQueue : AsksFor(j, c) => i = j

(* What the table rests on.  The server before leaves its requests, and    *)
(* its clients their STOPs: the one after it relays messages only to users *)
(* of its own, and whoever asks can be given a descriptor (executeCommand, *)
(* sendMessage, initCMD).                                                  *)
Basis == TypeOK /\ Serving /\ Requests /\ AsksOnce /\ RowsInv

AtRest == ~ENABLED (ServerStep \/ \E c \in Client : ClientStep(c))

(* The server is held up for good only in front of the queue of a client   *)
(* that is gone, or whose catcher itself waits to send a STOP: a client    *)
(* that reads is always served in the end.                                 *)
StuckOnlyAs ==
  spc = "send" /\ AtRest =>
    LET c == Behind(Head(outgoing).to)
    IN pc[c] \in {"ended", "killed"} \/ catcher[c] = "ending"

(* When the server has nothing to do, whoever waits for an id found the    *)
(* table full or came after a SIGINT; and a client that ended is out of    *)
(* the table unless it did not know its id: no INIT and no STOP is lost,   *)
(* in whatever order they are read.                                        *)
Served ==
  spc = "recv" /\ serverQueue = <<>> /\ AtRest =>
    /\ interrupts = 0 =>
         \A c \in Client : pc[c] = "initwait" => nextClientID = MAX_CLIENTS_COUNT
    /\ \A u \in Registered :
         Behind(u) # NoClient /\ pc[Behind(u)] = "ended" => userID[Behind(u)] # u

(* "the highest priority has STOP, then LIST and FRIENDS, and the rest"    *)
(* (lab6/README.md:38).                                                    *)
StopFirst ==
  [][\A i \in DOMAIN serverQueue :
       Len(serverQueue') < Len(serverQueue) /\ serverQueue[i].type = STOP
         => \E j \in DOMAIN serverQueue : /\ serverQueue[j].type = STOP
                                          /\ serverQueue' = Without(serverQueue, j)]_vars

(* "the server ... sends this identifier back to the client" (INIT,        *)
(* lab6/README.md:18): a client that runs knows its own slot.              *)
KnowsItsId ==
  \A c \in Client : pc[c] = "running" =>
    \A u \in Registered : Behind(u) = c => userID[c] = u
=============================================================================
