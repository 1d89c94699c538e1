----------------------------- MODULE ChatServer -----------------------------
(***************************************************************************)
(* lab6 zad1: a chat over System V message queues.  The server reads the   *)
(* requests of all clients from one queue, in the order of their types,    *)
(* and writes to a queue of each client.  A client is two processes: the   *)
(* sender, which sends what the user types, and the catcher, which reads   *)
(* the client's queue.                                                     *)
(*                                                                         *)
(* A client's queue is named by the client.  A message in it is its type,  *)
(* which is all that decides who reads it and when; texts are left out,    *)
(* but for the lists of ids.  The receiver of a 2ONE is a list of one id.  *)
(* Users type only ids of the table.  No queue is ever full.               *)
(***************************************************************************)
EXTENDS ChatTable

CONSTANTS Client,
          Commands,           \* the types of the commands that users type, besides STOP
          MaxCommands,        \* bound: commands of all clients, besides STOP
          MaxSIGINT           \* bound: SIGINTs, to the server and to clients

ASSUME ChatAssumption ==
  /\ NoClient \notin Client /\ IsFiniteSet(Client)
  /\ Commands \subseteq {LIST, FRIENDS, ECHO, _2ALL, _2FRIENDS, _2ONE, ADD, DEL}
  /\ MaxCommands \in Nat /\ MaxSIGINT \in Nat

SHIFTID == 100

VARIABLES
  serverQueue,      \* the requests, in the order in which they were sent
  queueExists,      \* the server's queue
  spc,              \* where the server is
  responseType,     \* response.message_type: it survives from one to the next
  actualUserId,
  inbox,            \* the types of the messages in each client's queue
  pc,               \* where each client is, and where its two processes are
  sender, catcher,
  userID,
  sent, interrupts  \* counts for the bounds

server == <<spc, responseType, actualUserId, runServer, users, groups>>
client == <<pc, sender, catcher, userID, sent>>
vars == <<serverQueue, queueExists, server, inbox, client, interrupts>>

Init ==
  /\ serverQueue = <<>> /\ queueExists = TRUE /\ spc = "recv" /\ responseType = 0
  /\ actualUserId = 0 /\ TableInit
  /\ inbox = [c \in Client |-> <<>>]
  /\ pc = [c \in Client |-> "new"]
  /\ sender = [c \in Client |-> "none"] /\ catcher = [c \in Client |-> "none"]
  /\ userID = [c \in Client |-> -1] /\ sent = 0
  /\ interrupts = 0

-----------------------------------------------------------------------------
(* Queues. *)

Without(s, i) == SubSeq(s, 1, i - 1) \o SubSeq(s, i + 1, Len(s))

(* msgrcv with a negative type: the first message of the lowest type. *)
IsNext(i, types, limit) ==
  /\ i \in DOMAIN types /\ types[i] <= limit
  /\ \A j \in DOMAIN types : types[i] < types[j] \/ (types[i] = types[j] /\ i <= j)

TypesOf(queue) == [i \in DOMAIN queue |-> queue[i].type]

(* Sending to the server; it fails when the queue is gone. *)
Submit(request) ==
  serverQueue' = IF queueExists THEN Append(serverQueue, request) ELSE serverQueue

(* Sending to clients.  It fails for those whose queue is gone, and for a  *)
(* type that is not positive.                                              *)
SendTo(receivers, type) ==
  inbox' = [c \in Client |-> IF c \in receivers /\ pc[c] # "ended" /\ type > 0
                               THEN Append(inbox[c], type) ELSE inbox[c]]

-----------------------------------------------------------------------------
(* What the commands send to other users has the type of the response      *)
(* before.                                                                 *)

QueueOf(u) == {c \in Client : userExist(u) /\ clientsQueueId[u] = c}

(* ECHO and LIST. *)
Echo == UNCHANGED <<users, groups, runServer, inbox>>

To2All(u) ==
  /\ SendTo(UNION {QueueOf(v) : v \in (0 .. nextClientID - 1) \ {u}}, responseType)
  /\ UNCHANGED <<users, groups, runServer>>

(* A friend who is in the group twice gets the message twice. *)
To2Friends(u) ==
  LET friend(j) == friendsGroups[At(u, j)]
      times(c) == Cardinality({j \in 0 .. groupsSize[u] - 1 :
                                 friend(j) # u /\ c \in QueueOf(friend(j))})
  IN /\ inbox' = [c \in Client |->
                    IF pc[c] # "ended" /\ responseType > 0
                      THEN inbox[c] \o [k \in 1 .. times(c) |-> responseType] ELSE inbox[c]]
     /\ UNCHANGED <<users, groups, runServer>>

To2One(v) ==
  /\ SendTo(QueueOf(v), responseType)
  /\ UNCHANGED <<users, groups, runServer>>

(* Refused, the client gets no answer: the response has type -1 and the    *)
(* user number -101.                                                       *)
InitUser(c) ==
  LET index == getFreeIndex IN
  /\ IF userQueueExist(c) \/ index = -1
       THEN /\ actualUserId' = -1 - SHIFTID
            /\ UNCHANGED users
       ELSE /\ actualUserId' = index
            /\ Enter(index, c)
  /\ UNCHANGED <<groups, runServer, inbox>>

-----------------------------------------------------------------------------
(* The server. *)

Loop(run) == IF run THEN "recv" ELSE "close"

(* What a registered user asks for. *)
Command(r, u) ==
  \/ r.type \in {LIST, ECHO} /\ Echo
  \/ r.type = FRIENDS /\ Friends(u, r.ids) /\ UNCHANGED inbox
  \/ r.type = ADD /\ Add(u, r.ids) /\ UNCHANGED inbox
  \/ r.type = DEL /\ Del(u, r.ids) /\ UNCHANGED inbox
  \/ r.type = _2ALL /\ To2All(u)
  \/ r.type = _2FRIENDS /\ To2Friends(u)
  \/ r.type = _2ONE /\ To2One(r.ids[1])
  \/ r.type = STOP /\ Stop(u) /\ UNCHANGED inbox

(* A STOP is not answered. *)
executeCommand(r) ==
  LET u == r.id - SHIFTID IN
  \/ /\ r.type = INIT
     /\ InitUser(r.from)
     /\ responseType' = actualUserId' + SHIFTID
     /\ spc' = "reply"
  \/ /\ r.type # INIT /\ userExist(u)
     /\ actualUserId' = u
     /\ Command(r, u)
     /\ responseType' = u + SHIFTID
     /\ spc' = IF r.type = STOP THEN Loop(runServer') ELSE "reply"
  \/ /\ r.type # INIT /\ ~userExist(u) /\ u \in Slot
     /\ actualUserId' = u
     /\ responseType' = ERROR
     /\ spc' = IF r.type = STOP THEN Loop(runServer) ELSE "reply"
     /\ UNCHANGED <<users, groups, runServer, inbox>>
  \/ /\ r.type # INIT /\ u \notin Slot      \* reads in front of clientsQueueId
     /\ actualUserId' = u
     /\ spc' = "undefined"
     /\ UNCHANGED <<responseType, users, groups, runServer, inbox>>

(* Takes the first of the requests of the lowest type and executes it. *)
Serve ==
  /\ spc = "recv"
  /\ \E i \in DOMAIN serverQueue :
       /\ IsNext(i, TypesOf(serverQueue), 100)
       /\ serverQueue' = Without(serverQueue, i)
       /\ executeCommand(serverQueue[i])
  /\ UNCHANGED <<queueExists, client, interrupts>>

Reply ==
  /\ spc = "reply"
  /\ SendTo(QueueOf(actualUserId), responseType)
  /\ spc' = Loop(runServer)
  /\ UNCHANGED <<serverQueue, queueExists, responseType, actualUserId, runServer, users,
                 groups, client, interrupts>>

Close ==
  /\ spc = "close"
  /\ queueExists' = FALSE /\ serverQueue' = <<>>
  /\ spc' = "ended"
  /\ UNCHANGED <<responseType, actualUserId, runServer, users, groups, inbox, client,
                 interrupts>>

(* SIGINT, at any point of the loop. *)
handleSIGINT ==
  /\ spc \in {"recv", "reply", "close"} /\ interrupts < MaxSIGINT
  /\ interrupts' = interrupts + 1
  /\ IF activeUserCount > 0
       THEN /\ SendTo(UNION {QueueOf(u) : u \in 0 .. nextClientID - 1}, SHUTDOWN)
            /\ UNCHANGED spc
       ELSE /\ spc' = "exited"
            /\ UNCHANGED inbox
  /\ UNCHANGED <<serverQueue, queueExists, responseType, actualUserId, runServer, users,
                 groups, client>>

-----------------------------------------------------------------------------
(* A client. *)

InitClient(c) ==
  /\ pc[c] = "new"
  /\ Submit(Request(INIT, -1, c, <<>>))
  /\ pc' = [pc EXCEPT ![c] = IF queueExists THEN "initwait" ELSE "failed"]
  /\ UNCHANGED <<queueExists, server, inbox, sender, catcher, userID, sent, interrupts>>

(* Bug: the answer is read as the catcher reads, the lowest type first. *)
ReceivesLowest(c) ==
  /\ pc[c] = "initwait"
  /\ \E i \in DOMAIN inbox[c] :
       /\ IsNext(i, inbox[c], 200)
       /\ userID' = [userID EXCEPT ![c] = inbox[c][i]]
       /\ inbox' = [inbox EXCEPT ![c] = Without(@, i)]
  /\ pc' = [pc EXCEPT ![c] = "running"]
  /\ sender' = [sender EXCEPT ![c] = "typing"]
  /\ catcher' = [catcher EXCEPT ![c] = "reading"]
  /\ UNCHANGED <<serverQueue, queueExists, server, sent, interrupts>>

(* The type of the first message, whatever it is, becomes the user's id. *)
ReceiveId(c) ==
  /\ pc[c] = "initwait" /\ inbox[c] # <<>>
  /\ userID' = [userID EXCEPT ![c] = Head(inbox[c])]
  /\ inbox' = [inbox EXCEPT ![c] = Tail(@)]
  /\ pc' = [pc EXCEPT ![c] = "running"]
  /\ sender' = [sender EXCEPT ![c] = "typing"]
  /\ catcher' = [catcher EXCEPT ![c] = "reading"]
  /\ UNCHANGED <<serverQueue, queueExists, server, sent, interrupts>>

SendCommand(c) ==
  /\ sender[c] = "typing" /\ sent < MaxCommands
  /\ sent' = sent + 1
  /\ \E type \in Commands : \E ids \in Arguments(type) :
       Submit(Request(type, userID[c], NoClient, ids))
  /\ UNCHANGED <<queueExists, server, inbox, pc, sender, catcher, userID, interrupts>>

(* A STOP that is typed, and the one that endClient sends after it. *)
SendStop(c, from, to) ==
  /\ sender[c] = from
  /\ Submit(Request(STOP, userID[c], c, <<>>))
  /\ sender' = [sender EXCEPT ![c] = to]
  /\ UNCHANGED <<queueExists, server, inbox, pc, catcher, userID, sent, interrupts>>

TypeStop(c) == SendStop(c, "typing", "stopping")
SenderEnd(c) == SendStop(c, "stopping", "leaving")

(* Bug: not the lowest type but the oldest message is read. *)
ReadsOldest(c) ==
  /\ catcher[c] = "reading" /\ inbox[c] # <<>> /\ Head(inbox[c]) <= 200
  /\ inbox' = [inbox EXCEPT ![c] = Tail(@)]
  /\ catcher' = [catcher EXCEPT ![c] = IF Head(inbox[c]) = SHUTDOWN THEN "ending" ELSE @]
  /\ UNCHANGED <<serverQueue, queueExists, server, pc, sender, userID, sent, interrupts>>

CatcherRead(c) ==
  /\ catcher[c] = "reading"
  /\ \E i \in DOMAIN inbox[c] :
       /\ IsNext(i, inbox[c], 200)
       /\ inbox' = [inbox EXCEPT ![c] = Without(@, i)]
       /\ catcher' = [catcher EXCEPT ![c] = IF inbox[c][i] = SHUTDOWN THEN "ending" ELSE @]
  /\ UNCHANGED <<serverQueue, queueExists, server, pc, sender, userID, sent, interrupts>>

CatcherEnd(c) ==
  /\ catcher[c] = "ending"
  /\ Submit(Request(STOP, userID[c], c, <<>>))
  /\ catcher' = [catcher EXCEPT ![c] = "leaving"]
  /\ UNCHANGED <<queueExists, server, inbox, pc, sender, userID, sent, interrupts>>

(* The queue is removed and both processes are killed. *)
Leave(c) ==
  /\ "leaving" \in {sender[c], catcher[c]}
  /\ inbox' = [inbox EXCEPT ![c] = <<>>]
  /\ pc' = [pc EXCEPT ![c] = "ended"]
  /\ sender' = [sender EXCEPT ![c] = "none"] /\ catcher' = [catcher EXCEPT ![c] = "none"]
  /\ UNCHANGED <<serverQueue, queueExists, server, userID, sent, interrupts>>

(* SIGINT goes to both processes: it kills the sender, and the catcher     *)
(* ends the client.  Before the fork it kills the client.                  *)
Interrupt(c) ==
  /\ interrupts < MaxSIGINT /\ interrupts' = interrupts + 1
  /\ \/ /\ pc[c] = "initwait"
        /\ pc' = [pc EXCEPT ![c] = "killed"]
        /\ UNCHANGED <<sender, catcher>>
     \/ /\ catcher[c] = "reading"
        /\ catcher' = [catcher EXCEPT ![c] = "ending"]
        /\ sender' = [sender EXCEPT ![c] = "dead"]
        /\ UNCHANGED pc
  /\ UNCHANGED <<serverQueue, queueExists, server, inbox, userID, sent>>

-----------------------------------------------------------------------------

ServerStep == Serve \/ Reply \/ Close
ClientStep(c) == ReceiveId(c) \/ SenderEnd(c) \/ CatcherRead(c) \/ CatcherEnd(c) \/ Leave(c)
User(c) == InitClient(c) \/ SendCommand(c) \/ TypeStop(c) \/ Interrupt(c)

Next == \/ ServerStep \/ handleSIGINT
        \/ \E c \in Client : ClientStep(c) \/ User(c)

Spec == Init /\ [][Next]_vars

(* The server and the processes of a client are never held up; what users  *)
(* do need not happen.                                                     *)
FairSpec == /\ Spec /\ WF_vars(ServerStep)
            /\ \A c \in Client : /\ WF_vars(ReceiveId(c)) /\ WF_vars(CatcherRead(c))
                                 /\ WF_vars(SenderEnd(c)) /\ WF_vars(CatcherEnd(c))
                                 /\ WF_vars(Leave(c))

-----------------------------------------------------------------------------
(* Properties. *)

TypeOK ==
  /\ serverQueue \in Seq([type : Commands \cup {INIT, STOP}, id : Int,
                          from : Client \cup {NoClient}, ids : Seq(Slot)])
  /\ queueExists \in BOOLEAN /\ runServer \in BOOLEAN /\ stray \in BOOLEAN
  /\ spc \in {"recv", "reply", "close", "ended", "exited", "undefined"}
  /\ responseType \in Int /\ actualUserId \in Int /\ activeUserCount \in Int
  /\ nextClientID \in 0 .. MAX_CLIENTS_COUNT
  /\ clientsQueueId \in [Slot -> Client \cup {NoClient}]
  /\ groupsSize \in [Slot -> -1 .. MAX_GROUP_SIZE]
  /\ friendsGroups \in [0 .. MAX_CLIENTS_COUNT * MAX_GROUP_SIZE - 1 -> Slot]
  /\ inbox \in [Client -> Seq(Nat \ {0})]
  /\ pc \in [Client -> {"new", "initwait", "running", "failed", "killed", "ended"}]
  /\ sender \in [Client -> {"none", "typing", "stopping", "leaving", "dead"}]
  /\ catcher \in [Client -> {"none", "reading", "ending", "leaving"}]
  /\ userID \in [Client -> Int] /\ sent \in 0 .. MaxCommands
  /\ interrupts \in 0 .. MaxSIGINT

(* The table is right, and tells the server when to end: when everybody    *)
(* who was registered has gone, whatever comes twice or too late (stopCMD, *)
(* executeCommand).                                                        *)
UsersInv ==
  /\ TypeOK
  /\ UsersAgree
  /\ spc \in {"close", "ended"} => Registered = {}
  /\ spc \in {"recv", "reply"} => (runServer = (nextClientID = 0 \/ Registered # {}))

(* A group holds registered users other than its owner, each once, so a    *)
(* message to friends never reaches a stranger who was given the slot of a *)
(* friend (friendsCMD, addCMD, dellCMD and stopCMD together).  It is so    *)
(* when users type no id twice and ADD follows a FRIENDS.                  *)
GroupInv ==
  NoIdTwice /\ ~stray =>
            \A u \in Slot : /\ Group(u) \subseteq Registered \ {u}
                            /\ groupsSize[u] >= 0 => Cardinality(Group(u)) = groupsSize[u]

(* A client that runs knows its own slot, unless a SHUTDOWN was the first  *)
(* message it got and became its id (client.c reads the answer to INIT     *)
(* with type 0).                                                           *)
KnowsItsId ==
  \A c \in Client : pc[c] = "running" =>
    \/ userID[c] = SHUTDOWN /\ interrupts > 0
    \/ \A u \in Registered : clientsQueueId[u] = c => userID[c] = u + SHIFTID

(* What the above rest on.  The server goes on until the table is empty.   *)
Serving == spc \in {"recv", "reply"} => runServer

Requests ==
  \A i \in DOMAIN serverQueue :
    LET r == serverQueue[i] IN /\ r.type = INIT => r.from \in Client
                               /\ r.type \in Commands => r.ids \in Arguments(r.type)

OnlyRunning ==
  \A c \in Client : pc[c] # "running" => sender[c] = "none" /\ catcher[c] = "none"

(* A client asks once to be registered, and hears nothing before it is. *)
AsksFor(i, c) == i \in DOMAIN serverQueue /\ serverQueue[i].type = INIT /\ serverQueue[i].from = c
Unknown(c) == inbox[c] = <<>> /\ \A u \in Slot : clientsQueueId[u] # c

AsksOnce ==
  \A c \in Client :
    /\ pc[c] = "new" => Unknown(c) /\ \A i \in DOMAIN serverQueue : ~AsksFor(i, c)
    /\ \A i \in DOMAIN serverQueue : AsksFor(i, c) =>
         /\ pc[c] \in {"initwait", "killed"} /\ Unknown(c)
         /\ \A j \in DOMAIN serverQueue : AsksFor(j, c) => i = j

(* Its first message is the answer, or a SHUTDOWN that came in between. *)
FirstMessage ==
  \A u \in Registered : LET c == clientsQueueId[u] IN pc[c] = "initwait" =>
    IF inbox[c] = <<>>
      THEN spc = "reply" /\ actualUserId = u /\ responseType = u + SHIFTID
      ELSE Head(inbox[c]) = u + SHIFTID \/ (Head(inbox[c]) = SHUTDOWN /\ interrupts > 0)

Basis == Serving /\ Requests /\ OnlyRunning /\ AsksOnce /\ FirstMessage /\ RowsInv

IInv == UsersInv /\ KnowsItsId /\ Basis

(* A client that was told to shut down leaves the table, or there is no    *)
(* server any more: its catcher sees SHUTDOWN whatever else is in the      *)
(* queue, and the server sees its STOP.                                    *)
ShutdownEnds ==
  \A c \in Client :
    (pc[c] = "running" /\ \E i \in DOMAIN inbox[c] : inbox[c][i] = SHUTDOWN)
      ~> (\/ \A u \in Slot : clientsQueueId[u] # c
          \/ spc \in {"ended", "exited", "undefined"})

(* "... the server sends this text to all the other clients" (2ALL in      *)
(* lab6/README.md): what a client is sent it can read.  The catcher reads  *)
(* types up to 200.                                                        *)
Readable == \A c \in Client : \A i \in DOMAIN inbox[c] : inbox[c][i] <= 200

(* A client sends STOP "so that the server can remove its queue" (STOP in  *)
(* lab6/README.md): nobody's queue is removed by the STOP of another.      *)
OwnStopOnly ==
  [][\A u \in Registered : clientsQueueId'[u] = NoClient =>
       \E i \in DOMAIN serverQueue : /\ IsNext(i, TypesOf(serverQueue), 100)
                                     /\ serverQueue[i].from = clientsQueueId[u]]_vars

(* "The next FRIENDS replaces the list before" (lab6/README.md): after a   *)
(* FRIENDS of registered users they are the group.                         *)
FriendsReplaces ==
  [][\A u \in Registered, ids \in Lists : \A i \in DOMAIN serverQueue :
       LET friends == {ids[j] : j \in DOMAIN ids}
       IN (/\ serverQueue[i].type = FRIENDS /\ serverQueue[i].id = u + SHIFTID
           /\ serverQueue[i].ids = ids /\ serverQueue' = Without(serverQueue, i)
           /\ friends \subseteq Registered \ {u} /\ Len(ids) <= MAX_GROUP_SIZE)
          => Group(u)' = friends]_vars
=============================================================================
