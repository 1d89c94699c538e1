----------------------------- MODULE ChatTable ------------------------------
(***************************************************************************)
(* lab6: the table of users and the groups of friends of the chat server.  *)
(* The servers of zad1 and zad2 have the same one; only what stands in it  *)
(* for a client's queue differs, a key of System V or a descriptor.        *)
(* Users type only ids of the table.                                       *)
(***************************************************************************)
EXTENDS Integers, Sequences, FiniteSets

CONSTANTS NoClient,           \* -1 in clientsQueueId
          MAX_CLIENTS_COUNT,
          MAX_GROUP_SIZE,
          Lists               \* the lists of ids that users type

Slot == 0 .. MAX_CLIENTS_COUNT - 1

ASSUME TableAssumption ==
  /\ MAX_CLIENTS_COUNT \in 1 .. 99 /\ MAX_GROUP_SIZE \in Nat \ {0}
  /\ Lists \subseteq Seq(Slot)

STOP == 10
LIST == 11
FRIENDS == 12
INIT == 15
ECHO == 16
_2ALL == 17
_2FRIENDS == 18
_2ONE == 19
ADD == 23
DEL == 24
SHUTDOWN == 30
ERROR == 500

VARIABLES
  nextClientID, clientsQueueId, activeUserCount, runServer,
  groupsSize,
  friendsGroups,    \* the rows of the array one after another
  stray             \* history: an id was written in front of a row

users == <<nextClientID, clientsQueueId, activeUserCount>>
groups == <<groupsSize, friendsGroups, stray>>

TableInit ==
  /\ nextClientID = 0 /\ activeUserCount = 0 /\ runServer = TRUE
  /\ clientsQueueId = [u \in Slot |-> NoClient]
  /\ groupsSize = [u \in Slot |-> -1]
  /\ friendsGroups = [i \in 0 .. MAX_CLIENTS_COUNT * MAX_GROUP_SIZE - 1 |-> 0]
  /\ stray = FALSE

(* A request, with the ids that stand behind the command. *)
Request(type, id, from, ids) == [type |-> type, id |-> id, from |-> from, ids |-> ids]

(* What users type behind a command.  ADD, DEL and 2ONE need an argument. *)
Arguments(type) ==
  IF type = FRIENDS THEN Lists
  ELSE IF type \in {ADD, DEL} THEN Lists \ {<<>>}
  ELSE IF type = _2ONE THEN {<<u>> : u \in Slot}
  ELSE {<<>>}

-----------------------------------------------------------------------------
(* The table of users. *)

userExist(u) == u <= nextClientID /\ u \in Slot /\ clientsQueueId[u] # NoClient

userQueueExist(q) == \E u \in Slot : u < nextClientID /\ clientsQueueId[u] = q

(* Bug: after the last index they start again from 0. *)
WrapsAround == IF \A u \in Slot : clientsQueueId[u] # NoClient THEN -1
               ELSE nextClientID % MAX_CLIENTS_COUNT

(* -1 when there is none. *)
getFreeIndex ==
  IF nextClientID < MAX_CLIENTS_COUNT THEN nextClientID
  ELSE IF \A u \in Slot : clientsQueueId[u] # NoClient THEN -1
  ELSE CHOOSE u \in Slot : /\ clientsQueueId[u] = NoClient
                           /\ \A v \in Slot : clientsQueueId[v] = NoClient => u <= v

(* The groups.  Element j of user u's row; -1 is the last of the row in    *)
(* front of it, or lies in front of the array.                             *)
At(u, j) == u * MAX_GROUP_SIZE + j
Write(g, u, j, x) == IF At(u, j) \in DOMAIN g THEN [g EXCEPT ![At(u, j)] = x] ELSE g

existInGroup(g, u, x) == \E j \in 0 .. groupsSize[u] - 1 : g[At(u, j)] = x

(* Bug: ids of nobody are kept as well. *)
KeepsStrangers(written, u, x) == x # u /\ ~existInGroup(written, u, x)

(* An id is written behind the group and then kept or not; the size that   *)
(* existInGroup goes by is that from before the command.                   *)
Keeps(written, u, x) == userExist(x) /\ x # u /\ ~existInGroup(written, u, x)

CollectOne(u, x, before) ==
  LET written == Write(before.g, u, before.n, x)
  IN [g |-> written, n |-> IF Keeps(written, u, x) THEN before.n + 1 ELSE before.n]

Collect(u, ids, start) ==
  LET upTo[i \in 0 .. Len(ids)] ==
        IF i = 0 THEN [g |-> friendsGroups, n |-> start]
        ELSE CollectOne(u, ids[i], upTo[i - 1])
  IN upTo[Len(ids)]

(* The first occurrence of x in the group of u is taken out. *)
Delete(g, n, u, x) ==
  LET places == {j \in 0 .. n - 1 : g[At(u, j)] = x}
      first == CHOOSE j \in places : \A k \in places : j <= k
  IN IF places = {} THEN [g |-> g, n |-> n]
     ELSE [g |-> [i \in DOMAIN g |-> IF i \in At(u, first) .. At(u, n - 2) THEN g[i + 1]
                                                                           ELSE g[i]],
           n |-> n - 1]

-----------------------------------------------------------------------------
(* The commands that change the table, for user u and the ids of the       *)
(* request.  Add leaves the first id in front of the row when the user has *)
(* never had a group, whose size is then -1.                               *)

SetGroup(u, new) ==
  /\ friendsGroups' = new.g
  /\ groupsSize' = [groupsSize EXCEPT ![u] = new.n]

Friends(u, ids) ==
  /\ IF Len(ids) > MAX_GROUP_SIZE THEN UNCHANGED <<groupsSize, friendsGroups>>
     ELSE SetGroup(u, Collect(u, ids, 0))
  /\ UNCHANGED <<users, runServer, stray>>

Add(u, ids) ==
  LET n == groupsSize[u] IN
  /\ IF Len(ids) + n > MAX_GROUP_SIZE THEN UNCHANGED groups
     ELSE /\ SetGroup(u, Collect(u, ids, n))
          /\ stray' = (stray \/ n < 0)
  /\ UNCHANGED <<users, runServer>>

DeleteAll(u, ids) ==
  LET upTo[i \in 0 .. Len(ids)] ==
        IF i = 0 THEN [g |-> friendsGroups, n |-> groupsSize[u]]
        ELSE Delete(upTo[i - 1].g, upTo[i - 1].n, u, ids[i])
  IN upTo[Len(ids)]

Del(u, ids) == SetGroup(u, DeleteAll(u, ids)) /\ UNCHANGED <<users, runServer, stray>>

(* Bug: the user stays in the groups of others. *)
StaysAFriend(u) ==
  /\ clientsQueueId' = [clientsQueueId EXCEPT ![u] = NoClient]
  /\ activeUserCount' = activeUserCount - 1
  /\ runServer' = (runServer /\ activeUserCount # 1)
  /\ UNCHANGED <<nextClientID, groups>>

(* The group of i without u. *)
Left(i, u) == IF i < nextClientID THEN Delete(friendsGroups, groupsSize[i], i, u)
              ELSE [g |-> friendsGroups, n |-> groupsSize[i]]

Stop(u) ==
  /\ clientsQueueId' = [clientsQueueId EXCEPT ![u] = NoClient]
  /\ groupsSize' = [i \in Slot |-> Left(i, u).n]
  /\ friendsGroups' = [p \in DOMAIN friendsGroups |-> Left(p \div MAX_GROUP_SIZE, u).g[p]]
  /\ activeUserCount' = activeUserCount - 1
  /\ runServer' = (runServer /\ activeUserCount # 1)
  /\ UNCHANGED <<nextClientID, stray>>

(* A new user, at the index that getFreeIndex gave. *)
Enter(index, q) ==
  /\ clientsQueueId' = [clientsQueueId EXCEPT ![index] = q]
  /\ activeUserCount' = activeUserCount + 1
  /\ nextClientID' = IF index = nextClientID THEN index + 1 ELSE nextClientID

-----------------------------------------------------------------------------

Registered == {u \in Slot : clientsQueueId[u] # NoClient}

Group(u) == {friendsGroups[At(u, j)] : j \in 0 .. groupsSize[u] - 1}

NoIdTwice == \A ids \in Lists : \A i, j \in DOMAIN ids : ids[i] = ids[j] => i = j

(* The first n elements of the row of user u are members of S, each there  *)
(* once.                                                                   *)
RowRight(g, n, u, S) ==
  \A j \in 0 .. n - 1 :
    /\ g[At(u, j)] \in S
    /\ \A k \in 0 .. n - 1 : g[At(u, j)] = g[At(u, k)] => j = k

-----------------------------------------------------------------------------
(* Properties of both servers.                                             *)

(* The number of active users that decides when the server ends, the table *)
(* and the next free id agree in every order of INIT, STOP and SIGINT,     *)
(* requests that come twice, from users who are gone or to the server      *)
(* before included (stopCMD, initCMD, getFreeIndex), and no two slots hold *)
(* one queue, although zad2 closes descriptors that stay in the table and  *)
(* are given out again (sendShutdownToAllClients).                         *)
UsersAgree ==
  /\ activeUserCount = Cardinality(Registered)
  /\ \A u \in Registered : u < nextClientID
  /\ \A u, v \in Registered : clientsQueueId[u] = clientsQueueId[v] => u = v

(* The rows have what users typed, as far as it is registered; whoever was *)
(* never there has no group.                                               *)
RowsInv ==
  /\ \A u \in Slot : u >= nextClientID => groupsSize[u] = -1
  /\ NoIdTwice /\ ~stray =>
       \A u \in Slot : RowRight(friendsGroups, groupsSize[u], u, Registered \ {u})
=============================================================================
