------------------------- MODULE ComputeCluster_proofs -------------------------
(***************************************************************************)
(* The table of clients of lab10 zad1 is right as long as the server has   *)
(* not ended, a message with a registered name never runs over the end of  *)
(* the table, and nobody answers more tasks than were sent: for every      *)
(* number of clients, names, slots, tasks and deaths.                      *)
(***************************************************************************)
EXTENDS ComputeCluster, Recursion, FiniteSetTheorems, SequenceTheorems

USE ClusterAssumption

-----------------------------------------------------------------------------
(* Sums over a finite set. *)

Pick(s) == CHOOSE x \in s : TRUE

(* What SumFunction adds up, one element after another. *)
Summand(w, g, s) == IF s = {} THEN 0 ELSE w[Pick(s)] + g[s \ {Pick(s)}]
IsSum(f, w, S) == f = [s \in SUBSET S |-> Summand(w, f, s)]

LEMMA SubsetFacts ==
  ASSUME NEW S, IsFiniteSet(S), NEW s \in SUBSET S
  PROVE  /\ Cardinality(s) \in Nat /\ Cardinality(s) <= Cardinality(S)
         /\ (Cardinality(s) <= 0 => s = {})
         /\ s # {} => /\ Pick(s) \in s /\ s \ {Pick(s)} \in SUBSET S
                      /\ Cardinality(s \ {Pick(s)}) = Cardinality(s) - 1
<1>1. IsFiniteSet(s) /\ Cardinality(s) <= Cardinality(S)
  BY FS_Subset
<1>2. Cardinality(s) \in Nat /\ (Cardinality(s) = 0 => s = {})
  BY <1>1, FS_CardinalityType, FS_EmptySet
<1>3. s # {} => Pick(s) \in s
  BY DEF Pick
<1>4. s # {} => Cardinality(s \ {Pick(s)}) = Cardinality(s) - 1
  BY <1>1, <1>3, FS_RemoveElement
<1> QED
  BY <1>1, <1>2, <1>3, <1>4

LEMMA SumExists ==
  ASSUME NEW S, IsFiniteSet(S), NEW w \in [S -> Nat]
  PROVE  \E f : IsSum(f, w, S)
<1> DEFINE n == Cardinality(S)
           Fn == [SUBSET S -> Nat]
           sum(g) == [s \in SUBSET S |-> Summand(w, g, s)]
           none == [s \in SUBSET S |-> 0]
           step == [x \in (1 .. n + 1) \X Fn |-> sum(x[2])]
<1>0. n \in Nat
  BY FS_CardinalityType
<1>1. \A g \in Fn : sum(g) \in Fn
  <2> SUFFICES ASSUME NEW g \in Fn, NEW s \in SUBSET S PROVE Summand(w, g, s) \in Nat
    OBVIOUS
  <2>1. CASE s = {}
    BY <2>1 DEF Summand
  <2>2. CASE s # {}
    <3>1. Pick(s) \in S /\ s \ {Pick(s)} \in SUBSET S
      BY <2>2, SubsetFacts
    <3>2. w[Pick(s)] \in Nat /\ g[s \ {Pick(s)}] \in Nat
      BY <3>1
    <3> QED
      BY <2>2, <3>2 DEF Summand
  <2> QED
    BY <2>1, <2>2
<1>2. none \in Fn
  OBVIOUS
<1> HIDE DEF n
<1>3. \A i \in 1 .. n + 1, g \in Fn : step[<<i, g>>] = sum(g)
  OBVIOUS
<1>4. step \in [(1 .. n + 1) \X Fn -> Fn]
  <2> HIDE DEF sum, Fn
  <2> QED
    BY <1>1
<1> HIDE DEF step, none, Fn
<1>5. PICK f : Steps(f, n + 1, Fn, none, step)
  <2>1. n + 1 \in Nat
    BY <1>0
  <2> QED
    BY <1>2, <1>4, <2>1, RecursionExists DEF CanStep
<1>6. \A k \in 0 .. n : f[k] \in Fn /\ f[k + 1] = sum(f[k])
  <2> SUFFICES ASSUME NEW k \in 0 .. n PROVE f[k] \in Fn /\ f[k + 1] = sum(f[k])
    OBVIOUS
  <2>1. k + 1 \in 1 .. n + 1 /\ (k + 1) - 1 = k /\ k \in 0 .. n + 1
    BY <1>0
  <2>2. f[k + 1] = step[<<k + 1, f[k]>>] /\ f[k] \in Fn
    BY <1>5, <2>1 DEF Steps
  <2> QED
    BY <1>3, <2>1, <2>2
<1>7. f[0] = none
  BY <1>5 DEF Steps
<1> DEFINE T == {k \in Nat : k <= n => \A s \in SUBSET S :
                                Cardinality(s) <= k => f[k + 1][s] = f[k][s]}
<1>8. 0 \in T
  <2> SUFFICES ASSUME NEW s \in SUBSET S, Cardinality(s) <= 0 PROVE f[1][s] = f[0][s]
    OBVIOUS
  <2>1. s = {}
    BY SubsetFacts
  <2>2. f[1] = sum(f[0]) /\ f[0][s] = 0
    BY <1>0, <1>6, <1>7 DEF none
  <2> QED
    BY <2>1, <2>2 DEF Summand
<1>9. ASSUME NEW k \in Nat, k \in T PROVE k + 1 \in T
  <2> SUFFICES ASSUME k + 1 <= n, NEW s \in SUBSET S, Cardinality(s) <= k + 1
               PROVE  f[(k + 1) + 1][s] = f[k + 1][s]
    OBVIOUS
  <2>1. k \in 0 .. n /\ k + 1 \in 0 .. n
    BY <1>0
  <2>2. f[(k + 1) + 1] = sum(f[k + 1]) /\ f[k + 1] = sum(f[k])
    BY <1>6, <2>1
  <2>3. f[(k + 1) + 1][s] = Summand(w, f[k + 1], s) /\ f[k + 1][s] = Summand(w, f[k], s)
    BY <2>2
  <2>4. CASE s = {}
    BY <2>3, <2>4 DEF Summand
  <2>5. CASE s # {}
    <3>1. s \ {Pick(s)} \in SUBSET S /\ Cardinality(s \ {Pick(s)}) <= k
      <4>1. /\ Cardinality(s) \in Nat /\ s \ {Pick(s)} \in SUBSET S
            /\ Cardinality(s \ {Pick(s)}) = Cardinality(s) - 1
        BY <2>5, SubsetFacts
      <4> QED
        BY <4>1
    <3>2. f[k + 1][s \ {Pick(s)}] = f[k][s \ {Pick(s)}]
      BY <1>9, <2>1, <3>1
    <3> QED
      BY <2>3, <2>5, <3>2 DEF Summand
  <2> QED
    BY <2>4, <2>5
<1> HIDE DEF T
<1>10. n \in T
  BY <1>0, <1>8, <1>9, Induction
<1>11. f[n] \in Fn /\ f[n + 1] = sum(f[n])
  <2>1. n \in 0 .. n
    BY <1>0
  <2> QED
    BY <1>6, <2>1
<1>12. \A s \in SUBSET S : f[n + 1][s] = f[n][s]
  BY <1>0, <1>10, SubsetFacts DEF T, n
<1>13. f[n + 1] = f[n]
  <2>1. f[n + 1] \in Fn /\ f[n] \in Fn
    BY <1>1, <1>11
  <2> QED
    BY <1>12, <2>1 DEF Fn
<1>14. IsSum(f[n], w, S)
  BY <1>13, <1>11 DEF IsSum
<1> QED
  BY <1>14

(* Sums are numbers, and if one summand changes, they change by as much. *)
SumsDiffer(f, g, w, v, x, s) ==
  /\ f[s] \in Nat /\ g[s] \in Nat
  /\ IF x \in s THEN g[s] + w[x] = f[s] + v[x] ELSE g[s] = f[s]

LEMMA SumChange ==
  ASSUME NEW S, IsFiniteSet(S), NEW w \in [S -> Nat], NEW v \in [S -> Nat],
         NEW f, IsSum(f, w, S), NEW g, IsSum(g, v, S), NEW x,
         \A c \in S \ {x} : v[c] = w[c]
  PROVE  \A s \in SUBSET S : SumsDiffer(f, g, w, v, x, s)
<1> DEFINE T == {k \in Nat : \A s \in SUBSET S :
                   Cardinality(s) <= k => SumsDiffer(f, g, w, v, x, s)}
<1>0. \A s \in SUBSET S : f[s] = Summand(w, f, s) /\ g[s] = Summand(v, g, s)
  BY DEF IsSum
<1>1. 0 \in T
  <2> SUFFICES ASSUME NEW s \in SUBSET S, Cardinality(s) <= 0
               PROVE  SumsDiffer(f, g, w, v, x, s)
    OBVIOUS
  <2>1. s = {}
    BY SubsetFacts
  <2>2. f[s] = 0 /\ g[s] = 0
    BY <1>0, <2>1 DEF Summand
  <2> QED
    BY <2>1, <2>2 DEF SumsDiffer
<1>2. ASSUME NEW k \in Nat, k \in T PROVE k + 1 \in T
  <2> SUFFICES ASSUME NEW s \in SUBSET S, Cardinality(s) <= k + 1
               PROVE  SumsDiffer(f, g, w, v, x, s)
    OBVIOUS
  <2>0. CASE s = {}
    <3>1. Cardinality(s) <= k
      BY <2>0, FS_EmptySet
    <3> QED
      BY <1>2, <3>1
  <2> SUFFICES ASSUME s # {} PROVE SumsDiffer(f, g, w, v, x, s)
    BY <2>0
  <2> DEFINE p == Pick(s)
             r == s \ {p}
  <2>1. /\ Cardinality(s) \in Nat /\ p \in s /\ r \in SUBSET S
        /\ Cardinality(r) = Cardinality(s) - 1
    BY SubsetFacts
  <2>2. f[s] = w[p] + f[r] /\ g[s] = v[p] + g[r]
    BY <1>0 DEF Summand
  <2> HIDE DEF p
  <2>3. SumsDiffer(f, g, w, v, x, r)
    <3>1. Cardinality(r) <= k
      BY <2>1
    <3> HIDE DEF r
    <3> QED
      BY <1>2, <2>1, <3>1
  <2>4. w[p] \in Nat /\ v[p] \in Nat
    BY <2>1
  <2>5. CASE p = x
    BY <2>1, <2>2, <2>3, <2>4, <2>5 DEF SumsDiffer
  <2>6. CASE p # x
    <3>1. v[p] = w[p] /\ (x \in s <=> x \in r)
      BY <2>1, <2>6
    <3>2. x \in s => w[x] \in Nat /\ v[x] \in Nat
      OBVIOUS
    <3> HIDE DEF r
    <3> QED
      BY <2>2, <2>3, <2>4, <3>1, <3>2 DEF SumsDiffer
  <2> QED
    BY <2>5, <2>6
<1> HIDE DEF T
<1>3. \A k \in Nat : k \in T
  BY <1>1, <1>2, Induction
<1>4. \A s \in SUBSET S : Cardinality(s) \in Nat
  BY SubsetFacts
<1> QED
  BY <1>3, <1>4 DEF T

LEMMA TotalIsSum ==
  ASSUME NEW S, IsFiniteSet(S), NEW w \in [S -> Nat]
  PROVE  \E f : IsSum(f, w, S) /\ SumFunction(w) = f[S]
<1> DEFINE f == CHOOSE f : IsSum(f, w, S)
<1>1. IsSum(f, w, S)
  BY SumExists
<1>2. SumFunction(w) = f[S]
  <2>1. DOMAIN w = S
    OBVIOUS
  <2> QED
    BY <2>1 DEF SumFunction, SumFunctionOnSet, FoldFunctionOnSet, MapThenFoldSet, IsSum, Summand, Pick
<1> HIDE DEF f
<1> QED
  BY <1>1, <1>2

LEMMA TotalIsNat ==
  ASSUME NEW S, IsFiniteSet(S), NEW w \in [S -> Nat]
  PROVE  SumFunction(w) \in Nat
<1>1. PICK f : IsSum(f, w, S) /\ SumFunction(w) = f[S]
  BY TotalIsSum
<1>2. SumsDiffer(f, f, w, w, S, S)
  BY <1>1, SumChange
<1> QED
  BY <1>1, <1>2 DEF SumsDiffer

LEMMA NoSum ==
  ASSUME NEW S, IsFiniteSet(S), NEW w \in [S -> Nat], \A c \in S : w[c] = 0
  PROVE  SumFunction(w) = 0
<1>1. PICK f : IsSum(f, w, S) /\ SumFunction(w) = f[S]
  BY TotalIsSum
<1> DEFINE T == {k \in Nat : \A s \in SUBSET S : Cardinality(s) <= k => f[s] = 0}
<1>2. \A s \in SUBSET S : f[s] = Summand(w, f, s)
  BY <1>1 DEF IsSum
<1>3. 0 \in T
  <2> SUFFICES ASSUME NEW s \in SUBSET S, Cardinality(s) <= 0 PROVE f[s] = 0
    OBVIOUS
  <2>1. s = {}
    BY SubsetFacts
  <2> QED
    BY <1>2, <2>1 DEF Summand
<1>4. ASSUME NEW k \in Nat, k \in T PROVE k + 1 \in T
  <2>0. f[{}] = 0
    BY <1>2 DEF Summand
  <2> SUFFICES ASSUME NEW s \in SUBSET S, Cardinality(s) <= k + 1, s # {} PROVE f[s] = 0
    <3>1. k + 1 \in Nat
      OBVIOUS
    <3> QED
      BY <2>0, <3>1
  <2> DEFINE p == Pick(s)
             r == s \ {p}
  <2>1. /\ Cardinality(s) \in Nat /\ p \in s /\ r \in SUBSET S
        /\ Cardinality(r) = Cardinality(s) - 1
    BY SubsetFacts
  <2>2. f[s] = w[p] + f[r]
    BY <1>2 DEF Summand
  <2> HIDE DEF p, r
  <2>3. f[r] = 0
    BY <1>4, <2>1
  <2> QED
    BY <2>1, <2>2, <2>3
<1> HIDE DEF T
<1>5. \A k \in Nat : k \in T
  BY <1>3, <1>4, Induction
<1>6. Cardinality(S) \in Nat
  BY SubsetFacts
<1> QED
  BY <1>1, <1>5, <1>6 DEF T

LEMMA TotalChange ==
  ASSUME NEW S, IsFiniteSet(S), NEW w \in [S -> Nat], NEW v \in [S -> Nat], NEW x \in S,
         \A c \in S \ {x} : v[c] = w[c]
  PROVE  /\ SumFunction(w) \in Nat /\ SumFunction(v) \in Nat
         /\ SumFunction(v) + w[x] = SumFunction(w) + v[x]
<1>1. PICK f : IsSum(f, w, S) /\ SumFunction(w) = f[S]
  BY TotalIsSum
<1>2. PICK g : IsSum(g, v, S) /\ SumFunction(v) = g[S]
  BY TotalIsSum
<1>3. SumsDiffer(f, g, w, v, x, S)
  BY <1>1, <1>2, SumChange
<1> QED
  BY <1>1, <1>2, <1>3 DEF SumsDiffer

-----------------------------------------------------------------------------
(* The type invariant, in parts. *)

Fd == Client \union {Listener}
ToServerBox == Plain \union [type : {WORK_ACTION}, id : Result]
ToClientBox == Plain \union [type : {WORK_ACTION}, id : Task]

TypeTable ==
  /\ clients \in [Slot -> [who : Client \union {NULL}, free : 0 .. 1, status : 0 .. 1]]
  /\ clientCount \in 0 .. MAX_CLIENTS /\ freed \subseteq Client

TypeServer ==
  /\ operationCount \in 0 .. MaxTasks
  /\ spc \in {"wait", "serve", "reply", "undefined", "SIGSEGV", "SIGPIPE"}
  /\ ping \in {"ping", "sweep"} /\ printed \in Nat

TypeEpoll ==
  /\ events \in Seq([fd : Fd, events : {1, 17, 25}]) /\ ready \in Seq(Fd)
  /\ backlog \in Seq(Client) /\ accepted \subseteq Client

TypeBoxes == outbox \in [Client -> Seq(ToServerBox)] /\ inbox \in [Client -> Seq(ToClientBox)]

TypeClient ==
  /\ socket \in [Client -> {"open", "closed", "reset"}]
  /\ pc \in [Client -> {"new", "connected", "running", "cleaning", "exiting", "ended"}]
  /\ text \in [Client -> Result]
  /\ started \in [Client -> Nat] /\ results \in [Client -> Seq(Result)]
  /\ NoWorkBefore

Deaths == Leaving <= MaxDeaths

Types == TypeTable /\ TypeServer /\ TypeEpoll /\ TypeBoxes /\ TypeClient /\ Deaths

LEMMA TypeParts == (TypeOK /\ NoWorkBefore <=> Types) /\ (TypeOK' /\ NoWorkBefore' <=> Types')
BY DEF TypeOK, Types, TypeTable, TypeServer, TypeEpoll, TypeBoxes, TypeClient, Deaths, Fd,
       ToServerBox, ToClientBox

LEMMA SameDeaths ==
  ASSUME Deaths, \A c \in Client : pc'[c] \in {"exiting", "ended"} <=> pc[c] \in {"exiting", "ended"}
  PROVE  Deaths'
<1>1. {c \in Client : pc'[c] \in {"exiting", "ended"}} = {c \in Client : pc[c] \in {"exiting", "ended"}}
  OBVIOUS
<1> QED
  BY <1>1 DEF Deaths, Leaving

LEMMA OneDies ==
  ASSUME Leaving < MaxDeaths, NEW c \in Client, \A d \in Client \ {c} : pc'[d] = pc[d]
  PROVE  Deaths'
<1> DEFINE Gone == {d \in Client : pc[d] \in {"exiting", "ended"}}
           Now == {d \in Client : pc'[d] \in {"exiting", "ended"}}
<1>1. IsFiniteSet(Gone) /\ IsFiniteSet(Gone \cup {c})
  BY FS_Subset, FS_AddElement
<1>2. Now \subseteq Gone \cup {c}
  OBVIOUS
<1>3. Cardinality(Gone) < MaxDeaths /\ (Cardinality(Now) <= MaxDeaths => Deaths')
  BY DEF Leaving, Deaths
<1> HIDE DEF Gone, Now
<1>4. Cardinality(Gone \cup {c}) <= Cardinality(Gone) + 1
  BY <1>1, FS_AddElement, FS_CardinalityType
<1>5. Cardinality(Now) <= Cardinality(Gone \cup {c})
  BY <1>1, <1>2, FS_Subset
<1>6. /\ Cardinality(Gone) \in Nat /\ Cardinality(Gone \cup {c}) \in Nat
      /\ Cardinality(Now) \in Nat
  BY <1>1, <1>2, FS_CardinalityType, FS_Subset
<1> QED
  BY <1>3, <1>4, <1>5, <1>6

-----------------------------------------------------------------------------
(* What a client does leaves the table alone. *)

LEMMA TriggerFacts ==
  ASSUME ready \in Seq(Fd), Once(ready), NEW fd \in Fd
  PROVE  Trigger(fd) \in Seq(Fd) /\ Once(Trigger(fd))
<1>1. CASE \E i \in DOMAIN ready : ready[i] = fd
  BY <1>1 DEF Trigger
<1>2. CASE ~(\E i \in DOMAIN ready : ready[i] = fd)
  <2>1. Trigger(fd) = Append(ready, fd)
    BY <1>2 DEF Trigger
  <2> QED
    BY <1>2, <2>1 DEF Once
<1> QED
  BY <1>1, <1>2

Triggers == ready' = ready \/ \E fd \in Fd : ready' = Trigger(fd)

(* The part of the invariant that is about the server. *)
ServerRight == TypeTable /\ TypeServer /\ TypeEpoll /\ TableRight /\ AllFree /\ Reported

LEMMA ClientSide ==
  ASSUME ServerRight, Up, Elsewhere, Triggers,
         backlog' = backlog \/ \E c \in Client : backlog' = Append(backlog, c)
  PROVE  ServerRight' /\ Up' /\ Registered' = Registered /\ freed' = freed
<1> USE DEF ServerRight
<1>0. /\ clients' = clients /\ clientCount' = clientCount /\ freed' = freed
      /\ operationCount' = operationCount /\ spc' = spc /\ events' = events
      /\ accepted' = accepted /\ ping' = ping /\ printed' = printed
  BY DEF Elsewhere, table
<1>1. TypeTable' /\ TypeServer' /\ Up' /\ Registered' = Registered
  BY <1>0 DEF TypeTable, TypeServer, Up, Registered
<1>2. TableRight' /\ AllFree'
  BY <1>0 DEF TableRight, AllFree, Used, Registered
<1>3. ready' \in Seq(Fd) /\ Once(ready')
  BY TriggerFacts DEF Triggers, TypeEpoll, Reported
<1>4. backlog' \in Seq(Client) /\ (backlog # <<>> => backlog' # <<>>)
  <2>1. backlog \in Seq(Client)
    BY DEF TypeEpoll
  <2> HIDE DEF ServerRight
  <2> QED
    BY <2>1
<1>5. TypeEpoll'
  BY <1>0, <1>3, <1>4 DEF TypeEpoll
<1>6. Reported'
  <2>1. Once([i \in DOMAIN events' |-> events'[i].fd])
    BY <1>0 DEF Reported
  <2>2. \A i \in DOMAIN events' : events'[i].fd = Listener => backlog' # <<>>
    BY <1>0, <1>4 DEF Reported
  <2>3. spc' \in {"serve", "reply"} => events' # <<>>
    BY <1>0 DEF Reported
  <2> QED
    BY <1>3, <2>1, <2>2, <2>3 DEF Reported
<1> QED
  BY <1>0, <1>1, <1>2, <1>5, <1>6

(* A client asks for its registration once, whoever else does what. *)
AsksOnce(p, box, in) ==
  /\ p \in {"new", "connected"} => box = <<>> /\ ~in
  /\ \A i \in DOMAIN box : box[i].type = REGISTER_ACTION => i = 1 /\ ~in

Known(c) == c \in Registered \union freed

LEMMA AskingParts ==
  /\ RegistersOnce <=> \A c \in Client : AsksOnce(pc[c], outbox[c], Known(c))
  /\ RegistersOnce' <=> \A c \in Client : AsksOnce(pc'[c], outbox'[c], Known(c)')
BY DEF RegistersOnce, AsksOnce, Known

LEMMA OneAsks ==
  ASSUME RegistersOnce, Registered' = Registered, freed' = freed, NEW c \in Client,
         \A d \in Client \ {c} : outbox'[d] = outbox[d] /\ pc'[d] = pc[d],
         AsksOnce(pc'[c], outbox'[c], Known(c))
  PROVE  RegistersOnce'
BY AskingParts DEF Known

LEMMA SendsMore ==
  ASSUME NEW p, NEW q, NEW box \in Seq(ToServerBox), NEW m, m.type # REGISTER_ACTION, NEW in,
         AsksOnce(p, box, in), q \notin {"new", "connected"}
  PROVE  AsksOnce(q, Append(box, m), in)
<1>1. \A i \in DOMAIN Append(box, m) :
        Append(box, m)[i].type = REGISTER_ACTION => i \in DOMAIN box /\ Append(box, m)[i] = box[i]
  OBVIOUS
<1> QED
  BY <1>1 DEF AsksOnce

LEMMA ToServerFacts ==
  ASSUME TypeBoxes, NEW c \in Client, NEW m \in ToServerBox, ToServer(c, m)
  PROVE  /\ outbox' \in [Client -> Seq(ToServerBox)] /\ outbox'[c] = Append(outbox[c], m)
         /\ \A d \in Client \ {c} : outbox'[d] = outbox[d]
         /\ Triggers
<1>1. outbox' = [outbox EXCEPT ![c] = Append(@, m)]
  BY DEF ToServer
<1>2. Triggers
  BY DEF ToServer, Triggers, Fd
<1>3. Append(outbox[c], m) \in Seq(ToServerBox)
  BY DEF TypeBoxes
<1> QED
  BY <1>1, <1>2, <1>3 DEF TypeBoxes

LEMMA MessageTypes ==
  /\ \A t \in {REGISTER_ACTION, LOGOUT_ACTION, PING_ACTION} :
       Message(t, NoId) \in Plain /\ Message(t, NoId).type = t
  /\ \A i \in Result : /\ Message(WORK_ACTION, i) \in ToServerBox
                       /\ Message(WORK_ACTION, i).type = WORK_ACTION
  /\ \A i \in Task : /\ Message(WORK_ACTION, i) \in ToClientBox
                     /\ Message(WORK_ACTION, i).type = WORK_ACTION
BY DEF Message, Plain, ToServerBox, ToClientBox

Inv == Types /\ (Up => TableRight /\ AllFree /\ RegistersOnce /\ Reported)

LEMMA InvParts == (TableInv <=> Inv) /\ (TableInv' <=> Inv')
BY TypeParts DEF TableInv, Inv, Up

LEMMA Together ==
  ASSUME ServerRight', TypeBoxes', TypeClient', Deaths', RegistersOnce'
  PROVE  Inv'
BY DEF ServerRight, Inv, Types

LEMMA ConnectStep ==
  ASSUME Inv, Up, NEW c \in Client, Connect(c)
  PROVE  Inv'
<1>0. ServerRight /\ TypeBoxes /\ TypeClient /\ Deaths /\ RegistersOnce
  BY DEF Inv, Types, ServerRight
<1>1. /\ Elsewhere /\ pc[c] = "new" /\ pc' = [pc EXCEPT ![c] = "connected"]
      /\ backlog' = Append(backlog, c) /\ ready' = Trigger(Listener)
      /\ UNCHANGED <<outbox, inbox, socket, text, started, results>>
  BY DEF Connect, worker
<1>2. Triggers
  BY <1>1 DEF Triggers, Fd
<1>3. ServerRight' /\ Registered' = Registered /\ freed' = freed
  BY <1>0, <1>1, <1>2, ClientSide
<1>4. pc'[c] = "connected" /\ \A d \in Client \ {c} : pc'[d] = pc[d]
  BY <1>0, <1>1 DEF TypeClient
<1>5. TypeBoxes' /\ TypeClient'
  BY <1>0, <1>1 DEF TypeBoxes, TypeClient, NoWorkBefore
<1>6. Deaths'
  BY <1>0, <1>1, <1>4, SameDeaths
<1>7. AsksOnce(pc[c], outbox[c], Known(c))
  BY <1>0, AskingParts
<1>8. RegistersOnce'
  BY <1>0, <1>1, <1>3, <1>4, <1>7, OneAsks DEF AsksOnce
<1> QED
  BY <1>3, <1>5, <1>6, <1>8, Together

LEMMA RegisterStep ==
  ASSUME Inv, Up, NEW c \in Client, Register(c)
  PROVE  Inv'
<1>0. ServerRight /\ TypeBoxes /\ TypeClient /\ Deaths /\ RegistersOnce
  BY DEF Inv, Types, ServerRight
<1> DEFINE m == Message(REGISTER_ACTION, NoId)
<1>1. /\ Elsewhere /\ pc[c] = "connected" /\ pc' = [pc EXCEPT ![c] = "running"]
      /\ ToServer(c, m) /\ backlog' = backlog
      /\ UNCHANGED <<inbox, socket, text, started, results>>
  BY DEF Register, worker
<1>2. m \in ToServerBox
  BY MessageTypes DEF ToServerBox
<1> HIDE DEF m
<1>3. /\ outbox' \in [Client -> Seq(ToServerBox)] /\ outbox'[c] = Append(outbox[c], m)
      /\ \A d \in Client \ {c} : outbox'[d] = outbox[d]
      /\ Triggers
  BY <1>0, <1>1, <1>2, ToServerFacts
<1>4. ServerRight' /\ Registered' = Registered /\ freed' = freed
  BY <1>0, <1>1, <1>3, ClientSide
<1>5. pc'[c] = "running" /\ \A d \in Client \ {c} : pc'[d] = pc[d]
  BY <1>0, <1>1 DEF TypeClient
<1>6. TypeBoxes' /\ TypeClient'
  BY <1>0, <1>1, <1>3 DEF TypeBoxes, TypeClient, NoWorkBefore
<1>7. Deaths'
  BY <1>0, <1>1, <1>5, SameDeaths
<1>8. AsksOnce(pc[c], outbox[c], Known(c))
  BY <1>0, AskingParts
<1>9. AsksOnce(pc'[c], outbox'[c], Known(c))
  <2>1. outbox[c] = <<>> /\ ~Known(c)
    BY <1>1, <1>8 DEF AsksOnce
  <2>2. DOMAIN outbox'[c] = {1}
    BY <1>3, <2>1
  <2> QED
    BY <1>5, <2>1, <2>2 DEF AsksOnce
<1>10. RegistersOnce'
  BY <1>0, <1>3, <1>4, <1>5, <1>9, OneAsks
<1> QED
  BY <1>4, <1>6, <1>7, <1>10, Together
LEMMA ClientMoves ==
  ASSUME Inv, Up, NEW c \in Client, Elsewhere, Triggers, backlog' = backlog,
         TypeBoxes', TypeClient', Deaths',
         \A d \in Client \ {c} : outbox'[d] = outbox[d] /\ pc'[d] = pc[d],
         AsksOnce(pc[c], outbox[c], Known(c)) => AsksOnce(pc'[c], outbox'[c], Known(c))
  PROVE  Inv'
<1>1. ServerRight /\ RegistersOnce
  BY DEF Inv, Types, ServerRight
<1>2. ServerRight' /\ Registered' = Registered /\ freed' = freed
  BY <1>1, ClientSide
<1>3. RegistersOnce'
  BY <1>1, <1>2, AskingParts, OneAsks
<1> QED
  BY <1>2, <1>3, Together

LEMMA FromServer ==
  ASSUME TypeBoxes, NEW c \in Client, inbox[c] # <<>>
  PROVE  /\ Head(inbox[c]).type = WORK_ACTION => Head(inbox[c]).id \in Task
         /\ Tail(inbox[c]) \in Seq(ToClientBox)
<1>1. Head(inbox[c]) \in ToClientBox /\ Tail(inbox[c]) \in Seq(ToClientBox)
  BY DEF TypeBoxes
<1> QED
  BY <1>1 DEF ToClientBox, Plain, WORK_ACTION, REGISTER_ACTION, LOGOUT_ACTION, PING_ACTION

LEMMA ReceiveStep ==
  ASSUME Inv, Up, NEW c \in Client, Receive(c)
  PROVE  Inv'
<1>0. TypeBoxes /\ TypeClient /\ Deaths
  BY DEF Inv, Types
<1> DEFINE m == Head(inbox[c])
           pong == Message(PING_ACTION, NoId)
<1>1. /\ Elsewhere /\ pc[c] = "running" /\ inbox[c] # <<>> /\ backlog' = backlog
      /\ text' = [text EXCEPT ![c] = IF m.type = WORK_ACTION THEN m.id ELSE Empty]
      /\ inbox' = [inbox EXCEPT ![c] = Tail(@)]
      /\ socket' = socket /\ results' = results
  BY DEF Receive
<1>2. (m.type = WORK_ACTION => m.id \in Task) /\ Tail(inbox[c]) \in Seq(ToClientBox)
  BY <1>0, <1>1, FromServer
<1>3. text' \in [Client -> Result]
  BY <1>0, <1>1, <1>2 DEF TypeClient, Result
<1>4. inbox' \in [Client -> Seq(ToClientBox)]
  BY <1>0, <1>1, <1>2 DEF TypeBoxes
<1>5. CASE /\ started' = [started EXCEPT ![c] = @ + 1] /\ pc' = [pc EXCEPT ![c] = "cleaning"]
           /\ UNCHANGED <<outbox, ready>>
  <2>1. pc'[c] = "cleaning" /\ \A d \in Client \ {c} : outbox'[d] = outbox[d] /\ pc'[d] = pc[d]
    BY <1>0, <1>5 DEF TypeClient
  <2>2. TypeBoxes' /\ TypeClient'
    BY <1>0, <1>1, <1>3, <1>4, <1>5 DEF TypeBoxes, TypeClient, NoWorkBefore
  <2>3. Deaths'
    BY <1>0, <1>1, <2>1, SameDeaths
  <2>4. AsksOnce(pc[c], outbox[c], Known(c)) => AsksOnce(pc'[c], outbox'[c], Known(c))
    BY <1>5, <2>1 DEF AsksOnce
  <2> QED
    BY <1>1, <1>5, <2>1, <2>2, <2>3, <2>4, ClientMoves DEF Triggers
<1>6. CASE ToServer(c, pong) /\ UNCHANGED <<pc, started>>
  <2>1. pong \in ToServerBox /\ pong.type # REGISTER_ACTION
    BY MessageTypes DEF ToServerBox, PING_ACTION, REGISTER_ACTION
  <2> HIDE DEF pong
  <2>2. /\ outbox' \in [Client -> Seq(ToServerBox)] /\ outbox'[c] = Append(outbox[c], pong)
        /\ \A d \in Client \ {c} : outbox'[d] = outbox[d]
        /\ Triggers
    BY <1>0, <1>6, <2>1, ToServerFacts
  <2>3. TypeBoxes' /\ TypeClient'
    BY <1>0, <1>1, <1>3, <1>4, <1>6, <2>2 DEF TypeBoxes, TypeClient, NoWorkBefore
  <2>4. Deaths'
    BY <1>0, <1>6, SameDeaths
  <2>5. AsksOnce(pc[c], outbox[c], Known(c)) => AsksOnce(pc'[c], outbox'[c], Known(c))
    <3>1. outbox[c] \in Seq(ToServerBox) /\ pc'[c] = "running"
      BY <1>0, <1>1, <1>6 DEF TypeBoxes
    <3> QED
      BY <2>1, <2>2, <3>1, SendsMore
  <2> QED
    BY <1>1, <1>6, <2>2, <2>3, <2>4, <2>5, ClientMoves
<1>7. CASE UNCHANGED <<pc, started, outbox, ready>>
  <2>1. TypeBoxes' /\ TypeClient'
    BY <1>0, <1>1, <1>3, <1>4, <1>7 DEF TypeBoxes, TypeClient, NoWorkBefore
  <2>2. Deaths'
    BY <1>0, <1>7, SameDeaths
  <2> QED
    BY <1>1, <1>7, <2>1, <2>2, ClientMoves DEF Triggers
<1> QED
  BY <1>5, <1>6, <1>7 DEF Receive

LEMMA CleanStep ==
  ASSUME Inv, Up, NEW c \in Client, Clean(c)
  PROVE  Inv'
<1>0. TypeBoxes /\ TypeClient /\ Deaths
  BY DEF Inv, Types
<1>1. /\ Elsewhere /\ pc[c] = "cleaning" /\ pc' = [pc EXCEPT ![c] = "running"]
      /\ text' = [text EXCEPT ![c] = Garbage]
      /\ UNCHANGED <<ready, backlog, outbox, inbox, socket, started, results>>
  BY DEF Clean
<1>2. pc'[c] = "running" /\ \A d \in Client \ {c} : pc'[d] = pc[d]
  BY <1>0, <1>1 DEF TypeClient
<1>3. TypeBoxes' /\ TypeClient'
  BY <1>0, <1>1 DEF TypeBoxes, TypeClient, NoWorkBefore, Result
<1>4. Deaths'
  BY <1>0, <1>1, <1>2, SameDeaths
<1>5. AsksOnce(pc[c], outbox[c], Known(c)) => AsksOnce(pc'[c], outbox'[c], Known(c))
  BY <1>1, <1>2 DEF AsksOnce
<1> QED
  BY <1>1, <1>2, <1>3, <1>4, <1>5, ClientMoves DEF Triggers

LEMMA WorkerReadStep ==
  ASSUME Inv, Up, NEW c \in Client, WorkerRead(c)
  PROVE  Inv'
<1>0. TypeBoxes /\ TypeClient /\ Deaths
  BY DEF Inv, Types
<1>1. /\ Elsewhere /\ started[c] > 0 /\ started' = [started EXCEPT ![c] = @ - 1]
      /\ results' = [results EXCEPT ![c] = Append(@, text[c])]
      /\ UNCHANGED <<ready, backlog, outbox, inbox, socket, pc, text>>
  BY DEF WorkerRead
<1>2. TypeBoxes'
  BY <1>0, <1>1 DEF TypeBoxes
<1>3. started' \in [Client -> Nat]
  BY <1>0, <1>1 DEF TypeClient
<1>4. results' \in [Client -> Seq(Result)]
  <2>1. Append(results[c], text[c]) \in Seq(Result)
    BY <1>0 DEF TypeClient
  <2> QED
    BY <1>0, <1>1, <2>1 DEF TypeClient
<1>5. TypeClient' /\ Deaths'
  BY <1>0, <1>1, <1>3, <1>4, SameDeaths DEF TypeClient, NoWorkBefore
<1> QED
  BY <1>1, <1>2, <1>5, ClientMoves DEF Triggers

LEMMA Without ==
  ASSUME NEW T, NEW q \in Seq(T), NEW i \in DOMAIN q
  PROVE  /\ q[i] \in T
         /\ SubSeq(q, 1, i - 1) \o SubSeq(q, i + 1, Len(q)) \in Seq(T)
         /\ Len(SubSeq(q, 1, i - 1) \o SubSeq(q, i + 1, Len(q))) = Len(q) - 1
<1> DEFINE before == SubSeq(q, 1, i - 1)
           behind == SubSeq(q, i + 1, Len(q))
<1>1. i \in 1 .. Len(q) /\ Len(q) \in Nat /\ q[i] \in T
  OBVIOUS
<1>2. before \in Seq(T) /\ Len(before) = i - 1
  BY <1>1
<1>3. behind \in Seq(T) /\ Len(behind) = Len(q) - i
  BY <1>1
<1> HIDE DEF before, behind
<1>4. before \o behind \in Seq(T) /\ Len(before \o behind) = Len(before) + Len(behind)
  BY <1>2, <1>3, ConcatProperties
<1>5. Len(before \o behind) = Len(q) - 1
  BY <1>1, <1>2, <1>3, <1>4
<1> QED
  BY <1>1, <1>4, <1>5 DEF before, behind

LEMMA WorkerSendStep ==
  ASSUME Inv, Up, NEW c \in Client, WorkerSend(c)
  PROVE  Inv'
<1>0. TypeBoxes /\ TypeClient /\ Deaths
  BY DEF Inv, Types
<1>1. PICK i \in DOMAIN results[c] :
        /\ ToServer(c, Message(WORK_ACTION, results[c][i]))
        /\ results' = [results EXCEPT ![c] = SubSeq(@, 1, i - 1) \o SubSeq(@, i + 1, Len(@))]
  BY DEF WorkerSend
<1> DEFINE m == Message(WORK_ACTION, results[c][i])
<1>2. Elsewhere /\ UNCHANGED <<backlog, inbox, socket, pc, text, started>>
  BY DEF WorkerSend
<1>3. results[c] \in Seq(Result)
  BY <1>0 DEF TypeClient
<1>4. /\ results[c][i] \in Result
      /\ SubSeq(results[c], 1, i - 1) \o SubSeq(results[c], i + 1, Len(results[c])) \in Seq(Result)
  BY <1>3, Without
<1>5. m \in ToServerBox /\ m.type # REGISTER_ACTION /\ ToServer(c, m)
  BY <1>1, <1>4, MessageTypes DEF WORK_ACTION, REGISTER_ACTION
<1> HIDE DEF m
<1>6. /\ outbox' \in [Client -> Seq(ToServerBox)] /\ outbox'[c] = Append(outbox[c], m)
      /\ \A d \in Client \ {c} : outbox'[d] = outbox[d]
      /\ Triggers
  BY <1>0, <1>5, ToServerFacts
<1>7. results' \in [Client -> Seq(Result)]
  BY <1>0, <1>1, <1>4 DEF TypeClient
<1>8. TypeBoxes' /\ TypeClient' /\ Deaths'
  <2>1. pc[c] \notin {"new", "connected"} /\ \A d \in Client \ {c} : results'[d] = results[d]
    BY <1>0, <1>1, <1>3 DEF TypeClient, NoWorkBefore
  <2>2. NoWorkBefore'
    BY <1>0, <1>2, <2>1 DEF TypeClient, NoWorkBefore
  <2> QED
    BY <1>0, <1>2, <1>6, <1>7, <2>2, SameDeaths DEF TypeBoxes, TypeClient
<1>9. AsksOnce(pc[c], outbox[c], Known(c)) => AsksOnce(pc'[c], outbox'[c], Known(c))
  <2>1. pc[c] \notin {"new", "connected"}
    BY <1>0 DEF TypeClient, NoWorkBefore
  <2> QED
    <3>1. outbox[c] \in Seq(ToServerBox) /\ pc'[c] = pc[c]
      BY <1>0, <1>2 DEF TypeBoxes
    <3> QED
      BY <1>5, <1>6, <2>1, <3>1, SendsMore
<1> QED
  BY <1>2, <1>6, <1>8, <1>9, ClientMoves

LEMMA SigintStep ==
  ASSUME Inv, Up, NEW c \in Client, handleSIGINT(c)
  PROVE  Inv'
<1>0. TypeBoxes /\ TypeClient /\ Deaths
  BY DEF Inv, Types
<1> DEFINE m == Message(LOGOUT_ACTION, NoId)
<1>1. /\ Elsewhere /\ pc[c] \in {"connected", "running", "cleaning"} /\ Leaving < MaxDeaths
      /\ ToServer(c, m) /\ pc' = [pc EXCEPT ![c] = "exiting"]
      /\ UNCHANGED <<backlog, inbox, socket, text, started, results>>
  BY DEF handleSIGINT, worker
<1>2. m \in ToServerBox /\ m.type # REGISTER_ACTION
  BY MessageTypes DEF ToServerBox, LOGOUT_ACTION, REGISTER_ACTION
<1> HIDE DEF m
<1>3. /\ outbox' \in [Client -> Seq(ToServerBox)] /\ outbox'[c] = Append(outbox[c], m)
      /\ \A d \in Client \ {c} : outbox'[d] = outbox[d]
      /\ Triggers
  BY <1>0, <1>1, <1>2, ToServerFacts
<1>4. pc'[c] = "exiting" /\ \A d \in Client \ {c} : pc'[d] = pc[d]
  BY <1>0, <1>1 DEF TypeClient
<1>5. TypeBoxes' /\ TypeClient'
  BY <1>0, <1>1, <1>3, <1>4 DEF TypeBoxes, TypeClient, NoWorkBefore
<1>6. Deaths'
  BY <1>1, <1>4, OneDies
<1>7. AsksOnce(pc[c], outbox[c], Known(c)) => AsksOnce(pc'[c], outbox'[c], Known(c))
  <2>1. outbox[c] \in Seq(ToServerBox)
    BY <1>0 DEF TypeBoxes
  <2> QED
    BY <1>2, <1>3, <1>4, <2>1, SendsMore
<1> QED
  BY <1>1, <1>3, <1>4, <1>5, <1>6, <1>7, ClientMoves

LEMMA CloseStep ==
  ASSUME Inv, Up, NEW c \in Client, Close(c),
         \/ pc[c] = "exiting"
         \/ pc[c] \in {"connected", "running", "cleaning"} /\ Leaving < MaxDeaths
  PROVE  Inv'
<1>0. TypeBoxes /\ TypeClient /\ Deaths
  BY DEF Inv, Types
<1>1. /\ Elsewhere /\ pc' = [pc EXCEPT ![c] = "ended"]
      /\ socket' = [socket EXCEPT ![c] = IF inbox[c] = <<>> THEN "closed" ELSE "reset"]
      /\ inbox' = [inbox EXCEPT ![c] = <<>>]
      /\ started' = [started EXCEPT ![c] = 0] /\ results' = [results EXCEPT ![c] = <<>>]
      /\ UNCHANGED <<backlog, outbox, text>>
  BY DEF Close
<1>2. Triggers
  BY DEF Close, Triggers, Fd
<1>3. pc'[c] = "ended" /\ \A d \in Client \ {c} : pc'[d] = pc[d]
  BY <1>0, <1>1 DEF TypeClient
<1>4. TypeBoxes'
  BY <1>0, <1>1 DEF TypeBoxes
<1>5. results' \in [Client -> Seq(Result)]
  BY <1>0, <1>1 DEF TypeClient
<1>6. TypeClient'
  BY <1>0, <1>1, <1>5 DEF TypeClient, NoWorkBefore
<1>7. Deaths'
  BY <1>0, <1>3, SameDeaths, OneDies
<1>8. AsksOnce(pc[c], outbox[c], Known(c)) => AsksOnce(pc'[c], outbox'[c], Known(c))
  BY <1>1, <1>3 DEF AsksOnce
<1> QED
  BY <1>1, <1>2, <1>3, <1>4, <1>6, <1>7, <1>8, ClientMoves

LEMMA ClientSteps ==
  ASSUME Inv, Up, NEW c \in Client, ClientStep(c) \/ Environment(c)
  PROVE  Inv'
<1>1. Exit(c) => Inv'
  BY CloseStep DEF Exit
<1>2. Killed(c) => Inv'
  BY CloseStep DEF Killed
<1> QED
  BY <1>1, <1>2, ConnectStep, RegisterStep, ReceiveStep, CleanStep, WorkerReadStep,
     WorkerSendStep, SigintStep
  DEF ClientStep, Environment

-----------------------------------------------------------------------------
(* What the server does leaves the clients alone, but for the messages.    *)

LEMMA ServerMoves ==
  ASSUME Inv, UNCHANGED client, TypeTable', TypeServer', TypeEpoll', TypeBoxes',
         Up' => TableRight' /\ AllFree' /\ RegistersOnce' /\ Reported'
  PROVE  Inv'
<1>1. TypeClient /\ Deaths
  BY DEF Inv, Types
<1>2. UNCHANGED <<socket, pc, text, started, results>>
  BY DEF client, worker
<1>3. TypeClient' /\ Deaths'
  BY <1>1, <1>2, SameDeaths DEF TypeClient, NoWorkBefore
<1> QED
  BY <1>3 DEF Inv, Types

LEMMA SameTable ==
  ASSUME UNCHANGED table
  PROVE  /\ (TypeTable => TypeTable') /\ (TableRight => TableRight') /\ (AllFree => AllFree')
         /\ \A d : Known(d)' = Known(d)
<1>1. clients' = clients /\ clientCount' = clientCount /\ freed' = freed
  BY DEF table
<1>2. Registered' = Registered
  BY <1>1 DEF Registered
<1> QED
  BY <1>1, <1>2 DEF TypeTable, TableRight, AllFree, Used, Known

(* What one message more or less does to the lists of messages. *)
LEMMA SameAsking ==
  ASSUME RegistersOnce, pc' = pc, outbox' = outbox,
         \A d \in Client : Known(d)' => Known(d)
  PROVE  RegistersOnce'
BY DEF RegistersOnce, Known

LEMMA OneRead ==
  ASSUME RegistersOnce, TypeBoxes, pc' = pc, NEW c \in Client, getMessage(c),
         \A d \in Client \ {c} : Known(d)' => Known(d)
  PROVE  RegistersOnce' /\ (inbox' = inbox => TypeBoxes')
<1>1. /\ outbox[c] # <<>> /\ outbox' = [outbox EXCEPT ![c] = Tail(@)]
      /\ outbox \in [Client -> Seq(ToServerBox)]
  BY DEF getMessage, TypeBoxes
<1>2. /\ Tail(outbox[c]) \in Seq(ToServerBox)
      /\ \A i \in DOMAIN Tail(outbox[c]) :
           i + 1 \in DOMAIN outbox[c] /\ i \in Nat /\ Tail(outbox[c])[i] = outbox[c][i + 1]
  BY <1>1
<1>3. /\ outbox' \in [Client -> Seq(ToServerBox)] /\ outbox'[c] = Tail(outbox[c])
      /\ \A d \in Client \ {c} : outbox'[d] = outbox[d]
  BY <1>1, <1>2
<1>4. \A d \in Client : AsksOnce(pc[d], outbox[d], Known(d))
  BY AskingParts
<1>5. AsksOnce(pc'[c], outbox'[c], Known(c)')
  <2>1. pc[c] \notin {"new", "connected"}
    BY <1>1, <1>4 DEF AsksOnce
  <2>2. \A i \in DOMAIN outbox'[c] : outbox'[c][i].type # REGISTER_ACTION
    <3>1. \A i \in DOMAIN outbox'[c] : outbox'[c][i].type = REGISTER_ACTION => i + 1 = 1 /\ i \in Nat /\ i # 0
      BY <1>2, <1>3, <1>4 DEF AsksOnce
    <3> QED
      BY <3>1
  <2> QED
    BY <2>1, <2>2 DEF AsksOnce
<1>6. \A d \in Client \ {c} : AsksOnce(pc'[d], outbox'[d], Known(d)')
  BY <1>3, <1>4 DEF AsksOnce
<1>7. RegistersOnce'
  BY <1>5, <1>6, AskingParts
<1> QED
  BY <1>3, <1>7 DEF TypeBoxes

LEMMA FirstAndRest ==
  ASSUME NEW T, NEW q \in Seq(T), q # <<>>
  PROVE  /\ Head(q) = q[1] /\ Head(q) \in T /\ Tail(q) \in Seq(T) /\ 1 \in 1 .. Len(q)
         /\ \A i \in DOMAIN Tail(q) : /\ i \in Nat \ {0} /\ i + 1 \in 1 .. Len(q)
                                     /\ i + 1 \in DOMAIN q /\ Tail(q)[i] = q[i + 1]
         /\ Len(q) # 1 => Tail(q) # <<>>
<1>1. Len(q) # 1 => Tail(q) # <<>>
  <2>1. Len(Tail(q)) = Len(q) - 1 /\ Len(q) \in Nat
    BY HeadTailProperties
  <2>2. Len(q) = 1 \/ Len(Tail(q)) # 0
    BY <2>1
  <2> QED
    BY <2>2
<1> QED
  BY <1>1, HeadTailProperties

(* No two members of the list q have the same fd. *)
LEMMA OnceFds ==
  ASSUME NEW q, NEW T, q \in Seq(T)
  PROVE  Once([i \in DOMAIN q |-> q[i].fd])
           <=> \A i, j \in DOMAIN q : q[i].fd = q[j].fd => i = j
<1> DEFINE fds == [i \in DOMAIN q |-> q[i].fd]
<1>1. Len(fds) = Len(q) /\ DOMAIN q = 1 .. Len(q) /\ \A i \in DOMAIN q : fds[i] = q[i].fd
  OBVIOUS
<1> HIDE DEF fds
<1>2. Once(fds) <=> \A i, j \in DOMAIN q : q[i].fd = q[j].fd => i = j
  BY <1>1 DEF Once
<1> QED
  BY <1>2 DEF fds

LEMMA EventDone ==
  ASSUME TypeEpoll, Reported, spc \in {"serve", "reply"}
  PROVE  /\ Event \in [fd : Fd, events : {1, 17, 25}] /\ Event = events[1] /\ events # <<>>
         /\ Tail(events) \in Seq([fd : Fd, events : {1, 17, 25}])
         /\ Once([i \in DOMAIN Tail(events) |-> Tail(events)[i].fd])
         /\ \A i \in DOMAIN Tail(events) :
              /\ i + 1 \in DOMAIN events /\ Tail(events)[i] = events[i + 1]
              /\ Tail(events)[i].fd # Event.fd
         /\ AfterEvent \in {"wait", "serve"} /\ (AfterEvent = "serve" => Tail(events) # <<>>)
<1> DEFINE T == [fd : Fd, events : {1, 17, 25}]
           q == Tail(events)
<1>1. events # <<>> /\ events \in Seq(T)
  BY DEF Reported, TypeEpoll
<1>2. \A i, j \in DOMAIN events : events[i].fd = events[j].fd => i = j
  BY <1>1, OnceFds DEF Reported
<1> HIDE DEF T
<1>3. /\ Event = events[1] /\ Event \in T /\ q \in Seq(T)
      /\ \A i \in DOMAIN q : /\ i \in Nat \ {0} /\ i + 1 \in 1 .. Len(events)
                             /\ i + 1 \in DOMAIN events /\ q[i] = events[i + 1]
      /\ 1 \in DOMAIN events /\ (Len(events) # 1 => q # <<>>)
  BY <1>1, FirstAndRest DEF Event
<1>4. AfterEvent \in {"wait", "serve"} /\ (AfterEvent = "serve" => q # <<>>)
  BY <1>3 DEF AfterEvent
<1> HIDE DEF q
<1>5. \A i \in DOMAIN q : q[i].fd # Event.fd
  <2> SUFFICES ASSUME NEW i \in DOMAIN q, q[i].fd = Event.fd PROVE FALSE
    OBVIOUS
  <2>1. i + 1 = 1 /\ i \in Nat \ {0}
    BY <1>2, <1>3
  <2> QED
    BY <2>1
<1>6. \A i, j \in DOMAIN q : q[i].fd = q[j].fd => i = j
  <2> SUFFICES ASSUME NEW i \in DOMAIN q, NEW j \in DOMAIN q, q[i].fd = q[j].fd PROVE i = j
    OBVIOUS
  <2>1. i + 1 = j + 1 /\ i \in Nat /\ j \in Nat
    BY <1>2, <1>3
  <2> QED
    BY <2>1
<1>7. Once([i \in DOMAIN q |-> q[i].fd])
  BY <1>3, <1>6, OnceFds
<1> QED
  BY <1>1, <1>3, <1>4, <1>5, <1>7 DEF q, T

(* After an event nothing but the lists has changed. *)
LEMMA NextEvent ==
  ASSUME TypeEpoll, Reported, spc \in {"serve", "reply"},
         events' = Tail(events), spc' \in {"serve", "reply"} => spc' = AfterEvent,
         ready' \in Seq(Fd), Once(ready'), backlog' \in Seq(Client), accepted' \subseteq Client,
         backlog' = backlog \/ Event.fd = Listener
  PROVE  TypeEpoll' /\ Reported'
<1>1. TypeEpoll'
  BY EventDone DEF TypeEpoll
<1>2. spc' \in {"serve", "reply"} => events' # <<>>
  BY EventDone
<1>3. \A i \in DOMAIN events' : events'[i].fd = Listener => backlog' # <<>>
  BY EventDone DEF Reported
<1>4. Once([i \in DOMAIN events' |-> events'[i].fd])
  BY EventDone
<1> QED
  BY <1>1, <1>2, <1>3, <1>4 DEF Reported

LEMMA SmallerOf ==
  ASSUME NEW a \in Nat, NEW b \in Nat
  PROVE  Min({a, b}) \in Nat /\ Min({a, b}) <= a
<1>1. \E x \in {a, b} : \A y \in {a, b} : x <= y
  <2>1. a <= b \/ b <= a
    OBVIOUS
  <2> QED
    BY <2>1
<1> QED
  BY <1>1 DEF Min

LEMMA EpollStep ==
  ASSUME Inv, Up, epoll_wait
  PROVE  Inv'
<1> DEFINE some == {fd \in Client \union {Listener} : Poll(fd) # 0}
           found == Those(ready, some)
           n == Min({Len(found), MAX_CLIENTS})
<1>0. TypeTable /\ TypeServer /\ TypeEpoll /\ TypeBoxes /\ TableRight /\ AllFree
      /\ RegistersOnce /\ Reported
  BY DEF Inv, Types
<1>1. /\ events' = [i \in 1 .. n |-> [fd |-> found[i], events |-> Poll(found[i])]]
      /\ ready' = SubSeq(found, n + 1, Len(found))
      /\ spc' = IF n = 0 THEN "wait" ELSE "serve"
      /\ UNCHANGED <<table, operationCount, backlog, accepted, ping, printed, outbox, inbox, client>>
  BY DEF epoll_wait
<1>2. found \in Seq(some) /\ Once(found)
  BY <1>0, ThoseFacts DEF TypeEpoll, Reported
<1>3. \A fd \in some : /\ fd \in Fd /\ Poll(fd) \in {1, 17, 25}
                       /\ fd = Listener => backlog # <<>>
  BY DEF Poll, Fd, EPOLLIN, EPOLLIN_HUP, EPOLLIN_ERR_HUP
<1> HIDE DEF some, found
<1>4. Len(found) \in Nat /\ n \in Nat /\ n <= Len(found)
  BY <1>2, SmallerOf
<1> HIDE DEF n
<1>5. \A i \in 1 .. Len(found) : found[i] \in some
  BY <1>2
<1>6. events' \in Seq([fd : Fd, events : {1, 17, 25}])
  BY <1>1, <1>3, <1>4, <1>5
<1>7. Len(events') = n /\ DOMAIN events' = 1 .. n
      /\ \A i \in 1 .. n : i \in 1 .. Len(found) /\ events'[i].fd = found[i]
  BY <1>1, <1>4
<1>8. Once([i \in DOMAIN events' |-> events'[i].fd])
  <2>1. \A i, j \in DOMAIN events' : events'[i].fd = events'[j].fd => i = j
    BY <1>2, <1>7 DEF Once
  <2> QED
    BY <1>6, <2>1, OnceFds
<1>9. ready' \in Seq(Fd) /\ Once(ready')
  <2> DEFINE rest == SubSeq(found, n + 1, Len(found))
  <2>1. /\ rest \in Seq(some) /\ Len(rest) = Len(found) - n
        /\ \A i \in 1 .. Len(rest) :
             i \in Nat /\ n + i \in 1 .. Len(found) /\ rest[i] = found[n + i]
    BY <1>2, <1>4
  <2> HIDE DEF rest
  <2>2. Once(rest)
    <3> SUFFICES ASSUME NEW i \in 1 .. Len(rest), NEW j \in 1 .. Len(rest), rest[i] = rest[j]
                 PROVE  i = j
      BY DEF Once
    <3>1. n + i = n + j /\ i \in Nat /\ j \in Nat
      BY <1>2, <2>1 DEF Once
    <3> QED
      BY <1>4, <3>1
  <2>3. rest \in Seq(Fd)
    BY <1>3, <2>1
  <2> QED
    BY <1>1, <2>2, <2>3 DEF rest
<1>10. \A i \in DOMAIN events' : events'[i].fd = Listener => backlog' # <<>>
  BY <1>1, <1>3, <1>5, <1>7
<1>11. spc' \in {"wait", "serve"} /\ (spc' = "serve" => events' # <<>>)
  <2>1. n # 0 => events' # <<>>
    BY <1>7
  <2> QED
    BY <1>1, <2>1
<1>12. Reported' /\ TypeEpoll'
  BY <1>0, <1>1, <1>6, <1>8, <1>9, <1>10, <1>11 DEF Reported, TypeEpoll
<1>13. TypeServer' /\ TypeBoxes'
  BY <1>0, <1>1, <1>11 DEF TypeServer, TypeBoxes
<1>14. TypeTable' /\ TableRight' /\ AllFree' /\ \A d \in Client : Known(d)' = Known(d)
  BY <1>0, <1>1, SameTable
<1>15. RegistersOnce'
  BY <1>0, <1>1, <1>14, SameAsking DEF client
<1> QED
  BY <1>1, <1>12, <1>13, <1>14, <1>15, ServerMoves

LEMMA AcceptStep ==
  ASSUME Inv, Up, accept
  PROVE  Inv'
<1> DEFINE c == Head(backlog)
<1>0. TypeTable /\ TypeServer /\ TypeEpoll /\ TypeBoxes /\ TableRight /\ AllFree
      /\ RegistersOnce /\ Reported
  BY DEF Inv, Types
<1>1. /\ spc = "serve" /\ Event.fd = Listener
      /\ backlog' = Tail(backlog) /\ accepted' = accepted \union {c}
      /\ ready' = IF Poll(c) # 0 THEN Trigger(c) ELSE ready
      /\ events' = Tail(events) /\ spc' = AfterEvent
      /\ UNCHANGED <<table, operationCount, ping, printed, outbox, inbox, client>>
  BY DEF accept
<1>2. /\ Event = events[1] /\ 1 \in DOMAIN events /\ AfterEvent \in {"wait", "serve"}
  <2>1. Event = events[1] /\ events # <<>> /\ AfterEvent \in {"wait", "serve"}
    BY <1>0, <1>1, EventDone
  <2> QED
    BY <1>0, <2>1, FirstAndRest DEF TypeEpoll
<1>3. backlog # <<>>
  BY <1>0, <1>1, <1>2 DEF Reported
<1>4. c \in Client /\ backlog' \in Seq(Client)
  BY <1>0, <1>1, <1>3, FirstAndRest DEF TypeEpoll
<1> HIDE DEF c
<1>5. ready' \in Seq(Fd) /\ Once(ready')
  BY <1>0, <1>1, <1>4, TriggerFacts DEF TypeEpoll, Reported, Fd
<1>6. accepted' \subseteq Client
  BY <1>0, <1>1, <1>4 DEF TypeEpoll
<1>7. TypeEpoll' /\ Reported'
  BY <1>0, <1>1, <1>4, <1>5, <1>6, NextEvent
<1>8. TypeServer' /\ TypeBoxes'
  BY <1>0, <1>1, <1>2 DEF TypeServer, TypeBoxes
<1>9. TypeTable' /\ TableRight' /\ AllFree' /\ \A d \in Client : Known(d)' = Known(d)
  BY <1>0, <1>1, SameTable
<1>10. RegistersOnce'
  BY <1>0, <1>1, <1>9, SameAsking DEF client
<1> QED
  BY <1>1, <1>7, <1>8, <1>9, <1>10, ServerMoves

LEMMA SkipHangupStep ==
  ASSUME Inv, Up, SkipHangup
  PROVE  Inv'
<1>0. TypeTable /\ TypeServer /\ TypeEpoll /\ TypeBoxes /\ TableRight /\ AllFree
      /\ RegistersOnce /\ Reported
  BY DEF Inv, Types
<1>1. /\ spc = "serve" /\ events' = Tail(events) /\ spc' = AfterEvent
      /\ UNCHANGED <<table, operationCount, ready, backlog, accepted, ping, printed, outbox,
                     inbox, client>>
  BY DEF SkipHangup
<1>2. AfterEvent \in {"wait", "serve"}
  BY <1>0, <1>1, EventDone
<1>3. TypeEpoll' /\ Reported'
  BY <1>0, <1>1, NextEvent DEF TypeEpoll, Reported
<1>4. TypeServer' /\ TypeBoxes'
  BY <1>0, <1>1, <1>2 DEF TypeServer, TypeBoxes
<1>5. TypeTable' /\ TableRight' /\ AllFree' /\ \A d \in Client : Known(d)' = Known(d)
  BY <1>0, <1>1, SameTable
<1>6. RegistersOnce'
  BY <1>0, <1>1, <1>5, SameAsking DEF client
<1> QED
  BY <1>1, <1>3, <1>4, <1>5, <1>6, ServerMoves

(* A message that is sent arrives, or is the end of the server. *)
LEMMA SendFacts ==
  ASSUME TypeBoxes, NEW receivers, NEW m \in ToClientBox, NEW next, Send(receivers, m, next)
  PROVE  /\ inbox' \in [Client -> Seq(ToClientBox)]
         /\ spc' \in {"SIGPIPE", next}
<1>1. \A c \in Client : inbox[c] \in Seq(ToClientBox) /\ Append(inbox[c], m) \in Seq(ToClientBox)
  BY DEF TypeBoxes
<1> QED
  BY <1>1 DEF Send, TypeBoxes

LEMMA ReplyStep ==
  ASSUME Inv, Up, Reply
  PROVE  Inv'
<1> DEFINE m == Message(REGISTER_ACTION, NoId)
<1>0. TypeTable /\ TypeServer /\ TypeEpoll /\ TypeBoxes /\ TableRight /\ AllFree
      /\ RegistersOnce /\ Reported
  BY DEF Inv, Types
<1>1. /\ spc = "reply" /\ Send({Event.fd}, m, AfterEvent) /\ events' = Tail(events)
      /\ UNCHANGED <<table, operationCount, ready, backlog, accepted, ping, printed, outbox, client>>
  BY DEF Reply
<1>2. m \in ToClientBox
  BY MessageTypes DEF ToClientBox
<1> HIDE DEF m
<1>3. inbox' \in [Client -> Seq(ToClientBox)] /\ spc' \in {"SIGPIPE", AfterEvent}
  BY <1>0, <1>1, <1>2, SendFacts
<1>4. AfterEvent \in {"wait", "serve"}
  BY <1>0, <1>1, EventDone
<1>5. TypeEpoll' /\ Reported'
  BY <1>0, <1>1, <1>3, NextEvent DEF TypeEpoll, Reported
<1>6. TypeServer' /\ TypeBoxes'
  BY <1>0, <1>1, <1>3, <1>4 DEF TypeServer, TypeBoxes
<1>7. TypeTable' /\ TableRight' /\ AllFree' /\ \A d \in Client : Known(d)' = Known(d)
  BY <1>0, <1>1, SameTable
<1>8. RegistersOnce'
  BY <1>0, <1>1, <1>7, SameAsking DEF client
<1> QED
  BY <1>1, <1>5, <1>6, <1>7, <1>8, ServerMoves

(* The other threads leave the table and the events alone. *)
LEMMA ThreadMoves ==
  ASSUME Inv, Up, UNCHANGED <<table, epoll, printed, outbox, client>>,
         operationCount' \in 0 .. MaxTasks, ping' \in {"ping", "sweep"},
         inbox' \in [Client -> Seq(ToClientBox)], spc' \in {"SIGPIPE", spc}
  PROVE  Inv'
<1>0. TypeTable /\ TypeServer /\ TypeEpoll /\ TypeBoxes /\ TableRight /\ AllFree
      /\ RegistersOnce /\ Reported
  BY DEF Inv, Types
<1>1. UNCHANGED <<events, ready, backlog, accepted>>
  BY DEF epoll
<1>2. TypeEpoll' /\ Reported'
  <2>1. spc' \in {"serve", "reply"} => spc \in {"serve", "reply"}
    OBVIOUS
  <2> QED
    BY <1>0, <1>1, <2>1 DEF TypeEpoll, Reported
<1>3. TypeServer' /\ TypeBoxes'
  BY <1>0 DEF TypeServer, TypeBoxes
<1>4. TypeTable' /\ TableRight' /\ AllFree' /\ \A d \in Client : Known(d)' = Known(d)
  BY <1>0, SameTable
<1>5. RegistersOnce'
  BY <1>0, <1>4, SameAsking DEF client
<1> QED
  BY <1>2, <1>3, <1>4, <1>5, ServerMoves

LEMMA PingThreadStep ==
  ASSUME Inv, Up, threadPing
  PROVE  Inv'
<1> DEFINE m == Message(PING_ACTION, NoId)
<1>1. m \in ToClientBox /\ TypeBoxes /\ TypeServer
  BY MessageTypes DEF ToClientBox, Inv, Types
<1>2. /\ Send(Registered, m, spc) /\ ping' = "sweep"
      /\ UNCHANGED <<table, operationCount, epoll, printed, outbox, client>>
  BY DEF threadPing
<1> HIDE DEF m
<1>3. inbox' \in [Client -> Seq(ToClientBox)] /\ spc' \in {"SIGPIPE", spc}
  BY <1>1, <1>2, SendFacts
<1>4. operationCount' \in 0 .. MaxTasks
  BY <1>1, <1>2 DEF TypeServer
<1> QED
  BY <1>2, <1>3, <1>4, ThreadMoves

LEMMA InputStep ==
  ASSUME Inv, Up, threadInput
  PROVE  Inv'
<1> DEFINE m == Message(WORK_ACTION, operationCount)
           one == {clients[Chosen].who} \ {NULL}
<1>1. /\ operationCount < MaxTasks /\ operationCount' = operationCount + 1
      /\ Send(one, m, spc)
      /\ UNCHANGED <<table, epoll, ping, printed, outbox, client>>
  BY DEF threadInput
<1>2. TypeBoxes /\ TypeServer
  BY DEF Inv, Types
<1>3. operationCount \in Task /\ operationCount' \in 0 .. MaxTasks /\ ping' \in {"ping", "sweep"}
  BY <1>1, <1>2 DEF TypeServer, Task
<1>4. m \in ToClientBox
  BY <1>3, MessageTypes
<1> HIDE DEF m, one
<1>5. inbox' \in [Client -> Seq(ToClientBox)] /\ spc' \in {"SIGPIPE", spc}
  BY <1>1, <1>2, <1>4, SendFacts
<1> QED
  BY <1>1, <1>3, <1>5, ThreadMoves

-----------------------------------------------------------------------------
(* The table of clients. *)

Reaches(s, name, frees) ==
  \A t \in 0 .. s - 1 : Used(t) /\ ~(Equal(t, name) /\ clients[t].free \in frees)

LEMMA SearchFacts ==
  ASSUME NEW name, NEW frees, NEW s \in Search(name, frees)
  PROVE  /\ s \in Slot \union {-1, Crash}
         /\ s \in Slot => Reaches(s, name, frees) /\ MayEqual(s, name) /\ Used(s)
         /\ s = Crash => \E t \in Slot : Reaches(t, name, frees) /\ ~Used(t)
BY DEF Search, Reaches, MayEqual, Equal, Slot, Crash

(* A registered name stops the search, and all slots before it are used. *)
LEMMA NameStops ==
  ASSUME TypeTable, TableRight, AllFree, NEW d \in Registered, NEW frees, 1 \in frees
  PROVE  \E t \in 0 .. clientCount - 1 :
           /\ t \in Slot /\ clients[t].who = d
           /\ Equal(t, NameOf[d]) /\ clients[t].free \in frees
           /\ \A r \in 0 .. t : Used(r)
<1>1. PICK t \in 0 .. clientCount - 1 : clients[t].who = d
  BY DEF Registered
<1>2. t \in Slot /\ Used(t)
  BY DEF TypeTable, TableRight, Slot
<1>3. d \notin freed /\ clients[t].free = 1
  BY <1>2 DEF TableRight, AllFree
<1>4. \A r \in 0 .. t : Used(r)
  BY <1>2 DEF TableRight
<1> QED
  BY <1>1, <1>2, <1>3, <1>4 DEF Equal

LEMMA NoCrash ==
  ASSUME TypeTable, TableRight, AllFree, NEW d \in Registered, NEW frees, 1 \in frees
  PROVE  Crash \notin Search(NameOf[d], frees)
<1> SUFFICES ASSUME Crash \in Search(NameOf[d], frees) PROVE FALSE
  OBVIOUS
<1>1. PICK t \in Slot : Reaches(t, NameOf[d], frees) /\ ~Used(t)
  BY SearchFacts
<1>2. PICK r \in 0 .. clientCount - 1 :
        /\ r \in Slot /\ Equal(r, NameOf[d]) /\ clients[r].free \in frees
        /\ \A q \in 0 .. r : Used(q)
  BY NameStops
<1>3. r \in Int /\ t \in Int /\ 0 <= r /\ 0 <= t
  BY <1>2 DEF Slot
<1>4. r < t
  BY <1>1, <1>2, <1>3
<1>5. r \in 0 .. t - 1
  BY <1>3, <1>4
<1> QED
  BY <1>1, <1>2, <1>5 DEF Reaches

(* A result or the answer to a ping writes what is there already. *)
LEMMA SameSlot ==
  ASSUME TypeTable, AllFree, NEW name, NEW frees, NEW s \in Search(name, frees), s \in Slot
  PROVE  /\ [clients EXCEPT ![s].free = 1] = clients
         /\ [clients EXCEPT ![s].status = 1] = clients
<1>1. clients[s].free = 1 /\ clients[s].status = 1
  BY SearchFacts DEF AllFree
<1>2. clients[s] \in [who : Client \union {NULL}, free : 0 .. 1, status : 0 .. 1]
  BY DEF TypeTable
<1>3. /\ [clients[s] EXCEPT !.free = 1] = clients[s]
      /\ [clients[s] EXCEPT !.status = 1] = clients[s]
  BY <1>1, <1>2
<1> QED
  BY <1>3 DEF TypeTable

LEMMA AddStep ==
  ASSUME TypeTable, TypeServer, TableRight, AllFree, NEW c \in Client, ~Known(c), Add(c)
  PROVE  /\ TypeTable' /\ spc' \in {"reply", "undefined"}
         /\ Up' => /\ TableRight' /\ AllFree'
                   /\ \A d \in Client \ {c} : Known(d)' => Known(d)
<1> DEFINE n == clientCount
           new == [who |-> c, free |-> 1, status |-> 1]
<1>1. ~TakenName(c) /\ freed' = freed
  BY DEF Add
<1>2. CASE n \notin Slot
  <2>1. spc' = "undefined" /\ UNCHANGED <<clients, clientCount>>
    BY <1>2 DEF Add
  <2> QED
    BY <1>1, <2>1 DEF TypeTable, Up
<1>3. CASE n \in Slot
  <2>1. clients' = [clients EXCEPT ![n] = new] /\ clientCount' = n + 1 /\ spc' = "reply"
    BY <1>3 DEF Add
  <2>2. n \in Nat /\ n + 1 \in 0 .. MAX_CLIENTS /\ 0 .. n \subseteq Slot
    BY <1>3 DEF Slot, TypeTable
  <2>3. /\ clients'[n] = new /\ new.who = c /\ new.free = 1 /\ new.status = 1 /\ c # NULL
        /\ \A s \in Slot \ {n} : clients'[s] = clients[s]
    BY <1>3, <2>1 DEF TypeTable
  <2>4. TypeTable'
    BY <1>1, <2>1, <2>2 DEF TypeTable
  <2> HIDE DEF new
  <2>5. \A s \in 0 .. n - 1 : s \in Slot /\ s # n /\ clients[s].who \in Registered
    <3>1. \A s \in 0 .. n - 1 : s \in Slot /\ s # n /\ Used(s)
      BY <2>2 DEF TableRight
    <3> QED
      BY <3>1 DEF Registered, Used
  <2>6. Registered' = Registered \union {c}
    <3>1. \A s \in 0 .. n : s \in 0 .. n - 1 \/ s = n
      BY <2>2
    <3>2. 0 .. clientCount' - 1 = 0 .. n /\ n \in 0 .. n /\ 0 .. n - 1 \subseteq 0 .. n
      BY <2>1, <2>2
    <3>3. \A s \in 0 .. n - 1 : clients'[s].who = clients[s].who
      BY <2>3, <2>5
    <3>4. /\ Registered = {clients[s].who : s \in 0 .. n - 1} \ {NULL}
          /\ Registered' = {clients'[s].who : s \in 0 .. n} \ {NULL}
      BY <3>2 DEF Registered
    <3>5. {clients'[s].who : s \in 0 .. n} = {clients[s].who : s \in 0 .. n - 1} \union {c}
      BY <2>3, <3>1, <3>2, <3>3
    <3> QED
      BY <2>3, <3>4, <3>5
  <2>7. \A s \in Slot : Used(s)' <=> s = n \/ Used(s)
    BY <2>3 DEF Used
  <2>8. \A s \in 0 .. clientCount' - 1 : Used(s)'
    <3>1. \A s \in 0 .. clientCount' - 1 : s \in Slot /\ (s \in 0 .. n - 1 \/ s = n)
      BY <2>1, <2>2
    <3> QED
      BY <2>7, <3>1 DEF TableRight
  <2>9. \A s, t \in 0 .. clientCount' - 1 :
          NameOf[clients'[s].who] = NameOf[clients'[t].who] => s = t
    <3>1. \A s \in 0 .. n - 1 : NameOf[clients[s].who] # NameOf[c]
      <4> SUFFICES ASSUME NEW s \in 0 .. n - 1, NameOf[clients[s].who] = NameOf[c] PROVE FALSE
        OBVIOUS
      <4>1. s \in Slot /\ Used(s) /\ clients[s].who \in Registered
        BY <2>5 DEF TableRight
      <4>2. clients[s].who \notin freed
        BY <4>1 DEF TableRight
      <4> QED
        BY <1>1, <4>1, <4>2 DEF TakenName, Equal
    <3>2. \A s \in 0 .. clientCount' - 1 : s \in 0 .. n - 1 \/ s = n
      BY <2>1, <2>2
    <3>3. \A s \in 0 .. n - 1 : clients'[s] = clients[s]
      BY <2>3, <2>5
    <3> QED
      BY <2>3, <3>1, <3>2, <3>3 DEF TableRight
  <2>10. Registered' \intersect freed' = {}
    BY <1>1, <2>6 DEF TableRight, Known
  <2>11. \A s \in Slot : Used(s)' => \A t \in 0 .. s : Used(t)'
    <3> SUFFICES ASSUME NEW s \in Slot, Used(s)', NEW t \in 0 .. s PROVE Used(t)'
      OBVIOUS
    <3>1. t \in Slot
      BY DEF Slot
    <3>2. CASE s = n
      <4>1. t \in 0 .. clientCount' - 1
        BY <2>1, <2>2, <3>2
      <4> QED
        BY <2>8, <4>1 DEF Used
    <3>3. CASE s # n
      BY <2>7, <3>1, <3>3 DEF TableRight
    <3> QED
      BY <3>2, <3>3
  <2>12. \A s \in Slot : Used(s)' => clients'[s].who \in Registered' \union freed'
    BY <1>1, <2>3, <2>6, <2>7 DEF TableRight
  <2>13. AllFree'
    BY <2>3, <2>7 DEF AllFree
  <2>14. \A d \in Client \ {c} : Known(d)' => Known(d)
    BY <1>1, <2>6 DEF Known
  <2> QED
    BY <2>1, <2>4, <2>8, <2>9, <2>10, <2>11, <2>12, <2>13, <2>14 DEF TableRight
<1> QED
  BY <1>2, <1>3

(* logoutAction: the slot it finds is one of a registered client.          *)
LEMMA LogoutSlot ==
  ASSUME TypeTable, TableRight, AllFree, NEW name, NEW s \in Search(name, {1}), s \in Slot,
         clients[s].who \notin freed
  PROVE  s \in 0 .. clientCount - 1 /\ clients[s].who \in Registered
<1> DEFINE d == clients[s].who
<1>1. Reaches(s, name, {1}) /\ Used(s) /\ NameOf[d] = name
  BY SearchFacts DEF MayEqual, Equal
<1>2. d \in Registered
  BY <1>1 DEF TableRight
<1>3. PICK t \in 0 .. clientCount - 1 :
        t \in Slot /\ Equal(t, NameOf[d]) /\ clients[t].free \in {1}
  BY <1>2, NameStops
<1>4. t \notin 0 .. s - 1
  BY <1>1, <1>3 DEF Reaches
<1>5. s \in Nat /\ t \in Nat /\ clientCount \in Nat
  BY <1>3 DEF Slot, TypeTable
<1> QED
  BY <1>2, <1>3, <1>4, <1>5

LEMMA RemoveStep ==
  ASSUME TypeTable, TableRight, AllFree, NEW name, NEW s \in Search(name, {1}), s \in Slot,
         NEW next, Becomes(Removed(Table, s), next)
  PROVE  /\ TypeTable' /\ spc' \in {"undefined", next}
         /\ Up' => TableRight' /\ AllFree' /\ \A d \in Client : Known(d)' => Known(d)
<1> DEFINE r == Removed(Table, s)
           who == clients[s].who
           n == clientCount - 1
           moved == [clients EXCEPT ![s] = clients[n]]
<1>1. CASE r.bad
  <2>1. spc' = "undefined" /\ UNCHANGED table
    BY <1>1 DEF Becomes
  <2> QED
    BY <2>1, SameTable DEF Up
<1>2. CASE ~r.bad
  <2>1. clientCount # 0 /\ clientCount \in Nat
    BY <1>2 DEF Removed, Table, TypeTable
  <2>2. clientCount > 0 /\ n \in Slot
    BY <2>1 DEF TypeTable, Slot
  <2>3. clientCount \in Slot
    <3>1. (IF clientCount > 0 THEN clientCount - 1 ELSE 0) + 1 = clientCount
      BY <2>1, <2>2
    <3> QED
      BY <1>2, <3>1 DEF Removed, Table
  <2>4. who \notin freed
    BY <1>2 DEF Removed, Table
  <2>5. s \in 0 .. clientCount - 1 /\ who \in Registered
    BY <2>4, LogoutSlot
  <2>6. /\ n + 1 = clientCount /\ moved[clientCount] = clients[clientCount]
        /\ \A i \in Slot \ {s} : moved[i] = clients[i]
        /\ moved[s] = clients[n]
    <3>1. s # clientCount
      BY <2>1, <2>5
    <3> QED
      BY <2>1, <2>3, <3>1 DEF TypeTable
  <2> DEFINE behind == clients[clientCount].who
  <2>7. /\ r.clients = moved /\ r.count = n
        /\ r.freed = freed \union {who} \union ({behind} \ {NULL})
        /\ behind \notin freed \union {who}
        /\ \A i \in 0 .. n - 1 : moved[i].who # behind
    BY <1>2, <2>2, <2>3, <2>6 DEF Removed, Table
  <2> HIDE DEF r, moved, n
  <2>8. /\ clients' = moved /\ clientCount' = n /\ spc' = next
        /\ freed' = freed \union {who} \union ({behind} \ {NULL})
    BY <1>2, <2>7 DEF Becomes, r
  <2>9. n \in Nat /\ n + 1 = clientCount /\ s \in 0 .. n /\ 0 .. n \subseteq Slot
    BY <2>1, <2>2, <2>5 DEF n, Slot, TypeTable
  <2>10. \A i \in 0 .. n : i \in Slot /\ Used(i) /\ clients[i].who \in Registered
    <3>1. \A i \in 0 .. n : i \in Slot /\ i \in 0 .. clientCount - 1 /\ Used(i)
      BY <2>9 DEF TableRight
    <3> QED
      BY <3>1 DEF Registered, Used
  <2>11. \A i, j \in 0 .. n : clients[i].who = clients[j].who => i = j
    <3>1. 0 .. n = 0 .. clientCount - 1
      BY <2>9
    <3> QED
      BY <3>1 DEF TableRight
  <2>12. Registered' = Registered \ {who}
    <3>1. Registered = {clients[i].who : i \in 0 .. n} \ {NULL}
      <4>1. clientCount - 1 = n
        BY <2>9
      <4> QED
        BY <4>1 DEF Registered
    <3>2. Registered' = {moved[i].who : i \in 0 .. n - 1} \ {NULL}
      BY <2>8 DEF Registered
    <3>3. \A i \in 0 .. n - 1 : i \in 0 .. n /\ i # n
      BY <2>9
    <3>4. \A i \in 0 .. n : i = n \/ i \in 0 .. n - 1
      BY <2>9
    <3>5. ASSUME NEW d \in Registered' PROVE d \in Registered \ {who}
      <4>1. PICK i \in 0 .. n - 1 : d = moved[i].who
        BY <3>2
      <4>2. PICK j \in 0 .. n : d = clients[j].who /\ j # s
        <5>1. CASE i = s
          BY <2>6, <2>9, <3>3, <4>1, <5>1
        <5>2. CASE i # s
          BY <2>6, <2>10, <3>3, <4>1, <5>2
        <5> QED
          BY <5>1, <5>2
      <4> QED
        BY <2>9, <2>10, <2>11, <4>2
    <3>6. ASSUME NEW d \in Registered \ {who} PROVE d \in Registered'
      <4>1. PICK j \in 0 .. n : d = clients[j].who /\ d # NULL /\ j # s
        BY <3>1
      <4>2. CASE j = n
        <5>1. s \in 0 .. n - 1 /\ moved[s].who = d
          BY <2>6, <2>9, <3>4, <4>1, <4>2
        <5> QED
          BY <3>2, <4>1, <5>1
      <4>3. CASE j # n
        <5>1. j \in 0 .. n - 1 /\ moved[j].who = d
          BY <2>6, <2>10, <3>4, <4>1, <4>3
        <5> QED
          BY <3>2, <4>1, <5>1
      <4> QED
        BY <4>2, <4>3
    <3> QED
      BY <3>5, <3>6
  <2>13. behind = NULL
    <3> SUFFICES ASSUME behind # NULL PROVE FALSE
      OBVIOUS
    <3>1. behind \in Registered \union freed
      BY <2>3 DEF TableRight, Used
    <3>2. behind \in Registered'
      BY <2>7, <2>12, <3>1
    <3>3. PICK i \in 0 .. n - 1 : behind = moved[i].who
      BY <2>8, <3>2 DEF Registered
    <3> QED
      BY <2>7, <3>3
  <2>14. freed' = freed \union {who}
    BY <2>8, <2>13
  <2>15. \A i \in Slot : Used(i) => i \in 0 .. n
    <3> SUFFICES ASSUME NEW i \in Slot, Used(i), i \notin 0 .. n PROVE FALSE
      OBVIOUS
    <3>1. clientCount \in 0 .. i
      BY <2>9 DEF Slot
    <3>2. Used(clientCount)
      BY <3>1 DEF TableRight
    <3> QED
      BY <2>13, <3>2 DEF Used
  <2>16. /\ \A i \in Slot : Used(i)' <=> Used(i)
         /\ \A i \in Slot : Used(i) => \E j \in 0 .. n : clients'[i] = clients[j]
                                                       /\ (j = i \/ (i = s /\ j = n))
    <3>1. ASSUME NEW i \in Slot, i = s PROVE Used(i)' /\ Used(i) /\ clients'[i] = clients[n] /\ n \in 0 .. n
      BY <2>6, <2>8, <2>9, <2>10, <3>1 DEF Used
    <3>2. ASSUME NEW i \in Slot, i # s PROVE (Used(i)' <=> Used(i)) /\ clients'[i] = clients[i]
      BY <2>6, <2>8, <3>2 DEF Used
    <3> QED
      BY <2>15, <3>1, <3>2
  <2>17. TypeTable'
    <3>1. moved \in [Slot -> [who : Client \union {NULL}, free : 0 .. 1, status : 0 .. 1]]
      BY <2>2 DEF moved, n, TypeTable
    <3>2. who \in Client
      BY <2>5 DEF Registered, TypeTable
    <3>3. n \in 0 .. MAX_CLIENTS
      BY <2>9 DEF TypeTable
    <3> QED
      BY <2>8, <2>14, <3>1, <3>2, <3>3 DEF TypeTable
  <2>18. \A i \in 0 .. clientCount' - 1 : i \in Slot /\ i # n /\ i \in 0 .. n /\ Used(i)'
    <3>1. \A i \in 0 .. clientCount' - 1 : i \in 0 .. n /\ i # n
      BY <2>8, <2>9
    <3> QED
      BY <2>10, <2>16, <3>1
  <2>19. \A i, j \in 0 .. clientCount' - 1 :
           NameOf[clients'[i].who] = NameOf[clients'[j].who] => i = j
    <3>1. \A i, j \in 0 .. n : NameOf[clients[i].who] = NameOf[clients[j].who] => i = j
      <4>1. 0 .. n = 0 .. clientCount - 1
        BY <2>9
      <4> QED
        BY <4>1 DEF TableRight
    <3>2. \A i \in 0 .. clientCount' - 1 :
            clients'[i] = clients[IF i = s THEN n ELSE i] /\ n \in 0 .. n
      BY <2>6, <2>8, <2>9, <2>18
    <3> QED
      BY <2>18, <3>1, <3>2
  <2>20. Registered' \intersect freed' = {}
    BY <2>12, <2>14 DEF TableRight
  <2>21. \A i \in Slot : Used(i)' => \A t \in 0 .. i : Used(t)'
    <3>1. \A i \in Slot : \A t \in 0 .. i : t \in Slot
      BY DEF Slot
    <3> QED
      BY <2>16, <3>1 DEF TableRight
  <2>22. \A i \in Slot : Used(i)' => clients'[i].who \in Registered' \union freed'
    BY <2>10, <2>12, <2>14, <2>16
  <2>23. AllFree'
    BY <2>9, <2>10, <2>16 DEF AllFree
  <2>24. \A d \in Client : Known(d)' => Known(d)
    BY <2>5, <2>12, <2>14 DEF Known
  <2> QED
    BY <2>8, <2>17, <2>18, <2>19, <2>20, <2>21, <2>22, <2>23, <2>24 DEF TableRight
<1> QED
  BY <1>1, <1>2

-----------------------------------------------------------------------------
(* The handlers. *)

LEMMA WorkStep ==
  ASSUME TypeTable, AllFree, printed \in Nat, NEW c \in Client, NEW id, NEW next,
         workAction(c, id, next)
  PROVE  UNCHANGED table /\ printed' \in Nat /\ spc' \in {next, "SIGSEGV"}
<1>1. CASE spc' = next /\ UNCHANGED <<table, printed>>
  BY <1>1
<1>2. CASE /\ \E clientId \in Search(NameOf[c], {1}) :
                /\ clients' = IF clientId \in Slot THEN [clients EXCEPT ![clientId].free = 1]
                                                   ELSE clients
                /\ printed' = IF clientId \in Slot THEN printed + 1 ELSE printed
                /\ spc' = Ends(clientId, next)
           /\ UNCHANGED <<clientCount, freed>>
  BY <1>2, SameSlot DEF table, Ends
<1> QED
  BY <1>1, <1>2 DEF workAction

LEMMA PongStep ==
  ASSUME TypeTable, AllFree, NEW c \in Client, NEW next, pingAction(c, next)
  PROVE  UNCHANGED <<table, printed>> /\ spc' \in {next, "SIGSEGV"}
BY SameSlot DEF pingAction, table, Ends

LEMMA LogoutStep ==
  ASSUME TypeTable, TableRight, AllFree, NEW c \in Client, NEW next, logoutAction(c, next)
  PROVE  /\ TypeTable' /\ printed' = printed /\ spc' \in {"undefined", "SIGSEGV", next}
         /\ Up' => TableRight' /\ AllFree' /\ \A d \in Client : Known(d)' => Known(d)
<1>1. PICK s \in Search(NameOf[c], {1}) :
        IF s \in Slot THEN Becomes(Removed(Table, s), next)
        ELSE spc' = Ends(s, next) /\ UNCHANGED table
  BY DEF logoutAction
<1>2. CASE s \in Slot
  BY <1>1, <1>2, RemoveStep DEF logoutAction
<1>3. CASE s \notin Slot
  BY <1>1, <1>3, SameTable DEF logoutAction, Ends
<1> QED
  BY <1>2, <1>3

LEMMA RequestStep ==
  ASSUME Inv, Up, handleRequest
  PROVE  Inv'
<1> DEFINE c == Event.fd
           m == Head(outbox[c])
<1>0. TypeTable /\ TypeServer /\ TypeEpoll /\ TypeBoxes /\ TableRight /\ AllFree
      /\ RegistersOnce /\ Reported
  BY DEF Inv, Types
<1>1. /\ spc = "serve" /\ c # Listener
      /\ UNCHANGED <<operationCount, ready, backlog, accepted, ping, inbox, client>>
  BY DEF handleRequest
<1>2. c \in Client /\ AfterEvent \in {"wait", "serve"}
  BY <1>0, <1>1, EventDone DEF Fd
<1>3. pc' = pc /\ UNCHANGED client
  BY <1>1 DEF client
<1>4. CASE spc' = "undefined" /\ UNCHANGED <<table, printed, events, outbox>>
  <2>1. TypeTable' /\ TypeServer' /\ TypeEpoll' /\ TypeBoxes' /\ ~Up'
    BY <1>0, <1>1, <1>4, SameTable DEF TypeServer, TypeEpoll, TypeBoxes, Up
  <2> QED
    BY <1>3, <2>1, ServerMoves
<1>5. CASE getMessage(c) /\ m.type = REGISTER_ACTION /\ registerAction(c) /\ UNCHANGED events
  <2>1. ~Known(c)
    <3>1. outbox[c] # <<>> /\ outbox[c] \in Seq(ToServerBox)
      BY <1>0, <1>2, <1>5 DEF getMessage, TypeBoxes
    <3>2. 1 \in DOMAIN outbox[c] /\ outbox[c][1] = m
      BY <3>1, FirstAndRest
    <3> HIDE DEF c, m
    <3> QED
      BY <1>0, <1>2, <1>5, <3>2 DEF RegistersOnce, Known
  <2> HIDE DEF c, m
  <2>2. /\ TypeTable' /\ printed' = printed /\ spc' \in {"reply", "undefined"}
        /\ Up' => TableRight' /\ AllFree' /\ \A d \in Client \ {c} : Known(d)' => Known(d)
    <3>1. CASE Add(c)
      BY <1>0, <1>2, <1>5, <2>1, <3>1, AddStep DEF registerAction
    <3>2. CASE Refuse(c)
      <4>1. UNCHANGED <<table, printed>> /\ spc' = "reply"
        BY <1>5, <3>2 DEF registerAction, Refuse
      <4> QED
        BY <1>0, <4>1, SameTable
    <3> QED
      BY <1>5, <3>1, <3>2 DEF registerAction
  <2>3. TypeEpoll' /\ TypeServer' /\ Reported'
    BY <1>0, <1>1, <1>5, <2>2 DEF TypeEpoll, TypeServer, Reported
  <2>4. TypeBoxes' /\ (Up' => RegistersOnce')
    <3>1. outbox' \in [Client -> Seq(ToServerBox)]
      <4>1. outbox' = [outbox EXCEPT ![c] = Tail(@)] /\ Tail(outbox[c]) \in Seq(ToServerBox)
        BY <1>0, <1>2, <1>5 DEF getMessage, TypeBoxes
      <4> QED
        BY <1>0, <4>1 DEF TypeBoxes
    <3>2. Up' => RegistersOnce'
      BY <1>0, <1>2, <1>3, <1>5, <2>2, OneRead
    <3> QED
      BY <1>0, <1>1, <3>1, <3>2 DEF TypeBoxes
  <2> QED
    BY <1>3, <2>2, <2>3, <2>4, ServerMoves
<1>6. CASE /\ getMessage(c) /\ events' = Tail(events)
           /\ \/ workAction(c, m.id, AfterEvent)
              \/ logoutAction(c, AfterEvent)
              \/ pingAction(c, AfterEvent)
  <2> HIDE DEF c, m
  <2>1. printed \in Nat
    BY <1>0 DEF TypeServer
  <2>2. /\ TypeTable' /\ printed' \in Nat /\ spc' \in {"undefined", "SIGSEGV", AfterEvent}
        /\ Up' => TableRight' /\ AllFree' /\ \A d \in Client : Known(d)' => Known(d)
    <3>1. CASE workAction(c, m.id, AfterEvent)
      BY <1>0, <1>2, <2>1, <3>1, WorkStep, SameTable
    <3>2. CASE logoutAction(c, AfterEvent)
      BY <1>0, <1>2, <2>1, <3>2, LogoutStep
    <3>3. CASE pingAction(c, AfterEvent)
      BY <1>0, <1>2, <2>1, <3>3, PongStep, SameTable
    <3> QED
      BY <1>6, <3>1, <3>2, <3>3
  <2>3. spc' \in {"serve", "reply"} => spc' = AfterEvent
    BY <1>2, <2>2
  <2>4. TypeEpoll' /\ Reported'
    BY <1>0, <1>1, <1>6, <2>3, NextEvent DEF TypeEpoll, Reported
  <2>5. TypeServer'
    BY <1>0, <1>1, <1>2, <2>2 DEF TypeServer
  <2>6. TypeBoxes' /\ (Up' => RegistersOnce')
    <3>1. outbox' \in [Client -> Seq(ToServerBox)]
      <4>1. outbox' = [outbox EXCEPT ![c] = Tail(@)] /\ Tail(outbox[c]) \in Seq(ToServerBox)
        BY <1>0, <1>2, <1>6 DEF getMessage, TypeBoxes
      <4> QED
        BY <1>0, <4>1 DEF TypeBoxes
    <3>2. Up' => RegistersOnce'
      BY <1>0, <1>2, <1>3, <1>6, <2>2, OneRead
    <3> QED
      BY <1>0, <1>1, <3>1, <3>2 DEF TypeBoxes
  <2> QED
    BY <1>3, <2>2, <2>4, <2>5, <2>6, ServerMoves
<1> QED
  BY <1>4, <1>5, <1>6 DEF handleRequest

(* The ping thread finds nobody silent. *)
LEMMA SweepStep ==
  ASSUME Inv, Up, Sweep
  PROVE  Inv'
<1>0. TypeTable /\ TypeServer /\ TypeBoxes /\ AllFree
  BY DEF Inv, Types
<1> DEFINE N == MAX_CLIENTS
           silent(t, i) == t.clients[i - 1].who # NULL /\ t.clients[i - 1].status = 0
           next(i, t) == IF silent(t, i) /\ ~t.bad THEN Removed(t, i - 1) ELSE t
           Is(f) == f = [i \in 0 .. N |-> IF i = 0 THEN Table ELSE next(i, f[i - 1])]
           upTo == CHOOSE f : Is(f)
           step == [x \in (1 .. N) \X {Table} |-> Table]
<1>1. Becomes(upTo[N], spc) /\ ping' = "ping"
      /\ UNCHANGED <<operationCount, epoll, printed, outbox, inbox, client>>
  BY DEF Sweep
<1>2. \A i \in 1 .. N : next(i, Table) = Table
  <2> SUFFICES ASSUME NEW i \in 1 .. N PROVE ~silent(Table, i)
    OBVIOUS
  <2>1. i - 1 \in Slot
    BY DEF Slot
  <2> QED
    BY <1>0, <2>1 DEF AllFree, Used, Table
<1> HIDE DEF next
<1>3. Is([i \in 0 .. N |-> Table])
  <2>1. \A i \in 1 .. N : i - 1 \in 0 .. N
    OBVIOUS
  <2>2. \A i \in 0 .. N : i = 0 \/ i \in 1 .. N
    OBVIOUS
  <2> DEFINE g == [i \in 0 .. N |-> Table]
  <2>3. \A i \in 0 .. N : Table = IF i = 0 THEN Table ELSE next(i, g[i - 1])
    BY <1>2, <2>1, <2>2
  <2> QED
    BY <2>3
<1>4. Is(upTo)
  <2> HIDE DEF Is
  <2> QED
    BY <1>3
<1> HIDE DEF upTo
<1>5. upTo[0] = Table /\ \A i \in 1 .. N : upTo[i] = next(i, upTo[i - 1])
  BY <1>4
<1>6. StepsInside(upTo, N, {Table}, Table, step)
  <2>1. ASSUME NEW i \in 1 .. N, upTo[i - 1] \in {Table} PROVE upTo[i] = step[<<i, upTo[i - 1]>>]
    BY <1>2, <1>5, <2>1
  <2> QED
    BY <1>5, <2>1 DEF StepsInside
<1>7. StaysIn(upTo, N, {Table})
  <2>1. step \in [(1 .. N) \X {Table} -> {Table}]
    OBVIOUS
  <2> HIDE DEF step
  <2> QED
    BY <1>6, <2>1, StepsStay
<1>8. upTo[N] = Table
  BY <1>7 DEF StaysIn
<1>9. UNCHANGED table /\ spc' = spc
  BY <1>1, <1>8 DEF Becomes, Table, table
<1>10. operationCount' \in 0 .. MaxTasks /\ inbox' \in [Client -> Seq(ToClientBox)]
  BY <1>0, <1>1 DEF TypeServer, TypeBoxes
<1> QED
  BY <1>1, <1>9, <1>10, ThreadMoves

-----------------------------------------------------------------------------
(* The invariant. *)

LEMMA InitInv == Init => Inv
<1> SUFFICES ASSUME Init PROVE Inv
  OBVIOUS
<1> USE DEF Init
<1>1. TypeTable /\ TypeServer
  BY DEF TypeTable, TypeServer, Unused
<1>2. TypeEpoll /\ TypeBoxes
  BY DEF TypeEpoll, TypeBoxes
<1>3. TypeClient
  BY DEF TypeClient, Result, NoWorkBefore
<1>4. Deaths
  <2>1. {c \in Client : pc[c] \in {"exiting", "ended"}} = {}
    OBVIOUS
  <2>2. Leaving = Cardinality({})
    BY <2>1 DEF Leaving
  <2> HIDE DEF Init
  <2> QED
    BY <2>2, FS_EmptySet DEF Deaths
<1>5. Registered = {}
  BY DEF Registered
<1>6. \A s \in Slot : ~Used(s)
  BY DEF Used, Unused
<1>7. TableRight /\ AllFree
  BY <1>5, <1>6 DEF TableRight, AllFree
<1>8. RegistersOnce
  BY <1>5 DEF RegistersOnce
<1>9. Reported
  <2>1. Once(ready)
    BY DEF Once
  <2>2. Once([i \in DOMAIN events |-> events[i].fd])
    <3>1. events \in Seq({}) /\ \A i, j \in DOMAIN events : i = j
      OBVIOUS
    <3> QED
      BY <3>1, OnceFds
  <2> QED
    BY <2>1, <2>2 DEF Reported
<1> QED
  BY <1>1, <1>2, <1>3, <1>4, <1>7, <1>8, <1>9 DEF Inv, Types

LEMMA NextInv == Inv /\ [Next]_vars => Inv'
<1>1. ASSUME Inv, UNCHANGED vars PROVE Inv'
  <2>1. /\ UNCHANGED table /\ UNCHANGED client
        /\ UNCHANGED <<operationCount, spc, events, ready, backlog, accepted, ping, printed,
                       outbox, inbox>>
    BY <1>1 DEF vars, server, epoll
  <2>2. TypeTable' /\ TypeServer' /\ TypeEpoll' /\ TypeBoxes'
    BY <1>1, <2>1, SameTable DEF Inv, Types, TypeServer, TypeEpoll, TypeBoxes
  <2>3. ASSUME Up' PROVE TableRight' /\ AllFree' /\ RegistersOnce' /\ Reported'
    <3>1. TableRight /\ AllFree /\ RegistersOnce /\ Reported
      BY <1>1, <2>1, <2>3 DEF Inv, Up
    <3>2. TableRight' /\ AllFree' /\ \A d \in Client : Known(d)' = Known(d)
      BY <2>1, <3>1, SameTable
    <3>3. RegistersOnce'
      BY <2>1, <3>1, <3>2, SameAsking DEF client
    <3>4. Reported'
      BY <2>1, <3>1 DEF Reported
    <3> QED
      BY <3>2, <3>3, <3>4
  <2> QED
    BY <1>1, <2>1, <2>2, <2>3, ServerMoves
<1>2. ASSUME Inv, Next PROVE Inv'
  BY <1>2, EpollStep, AcceptStep, RequestStep, SkipHangupStep, ReplyStep, PingThreadStep, SweepStep,
     InputStep, ClientSteps
  DEF Next, MainStep, PingStep
<1> QED
  BY <1>1, <1>2

(* TableInv holds for every set of clients, size of the table and names:   *)
(* whoever connects, registers, leaves or is killed, in whatever order, as *)
(* long as the server runs.                                                *)
THEOREM ClusterTableIsRight == Spec => []TableInv
<1>1. Init => Inv
  BY InitInv
<1>2. Inv /\ [Next]_vars => Inv'
  BY NextInv
<1>3. Inv => TableInv
  BY InvParts
<1> QED
  BY <1>1, <1>2, <1>3, PTL DEF Spec

LEMMA SearchEnds ==
  ASSUME TypeTable, TableRight, AllFree, NEW c, NEW d \in Registered, NameOf[c] = NameOf[d],
         NEW frees, 1 \in frees, NEW s \in Search(NameOf[c], frees), NEW next
  PROVE  Ends(s, next) = next
BY NoCrash DEF Ends

(* A request with a registered name does not end in a crash. *)
LEMMA RequestFinds ==
  ASSUME Inv, handleRequest, NEW d \in Registered, NameOf[Event.fd] = NameOf[d]
  PROVE  spc' # "SIGSEGV"
<1> DEFINE c == Event.fd
           m == Head(outbox[c])
<1>0. TypeTable /\ TableRight /\ AllFree /\ TypeEpoll /\ Reported /\ spc = "serve"
  BY DEF Inv, Types, handleRequest, Up
<1>1. AfterEvent # "SIGSEGV"
  BY DEF AfterEvent
<1>2. CASE spc' = "undefined"
  BY <1>2
<1>3. CASE registerAction(c)
  BY <1>3 DEF registerAction, Refuse, Add
<1>4. CASE workAction(c, m.id, AfterEvent)
  <2>1. spc' = AfterEvent \/ \E s \in Search(NameOf[c], {1}) : spc' = Ends(s, AfterEvent)
    BY <1>4 DEF workAction
  <2> QED
    BY <1>0, <1>1, <2>1, SearchEnds
<1>5. CASE logoutAction(c, AfterEvent)
  <2>1. \E s \in Search(NameOf[c], {1}) :
          spc' \in {"undefined", AfterEvent} \/ spc' = Ends(s, AfterEvent)
    BY <1>5 DEF logoutAction, Becomes
  <2> QED
    BY <1>0, <1>1, <2>1, SearchEnds
<1>6. CASE pingAction(c, AfterEvent)
  <2>1. \E s \in Search(NameOf[c], {0, 1}) : spc' = Ends(s, AfterEvent)
    BY <1>6 DEF pingAction
  <2> QED
    BY <1>0, <1>1, <2>1, SearchEnds
<1> QED
  BY <1>2, <1>3, <1>4, <1>5, <1>6 DEF handleRequest

LEMMA NextFinds ==
  ASSUME Inv, [Next]_vars, NEW c \in Client, spc = "serve", Event.fd = c,
         NameOf[c] \in {NameOf[d] : d \in Registered}
  PROVE  spc' # "SIGSEGV"
<1>1. AfterEvent # "SIGSEGV"
  BY DEF AfterEvent
<1>2. CASE UNCHANGED vars
  BY <1>2 DEF vars, server
<1>3. CASE MainStep
  <2>1. handleRequest => spc' # "SIGSEGV"
    BY RequestFinds
  <2> QED
    BY <1>1, <1>3, <2>1 DEF MainStep, epoll_wait, accept, SkipHangup, Reply
<1>4. CASE PingStep
  BY <1>4 DEF PingStep, threadPing, Send, Sweep, Becomes
<1>5. CASE threadInput
  BY <1>5 DEF threadInput, Send
<1>6. CASE \E d \in Client : ClientStep(d) \/ Environment(d)
  BY <1>6 DEF ClientStep, Environment, Connect, Register, Receive, Clean, WorkerRead, WorkerSend,
              handleSIGINT, Exit, Killed, Close, Elsewhere
<1> QED
  BY <1>2, <1>3, <1>4, <1>5, <1>6 DEF Next

(* KnownIsFound holds for every set of clients, size of the table and      *)
(* names: the searches that do not look for the end of the table need not. *)
THEOREM ClusterFindsKnown == Spec => KnownIsFound
<1> DEFINE Found == \A c \in Client :
                      /\ spc = "serve" /\ Event.fd = c
                      /\ NameOf[c] \in {NameOf[d] : d \in Registered}
                      => spc' # "SIGSEGV"
<1>1. Init => Inv
  BY InitInv
<1>2. Inv /\ [Next]_vars => Inv'
  BY NextInv
<1>3. Inv /\ [Next]_vars => [Found]_vars
  BY NextFinds
<1> QED
  BY <1>1, <1>2, <1>3, PTL DEF Spec, KnownIsFound

-----------------------------------------------------------------------------
(* The tasks that are somewhere. *)

Where(box) == {i \in DOMAIN box : box[i].type = WORK_ACTION}

LEMMA WhereFinite ==
  ASSUME NEW T, NEW box \in Seq(T)
  PROVE  IsFiniteSet(Where(box)) /\ WorkIn(box) = Cardinality(Where(box)) /\ WorkIn(box) \in Nat
<1>1. Len(box) \in Nat /\ DOMAIN box = 1 .. Len(box)
  OBVIOUS
<1>2. IsFiniteSet(DOMAIN box)
  BY <1>1, FS_Interval
<1>3. Where(box) \in SUBSET DOMAIN box /\ WorkIn(box) = Cardinality(Where(box))
  BY DEF Where, WorkIn
<1> QED
  BY <1>2, <1>3, FS_Subset, FS_CardinalityType

LEMMA NoWork == WorkIn(<<>>) = 0
<1>1. Where(<<>>) = {}
  BY DEF Where
<1>2. WorkIn(<<>>) = Cardinality(Where(<<>>))
  BY DEF Where, WorkIn
<1> QED
  BY <1>1, <1>2, FS_EmptySet

One(m) == IF m.type = WORK_ACTION THEN 1 ELSE 0

LEMMA WorkAppended ==
  ASSUME NEW T, NEW box \in Seq(T), NEW m
  PROVE  WorkIn(Append(box, m)) = WorkIn(box) + One(m)
<1> DEFINE q == Append(box, m)
           n == Len(box) + 1
<1>1. /\ n \in Nat /\ DOMAIN q = 1 .. n /\ DOMAIN box = 1 .. n - 1
      /\ q[n] = m /\ \A i \in DOMAIN box : q[i] = box[i]
  <2>1. Len(box) \in Nat /\ n - 1 = Len(box)
    OBVIOUS
  <2> QED
    BY <2>1
<1>2. n \notin Where(box)
  BY <1>1 DEF Where
<1>3. \A i \in DOMAIN q : i \in DOMAIN box \/ i = n
  BY <1>1
<1>4. n \in DOMAIN q /\ DOMAIN box \subseteq DOMAIN q
  BY <1>1
<1> HIDE DEF q, n
<1>5. Where(q) = IF m.type = WORK_ACTION THEN Where(box) \union {n} ELSE Where(box)
  BY <1>1, <1>3, <1>4 DEF Where
<1>6. WorkIn(q) = Cardinality(Where(q))
  BY DEF WorkIn, Where
<1>7. IsFiniteSet(Where(box)) /\ WorkIn(box) = Cardinality(Where(box)) /\ WorkIn(box) \in Nat
  BY WhereFinite
<1>8. CASE m.type = WORK_ACTION
  <2>1. Cardinality(Where(box) \union {n}) = Cardinality(Where(box)) + 1
    BY <1>2, <1>7, FS_AddElement
  <2>2. WorkIn(q) = WorkIn(box) + 1
    BY <1>5, <1>6, <1>7, <1>8, <2>1
  <2> QED
    BY <1>8, <2>2 DEF One, q
<1>9. CASE m.type # WORK_ACTION
  <2>1. WorkIn(q) = WorkIn(box) + 0
    BY <1>5, <1>6, <1>7, <1>9
  <2> QED
    BY <1>9, <2>1 DEF One, q
<1> QED
  BY <1>8, <1>9

LEMMA WorkTaken ==
  ASSUME NEW T, NEW box \in Seq(T), box # <<>>
  PROVE  WorkIn(box) = WorkIn(Tail(box)) + One(Head(box))
<1> DEFINE q == Tail(box)
           n == Len(box)
           f == [i \in Where(q) |-> i + 1]
<1>1. /\ n \in Nat \ {0} /\ DOMAIN box = 1 .. n /\ q \in Seq(T) /\ DOMAIN q = 1 .. n - 1
      /\ Head(box) = box[1] /\ \A i \in 1 .. n - 1 : q[i] = box[i + 1]
  <2>1. Len(q) = n - 1 /\ q \in Seq(T) /\ n \in Nat /\ n # 0
    BY HeadTailProperties
  <2>2. DOMAIN box = 1 .. n /\ DOMAIN q = 1 .. Len(q)
    BY <2>1
  <2>3. Head(box) = box[1] /\ \A i \in DOMAIN q : q[i] = box[i + 1]
    BY FirstAndRest
  <2> QED
    BY <2>1, <2>2, <2>3
<1> HIDE DEF q, n
<1>2. \A i \in Where(q) : i \in Nat \ {0} /\ i + 1 \in Where(box) \ {1}
  <2>1. \A i \in 1 .. n - 1 : i \in Nat \ {0} /\ i + 1 \in 1 .. n /\ i + 1 # 1
    BY <1>1
  <2> QED
    BY <1>1, <2>1 DEF Where
<1>3. \A j \in Where(box) \ {1} : j \in Nat /\ j - 1 \in Where(q) /\ (j - 1) + 1 = j
  <2>1. \A j \in 1 .. n : j # 1 => j \in Nat /\ j - 1 \in 1 .. n - 1 /\ (j - 1) + 1 = j
    BY <1>1
  <2> QED
    BY <1>1, <2>1 DEF Where
<1>4. f \in Bijection(Where(q), Where(box) \ {1})
  <2>1. f \in [Where(q) -> Where(box) \ {1}]
    BY <1>2
  <2>2. \A i, j \in Where(q) : f[i] = f[j] => i = j
    BY <1>2
  <2>3. \A j \in Where(box) \ {1} : \E i \in Where(q) : f[i] = j
    BY <1>3
  <2> HIDE DEF f
  <2> QED
    BY <2>1, <2>2, <2>3 DEF Bijection, Injection, Surjection, IsInjective
<1>5. /\ IsFiniteSet(Where(q)) /\ WorkIn(q) = Cardinality(Where(q))
      /\ IsFiniteSet(Where(box)) /\ WorkIn(box) = Cardinality(Where(box)) /\ WorkIn(box) \in Nat
  BY <1>1, WhereFinite
<1>6. Cardinality(Where(box) \ {1}) = Cardinality(Where(q))
  BY <1>4, <1>5, FS_Bijection DEF ExistsBijection
<1>7. 1 \in Where(box) <=> Head(box).type = WORK_ACTION
  <2>1. 1 \in 1 .. n
    BY <1>1
  <2> QED
    BY <1>1, <2>1 DEF Where
<1>8. Cardinality(Where(box) \ {1})
        = IF 1 \in Where(box) THEN Cardinality(Where(box)) - 1 ELSE Cardinality(Where(box))
  BY <1>5, FS_RemoveElement
<1>9. WorkIn(q) = IF Head(box).type = WORK_ACTION THEN WorkIn(box) - 1 ELSE WorkIn(box)
  BY <1>5, <1>6, <1>7, <1>8
<1> QED
  BY <1>5, <1>9 DEF One, q

(* The tasks and results of one client. *)
Load(in, n, r, out) == WorkIn(in) + n + Len(r) + WorkIn(out)

LoadOf(c) == Load(inbox[c], started[c], results[c], outbox[c])
Balanced == SumFunction(Work) + printed <= operationCount

Loaded == Work \in [Client -> Nat] /\ \A c \in Client : Work[c] = LoadOf(c)

LEMMA WorkIsLoad == Inv => Loaded
<1> SUFFICES ASSUME TypeBoxes, TypeClient PROVE Loaded
  BY DEF Inv, Types
<1>1. \A c \in Client : Work[c] = LoadOf(c)
  BY DEF Work, Unfinished, LoadOf, Load
<1>2. ASSUME NEW c \in Client PROVE LoadOf(c) \in Nat
  <2>1. /\ inbox[c] \in Seq(ToClientBox) /\ outbox[c] \in Seq(ToServerBox)
        /\ started[c] \in Nat /\ results[c] \in Seq(Result)
    BY DEF TypeBoxes, TypeClient
  <2>2. WorkIn(inbox[c]) \in Nat /\ WorkIn(outbox[c]) \in Nat /\ Len(results[c]) \in Nat
    BY <2>1, WhereFinite
  <2> QED
    BY <2>1, <2>2 DEF LoadOf, Load
<1>3. Work = [c \in Client |-> Work[c]]
  BY DEF Work
<1> QED
  BY <1>1, <1>2, <1>3 DEF Loaded

(* What one client gains is a new task, what it loses may be printed. *)
LEMMA OneBalanced ==
  ASSUME Inv, Inv', Balanced, NEW c \in Client,
         \A d \in Client \ {c} : LoadOf(d)' = LoadOf(d),
         LoadOf(c)' + printed' + operationCount <= LoadOf(c) + printed + operationCount'
  PROVE  Balanced'
<1>1. Loaded
  BY WorkIsLoad
<1>2. Loaded'
  BY WorkIsLoad, PTL
<1>3. /\ SumFunction(Work) \in Nat /\ SumFunction(Work') \in Nat
      /\ SumFunction(Work') + Work[c] = SumFunction(Work) + Work'[c]
  <2>1. \A d \in Client \ {c} : Work'[d] = Work[d]
    BY <1>1, <1>2 DEF Loaded
  <2> QED
    BY <1>1, <1>2, <2>1, TotalChange DEF Loaded
<1>4. /\ Work[c] \in Nat /\ Work'[c] \in Nat /\ Work[c] = LoadOf(c) /\ Work'[c] = LoadOf(c)'
  BY <1>1, <1>2 DEF Loaded
<1>5. printed \in Nat /\ printed' \in Nat /\ operationCount \in Nat /\ operationCount' \in Nat
  BY DEF Inv, Types, TypeServer
<1>6. SumFunction(Work) + printed <= operationCount
  BY DEF Balanced
<1>7. Work'[c] + printed' + operationCount <= Work[c] + printed + operationCount'
  BY <1>4
<1>8. SumFunction(Work') + printed' <= operationCount'
  BY <1>3, <1>4, <1>5, <1>6, <1>7
<1> QED
  BY <1>8 DEF Balanced

LEMMA AllBalanced ==
  ASSUME Inv, Inv', Balanced, \A d \in Client : LoadOf(d)' = LoadOf(d),
         printed' = printed, operationCount <= operationCount'
  PROVE  Balanced'
<1>1. Loaded
  BY WorkIsLoad
<1>2. Loaded'
  BY WorkIsLoad, PTL
<1>3. Work' = Work
  BY <1>1, <1>2 DEF Loaded
<1>4. SumFunction(Work) \in Nat
  BY <1>1, TotalIsNat DEF Loaded
<1>5. printed \in Nat /\ operationCount \in Nat /\ operationCount' \in Nat
  BY DEF Inv, Types, TypeServer
<1> QED
  BY <1>3, <1>4, <1>5 DEF Balanced

SameBoxes(d) ==
  /\ inbox'[d] = inbox[d] /\ outbox'[d] = outbox[d]
  /\ started'[d] = started[d] /\ results'[d] = results[d]

LEMMA OneMoves ==
  ASSUME Inv, Inv', Balanced, NEW c \in Client, Elsewhere,
         \A d \in Client \ {c} : SameBoxes(d), LoadOf(c)' <= LoadOf(c)
  PROVE  Balanced'
<1>1. \A d \in Client \ {c} : LoadOf(d)' = LoadOf(d)
  BY DEF LoadOf, SameBoxes
<1>2. Loaded
  BY WorkIsLoad
<1>3. Loaded'
  BY WorkIsLoad, PTL
<1>4. LoadOf(c) \in Nat /\ LoadOf(c)' \in Nat
  <2>1. Work[c] \in Nat /\ Work'[c] \in Nat /\ Work[c] = LoadOf(c) /\ Work'[c] = LoadOf(c)'
    BY <1>2, <1>3 DEF Loaded
  <2> QED
    BY <2>1
<1>5. printed' = printed /\ operationCount' = operationCount
  BY DEF Elsewhere
<1>6. printed \in Nat /\ operationCount \in Nat
  BY DEF Inv, Types, TypeServer
<1>7. LoadOf(c)' + printed' + operationCount <= LoadOf(c) + printed + operationCount'
  BY <1>4, <1>5, <1>6
<1> QED
  BY <1>1, <1>7, OneBalanced

(* The parts of a load are numbers. *)
LEMMA LoadParts ==
  ASSUME TypeBoxes, TypeClient, NEW c \in Client
  PROVE  /\ inbox[c] \in Seq(ToClientBox) /\ outbox[c] \in Seq(ToServerBox)
         /\ started[c] \in Nat /\ results[c] \in Seq(Result)
         /\ WorkIn(inbox[c]) \in Nat /\ WorkIn(outbox[c]) \in Nat /\ Len(results[c]) \in Nat
<1>1. /\ inbox[c] \in Seq(ToClientBox) /\ outbox[c] \in Seq(ToServerBox)
      /\ started[c] \in Nat /\ results[c] \in Seq(Result)
  BY DEF TypeBoxes, TypeClient
<1> QED
  BY <1>1, WhereFinite

LEMMA Sent ==
  ASSUME TypeBoxes, NEW c \in Client, NEW m \in ToServerBox, ToServer(c, m)
  PROVE  /\ WorkIn(outbox'[c]) = WorkIn(outbox[c]) + One(m)
         /\ \A d \in Client \ {c} : outbox'[d] = outbox[d]
<1>1. outbox[c] \in Seq(ToServerBox)
  BY DEF TypeBoxes
<1>2. outbox'[c] = Append(outbox[c], m) /\ \A d \in Client \ {c} : outbox'[d] = outbox[d]
  BY ToServerFacts
<1> QED
  BY <1>1, <1>2, WorkAppended

LEMMA OneOf ==
  /\ One(Message(REGISTER_ACTION, NoId)) = 0 /\ One(Message(LOGOUT_ACTION, NoId)) = 0
  /\ One(Message(PING_ACTION, NoId)) = 0
  /\ \A i : One(Message(WORK_ACTION, i)) = 1
BY DEF One, Message, REGISTER_ACTION, WORK_ACTION, LOGOUT_ACTION, PING_ACTION

LEMMA ClientLoads ==
  ASSUME TypeBoxes, TypeClient, NEW c \in Client, ClientStep(c) \/ Environment(c)
  PROVE  Elsewhere /\ (\A d \in Client \ {c} : SameBoxes(d)) /\ LoadOf(c)' <= LoadOf(c)
<1> DEFINE I == WorkIn(inbox[c])
           W == started[c]
           R == Len(results[c])
           O == WorkIn(outbox[c])
<1>0. inbox[c] \in Seq(ToClientBox) /\ results[c] \in Seq(Result)
  BY LoadParts
<1>counts. I \in Nat /\ W \in Nat /\ R \in Nat /\ O \in Nat
  BY LoadParts
<1> DEFINE Kept == Elsewhere /\ (\A d \in Client \ {c} : SameBoxes(d)) /\ LoadOf(c)' <= LoadOf(c)
           More(n, w, r, o) ==
             /\ Elsewhere /\ \A d \in Client \ {c} : SameBoxes(d)
             /\ WorkIn(inbox'[c]) = n /\ started'[c] = w /\ Len(results'[c]) = r
             /\ WorkIn(outbox'[c]) = o
<1>1. ASSUME NEW n \in Int, NEW w \in Int, NEW r \in Int, NEW o \in Int, More(n, w, r, o),
             n + w + r + o <= I + W + R + O
      PROVE  Kept
  <2>1. LoadOf(c) = I + W + R + O
    BY DEF LoadOf, Load
  <2>2. LoadOf(c)' = n + w + r + o
    BY <1>1 DEF LoadOf, Load
  <2> QED
    BY <1>1, <2>1, <2>2
<1> SUFFICES Kept
  OBVIOUS
<1> HIDE DEF More, Kept, I, W, R, O
<1>3. CASE Connect(c) \/ Clean(c)
  <2>1. More(I, W, R, O)
    BY <1>3 DEF Connect, Clean, worker, SameBoxes, More, I, W, R, O
  <2> QED
    BY <1>1, <1>counts, <2>1
<1>4. CASE Register(c) \/ handleSIGINT(c)
  <2>1. PICK m \in {Message(REGISTER_ACTION, NoId), Message(LOGOUT_ACTION, NoId)} : ToServer(c, m)
    BY <1>4 DEF Register, handleSIGINT
  <2>2. m \in ToServerBox /\ One(m) = 0
    BY MessageTypes, OneOf DEF ToServerBox
  <2>3. Elsewhere /\ UNCHANGED <<inbox, started, results>>
    BY <1>4 DEF Register, handleSIGINT, worker
  <2>4. WorkIn(outbox'[c]) = WorkIn(outbox[c]) + 0 /\ \A d \in Client \ {c} : outbox'[d] = outbox[d]
    BY <2>1, <2>2, Sent
  <2>5. More(I, W, R, O)
    BY <1>0, <1>counts, <2>3, <2>4 DEF SameBoxes, More, I, W, R, O
  <2> QED
    BY <1>1, <1>counts, <2>5
<1>5. CASE Receive(c)
  <2> DEFINE m == Head(inbox[c])
             pong == Message(PING_ACTION, NoId)
  <2>1. /\ inbox[c] # <<>> /\ Elsewhere /\ UNCHANGED results
        /\ inbox' = [inbox EXCEPT ![c] = Tail(@)]
    BY <1>5 DEF Receive
  <2>2. inbox'[c] = Tail(inbox[c]) /\ \A d \in Client \ {c} : inbox'[d] = inbox[d]
    BY <2>1 DEF TypeBoxes
  <2> DEFINE J == WorkIn(inbox'[c])
  <2>3. I = J + One(m)
    BY <1>0, <2>1, <2>2, WorkTaken DEF I
  <2>4. J \in Nat
    BY <1>0, <2>1, <2>2, FromServer, WhereFinite
  <2> HIDE DEF J
  <2>5. CASE m.type = WORK_ACTION /\ started' = [started EXCEPT ![c] = @ + 1] /\ UNCHANGED outbox
    <3>1. started'[c] = started[c] + 1 /\ \A d \in Client \ {c} : started'[d] = started[d]
      BY <2>5 DEF TypeClient
    <3>2. More(J, W + 1, R, O)
      BY <2>1, <2>2, <2>5, <3>1 DEF SameBoxes, More, J, W, R, O
    <3>3. One(m) = 1
      BY <2>5 DEF One
    <3> QED
      BY <1>1, <1>counts, <2>3, <2>4, <3>2, <3>3
  <2>6. CASE m.type = PING_ACTION /\ ToServer(c, pong) /\ UNCHANGED started
    <3>1. pong \in ToServerBox /\ One(pong) = 0
      BY MessageTypes, OneOf DEF ToServerBox
    <3>2. WorkIn(outbox'[c]) = WorkIn(outbox[c]) + 0 /\ \A d \in Client \ {c} : outbox'[d] = outbox[d]
      BY <2>6, <3>1, Sent
    <3>3. More(J, W, R, O)
      BY <1>0, <1>counts, <2>1, <2>2, <2>6, <3>2 DEF SameBoxes, More, J, W, R, O
    <3>4. One(m) = 0
      BY <2>6 DEF One, PING_ACTION, WORK_ACTION
    <3> QED
      BY <1>1, <1>counts, <2>3, <2>4, <3>3, <3>4
  <2>7. CASE m.type = REGISTER_ACTION /\ UNCHANGED <<started, outbox>>
    <3>1. More(J, W, R, O)
      BY <2>1, <2>2, <2>7 DEF SameBoxes, More, J, W, R, O
    <3>2. One(m) = 0
      BY <2>7 DEF One, REGISTER_ACTION, WORK_ACTION
    <3> QED
      BY <1>1, <1>counts, <2>3, <2>4, <3>1, <3>2
  <2> QED
    BY <1>5, <2>5, <2>6, <2>7 DEF Receive
<1>6. CASE WorkerRead(c)
  <2>1. /\ Elsewhere /\ started[c] > 0 /\ started' = [started EXCEPT ![c] = @ - 1]
        /\ results' = [results EXCEPT ![c] = Append(@, text[c])]
        /\ UNCHANGED <<outbox, inbox>>
    BY <1>6 DEF WorkerRead
  <2>2. /\ started'[c] = started[c] - 1 /\ results'[c] = Append(results[c], text[c])
        /\ \A d \in Client \ {c} : started'[d] = started[d] /\ results'[d] = results[d]
    BY <2>1 DEF TypeClient
  <2>3. Len(results'[c]) = Len(results[c]) + 1
    BY <1>0, <2>2
  <2>4. More(I, W - 1, R + 1, O)
    BY <2>1, <2>2, <2>3 DEF SameBoxes, More, I, W, R, O
  <2> QED
    BY <1>1, <1>counts, <2>4
<1>7. CASE WorkerSend(c)
  <2>1. PICK i \in DOMAIN results[c] :
          /\ ToServer(c, Message(WORK_ACTION, results[c][i]))
          /\ results' = [results EXCEPT ![c] = SubSeq(@, 1, i - 1) \o SubSeq(@, i + 1, Len(@))]
    BY <1>7 DEF WorkerSend
  <2> DEFINE m == Message(WORK_ACTION, results[c][i])
             rest == SubSeq(results[c], 1, i - 1) \o SubSeq(results[c], i + 1, Len(results[c]))
  <2>2. results[c][i] \in Result /\ Len(rest) = Len(results[c]) - 1
    BY <1>0, Without
  <2>3. m \in ToServerBox /\ One(m) = 1
    BY <2>2, MessageTypes, OneOf
  <2>4. results'[c] = rest /\ \A d \in Client \ {c} : results'[d] = results[d]
    BY <2>1 DEF TypeClient
  <2> HIDE DEF m, rest
  <2>5. WorkIn(outbox'[c]) = WorkIn(outbox[c]) + 1 /\ \A d \in Client \ {c} : outbox'[d] = outbox[d]
    BY <2>1, <2>3, Sent DEF m
  <2>6. Elsewhere /\ UNCHANGED <<inbox, started>>
    BY <1>7 DEF WorkerSend
  <2>7. More(I, W, R - 1, O + 1)
    BY <2>2, <2>4, <2>5, <2>6 DEF SameBoxes, More, I, W, R, O
  <2> QED
    BY <1>1, <1>counts, <2>7
<1>8. CASE Exit(c) \/ Killed(c)
  <2>1. /\ Elsewhere /\ inbox' = [inbox EXCEPT ![c] = <<>>]
        /\ started' = [started EXCEPT ![c] = 0] /\ results' = [results EXCEPT ![c] = <<>>]
        /\ UNCHANGED outbox
    BY <1>8 DEF Exit, Killed, Close
  <2>2. /\ inbox'[c] = <<>> /\ started'[c] = 0 /\ results'[c] = <<>>
        /\ \A d \in Client \ {c} : SameBoxes(d)
    BY <2>1 DEF TypeClient, TypeBoxes, SameBoxes
  <2>3. More(0, 0, 0, O)
    <3>1. Len(<<>>) = 0
      OBVIOUS
    <3> QED
      BY <2>1, <2>2, <3>1, NoWork DEF More, O
  <2> QED
    BY <1>1, <1>counts, <2>3
<1> QED
  BY <1>3, <1>4, <1>5, <1>6, <1>7, <1>8 DEF ClientStep, Environment

LEMMA SendLoads ==
  ASSUME TypeBoxes, TypeClient, NEW receivers, NEW m \in ToClientBox, NEW next,
         Send(receivers, m, next), UNCHANGED <<outbox, client>>, NEW d \in Client
  PROVE  \/ LoadOf(d)' = LoadOf(d)
         \/ d \in receivers /\ LoadOf(d)' = LoadOf(d) + One(m)
<1> DEFINE I == WorkIn(inbox[d])
           W == started[d]
           R == Len(results[d])
           O == WorkIn(outbox[d])
<1>1. I \in Nat /\ W \in Nat /\ R \in Nat /\ O \in Nat /\ inbox[d] \in Seq(ToClientBox)
  BY LoadParts
<1>2. LoadOf(d) = I + W + R + O /\ LoadOf(d)' = WorkIn(inbox'[d]) + W + R + O
  BY DEF LoadOf, Load, client, worker
<1>3. inbox'[d] = inbox[d] \/ (d \in receivers /\ inbox'[d] = Append(inbox[d], m))
  BY DEF Send
<1>4. One(m) \in Nat
  BY DEF One
<1>5. inbox'[d] = Append(inbox[d], m) => WorkIn(inbox'[d]) = I + One(m)
  BY <1>1, WorkAppended
<1>6. inbox'[d] = inbox[d] => WorkIn(inbox'[d]) = I
  OBVIOUS
<1> HIDE DEF I, W, R, O
<1> QED
  BY <1>1, <1>2, <1>3, <1>4, <1>5, <1>6

LEMMA QuietBalanced ==
  ASSUME Inv, Inv', Balanced, UNCHANGED <<inbox, outbox, client, printed, operationCount>>
  PROVE  Balanced'
<1>1. \A d \in Client : LoadOf(d)' = LoadOf(d)
  BY DEF LoadOf, client, worker
<1>2. operationCount <= operationCount'
  BY DEF Inv, Types, TypeServer
<1> QED
  BY <1>1, <1>2, AllBalanced

(* A ping or an answer is no task. *)
LEMMA NoTaskBalanced ==
  ASSUME Inv, Inv', Balanced, NEW receivers, NEW m \in ToClientBox, One(m) = 0, NEW next,
         Send(receivers, m, next), UNCHANGED <<outbox, client, printed, operationCount>>
  PROVE  Balanced'
<1>0. TypeBoxes /\ TypeClient
  BY DEF Inv, Types
<1>1. \A d \in Client : LoadOf(d)' = LoadOf(d)
  <2> SUFFICES ASSUME NEW d \in Client PROVE LoadOf(d)' = LoadOf(d)
    OBVIOUS
  <2>1. LoadOf(d) \in Nat
    BY WorkIsLoad DEF Loaded
  <2>2. LoadOf(d)' = LoadOf(d) \/ LoadOf(d)' = LoadOf(d) + 0
    BY <1>0, SendLoads
  <2> QED
    BY <2>1, <2>2
<1>2. operationCount <= operationCount'
  BY DEF Inv, Types, TypeServer
<1> QED
  BY <1>1, <1>2, AllBalanced

LEMMA InputBalanced ==
  ASSUME Inv, Inv', Balanced, threadInput
  PROVE  Balanced'
<1> DEFINE m == Message(WORK_ACTION, operationCount)
           who == clients[Chosen].who
<1>0. TypeBoxes /\ TypeClient /\ TypeServer
  BY DEF Inv, Types
<1>1. /\ operationCount < MaxTasks /\ operationCount' = operationCount + 1
      /\ Send({who} \ {NULL}, m, spc) /\ UNCHANGED <<outbox, client, printed>>
  BY DEF threadInput
<1>2. operationCount \in Nat /\ printed \in Nat /\ operationCount \in Task
  BY <1>0, <1>1 DEF TypeServer, Task
<1>3. m \in ToClientBox /\ One(m) = 1
  BY <1>2, MessageTypes, OneOf
<1> HIDE DEF m, who
<1>4. PICK w : w = who
  OBVIOUS
<1>5. \A d \in Client : LoadOf(d)' = LoadOf(d) \/ (d = w /\ LoadOf(d)' = LoadOf(d) + 1)
  BY <1>0, <1>1, <1>3, <1>4, SendLoads
<1>6. CASE w \in Client
  <2>1. \A d \in Client \ {w} : LoadOf(d)' = LoadOf(d)
    BY <1>5
  <2>2. LoadOf(w) \in Nat /\ (LoadOf(w)' = LoadOf(w) \/ LoadOf(w)' = LoadOf(w) + 1)
    BY <1>5, <1>6, WorkIsLoad DEF Loaded
  <2>3. LoadOf(w)' + printed' + operationCount <= LoadOf(w) + printed + operationCount'
    BY <1>1, <1>2, <2>2
  <2> QED
    BY <1>6, <2>1, <2>3, OneBalanced
<1>7. CASE w \notin Client
  <2>1. \A d \in Client : LoadOf(d)' = LoadOf(d)
    BY <1>5, <1>7
  <2>2. operationCount <= operationCount'
    BY <1>1, <1>2
  <2> QED
    BY <1>1, <2>1, <2>2, AllBalanced
<1> QED
  BY <1>6, <1>7

(* A result that is printed has been taken from the list of messages. *)
LEMMA RequestBalanced ==
  ASSUME Inv, Inv', Balanced, handleRequest
  PROVE  Balanced'
<1>who. PICK c : c = Event.fd
  OBVIOUS
<1> DEFINE m == Head(outbox[c])
<1>0. TypeBoxes /\ TypeClient /\ TypeServer /\ TypeEpoll /\ Reported
  BY DEF Inv, Types, handleRequest, Up
<1>1. /\ spc = "serve" /\ c # Listener /\ UNCHANGED <<operationCount, inbox, client>>
  BY <1>who DEF handleRequest
<1>2. c \in Client
  BY <1>0, <1>1, <1>who, EventDone DEF Fd
<1>3. printed \in Nat /\ operationCount \in Nat
  BY <1>0 DEF TypeServer
<1>4. CASE UNCHANGED <<printed, outbox>>
  BY <1>1, <1>4, QuietBalanced
<1>5. CASE getMessage(c) /\ (printed' = printed \/ (printed' = printed + 1 /\ One(m) = 1))
  <2> DEFINE I == WorkIn(inbox[c])
             W == started[c]
             R == Len(results[c])
             O == WorkIn(outbox[c])
             P == WorkIn(outbox'[c])
  <2>1. /\ I \in Nat /\ W \in Nat /\ R \in Nat /\ O \in Nat
        /\ outbox[c] \in Seq(ToServerBox) /\ outbox[c] # <<>>
    BY <1>0, <1>2, <1>5, LoadParts DEF getMessage
  <2>2. outbox'[c] = Tail(outbox[c]) /\ \A d \in Client \ {c} : outbox'[d] = outbox[d]
    BY <1>0, <1>2, <1>5 DEF getMessage, TypeBoxes
  <2>3. O = P + One(m) /\ P \in Nat
    <3>1. Tail(outbox[c]) \in Seq(ToServerBox)
      BY <2>1, FirstAndRest
    <3> QED
      BY <2>1, <2>2, <3>1, WorkTaken, WhereFinite
  <2>4. LoadOf(c) = I + W + R + O /\ LoadOf(c)' = I + W + R + P
    BY <1>1 DEF LoadOf, Load, client, worker
  <2>5. \A d \in Client \ {c} : LoadOf(d)' = LoadOf(d)
    BY <1>1, <2>2 DEF LoadOf, client, worker
  <2>6. One(m) \in {0, 1}
    BY DEF One
  <2> HIDE DEF I, W, R, O, P, m
  <2>7. LoadOf(c)' + printed' + operationCount <= LoadOf(c) + printed + operationCount'
    <3>1. operationCount' = operationCount
      BY <1>1
    <3>2. I + W + R + P + printed' <= I + W + R + O + printed
      <4>1. CASE printed' = printed
        BY <1>3, <2>1, <2>3, <2>6, <4>1
      <4>2. CASE printed' = printed + 1 /\ One(m) = 1
        BY <1>3, <2>1, <2>3, <4>2
      <4> QED
        BY <1>5, <4>1, <4>2
    <3>3. I + W + R + P + printed' \in Int
      BY <1>3, <1>5, <2>1, <2>3
    <3>4. I + W + R + O + printed \in Int
      BY <1>3, <2>1
    <3> QED
      BY <1>3, <2>4, <3>1, <3>2, <3>3, <3>4
  <2> QED
    BY <1>2, <2>5, <2>7, OneBalanced
<1>6. CASE getMessage(c) /\ registerAction(c)
  BY <1>5, <1>6 DEF registerAction
<1>7. CASE getMessage(c) /\ m.type = WORK_ACTION /\ workAction(c, m.id, AfterEvent)
  <2>1. printed' = printed \/ printed' = printed + 1
    BY <1>7 DEF workAction
  <2> QED
    BY <1>5, <1>7, <2>1 DEF One
<1>8. CASE getMessage(c) /\ (logoutAction(c, AfterEvent) \/ pingAction(c, AfterEvent))
  BY <1>5, <1>8 DEF logoutAction, pingAction
<1> QED
  BY <1>4, <1>6, <1>7, <1>8, <1>who DEF handleRequest

LEMMA NextBalanced == Inv /\ Inv' /\ Balanced /\ [Next]_vars => Balanced'
<1> SUFFICES ASSUME Inv, Inv', Balanced, [Next]_vars PROVE Balanced'
  OBVIOUS
<1>1. CASE UNCHANGED vars
  BY <1>1, QuietBalanced DEF vars, server
<1>2. CASE epoll_wait \/ accept \/ SkipHangup \/ Sweep
  BY <1>2, QuietBalanced DEF epoll_wait, accept, SkipHangup, Sweep
<1>3. CASE Reply \/ threadPing
  <2>1. PICK t \in {REGISTER_ACTION, PING_ACTION} :
          /\ \E receivers, next : Send(receivers, Message(t, NoId), next)
          /\ UNCHANGED <<outbox, client, printed, operationCount>>
    BY <1>3 DEF Reply, threadPing
  <2>2. Message(t, NoId) \in ToClientBox /\ One(Message(t, NoId)) = 0
    BY MessageTypes, OneOf DEF ToClientBox
  <2> QED
    BY <2>1, <2>2, NoTaskBalanced
<1>4. CASE handleRequest
  BY <1>4, RequestBalanced
<1>5. CASE threadInput
  BY <1>5, InputBalanced
<1>6. CASE \E c \in Client : ClientStep(c) \/ Environment(c)
  <2>1. PICK c \in Client : ClientStep(c) \/ Environment(c)
    BY <1>6
  <2>2. TypeBoxes /\ TypeClient
    BY DEF Inv, Types
  <2> QED
    BY <2>1, <2>2, ClientLoads, OneMoves
<1> QED
  BY <1>1, <1>2, <1>3, <1>4, <1>5, <1>6 DEF Next, MainStep, PingStep

LEMMA InitBalanced == Init => Balanced
<1> SUFFICES ASSUME Init PROVE Balanced
  OBVIOUS
<1>1. Inv
  BY InitInv
<1>2. Loaded
  BY <1>1, WorkIsLoad
<1>3. \A d \in Client : Work[d] = 0
  <2> SUFFICES ASSUME NEW d \in Client PROVE Work[d] = 0
    OBVIOUS
  <2>1. inbox[d] = <<>> /\ outbox[d] = <<>> /\ started[d] = 0 /\ results[d] = <<>>
    BY DEF Init
  <2>2. Len(<<>>) = 0
    OBVIOUS
  <2> QED
    BY <1>2, <2>1, <2>2, NoWork DEF Loaded, LoadOf, Load
<1>4. SumFunction(Work) = 0
  BY <1>2, <1>3, NoSum DEF Loaded
<1>5. printed = 0 /\ operationCount = 0
  BY DEF Init
<1> QED
  BY <1>4, <1>5 DEF Balanced

(* AnswersInv holds for every set of clients and every number of tasks:    *)
(* no task is answered twice, and no result comes from nothing, however    *)
(* the threads and the clients interleave, and whoever dies.               *)
THEOREM ClusterAnswers == Spec => []AnswersInv
<1>1. Init => Inv /\ Balanced
  BY InitInv, InitBalanced
<1>2. (Inv /\ Balanced) /\ [Next]_vars => (Inv /\ Balanced)'
  BY NextInv, NextBalanced
<1>3. Inv /\ Balanced => AnswersInv
  BY InvParts DEF Balanced, AnswersInv, TableInv
<1> QED
  BY <1>1, <1>2, <1>3, PTL DEF Spec

=============================================================================
