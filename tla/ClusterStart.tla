---------------------------- MODULE ClusterStart ----------------------------
(***************************************************************************)
(* lab10: how servers and clients of the cluster find each other.  zad1    *)
(* uses stream sockets, zad2 is the same program with datagram sockets; no *)
(* server of it comes as far as its loop.  All processes run on one host   *)
(* and in one directory; each is started once.                             *)
(***************************************************************************)
EXTENDS Naturals

CONSTANTS Servers, Clients, Ports, Names,
          mleko,          \* the name of a socket that a server removes when it starts
          None, TimeWait  \* nobody; a port that its last connection still holds

StartAssumption ==
  /\ mleko \in Names
  /\ {None, TimeWait} \cap (Servers \cup Clients) = {}
  /\ None # TimeWait /\ Servers \cap Clients = {}

VARIABLES kind,                  \* "stream" or "datagram"
          socketInternet,        \* who has each port
          socketLocal,           \* whose socket each name is, alive or not
          server, port, localSocketName, running,
          client, peer           \* whom a client is connected to

table == <<socketInternet, socketLocal>>
servers == <<server, port, localSocketName, running>>
clients == <<client, peer>>
vars == <<kind, table, servers, clients>>

Init ==
  /\ kind = "none"
  /\ socketInternet = [p \in Ports |-> None] /\ socketLocal = [n \in Names |-> None]
  /\ server = [s \in Servers |-> "new"] /\ port = [s \in Servers |-> None]
  /\ localSocketName = [s \in Servers |-> None] /\ running = [s \in Servers |-> TRUE]
  /\ client = [c \in Clients |-> "new"] /\ peer = [c \in Clients |-> None]

Build == /\ kind = "none" /\ kind' \in {"stream", "datagram"}
         /\ UNCHANGED <<table, servers, clients>>

Goes(s, there) == server' = [server EXCEPT ![s] = there]

-----------------------------------------------------------------------------
(* main of the server.  It exits with 2 or 3 where a call fails.           *)

Start(s) ==
  /\ kind # "none" /\ server[s] = "new" /\ Goes(s, "inet")
  /\ \E p \in Ports, n \in Names :
       port' = [port EXCEPT ![s] = p] /\ localSocketName' = [localSocketName EXCEPT ![s] = n]
  /\ socketLocal' = [socketLocal EXCEPT ![mleko] = None]
  /\ UNCHANGED <<kind, socketInternet, running, clients>>

BindInternet(s) ==
  /\ server[s] = "inet"
  /\ IF socketInternet[port[s]] = None
       THEN socketInternet' = [socketInternet EXCEPT ![port[s]] = s] /\ Goes(s, "listen")
       ELSE UNCHANGED socketInternet /\ Goes(s, "exit2")
  /\ UNCHANGED <<kind, socketLocal, port, localSocketName, running, clients>>

Closed(s) == [p \in Ports |-> IF socketInternet[p] = s THEN None ELSE socketInternet[p]]

(* Nothing listens on a datagram socket. *)
ListenInternet(s) ==
  /\ server[s] = "listen"
  /\ IF kind = "stream" THEN Goes(s, "local") /\ UNCHANGED socketInternet
                        ELSE Goes(s, "exit2") /\ socketInternet' = Closed(s)
  /\ UNCHANGED <<kind, socketLocal, port, localSocketName, running, clients>>

(* Bug: the name is free afterwards, whoever had it. *)
UnlinksAlways(s) ==
  /\ server[s] = "local"
  /\ IF socketLocal[localSocketName[s]] = None
       THEN /\ socketLocal' = [socketLocal EXCEPT ![localSocketName[s]] = s]
            /\ Goes(s, "bound") /\ UNCHANGED socketInternet
       ELSE /\ Goes(s, "exit3") /\ socketInternet' = Closed(s)
            /\ socketLocal' = [socketLocal EXCEPT ![localSocketName[s]] = None]
  /\ UNCHANGED <<kind, port, localSocketName, running, clients>>

(* A name that is there cannot be bound, even if its server is gone.       *)
BindLocal(s) ==
  /\ server[s] = "local"
  /\ IF socketLocal[localSocketName[s]] = None
       THEN /\ socketLocal' = [socketLocal EXCEPT ![localSocketName[s]] = s]
            /\ Goes(s, "bound") /\ UNCHANGED socketInternet
       ELSE Goes(s, "exit3") /\ socketInternet' = Closed(s) /\ UNCHANGED socketLocal
  /\ UNCHANGED <<kind, port, localSocketName, running, clients>>

ListenLocal(s) ==
  /\ server[s] = "bound" /\ Goes(s, "up")
  /\ UNCHANGED <<kind, table, port, localSocketName, running, clients>>

Alive(s) == server[s] \in {"inet", "listen", "local", "bound", "up"}

handleSIGINT(s) ==
  /\ Alive(s) /\ running[s] /\ running' = [running EXCEPT ![s] = FALSE]
  /\ UNCHANGED <<kind, table, server, port, localSocketName, clients>>

(* The name is unlinked, whosever socket it is now. *)
End(s) ==
  /\ server[s] = "up" /\ ~running[s] /\ Goes(s, "ended")
  /\ socketInternet' = Closed(s)
  /\ socketLocal' = [socketLocal EXCEPT ![localSocketName[s]] = None]
  /\ UNCHANGED <<kind, port, localSocketName, running, clients>>

(* Killed, or ended by an error. *)
Killed(s) ==
  /\ Alive(s) /\ Goes(s, "killed")
  /\ socketInternet' = Closed(s)
  /\ UNCHANGED <<kind, socketLocal, port, localSocketName, running, clients>>

-----------------------------------------------------------------------------
(* main of the client. *)

Connects(c, to) == /\ peer' = [peer EXCEPT ![c] = to]
                   /\ client' = [client EXCEPT ![c] = "connected"]

(* Somebody must listen to a name. *)
ConnectLocal(c) ==
  /\ kind # "none" /\ client[c] = "new"
  /\ \E n \in Names :
       IF socketLocal[n] # None /\ server[socketLocal[n]] = "up"
         THEN Connects(c, socketLocal[n])
         ELSE client' = [client EXCEPT ![c] = "exit3"] /\ UNCHANGED peer
  /\ UNCHANGED <<kind, table, servers>>

(* The client binds the address that it is told to connect to; that is not *)
(* possible for the address of another host.                               *)
BindClient(c) ==
  /\ kind # "none" /\ client[c] = "new"
  /\ \/ \E p \in Ports :
          /\ socketInternet[p] = None
          /\ socketInternet' = [socketInternet EXCEPT ![p] = c]
          /\ client' = [client EXCEPT ![c] = "bound"]
     \/ client' = [client EXCEPT ![c] = "exit4"] /\ UNCHANGED socketInternet
  /\ UNCHANGED <<kind, socketLocal, servers, peer>>

(* Whoever has the port is connected to. *)
ConnectInternet(c) ==
  /\ client[c] = "bound"
  /\ \E p \in Ports : socketInternet[p] = c /\ Connects(c, socketInternet[p])
  /\ UNCHANGED <<kind, table, servers>>

(* A client is stopped by SIGINT or killed; a port is not free at once     *)
(* after a stream.                                                         *)
Leaves(c) ==
  /\ client[c] \in {"bound", "connected"} /\ client' = [client EXCEPT ![c] = "gone"]
  /\ socketInternet' =
       [p \in Ports |-> IF socketInternet[p] # c THEN socketInternet[p]
                        ELSE IF kind = "stream" /\ client[c] = "connected" THEN TimeWait
                        ELSE None]
  /\ UNCHANGED <<kind, socketLocal, servers, peer>>

TimeWaitEnds(p) ==
  /\ socketInternet[p] = TimeWait /\ socketInternet' = [socketInternet EXCEPT ![p] = None]
  /\ UNCHANGED <<kind, socketLocal, servers, clients>>

-----------------------------------------------------------------------------
Next ==
  \/ Build
  \/ \E s \in Servers : \/ Start(s) \/ BindInternet(s) \/ ListenInternet(s) \/ BindLocal(s)
                        \/ ListenLocal(s) \/ handleSIGINT(s) \/ End(s) \/ Killed(s)
  \/ \E c \in Clients : ConnectLocal(c) \/ BindClient(c) \/ ConnectInternet(c) \/ Leaves(c)
  \/ \E p \in Ports : TimeWaitEnds(p)

Spec == Init /\ [][Next]_vars

-----------------------------------------------------------------------------
(* Properties. *)

(* A server that is up has its port, and its name unless it is the one     *)
(* that every server removes: no other server gets it before.  So two      *)
(* servers that are up share neither.  With datagrams none is up.          *)
Reachable ==
  \A s \in Servers : server[s] = "up" =>
    /\ kind = "stream"
    /\ socketInternet[port[s]] = s
    /\ localSocketName[s] # mleko => socketLocal[localSocketName[s]] = s

(* A server keeps its port while it starts and is up, and its name from    *)
(* the moment it is bound.                                                 *)
Keeps(s) ==
  /\ server[s] # "new" => port[s] \in Ports /\ localSocketName[s] \in Names
  /\ server[s] \in {"listen", "local", "bound", "up"} => socketInternet[port[s]] = s
  /\ server[s] \in {"local", "bound", "up"} => kind = "stream"
  /\ server[s] \in {"bound", "up"} /\ localSocketName[s] # mleko =>
       socketLocal[localSocketName[s]] = s

Tables ==
  /\ server \in [Servers -> {"new", "inet", "listen", "local", "bound", "up", "ended", "killed",
                             "exit2", "exit3"}]
  /\ DOMAIN port = Servers /\ DOMAIN localSocketName = Servers
  /\ DOMAIN socketInternet = Ports /\ DOMAIN socketLocal = Names

IInv == Tables /\ \A s \in Servers : Keeps(s)

(* "a way to connect to the server (network or UNIX sockets)"              *)
(* (lab10/README.md:31).  By the network a client connects to itself.      *)
ServedByServer == \A c \in Clients : client[c] = "connected" => peer[c] \in Servers

(* "the server listens at the same time on the network socket and the      *)
(* local socket" (lab10/README.md:7), also the one with the name mleko.    *)
Listens ==
  \A s \in Servers : server[s] = "up" => socketLocal[localSocketName[s]] = s

(* A name keeps a server from starting only while another one uses it.     *)
FailsForAlive ==
  [][\A s \in Servers : BindLocal(s) /\ server'[s] = "exit3" =>
       Alive(socketLocal[localSocketName[s]])]_vars
=============================================================================
