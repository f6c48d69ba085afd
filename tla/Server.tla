------------------------------- MODULE Server -------------------------------
(***************************************************************************)
(* Listening servers and the connections they accept (src/Server.cpp), the *)
(* registry of the connection manager (src/SocketConnection.hpp) and the   *)
(* parts of the manager task's loop that deal with them, sharing lwIP's    *)
(* small table of descriptors.                                             *)
(*                                                                         *)
(* A client is cut down to its descriptor: module Lifecycle has the rest   *)
(* of its life.  Objects are created and deleted by the user, who runs on  *)
(* threads of the application and in the callbacks of the manager task.    *)
(***************************************************************************)
EXTENDS Integers, FiniteSets

CONSTANTS
  Mgr,              \* the manager task
  Apps,             \* threads of the application
  AppServers,       \* servers the application threads use
  CallbackServers,  \* servers the callbacks use
  Clients,          \* addresses of client objects
  ClientUsers,      \* threads that create and connect clients
  Clearers,         \* threads that take an accept handler away again
  Deleters,         \* threads that delete objects
  DeletePhases,     \* where in the loop callbacks delete objects
  Alone,            \* no two threads are inside calls on the same object
  MAX_SOCKETS,      \* CONFIG_LWIP_MAX_SOCKETS
  BACKLOG,          \* Server::BACKLOG
  Nobody            \* no server, no client

Servers == AppServers \cup CallbackServers
Objects == Servers \cup Clients
Threads == Apps \cup {Mgr}
Fds     == 1..MAX_SOCKETS
NoFd    == -1

\* User callbacks run between two clients, in ACCEPT and in the last blocks.
CallbackPhases == {"clients", "ACCEPT", "cleanup"}

ASSUME ServerAssumption ==
  /\ Mgr \notin Apps /\ Nobody \notin Objects /\ Servers \cap Clients = {}
  /\ IsFiniteSet(Servers) /\ IsFiniteSet(Clients)
  /\ ClientUsers \cup Clearers \cup Deleters \subseteq Threads
  /\ DeletePhases \subseteq CallbackPhases /\ Alone \in BOOLEAN
  /\ MAX_SOCKETS \in Nat \ {0} /\ BACKLOG \in Nat \ {0}

VARIABLES
  alive,      \* objects that are constructed and not yet freed
  servers,    \* SocketConnectionManager::servers
  clients,    \* SocketConnectionManager::clients
  sock,       \* _socket of every object
  handler,    \* _callbacks.acceptHandler is set
  fd,         \* what lwIP uses each descriptor for
  backlog,    \* connections that wait at each listening descriptor
  call,       \* the begin(), end() or destructor each thread is inside of
  mpc,        \* where the manager task is in updateConnectionStates()
  rset,       \* sockSet_r: the descriptors select() found readable
  processing, \* clientsProcessing and, after it, serversProcessing
  acc,        \* locals of the running Server::_sockIsReadable()
  given,      \* history: clients the user has a pointer to
  crowded     \* history: since hasFreeSocket() was asked an object was created
              \* or a server begun

registry == <<alive, servers, clients>>
manager  == <<mpc, rset, processing, acc>>
vars == <<registry, sock, handler, fd, backlog, call, manager, given, crowded>>

-----------------------------------------------------------------------------
(* Types and helpers *)

Idle == [step |-> "none", obj |-> Nobody, fd |-> NoFd]

NoAccept == [server |-> Nobody, fd |-> NoFd]

TypeOK ==
  /\ servers \subseteq Servers /\ clients \subseteq Clients /\ alive \subseteq Objects
  /\ sock \in [Objects -> Fds \cup {NoFd}]
  /\ handler \in [Servers -> BOOLEAN]
  /\ fd \in [Fds -> {"free", "new", "listening", "connected", "hungup"}]
  /\ backlog \in [Fds -> 0..BACKLOG]
  /\ \A f \in Fds : backlog[f] > 0 => fd[f] = "listening"
  /\ call \in [Threads ->
                 [step : {"none", "listen", "publish", "close", "unmanage",
                          "destroy"},
                  obj : Objects \cup {Nobody}, fd : Fds \cup {NoFd}]]
  /\ mpc \in {"select", "clients", "servers", "accept", "construct", "ACCEPT", "cleanup"}
  /\ rset \subseteq Fds /\ processing \subseteq Objects
  /\ acc \in [server : Servers \cup {Nobody}, fd : Fds \cup {NoFd}]
  /\ given \subseteq Clients /\ crowded \in BOOLEAN

FreeFds == {f \in Fds : fd[f] = "free"}

\* lwIP hands out the first free entry of its table.
NewFd == CHOOSE f \in FreeFds : \A g \in FreeFds : f <= g

\* The allocator takes some free address.
NewAddress == CHOOSE c \in Clients \ alive : TRUE

\* Faulty variant: the last descriptor is counted twice.
hasFreeSocketTooMany == Cardinality(clients) + Cardinality(servers) <= MAX_SOCKETS

hasFreeSocket == Cardinality(clients) + Cardinality(servers) < MAX_SOCKETS

MayCall(t) == call[t] = Idle /\ (t = Mgr => mpc \in CallbackPhases)

\* The threads that use a server.
Controls(t, s) == s \in IF t = Mgr THEN CallbackServers ELSE AppServers

\* Nothing in the library keeps two threads from calling the same object.
MayUse(o) == Alone => \A u \in Threads : call[u].obj # o

\* The manager task is in the library's code, not in a callback's call.
ManagerAt(step) == mpc = step /\ call[Mgr] = Idle

-----------------------------------------------------------------------------
Init ==
  /\ alive = {} /\ servers = {} /\ clients = {}
  /\ sock = [o \in Objects |-> NoFd] /\ handler = [s \in Servers |-> FALSE]
  /\ fd = [f \in Fds |-> "free"] /\ backlog = [f \in Fds |-> 0]
  /\ call = [t \in Threads |-> Idle]
  /\ mpc = "select" /\ rset = {} /\ processing = {} /\ acc = NoAccept
  /\ given = {} /\ crowded = FALSE

-----------------------------------------------------------------------------
(* The life of a server *)

\* A constructor registers the object; each list is changed under its mutex.
addConnection(o) ==
  /\ alive' = alive \cup {o} /\ crowded' = TRUE
  /\ servers' = servers \cup ({o} \cap Servers)
  /\ clients' = clients \cup ({o} \cap Clients)

\* Server(port): manage(this).
NewServer(t, s) ==
  /\ MayCall(t) /\ Controls(t, s) /\ s \notin alive
  /\ addConnection(s)
  /\ handler' = [handler EXCEPT ![s] = FALSE]
  /\ UNCHANGED <<sock, fd, backlog, call, manager, given>>

onClient(t, s) ==
  /\ MayCall(t) /\ Controls(t, s) /\ s \in alive
  /\ handler[s] => t \in Clearers
  /\ handler' = [handler EXCEPT ![s] = ~@]
  /\ UNCHANGED <<registry, sock, fd, backlog, call, manager, given, crowded>>

\* begin(): a closed server asks lwIP for a descriptor.
Begin(t, s) ==
  /\ MayCall(t) /\ Controls(t, s) /\ s \in alive /\ MayUse(s) /\ sock[s] = NoFd
  /\ FreeFds # {}
  /\ fd' = [fd EXCEPT ![NewFd] = "new"]
  /\ call' = [call EXCEPT ![t] = [step |-> "listen", obj |-> s, fd |-> NewFd]]
  /\ crowded' = TRUE
  /\ UNCHANGED <<registry, sock, handler, backlog, manager, given>>

\* bind() and listen() succeed.
BeginListens(t) ==
  /\ call[t].step = "listen"
  /\ fd' = [fd EXCEPT ![call[t].fd] = "listening"]
  /\ call' = [call EXCEPT ![t].step = "publish"]
  /\ UNCHANGED <<registry, sock, handler, backlog, manager, given, crowded>>

\* Faulty variant: the error path forgets ::close(socket).
BeginLeaks(t) ==
  /\ call[t].step = "listen"
  /\ call' = [call EXCEPT ![t] = Idle]
  /\ UNCHANGED <<registry, sock, handler, fd, backlog, manager, given, crowded>>

\* bind() or listen() fails.
BeginFails(t) ==
  /\ call[t].step = "listen"
  /\ fd' = [fd EXCEPT ![call[t].fd] = "free"]
  /\ call' = [call EXCEPT ![t] = Idle]
  /\ UNCHANGED <<registry, sock, handler, backlog, manager, given, crowded>>

\* _configureSocket(): from now on the manager task sees the socket.  fcntl()
\* succeeds for a descriptor lwIP has just handed out; module Lifecycle also
\* has what follows if it fails.
BeginPublish(t) ==
  /\ call[t].step = "publish"
  /\ sock' = [sock EXCEPT ![call[t].obj] = call[t].fd]
  /\ call' = [call EXCEPT ![t] = Idle]
  /\ UNCHANGED <<registry, handler, fd, backlog, manager, given, crowded>>

\* end() of an open server.
End(t, s) ==
  /\ MayCall(t) /\ Controls(t, s) /\ s \in alive /\ MayUse(s) /\ sock[s] # NoFd
  /\ call' = [call EXCEPT ![t] = [step |-> "close", obj |-> s, fd |-> NoFd]]
  /\ UNCHANGED <<registry, sock, handler, fd, backlog, manager, given, crowded>>

\* A destructor: unmanage(this), then end() or, for a client, close().  It
\* does not ask whether the loop holds a pointer to the object.
Delete(t, o) ==
  /\ MayCall(t) /\ o \in alive /\ MayUse(o)
  /\ t \in Deleters /\ (t = Mgr => mpc \in DeletePhases)
  /\ IF o \in Servers THEN Controls(t, o) ELSE o \in given
  /\ call' = [call EXCEPT ![t] = [step |-> "unmanage", obj |-> o, fd |-> NoFd]]
  /\ UNCHANGED <<registry, sock, handler, fd, backlog, manager, given, crowded>>

Unmanage(t) ==
  /\ call[t].step = "unmanage"
  /\ servers' = servers \ {call[t].obj} /\ clients' = clients \ {call[t].obj}
  /\ call' = [call EXCEPT ![t].step = "destroy"]
  /\ UNCHANGED <<alive, sock, handler, fd, backlog, manager, given, crowded>>

\* ::close(_socket.exchange(-1)), if there is a socket; a destructor frees
\* the object afterwards.
CloseFd(t) ==
  /\ call[t].step \in {"close", "destroy"}
  /\ LET o == call[t].obj
         f == sock[o]
     IN /\ sock' = [sock EXCEPT ![o] = NoFd]
        /\ fd' = [g \in Fds |-> IF g = f THEN "free" ELSE fd[g]]
        /\ backlog' = [g \in Fds |-> IF g = f THEN 0 ELSE backlog[g]]
        /\ alive' = IF call[t].step = "destroy" THEN alive \ {o} ELSE alive
        /\ given' = given \cap alive'
  /\ call' = [call EXCEPT ![t] = Idle]
  /\ UNCHANGED <<servers, clients, handler, manager, crowded>>

-----------------------------------------------------------------------------
(* Clients the user creates: they compete for the descriptors *)

\* An unconnected Client() takes a place in the registry.
NewClient(t) ==
  /\ MayCall(t) /\ t \in ClientUsers /\ Clients \ alive # {}
  /\ addConnection(NewAddress)
  /\ given' = given \cup {NewAddress}
  /\ UNCHANGED <<sock, handler, fd, backlog, call, manager>>

\* connect(): the descriptor comes with it.
Connect(t, c) ==
  /\ MayCall(t) /\ t \in ClientUsers
  /\ c \in given /\ MayUse(c) /\ sock[c] = NoFd /\ FreeFds # {}
  /\ fd' = [fd EXCEPT ![NewFd] = "connected"]
  /\ sock' = [sock EXCEPT ![c] = NewFd]
  /\ UNCHANGED <<registry, handler, backlog, call, manager, given, crowded>>

-----------------------------------------------------------------------------
(* The manager task *)

\* Listening sockets join the set only while the registry has room.
Watched ==
  {sock[c] : c \in clients} \cup (IF hasFreeSocket THEN {sock[s] : s \in servers} ELSE {})

\* Faulty variant: FD_SET() also for the sockets that are -1.
SelectUnchecked ==
  /\ ManagerAt("select") /\ mpc' = "clients"
  /\ rset' = {f \in Watched : f = NoFd \/ fd[f] = "hungup" \/ backlog[f] > 0}
  /\ processing' = {c \in clients : sock[c] \in rset'}
  /\ crowded' = FALSE
  /\ UNCHANGED <<registry, sock, handler, fd, backlog, call, acc, given>>

Select ==
  /\ ManagerAt("select") /\ mpc' = "clients"
  /\ rset' = {f \in Watched \ {NoFd} : fd[f] = "hungup" \/ backlog[f] > 0}
  /\ processing' = {c \in clients : sock[c] \in rset'}
  /\ crowded' = FALSE
  /\ UNCHANGED <<registry, sock, handler, fd, backlog, call, acc, given>>

\* A socket was closed during the call: nothing is written, read or accepted.
SelectFails ==
  /\ ManagerAt("select") /\ mpc' = "cleanup" /\ crowded' = FALSE
  /\ UNCHANGED <<registry, sock, handler, fd, backlog, call, rset, processing, acc,
                 given>>

\* A client whose peer left reads the end of file and closes its socket.
ClientReadable(c) ==
  /\ ManagerAt("clients") /\ c \in processing
  /\ processing' = processing \ {c}
  /\ fd' = [f \in Fds |-> IF f = sock[c] /\ fd[f] = "hungup" THEN "free" ELSE fd[f]]
  /\ sock' = [sock EXCEPT ![c] = IF @ # NoFd /\ fd[@] = "hungup" THEN NoFd ELSE @]
  /\ UNCHANGED <<registry, handler, backlog, call, mpc, rset, acc, given, crowded>>

\* Faulty variant: one server per round.
CollectFirstServer ==
  /\ ManagerAt("clients") /\ processing = {}
  /\ LET found == {s \in servers : sock[s] \in rset}
     IN processing' = IF found = {} THEN {} ELSE {CHOOSE s \in found : TRUE}
  /\ rset' = {} /\ mpc' = "servers"
  /\ UNCHANGED <<registry, sock, handler, fd, backlog, call, acc, given, crowded>>

\* The readable servers are put into serversProcessing.
CollectServers ==
  /\ ManagerAt("clients") /\ processing = {}
  /\ processing' = {s \in servers : sock[s] \in rset}
  /\ rset' = {} /\ mpc' = "servers"
  /\ UNCHANGED <<registry, sock, handler, fd, backlog, call, acc, given, crowded>>

\* _sockIsReadable() of the next server: nothing to do without a handler.
SockIsReadable(s) ==
  /\ ManagerAt("servers") /\ s \in processing
  /\ processing' = processing \ {s}
  /\ IF handler[s] THEN mpc' = "accept" /\ acc' = [acc EXCEPT !.server = s]
                   ELSE UNCHANGED <<mpc, acc>>
  /\ UNCHANGED <<registry, sock, handler, fd, backlog, call, rset, given, crowded>>

\* The connection at the head of the server's backlog.
Pending == sock[acc.server] # NoFd /\ backlog[sock[acc.server]] > 0

Accept ==
  /\ ManagerAt("accept") /\ Pending /\ FreeFds # {}
  /\ backlog' = [backlog EXCEPT ![sock[acc.server]] = @ - 1]
  /\ fd' = [fd EXCEPT ![NewFd] = "connected"]
  /\ acc' = [acc EXCEPT !.fd = NewFd] /\ mpc' = "construct"
  /\ UNCHANGED <<registry, sock, handler, call, rset, processing, given, crowded>>

\* Without a free descriptor lwIP drops the connection it was asked for.
AcceptDrops ==
  /\ ManagerAt("accept") /\ Pending /\ FreeFds = {}
  /\ backlog' = [backlog EXCEPT ![sock[acc.server]] = @ - 1]
  /\ acc' = NoAccept /\ mpc' = "servers"
  /\ UNCHANGED <<registry, sock, handler, fd, call, rset, processing, given, crowded>>

\* The server was ended, or begun anew, since select().
AcceptFails ==
  /\ ManagerAt("accept") /\ ~Pending
  /\ acc' = NoAccept /\ mpc' = "servers"
  /\ UNCHANGED <<registry, sock, handler, fd, backlog, call, rset, processing, given,
                 crowded>>

\* new Client(acceptedSocket): constructed with its socket, managed, and
\* given to the accept handler, if there still is one.
Construct ==
  /\ ManagerAt("construct") /\ Clients \ alive # {}
  /\ addConnection(NewAddress)
  /\ sock' = [sock EXCEPT ![NewAddress] = acc.fd]
  /\ IF handler[acc.server]
     THEN /\ mpc' = "ACCEPT" /\ acc' = [acc EXCEPT !.fd = NoFd]
          /\ given' = given \cup {NewAddress}
     ELSE mpc' = "servers" /\ acc' = NoAccept /\ UNCHANGED given
  /\ UNCHANGED <<handler, fd, backlog, call, rset, processing>>

\* No memory for the object.
ConstructFails ==
  /\ ManagerAt("construct")
  /\ fd' = [fd EXCEPT ![acc.fd] = "free"]
  /\ acc' = NoAccept /\ mpc' = "servers"
  /\ UNCHANGED <<registry, sock, handler, backlog, call, rset, processing, given, crowded>>

\* The accept handler returns.
Accepted ==
  /\ ManagerAt("ACCEPT")
  /\ acc' = NoAccept /\ mpc' = "servers"
  /\ UNCHANGED <<registry, sock, handler, fd, backlog, call, rset, processing, given,
                 crowded>>

ServersDone ==
  /\ ManagerAt("servers") /\ processing = {} /\ mpc' = "cleanup"
  /\ UNCHANGED <<registry, sock, handler, fd, backlog, call, rset, processing, acc,
                 given, crowded>>

\* DNS, poll and clean-up phase: callbacks of clients, no step of a server.
LoopEnd ==
  /\ ManagerAt("cleanup") /\ mpc' = "select"
  /\ UNCHANGED <<registry, sock, handler, fd, backlog, call, rset, processing, acc,
                 given, crowded>>

-----------------------------------------------------------------------------
(* The network *)

PeerConnects(f) ==
  /\ fd[f] = "listening" /\ backlog[f] < BACKLOG
  /\ backlog' = [backlog EXCEPT ![f] = @ + 1]
  /\ UNCHANGED <<registry, sock, handler, fd, call, manager, given, crowded>>

PeerLeaves(f) ==
  /\ fd[f] = "connected" /\ fd' = [fd EXCEPT ![f] = "hungup"]
  /\ UNCHANGED <<registry, sock, handler, backlog, call, manager, given, crowded>>

-----------------------------------------------------------------------------
ManagerLoop ==
  \/ CollectServers \/ ServersDone \/ LoopEnd
  \/ \E c \in Clients : ClientReadable(c)
  \/ \E s \in Servers : SockIsReadable(s)
  \/ Accept \/ AcceptDrops \/ AcceptFails \/ Construct \/ ConstructFails \/ Accepted

CallStep(t) ==
  BeginListens(t) \/ BeginFails(t) \/ BeginPublish(t) \/ Unmanage(t) \/ CloseFd(t)

UserCall(t) ==
  \/ \E s \in Servers : NewServer(t, s) \/ onClient(t, s) \/ Begin(t, s) \/ End(t, s)
  \/ NewClient(t) \/ \E c \in Clients : Connect(t, c)
  \/ \E o \in Objects : Delete(t, o)

Network == \E f \in Fds : PeerConnects(f) \/ PeerLeaves(f)

Next ==
  \/ Select \/ SelectFails \/ ManagerLoop \/ Network
  \/ \E t \in Threads : CallStep(t) \/ UserCall(t)

Spec == Init /\ [][Next]_vars

\* All threads are scheduled, callbacks return, and select() does not fail
\* for ever.
FairSpec ==
  /\ Spec /\ SF_vars(Select) /\ SF_vars(ManagerLoop)
  /\ \A t \in Threads : WF_vars(CallStep(t))

-----------------------------------------------------------------------------
(* Properties *)

Owners(f) ==
  Cardinality({o \in alive : sock[o] = f})
    + Cardinality({t \in Threads : call[t].fd = f}) + (IF acc.fd = f THEN 1 ELSE 0)

\* Every descriptor in use belongs to exactly one object, or to one begin() or
\* accept() in progress, and a free one to none: no error path of begin(),
\* end(), accept() or a destructor leaks a descriptor or closes it twice.
FdHasOneOwner == \A f \in Fds : Owners(f) = (IF fd[f] = "free" THEN 0 ELSE 1)

\* "Half-destroyed connections [...] should not end up in the sockList"
\* (SocketConnection.tpp:203): neither the registry nor clientsProcessing and
\* serversProcessing hold a pointer to an object that was freed.
NoDanglingPointer == servers \cup clients \cup processing \subseteq alive

\* Accepted connections "are supposed to be managed through the callbacks"
\* (README.md:11): a client object made for one reaches the user, who alone can
\* delete it, and is never left in the registry without an owner.
AcceptedHandedOver == clients \subseteq given

\* hasFreeSocket() protects accept(): a waiting connection is lost for want of
\* a descriptor only when, after select() had asked it, a client or a server was
\* created, be it by an accept of the same round, or a server took over the
\* number of a readable descriptor.
DroppedOnlyWhenCrowded ==
  [][mpc = "accept" /\ mpc' = "servers" /\ Pending => crowded]_vars

Waiting(s) ==
  /\ s \in servers /\ sock[s] # NoFd /\ handler[s] /\ backlog[sock[s]] > 0
  /\ Cardinality(clients) + Cardinality(servers) < MAX_SOCKETS

\* A connection that waits at a server with a handler while the registry has
\* room is accepted: the server is not starved by its neighbours.
PendingAccepted ==
  \A s \in Servers :
    <>[]Waiting(s) => []<><<acc'.server = s>>_acc

=============================================================================
