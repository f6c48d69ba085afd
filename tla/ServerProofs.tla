---------------------------- MODULE ServerProofs ----------------------------
(***************************************************************************)
(* Theorems about Server, for any number of servers, clients, application  *)
(* threads, descriptors and places in the backlog, if no two threads are   *)
(* inside calls on the same object: types, the ownership of descriptors,   *)
(* and that hasFreeSocket() protects accept().                             *)
(***************************************************************************)
EXTENDS Server, FiniteSetTheorems, TLAPS

\* User code deletes objects in callbacks only.
DeletedInCallbacks == Deleters \subseteq {Mgr}

-----------------------------------------------------------------------------
(* The inductive invariant *)

\* What is registered exists, and what exists is registered unless its
\* destructor has unregistered it.
RegistryInv ==
  /\ servers \cup clients \subseteq alive
  /\ given \subseteq alive
  /\ \A o \in alive \ (servers \cup clients) :
       \E t \in Threads : call[t].step = "destroy" /\ call[t].obj = o

\* What a begin(), end() or destructor in progress is about.  No two threads
\* are inside calls on the same object.
CallInv ==
  /\ \A t \in Threads :
       /\ call[t].step = "none" <=> call[t].obj = Nobody
       /\ call[t].step # "none" => call[t].obj \in alive
       /\ call[t].step \in {"listen", "publish"} <=> call[t].fd # NoFd
       /\ call[t].step \in {"listen", "publish"} => sock[call[t].obj] = NoFd
       /\ call[t].step \in {"listen", "publish", "close"} => call[t].obj \in Servers
       /\ call[t].step \in {"unmanage", "destroy"} => t \in Deleters
       /\ call[t].step = "destroy" => call[t].obj \notin servers \cup clients
  /\ \A t, u \in Threads : call[t].obj = call[u].obj => t = u \/ call[t].obj = Nobody

\* What lwIP uses a descriptor for, by where it is stored; an object that was
\* freed stores none.
Kinds ==
  /\ \A o \in Objects : sock[o] # NoFd =>
       /\ o \in alive
       /\ fd[sock[o]] \in IF o \in Servers THEN {"listening"} ELSE {"connected", "hungup"}
  /\ \A t \in Threads : call[t].fd # NoFd =>
       fd[call[t].fd] = IF call[t].step = "listen" THEN "new" ELSE "listening"
  /\ acc.fd # NoFd => fd[acc.fd] \in {"connected", "hungup"}

\* No descriptor is stored in two places ...
Unique ==
  /\ \A o, p \in Objects : sock[o] = sock[p] => o = p \/ sock[o] = NoFd
  /\ \A t, u \in Threads : call[t].fd = call[u].fd => t = u \/ call[t].fd = NoFd
  /\ \A o \in Objects, t \in Threads : sock[o] = call[t].fd => sock[o] = NoFd
  /\ \A o \in Objects : sock[o] = acc.fd => acc.fd = NoFd
  /\ \A t \in Threads : call[t].fd = acc.fd => acc.fd = NoFd

\* ... and none that is in use in no place.
NoLeak ==
  \A f \in Fds : fd[f] # "free" =>
    \/ \E o \in Objects : sock[o] = f
    \/ \E t \in Threads : call[t].fd = f
    \/ acc.fd = f

\* What the manager task's locals hold at each point of its loop.
LoopInv ==
  /\ acc.fd # NoFd <=> mpc = "construct"
  /\ acc.server # Nobody <=> mpc \in {"accept", "construct", "ACCEPT"}
  /\ mpc \in {"select", "cleanup"} => processing = {}
  /\ mpc = "clients" => processing \subseteq Clients
  /\ mpc \in {"servers", "accept", "construct", "ACCEPT"} =>
       processing \subseteq Servers
  /\ call[Mgr].step # "none" => mpc \in CallbackPhases

IInv == TypeOK /\ RegistryInv /\ CallInv /\ Kinds /\ Unique /\ NoLeak /\ LoopInv

\* Unless something was created since, a server that
\* select() found readable means that the registry has room; a descriptor
\* begin() has in hand is none of the readable ones.
RoomInv ==
  ~crowded =>
    /\ mpc = "clients" => \A t \in Threads : call[t].fd \notin rset
    /\ mpc = "clients" => \A s \in servers : sock[s] \in rset => hasFreeSocket
    /\ mpc = "servers" /\ processing # {} => hasFreeSocket
    /\ mpc \in {"accept", "construct", "ACCEPT"} => hasFreeSocket

-----------------------------------------------------------------------------
(* Helpers *)

\* -1 is no descriptor.
LEMMA NoFdIsNone == NoFd \notin Fds
BY DEF NoFd, Fds

\* What the assumptions say of objects and threads.
LEMMA ObjectFacts ==
  /\ Nobody \notin Objects /\ Servers \cap Clients = {} /\ Objects = Servers \cup Clients
  /\ Mgr \in Threads
BY ServerAssumption DEF Objects, Servers, Threads

\* A set of natural numbers has a least element.
LEMMA LeastNatural ==
  ASSUME NEW T, T \subseteq Nat, T # {}
  PROVE  \E x \in T : \A y \in T : x <= y
<1>1. \E x \in T : \A y \in T : ~ (<<y, x>> \in OpToRel(<, Nat))
  BY NatLessThanWellFounded, WFMin
<1>2. \A x, y \in Nat : x < y => <<x, y>> \in OpToRel(<, Nat)
  <2> SUFFICES ASSUME NEW x \in Nat, NEW y \in Nat, x < y
               PROVE  <<x, y>> \in {ss \in Nat \X Nat : ss[1] < ss[2]}
    BY Zenon DEF OpToRel
  <2> QED
    BY SMT
<1>3. PICK x \in T : \A y \in T : ~ (<<y, x>> \in OpToRel(<, Nat))
  BY <1>1
<1>4. \A y \in T : ~ (y < x)
  BY <1>2, <1>3, Zenon
<1> QED
  BY <1>4, SMT

\* lwIP hands out a descriptor that was free.
LEMMA NewFdFree ==
  ASSUME FreeFds # {}
  PROVE  NewFd \in Fds /\ fd[NewFd] = "free"
<1>1. FreeFds \subseteq Nat
  BY DEF FreeFds, Fds
<1>2. \E f \in FreeFds : \A g \in FreeFds : f <= g
  BY <1>1, LeastNatural
<1>3. NewFd \in FreeFds
  BY <1>2 DEF NewFd
<1> QED
  BY <1>3 DEF FreeFds

\* The allocator returns an address at which no object lives.
LEMMA NewAddressFree ==
  ASSUME Clients \ alive # {}
  PROVE  NewAddress \in Clients /\ NewAddress \notin alive
BY DEF NewAddress

\* Only open sockets are watched.
LEMMA WatchedType ==
  ASSUME TypeOK
  PROVE  Watched \ {NoFd} \subseteq Fds
<1>1. {sock[c] : c \in clients} \subseteq Fds \cup {NoFd}
  BY ObjectFacts DEF TypeOK
<1>2. {sock[s] : s \in servers} \subseteq Fds \cup {NoFd}
  BY ObjectFacts DEF TypeOK
<1> QED
  BY <1>1, <1>2 DEF Watched

-----------------------------------------------------------------------------
(* The invariant holds initially and is preserved by every action *)

\* Nothing exists, nothing is open, and the manager task is before select().
LEMMA InvInit == Init => IInv
<1> SUFFICES ASSUME Init PROVE IInv
  OBVIOUS
<1> USE ObjectFacts, NoFdIsNone DEF Init, Idle, NoAccept
<1>1. call \in [Threads -> [step : {"none", "listen", "publish", "close", "unmanage",
                                    "destroy"},
                            obj : Objects \cup {Nobody}, fd : Fds \cup {NoFd}]]
  OBVIOUS
<1>2. backlog \in [Fds -> 0..BACKLOG]
  BY ServerAssumption
<1>3. acc \in [server : Servers \cup {Nobody}, fd : Fds \cup {NoFd}]
  OBVIOUS
<1>4. \A f \in Fds : ~ (backlog[f] > 0)
  OBVIOUS
<1>5. TypeOK
  BY <1>1, <1>2, <1>3, <1>4 DEF TypeOK
<1> QED
  BY <1>5 DEF IInv, RegistryInv, CallInv, Kinds, Unique, NoLeak, LoopInv

\* A constructed server has no socket and no handler.
LEMMA NewServerStep ==
  ASSUME IInv, NEW t \in Threads, NEW s \in Servers, NewServer(t, s)
  PROVE  IInv'
<1> USE ObjectFacts, NoFdIsNone DEF IInv, NewServer, MayCall, addConnection, registry, manager
<1>1. TypeOK'
  BY DEF TypeOK
<1>2. RegistryInv'
  BY DEF RegistryInv
<1>3. CallInv'
  BY DEF CallInv
<1>4. LoopInv'
  BY DEF LoopInv, CallbackPhases
<1>5. Kinds' /\ Unique' /\ NoLeak'
  BY DEF Kinds, Unique, NoLeak
<1> QED
  BY <1>1, <1>2, <1>3, <1>4, <1>5

\* Setting or clearing a handler.
LEMMA onClientStep ==
  ASSUME IInv, NEW t \in Threads, NEW s \in Servers, onClient(t, s)
  PROVE  IInv'
<1> USE ObjectFacts, NoFdIsNone DEF IInv, onClient, MayCall, registry, manager
<1>1. TypeOK'
  BY DEF TypeOK
<1>2. RegistryInv' /\ CallInv' /\ Kinds' /\ Unique' /\ NoLeak' /\ LoopInv'
  BY DEF RegistryInv, CallInv, Kinds, Unique, NoLeak, LoopInv, CallbackPhases
<1> QED
  BY <1>1, <1>2

\* begin() keeps the new descriptor in a local variable.
LEMMA BeginStep ==
  ASSUME Alone, IInv, NEW t \in Threads, NEW s \in Servers, Begin(t, s)
  PROVE  IInv'
<1> USE ObjectFacts, NoFdIsNone DEF IInv, Begin, MayCall, MayUse, registry, manager
<1>1. TypeOK'
  BY NewFdFree DEF TypeOK
<1>2. CallInv'
  BY NewFdFree DEF TypeOK, CallInv
<1>3. Kinds'
  BY NewFdFree DEF TypeOK, Kinds, Unique
<1>4. Unique'
  BY NewFdFree DEF Unique, RegistryInv, Kinds
<1>5. NoLeak'
  BY NewFdFree DEF TypeOK, NoLeak, Idle
<1>6. RegistryInv' /\ LoopInv'
  BY DEF RegistryInv, LoopInv, CallbackPhases, Idle
<1> QED
  BY <1>1, <1>2, <1>3, <1>4, <1>5, <1>6

\* The descriptor becomes a listening one.
LEMMA BeginListensStep ==
  ASSUME IInv, NEW t \in Threads, BeginListens(t)
  PROVE  IInv'
<1> USE ObjectFacts, NoFdIsNone DEF IInv, BeginListens, registry, manager
<1>1. TypeOK'
  BY DEF TypeOK, CallInv
<1>2. CallInv'
  BY DEF CallInv
<1>3. Kinds'
  BY DEF TypeOK, Kinds, Unique
<1>4. NoLeak'
  BY DEF NoLeak
<1>5. RegistryInv' /\ Unique' /\ LoopInv'
  BY DEF RegistryInv, Unique, LoopInv, CallbackPhases
<1> QED
  BY <1>1, <1>2, <1>3, <1>4, <1>5

\* The error path closes the descriptor that begin() had in hand.
LEMMA BeginFailsStep ==
  ASSUME IInv, NEW t \in Threads, BeginFails(t)
  PROVE  IInv'
<1> USE ObjectFacts, NoFdIsNone DEF IInv, BeginFails, registry, manager
<1>1. TypeOK'
  BY DEF TypeOK, Kinds, CallInv, Idle
<1>2. CallInv'
  BY DEF CallInv, Idle
<1>3. Kinds'
  BY DEF TypeOK, Kinds, Unique, Idle
<1>4. Unique'
  BY DEF Unique, Idle
<1>5. NoLeak'
  BY DEF TypeOK, NoLeak
<1>6. RegistryInv' /\ LoopInv'
  BY DEF RegistryInv, LoopInv, CallbackPhases
<1> QED
  BY <1>1, <1>2, <1>3, <1>4, <1>5, <1>6

\* The descriptor moves from the local variable to _socket.
LEMMA BeginPublishStep ==
  ASSUME IInv, NEW t \in Threads, BeginPublish(t)
  PROVE  IInv'
<1> USE ObjectFacts, NoFdIsNone DEF IInv, BeginPublish, registry, manager
<1>1. TypeOK'
  BY DEF TypeOK, Idle
<1>2. CallInv'
  BY DEF TypeOK, CallInv, Idle
<1>3. Kinds'
  BY DEF Kinds, CallInv, Idle
<1>4. Unique'
  BY DEF TypeOK, Unique, Idle
<1>5. NoLeak'
  BY DEF TypeOK, NoLeak, CallInv
<1>6. RegistryInv' /\ LoopInv'
  BY DEF RegistryInv, LoopInv, CallbackPhases
<1> QED
  BY <1>1, <1>2, <1>3, <1>4, <1>5, <1>6

\* end() is about a server of the calling thread.
LEMMA EndStep ==
  ASSUME Alone, IInv, NEW t \in Threads, NEW s \in Servers, End(t, s)
  PROVE  IInv'
<1> USE ObjectFacts, NoFdIsNone DEF IInv, End, MayCall, MayUse, registry, manager
<1>1. TypeOK'
  BY DEF TypeOK
<1>2. CallInv'
  BY DEF TypeOK, CallInv
<1>3. RegistryInv' /\ Kinds' /\ Unique' /\ NoLeak' /\ LoopInv'
  BY DEF RegistryInv, Kinds, Unique, NoLeak, LoopInv, CallbackPhases, Idle
<1> QED
  BY <1>1, <1>2, <1>3

\* A destructor starts on an object nobody else is calling.
LEMMA DeleteStep ==
  ASSUME Alone, IInv, NEW t \in Threads, NEW o \in Objects, Delete(t, o)
  PROVE  IInv'
<1> USE ObjectFacts, NoFdIsNone DEF IInv, Delete, MayCall, MayUse, registry, manager
<1>1. TypeOK'
  BY DEF TypeOK
<1>2. CallInv'
  BY DEF CallInv
<1>3. RegistryInv' /\ Kinds' /\ Unique' /\ NoLeak' /\ LoopInv'
  BY DEF RegistryInv, Kinds, Unique, NoLeak, LoopInv, CallbackPhases, Idle
<1> QED
  BY <1>1, <1>2, <1>3

\* The object leaves the registry and is now known to its destructor only.
LEMMA UnmanageStep ==
  ASSUME IInv, NEW t \in Threads, Unmanage(t)
  PROVE  IInv'
<1> USE ObjectFacts, NoFdIsNone DEF IInv, Unmanage, registry, manager
<1>1. TypeOK'
  BY DEF TypeOK
<1>2. RegistryInv'
  BY DEF TypeOK, RegistryInv
<1>3. CallInv'
  BY DEF CallInv
<1>4. Kinds' /\ Unique' /\ NoLeak' /\ LoopInv'
  BY DEF Kinds, Unique, NoLeak, LoopInv, CallbackPhases
<1> QED
  BY <1>1, <1>2, <1>3, <1>4

\* The descriptor is closed with the last place that stored it.
LEMMA CloseFdStep ==
  ASSUME IInv, NEW t \in Threads, CloseFd(t)
  PROVE  IInv'
<1> USE ObjectFacts, NoFdIsNone DEF IInv, CloseFd, registry, manager
<1>1. TypeOK'
  BY ServerAssumption DEF TypeOK, CallInv, Idle
<1>2. RegistryInv'
  BY DEF RegistryInv, CallInv
<1>3. CallInv'
  BY DEF TypeOK, CallInv, Idle
<1>4. Kinds'
  BY DEF TypeOK, Kinds, CallInv, Unique, Idle
<1>5. Unique'
  BY DEF Unique, Idle
<1>6. NoLeak'
  BY DEF NoLeak, CallInv
<1>7. LoopInv'
  BY DEF TypeOK, LoopInv, CallbackPhases, CallInv
<1> QED
  BY <1>1, <1>2, <1>3, <1>4, <1>5, <1>6, <1>7

\* A new client has a fresh address and no socket.
LEMMA NewClientStep ==
  ASSUME IInv, NEW t \in Threads, NewClient(t)
  PROVE  IInv'
<1> USE ObjectFacts, NoFdIsNone DEF IInv, NewClient, MayCall, addConnection, registry, manager
<1>1. TypeOK'
  BY NewAddressFree DEF TypeOK
<1>2. RegistryInv'
  BY NewAddressFree DEF RegistryInv
<1>3. CallInv'
  BY NewAddressFree DEF CallInv
<1>4. LoopInv'
  BY NewAddressFree DEF LoopInv, CallbackPhases
<1>5. Kinds' /\ Unique' /\ NoLeak'
  BY DEF Kinds, Unique, NoLeak
<1> QED
  BY <1>1, <1>2, <1>3, <1>4, <1>5

\* The new descriptor goes to a client that had none.
LEMMA ConnectStep ==
  ASSUME Alone, IInv, NEW t \in Threads, NEW c \in Clients, Connect(t, c)
  PROVE  IInv'
<1> USE ObjectFacts, NoFdIsNone DEF IInv, Connect, MayCall, MayUse, registry, manager
<1>1. TypeOK'
  BY NewFdFree DEF TypeOK
<1>2. CallInv'
  BY NewFdFree DEF CallInv
<1>3. Kinds'
  BY NewFdFree DEF TypeOK, Kinds, RegistryInv
<1>4. Unique'
  BY NewFdFree DEF Unique, Kinds
<1>5. NoLeak'
  BY NewFdFree DEF TypeOK, NoLeak
<1>6. RegistryInv' /\ LoopInv'
  BY DEF RegistryInv, LoopInv, CallbackPhases
<1> QED
  BY <1>1, <1>2, <1>3, <1>4, <1>5, <1>6

\* The readable descriptors are some of the watched ones.
LEMMA SelectStep ==
  ASSUME IInv, Select
  PROVE  IInv'
<1> USE ObjectFacts, NoFdIsNone DEF IInv, Select, ManagerAt, registry, manager
<1>1. TypeOK'
  BY WatchedType DEF TypeOK
<1>2. LoopInv'
  BY DEF TypeOK, LoopInv, CallbackPhases
<1>3. RegistryInv' /\ CallInv' /\ Kinds' /\ Unique' /\ NoLeak'
  BY DEF RegistryInv, CallInv, Kinds, Unique, NoLeak
<1> QED
  BY <1>1, <1>2, <1>3

\* A failed select() leaves nothing to process.
LEMMA SelectFailsStep ==
  ASSUME IInv, SelectFails
  PROVE  IInv'
<1> USE ObjectFacts, NoFdIsNone DEF IInv, SelectFails, ManagerAt, registry, manager
<1>1. TypeOK'
  BY DEF TypeOK
<1>2. CallInv'
  BY DEF CallInv
<1>3. LoopInv'
  BY DEF LoopInv, CallbackPhases
<1>4. RegistryInv' /\ Kinds' /\ Unique' /\ NoLeak'
  BY DEF RegistryInv, Kinds, Unique, NoLeak
<1> QED
  BY <1>1, <1>2, <1>3, <1>4

\* A client whose peer left closes its descriptor.
LEMMA ClientReadableStep ==
  ASSUME IInv, NEW c \in Clients, ClientReadable(c)
  PROVE  IInv'
<1> USE ObjectFacts, NoFdIsNone DEF IInv, ClientReadable, ManagerAt, registry, manager
<1>1. TypeOK'
  BY DEF TypeOK
<1>2. CallInv'
  BY DEF CallInv
<1>3. Kinds'
  BY DEF TypeOK, Kinds, Unique
<1>4. Unique'
  BY DEF Unique
<1>5. NoLeak'
  BY DEF NoLeak
<1>6. RegistryInv' /\ LoopInv'
  BY DEF RegistryInv, LoopInv, CallbackPhases
<1> QED
  BY <1>1, <1>2, <1>3, <1>4, <1>5, <1>6

\* The collected servers are registered, hence exist.
LEMMA CollectServersStep ==
  ASSUME IInv, CollectServers
  PROVE  IInv'
<1> USE ObjectFacts, NoFdIsNone DEF IInv, CollectServers, ManagerAt, registry, manager
<1>1. CallInv'
  BY DEF CallInv, Idle
<1>2. LoopInv'
  BY DEF TypeOK, LoopInv, CallbackPhases, RegistryInv, Idle
<1>3. TypeOK' /\ RegistryInv' /\ Kinds' /\ Unique' /\ NoLeak'
  BY DEF TypeOK, RegistryInv, Kinds, Unique, NoLeak
<1> QED
  BY <1>1, <1>2, <1>3

\* The server whose handler runs was in serversProcessing, hence exists.
LEMMA SockIsReadableStep ==
  ASSUME IInv, NEW s \in Servers, SockIsReadable(s)
  PROVE  IInv'
<1> USE ObjectFacts, NoFdIsNone DEF IInv, SockIsReadable, ManagerAt, registry, manager
<1>1. TypeOK'
  BY DEF TypeOK
<1>2. LoopInv'
  BY DEF TypeOK, LoopInv, CallbackPhases
<1>3. RegistryInv' /\ CallInv' /\ Kinds' /\ Unique' /\ NoLeak'
  BY DEF RegistryInv, CallInv, Kinds, Unique, NoLeak, TypeOK
<1> QED
  BY <1>1, <1>2, <1>3

\* accept() keeps the new descriptor in a local variable.
LEMMA AcceptStep ==
  ASSUME IInv, Accept
  PROVE  IInv'
<1> USE ObjectFacts, NoFdIsNone DEF IInv, Accept, ManagerAt, Pending, registry, manager
<1>1. TypeOK'
  BY NewFdFree, ServerAssumption DEF TypeOK, LoopInv
<1>2. Kinds'
  BY NewFdFree DEF TypeOK, Kinds
<1>3. Unique'
  BY NewFdFree DEF Unique, Kinds
<1>4. NoLeak'
  BY NewFdFree DEF NoLeak, LoopInv
<1>5. LoopInv'
  BY NewFdFree DEF LoopInv, CallbackPhases
<1>6. RegistryInv' /\ CallInv'
  BY DEF RegistryInv, CallInv
<1> QED
  BY <1>1, <1>2, <1>3, <1>4, <1>5, <1>6

\* lwIP drops a connection from the backlog.
LEMMA AcceptDropsStep ==
  ASSUME IInv, AcceptDrops
  PROVE  IInv'
<1> USE ObjectFacts, NoFdIsNone DEF IInv, AcceptDrops, ManagerAt, Pending, registry, manager
<1>1. TypeOK'
  BY ServerAssumption DEF TypeOK, LoopInv, NoAccept
<1>2. CallInv'
  BY DEF CallInv
<1>3. Kinds'
  BY DEF Kinds, NoAccept
<1>4. Unique'
  BY DEF Unique, NoAccept
<1>5. NoLeak'
  BY DEF NoLeak, LoopInv
<1>6. LoopInv'
  BY DEF LoopInv, CallbackPhases, NoAccept
<1>7. RegistryInv'
  BY DEF RegistryInv
<1> QED
  BY <1>1, <1>2, <1>3, <1>4, <1>5, <1>6, <1>7

\* accept() found nothing.
LEMMA AcceptFailsStep ==
  ASSUME IInv, AcceptFails
  PROVE  IInv'
<1> USE ObjectFacts, NoFdIsNone DEF IInv, AcceptFails, ManagerAt, registry, manager
<1>1. TypeOK'
  BY DEF TypeOK, NoAccept
<1>2. CallInv'
  BY DEF CallInv
<1>3. Kinds'
  BY DEF Kinds, NoAccept
<1>4. Unique'
  BY DEF Unique, NoAccept
<1>5. NoLeak'
  BY DEF NoLeak, LoopInv
<1>6. LoopInv'
  BY DEF LoopInv, CallbackPhases, NoAccept
<1>7. RegistryInv'
  BY DEF RegistryInv
<1> QED
  BY <1>1, <1>2, <1>3, <1>4, <1>5, <1>6, <1>7

\* The accepted descriptor moves from the local variable to the new client.
LEMMA ConstructStep ==
  ASSUME IInv, Construct
  PROVE  IInv'
<1> USE ObjectFacts, NoFdIsNone DEF IInv, Construct, ManagerAt, addConnection, registry, manager
<1>1. TypeOK'
  BY NewAddressFree DEF TypeOK, NoAccept
<1>2. RegistryInv'
  BY NewAddressFree DEF RegistryInv
<1>3. CallInv'
  BY NewAddressFree DEF CallInv
<1>4. Kinds'
  BY NewAddressFree DEF TypeOK, Kinds, NoAccept
<1>5. Unique'
  BY NewAddressFree DEF TypeOK, Unique, NoAccept
<1>6. NoLeak'
  BY NewAddressFree DEF TypeOK, NoLeak, Kinds
<1>7. LoopInv'
  BY NewAddressFree DEF TypeOK, LoopInv, CallbackPhases, NoAccept
<1> QED
  BY <1>1, <1>2, <1>3, <1>4, <1>5, <1>6, <1>7

\* The accepted descriptor is closed again.
LEMMA ConstructFailsStep ==
  ASSUME IInv, ConstructFails
  PROVE  IInv'
<1> USE ObjectFacts, NoFdIsNone DEF IInv, ConstructFails, ManagerAt, registry, manager
<1>1. TypeOK'
  BY DEF TypeOK, Kinds, LoopInv, NoAccept
<1>2. Kinds'
  BY DEF Kinds, Unique, NoAccept
<1>3. Unique'
  BY DEF Unique, NoAccept
<1>4. NoLeak'
  BY DEF TypeOK, NoLeak
<1>5. LoopInv'
  BY DEF LoopInv, CallbackPhases, NoAccept
<1>6. RegistryInv' /\ CallInv'
  BY DEF RegistryInv, CallInv
<1> QED
  BY <1>1, <1>2, <1>3, <1>4, <1>5, <1>6

\* The accept handler returns.
LEMMA AcceptedStep ==
  ASSUME IInv, Accepted
  PROVE  IInv'
<1> USE ObjectFacts, NoFdIsNone DEF IInv, Accepted, ManagerAt, registry, manager
<1>1. TypeOK'
  BY DEF TypeOK, NoAccept
<1>2. CallInv'
  BY DEF CallInv
<1>3. Kinds'
  BY DEF Kinds, NoAccept
<1>4. Unique'
  BY DEF Unique, NoAccept
<1>5. NoLeak'
  BY DEF NoLeak, LoopInv
<1>6. LoopInv'
  BY DEF LoopInv, CallbackPhases, NoAccept, Idle
<1>7. RegistryInv'
  BY DEF RegistryInv
<1> QED
  BY <1>1, <1>2, <1>3, <1>4, <1>5, <1>6, <1>7

\* All readable servers were served.
LEMMA ServersDoneStep ==
  ASSUME IInv, ServersDone
  PROVE  IInv'
<1> USE ObjectFacts, NoFdIsNone DEF IInv, ServersDone, ManagerAt, registry, manager
<1>1. CallInv'
  BY DEF CallInv
<1>2. LoopInv'
  BY DEF LoopInv, CallbackPhases
<1>3. TypeOK' /\ RegistryInv' /\ Kinds' /\ Unique' /\ NoLeak'
  BY DEF TypeOK, RegistryInv, Kinds, Unique, NoLeak
<1> QED
  BY <1>1, <1>2, <1>3

\* The loop starts again.
LEMMA LoopEndStep ==
  ASSUME IInv, LoopEnd
  PROVE  IInv'
<1> USE ObjectFacts, NoFdIsNone DEF IInv, LoopEnd, ManagerAt, registry, manager
<1>1. CallInv'
  BY DEF CallInv, Idle
<1>2. LoopInv'
  BY DEF LoopInv, CallbackPhases, Idle
<1>3. TypeOK' /\ RegistryInv' /\ Kinds' /\ Unique' /\ NoLeak'
  BY DEF TypeOK, RegistryInv, Kinds, Unique, NoLeak
<1> QED
  BY <1>1, <1>2, <1>3

\* A peer joins the backlog of a listening descriptor.
LEMMA PeerConnectsStep ==
  ASSUME IInv, NEW f \in Fds, PeerConnects(f)
  PROVE  IInv'
<1> USE ObjectFacts, NoFdIsNone DEF IInv, PeerConnects, registry, manager
<1>1. TypeOK'
  BY ServerAssumption DEF TypeOK
<1>2. RegistryInv' /\ CallInv' /\ Kinds' /\ Unique' /\ NoLeak' /\ LoopInv'
  BY DEF RegistryInv, CallInv, Kinds, Unique, NoLeak, LoopInv, CallbackPhases
<1> QED
  BY <1>1, <1>2

\* A peer leaves a connected descriptor.
LEMMA PeerLeavesStep ==
  ASSUME IInv, NEW f \in Fds, PeerLeaves(f)
  PROVE  IInv'
<1> USE ObjectFacts, NoFdIsNone DEF IInv, PeerLeaves, registry, manager
<1>1. TypeOK'
  BY DEF TypeOK
<1>2. Kinds'
  BY DEF Kinds
<1>3. NoLeak'
  BY DEF NoLeak
<1>4. RegistryInv' /\ CallInv' /\ Unique' /\ LoopInv'
  BY DEF RegistryInv, CallInv, Unique, LoopInv, CallbackPhases
<1> QED
  BY <1>1, <1>2, <1>3, <1>4

\* The invariant is preserved by every step.
LEMMA InvStep == Alone /\ IInv /\ [Next]_vars => IInv'
<1> SUFFICES ASSUME Alone, IInv, [Next]_vars PROVE IInv'
  OBVIOUS
<1>1. CASE Select \/ SelectFails
  BY <1>1, SelectStep, SelectFailsStep
<1>2. CASE ManagerLoop
  BY <1>2, CollectServersStep, ServersDoneStep, LoopEndStep, ClientReadableStep,
     SockIsReadableStep, AcceptStep, AcceptDropsStep, AcceptFailsStep, ConstructStep,
     ConstructFailsStep, AcceptedStep DEF ManagerLoop
<1>3. CASE Network
  BY <1>3, PeerConnectsStep, PeerLeavesStep DEF Network
<1>4. ASSUME NEW t \in Threads, CallStep(t) PROVE IInv'
  BY <1>4, BeginListensStep, BeginFailsStep, BeginPublishStep, UnmanageStep, CloseFdStep
     DEF CallStep
<1>5. ASSUME NEW t \in Threads, UserCall(t) PROVE IInv'
  BY <1>5, NewServerStep, onClientStep, BeginStep, EndStep, NewClientStep, ConnectStep,
     DeleteStep DEF UserCall
<1>6. CASE UNCHANGED vars
  <2>1. TypeOK' /\ RegistryInv' /\ LoopInv'
    BY <1>6 DEF IInv, TypeOK, RegistryInv, LoopInv, CallbackPhases, vars, registry, manager
  <2>2. CallInv' /\ Kinds' /\ Unique' /\ NoLeak'
    BY <1>6 DEF IInv, CallInv, Kinds, Unique, NoLeak, vars, registry, manager
  <2> QED
    BY <2>1, <2>2 DEF IInv
<1> QED
  BY <1>1, <1>2, <1>3, <1>4, <1>5, <1>6 DEF Next

\* The invariant holds in every reachable state.
LEMMA InvCorrect == Alone /\ Spec => []IInv
<1> SUFFICES ASSUME Alone PROVE Spec => []IInv
  OBVIOUS
<1>1. IInv /\ [Next]_vars => IInv'
  BY InvStep
<1> QED
  BY <1>1, InvInit, PTL DEF Spec

-----------------------------------------------------------------------------
(* Types and the ownership of descriptors *)

\* The registry, the descriptors, the backlog and the locals of the manager
\* task and of the calls in progress have their types; only a listening
\* descriptor has a backlog.
THEOREM ServerTypeCorrect == Alone /\ Spec => []TypeOK
<1>1. IInv => TypeOK
  BY DEF IInv
<1> QED
  BY <1>1, InvCorrect, PTL

\* A descriptor that is stored in at most one place, and in one if it is in
\* use, has the number of owners FdHasOneOwner demands.
LEMMA OneOwner ==
  ASSUME IInv, NEW f \in Fds
  PROVE  Owners(f) = IF fd[f] = "free" THEN 0 ELSE 1
<1> DEFINE O == {o \in alive : sock[o] = f}
           C == {t \in Threads : call[t].fd = f}
<1> USE NoFdIsNone
<1>1. alive \subseteq Objects
  BY DEF IInv, TypeOK
<1>2. ASSUME NEW o \in O PROVE O = {o} /\ C = {} /\ acc.fd # f
  BY <1>1, <1>2 DEF IInv, Unique
<1>3. ASSUME NEW t \in C PROVE C = {t} /\ O = {} /\ acc.fd # f
  BY <1>1, <1>3 DEF IInv, Unique
<1>4. ASSUME acc.fd = f PROVE O = {} /\ C = {}
  BY <1>1, <1>4 DEF IInv, Unique
<1>5. ASSUME fd[f] = "free" PROVE O = {} /\ C = {} /\ acc.fd # f
  BY <1>1, <1>5 DEF IInv, Kinds
<1>6. ASSUME fd[f] # "free" PROVE O # {} \/ C # {} \/ acc.fd = f
  BY <1>1, <1>6 DEF IInv, NoLeak, Kinds
<1>7. Cardinality({}) = 0 /\ \A x : Cardinality({x}) = 1
  BY FS_EmptySet, FS_Singleton
<1>8. Owners(f) = Cardinality(O) + Cardinality(C) + (IF acc.fd = f THEN 1 ELSE 0)
  BY DEF Owners
<1>9. CASE fd[f] = "free"
  <2>1. O = {} /\ C = {} /\ acc.fd # f
    BY <1>5, <1>9
  <2>2. Cardinality(O) = 0 /\ Cardinality(C) = 0
    BY <1>7, <2>1, Zenon
  <2> QED
    BY <1>8, <1>9, <2>1, <2>2
<1>10. CASE fd[f] # "free"
  <2>1. CASE O # {}
    <3>1. PICK o \in O : TRUE
      BY <2>1
    <3>2. O = {o} /\ C = {} /\ acc.fd # f
      BY <1>2, <3>1
    <3>3. Cardinality(O) = 1 /\ Cardinality(C) = 0
      BY <1>7, <3>2, Zenon
    <3> QED
      BY <1>8, <1>10, <3>2, <3>3
  <2>2. CASE C # {}
    <3>1. PICK t \in C : TRUE
      BY <2>2
    <3>2. C = {t} /\ O = {} /\ acc.fd # f
      BY <1>3, <3>1
    <3>3. Cardinality(C) = 1 /\ Cardinality(O) = 0
      BY <1>7, <3>2, Zenon
    <3> QED
      BY <1>8, <1>10, <3>2, <3>3
  <2>3. CASE acc.fd = f
    <3>1. Cardinality(O) = 0 /\ Cardinality(C) = 0
      BY <1>4, <1>7, <2>3, Zenon
    <3> QED
      BY <1>8, <1>10, <2>3, <3>1
  <2> QED
    BY <1>6, <1>10, <2>1, <2>2, <2>3
<1> QED
  BY <1>9, <1>10

\* As long as no two threads are inside calls on the same object, no path of
\* begin(), end(), accept(), connect() or a destructor leaks a descriptor, closes
\* one twice or leaves one shared, however many threads use the servers.
THEOREM FdOwnerCorrect == Alone /\ Spec => []FdHasOneOwner
<1>1. IInv => FdHasOneOwner
  BY OneOwner DEF FdHasOneOwner
<1> QED
  BY <1>1, InvCorrect, PTL

-----------------------------------------------------------------------------
(* hasFreeSocket() protects accept() *)

\* The registry is finite.
LEMMA RegistryFinite ==
  ASSUME TypeOK
  PROVE  /\ IsFiniteSet(servers) /\ Cardinality(servers) \in Nat
         /\ IsFiniteSet(clients) /\ Cardinality(clients) \in Nat
<1>1. IsFiniteSet(servers) /\ IsFiniteSet(clients)
  BY ServerAssumption, FS_Subset DEF TypeOK
<1> QED
  BY <1>1, FS_CardinalityType

\* Whatever leaves the registry makes room.
LEMMA RoomGrows ==
  ASSUME TypeOK, hasFreeSocket, servers' \subseteq servers, clients' \subseteq clients
  PROVE  hasFreeSocket'
<1>1. /\ IsFiniteSet(servers') /\ Cardinality(servers') <= Cardinality(servers)
      /\ IsFiniteSet(clients') /\ Cardinality(clients') <= Cardinality(clients)
  BY RegistryFinite, FS_Subset
<1>2. Cardinality(servers') \in Nat /\ Cardinality(clients') \in Nat
  BY <1>1, FS_CardinalityType
<1> QED
  BY <1>1, <1>2, RegistryFinite, ServerAssumption DEF hasFreeSocket

\* Every descriptor in use while accept() runs belongs to a registered object,
\* and each object has at most one: so a registry with room means that a
\* descriptor is free.
LEMMA RoomMeansFree ==
  ASSUME DeletedInCallbacks, IInv, ManagerAt("accept"), hasFreeSocket
  PROVE  FreeFds # {}
<1> DEFINE R == servers \cup clients
           Has(o, f) == sock[o] = f \/ \E t \in Threads : call[t].obj = o /\ call[t].fd = f
<1> SUFFICES ASSUME FreeFds = {} PROVE FALSE
  OBVIOUS
<1> USE ObjectFacts, NoFdIsNone
<1>1. alive \subseteq R
  <2>1. \A t \in Threads : call[t].step # "destroy"
    BY DEF IInv, CallInv, DeletedInCallbacks, ManagerAt, Idle
  <2> QED
    BY <2>1 DEF IInv, RegistryInv
<1>2. \A f \in Fds : \E o \in R : Has(o, f)
  <2> SUFFICES ASSUME NEW f \in Fds PROVE \E o \in R : Has(o, f)
    OBVIOUS
  <2>1. fd[f] # "free" /\ acc.fd # f
    BY DEF FreeFds, IInv, LoopInv, ManagerAt
  <2>2. CASE \E o \in Objects : sock[o] = f
    BY <1>1, <2>2 DEF IInv, Kinds
  <2>3. CASE \E t \in Threads : call[t].fd = f
    BY <1>1, <2>3 DEF IInv, CallInv
  <2> QED
    BY <2>1, <2>2, <2>3 DEF IInv, NoLeak
<1>3. ASSUME NEW o \in R, NEW f \in Fds, NEW g \in Fds, Has(o, f), Has(o, g)
      PROVE  f = g
  <2>1. o \in Objects /\ o # Nobody
    BY DEF IInv, TypeOK
  <2> QED
    BY <1>3, <2>1 DEF IInv, CallInv
<1> DEFINE owner == [f \in Fds |-> CHOOSE o \in R : Has(o, f)]
<1>4. \A f \in Fds : owner[f] \in R /\ Has(owner[f], f)
  BY <1>2
<1>5. owner \in Injection(Fds, R)
  <2>1. owner \in [Fds -> R]
    BY <1>4
  <2> HIDE DEF owner, Has
  <2>2. \A f, g \in Fds : owner[f] = owner[g] => f = g
    BY <1>3, <1>4
  <2> QED
    BY <2>1, <2>2 DEF Injection, IsInjective
<1>6. IsFiniteSet(R) /\ Cardinality(R) <= Cardinality(servers) + Cardinality(clients)
  <2>1. IsFiniteSet(servers \cap clients) /\ Cardinality(servers \cap clients) \in Nat
    BY RegistryFinite, FS_Intersection, FS_CardinalityType DEF IInv
  <2>2. /\ IsFiniteSet(R)
        /\ Cardinality(R) = Cardinality(servers) + Cardinality(clients)
                              - Cardinality(servers \cap clients)
    BY RegistryFinite, FS_Union DEF IInv
  <2> QED
    BY <2>1, <2>2, RegistryFinite DEF IInv
<1>7. Cardinality(Fds) <= Cardinality(R)
  BY <1>5, <1>6, FS_Injection
<1>8. Cardinality(Fds) = MAX_SOCKETS
  BY ServerAssumption, FS_Interval DEF Fds
<1>9. Cardinality(R) \in Nat
  BY <1>6, FS_CardinalityType
<1> QED
  BY <1>6, <1>7, <1>8, <1>9, RegistryFinite, ServerAssumption DEF hasFreeSocket, IInv

\* Between select() and accept() the room in the registry is only taken by
\* what sets crowded, and no server becomes readable in another's place.
LEMMA RoomStep ==
  ASSUME IInv, RoomInv, [Next]_vars
  PROVE  RoomInv'
<1> USE ObjectFacts, NoFdIsNone DEF IInv, registry, manager
<1>1. CASE Select
  <2>1. \A t \in Threads : call[t].fd \notin rset'
    BY <1>1 DEF Select, Watched, TypeOK, Unique
  <2>2. ASSUME NEW s \in servers, sock[s] \in rset' PROVE hasFreeSocket
    BY <1>1, <2>2 DEF Select, Watched, TypeOK, Unique
  <2>3. hasFreeSocket' = hasFreeSocket
    BY <1>1 DEF Select, hasFreeSocket
  <2> QED
    BY <1>1, <2>1, <2>2, <2>3 DEF Select, RoomInv
<1>2. CASE SelectFails \/ LoopEnd \/ ServersDone
  BY <1>2 DEF SelectFails, LoopEnd, ServersDone, RoomInv
<1>3. CASE CollectServers
  BY <1>3 DEF CollectServers, ManagerAt, hasFreeSocket, RoomInv
<1>4. ASSUME NEW c \in Clients, ClientReadable(c) PROVE RoomInv'
  BY <1>4 DEF ClientReadable, ManagerAt, hasFreeSocket, TypeOK, RoomInv
<1>5. ASSUME NEW s \in Servers, SockIsReadable(s) PROVE RoomInv'
  BY <1>5 DEF SockIsReadable, ManagerAt, hasFreeSocket, RoomInv
<1>6. CASE Accept \/ AcceptDrops \/ AcceptFails \/ ConstructFails \/ Accepted
  BY <1>6 DEF Accept, AcceptDrops, AcceptFails, ConstructFails, Accepted, ManagerAt,
     hasFreeSocket, RoomInv
<1>7. CASE Construct
  BY <1>7 DEF Construct, addConnection, RoomInv
<1>8. CASE Network
  BY <1>8 DEF Network, PeerConnects, PeerLeaves, hasFreeSocket, RoomInv
<1>9. ASSUME NEW t \in Threads, BeginListens(t) \/ BeginFails(t) PROVE RoomInv'
  BY <1>9 DEF BeginListens, BeginFails, Idle, hasFreeSocket, TypeOK, RoomInv
<1>10. ASSUME NEW t \in Threads, BeginPublish(t) PROVE RoomInv'
  BY <1>10 DEF BeginPublish, Idle, hasFreeSocket, TypeOK, RoomInv
<1>11. ASSUME NEW t \in Threads, Unmanage(t) PROVE RoomInv'
  <2>1. hasFreeSocket => hasFreeSocket'
    BY <1>11, RoomGrows DEF Unmanage
  <2> QED
    BY <1>11, <2>1 DEF Unmanage, TypeOK, RoomInv
<1>12. ASSUME NEW t \in Threads, CloseFd(t) PROVE RoomInv'
  BY <1>12 DEF CloseFd, Idle, hasFreeSocket, TypeOK, RoomInv
<1>13. ASSUME NEW t \in Threads, NEW s \in Servers, NewServer(t, s) \/ Begin(t, s)
       PROVE  RoomInv'
  BY <1>13 DEF NewServer, addConnection, Begin, RoomInv
<1>14. ASSUME NEW t \in Threads, NEW s \in Servers, onClient(t, s) \/ End(t, s)
       PROVE  RoomInv'
  BY <1>14 DEF onClient, End, hasFreeSocket, TypeOK, RoomInv
<1>15. ASSUME NEW t \in Threads, NewClient(t) PROVE RoomInv'
  BY <1>15 DEF NewClient, addConnection, RoomInv
<1>16. ASSUME NEW t \in Threads, NEW c \in Clients, Connect(t, c) PROVE RoomInv'
  BY <1>16 DEF Connect, hasFreeSocket, TypeOK, RoomInv
<1>17. ASSUME NEW t \in Threads, NEW o \in Objects, Delete(t, o) PROVE RoomInv'
  BY <1>17 DEF Delete, hasFreeSocket, TypeOK, RoomInv
<1>18. CASE UNCHANGED vars
  BY <1>18 DEF vars, hasFreeSocket, RoomInv
<1> QED
  BY <1>1, <1>2, <1>3, <1>4, <1>5, <1>6, <1>7, <1>8, <1>9, <1>10, <1>11, <1>12, <1>13,
     <1>14, <1>15, <1>16, <1>17, <1>18 DEF Next, ManagerLoop, CallStep, UserCall

\* accept() gives up in two ways only.
LEMMA GivesUp ==
  ASSUME Next, mpc = "accept", mpc' = "servers"
  PROVE  AcceptDrops \/ AcceptFails
BY Zenon DEF Next, ManagerLoop, Network, CallStep, UserCall, Select, SelectFails,
   CollectServers, ServersDone, LoopEnd, ClientReadable, SockIsReadable, Accept, Construct,
   ConstructFails, Accepted, PeerConnects, PeerLeaves, BeginListens, BeginFails,
   BeginPublish, Unmanage, CloseFd, NewServer, onClient, Begin, End, NewClient, Connect,
   Delete, ManagerAt, manager

\* If objects are deleted in callbacks only, a connection that waits is dropped
\* for want of a descriptor only when a client or a server was created, or a
\* server begun, since hasFreeSocket() was asked.
THEOREM DropsCorrect == DeletedInCallbacks /\ Alone /\ Spec => DroppedOnlyWhenCrowded
<1> SUFFICES ASSUME DeletedInCallbacks, Alone PROVE Spec => DroppedOnlyWhenCrowded
  OBVIOUS
<1>1. Init => RoomInv
  BY DEF Init, RoomInv
<1>2. IInv /\ RoomInv /\ [Next]_vars => RoomInv'
  BY RoomStep
<1>3. IInv /\ RoomInv /\ [Next]_vars
        => [mpc = "accept" /\ mpc' = "servers" /\ Pending => crowded]_vars
  <2> SUFFICES ASSUME IInv, RoomInv, Next, mpc = "accept", mpc' = "servers", Pending, ~crowded
               PROVE  FALSE
    OBVIOUS
  <2>1. AcceptDrops
    BY GivesUp DEF AcceptFails
  <2>2. ManagerAt("accept") /\ FreeFds = {} /\ hasFreeSocket
    BY <2>1 DEF AcceptDrops, RoomInv
  <2> QED
    BY <2>2, RoomMeansFree
<1> QED
  BY <1>1, <1>2, <1>3, InvCorrect, PTL DEF Spec, DroppedOnlyWhenCrowded
=============================================================================
