-------------------------- MODULE LifecycleProofs --------------------------
(***************************************************************************)
(* Theorems about Lifecycle, for any number of clients, descriptors and    *)
(* application threads, if user code follows the rules of PoliteUse.       *)
(***************************************************************************)
EXTENDS Lifecycle, FiniteSetTheorems, TLAPS

\* The rules of use: connect() and delete are called on a client that is
\* DISCONNECTED and that no call is in progress on; application threads call
\* connect(ip, port) only, everything else is called in callbacks, and a client
\* is deleted in its own DISCONNECT callback.
PoliteUse ==
  /\ Impatient = {} /\ AppCalls \subseteq {"connect"}
  /\ "delete" \notin CallbackCalls

-----------------------------------------------------------------------------
(* The inductive invariant *)

\* A call in progress, and a callback, are about some client.
TypeInv ==
  /\ TypeOK
  /\ \A t \in Threads : call[t].step # "none" => call[t].client \in Clients
  /\ callback # None => cur # None

\* The manager task handles one client at a time: it is in the client's
\* handler, in a callback, or in a call the handler or the callback made.
ControlInv ==
  /\ cur # None <=> step # "none" \/ callback # None
  /\ step # "none" => callback = None /\ call[Mgr].step = "none"
  /\ cur \notin todo
  /\ step = "start" => phase # "select"
  /\ step \in {"promote", "drain"} => phase = "write"
  /\ step = "notify" \/ callback = "SENT" => phase \in {"write", "poll"}
  /\ step = "timeouts" => phase = "poll"
  /\ step = "resolve" => phase = "dns"
  /\ step = "fire" => phase = "done"
  /\ callback = "ACCEPT" => phase = "read"
  /\ callback = "CONNECT" => phase = "write"
  /\ callback = "DISCONNECT" => phase = "done"
  /\ phase = "select" => cur = None /\ todo = {}

\* What a call in progress implies for the client it is about.  Application
\* threads are inside connect() only; no two threads call the same client.
CallInv ==
  /\ \A t \in Threads :
       /\ call[t].step = "none" <=> call[t].client = None
       /\ call[t].fd # None => call[t].step \in {"dial", "configure", "publish", "closeFd"}
       /\ call[t].step \in {"dial", "configure", "publish"} => call[t].fd # None
       /\ call[t].step \in {"open", "socket", "dial", "configure"} =>
            /\ ~isOpen(call[t].client)
            /\ state[call[t].client] \in {"DISCONNECTED", "WAITING_FOR_DNS"}
       /\ call[t].step = "publish" =>
            ~isOpen(call[t].client) /\ state[call[t].client] = "CONNECTING"
       /\ call[t].step = "await" =>
            ~isOpen(call[t].client) /\ state[call[t].client] = "DISCONNECTED"
       /\ call[t].step = "close" => state[call[t].client] # "DISCONNECTED"
       /\ call[t].step = "exchange" => state[call[t].client] = "DISCONNECTING"
       /\ call[t].step = "closeFd" =>
            ~isOpen(call[t].client) /\ state[call[t].client] = "DISCONNECTING"
       /\ call[t].step # "none" /\ state[call[t].client] = "WAITING_FOR_DNS" =>
            t = Mgr /\ cur = None
       /\ t \in Apps =>
            call[t].step \in {"none", "open", "socket", "dial", "configure", "publish"}
       /\ call[t].from = "user"
  /\ \A t, u \in Threads :
       call[t].client = call[u].client => t = u \/ call[t].client = None

\* No thread is inside a call on the client.
Quiet(c) == \A t \in Threads : call[t].client # c

\* StateMatchesSocket, for destroyed clients as well.
SocketInv ==
  \A c \in Clients : Quiet(c) => (isOpen(c) <=> state[c] \in {"CONNECTING", "CONNECTED"})

\* The client is in use, and not by an application thread: nobody but the
\* manager task changes it.
Engaged(c) == state[c] # "DISCONNECTED" /\ \A t \in Apps : call[t].client # c

\* The clients in clientsProcessing and the one being handled are engaged,
\* but for the phases that look at every client.
HandlerInv ==
  /\ phase \in {"write", "read"} =>
       \A c \in todo : Engaged(c) /\ state[c] # "WAITING_FOR_DNS"
  /\ phase = "dns" =>
       \A c \in todo : Engaged(c) /\ state[c] = "WAITING_FOR_DNS" /\ dnsFinished[c]
  /\ cur # None /\ callback # "DISCONNECT" /\ (step = "start" => phase \notin {"poll", "done"})
       => /\ Engaged(cur)
          /\ phase = "dns" <=> state[cur] = "WAITING_FOR_DNS"
  /\ phase = "dns" /\ step = "start" => dnsFinished[cur]
  /\ step = "promote" => isOpen(cur) /\ state[cur] = "CONNECTING"
  /\ step = "fire" => state[cur] = "DISCONNECTING"

\* A DNS query is in progress for the client, or its answer not yet handled.
Unanswered(c) == lookups[c] # 0 \/ resolved = c \/ dnsFinished[c]

\* A client has one query at most, and waits for it: in connect(host) before
\* the state is stored, then in WAITING_FOR_DNS.
DnsInv ==
  \A c \in Clients :
    /\ lookups[c] \in {0, 1}
    /\ lookups[c] = 1 => resolved # c /\ ~dnsFinished[c]
    /\ resolved = c => ~dnsFinished[c]
    /\ Unanswered(c) =>
         \/ state[c] = "WAITING_FOR_DNS" /\ Quiet(c)
         \/ call[Mgr].step = "await" /\ call[Mgr].client = c
    /\ call[Mgr].step = "await" /\ call[Mgr].client = c => Unanswered(c)
    /\ phase = "dns" /\ cur = c /\ step # "start" => ~Unanswered(c)
    /\ state[c] = "WAITING_FOR_DNS" => port[c]

\* Everything that points to a client points to one that exists.
AliveInv ==
  /\ alive = managed
  /\ todo \subseteq alive
  /\ cur # None /\ callback # "DISCONNECT" => cur \in alive
  /\ \A t \in Threads : call[t].step # "none" => call[t].client \in alive
  /\ \A c \in Clients \ alive : state[c] = "DISCONNECTED" /\ ~isOpen(c)

IInv == ControlInv /\ CallInv /\ SocketInv /\ HandlerInv /\ DnsInv /\ AliveInv

-----------------------------------------------------------------------------
(* Helpers *)

\* None is no client, no descriptor and no callback; the manager task is one
\* of the threads.
LEMMA NoneFacts ==
  /\ None \notin Clients /\ None \notin Fds
  /\ None # "ACCEPT" /\ None # "CONNECT" /\ None # "DISCONNECT" /\ None # "POLL" /\ None # "SENT"
  /\ None # "RECV" /\ None # "ERROR" /\ None # "TIMEOUT"
  /\ Mgr \in Threads /\ Mgr \notin Apps /\ Threads = Apps \cup {Mgr}
BY LifecycleAssumption DEF Threads, CallbackType

\* The blocks of the loop in their order, and the clients they concern.
LEMMA CollectBlocks ==
  ASSUME phase \in Phases, Collect
  PROVE  /\ ManagerRuns /\ cur = None /\ todo = {}
         /\ \/ /\ phase = "select" /\ phase' = "write"
               /\ todo' = managed \cap {c \in Clients : socket[c] \in wset}
            \/ /\ phase = "write" /\ phase' = "read"
               /\ todo' = managed \cap {c \in Clients : socket[c] \in rset}
            \/ /\ phase = "read" /\ phase' = "dns"
               /\ todo' = managed \cap {c \in Clients : dnsFinished[c]}
            \/ phase = "dns" /\ phase' = "poll" /\ todo' \subseteq managed
            \/ phase = "poll" /\ phase' = "done" /\ todo' = managed
         /\ UNCHANGED <<objectVars, call, cur, step, callback, wset, rset, lwipVars, view>>
BY DEF Collect, NextPhase, iterateClients, Phases

-----------------------------------------------------------------------------
(* Types *)

\* The types hold at the start.
LEMMA TypeInit == Init => TypeInv
BY NoneFacts DEF Init, NoCall, TypeInv, TypeOK, ConnectionState, CallStep, Phases, HandlerStep

\* Every step preserves the types, whatever user code does.
LEMMA TypeStep == TypeInv /\ [Next]_vars => TypeInv'
<1> SUFFICES ASSUME TypeInv, [Next]_vars PROVE TypeInv'
  OBVIOUS
<1> USE NoneFacts DEF TypeInv, TypeOK, objectVars, managerVars, lwipVars, loopVars
<1>1. ASSUME NEW t \in Threads, NEW c \in Clients, UserConnect(t, c) PROVE TypeInv'
  BY <1>1 DEF UserConnect, AtCall, CallStep
<1>2. ASSUME NEW t \in Threads, ConnectOpen(t) PROVE TypeInv'
  BY <1>2 DEF ConnectOpen, AtCall, NoCall, CallStep
<1>3. ASSUME NEW t \in Threads, ConnectSocket(t) PROVE TypeInv'
  BY <1>3 DEF ConnectSocket, NoCall, CallStep
<1>4. ASSUME NEW t \in Threads, ConnectDial(t) PROVE TypeInv'
  <2>1. fd' \in [Fds -> {"free", "new", "open", "eof", "reset"}]
    BY <1>4 DEF ConnectDial
  <2>2. /\ call' = [call EXCEPT ![t] = [call[t] EXCEPT !.step = "configure"]]
        /\ call[t].step # "none"
    BY <1>4 DEF ConnectDial
  <2>3. /\ call' \in [Threads -> [step : CallStep, client : Clients \cup {None},
                                fd : Fds \cup {None}, from : {"user", "destructor"}]]
        /\ \A u \in Threads : call'[u].client = call[u].client
    BY <2>2 DEF CallStep
  <2>4. \A u \in Threads : call'[u].step # "none" => call[u].step # "none"
    BY <2>2
  <2> QED
    BY <1>4, <2>1, <2>3, <2>4 DEF ConnectDial
<1>5. ASSUME NEW t \in Threads, ConnectFails(t) PROVE TypeInv'
  BY <1>5 DEF ConnectFails, NoCall, CallStep
<1>6. ASSUME NEW t \in Threads, ConnectState(t) PROVE TypeInv'
  BY <1>6 DEF ConnectState, CallStep, ConnectionState
<1>7. ASSUME NEW t \in Threads, ConfigureSocket(t) PROVE TypeInv'
  BY <1>7 DEF ConfigureSocket, NoCall, CallStep
<1>8. ASSUME NEW t \in Threads, NEW c \in Clients, UserConnectHost(t, c) PROVE TypeInv'
  BY <1>8 DEF UserConnectHost, AtCall, CallStep
<1>9. ASSUME NEW t \in Threads, ConnectAwait(t) PROVE TypeInv'
  BY <1>9 DEF ConnectAwait, NoCall, CallStep, ConnectionState
<1>10. ASSUME NEW c \in Clients, DnsFound(c) PROVE TypeInv'
  BY <1>10 DEF DnsFound
<1>11. CASE DnsFinished
  BY <1>11 DEF DnsFinished
<1>12. ASSUME NEW t \in Threads, NEW c \in Clients, UserClose(t, c) PROVE TypeInv'
  BY <1>12 DEF UserClose, AtCall, CallStep
<1>13. ASSUME NEW t \in Threads, CloseState(t) PROVE TypeInv'
  BY <1>13 DEF CloseState, CallStep, ConnectionState
<1>14. ASSUME NEW t \in Threads, CloseExchange(t) PROVE TypeInv'
  BY <1>14 DEF CloseExchange, CallStep
<1>15. ASSUME NEW t \in Threads, CloseFd(t) PROVE TypeInv'
  BY <1>15 DEF CloseFd, NoCall, CallStep
<1>16. ASSUME NEW t \in Threads, NEW c \in Clients, UserDelete(t, c) PROVE TypeInv'
  BY <1>16 DEF UserDelete, AtCall, removeConnection, CallStep
<1>17. CASE Select
  <2>1. wset' \subseteq Fds /\ rset' \subseteq Fds
    <3>1. ReadSet \subseteq Fds
      BY DEF ReadSet, iterateClients, isOpen
    <3>2. \A some : WriteSet(some) \subseteq Fds
      BY DEF WriteSet, iterateClients, isOpen
    <3> QED
      BY <1>17, <3>1, <3>2 DEF Select
  <2> QED
    BY <1>17, <2>1 DEF Select, Phases
<1>18. CASE SelectFails
  BY <1>18 DEF SelectFails, ManagerRuns, Phases
<1>19. CASE Collect
  BY <1>19 DEF Collect, ManagerRuns, NextPhase, iterateClients, Phases
<1>20. CASE Dispatch
  BY <1>20 DEF Dispatch, ManagerRuns, HandlerStep
<1>21. CASE SockIsWriteable
  BY <1>21 DEF SockIsWriteable, Handling, ManagerRuns, Finish, Goto, Enter, Invoke,
     AtCall, CallStep, HandlerStep, CallbackType
<1>22. CASE SockConnected
  BY <1>22 DEF SockConnected, Handling, ManagerRuns, Finish, Goto, Enter, Invoke,
     AtCall, CallStep, ConnectionState, HandlerStep, CallbackType
<1>23. CASE SockDrain
  BY <1>23 DEF SockDrain, Handling, ManagerRuns, Finish, Goto, Enter, Invoke, AtCall,
     CallStep, HandlerStep, CallbackType
<1>24. CASE NotifySent
  BY <1>24 DEF NotifySent, Handling, ManagerRuns, Finish, Goto, Enter, Invoke, AtCall,
     CallStep, HandlerStep, CallbackType
<1>25. CASE NotifyEnd
  BY <1>25 DEF NotifyEnd, Handling, ManagerRuns, Finish, Goto, Enter, Invoke, AtCall,
     CallStep, HandlerStep, CallbackType
<1>26. CASE SockIsReadable
  BY <1>26 DEF SockIsReadable, Handling, ManagerRuns, Finish, Goto, Enter, Invoke,
     AtCall, CallStep, HandlerStep, CallbackType
<1>27. CASE DnsReset
  BY <1>27 DEF DnsReset, Handling, ManagerRuns, Finish, Goto, Enter, Invoke, AtCall,
     CallStep, HandlerStep, CallbackType
<1>28. CASE SockDelayedConnect
  BY <1>28 DEF SockDelayedConnect, Handling, ManagerRuns, Finish, Goto, Enter, Invoke,
     AtCall, CallStep, HandlerStep, CallbackType
<1>29. CASE SockPoll
  BY <1>29 DEF SockPoll, Handling, ManagerRuns, Finish, Goto, Enter, Invoke, AtCall,
     CallStep, HandlerStep, CallbackType
<1>30. CASE PollTimeouts
  BY <1>30 DEF PollTimeouts, Handling, ManagerRuns, Finish, Goto, Enter, Invoke, AtCall,
     CallStep, HandlerStep, CallbackType
<1>31. CASE ProcessingDone
  BY <1>31 DEF ProcessingDone, Handling, ManagerRuns, Finish, Goto, Enter, Invoke,
     AtCall, CallStep, HandlerStep, CallbackType
<1>32. CASE FireDisconnect
  BY <1>32 DEF FireDisconnect, Handling, ManagerRuns, Finish, Goto, Enter, Invoke,
     AtCall, CallStep, ConnectionState, HandlerStep, CallbackType
<1>33. CASE CallbackReturn
  BY <1>33 DEF CallbackReturn, AtCall, CallStep, HandlerStep
<1>34. ASSUME NEW c \in Clients, SockAccept(c) PROVE TypeInv'
  BY <1>34 DEF SockAccept, ManagerRuns, loopVars, ConnectionState, CallbackType
<1>35. ASSUME NEW f \in Fds, PeerLeaves(f) PROVE TypeInv'
  BY <1>35 DEF PeerLeaves
<1>36. CASE UNCHANGED vars
  BY <1>36 DEF vars
<1> QED
  BY <1>1, <1>2, <1>3, <1>4, <1>5, <1>6, <1>7, <1>8, <1>9, <1>10, <1>11, <1>12, <1>13,
     <1>14, <1>15, <1>16, <1>17, <1>18, <1>19, <1>20, <1>21, <1>22, <1>23, <1>24, <1>25,
     <1>26, <1>27, <1>28, <1>29, <1>30, <1>31, <1>32, <1>33, <1>34, <1>35, <1>36 DEF
     Next, UserCall, CallProgress, ManagerProgress, DnsProgress

\* All variables of a client, of the manager task's loop and of lwIP have their
\* types, for every way to use the library.
THEOREM LifecycleTypeCorrect == Spec => []TypeOK
<1>1. TypeInv => TypeOK
  BY DEF TypeInv
<1> QED
  BY <1>1, TypeInit, TypeStep, PTL DEF Spec

-----------------------------------------------------------------------------
(* The invariant holds initially and is preserved by every action *)

\* At the start all clients are closed and the manager task is between two rounds.
LEMMA InvInit == Init => IInv
BY NoneFacts DEF Init, NoCall, IInv, ControlInv, CallInv, SocketInv, HandlerInv, DnsInv,
   AliveInv, Quiet, Engaged, Unanswered, isOpen

\* connect() starts on an idle client.
LEMMA UserConnectStep ==
  ASSUME PoliteUse, TypeOK, IInv, NEW t \in Threads, NEW c \in Clients, UserConnect(t, c)
  PROVE  IInv'
<1> USE NoneFacts DEF IInv, UserConnect, MayCall, Idle, AtCall, objectVars, managerVars,
    lwipVars
<1>1. ControlInv'
  BY DEF TypeOK, ControlInv, isOpen, PoliteUse
<1>2. CallInv'
  BY DEF TypeOK, CallInv, SocketInv, HandlerInv, DnsInv, Engaged, Quiet, ControlInv,
     isOpen, PoliteUse
<1>3. SocketInv'
  BY DEF TypeOK, SocketInv, CallInv, HandlerInv, Quiet, ControlInv, isOpen, PoliteUse
<1>4. HandlerInv'
  BY DEF TypeOK, HandlerInv, CallInv, SocketInv, DnsInv, Engaged, Quiet, Unanswered,
     ControlInv, isOpen, PoliteUse
<1>5. DnsInv'
  BY DEF TypeOK, DnsInv, CallInv, HandlerInv, Engaged, Unanswered, Quiet, SocketInv,
     ControlInv, isOpen, PoliteUse
<1>6. AliveInv'
  BY DEF TypeOK, AliveInv, CallInv, DnsInv, HandlerInv, Engaged, ControlInv, isOpen,
     PoliteUse
<1> QED
  BY <1>1, <1>2, <1>3, <1>4, <1>5, <1>6

\* connect() finds the client closed.
LEMMA ConnectOpenStep ==
  ASSUME TypeOK, IInv, NEW t \in Threads, ConnectOpen(t)
  PROVE  IInv'
<1> USE NoneFacts DEF IInv, ConnectOpen, AtCall, NoCall, objectVars, managerVars,
    lwipVars
<1>1. ControlInv'
  BY DEF TypeOK, ControlInv, isOpen
<1>2. CallInv'
  BY DEF TypeOK, CallInv, SocketInv, HandlerInv, DnsInv, Engaged, Quiet, ControlInv,
     isOpen
<1>3. SocketInv'
  BY DEF TypeOK, SocketInv, CallInv, HandlerInv, Quiet, ControlInv, isOpen
<1>4. HandlerInv'
  BY DEF TypeOK, HandlerInv, CallInv, SocketInv, DnsInv, Engaged, Quiet, Unanswered,
     ControlInv, isOpen
<1>5. DnsInv'
  BY DEF TypeOK, DnsInv, CallInv, HandlerInv, Engaged, Unanswered, Quiet, SocketInv,
     ControlInv, isOpen
<1>6. AliveInv'
  BY DEF TypeOK, AliveInv, CallInv, DnsInv, HandlerInv, Engaged, ControlInv, isOpen
<1> QED
  BY <1>1, <1>2, <1>3, <1>4, <1>5, <1>6

\* socket() gives connect() a descriptor, or fails.
LEMMA ConnectSocketStep ==
  ASSUME TypeOK, IInv, NEW t \in Threads, ConnectSocket(t)
  PROVE  IInv'
<1> USE NoneFacts DEF IInv, ConnectSocket, NoCall, objectVars, managerVars, lwipVars
<1>1. ControlInv'
  BY DEF TypeOK, ControlInv, isOpen
<1>2. CallInv'
  BY DEF TypeOK, CallInv, SocketInv, HandlerInv, DnsInv, Engaged, Quiet, ControlInv,
     isOpen
<1>3. SocketInv'
  BY DEF TypeOK, SocketInv, CallInv, HandlerInv, Quiet, ControlInv, isOpen
<1>4. HandlerInv'
  <2>1. /\ UNCHANGED <<objectVars, managerVars, lookups, resolved>>
        /\ \A u \in Threads : call'[u].client \in {call[u].client, None}
    BY DEF TypeOK
  <2>2. step # "none" => call'[Mgr].step = "none"
    BY DEF TypeOK, ControlInv
  <2> HIDE DEF ConnectSocket, NoCall
  <2> QED
    BY <2>1, <2>2 DEF TypeOK, HandlerInv, Engaged, ControlInv, isOpen
<1>5. DnsInv'
  BY DEF TypeOK, DnsInv, CallInv, HandlerInv, Engaged, Unanswered, Quiet, SocketInv,
     ControlInv, isOpen
<1>6. AliveInv'
  BY DEF TypeOK, AliveInv, CallInv, DnsInv, HandlerInv, Engaged, ControlInv, isOpen
<1> QED
  BY <1>1, <1>2, <1>3, <1>4, <1>5, <1>6

\* The connection is established.
LEMMA ConnectDialStep ==
  ASSUME TypeOK, IInv, NEW t \in Threads, ConnectDial(t)
  PROVE  IInv'
<1> USE NoneFacts DEF IInv, ConnectDial, objectVars, managerVars, lwipVars
<1>1. ControlInv'
  BY DEF TypeOK, ControlInv, isOpen
<1>2. CallInv'
  BY DEF TypeOK, CallInv, SocketInv, HandlerInv, DnsInv, Engaged, Quiet, ControlInv,
     isOpen
<1>3. SocketInv'
  BY DEF TypeOK, SocketInv, CallInv, HandlerInv, Quiet, ControlInv, isOpen
<1>4. HandlerInv'
  BY DEF TypeOK, HandlerInv, CallInv, SocketInv, DnsInv, Engaged, Quiet, Unanswered,
     ControlInv, isOpen
<1>5. DnsInv'
  BY DEF TypeOK, DnsInv, CallInv, HandlerInv, Engaged, Unanswered, Quiet, SocketInv,
     ControlInv, isOpen
<1>6. AliveInv'
  BY DEF TypeOK, AliveInv, CallInv, DnsInv, HandlerInv, Engaged, ControlInv, isOpen
<1> QED
  BY <1>1, <1>2, <1>3, <1>4, <1>5, <1>6

\* ::connect() fails, and connect() returns false.
LEMMA ConnectFailsStep ==
  ASSUME TypeOK, IInv, NEW t \in Threads, ConnectFails(t)
  PROVE  IInv'
<1> USE NoneFacts DEF IInv, ConnectFails, NoCall, objectVars, managerVars, lwipVars
<1>1. ControlInv'
  BY DEF TypeOK, ControlInv, isOpen
<1>2. CallInv'
  BY DEF TypeOK, CallInv, SocketInv, HandlerInv, DnsInv, Engaged, Quiet, ControlInv,
     isOpen
<1>3. SocketInv'
  BY DEF TypeOK, SocketInv, CallInv, HandlerInv, Quiet, ControlInv, isOpen
<1>4. HandlerInv'
  BY DEF TypeOK, HandlerInv, CallInv, SocketInv, DnsInv, Engaged, Quiet, Unanswered,
     ControlInv, isOpen
<1>5. DnsInv'
  BY DEF TypeOK, DnsInv, CallInv, HandlerInv, Engaged, Unanswered, Quiet, SocketInv,
     ControlInv, isOpen
<1>6. AliveInv'
  BY DEF TypeOK, AliveInv, CallInv, DnsInv, HandlerInv, Engaged, ControlInv, isOpen
<1> QED
  BY <1>1, <1>2, <1>3, <1>4, <1>5, <1>6

\* connect() stores the state before the socket.
LEMMA ConnectStateStep ==
  ASSUME TypeOK, IInv, NEW t \in Threads, ConnectState(t)
  PROVE  IInv'
<1> USE NoneFacts DEF IInv, ConnectState, objectVars, managerVars, lwipVars
<1>1. ControlInv'
  BY DEF TypeOK, ControlInv, isOpen
<1>2. CallInv'
  BY DEF TypeOK, CallInv, SocketInv, HandlerInv, DnsInv, Engaged, Quiet, ControlInv,
     isOpen
<1>3. SocketInv'
  BY DEF TypeOK, SocketInv, CallInv, HandlerInv, Quiet, ControlInv, isOpen
<1>4. HandlerInv'
  BY DEF TypeOK, HandlerInv, CallInv, SocketInv, DnsInv, Engaged, Quiet, Unanswered,
     ControlInv, isOpen
<1>5. DnsInv'
  BY DEF TypeOK, DnsInv, CallInv, HandlerInv, Engaged, Unanswered, Quiet, SocketInv,
     ControlInv, isOpen
<1>6. AliveInv'
  BY DEF TypeOK, AliveInv, CallInv, DnsInv, HandlerInv, Engaged, ControlInv, isOpen
<1> QED
  BY <1>1, <1>2, <1>3, <1>4, <1>5, <1>6

\* The descriptor moves from connect() to _socket.
LEMMA ConfigureSocketStep ==
  ASSUME TypeOK, IInv, NEW t \in Threads, ConfigureSocket(t)
  PROVE  IInv'
<1> USE NoneFacts DEF IInv, ConfigureSocket, NoCall, objectVars, managerVars, lwipVars
<1>1. ControlInv'
  BY DEF TypeOK, ControlInv, isOpen
<1>2. CallInv'
  BY DEF TypeOK, CallInv, SocketInv, HandlerInv, DnsInv, Engaged, Quiet, ControlInv,
     isOpen
<1>3. SocketInv'
  BY DEF TypeOK, SocketInv, CallInv, HandlerInv, Quiet, ControlInv, isOpen
<1>4. HandlerInv'
  BY DEF TypeOK, HandlerInv, CallInv, SocketInv, DnsInv, Engaged, Quiet, Unanswered,
     ControlInv, isOpen
<1>5. DnsInv'
  BY DEF TypeOK, DnsInv, CallInv, HandlerInv, Engaged, Unanswered, Quiet, SocketInv,
     ControlInv, isOpen
<1>6. AliveInv'
  BY DEF TypeOK, AliveInv, CallInv, DnsInv, HandlerInv, Engaged, ControlInv, isOpen
<1> QED
  BY <1>1, <1>2, <1>3, <1>4, <1>5, <1>6

\* connect(host) asks lwIP for the address.
LEMMA UserConnectHostStep ==
  ASSUME PoliteUse, TypeOK, IInv, NEW t \in Threads, NEW c \in Clients, UserConnectHost(t, c)
  PROVE  IInv'
<1> USE NoneFacts DEF IInv, UserConnectHost, MayCall, Idle, AtCall, objectVars,
    managerVars, lwipVars
<1>1. ControlInv'
  BY DEF TypeOK, ControlInv, isOpen, PoliteUse
<1>2. CallInv'
  BY DEF TypeOK, CallInv, SocketInv, HandlerInv, DnsInv, Engaged, Quiet, ControlInv,
     isOpen, PoliteUse
<1>3. SocketInv'
  BY DEF TypeOK, SocketInv, CallInv, HandlerInv, Quiet, ControlInv, isOpen, PoliteUse
<1>4. HandlerInv'
  BY DEF TypeOK, HandlerInv, CallInv, SocketInv, DnsInv, Engaged, Quiet, Unanswered,
     ControlInv, isOpen, PoliteUse
<1>5. DnsInv'
  BY DEF TypeOK, DnsInv, CallInv, HandlerInv, Engaged, Unanswered, Quiet, SocketInv,
     ControlInv, isOpen, PoliteUse
<1>6. AliveInv'
  BY DEF TypeOK, AliveInv, CallInv, DnsInv, HandlerInv, Engaged, ControlInv, isOpen,
     PoliteUse
<1> QED
  BY <1>1, <1>2, <1>3, <1>4, <1>5, <1>6

\* connect(host) returns; the client waits for the answer.
LEMMA ConnectAwaitStep ==
  ASSUME TypeOK, IInv, NEW t \in Threads, ConnectAwait(t)
  PROVE  IInv'
<1> USE NoneFacts DEF IInv, ConnectAwait, NoCall, objectVars, managerVars, lwipVars
<1>1. ControlInv'
  BY DEF TypeOK, ControlInv, isOpen
<1>2. CallInv'
  BY DEF TypeOK, CallInv, SocketInv, HandlerInv, DnsInv, Engaged, Quiet, ControlInv,
     isOpen
<1>3. SocketInv'
  BY DEF TypeOK, SocketInv, CallInv, HandlerInv, Quiet, ControlInv, isOpen
<1>4. HandlerInv'
  BY DEF TypeOK, HandlerInv, CallInv, SocketInv, DnsInv, Engaged, Quiet, Unanswered,
     ControlInv, isOpen
<1>5. DnsInv'
  BY DEF TypeOK, DnsInv, CallInv, HandlerInv, Engaged, Unanswered, Quiet, SocketInv,
     ControlInv, isOpen
<1>6. AliveInv'
  BY DEF TypeOK, AliveInv, CallInv, DnsInv, HandlerInv, Engaged, ControlInv, isOpen
<1> QED
  BY <1>1, <1>2, <1>3, <1>4, <1>5, <1>6

\* The answer arrives.
LEMMA DnsFoundStep ==
  ASSUME TypeOK, IInv, NEW c \in Clients, DnsFound(c)
  PROVE  IInv'
<1> USE NoneFacts DEF IInv, DnsFound, objectVars, managerVars, lwipVars
<1>1. ControlInv'
  BY DEF TypeOK, ControlInv, isOpen
<1>2. CallInv'
  BY DEF TypeOK, CallInv, SocketInv, HandlerInv, DnsInv, Engaged, Quiet, ControlInv,
     isOpen
<1>3. SocketInv'
  BY DEF TypeOK, SocketInv, CallInv, HandlerInv, Quiet, ControlInv, isOpen
<1>4. HandlerInv'
  BY DEF TypeOK, HandlerInv, CallInv, SocketInv, DnsInv, Engaged, Quiet, Unanswered,
     ControlInv, isOpen
<1>5. DnsInv'
  BY DEF TypeOK, DnsInv, CallInv, HandlerInv, Engaged, Unanswered, Quiet, SocketInv,
     ControlInv, isOpen
<1>6. AliveInv'
  BY DEF TypeOK, AliveInv, CallInv, DnsInv, HandlerInv, Engaged, ControlInv, isOpen
<1> QED
  BY <1>1, <1>2, <1>3, <1>4, <1>5, <1>6

\* The answer is announced to the manager task.
LEMMA DnsFinishedStep ==
  ASSUME TypeOK, IInv, DnsFinished
  PROVE  IInv'
<1> USE NoneFacts DEF IInv, DnsFinished, objectVars, managerVars, lwipVars
<1>1. ControlInv'
  BY DEF TypeOK, ControlInv, isOpen
<1>2. CallInv'
  BY DEF TypeOK, CallInv, SocketInv, HandlerInv, DnsInv, Engaged, Quiet, ControlInv,
     isOpen
<1>3. SocketInv'
  BY DEF TypeOK, SocketInv, CallInv, HandlerInv, Quiet, ControlInv, isOpen
<1>4. HandlerInv'
  BY DEF TypeOK, HandlerInv, CallInv, SocketInv, DnsInv, Engaged, Quiet, Unanswered,
     ControlInv, isOpen
<1>5. DnsInv'
  BY DEF TypeOK, DnsInv, CallInv, HandlerInv, Engaged, Unanswered, Quiet, SocketInv,
     ControlInv, isOpen
<1>6. AliveInv'
  BY DEF TypeOK, AliveInv, CallInv, DnsInv, HandlerInv, Engaged, ControlInv, isOpen
<1> QED
  BY <1>1, <1>2, <1>3, <1>4, <1>5, <1>6

\* close() is called in a callback.
LEMMA UserCloseStep ==
  ASSUME PoliteUse, TypeOK, IInv, NEW t \in Threads, NEW c \in Clients, UserClose(t, c)
  PROVE  IInv'
<1> USE NoneFacts DEF IInv, UserClose, MayCall, AtCall, objectVars, managerVars,
    lwipVars
<1>1. ControlInv'
  BY DEF TypeOK, ControlInv, isOpen, PoliteUse
<1>2. CallInv'
  BY DEF TypeOK, CallInv, SocketInv, HandlerInv, DnsInv, Engaged, Quiet, ControlInv,
     isOpen, PoliteUse
<1>3. SocketInv'
  BY DEF TypeOK, SocketInv, CallInv, HandlerInv, Quiet, ControlInv, isOpen, PoliteUse
<1>4. HandlerInv'
  BY DEF TypeOK, HandlerInv, CallInv, SocketInv, DnsInv, Engaged, Quiet, Unanswered,
     ControlInv, isOpen, PoliteUse
<1>5. DnsInv'
  BY DEF TypeOK, DnsInv, CallInv, HandlerInv, Engaged, Unanswered, Quiet, SocketInv,
     ControlInv, isOpen, PoliteUse
<1>6. AliveInv'
  BY DEF TypeOK, AliveInv, CallInv, DnsInv, HandlerInv, Engaged, ControlInv, isOpen,
     PoliteUse
<1> QED
  BY <1>1, <1>2, <1>3, <1>4, <1>5, <1>6

\* _close() stores the state before it takes the socket away.
LEMMA CloseStateStep ==
  ASSUME TypeOK, IInv, NEW t \in Threads, CloseState(t)
  PROVE  IInv'
<1> USE NoneFacts DEF IInv, CloseState, objectVars, managerVars, lwipVars
<1>1. ControlInv'
  BY DEF TypeOK, ControlInv, isOpen
<1>2. CallInv'
  BY DEF TypeOK, CallInv, SocketInv, HandlerInv, DnsInv, Engaged, Quiet, ControlInv,
     isOpen
<1>3. SocketInv'
  BY DEF TypeOK, SocketInv, CallInv, HandlerInv, Quiet, ControlInv, isOpen
<1>4. HandlerInv'
  BY DEF TypeOK, HandlerInv, CallInv, SocketInv, DnsInv, Engaged, Quiet, Unanswered,
     ControlInv, isOpen
<1>5. DnsInv'
  BY DEF TypeOK, DnsInv, CallInv, HandlerInv, Engaged, Unanswered, Quiet, SocketInv,
     ControlInv, isOpen
<1>6. AliveInv'
  BY DEF TypeOK, AliveInv, CallInv, DnsInv, HandlerInv, Engaged, ControlInv, isOpen
<1> QED
  BY <1>1, <1>2, <1>3, <1>4, <1>5, <1>6

\* The descriptor moves from _socket to _close().
LEMMA CloseExchangeStep ==
  ASSUME TypeOK, IInv, NEW t \in Threads, CloseExchange(t)
  PROVE  IInv'
<1> USE NoneFacts DEF IInv, CloseExchange, objectVars, managerVars, lwipVars
<1>1. ControlInv'
  BY DEF TypeOK, ControlInv, isOpen
<1>2. CallInv'
  BY DEF TypeOK, CallInv, SocketInv, HandlerInv, DnsInv, Engaged, Quiet, ControlInv,
     isOpen
<1>3. SocketInv'
  BY DEF TypeOK, SocketInv, CallInv, HandlerInv, Quiet, ControlInv, isOpen
<1>4. HandlerInv'
  BY DEF TypeOK, HandlerInv, CallInv, SocketInv, DnsInv, Engaged, Quiet, Unanswered,
     ControlInv, isOpen
<1>5. DnsInv'
  BY DEF TypeOK, DnsInv, CallInv, HandlerInv, Engaged, Unanswered, Quiet, SocketInv,
     ControlInv, isOpen
<1>6. AliveInv'
  BY DEF TypeOK, AliveInv, CallInv, DnsInv, HandlerInv, Engaged, ControlInv, isOpen
<1> QED
  BY <1>1, <1>2, <1>3, <1>4, <1>5, <1>6

\* ::close() gives the descriptor back to lwIP.
LEMMA CloseFdStep ==
  ASSUME TypeOK, IInv, NEW t \in Threads, CloseFd(t)
  PROVE  IInv'
<1> USE NoneFacts DEF IInv, CloseFd, NoCall, objectVars, managerVars, lwipVars
<1>1. ControlInv'
  BY DEF TypeOK, ControlInv, isOpen
<1>2. CallInv'
  BY DEF TypeOK, CallInv, SocketInv, HandlerInv, DnsInv, Engaged, Quiet, ControlInv,
     isOpen
<1>3. SocketInv'
  BY DEF TypeOK, SocketInv, CallInv, HandlerInv, Quiet, ControlInv, isOpen
<1>4. HandlerInv'
  BY DEF TypeOK, HandlerInv, CallInv, SocketInv, DnsInv, Engaged, Quiet, Unanswered,
     ControlInv, isOpen
<1>5. DnsInv'
  BY DEF TypeOK, DnsInv, CallInv, HandlerInv, Engaged, Unanswered, Quiet, SocketInv,
     ControlInv, isOpen
<1>6. AliveInv'
  BY DEF TypeOK, AliveInv, CallInv, DnsInv, HandlerInv, Engaged, ControlInv, isOpen
<1> QED
  BY <1>1, <1>2, <1>3, <1>4, <1>5, <1>6

\* An idle client is deleted in its DISCONNECT callback.
LEMMA UserDeleteStep ==
  ASSUME PoliteUse, TypeOK, IInv, NEW t \in Threads, NEW c \in Clients, UserDelete(t, c)
  PROVE  IInv'
<1> USE NoneFacts DEF IInv, UserDelete, MayDelete, MayCall, Idle, AtCall,
    removeConnection, objectVars, managerVars, lwipVars
<1>1. ControlInv'
  BY DEF TypeOK, ControlInv, isOpen, PoliteUse
<1>2. CallInv'
  BY DEF TypeOK, CallInv, SocketInv, HandlerInv, DnsInv, Engaged, Quiet, ControlInv,
     isOpen, PoliteUse
<1>3. SocketInv'
  BY DEF TypeOK, SocketInv, CallInv, HandlerInv, Quiet, ControlInv, isOpen, PoliteUse
<1>4. HandlerInv'
  BY DEF TypeOK, HandlerInv, CallInv, SocketInv, DnsInv, Engaged, Quiet, Unanswered,
     ControlInv, isOpen, PoliteUse
<1>5. DnsInv'
  BY DEF TypeOK, DnsInv, CallInv, HandlerInv, Engaged, Unanswered, Quiet, SocketInv,
     ControlInv, isOpen, PoliteUse
<1>6. AliveInv'
  BY DEF TypeOK, AliveInv, CallInv, DnsInv, HandlerInv, Engaged, ControlInv, isOpen,
     PoliteUse
<1> QED
  BY <1>1, <1>2, <1>3, <1>4, <1>5, <1>6

\* select() returns sets of descriptors.
LEMMA SelectStep ==
  ASSUME TypeOK, IInv, Select
  PROVE  IInv'
<1> USE NoneFacts DEF IInv, Select, ManagerRuns, objectVars, managerVars, lwipVars
<1>1. ControlInv'
  BY DEF TypeOK, ControlInv, isOpen
<1>2. CallInv'
  BY DEF TypeOK, CallInv, SocketInv, HandlerInv, DnsInv, Engaged, Quiet, ControlInv,
     isOpen
<1>3. SocketInv'
  BY DEF TypeOK, SocketInv, CallInv, HandlerInv, Quiet, ControlInv, isOpen
<1>4. HandlerInv'
  BY DEF TypeOK, HandlerInv, CallInv, SocketInv, DnsInv, Engaged, Quiet, Unanswered,
     ControlInv, isOpen
<1>5. DnsInv'
  BY DEF TypeOK, DnsInv, CallInv, HandlerInv, Engaged, Unanswered, Quiet, SocketInv,
     ControlInv, isOpen
<1>6. AliveInv'
  BY DEF TypeOK, AliveInv, CallInv, DnsInv, HandlerInv, Engaged, ControlInv, isOpen
<1> QED
  BY <1>1, <1>2, <1>3, <1>4, <1>5, <1>6

\* select() fails.
LEMMA SelectFailsStep ==
  ASSUME TypeOK, IInv, SelectFails
  PROVE  IInv'
<1> USE NoneFacts DEF IInv, SelectFails, ManagerRuns, objectVars, managerVars, lwipVars
<1>1. ControlInv'
  BY DEF TypeOK, ControlInv, isOpen
<1>2. CallInv'
  BY DEF TypeOK, CallInv, SocketInv, HandlerInv, DnsInv, Engaged, Quiet, ControlInv,
     isOpen
<1>3. SocketInv'
  BY DEF TypeOK, SocketInv, CallInv, HandlerInv, Quiet, ControlInv, isOpen
<1>4. HandlerInv'
  BY DEF TypeOK, HandlerInv, CallInv, SocketInv, DnsInv, Engaged, Quiet, Unanswered,
     ControlInv, isOpen
<1>5. DnsInv'
  BY DEF TypeOK, DnsInv, CallInv, HandlerInv, Engaged, Unanswered, Quiet, SocketInv,
     ControlInv, isOpen
<1>6. AliveInv'
  BY DEF TypeOK, AliveInv, CallInv, DnsInv, HandlerInv, Engaged, ControlInv, isOpen
<1> QED
  BY <1>1, <1>2, <1>3, <1>4, <1>5, <1>6

\* The next phase begins with the clients it concerns.
LEMMA CollectStep ==
  ASSUME TypeOK, IInv, Collect
  PROVE  IInv'
<1> USE NoneFacts DEF IInv, ManagerRuns, objectVars, managerVars, lwipVars
<1>1. ControlInv'
  BY CollectBlocks DEF TypeOK, ControlInv, isOpen
<1>2. CallInv'
  BY CollectBlocks DEF TypeOK, CallInv, SocketInv, HandlerInv, DnsInv, Engaged, Quiet,
     ControlInv, isOpen
<1>3. SocketInv'
  BY CollectBlocks DEF TypeOK, SocketInv, CallInv, HandlerInv, Quiet, ControlInv, isOpen
<1>4. HandlerInv'
  BY CollectBlocks DEF TypeOK, HandlerInv, CallInv, SocketInv, DnsInv, Engaged, Quiet,
     Unanswered, ControlInv, isOpen
<1>5. DnsInv'
  BY CollectBlocks DEF TypeOK, DnsInv, CallInv, HandlerInv, Engaged, Unanswered, Quiet,
     SocketInv, ControlInv, isOpen
<1>6. AliveInv'
  BY CollectBlocks DEF TypeOK, AliveInv, CallInv, DnsInv, HandlerInv, Engaged,
     ControlInv, isOpen
<1> QED
  BY <1>1, <1>2, <1>3, <1>4, <1>5, <1>6

\* The next client is handled.
LEMMA DispatchStep ==
  ASSUME TypeOK, IInv, Dispatch
  PROVE  IInv'
<1> USE NoneFacts DEF IInv, Dispatch, ManagerRuns, objectVars, managerVars, lwipVars
<1>1. ControlInv'
  BY DEF TypeOK, ControlInv, isOpen
<1>2. CallInv'
  BY DEF TypeOK, CallInv, SocketInv, HandlerInv, DnsInv, Engaged, Quiet, ControlInv,
     isOpen
<1>3. SocketInv'
  BY DEF TypeOK, SocketInv, CallInv, HandlerInv, Quiet, ControlInv, isOpen
<1>4. HandlerInv'
  BY DEF TypeOK, HandlerInv, CallInv, SocketInv, DnsInv, Engaged, Quiet, Unanswered,
     ControlInv, isOpen, Phases
<1>5. DnsInv'
  BY DEF TypeOK, DnsInv, CallInv, HandlerInv, Engaged, Unanswered, Quiet, SocketInv,
     ControlInv, isOpen
<1>6. AliveInv'
  BY DEF TypeOK, AliveInv, CallInv, DnsInv, HandlerInv, Engaged, ControlInv, isOpen
<1> QED
  BY <1>1, <1>2, <1>3, <1>4, <1>5, <1>6

\* The state test and getsockopt().
LEMMA SockIsWriteableStep ==
  ASSUME TypeOK, IInv, SockIsWriteable
  PROVE  IInv'
<1> USE NoneFacts DEF IInv, SockIsWriteable, Handling, ManagerRuns, Finish, Goto, Enter,
    Invoke, AtCall, loopVars, objectVars, managerVars, lwipVars
<1>1. ControlInv'
  BY DEF TypeOK, ControlInv, isOpen
<1>2. CallInv'
  BY DEF TypeOK, CallInv, SocketInv, HandlerInv, DnsInv, Engaged, Quiet, ControlInv,
     isOpen
<1>3. SocketInv'
  BY DEF TypeOK, SocketInv, CallInv, HandlerInv, Quiet, ControlInv, isOpen
<1>4. HandlerInv'
  BY DEF TypeOK, HandlerInv, CallInv, SocketInv, DnsInv, Engaged, Quiet, Unanswered,
     ControlInv, isOpen, SocketError, Status
<1>5. DnsInv'
  BY DEF TypeOK, DnsInv, CallInv, HandlerInv, Engaged, Unanswered, Quiet, SocketInv,
     ControlInv, isOpen
<1>6. AliveInv'
  BY DEF TypeOK, AliveInv, CallInv, DnsInv, HandlerInv, Engaged, ControlInv, isOpen
<1> QED
  BY <1>1, <1>2, <1>3, <1>4, <1>5, <1>6

\* A client becomes CONNECTED.
LEMMA SockConnectedStep ==
  ASSUME TypeOK, IInv, SockConnected
  PROVE  IInv'
<1> USE NoneFacts DEF IInv, SockConnected, Handling, ManagerRuns, Finish, Goto, Enter,
    Invoke, AtCall, loopVars, objectVars, managerVars, lwipVars
<1>1. ControlInv'
  BY DEF TypeOK, ControlInv, isOpen
<1>2. CallInv'
  BY DEF TypeOK, CallInv, SocketInv, HandlerInv, DnsInv, Engaged, Quiet, ControlInv,
     isOpen
<1>3. SocketInv'
  BY DEF TypeOK, SocketInv, CallInv, HandlerInv, Quiet, ControlInv, isOpen
<1>4. HandlerInv'
  BY DEF TypeOK, HandlerInv, CallInv, SocketInv, DnsInv, Engaged, Quiet, Unanswered,
     ControlInv, isOpen
<1>5. DnsInv'
  BY DEF TypeOK, DnsInv, CallInv, HandlerInv, Engaged, Unanswered, Quiet, SocketInv,
     ControlInv, isOpen
<1>6. AliveInv'
  BY DEF TypeOK, AliveInv, CallInv, DnsInv, HandlerInv, Engaged, ControlInv, isOpen
<1> QED
  BY <1>1, <1>2, <1>3, <1>4, <1>5, <1>6

\* The write queue is processed.
LEMMA SockDrainStep ==
  ASSUME TypeOK, IInv, SockDrain
  PROVE  IInv'
<1> USE NoneFacts DEF IInv, SockDrain, Handling, ManagerRuns, Finish, Goto, Enter,
    Invoke, AtCall, loopVars, objectVars, managerVars, lwipVars
<1>1. ControlInv'
  BY DEF TypeOK, ControlInv, isOpen
<1>2. CallInv'
  BY DEF TypeOK, CallInv, SocketInv, HandlerInv, DnsInv, Engaged, Quiet, ControlInv,
     isOpen
<1>3. SocketInv'
  BY DEF TypeOK, SocketInv, CallInv, HandlerInv, Quiet, ControlInv, isOpen
<1>4. HandlerInv'
  BY DEF TypeOK, HandlerInv, CallInv, SocketInv, DnsInv, Engaged, Quiet, Unanswered,
     ControlInv, isOpen
<1>5. DnsInv'
  BY DEF TypeOK, DnsInv, CallInv, HandlerInv, Engaged, Unanswered, Quiet, SocketInv,
     ControlInv, isOpen
<1>6. AliveInv'
  BY DEF TypeOK, AliveInv, CallInv, DnsInv, HandlerInv, Engaged, ControlInv, isOpen
<1> QED
  BY <1>1, <1>2, <1>3, <1>4, <1>5, <1>6

\* SENT is run.
LEMMA NotifySentStep ==
  ASSUME TypeOK, IInv, NotifySent
  PROVE  IInv'
<1> USE NoneFacts DEF IInv, NotifySent, Handling, ManagerRuns, Finish, Goto, Enter,
    Invoke, AtCall, loopVars, objectVars, managerVars, lwipVars
<1>1. ControlInv'
  BY DEF TypeOK, ControlInv, isOpen
<1>2. CallInv'
  BY DEF TypeOK, CallInv, SocketInv, HandlerInv, DnsInv, Engaged, Quiet, ControlInv,
     isOpen
<1>3. SocketInv'
  BY DEF TypeOK, SocketInv, CallInv, HandlerInv, Quiet, ControlInv, isOpen
<1>4. HandlerInv'
  BY DEF TypeOK, HandlerInv, CallInv, SocketInv, DnsInv, Engaged, Quiet, Unanswered,
     ControlInv, isOpen
<1>5. DnsInv'
  BY DEF TypeOK, DnsInv, CallInv, HandlerInv, Engaged, Unanswered, Quiet, SocketInv,
     ControlInv, isOpen
<1>6. AliveInv'
  BY DEF TypeOK, AliveInv, CallInv, DnsInv, HandlerInv, Engaged, ControlInv, isOpen
<1> QED
  BY <1>1, <1>2, <1>3, <1>4, <1>5, <1>6

\* All buffers are reported.
LEMMA NotifyEndStep ==
  ASSUME TypeOK, IInv, NotifyEnd
  PROVE  IInv'
<1> USE NoneFacts DEF IInv, NotifyEnd, Handling, ManagerRuns, Finish, Goto, Enter,
    Invoke, AtCall, loopVars, objectVars, managerVars, lwipVars
<1>1. ControlInv'
  BY DEF TypeOK, ControlInv, isOpen
<1>2. CallInv'
  BY DEF TypeOK, CallInv, SocketInv, HandlerInv, DnsInv, Engaged, Quiet, ControlInv,
     isOpen
<1>3. SocketInv'
  BY DEF TypeOK, SocketInv, CallInv, HandlerInv, Quiet, ControlInv, isOpen
<1>4. HandlerInv'
  BY DEF TypeOK, HandlerInv, CallInv, SocketInv, DnsInv, Engaged, Quiet, Unanswered,
     ControlInv, isOpen
<1>5. DnsInv'
  BY DEF TypeOK, DnsInv, CallInv, HandlerInv, Engaged, Unanswered, Quiet, SocketInv,
     ControlInv, isOpen
<1>6. AliveInv'
  BY DEF TypeOK, AliveInv, CallInv, DnsInv, HandlerInv, Engaged, ControlInv, isOpen
<1> QED
  BY <1>1, <1>2, <1>3, <1>4, <1>5, <1>6

\* Data, the end of the stream, or an error.
LEMMA SockIsReadableStep ==
  ASSUME TypeOK, IInv, SockIsReadable
  PROVE  IInv'
<1> USE NoneFacts DEF IInv, SockIsReadable, Handling, ManagerRuns, Finish, Goto, Enter,
    Invoke, AtCall, loopVars, objectVars, managerVars, lwipVars
<1>1. ControlInv'
  BY DEF TypeOK, ControlInv, isOpen
<1>2. CallInv'
  BY DEF TypeOK, CallInv, SocketInv, HandlerInv, DnsInv, Engaged, Quiet, ControlInv,
     isOpen
<1>3. SocketInv'
  BY DEF TypeOK, SocketInv, CallInv, HandlerInv, Quiet, ControlInv, isOpen
<1>4. HandlerInv'
  BY DEF TypeOK, HandlerInv, CallInv, SocketInv, DnsInv, Engaged, Quiet, Unanswered,
     ControlInv, isOpen
<1>5. DnsInv'
  BY DEF TypeOK, DnsInv, CallInv, HandlerInv, Engaged, Unanswered, Quiet, SocketInv,
     ControlInv, isOpen
<1>6. AliveInv'
  BY DEF TypeOK, AliveInv, CallInv, DnsInv, HandlerInv, Engaged, ControlInv, isOpen
<1> QED
  BY <1>1, <1>2, <1>3, <1>4, <1>5, <1>6

\* The answer is taken.
LEMMA DnsResetStep ==
  ASSUME TypeOK, IInv, DnsReset
  PROVE  IInv'
<1> USE NoneFacts DEF IInv, DnsReset, Handling, ManagerRuns, Finish, Goto, Enter,
    Invoke, AtCall, loopVars, objectVars, managerVars, lwipVars
<1>1. ControlInv'
  BY DEF TypeOK, ControlInv, isOpen
<1>2. CallInv'
  BY DEF TypeOK, CallInv, SocketInv, HandlerInv, DnsInv, Engaged, Quiet, ControlInv,
     isOpen
<1>3. SocketInv'
  BY DEF TypeOK, SocketInv, CallInv, HandlerInv, Quiet, ControlInv, isOpen
<1>4. HandlerInv'
  BY DEF TypeOK, HandlerInv, CallInv, SocketInv, DnsInv, Engaged, Quiet, Unanswered,
     ControlInv, isOpen
<1>5. DnsInv'
  BY DEF TypeOK, DnsInv, CallInv, HandlerInv, Engaged, Unanswered, Quiet, SocketInv,
     ControlInv, isOpen
<1>6. AliveInv'
  BY DEF TypeOK, AliveInv, CallInv, DnsInv, HandlerInv, Engaged, ControlInv, isOpen
<1> QED
  BY <1>1, <1>2, <1>3, <1>4, <1>5, <1>6

\* The delayed connect() starts, or ERROR is run.
LEMMA SockDelayedConnectStep ==
  ASSUME TypeOK, IInv, SockDelayedConnect
  PROVE  IInv'
<1> USE NoneFacts DEF IInv, SockDelayedConnect, Handling, ManagerRuns, Finish, Goto,
    Enter, Invoke, AtCall, loopVars, objectVars, managerVars, lwipVars
<1>1. ControlInv'
  BY DEF TypeOK, ControlInv, isOpen
<1>2. CallInv'
  BY DEF TypeOK, CallInv, SocketInv, HandlerInv, DnsInv, Engaged, Quiet, ControlInv,
     isOpen
<1>3. SocketInv'
  BY DEF TypeOK, SocketInv, CallInv, HandlerInv, Quiet, ControlInv, isOpen
<1>4. HandlerInv'
  BY DEF TypeOK, HandlerInv, CallInv, SocketInv, DnsInv, Engaged, Quiet, Unanswered,
     ControlInv, isOpen
<1>5. DnsInv'
  BY DEF TypeOK, DnsInv, CallInv, HandlerInv, Engaged, Unanswered, Quiet, SocketInv,
     ControlInv, isOpen
<1>6. AliveInv'
  BY DEF TypeOK, AliveInv, CallInv, DnsInv, HandlerInv, Engaged, ControlInv, isOpen
<1> QED
  BY <1>1, <1>2, <1>3, <1>4, <1>5, <1>6

\* _sockPoll() cleans the write queue up.
LEMMA SockPollStep ==
  ASSUME TypeOK, IInv, SockPoll
  PROVE  IInv'
<1> USE NoneFacts DEF IInv, SockPoll, Handling, ManagerRuns, Finish, Goto, Enter,
    Invoke, AtCall, loopVars, objectVars, managerVars, lwipVars
<1>1. ControlInv'
  BY DEF TypeOK, ControlInv, isOpen
<1>2. CallInv'
  BY DEF TypeOK, CallInv, SocketInv, HandlerInv, DnsInv, Engaged, Quiet, ControlInv,
     isOpen
<1>3. SocketInv'
  BY DEF TypeOK, SocketInv, CallInv, HandlerInv, Quiet, ControlInv, isOpen
<1>4. HandlerInv'
  BY DEF TypeOK, HandlerInv, CallInv, SocketInv, DnsInv, Engaged, Quiet, Unanswered,
     ControlInv, isOpen
<1>5. DnsInv'
  BY DEF TypeOK, DnsInv, CallInv, HandlerInv, Engaged, Unanswered, Quiet, SocketInv,
     ControlInv, isOpen
<1>6. AliveInv'
  BY DEF TypeOK, AliveInv, CallInv, DnsInv, HandlerInv, Engaged, ControlInv, isOpen
<1> QED
  BY <1>1, <1>2, <1>3, <1>4, <1>5, <1>6

\* _sockPoll() tests the timeouts.
LEMMA PollTimeoutsStep ==
  ASSUME TypeOK, IInv, PollTimeouts
  PROVE  IInv'
<1> USE NoneFacts DEF IInv, PollTimeouts, Handling, ManagerRuns, Finish, Goto, Enter,
    Invoke, AtCall, loopVars, objectVars, managerVars, lwipVars
<1>1. ControlInv'
  BY DEF TypeOK, ControlInv, isOpen
<1>2. CallInv'
  BY DEF TypeOK, CallInv, SocketInv, HandlerInv, DnsInv, Engaged, Quiet, ControlInv,
     isOpen
<1>3. SocketInv'
  BY DEF TypeOK, SocketInv, CallInv, HandlerInv, Quiet, ControlInv, isOpen
<1>4. HandlerInv'
  BY DEF TypeOK, HandlerInv, CallInv, SocketInv, DnsInv, Engaged, Quiet, Unanswered,
     ControlInv, isOpen
<1>5. DnsInv'
  BY DEF TypeOK, DnsInv, CallInv, HandlerInv, Engaged, Unanswered, Quiet, SocketInv,
     ControlInv, isOpen
<1>6. AliveInv'
  BY DEF TypeOK, AliveInv, CallInv, DnsInv, HandlerInv, Engaged, ControlInv, isOpen
<1> QED
  BY <1>1, <1>2, <1>3, <1>4, <1>5, <1>6

\* A client that was closed is found.
LEMMA ProcessingDoneStep ==
  ASSUME TypeOK, IInv, ProcessingDone
  PROVE  IInv'
<1> USE NoneFacts DEF IInv, ProcessingDone, Handling, ManagerRuns, Finish, Goto, Enter,
    Invoke, AtCall, loopVars, objectVars, managerVars, lwipVars
<1>1. ControlInv'
  BY DEF TypeOK, ControlInv, isOpen
<1>2. CallInv'
  BY DEF TypeOK, CallInv, SocketInv, HandlerInv, DnsInv, Engaged, Quiet, ControlInv,
     isOpen
<1>3. SocketInv'
  BY DEF TypeOK, SocketInv, CallInv, HandlerInv, Quiet, ControlInv, isOpen
<1>4. HandlerInv'
  BY DEF TypeOK, HandlerInv, CallInv, SocketInv, DnsInv, Engaged, Quiet, Unanswered,
     ControlInv, isOpen
<1>5. DnsInv'
  BY DEF TypeOK, DnsInv, CallInv, HandlerInv, Engaged, Unanswered, Quiet, SocketInv,
     ControlInv, isOpen
<1>6. AliveInv'
  BY DEF TypeOK, AliveInv, CallInv, DnsInv, HandlerInv, Engaged, ControlInv, isOpen
<1> QED
  BY <1>1, <1>2, <1>3, <1>4, <1>5, <1>6

\* The client becomes DISCONNECTED, and DISCONNECT is run.
LEMMA FireDisconnectStep ==
  ASSUME TypeOK, IInv, FireDisconnect
  PROVE  IInv'
<1> USE NoneFacts DEF IInv, FireDisconnect, Handling, ManagerRuns, Finish, Goto, Enter,
    Invoke, AtCall, loopVars, objectVars, managerVars, lwipVars
<1>1. ControlInv'
  BY DEF TypeOK, ControlInv, isOpen
<1>2. CallInv'
  BY DEF TypeOK, CallInv, SocketInv, HandlerInv, DnsInv, Engaged, Quiet, ControlInv,
     isOpen
<1>3. SocketInv'
  BY DEF TypeOK, SocketInv, CallInv, HandlerInv, Quiet, ControlInv, isOpen
<1>4. HandlerInv'
  BY DEF TypeOK, HandlerInv, CallInv, SocketInv, DnsInv, Engaged, Quiet, Unanswered,
     ControlInv, isOpen
<1>5. DnsInv'
  BY DEF TypeOK, DnsInv, CallInv, HandlerInv, Engaged, Unanswered, Quiet, SocketInv,
     ControlInv, isOpen
<1>6. AliveInv'
  BY DEF TypeOK, AliveInv, CallInv, DnsInv, HandlerInv, Engaged, ControlInv, isOpen
<1> QED
  BY <1>1, <1>2, <1>3, <1>4, <1>5, <1>6

\* A callback returns.
LEMMA CallbackReturnStep ==
  ASSUME TypeOK, IInv, CallbackReturn
  PROVE  IInv'
<1> USE NoneFacts DEF IInv, loopVars, AtCall, objectVars, managerVars, lwipVars
<1>0. /\ callback' = None /\ callback # None
      /\ \/ callback = "CONNECT" /\ step' = "drain" /\ cur' = cur /\ call' = call
         \/ callback = "SENT" /\ step' = "notify" /\ cur' = cur /\ call' = call
         \/ /\ callback = "ERROR" /\ step' = "none" /\ cur' = None
            /\ call' = [call EXCEPT ![Mgr] = AtCall("close", cur)]
         \/ /\ callback \notin {"CONNECT", "SENT", "ERROR"}
            /\ step' = "none" /\ cur' = None /\ call' = call
      /\ call[Mgr].step = "none" /\ UNCHANGED <<objectVars, loopVars, lwipVars, view>>
  BY DEF CallbackReturn
<1>1. ControlInv'
  BY <1>0 DEF TypeOK, ControlInv, isOpen
<1>2. CallInv'
  BY <1>0 DEF TypeOK, CallInv, SocketInv, HandlerInv, DnsInv, Engaged, Quiet,
     ControlInv, isOpen
<1>3. SocketInv'
  BY <1>0 DEF TypeOK, SocketInv, CallInv, HandlerInv, Quiet, ControlInv, isOpen
<1>4. HandlerInv'
  BY <1>0 DEF TypeOK, HandlerInv, CallInv, SocketInv, DnsInv, Engaged, Quiet,
     Unanswered, ControlInv, isOpen
<1>5. DnsInv'
  BY <1>0 DEF TypeOK, DnsInv, CallInv, HandlerInv, Engaged, Unanswered, Quiet,
     SocketInv, ControlInv, isOpen
<1>6. AliveInv'
  BY <1>0 DEF TypeOK, AliveInv, CallInv, DnsInv, HandlerInv, Engaged, ControlInv, isOpen
<1> QED
  BY <1>1, <1>2, <1>3, <1>4, <1>5, <1>6

\* A server makes a client for a connection it accepts.
LEMMA SockAcceptStep ==
  ASSUME TypeOK, IInv, NEW c \in Clients, SockAccept(c)
  PROVE  IInv'
<1> USE NoneFacts DEF IInv, SockAccept, ManagerRuns, loopVars, objectVars, managerVars,
    lwipVars
<1>1. ControlInv'
  BY DEF TypeOK, ControlInv, isOpen, AliveInv
<1>2. CallInv'
  BY DEF TypeOK, CallInv, SocketInv, HandlerInv, DnsInv, Engaged, Quiet, ControlInv,
     isOpen, AliveInv
<1>3. SocketInv'
  BY DEF TypeOK, SocketInv, CallInv, HandlerInv, Quiet, ControlInv, isOpen, AliveInv
<1>4. HandlerInv'
  BY DEF TypeOK, HandlerInv, CallInv, SocketInv, DnsInv, Engaged, Quiet, Unanswered,
     ControlInv, isOpen, AliveInv
<1>5. DnsInv'
  BY DEF TypeOK, DnsInv, CallInv, HandlerInv, Engaged, Unanswered, Quiet, SocketInv,
     ControlInv, isOpen, AliveInv
<1>6. AliveInv'
  BY DEF TypeOK, AliveInv, CallInv, DnsInv, HandlerInv, Engaged, ControlInv, isOpen
<1> QED
  BY <1>1, <1>2, <1>3, <1>4, <1>5, <1>6

\* The peer closes or resets the connection.
LEMMA PeerLeavesStep ==
  ASSUME TypeOK, IInv, NEW f \in Fds, PeerLeaves(f)
  PROVE  IInv'
<1> USE NoneFacts DEF IInv, PeerLeaves, objectVars, managerVars, lwipVars
<1>1. ControlInv'
  BY DEF TypeOK, ControlInv, isOpen
<1>2. CallInv'
  BY DEF TypeOK, CallInv, SocketInv, HandlerInv, DnsInv, Engaged, Quiet, ControlInv,
     isOpen
<1>3. SocketInv'
  BY DEF TypeOK, SocketInv, CallInv, HandlerInv, Quiet, ControlInv, isOpen
<1>4. HandlerInv'
  BY DEF TypeOK, HandlerInv, CallInv, SocketInv, DnsInv, Engaged, Quiet, Unanswered,
     ControlInv, isOpen
<1>5. DnsInv'
  BY DEF TypeOK, DnsInv, CallInv, HandlerInv, Engaged, Unanswered, Quiet, SocketInv,
     ControlInv, isOpen
<1>6. AliveInv'
  BY DEF TypeOK, AliveInv, CallInv, DnsInv, HandlerInv, Engaged, ControlInv, isOpen
<1> QED
  BY <1>1, <1>2, <1>3, <1>4, <1>5, <1>6

\* The invariant is preserved by every step of a polite user, the manager task
\* and lwIP.
LEMMA InvStep ==
  ASSUME PoliteUse, TypeOK, IInv, [Next]_vars
  PROVE  IInv'
<1>1. ASSUME NEW t \in Threads, NEW c \in Clients, UserCall(t, c) PROVE IInv'
  BY <1>1, UserConnectStep, UserConnectHostStep, UserCloseStep, UserDeleteStep DEF UserCall
<1>2. ASSUME NEW t \in Threads, CallProgress(t) PROVE IInv'
  BY <1>2, ConnectOpenStep, ConnectSocketStep, ConnectDialStep, ConnectFailsStep, ConnectStateStep,
     ConfigureSocketStep, ConnectAwaitStep, CloseStateStep, CloseExchangeStep, CloseFdStep
     DEF CallProgress
<1>3. CASE ManagerProgress
  BY <1>3, SelectStep, SelectFailsStep, CollectStep, DispatchStep, SockIsWriteableStep,
     SockConnectedStep, SockDrainStep, NotifySentStep, NotifyEndStep, SockIsReadableStep,
     DnsResetStep, SockDelayedConnectStep, SockPollStep, PollTimeoutsStep,
     ProcessingDoneStep, FireDisconnectStep, CallbackReturnStep DEF ManagerProgress
<1>4. CASE DnsProgress
  BY <1>4, DnsFinishedStep, DnsFoundStep DEF DnsProgress
<1>5. ASSUME NEW f \in Fds, PeerLeaves(f) PROVE IInv'
  BY <1>5, PeerLeavesStep
<1>6. ASSUME NEW c \in Clients, SockAccept(c) PROVE IInv'
  BY <1>6, SockAcceptStep
<1>7. CASE UNCHANGED vars
  BY <1>7 DEF vars, objectVars, managerVars, lwipVars, IInv, ControlInv, CallInv, SocketInv,
     HandlerInv, DnsInv, AliveInv, Quiet, Engaged, Unanswered, isOpen
<1> QED
  BY <1>1, <1>2, <1>3, <1>4, <1>5, <1>6, <1>7 DEF Next

\* Types and invariant together hold in every state a polite user can reach.
LEMMA InvCorrect == PoliteUse /\ Spec => [](TypeOK /\ IInv)
<1> SUFFICES ASSUME PoliteUse PROVE Spec => [](TypeOK /\ IInv)
  OBVIOUS
<1>1. TypeOK /\ IInv /\ [Next]_vars => IInv'
  BY InvStep
<1> QED
  BY <1>1, InvInit, LifecycleTypeCorrect, PTL DEF Spec

-----------------------------------------------------------------------------
(* What the invariant says *)

\* For a polite user the state of a client and its socket agree whenever no
\* call on the client is in progress: nobody overwrites DISCONNECTING, and no
\* client stays CONNECTED without a socket.
THEOREM SocketCorrect == PoliteUse /\ Spec => []StateMatchesSocket
<1>1. TypeOK /\ IInv => StateMatchesSocket
  BY DEF TypeOK, IInv, SocketInv, Quiet, StateMatchesSocket
<1> QED
  BY <1>1, InvCorrect, PTL
=============================================================================
