--------------------------- MODULE ProtocolProofs ---------------------------
(***************************************************************************)
(* Lifecycle implements CallbackProtocol for a polite user: for one client *)
(* as the library is, and for any number of clients if no socket is opened *)
(* under a number that select() has just reported as readable.             *)
(***************************************************************************)
EXTENDS LifecycleProofs

\* A program with a single client.
OneClient == \A c, d \in Clients : c = d

\* Between select() and the end of the write block, connect() publishes no
\* descriptor that select() found readable: lwIP does not give the number of
\* a connection out again before the round that knew it has read from it.
FreshSocket ==
  \A c \in Clients :
    phase \in {"select", "write"} /\ socket'[c] # socket[c] => socket'[c] \notin rset

-----------------------------------------------------------------------------
(* The invariant *)

\* The user has been told of an error, and the socket is about to be closed.
Failing(c) ==
  \/ cur = c /\ callback = "ERROR"
  \/ call[Mgr].step = "close" /\ call[Mgr].client = c

\* The user's view of a client agrees with its state.
ViewInv ==
  /\ \A c \in Clients : ~Failing(c) =>
       /\ state[c] \in {"DISCONNECTED", "WAITING_FOR_DNS", "CONNECTING"} => view[c] = "down"
       /\ state[c] = "CONNECTED" => view[c] = "up"
  /\ step = "notify" \/ callback = "SENT" => view[cur] = "up"

\* The handler of the client is still to run in this block.
Pending(c) == c \in todo \/ (cur = c /\ step = "start")

\* A client that is CONNECTING when its socket is found readable is found
\* writeable as well, so that it is CONNECTED when it is read from.
ReadableInv ==
  \A c \in Clients : isOpen(c) /\ socket[c] \in rset /\ state[c] = "CONNECTING" =>
    /\ phase = "select" => socket[c] \in wset
    /\ phase = "write" => Pending(c) \/ Failing(c) \/ (cur = c /\ step = "promote")

\* The socket handlers run for clients whose user has not seen an error, and
\* _sockIsReadable() for clients whose user has seen CONNECT.
PendingInv ==
  \A c \in Clients : Pending(c) =>
    /\ phase = "write" => view[c] # "failed"
    /\ phase = "read" => view[c] = "up"

ReportInv == ViewInv /\ ReadableInv /\ PendingInv

\* With one client, a socket found readable stays with the client until it is
\* closed, and the client is then reported before it is connected again.
SingleInv ==
  \A c \in Clients : phase \in {"select", "write"} /\ rset # {} =>
    isOpen(c) \/ state[c] = "DISCONNECTING"

-----------------------------------------------------------------------------
(* The invariant is preserved by every step *)

\* The user hears of a change before, or together with, the change.
LEMMA ViewStep ==
  ASSUME PoliteUse, TypeOK, IInv, ViewInv, PendingInv, [Next]_vars
  PROVE  ViewInv'
<1> USE NoneFacts DEF TypeOK, objectVars, managerVars, lwipVars, loopVars, IInv,
    ViewInv, Failing, ControlInv, CallInv
<1>1. ASSUME NEW t \in Threads, NEW c \in Clients, UserConnect(t, c) PROVE ViewInv'
  BY <1>1 DEF UserConnect, MayCall, Idle, AtCall, HandlerInv, PoliteUse, Engaged, Quiet
<1>2. ASSUME NEW t \in Threads, ConnectOpen(t) PROVE ViewInv'
  BY <1>2 DEF ConnectOpen, AtCall, NoCall, HandlerInv, PoliteUse, Engaged, Quiet
<1>3. ASSUME NEW t \in Threads, ConnectSocket(t) PROVE ViewInv'
  BY <1>3 DEF ConnectSocket, NoCall, HandlerInv, PoliteUse, Engaged, Quiet
<1>4. ASSUME NEW t \in Threads, ConnectDial(t) PROVE ViewInv'
  BY <1>4 DEF ConnectDial, HandlerInv, PoliteUse, Engaged, Quiet
<1>5. ASSUME NEW t \in Threads, ConnectFails(t) PROVE ViewInv'
  BY <1>5 DEF ConnectFails, NoCall, HandlerInv, PoliteUse, Engaged, Quiet
<1>6. ASSUME NEW t \in Threads, ConnectState(t) PROVE ViewInv'
  BY <1>6 DEF ConnectState, HandlerInv, PoliteUse, Engaged, Quiet
<1>7. ASSUME NEW t \in Threads, ConfigureSocket(t) PROVE ViewInv'
  BY <1>7 DEF ConfigureSocket, NoCall, HandlerInv, PoliteUse, Engaged, Quiet
<1>8. ASSUME NEW t \in Threads, NEW c \in Clients, UserConnectHost(t, c) PROVE ViewInv'
  BY <1>8 DEF UserConnectHost, MayCall, Idle, AtCall, HandlerInv, PoliteUse, Engaged,
     Quiet
<1>9. ASSUME NEW t \in Threads, ConnectAwait(t) PROVE ViewInv'
  BY <1>9 DEF ConnectAwait, NoCall, HandlerInv, PoliteUse, Engaged, Quiet
<1>10. ASSUME NEW c \in Clients, DnsFound(c) PROVE ViewInv'
  BY <1>10 DEF DnsFound, HandlerInv, PoliteUse, Engaged, Quiet
<1>11. CASE DnsFinished
  BY <1>11 DEF DnsFinished, HandlerInv, PoliteUse, Engaged, Quiet
<1>12. ASSUME NEW t \in Threads, NEW c \in Clients, UserClose(t, c) PROVE ViewInv'
  BY <1>12 DEF UserClose, MayCall, AtCall, HandlerInv, PoliteUse, Engaged, Quiet
<1>13. ASSUME NEW t \in Threads, CloseState(t) PROVE ViewInv'
  BY <1>13 DEF CloseState, HandlerInv, PoliteUse, Engaged, Quiet
<1>14. ASSUME NEW t \in Threads, CloseExchange(t) PROVE ViewInv'
  BY <1>14 DEF CloseExchange, HandlerInv, PoliteUse, Engaged, Quiet
<1>15. ASSUME NEW t \in Threads, CloseFd(t) PROVE ViewInv'
  BY <1>15 DEF CloseFd, NoCall, HandlerInv, PoliteUse, Engaged, Quiet
<1>16. ASSUME NEW t \in Threads, NEW c \in Clients, UserDelete(t, c) PROVE ViewInv'
  BY <1>16 DEF UserDelete, MayDelete, MayCall, Idle, AtCall, removeConnection,
     HandlerInv, PoliteUse, Engaged, Quiet
<1>17. CASE Select
  BY <1>17 DEF Select, ManagerRuns, HandlerInv, PoliteUse, Engaged, Quiet
<1>18. CASE SelectFails
  BY <1>18 DEF SelectFails, ManagerRuns, HandlerInv, PoliteUse, Engaged, Quiet
<1>19. CASE Collect
  BY <1>19 DEF Collect, ManagerRuns, NextPhase, iterateClients, HandlerInv, PoliteUse,
     Engaged, Quiet
<1>20. CASE Dispatch
  BY <1>20 DEF Dispatch, ManagerRuns, HandlerInv, PoliteUse, Engaged, Quiet
<1>21. CASE SockIsWriteable
  BY <1>21 DEF SockIsWriteable, Handling, ManagerRuns, Finish, Goto, Enter, Invoke,
     AtCall, HandlerInv, PoliteUse, Engaged, Quiet
<1>22. CASE SockConnected
  BY <1>22 DEF SockConnected, Handling, ManagerRuns, Finish, Goto, Enter, Invoke,
     AtCall, HandlerInv, PoliteUse, Engaged, Quiet
<1>23. CASE SockDrain
  BY <1>23 DEF SockDrain, Handling, ManagerRuns, Finish, Goto, Enter, Invoke, AtCall,
     HandlerInv, PoliteUse, Engaged, Quiet
<1>24. CASE NotifySent
  BY <1>24 DEF NotifySent, Handling, ManagerRuns, Finish, Goto, Enter, Invoke, AtCall,
     HandlerInv, PoliteUse, Engaged, Quiet
<1>25. CASE NotifyEnd
  BY <1>25 DEF NotifyEnd, Handling, ManagerRuns, Finish, Goto, Enter, Invoke, AtCall,
     HandlerInv, PoliteUse, Engaged, Quiet
<1>26. CASE SockIsReadable
  BY <1>26 DEF SockIsReadable, Handling, ManagerRuns, Finish, Goto, Enter, Invoke,
     AtCall, HandlerInv, PoliteUse, Engaged, Quiet
<1>27. CASE DnsReset
  BY <1>27 DEF DnsReset, Handling, ManagerRuns, Finish, Goto, Enter, Invoke, AtCall,
     HandlerInv, PoliteUse, Engaged, Quiet
<1>28. CASE SockDelayedConnect
  BY <1>28 DEF SockDelayedConnect, Handling, ManagerRuns, Finish, Goto, Enter, Invoke,
     AtCall, HandlerInv, PoliteUse, Engaged, Quiet
<1>29. CASE SockPoll
  BY <1>29 DEF SockPoll, Handling, ManagerRuns, Finish, Goto, Enter, Invoke, AtCall,
     HandlerInv, PoliteUse, Engaged, Quiet
<1>30. CASE PollTimeouts
  BY <1>30 DEF PollTimeouts, Handling, ManagerRuns, Finish, Goto, Enter, Invoke, AtCall,
     HandlerInv, PoliteUse, Engaged, Quiet
<1>31. CASE ProcessingDone
  BY <1>31 DEF ProcessingDone, Handling, ManagerRuns, Finish, Goto, Enter, Invoke,
     AtCall, HandlerInv, PoliteUse, Engaged, Quiet
<1>32. CASE FireDisconnect
  BY <1>32 DEF FireDisconnect, Handling, ManagerRuns, Finish, Goto, Enter, Invoke,
     AtCall, HandlerInv, PoliteUse, Engaged, Quiet
<1>33. CASE CallbackReturn
  BY <1>33 DEF CallbackReturn, AtCall, HandlerInv, PoliteUse, Engaged, Quiet
<1>34. ASSUME NEW c \in Clients, SockAccept(c) PROVE ViewInv'
  BY <1>34 DEF SockAccept, ManagerRuns, loopVars, HandlerInv, PoliteUse, Engaged, Quiet
<1>35. ASSUME NEW f \in Fds, PeerLeaves(f) PROVE ViewInv'
  BY <1>35 DEF PeerLeaves, HandlerInv, PoliteUse, Engaged, Quiet
<1>36. CASE UNCHANGED vars
  BY <1>36 DEF vars
<1> QED
  BY <1>1, <1>2, <1>3, <1>4, <1>5, <1>6, <1>7, <1>8, <1>9, <1>10, <1>11, <1>12, <1>13,
     <1>14, <1>15, <1>16, <1>17, <1>18, <1>19, <1>20, <1>21, <1>22, <1>23, <1>24, <1>25,
     <1>26, <1>27, <1>28, <1>29, <1>30, <1>31, <1>32, <1>33, <1>34, <1>35, <1>36 DEF
     Next, UserCall, CallProgress, ManagerProgress, DnsProgress

\* A client is handled once in a block, so that ERROR is the last callback before
\* DISCONNECT.
LEMMA PendingStep ==
  ASSUME PoliteUse, TypeOK, IInv, ReportInv, [Next]_vars
  PROVE  PendingInv'
<1> USE NoneFacts DEF TypeOK, objectVars, managerVars, lwipVars, loopVars, IInv,
    ReportInv, PendingInv, Pending, ControlInv
<1>1. ASSUME NEW t \in Threads, NEW c \in Clients, UserConnect(t, c) PROVE PendingInv'
  BY <1>1 DEF UserConnect, MayCall, Idle, AtCall, CallInv, ViewInv, Failing, HandlerInv,
     SocketInv, ReadableInv, isOpen, Quiet
<1>2. ASSUME NEW t \in Threads, ConnectOpen(t) PROVE PendingInv'
  BY <1>2 DEF ConnectOpen, AtCall, NoCall, CallInv, ViewInv, Failing, HandlerInv,
     SocketInv, ReadableInv, isOpen, Quiet
<1>3. ASSUME NEW t \in Threads, ConnectSocket(t) PROVE PendingInv'
  BY <1>3 DEF ConnectSocket, NoCall, CallInv, ViewInv, Failing, HandlerInv, SocketInv,
     ReadableInv, isOpen, Quiet
<1>4. ASSUME NEW t \in Threads, ConnectDial(t) PROVE PendingInv'
  BY <1>4 DEF ConnectDial, CallInv, ViewInv, Failing, HandlerInv, SocketInv,
     ReadableInv, isOpen, Quiet
<1>5. ASSUME NEW t \in Threads, ConnectFails(t) PROVE PendingInv'
  BY <1>5 DEF ConnectFails, NoCall, CallInv, ViewInv, Failing, HandlerInv, SocketInv,
     ReadableInv, isOpen, Quiet
<1>6. ASSUME NEW t \in Threads, ConnectState(t) PROVE PendingInv'
  BY <1>6 DEF ConnectState, CallInv, ViewInv, Failing, HandlerInv, SocketInv,
     ReadableInv, isOpen, Quiet
<1>7. ASSUME NEW t \in Threads, ConfigureSocket(t) PROVE PendingInv'
  BY <1>7 DEF ConfigureSocket, NoCall, CallInv, ViewInv, Failing, HandlerInv, SocketInv,
     ReadableInv, isOpen, Quiet
<1>8. ASSUME NEW t \in Threads, NEW c \in Clients, UserConnectHost(t, c) PROVE PendingInv'
  BY <1>8 DEF UserConnectHost, MayCall, Idle, AtCall, CallInv, ViewInv, Failing,
     HandlerInv, SocketInv, ReadableInv, isOpen, Quiet
<1>9. ASSUME NEW t \in Threads, ConnectAwait(t) PROVE PendingInv'
  BY <1>9 DEF ConnectAwait, NoCall, CallInv, ViewInv, Failing, HandlerInv, SocketInv,
     ReadableInv, isOpen, Quiet
<1>10. ASSUME NEW c \in Clients, DnsFound(c) PROVE PendingInv'
  BY <1>10 DEF DnsFound, CallInv, ViewInv, Failing, HandlerInv, SocketInv, ReadableInv,
     isOpen, Quiet
<1>11. CASE DnsFinished
  BY <1>11 DEF DnsFinished, CallInv, ViewInv, Failing, HandlerInv, SocketInv,
     ReadableInv, isOpen, Quiet
<1>12. ASSUME NEW t \in Threads, NEW c \in Clients, UserClose(t, c) PROVE PendingInv'
  BY <1>12 DEF UserClose, MayCall, AtCall, CallInv, ViewInv, Failing, HandlerInv,
     SocketInv, ReadableInv, isOpen, Quiet
<1>13. ASSUME NEW t \in Threads, CloseState(t) PROVE PendingInv'
  BY <1>13 DEF CloseState, CallInv, ViewInv, Failing, HandlerInv, SocketInv,
     ReadableInv, isOpen, Quiet
<1>14. ASSUME NEW t \in Threads, CloseExchange(t) PROVE PendingInv'
  BY <1>14 DEF CloseExchange, CallInv, ViewInv, Failing, HandlerInv, SocketInv,
     ReadableInv, isOpen, Quiet
<1>15. ASSUME NEW t \in Threads, CloseFd(t) PROVE PendingInv'
  BY <1>15 DEF CloseFd, NoCall, CallInv, ViewInv, Failing, HandlerInv, SocketInv,
     ReadableInv, isOpen, Quiet
<1>16. ASSUME NEW t \in Threads, NEW c \in Clients, UserDelete(t, c) PROVE PendingInv'
  BY <1>16 DEF UserDelete, MayDelete, MayCall, Idle, AtCall, removeConnection, CallInv,
     ViewInv, Failing, HandlerInv, SocketInv, ReadableInv, isOpen, Quiet
<1>17. CASE Select
  BY <1>17 DEF Select, ManagerRuns, CallInv, ViewInv, Failing, HandlerInv, SocketInv,
     ReadableInv, isOpen, Quiet
<1>18. CASE SelectFails
  BY <1>18 DEF SelectFails, ManagerRuns, CallInv, ViewInv, Failing, HandlerInv,
     SocketInv, ReadableInv, isOpen, Quiet
<1>19. CASE Collect
  <2>1. ASSUME NEW c \in Clients, isOpen(c), callback = None, call[Mgr].step = "none"
        PROVE  /\ state[c] \in {"CONNECTING", "CONNECTED"} /\ ~Failing(c)
               /\ view[c] = IF state[c] = "CONNECTED" THEN "up" ELSE "down"
    <3>1. Quiet(c)
      BY <2>1 DEF CallInv, Quiet, CallStep, isOpen
    <3> QED
      BY <2>1, <3>1 DEF SocketInv, ViewInv, Failing
  <2>2. /\ callback = None /\ call[Mgr].step = "none" /\ cur = None /\ step = "none"
        /\ cur' = None /\ view' = view
    BY <1>19, CollectBlocks DEF ManagerRuns
  <2>3. CASE phase' = "write"
    <3>1. todo' = managed \cap {c \in Clients : socket[c] \in wset}
      BY <1>19, <2>3, CollectBlocks
    <3> QED
      BY <2>1, <2>2, <2>3, <3>1 DEF isOpen
  <2>4. CASE phase' = "read"
    <3>1. phase = "write" /\ todo = {}
          /\ todo' = managed \cap {c \in Clients : socket[c] \in rset}
      BY <1>19, <2>4, CollectBlocks
    <3>2. ASSUME NEW c \in todo' PROVE view[c] = "up"
      BY <2>1, <2>2, <3>1, <3>2 DEF isOpen, ReadableInv
    <3> QED
      BY <2>2, <2>4, <3>2
  <2> QED
    BY <2>3, <2>4
<1>20. CASE Dispatch
  BY <1>20 DEF Dispatch, ManagerRuns, CallInv, ViewInv, Failing, HandlerInv, SocketInv,
     ReadableInv, isOpen, Quiet
<1>21. CASE SockIsWriteable
  BY <1>21 DEF SockIsWriteable, Handling, ManagerRuns, Finish, Goto, Enter, Invoke,
     AtCall, CallInv, ViewInv, Failing, HandlerInv, SocketInv, ReadableInv, isOpen,
     Quiet
<1>22. CASE SockConnected
  BY <1>22 DEF SockConnected, Handling, ManagerRuns, Finish, Goto, Enter, Invoke,
     AtCall, CallInv, ViewInv, Failing, HandlerInv, SocketInv, ReadableInv, isOpen,
     Quiet
<1>23. CASE SockDrain
  BY <1>23 DEF SockDrain, Handling, ManagerRuns, Finish, Goto, Enter, Invoke, AtCall,
     CallInv, ViewInv, Failing, HandlerInv, SocketInv, ReadableInv, isOpen, Quiet
<1>24. CASE NotifySent
  BY <1>24 DEF NotifySent, Handling, ManagerRuns, Finish, Goto, Enter, Invoke, AtCall,
     CallInv, ViewInv, Failing, HandlerInv, SocketInv, ReadableInv, isOpen, Quiet
<1>25. CASE NotifyEnd
  BY <1>25 DEF NotifyEnd, Handling, ManagerRuns, Finish, Goto, Enter, Invoke, AtCall,
     CallInv, ViewInv, Failing, HandlerInv, SocketInv, ReadableInv, isOpen, Quiet
<1>26. CASE SockIsReadable
  BY <1>26 DEF SockIsReadable, Handling, ManagerRuns, Finish, Goto, Enter, Invoke,
     AtCall, CallInv, ViewInv, Failing, HandlerInv, SocketInv, ReadableInv, isOpen,
     Quiet
<1>27. CASE DnsReset
  BY <1>27 DEF DnsReset, Handling, ManagerRuns, Finish, Goto, Enter, Invoke, AtCall,
     CallInv, ViewInv, Failing, HandlerInv, SocketInv, ReadableInv, isOpen, Quiet
<1>28. CASE SockDelayedConnect
  BY <1>28 DEF SockDelayedConnect, Handling, ManagerRuns, Finish, Goto, Enter, Invoke,
     AtCall, CallInv, ViewInv, Failing, HandlerInv, SocketInv, ReadableInv, isOpen,
     Quiet
<1>29. CASE SockPoll
  BY <1>29 DEF SockPoll, Handling, ManagerRuns, Finish, Goto, Enter, Invoke, AtCall,
     CallInv, ViewInv, Failing, HandlerInv, SocketInv, ReadableInv, isOpen, Quiet
<1>30. CASE PollTimeouts
  BY <1>30 DEF PollTimeouts, Handling, ManagerRuns, Finish, Goto, Enter, Invoke, AtCall,
     CallInv, ViewInv, Failing, HandlerInv, SocketInv, ReadableInv, isOpen, Quiet
<1>31. CASE ProcessingDone
  BY <1>31 DEF ProcessingDone, Handling, ManagerRuns, Finish, Goto, Enter, Invoke,
     AtCall, CallInv, ViewInv, Failing, HandlerInv, SocketInv, ReadableInv, isOpen,
     Quiet
<1>32. CASE FireDisconnect
  BY <1>32 DEF FireDisconnect, Handling, ManagerRuns, Finish, Goto, Enter, Invoke,
     AtCall, CallInv, ViewInv, Failing, HandlerInv, SocketInv, ReadableInv, isOpen,
     Quiet
<1>33. CASE CallbackReturn
  BY <1>33 DEF CallbackReturn, AtCall, CallInv, ViewInv, Failing, HandlerInv, SocketInv,
     ReadableInv, isOpen, Quiet
<1>34. ASSUME NEW c \in Clients, SockAccept(c) PROVE PendingInv'
  BY <1>34 DEF SockAccept, ManagerRuns, loopVars, CallInv, ViewInv, Failing, HandlerInv,
     SocketInv, ReadableInv, isOpen, Quiet
<1>35. ASSUME NEW f \in Fds, PeerLeaves(f) PROVE PendingInv'
  BY <1>35 DEF PeerLeaves, CallInv, ViewInv, Failing, HandlerInv, SocketInv,
     ReadableInv, isOpen, Quiet
<1>36. CASE UNCHANGED vars
  BY <1>36 DEF vars
<1> QED
  BY <1>1, <1>2, <1>3, <1>4, <1>5, <1>6, <1>7, <1>8, <1>9, <1>10, <1>11, <1>12, <1>13,
     <1>14, <1>15, <1>16, <1>17, <1>18, <1>19, <1>20, <1>21, <1>22, <1>23, <1>24, <1>25,
     <1>26, <1>27, <1>28, <1>29, <1>30, <1>31, <1>32, <1>33, <1>34, <1>35, <1>36 DEF
     Next, UserCall, CallProgress, ManagerProgress, DnsProgress

\* Only connect() could put a client that is CONNECTING under a number that was
\* readable.
LEMMA ReadableStep ==
  ASSUME PoliteUse, TypeOK, IInv, ReadableInv, [FreshSocket]_vars, [Next]_vars
  PROVE  ReadableInv'
<1> USE NoneFacts DEF TypeOK, objectVars, managerVars, lwipVars, loopVars, IInv,
    ReadableInv, Pending, Failing, ControlInv, isOpen, CallInv
<1>1. ASSUME NEW t \in Threads, NEW c \in Clients, UserConnect(t, c) PROVE ReadableInv'
  BY <1>1 DEF UserConnect, MayCall, Idle, AtCall, AliveInv
<1>2. ASSUME NEW t \in Threads, ConnectOpen(t) PROVE ReadableInv'
  BY <1>2 DEF ConnectOpen, AtCall, NoCall, AliveInv
<1>3. ASSUME NEW t \in Threads, ConnectSocket(t) PROVE ReadableInv'
  BY <1>3 DEF ConnectSocket, NoCall, AliveInv
<1>4. ASSUME NEW t \in Threads, ConnectDial(t) PROVE ReadableInv'
  BY <1>4 DEF ConnectDial, AliveInv
<1>5. ASSUME NEW t \in Threads, ConnectFails(t) PROVE ReadableInv'
  BY <1>5 DEF ConnectFails, NoCall, AliveInv
<1>6. ASSUME NEW t \in Threads, ConnectState(t) PROVE ReadableInv'
  BY <1>6 DEF ConnectState, AliveInv
<1>7. ASSUME NEW t \in Threads, ConfigureSocket(t) PROVE ReadableInv'
  <2>1. call' # call
    BY <1>7 DEF ConfigureSocket, NoCall
  <2>2. FreshSocket
    BY <2>1 DEF vars
  <2> QED
    BY <1>7, <2>2 DEF ConfigureSocket, NoCall, FreshSocket
<1>8. ASSUME NEW t \in Threads, NEW c \in Clients, UserConnectHost(t, c) PROVE ReadableInv'
  BY <1>8 DEF UserConnectHost, MayCall, Idle, AtCall, AliveInv
<1>9. ASSUME NEW t \in Threads, ConnectAwait(t) PROVE ReadableInv'
  BY <1>9 DEF ConnectAwait, NoCall, AliveInv
<1>10. ASSUME NEW c \in Clients, DnsFound(c) PROVE ReadableInv'
  BY <1>10 DEF DnsFound, AliveInv
<1>11. CASE DnsFinished
  BY <1>11 DEF DnsFinished, AliveInv
<1>12. ASSUME NEW t \in Threads, NEW c \in Clients, UserClose(t, c) PROVE ReadableInv'
  BY <1>12 DEF UserClose, MayCall, AtCall, AliveInv
<1>13. ASSUME NEW t \in Threads, CloseState(t) PROVE ReadableInv'
  BY <1>13 DEF CloseState, AliveInv
<1>14. ASSUME NEW t \in Threads, CloseExchange(t) PROVE ReadableInv'
  BY <1>14 DEF CloseExchange, AliveInv
<1>15. ASSUME NEW t \in Threads, CloseFd(t) PROVE ReadableInv'
  BY <1>15 DEF CloseFd, NoCall, AliveInv
<1>16. ASSUME NEW t \in Threads, NEW c \in Clients, UserDelete(t, c) PROVE ReadableInv'
  BY <1>16 DEF UserDelete, MayDelete, MayCall, Idle, AtCall, removeConnection, AliveInv
<1>17. CASE Select
  <2>1. ASSUME NEW c \in Clients, isOpen(c), state[c] = "CONNECTING", NEW some
        PROVE  socket[c] \in WriteSet(some)
    BY <2>1 DEF WriteSet, PendingWrite, iterateClients, AliveInv
  <2> QED
    BY <1>17, <2>1 DEF Select
<1>18. CASE SelectFails
  BY <1>18 DEF SelectFails, ManagerRuns, AliveInv
<1>19. CASE Collect
  BY <1>19, CollectBlocks DEF ManagerRuns, AliveInv
<1>20. CASE Dispatch
  BY <1>20 DEF Dispatch, ManagerRuns, AliveInv
<1>21. CASE SockIsWriteable
  BY <1>21 DEF SockIsWriteable, Handling, ManagerRuns, Finish, Goto, Enter, Invoke,
     AtCall, AliveInv
<1>22. CASE SockConnected
  BY <1>22 DEF SockConnected, Handling, ManagerRuns, Finish, Goto, Enter, Invoke,
     AtCall, AliveInv
<1>23. CASE SockDrain
  BY <1>23 DEF SockDrain, Handling, ManagerRuns, Finish, Goto, Enter, Invoke, AtCall,
     AliveInv
<1>24. CASE NotifySent
  BY <1>24 DEF NotifySent, Handling, ManagerRuns, Finish, Goto, Enter, Invoke, AtCall,
     AliveInv
<1>25. CASE NotifyEnd
  BY <1>25 DEF NotifyEnd, Handling, ManagerRuns, Finish, Goto, Enter, Invoke, AtCall,
     AliveInv
<1>26. CASE SockIsReadable
  BY <1>26 DEF SockIsReadable, Handling, ManagerRuns, Finish, Goto, Enter, Invoke,
     AtCall, AliveInv
<1>27. CASE DnsReset
  BY <1>27 DEF DnsReset, Handling, ManagerRuns, Finish, Goto, Enter, Invoke, AtCall,
     AliveInv
<1>28. CASE SockDelayedConnect
  BY <1>28 DEF SockDelayedConnect, Handling, ManagerRuns, Finish, Goto, Enter, Invoke,
     AtCall, AliveInv
<1>29. CASE SockPoll
  BY <1>29 DEF SockPoll, Handling, ManagerRuns, Finish, Goto, Enter, Invoke, AtCall,
     AliveInv
<1>30. CASE PollTimeouts
  BY <1>30 DEF PollTimeouts, Handling, ManagerRuns, Finish, Goto, Enter, Invoke, AtCall,
     AliveInv
<1>31. CASE ProcessingDone
  BY <1>31 DEF ProcessingDone, Handling, ManagerRuns, Finish, Goto, Enter, Invoke,
     AtCall, AliveInv
<1>32. CASE FireDisconnect
  BY <1>32 DEF FireDisconnect, Handling, ManagerRuns, Finish, Goto, Enter, Invoke,
     AtCall, AliveInv
<1>33. CASE CallbackReturn
  BY <1>33 DEF CallbackReturn, AtCall, AliveInv
<1>34. ASSUME NEW c \in Clients, SockAccept(c) PROVE ReadableInv'
  BY <1>34 DEF SockAccept, ManagerRuns, loopVars, AliveInv
<1>35. ASSUME NEW f \in Fds, PeerLeaves(f) PROVE ReadableInv'
  BY <1>35 DEF PeerLeaves, AliveInv
<1>36. CASE UNCHANGED vars
  BY <1>36 DEF vars
<1> QED
  BY <1>1, <1>2, <1>3, <1>4, <1>5, <1>6, <1>7, <1>8, <1>9, <1>10, <1>11, <1>12, <1>13,
     <1>14, <1>15, <1>16, <1>17, <1>18, <1>19, <1>20, <1>21, <1>22, <1>23, <1>24, <1>25,
     <1>26, <1>27, <1>28, <1>29, <1>30, <1>31, <1>32, <1>33, <1>34, <1>35, <1>36 DEF
     Next, UserCall, CallProgress, ManagerProgress, DnsProgress

\* With one client the socket that was readable is not given out again.
LEMMA SingleStep ==
  ASSUME PoliteUse, OneClient, TypeOK, IInv, SingleInv, [Next]_vars
  PROVE  SingleInv'
<1> USE NoneFacts DEF TypeOK, objectVars, managerVars, lwipVars, loopVars, IInv,
    SingleInv, ControlInv, isOpen, CallInv
<1>1. ASSUME NEW t \in Threads, NEW c \in Clients, UserConnect(t, c) PROVE SingleInv'
  BY <1>1 DEF UserConnect, MayCall, Idle, AtCall, OneClient, AliveInv, HandlerInv
<1>2. ASSUME NEW t \in Threads, ConnectOpen(t) PROVE SingleInv'
  BY <1>2 DEF ConnectOpen, AtCall, NoCall, OneClient, AliveInv, HandlerInv
<1>3. ASSUME NEW t \in Threads, ConnectSocket(t) PROVE SingleInv'
  BY <1>3 DEF ConnectSocket, NoCall, OneClient, AliveInv, HandlerInv
<1>4. ASSUME NEW t \in Threads, ConnectDial(t) PROVE SingleInv'
  BY <1>4 DEF ConnectDial, OneClient, AliveInv, HandlerInv
<1>5. ASSUME NEW t \in Threads, ConnectFails(t) PROVE SingleInv'
  BY <1>5 DEF ConnectFails, NoCall, OneClient, AliveInv, HandlerInv
<1>6. ASSUME NEW t \in Threads, ConnectState(t) PROVE SingleInv'
  BY <1>6 DEF ConnectState, OneClient, AliveInv, HandlerInv
<1>7. ASSUME NEW t \in Threads, ConfigureSocket(t) PROVE SingleInv'
  BY <1>7 DEF ConfigureSocket, NoCall, OneClient, AliveInv, HandlerInv
<1>8. ASSUME NEW t \in Threads, NEW c \in Clients, UserConnectHost(t, c) PROVE SingleInv'
  BY <1>8 DEF UserConnectHost, MayCall, Idle, AtCall, OneClient, AliveInv, HandlerInv
<1>9. ASSUME NEW t \in Threads, ConnectAwait(t) PROVE SingleInv'
  BY <1>9 DEF ConnectAwait, NoCall, OneClient, AliveInv, HandlerInv
<1>10. ASSUME NEW c \in Clients, DnsFound(c) PROVE SingleInv'
  BY <1>10 DEF DnsFound, OneClient, AliveInv, HandlerInv
<1>11. CASE DnsFinished
  BY <1>11 DEF DnsFinished, OneClient, AliveInv, HandlerInv
<1>12. ASSUME NEW t \in Threads, NEW c \in Clients, UserClose(t, c) PROVE SingleInv'
  BY <1>12 DEF UserClose, MayCall, AtCall, OneClient, AliveInv, HandlerInv
<1>13. ASSUME NEW t \in Threads, CloseState(t) PROVE SingleInv'
  BY <1>13 DEF CloseState, OneClient, AliveInv, HandlerInv
<1>14. ASSUME NEW t \in Threads, CloseExchange(t) PROVE SingleInv'
  BY <1>14 DEF CloseExchange, OneClient, AliveInv, HandlerInv
<1>15. ASSUME NEW t \in Threads, CloseFd(t) PROVE SingleInv'
  BY <1>15 DEF CloseFd, NoCall, OneClient, AliveInv, HandlerInv
<1>16. ASSUME NEW t \in Threads, NEW c \in Clients, UserDelete(t, c) PROVE SingleInv'
  BY <1>16 DEF UserDelete, MayDelete, MayCall, Idle, AtCall, removeConnection,
     OneClient, AliveInv, HandlerInv
<1>17. CASE Select
  <2>1. \/ rset' = {}
        \/ \E c \in Clients : isOpen(c)
    BY <1>17 DEF Select, ReadSet, iterateClients
  <2> QED
    BY <1>17, <2>1 DEF Select, OneClient
<1>18. CASE SelectFails
  BY <1>18 DEF SelectFails, ManagerRuns, OneClient, AliveInv, HandlerInv
<1>19. CASE Collect
  BY <1>19, CollectBlocks
<1>20. CASE Dispatch
  BY <1>20 DEF Dispatch, ManagerRuns, OneClient, AliveInv, HandlerInv
<1>21. CASE SockIsWriteable
  BY <1>21 DEF SockIsWriteable, Handling, ManagerRuns, Finish, Goto, Enter, Invoke,
     AtCall, OneClient, AliveInv, HandlerInv
<1>22. CASE SockConnected
  BY <1>22 DEF SockConnected, Handling, ManagerRuns, Finish, Goto, Enter, Invoke,
     AtCall, OneClient, AliveInv, HandlerInv
<1>23. CASE SockDrain
  BY <1>23 DEF SockDrain, Handling, ManagerRuns, Finish, Goto, Enter, Invoke, AtCall,
     OneClient, AliveInv, HandlerInv
<1>24. CASE NotifySent
  BY <1>24 DEF NotifySent, Handling, ManagerRuns, Finish, Goto, Enter, Invoke, AtCall,
     OneClient, AliveInv, HandlerInv
<1>25. CASE NotifyEnd
  BY <1>25 DEF NotifyEnd, Handling, ManagerRuns, Finish, Goto, Enter, Invoke, AtCall,
     OneClient, AliveInv, HandlerInv
<1>26. CASE SockIsReadable
  BY <1>26 DEF SockIsReadable, Handling, ManagerRuns, Finish, Goto, Enter, Invoke,
     AtCall, OneClient, AliveInv, HandlerInv
<1>27. CASE DnsReset
  BY <1>27 DEF DnsReset, Handling, ManagerRuns, Finish, Goto, Enter, Invoke, AtCall,
     OneClient, AliveInv, HandlerInv
<1>28. CASE SockDelayedConnect
  BY <1>28 DEF SockDelayedConnect, Handling, ManagerRuns, Finish, Goto, Enter, Invoke,
     AtCall, OneClient, AliveInv, HandlerInv
<1>29. CASE SockPoll
  BY <1>29 DEF SockPoll, Handling, ManagerRuns, Finish, Goto, Enter, Invoke, AtCall,
     OneClient, AliveInv, HandlerInv
<1>30. CASE PollTimeouts
  BY <1>30 DEF PollTimeouts, Handling, ManagerRuns, Finish, Goto, Enter, Invoke, AtCall,
     OneClient, AliveInv, HandlerInv
<1>31. CASE ProcessingDone
  BY <1>31 DEF ProcessingDone, Handling, ManagerRuns, Finish, Goto, Enter, Invoke,
     AtCall, OneClient, AliveInv, HandlerInv
<1>32. CASE FireDisconnect
  BY <1>32 DEF FireDisconnect, Handling, ManagerRuns, Finish, Goto, Enter, Invoke,
     AtCall, OneClient, AliveInv, HandlerInv
<1>33. CASE CallbackReturn
  BY <1>33 DEF CallbackReturn, AtCall, OneClient, AliveInv, HandlerInv
<1>34. ASSUME NEW c \in Clients, SockAccept(c) PROVE SingleInv'
  BY <1>34 DEF SockAccept, ManagerRuns, loopVars, OneClient, AliveInv, HandlerInv
<1>35. ASSUME NEW f \in Fds, PeerLeaves(f) PROVE SingleInv'
  BY <1>35 DEF PeerLeaves, OneClient, AliveInv, HandlerInv
<1>36. CASE UNCHANGED vars
  BY <1>36 DEF vars
<1> QED
  BY <1>1, <1>2, <1>3, <1>4, <1>5, <1>6, <1>7, <1>8, <1>9, <1>10, <1>11, <1>12, <1>13,
     <1>14, <1>15, <1>16, <1>17, <1>18, <1>19, <1>20, <1>21, <1>22, <1>23, <1>24, <1>25,
     <1>26, <1>27, <1>28, <1>29, <1>30, <1>31, <1>32, <1>33, <1>34, <1>35, <1>36 DEF
     Next, UserCall, CallProgress, ManagerProgress, DnsProgress

\* The report invariant holds in every state a polite user can reach, if
\* sockets are fresh.
LEMMA ReportCorrect == PoliteUse /\ Spec /\ [][FreshSocket]_vars => []ReportInv
<1> SUFFICES ASSUME PoliteUse PROVE Spec /\ [][FreshSocket]_vars => []ReportInv
  OBVIOUS
<1>1. Init => ReportInv
  BY NoneFacts DEF Init, NoCall, ReportInv, ViewInv, ReadableInv, PendingInv, Pending, isOpen
<1>2. TypeOK /\ IInv /\ ReportInv /\ [Next]_vars /\ [FreshSocket]_vars => ReportInv'
  BY ViewStep, PendingStep, ReadableStep DEF ReportInv
<1> QED
  BY <1>1, <1>2, InvCorrect, PTL DEF Spec

-----------------------------------------------------------------------------
(* The refinement *)

\* At the start the user believes all clients to be down.
LEMMA ProtocolInit == Init => Protocol!Init
BY DEF Init, Protocol!Init

\* Running a callback is a step of the protocol.
LEMMA InvokeStep ==
  ASSUME TypeOK, callback = None, cur \in Clients,
         NEW type \in CallbackType \ {"ACCEPT"}, Invoke(type),
         type = "CONNECT" => view[cur] = "down",
         type \in {"RECV", "SENT", "TIMEOUT", "POLL"} => view[cur] = "up",
         type = "ERROR" => view[cur] # "failed"
  PROVE  Protocol!Next
<1> DEFINE running == IF callback = None THEN None ELSE <<cur, callback>>
<1>1. running = None /\ running' = <<cur, type>>
  BY LifecycleAssumption DEF Invoke
<1>2. CASE type = "CONNECT"
  <2>1. Protocol!Connect(cur)
    BY <1>1, <1>2 DEF Invoke, Protocol!Connect
  <2> QED
    BY <1>1, <2>1 DEF Protocol!Next
<1>3. CASE type \in {"RECV", "SENT", "TIMEOUT", "POLL"}
  <2>1. view' = view
    BY <1>3 DEF Invoke, TypeOK
  <2>2. Protocol!Traffic(cur)
    BY <1>1, <1>3, <2>1 DEF Protocol!Traffic
  <2> QED
    BY <1>1, <2>2 DEF Protocol!Next
<1>4. CASE type = "ERROR"
  <2>1. Protocol!Error(cur)
    BY <1>1, <1>4 DEF Invoke, Protocol!Error
  <2> QED
    BY <1>1, <2>1 DEF Protocol!Next
<1>5. CASE type = "DISCONNECT"
  <2>1. Protocol!Disconnect(cur)
    BY <1>1, <1>5 DEF Invoke, Protocol!Disconnect
  <2> QED
    BY <1>1, <2>1 DEF Protocol!Next
<1> QED
  BY <1>2, <1>3, <1>4, <1>5 DEF CallbackType

\* Every step runs a callback the protocol allows, ends one, or is invisible
\* to the user.
LEMMA ProtocolStep ==
  ASSUME TypeOK, IInv, ReportInv, [Next]_vars
  PROVE  [Protocol!Next]_(Protocol!vars)
<1> DEFINE Quietly == UNCHANGED <<view, callback>> /\ (callback = None \/ UNCHANGED cur)
<1> USE NoneFacts
<1>1. Quietly => UNCHANGED Protocol!vars
  BY DEF Protocol!vars
<1>2. ASSUME NEW p, NEW s, Handling(p, s)
      PROVE  callback = None /\ cur \in Clients /\ ~Failing(cur)
  BY <1>2 DEF Handling, ManagerRuns, Failing, TypeOK
<1> HIDE DEF Quietly
<1>3. CASE Select \/ SelectFails \/ Collect \/ Dispatch
  <2>1. Quietly
    BY <1>3 DEF Quietly, Select, SelectFails, Collect, Dispatch, ManagerRuns
  <2> QED
    BY <1>1, <2>1
<1>4. CASE SockIsWriteable
  <2>1. view[cur] # "failed"
    BY <1>2, <1>4 DEF SockIsWriteable, Handling, ReportInv, PendingInv, Pending
  <2>2. Quietly \/ Invoke("ERROR")
    BY <1>2, <1>4 DEF SockIsWriteable, Quietly, Goto
  <2> QED
    BY <1>1, <1>2, <1>4, <2>1, <2>2, InvokeStep DEF SockIsWriteable, CallbackType
<1>5. CASE SockConnected
  <2>1. view[cur] = "down"
    BY <1>2, <1>5 DEF SockConnected, Handling, IInv, HandlerInv, ReportInv, ViewInv
  <2> QED
    BY <1>2, <1>5, <2>1, InvokeStep DEF SockConnected, CallbackType
<1>6. CASE SockDrain
  <2>1. state[cur] = "CONNECTED" => view[cur] = "up"
    BY <1>2, <1>6 DEF SockDrain, ReportInv, ViewInv
  <2>2. Quietly \/ (state[cur] = "CONNECTED" /\ Invoke("ERROR"))
    BY <1>2, <1>6 DEF SockDrain, Quietly, Finish, Goto
  <2> QED
    BY <1>1, <1>2, <1>6, <2>1, <2>2, InvokeStep DEF SockDrain, CallbackType
<1>7. CASE NotifySent
  <2>1. view[cur] = "up"
    BY <1>7 DEF NotifySent, Handling, ReportInv, ViewInv
  <2> QED
    BY <1>2, <1>7, <2>1, InvokeStep DEF NotifySent, CallbackType
<1>8. CASE NotifyEnd
  <2>1. Quietly
    BY <1>2, <1>8 DEF NotifyEnd, Quietly, Finish, Goto
  <2> QED
    BY <1>1, <2>1
<1>9. CASE SockIsReadable
  <2>1. view[cur] = "up"
    BY <1>2, <1>9 DEF SockIsReadable, Handling, ReportInv, PendingInv, Pending
  <2>2. Quietly \/ Invoke("ERROR") \/ Invoke("RECV")
    BY <1>2, <1>9 DEF SockIsReadable, Quietly, Finish, Enter
  <2> QED
    BY <1>1, <1>2, <1>9, <2>1, <2>2, InvokeStep DEF SockIsReadable, CallbackType
<1>10. CASE DnsReset
  <2>1. Quietly
    BY <1>2, <1>10 DEF DnsReset, Quietly, Goto
  <2> QED
    BY <1>1, <2>1
<1>11. CASE SockDelayedConnect
  <2>1. view[cur] = "down"
    BY <1>2, <1>11 DEF SockDelayedConnect, Handling, IInv, HandlerInv, ReportInv, ViewInv
  <2>2. Quietly \/ Invoke("ERROR")
    BY <1>2, <1>11 DEF SockDelayedConnect, Quietly, Enter
  <2> QED
    BY <1>1, <1>2, <1>11, <2>1, <2>2, InvokeStep DEF SockDelayedConnect, CallbackType
<1>12. CASE SockPoll
  <2>1. state[cur] = "CONNECTED" => view[cur] = "up"
    BY <1>2, <1>12 DEF SockPoll, ReportInv, ViewInv
  <2>2. Quietly \/ (state[cur] = "CONNECTED" /\ Invoke("ERROR"))
    BY <1>2, <1>12 DEF SockPoll, Quietly, Finish, Goto
  <2> QED
    BY <1>1, <1>2, <1>12, <2>1, <2>2, InvokeStep DEF SockPoll, CallbackType
<1>13. CASE PollTimeouts
  <2>1. state[cur] = "CONNECTED" => view[cur] = "up"
    BY <1>2, <1>13 DEF PollTimeouts, ReportInv, ViewInv
  <2>2. Quietly \/ (state[cur] = "CONNECTED" /\ (Invoke("TIMEOUT") \/ Invoke("POLL")))
    BY <1>2, <1>13 DEF PollTimeouts, Quietly, Finish, Enter
  <2> QED
    BY <1>1, <1>2, <1>13, <2>1, <2>2, InvokeStep DEF PollTimeouts, CallbackType
<1>14. CASE ProcessingDone
  <2>1. Quietly
    BY <1>2, <1>14 DEF ProcessingDone, Quietly, Finish, Goto
  <2> QED
    BY <1>1, <2>1
<1>15. CASE FireDisconnect
  BY <1>2, <1>15, InvokeStep DEF FireDisconnect, CallbackType
<1>16. CASE CallbackReturn
  <2> DEFINE running == IF callback = None THEN None ELSE <<cur, callback>>
  <2>1. <<cur, callback>> # None
    BY <1>16, LifecycleAssumption DEF CallbackReturn, TypeOK, IInv, ControlInv
  <2>2. Protocol!Return
    BY <1>16, <2>1 DEF CallbackReturn, Protocol!Return
  <2> QED
    BY <2>2 DEF Protocol!Next
<1>17. ASSUME NEW t \in Threads, NEW c \in Clients, UserCall(t, c) PROVE Quietly
  BY <1>17 DEF Quietly, UserCall, UserConnect, UserConnectHost, UserClose, UserDelete,
     managerVars
<1>18. ASSUME NEW t \in Threads, CallProgress(t) PROVE Quietly
  BY <1>18 DEF Quietly, CallProgress, ConnectOpen, ConnectSocket, ConnectDial, ConnectFails,
     ConnectState, ConfigureSocket, ConnectAwait, CloseState, CloseExchange, CloseFd,
     managerVars
<1>19. ASSUME DnsProgress \/ \E f \in Fds : PeerLeaves(f) PROVE Quietly
  BY <1>19 DEF Quietly, DnsProgress, DnsFinished, DnsFound, PeerLeaves, managerVars
<1>20. ASSUME NEW c \in Clients, SockAccept(c) PROVE Protocol!Next
  <2> DEFINE running == IF callback = None THEN None ELSE <<cur, callback>>
  <2>1. running = None /\ running' = <<c, "ACCEPT">>
    BY <1>20, LifecycleAssumption DEF SockAccept, ManagerRuns
  <2>2. view[c] = "down"
    BY <1>20 DEF SockAccept, ManagerRuns, IInv, AliveInv, ReportInv, ViewInv, Failing
  <2>3. Protocol!Accept(c)
    BY <1>20, <2>1, <2>2 DEF SockAccept, Protocol!Accept
  <2> QED
    BY <2>1, <2>3 DEF Protocol!Next
<1>21. CASE UNCHANGED vars
  <2>1. Quietly
    BY <1>21 DEF Quietly, vars, managerVars
  <2> QED
    BY <1>1, <2>1
<1> QED
  BY <1>1, <1>3, <1>4, <1>5, <1>6, <1>7, <1>8, <1>9, <1>10, <1>11, <1>12, <1>13, <1>14,
     <1>15, <1>16, <1>17, <1>18, <1>19, <1>20, <1>21 DEF Next, ManagerProgress

\* For a polite user the callbacks follow the protocol, for any number of
\* clients and threads, as long as sockets are fresh: one callback at a time,
\* CONNECT before any traffic, ERROR once, and DISCONNECT after it.
THEOREM ProtocolCorrect ==
  PoliteUse /\ Spec /\ [][FreshSocket]_vars => CallbacksFollowProtocol
<1> SUFFICES ASSUME PoliteUse
             PROVE  Spec /\ [][FreshSocket]_vars => CallbacksFollowProtocol
  OBVIOUS
<1>1. TypeOK /\ IInv /\ ReportInv /\ [Next]_vars => [Protocol!Next]_(Protocol!vars)
  BY ProtocolStep
<1> QED
  BY <1>1, ProtocolInit, InvCorrect, ReportCorrect, PTL
     DEF Spec, CallbacksFollowProtocol, Protocol!Spec

\* A program with one client has fresh sockets whatever numbers lwIP chooses:
\* the client is connected again only after the round has reported DISCONNECT.
LEMMA SocketsFresh == PoliteUse /\ OneClient /\ Spec => [][FreshSocket]_vars
<1> SUFFICES ASSUME PoliteUse, OneClient PROVE Spec => [][FreshSocket]_vars
  OBVIOUS
<1>1. Init => SingleInv
  BY DEF Init, SingleInv
<1>2. TypeOK /\ IInv /\ SingleInv /\ [Next]_vars => SingleInv'
  BY SingleStep
<1>3. TypeOK /\ IInv /\ SingleInv /\ [Next]_vars => [FreshSocket]_vars
  <2> SUFFICES ASSUME TypeOK, IInv, SingleInv, Next PROVE FreshSocket
    BY DEF vars
  <2>1. ASSUME NEW t \in Threads, ConfigureSocket(t) PROVE FreshSocket
    BY <2>1, NoneFacts DEF ConfigureSocket, FreshSocket, SingleInv, OneClient, IInv, CallInv,
       isOpen, TypeOK
  <2>2. ASSUME NEW t \in Threads, CloseExchange(t) PROVE FreshSocket
    BY <2>2, NoneFacts DEF CloseExchange, FreshSocket, TypeOK
  <2>3. ASSUME NEW t \in Threads, CallProgress(t), ~ConfigureSocket(t), ~CloseExchange(t)
        PROVE  UNCHANGED socket
    BY <2>3 DEF CallProgress, ConnectOpen, ConnectSocket, ConnectDial, ConnectFails, ConnectState,
       ConnectAwait, CloseState, CloseFd, objectVars
  <2>4. ASSUME NEW t \in Threads, NEW c \in Clients, UserCall(t, c) PROVE UNCHANGED socket
    BY <2>4 DEF UserCall, UserConnect, UserConnectHost, UserClose, UserDelete, objectVars
  <2>5. ManagerProgress => UNCHANGED socket
    BY DEF ManagerProgress, Select, SelectFails, Collect, Dispatch, SockIsWriteable,
       SockConnected, SockDrain, NotifySent, NotifyEnd, SockIsReadable, DnsReset,
       SockDelayedConnect, SockPoll, PollTimeouts, ProcessingDone, FireDisconnect,
       CallbackReturn, objectVars
  <2>6. DnsProgress \/ (\E f \in Fds : PeerLeaves(f)) => UNCHANGED socket
    BY DEF DnsProgress, DnsFinished, DnsFound, PeerLeaves, objectVars
  <2>7. ASSUME NEW c \in Clients, SockAccept(c) PROVE FreshSocket
    BY <2>7 DEF SockAccept, FreshSocket
  <2>8. UNCHANGED socket => FreshSocket
    BY DEF FreshSocket
  <2> QED
    BY <2>1, <2>2, <2>3, <2>4, <2>5, <2>6, <2>7, <2>8 DEF Next
<1> QED
  BY <1>1, <1>2, <1>3, InvCorrect, PTL DEF Spec

\* For a polite user with one client the callbacks follow the protocol.
THEOREM OneClientProtocol == PoliteUse /\ OneClient /\ Spec => CallbacksFollowProtocol
BY SocketsFresh, ProtocolCorrect
=============================================================================
