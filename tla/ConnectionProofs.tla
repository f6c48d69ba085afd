-------------------------- MODULE ConnectionProofs --------------------------
(***************************************************************************)
(* Theorems about module WriteQueue across connections: what the queue     *)
(* holds when a connection begins and ends, and what SENT reports, if      *)
(* user code adds, closes and connects in callbacks only.  send() may be   *)
(* called by any thread at any time.                                       *)
(***************************************************************************)
EXTENDS WriteQueueProofs

\* The rule of use: add(), write(), close(), abort() and connect() are called
\* on the manager task, which runs the callbacks.
CalledInCallbacks == Adders \cup Closers \cup Connectors \subseteq {Mgr}

-----------------------------------------------------------------------------
(* The inductive invariant *)

\* Application threads are inside send() only.
SenderInv ==
  \A t \in Threads : api[t].step \notin {"none", "send", "sendLock", "pass"} => t = Mgr

\* What a call on the manager task, and a handler, know of the connection.
CallInv ==
  /\ api[Mgr].step \in {"space", "push"} => connected /\ api[Mgr].conn = conn
  /\ api[Mgr].step \in {"closeSocket", "closeClear"} => state = "DISCONNECTING"
  /\ api[Mgr].step = "connectState" => ~connected
  /\ api[Mgr].step = "connectSocket" => state = "CONNECTING"
  /\ mpc = "promote" => socket /\ ~connected /\ api[Mgr].step = "none"
  /\ mpc = "fire" => state = "DISCONNECTING" /\ api[Mgr].step = "none"

\* A client that is not CONNECTED has an empty queue, unless _close() is about
\* to clear it.
EmptyInv ==
  ~connected /\ api[Mgr].step \notin {"closeSocket", "closeClear"} =>
    queue = <<>> /\ space = TCP_SND_BUF /\ tail = 0

\* Buffers wait to be reported only in the loop that reports them.
NotifyInv == notify # <<>> => mpc \in {"notify", "SENT"}

ConnectionInv ==
  SenderInv /\ CallInv /\ ConnectedHasSocket /\ EmptyInv /\ NotifyInv

-----------------------------------------------------------------------------
(* The invariant is preserved by every step *)

\* A pass stays in the call it is in.
LEMMA PassCalls ==
  ASSUME TypeOK, NEW t \in Threads, PassWrite(t) \/ PassBlocked(t) \/ PassError(t)
  PROVE  \A u \in Threads : api'[u].step = api[u].step /\ api'[u].conn = api[u].conn
<1>1. PICK c : /\ api' = [api EXCEPT ![t] = c]
               /\ \/ \E n : c = [api[t] EXCEPT !.act = TRUE, !.total = n]
                  \/ c = [api[t] EXCEPT !.total = 0]
  BY DEF PassWrite, PassBlocked, PassError
<1>2. c.step = api[t].step /\ c.conn = api[t].conn
  BY <1>1 DEF TypeOK, Call
<1> QED
  BY <1>1, <1>2 DEF TypeOK

\* Application threads enter send() only.
LEMMA SenderStep ==
  ASSUME CalledInCallbacks, TypeOK, SenderInv, [Next]_vars
  PROVE  SenderInv'
<1> USE MgrIsThread DEF clientVars, managerVars, kernelVars, historyVars, TypeOK,
    SenderInv, Call
<1>1. ASSUME NEW t \in Threads, AddBegin(t) PROVE SenderInv'
  BY <1>1 DEF AddBegin, MayCall, NoCall, CalledInCallbacks
<1>2. ASSUME NEW t \in Threads, SendCall(t) PROVE SenderInv'
  BY <1>2 DEF SendCall, MayCall, AtStep, NoCall, CalledInCallbacks
<1>3. ASSUME NEW t \in Threads, CloseCall(t) PROVE SenderInv'
  BY <1>3 DEF CloseCall, MayCall, AtStep, NoCall, CalledInCallbacks
<1>4. ASSUME NEW t \in Threads, ConnectCall(t) PROVE SenderInv'
  BY <1>4 DEF ConnectCall, MayCall, AtStep, NoCall, CalledInCallbacks
<1>5. ASSUME NEW t \in Threads, AddSpace(t) PROVE SenderInv'
  BY <1>5 DEF AddSpace, NoCall, CalledInCallbacks
<1>6. ASSUME NEW t \in Threads, AddPush(t) PROVE SenderInv'
  BY <1>6 DEF AddPush, NoCall, CalledInCallbacks
<1>7. ASSUME NEW t \in Threads, SendSelect(t) PROVE SenderInv'
  BY <1>7 DEF SendSelect, NoCall, CalledInCallbacks
<1>8. ASSUME NEW t \in Threads, SendLock(t) PROVE SenderInv'
  <2>1. \/ api' = [api EXCEPT ![t] = NoCall]
        \/ api' = [api EXCEPT ![t] = [api[t] EXCEPT !.step = "pass"]]
    BY <1>8 DEF SendLock
  <2>2. \A u \in Threads : u # t => api'[u] = api[u]
    BY <2>1
  <2>3. api'[t].step \in {"none", "pass"}
    BY <2>1 DEF NoCall, Call
  <2> QED
    BY <1>8, <2>2, <2>3 DEF SendLock, SenderInv, CallInv, connected
<1>9. ASSUME NEW t \in Threads, PassWrite(t) PROVE SenderInv'
  BY <1>9 DEF PassWrite, CalledInCallbacks
<1>10. ASSUME NEW t \in Threads, PassBlocked(t) PROVE SenderInv'
  BY <1>10 DEF PassBlocked, CalledInCallbacks
<1>11. ASSUME NEW t \in Threads, PassError(t) PROVE SenderInv'
  BY <1>11 DEF PassError, CalledInCallbacks
<1>12. ASSUME NEW t \in Threads, PassEnd(t) PROVE SenderInv'
  BY <1>12 DEF PassEnd, NoCall, CalledInCallbacks
<1>13. ASSUME NEW t \in Threads, CloseState(t) PROVE SenderInv'
  BY <1>13 DEF CloseState, CalledInCallbacks
<1>14. ASSUME NEW t \in Threads, CloseSocket(t) PROVE SenderInv'
  BY <1>14 DEF CloseSocket, CalledInCallbacks
<1>15. ASSUME NEW t \in Threads, CloseClear(t) PROVE SenderInv'
  BY <1>15 DEF CloseClear, NoCall, CalledInCallbacks
<1>16. ASSUME NEW t \in Threads, ConnectState(t) PROVE SenderInv'
  BY <1>16 DEF ConnectState, CalledInCallbacks
<1>17. ASSUME NEW t \in Threads, ConnectSocket(t) PROVE SenderInv'
  BY <1>17 DEF ConnectSocket, NoCall, CalledInCallbacks
<1>18. CASE Select
  BY <1>18 DEF Select, ManagerAt, CalledInCallbacks
<1>19. CASE SelectFails
  BY <1>19 DEF SelectFails, ManagerAt, CalledInCallbacks
<1>20. CASE CollectWriteable
  BY <1>20 DEF CollectWriteable, ManagerAt, CalledInCallbacks
<1>21. CASE SockIsWriteable
  BY <1>21 DEF SockIsWriteable, ManagerAt, CalledInCallbacks
<1>22. CASE SockConnected
  BY <1>22 DEF SockConnected, ManagerAt, CalledInCallbacks
<1>23. CASE SockDrain
  BY <1>23 DEF SockDrain, AtStep, NoCall, ManagerAt, CalledInCallbacks
<1>24. CASE CleanupError
  BY <1>24 DEF CleanupError, ManagerAt, CalledInCallbacks
<1>41. CASE ReadErrorCode
  BY <1>41 DEF ReadErrorCode, ManagerAt, CalledInCallbacks
<1>25. CASE CleanupFront
  BY <1>25 DEF CleanupFront, ManagerAt, CalledInCallbacks
<1>26. CASE NotifySent
  BY <1>26 DEF NotifySent, ManagerAt, CalledInCallbacks
<1>27. CASE CollectReadable
  BY <1>27 DEF CollectReadable, ManagerAt, CalledInCallbacks
<1>28. CASE SockIsReadable
  BY <1>28 DEF SockIsReadable, AtStep, NoCall, ManagerAt, CalledInCallbacks
<1>29. CASE SockPoll
  BY <1>29 DEF SockPoll, ManagerAt, CalledInCallbacks
<1>30. CASE PollCleanup
  BY <1>30 DEF PollCleanup, ManagerAt, CalledInCallbacks
<1>31. CASE PollConnected
  BY <1>31 DEF PollConnected, ManagerAt, CalledInCallbacks
<1>32. CASE AckTimeout
  BY <1>32 DEF AckTimeout, ManagerAt, CalledInCallbacks
<1>33. CASE NoAckTimeout
  BY <1>33 DEF NoAckTimeout, ManagerAt, CalledInCallbacks
<1>34. CASE RxTimeout
  BY <1>34 DEF RxTimeout, AtStep, NoCall, ManagerAt, CalledInCallbacks
<1>35. CASE NoRxTimeout
  BY <1>35 DEF NoRxTimeout, ManagerAt, CalledInCallbacks
<1>36. CASE ProcessingDone
  BY <1>36 DEF ProcessingDone, ManagerAt, CalledInCallbacks
<1>37. CASE FireDisconnect
  BY <1>37 DEF FireDisconnect, ManagerAt, CalledInCallbacks
<1>38. CASE CallbackReturn
  BY <1>38 DEF CallbackReturn, AtStep, NoCall, CalledInCallbacks
<1>39. CASE KernelAck \/ PeerLeaves
  BY <1>39 DEF KernelAck, PeerLeaves, CalledInCallbacks
<1>40. CASE UNCHANGED vars
  BY <1>40 DEF vars
<1> QED
  BY <1>1, <1>2, <1>3, <1>4, <1>5, <1>6, <1>7, <1>8, <1>9, <1>10, <1>11, <1>12, <1>13,
     <1>14, <1>15, <1>16, <1>17, <1>18, <1>19, <1>20, <1>21, <1>22, <1>23, <1>24, <1>25,
     <1>26, <1>27, <1>28, <1>29, <1>30, <1>31, <1>32, <1>33, <1>34, <1>35, <1>36, <1>37,
     <1>38, <1>39, <1>40, <1>41 DEF Next, UserCall, CallProgress, ManagerProgress

\* Nobody but the manager task changes the connection.
LEMMA CallStepInv ==
  ASSUME CalledInCallbacks, TypeOK, ConnectionInv, [Next]_vars
  PROVE  CallInv'
<1> USE MgrIsThread DEF clientVars, managerVars, kernelVars, historyVars, TypeOK,
    ConnectionInv, CallInv, SenderInv, connected
<1>1. ASSUME NEW t \in Threads, AddBegin(t) PROVE CallInv'
  BY <1>1 DEF AddBegin, MayCall, NoCall, CalledInCallbacks, ConnectedHasSocket,
     ClientCallbackType, Call
<1>2. ASSUME NEW t \in Threads, SendCall(t) PROVE CallInv'
  BY <1>2 DEF SendCall, MayCall, AtStep, NoCall, CalledInCallbacks, ConnectedHasSocket,
     ClientCallbackType, Call
<1>3. ASSUME NEW t \in Threads, CloseCall(t) PROVE CallInv'
  BY <1>3 DEF CloseCall, MayCall, AtStep, NoCall, CalledInCallbacks, ConnectedHasSocket,
     ClientCallbackType, Call
<1>4. ASSUME NEW t \in Threads, ConnectCall(t) PROVE CallInv'
  BY <1>4 DEF ConnectCall, MayCall, AtStep, NoCall, CalledInCallbacks,
     ConnectedHasSocket, ClientCallbackType, Call
<1>5. ASSUME NEW t \in Threads, AddSpace(t) PROVE CallInv'
  BY <1>5 DEF AddSpace, NoCall, CalledInCallbacks, ConnectedHasSocket,
     ClientCallbackType, Call
<1>6. ASSUME NEW t \in Threads, AddPush(t) PROVE CallInv'
  BY <1>6 DEF AddPush, NoCall, CalledInCallbacks, ConnectedHasSocket,
     ClientCallbackType, Call
<1>7. ASSUME NEW t \in Threads, SendSelect(t) PROVE CallInv'
  BY <1>7 DEF SendSelect, NoCall, CalledInCallbacks, ConnectedHasSocket,
     ClientCallbackType, Call
<1>8. ASSUME NEW t \in Threads, SendLock(t) PROVE CallInv'
  <2>1. \/ api' = [api EXCEPT ![t] = NoCall]
        \/ api' = [api EXCEPT ![t] = [api[t] EXCEPT !.step = "pass"]]
    BY <1>8 DEF SendLock
  <2>2. \A u \in Threads : u # t => api'[u] = api[u]
    BY <2>1
  <2>3. api'[t].step \in {"none", "pass"}
    BY <2>1 DEF NoCall, Call
  <2> QED
    BY <1>8, <2>2, <2>3 DEF SendLock, SenderInv, CallInv, connected
<1>9. ASSUME NEW t \in Threads, PassWrite(t) PROVE CallInv'
  <2>1. \A u \in Threads : api'[u].step = api[u].step /\ api'[u].conn = api[u].conn
    BY <1>9, PassCalls
  <2> QED
    BY <1>9, <2>1 DEF PassWrite, CallInv, connected
<1>10. ASSUME NEW t \in Threads, PassBlocked(t) PROVE CallInv'
  <2>1. \A u \in Threads : api'[u].step = api[u].step /\ api'[u].conn = api[u].conn
    BY <1>10, PassCalls
  <2> QED
    BY <1>10, <2>1 DEF PassBlocked, CallInv, connected
<1>11. ASSUME NEW t \in Threads, PassError(t) PROVE CallInv'
  <2>1. \A u \in Threads : api'[u].step = api[u].step /\ api'[u].conn = api[u].conn
    BY <1>11, PassCalls
  <2> QED
    BY <1>11, <2>1 DEF PassError, CallInv, connected
<1>12. ASSUME NEW t \in Threads, PassEnd(t) PROVE CallInv'
  BY <1>12 DEF PassEnd, NoCall, CalledInCallbacks, ConnectedHasSocket,
     ClientCallbackType, Call
<1>13. ASSUME NEW t \in Threads, CloseState(t) PROVE CallInv'
  BY <1>13 DEF CloseState, CalledInCallbacks, ConnectedHasSocket, ClientCallbackType,
     Call
<1>14. ASSUME NEW t \in Threads, CloseSocket(t) PROVE CallInv'
  BY <1>14 DEF CloseSocket, CalledInCallbacks, ConnectedHasSocket, ClientCallbackType,
     Call
<1>15. ASSUME NEW t \in Threads, CloseClear(t) PROVE CallInv'
  BY <1>15 DEF CloseClear, NoCall, CalledInCallbacks, ConnectedHasSocket,
     ClientCallbackType, Call
<1>16. ASSUME NEW t \in Threads, ConnectState(t) PROVE CallInv'
  BY <1>16 DEF ConnectState, CalledInCallbacks, ConnectedHasSocket, ClientCallbackType,
     Call
<1>17. ASSUME NEW t \in Threads, ConnectSocket(t) PROVE CallInv'
  BY <1>17 DEF ConnectSocket, NoCall, CalledInCallbacks, ConnectedHasSocket,
     ClientCallbackType, Call
<1>18. CASE Select
  BY <1>18 DEF Select, ManagerAt, CalledInCallbacks, ConnectedHasSocket,
     ClientCallbackType, Call
<1>19. CASE SelectFails
  BY <1>19 DEF SelectFails, ManagerAt, CalledInCallbacks, ConnectedHasSocket,
     ClientCallbackType, Call
<1>20. CASE CollectWriteable
  BY <1>20 DEF CollectWriteable, ManagerAt, CalledInCallbacks, ConnectedHasSocket,
     ClientCallbackType, Call
<1>21. CASE SockIsWriteable
  BY <1>21 DEF SockIsWriteable, ManagerAt, CalledInCallbacks, ConnectedHasSocket,
     ClientCallbackType, Call
<1>22. CASE SockConnected
  BY <1>22 DEF SockConnected, ManagerAt, CalledInCallbacks, ConnectedHasSocket,
     ClientCallbackType, Call
<1>23. CASE SockDrain
  BY <1>23 DEF SockDrain, AtStep, NoCall, ManagerAt, CalledInCallbacks,
     ConnectedHasSocket, ClientCallbackType, Call
<1>24. CASE CleanupError
  BY <1>24 DEF CleanupError, ManagerAt, CalledInCallbacks, ConnectedHasSocket,
     ClientCallbackType, Call
<1>41. CASE ReadErrorCode
  BY <1>41 DEF ReadErrorCode, ManagerAt, CalledInCallbacks, ConnectedHasSocket,
     ClientCallbackType, Call
<1>25. CASE CleanupFront
  BY <1>25 DEF CleanupFront, ManagerAt, CalledInCallbacks, ConnectedHasSocket,
     ClientCallbackType, Call
<1>26. CASE NotifySent
  BY <1>26 DEF NotifySent, ManagerAt, CalledInCallbacks, ConnectedHasSocket,
     ClientCallbackType, Call
<1>27. CASE CollectReadable
  BY <1>27 DEF CollectReadable, ManagerAt, CalledInCallbacks, ConnectedHasSocket,
     ClientCallbackType, Call
<1>28. CASE SockIsReadable
  BY <1>28 DEF SockIsReadable, AtStep, NoCall, ManagerAt, CalledInCallbacks,
     ConnectedHasSocket, ClientCallbackType, Call
<1>29. CASE SockPoll
  BY <1>29 DEF SockPoll, ManagerAt, CalledInCallbacks, ConnectedHasSocket,
     ClientCallbackType, Call
<1>30. CASE PollCleanup
  BY <1>30 DEF PollCleanup, ManagerAt, CalledInCallbacks, ConnectedHasSocket,
     ClientCallbackType, Call
<1>31. CASE PollConnected
  BY <1>31 DEF PollConnected, ManagerAt, CalledInCallbacks, ConnectedHasSocket,
     ClientCallbackType, Call
<1>32. CASE AckTimeout
  BY <1>32 DEF AckTimeout, ManagerAt, CalledInCallbacks, ConnectedHasSocket,
     ClientCallbackType, Call
<1>33. CASE NoAckTimeout
  BY <1>33 DEF NoAckTimeout, ManagerAt, CalledInCallbacks, ConnectedHasSocket,
     ClientCallbackType, Call
<1>34. CASE RxTimeout
  BY <1>34 DEF RxTimeout, AtStep, NoCall, ManagerAt, CalledInCallbacks,
     ConnectedHasSocket, ClientCallbackType, Call
<1>35. CASE NoRxTimeout
  BY <1>35 DEF NoRxTimeout, ManagerAt, CalledInCallbacks, ConnectedHasSocket,
     ClientCallbackType, Call
<1>36. CASE ProcessingDone
  BY <1>36 DEF ProcessingDone, ManagerAt, CalledInCallbacks, ConnectedHasSocket,
     ClientCallbackType, Call
<1>37. CASE FireDisconnect
  BY <1>37 DEF FireDisconnect, ManagerAt, CalledInCallbacks, ConnectedHasSocket,
     ClientCallbackType, Call
<1>38. CASE CallbackReturn
  BY <1>38 DEF CallbackReturn, AtStep, NoCall, CalledInCallbacks, ConnectedHasSocket,
     ClientCallbackType, Call
<1>39. CASE KernelAck \/ PeerLeaves
  BY <1>39 DEF KernelAck, PeerLeaves, CalledInCallbacks, ConnectedHasSocket,
     ClientCallbackType, Call
<1>40. CASE UNCHANGED vars
  BY <1>40 DEF vars
<1> QED
  BY <1>1, <1>2, <1>3, <1>4, <1>5, <1>6, <1>7, <1>8, <1>9, <1>10, <1>11, <1>12, <1>13,
     <1>14, <1>15, <1>16, <1>17, <1>18, <1>19, <1>20, <1>21, <1>22, <1>23, <1>24, <1>25,
     <1>26, <1>27, <1>28, <1>29, <1>30, <1>31, <1>32, <1>33, <1>34, <1>35, <1>36, <1>37,
     <1>38, <1>39, <1>40, <1>41 DEF Next, UserCall, CallProgress, ManagerProgress

\* The state leaves CONNECTED before the socket is taken away.
LEMMA SocketStep ==
  ASSUME CalledInCallbacks, TypeOK, ConnectionInv, [Next]_vars
  PROVE  ConnectedHasSocket'
<1> USE MgrIsThread DEF clientVars, managerVars, kernelVars, historyVars, TypeOK,
    ConnectionInv, CallInv, SenderInv, ConnectedHasSocket, connected
<1>1. ASSUME NEW t \in Threads, AddBegin(t) PROVE ConnectedHasSocket'
  BY <1>1 DEF AddBegin, MayCall, NoCall
<1>2. ASSUME NEW t \in Threads, SendCall(t) PROVE ConnectedHasSocket'
  BY <1>2 DEF SendCall, MayCall, AtStep, NoCall
<1>3. ASSUME NEW t \in Threads, CloseCall(t) PROVE ConnectedHasSocket'
  BY <1>3 DEF CloseCall, MayCall, AtStep, NoCall
<1>4. ASSUME NEW t \in Threads, ConnectCall(t) PROVE ConnectedHasSocket'
  BY <1>4 DEF ConnectCall, MayCall, AtStep, NoCall
<1>5. ASSUME NEW t \in Threads, AddSpace(t) PROVE ConnectedHasSocket'
  BY <1>5 DEF AddSpace, NoCall
<1>6. ASSUME NEW t \in Threads, AddPush(t) PROVE ConnectedHasSocket'
  BY <1>6 DEF AddPush, NoCall
<1>7. ASSUME NEW t \in Threads, SendSelect(t) PROVE ConnectedHasSocket'
  BY <1>7 DEF SendSelect, NoCall
<1>8. ASSUME NEW t \in Threads, SendLock(t) PROVE ConnectedHasSocket'
  BY <1>8 DEF SendLock, NoCall
<1>9. ASSUME NEW t \in Threads, PassWrite(t) PROVE ConnectedHasSocket'
  BY <1>9 DEF PassWrite
<1>10. ASSUME NEW t \in Threads, PassBlocked(t) PROVE ConnectedHasSocket'
  BY <1>10 DEF PassBlocked
<1>11. ASSUME NEW t \in Threads, PassError(t) PROVE ConnectedHasSocket'
  BY <1>11 DEF PassError
<1>12. ASSUME NEW t \in Threads, PassEnd(t) PROVE ConnectedHasSocket'
  BY <1>12 DEF PassEnd, NoCall
<1>13. ASSUME NEW t \in Threads, CloseState(t) PROVE ConnectedHasSocket'
  BY <1>13 DEF CloseState
<1>14. ASSUME NEW t \in Threads, CloseSocket(t) PROVE ConnectedHasSocket'
  BY <1>14 DEF CloseSocket
<1>15. ASSUME NEW t \in Threads, CloseClear(t) PROVE ConnectedHasSocket'
  BY <1>15 DEF CloseClear, NoCall
<1>16. ASSUME NEW t \in Threads, ConnectState(t) PROVE ConnectedHasSocket'
  BY <1>16 DEF ConnectState
<1>17. ASSUME NEW t \in Threads, ConnectSocket(t) PROVE ConnectedHasSocket'
  BY <1>17 DEF ConnectSocket, NoCall
<1>18. CASE Select
  BY <1>18 DEF Select, ManagerAt
<1>19. CASE SelectFails
  BY <1>19 DEF SelectFails, ManagerAt
<1>20. CASE CollectWriteable
  BY <1>20 DEF CollectWriteable, ManagerAt
<1>21. CASE SockIsWriteable
  BY <1>21 DEF SockIsWriteable, ManagerAt
<1>22. CASE SockConnected
  BY <1>22 DEF SockConnected, ManagerAt
<1>23. CASE SockDrain
  BY <1>23 DEF SockDrain, AtStep, NoCall, ManagerAt
<1>24. CASE CleanupError
  BY <1>24 DEF CleanupError, ManagerAt
<1>41. CASE ReadErrorCode
  BY <1>41 DEF ReadErrorCode, ManagerAt
<1>25. CASE CleanupFront
  BY <1>25 DEF CleanupFront, ManagerAt
<1>26. CASE NotifySent
  BY <1>26 DEF NotifySent, ManagerAt
<1>27. CASE CollectReadable
  BY <1>27 DEF CollectReadable, ManagerAt
<1>28. CASE SockIsReadable
  BY <1>28 DEF SockIsReadable, AtStep, NoCall, ManagerAt
<1>29. CASE SockPoll
  BY <1>29 DEF SockPoll, ManagerAt
<1>30. CASE PollCleanup
  BY <1>30 DEF PollCleanup, ManagerAt
<1>31. CASE PollConnected
  BY <1>31 DEF PollConnected, ManagerAt
<1>32. CASE AckTimeout
  BY <1>32 DEF AckTimeout, ManagerAt
<1>33. CASE NoAckTimeout
  BY <1>33 DEF NoAckTimeout, ManagerAt
<1>34. CASE RxTimeout
  BY <1>34 DEF RxTimeout, AtStep, NoCall, ManagerAt
<1>35. CASE NoRxTimeout
  BY <1>35 DEF NoRxTimeout, ManagerAt
<1>36. CASE ProcessingDone
  BY <1>36 DEF ProcessingDone, ManagerAt
<1>37. CASE FireDisconnect
  BY <1>37 DEF FireDisconnect, ManagerAt
<1>38. CASE CallbackReturn
  BY <1>38 DEF CallbackReturn, AtStep, NoCall
<1>39. CASE KernelAck \/ PeerLeaves
  BY <1>39 DEF KernelAck, PeerLeaves
<1>40. CASE UNCHANGED vars
  BY <1>40 DEF vars
<1> QED
  BY <1>1, <1>2, <1>3, <1>4, <1>5, <1>6, <1>7, <1>8, <1>9, <1>10, <1>11, <1>12, <1>13,
     <1>14, <1>15, <1>16, <1>17, <1>18, <1>19, <1>20, <1>21, <1>22, <1>23, <1>24, <1>25,
     <1>26, <1>27, <1>28, <1>29, <1>30, <1>31, <1>32, <1>33, <1>34, <1>35, <1>36, <1>37,
     <1>38, <1>39, <1>40, <1>41 DEF Next, UserCall, CallProgress, ManagerProgress

\* _close() clears the queue before the client can be connected again.
LEMMA EmptyStep ==
  ASSUME CalledInCallbacks, TypeOK, ConnectionInv, [Next]_vars
  PROVE  EmptyInv'
<1> USE MgrIsThread DEF clientVars, managerVars, kernelVars, historyVars, TypeOK,
    ConnectionInv, CallInv, SenderInv, EmptyInv, connected
<1>1. ASSUME NEW t \in Threads, AddBegin(t) PROVE EmptyInv'
  BY <1>1 DEF AddBegin, MayCall, NoCall, Call
<1>2. ASSUME NEW t \in Threads, SendCall(t) PROVE EmptyInv'
  BY <1>2 DEF SendCall, MayCall, AtStep, NoCall, Call
<1>3. ASSUME NEW t \in Threads, CloseCall(t) PROVE EmptyInv'
  BY <1>3 DEF CloseCall, MayCall, AtStep, NoCall, Call
<1>4. ASSUME NEW t \in Threads, ConnectCall(t) PROVE EmptyInv'
  BY <1>4 DEF ConnectCall, MayCall, AtStep, NoCall, Call
<1>5. ASSUME NEW t \in Threads, AddSpace(t) PROVE EmptyInv'
  BY <1>5 DEF AddSpace, NoCall, Call
<1>6. ASSUME NEW t \in Threads, AddPush(t) PROVE EmptyInv'
  BY <1>6 DEF AddPush, NoCall, Call
<1>7. ASSUME NEW t \in Threads, SendSelect(t) PROVE EmptyInv'
  BY <1>7 DEF SendSelect, NoCall, Call
<1>8. ASSUME NEW t \in Threads, SendLock(t) PROVE EmptyInv'
  BY <1>8 DEF SendLock, NoCall, Call
<1>9. ASSUME NEW t \in Threads, PassWrite(t) PROVE EmptyInv'
  BY <1>9 DEF PassWrite, Call
<1>10. ASSUME NEW t \in Threads, PassBlocked(t) PROVE EmptyInv'
  BY <1>10 DEF PassBlocked, Call
<1>11. ASSUME NEW t \in Threads, PassError(t) PROVE EmptyInv'
  BY <1>11 DEF PassError, Call
<1>12. ASSUME NEW t \in Threads, PassEnd(t) PROVE EmptyInv'
  BY <1>12 DEF PassEnd, NoCall, Call
<1>13. ASSUME NEW t \in Threads, CloseState(t) PROVE EmptyInv'
  BY <1>13 DEF CloseState, Call
<1>14. ASSUME NEW t \in Threads, CloseSocket(t) PROVE EmptyInv'
  BY <1>14 DEF CloseSocket, Call
<1>15. ASSUME NEW t \in Threads, CloseClear(t) PROVE EmptyInv'
  BY <1>15 DEF CloseClear, NoCall, Call
<1>16. ASSUME NEW t \in Threads, ConnectState(t) PROVE EmptyInv'
  BY <1>16 DEF ConnectState, Call
<1>17. ASSUME NEW t \in Threads, ConnectSocket(t) PROVE EmptyInv'
  BY <1>17 DEF ConnectSocket, NoCall, Call
<1>18. CASE Select
  BY <1>18 DEF Select, ManagerAt, Call
<1>19. CASE SelectFails
  BY <1>19 DEF SelectFails, ManagerAt, Call
<1>20. CASE CollectWriteable
  BY <1>20 DEF CollectWriteable, ManagerAt, Call
<1>21. CASE SockIsWriteable
  BY <1>21 DEF SockIsWriteable, ManagerAt, Call
<1>22. CASE SockConnected
  BY <1>22 DEF SockConnected, ManagerAt, Call
<1>23. CASE SockDrain
  BY <1>23 DEF SockDrain, AtStep, NoCall, ManagerAt, Call
<1>24. CASE CleanupError
  BY <1>24 DEF CleanupError, ManagerAt, Call
<1>41. CASE ReadErrorCode
  BY <1>41 DEF ReadErrorCode, ManagerAt, Call
<1>25. CASE CleanupFront
  BY <1>25 DEF CleanupFront, ManagerAt, Call
<1>26. CASE NotifySent
  BY <1>26 DEF NotifySent, ManagerAt, Call
<1>27. CASE CollectReadable
  BY <1>27 DEF CollectReadable, ManagerAt, Call
<1>28. CASE SockIsReadable
  BY <1>28 DEF SockIsReadable, AtStep, NoCall, ManagerAt, Call
<1>29. CASE SockPoll
  BY <1>29 DEF SockPoll, ManagerAt, Call
<1>30. CASE PollCleanup
  BY <1>30 DEF PollCleanup, ManagerAt, Call
<1>31. CASE PollConnected
  BY <1>31 DEF PollConnected, ManagerAt, Call
<1>32. CASE AckTimeout
  BY <1>32 DEF AckTimeout, ManagerAt, Call
<1>33. CASE NoAckTimeout
  BY <1>33 DEF NoAckTimeout, ManagerAt, Call
<1>34. CASE RxTimeout
  BY <1>34 DEF RxTimeout, AtStep, NoCall, ManagerAt, Call
<1>35. CASE NoRxTimeout
  BY <1>35 DEF NoRxTimeout, ManagerAt, Call
<1>36. CASE ProcessingDone
  BY <1>36 DEF ProcessingDone, ManagerAt, Call
<1>37. CASE FireDisconnect
  BY <1>37 DEF FireDisconnect, ManagerAt, Call
<1>38. CASE CallbackReturn
  BY <1>38 DEF CallbackReturn, AtStep, NoCall, Call
<1>39. CASE KernelAck \/ PeerLeaves
  BY <1>39 DEF KernelAck, PeerLeaves, Call
<1>40. CASE UNCHANGED vars
  BY <1>40 DEF vars
<1> QED
  BY <1>1, <1>2, <1>3, <1>4, <1>5, <1>6, <1>7, <1>8, <1>9, <1>10, <1>11, <1>12, <1>13,
     <1>14, <1>15, <1>16, <1>17, <1>18, <1>19, <1>20, <1>21, <1>22, <1>23, <1>24, <1>25,
     <1>26, <1>27, <1>28, <1>29, <1>30, <1>31, <1>32, <1>33, <1>34, <1>35, <1>36, <1>37,
     <1>38, <1>39, <1>40, <1>41 DEF Next, UserCall, CallProgress, ManagerProgress

\* The loop ends when all removed buffers are reported.
LEMMA NotifyStep ==
  ASSUME TypeOK, NotifyInv, [Next]_vars
  PROVE  NotifyInv'
<1> USE MgrIsThread DEF clientVars, managerVars, kernelVars, historyVars, TypeOK,
    NotifyInv
<1>1. ASSUME NEW t \in Threads, AddBegin(t) PROVE NotifyInv'
  BY <1>1 DEF AddBegin, MayCall, NoCall, ClientCallbackType
<1>2. ASSUME NEW t \in Threads, SendCall(t) PROVE NotifyInv'
  BY <1>2 DEF SendCall, MayCall, AtStep, NoCall, ClientCallbackType
<1>3. ASSUME NEW t \in Threads, CloseCall(t) PROVE NotifyInv'
  BY <1>3 DEF CloseCall, MayCall, AtStep, NoCall, ClientCallbackType
<1>4. ASSUME NEW t \in Threads, ConnectCall(t) PROVE NotifyInv'
  BY <1>4 DEF ConnectCall, MayCall, AtStep, NoCall, ClientCallbackType
<1>5. ASSUME NEW t \in Threads, AddSpace(t) PROVE NotifyInv'
  BY <1>5 DEF AddSpace, NoCall, ClientCallbackType
<1>6. ASSUME NEW t \in Threads, AddPush(t) PROVE NotifyInv'
  BY <1>6 DEF AddPush, NoCall, ClientCallbackType
<1>7. ASSUME NEW t \in Threads, SendSelect(t) PROVE NotifyInv'
  BY <1>7 DEF SendSelect, NoCall, ClientCallbackType
<1>8. ASSUME NEW t \in Threads, SendLock(t) PROVE NotifyInv'
  BY <1>8 DEF SendLock, NoCall, ClientCallbackType
<1>9. ASSUME NEW t \in Threads, PassWrite(t) PROVE NotifyInv'
  BY <1>9 DEF PassWrite, ClientCallbackType
<1>10. ASSUME NEW t \in Threads, PassBlocked(t) PROVE NotifyInv'
  BY <1>10 DEF PassBlocked, ClientCallbackType
<1>11. ASSUME NEW t \in Threads, PassError(t) PROVE NotifyInv'
  BY <1>11 DEF PassError, ClientCallbackType
<1>12. ASSUME NEW t \in Threads, PassEnd(t) PROVE NotifyInv'
  BY <1>12 DEF PassEnd, NoCall, ClientCallbackType
<1>13. ASSUME NEW t \in Threads, CloseState(t) PROVE NotifyInv'
  BY <1>13 DEF CloseState, ClientCallbackType
<1>14. ASSUME NEW t \in Threads, CloseSocket(t) PROVE NotifyInv'
  BY <1>14 DEF CloseSocket, ClientCallbackType
<1>15. ASSUME NEW t \in Threads, CloseClear(t) PROVE NotifyInv'
  BY <1>15 DEF CloseClear, NoCall, ClientCallbackType
<1>16. ASSUME NEW t \in Threads, ConnectState(t) PROVE NotifyInv'
  BY <1>16 DEF ConnectState, ClientCallbackType
<1>17. ASSUME NEW t \in Threads, ConnectSocket(t) PROVE NotifyInv'
  BY <1>17 DEF ConnectSocket, NoCall, ClientCallbackType
<1>18. CASE Select
  BY <1>18 DEF Select, ManagerAt, ClientCallbackType
<1>19. CASE SelectFails
  BY <1>19 DEF SelectFails, ManagerAt, ClientCallbackType
<1>20. CASE CollectWriteable
  BY <1>20 DEF CollectWriteable, ManagerAt, ClientCallbackType
<1>21. CASE SockIsWriteable
  BY <1>21 DEF SockIsWriteable, ManagerAt, ClientCallbackType
<1>22. CASE SockConnected
  BY <1>22 DEF SockConnected, ManagerAt, ClientCallbackType
<1>23. CASE SockDrain
  BY <1>23 DEF SockDrain, AtStep, NoCall, ManagerAt, ClientCallbackType
<1>24. CASE CleanupError
  BY <1>24 DEF CleanupError, ManagerAt, ClientCallbackType
<1>41. CASE ReadErrorCode
  BY <1>41 DEF ReadErrorCode, ManagerAt, ClientCallbackType
<1>25. CASE CleanupFront
  BY <1>25 DEF CleanupFront, ManagerAt, ClientCallbackType
<1>26. CASE NotifySent
  BY <1>26 DEF NotifySent, ManagerAt, ClientCallbackType
<1>27. CASE CollectReadable
  BY <1>27 DEF CollectReadable, ManagerAt, ClientCallbackType
<1>28. CASE SockIsReadable
  BY <1>28 DEF SockIsReadable, AtStep, NoCall, ManagerAt, ClientCallbackType
<1>29. CASE SockPoll
  BY <1>29 DEF SockPoll, ManagerAt, ClientCallbackType
<1>30. CASE PollCleanup
  BY <1>30 DEF PollCleanup, ManagerAt, ClientCallbackType
<1>31. CASE PollConnected
  BY <1>31 DEF PollConnected, ManagerAt, ClientCallbackType
<1>32. CASE AckTimeout
  BY <1>32 DEF AckTimeout, ManagerAt, ClientCallbackType
<1>33. CASE NoAckTimeout
  BY <1>33 DEF NoAckTimeout, ManagerAt, ClientCallbackType
<1>34. CASE RxTimeout
  BY <1>34 DEF RxTimeout, AtStep, NoCall, ManagerAt, ClientCallbackType
<1>35. CASE NoRxTimeout
  BY <1>35 DEF NoRxTimeout, ManagerAt, ClientCallbackType
<1>36. CASE ProcessingDone
  BY <1>36 DEF ProcessingDone, ManagerAt, ClientCallbackType
<1>37. CASE FireDisconnect
  BY <1>37 DEF FireDisconnect, ManagerAt, ClientCallbackType
<1>38. CASE CallbackReturn
  BY <1>38 DEF CallbackReturn, AtStep, NoCall, ClientCallbackType
<1>39. CASE KernelAck \/ PeerLeaves
  BY <1>39 DEF KernelAck, PeerLeaves, ClientCallbackType
<1>40. CASE UNCHANGED vars
  BY <1>40 DEF vars
<1> QED
  BY <1>1, <1>2, <1>3, <1>4, <1>5, <1>6, <1>7, <1>8, <1>9, <1>10, <1>11, <1>12, <1>13,
     <1>14, <1>15, <1>16, <1>17, <1>18, <1>19, <1>20, <1>21, <1>22, <1>23, <1>24, <1>25,
     <1>26, <1>27, <1>28, <1>29, <1>30, <1>31, <1>32, <1>33, <1>34, <1>35, <1>36, <1>37,
     <1>38, <1>39, <1>40, <1>41 DEF Next, UserCall, CallProgress, ManagerProgress

\* The invariant holds in every state such a user can reach.
LEMMA ConnectionCorrect ==
  CalledInCallbacks /\ Spec => [](TypeOK /\ ConnectionInv)
<1> SUFFICES ASSUME CalledInCallbacks PROVE Spec => [](TypeOK /\ ConnectionInv)
  OBVIOUS
<1>1. Init => ConnectionInv
  BY MgrIsThread DEF Init, Constructed, NoCall, ConnectionInv, SenderInv, CallInv, EmptyInv,
     NotifyInv, ConnectedHasSocket, connected
<1>2. TypeOK /\ ConnectionInv /\ [Next]_vars => ConnectionInv'
  BY SenderStep, CallStepInv, SocketStep, EmptyStep, NotifyStep DEF ConnectionInv
<1> QED
  BY <1>1, <1>2, TypeCorrect, PTL DEF Spec

\* A client is CONNECTED only while it has a socket, if user code closes and
\* connects in callbacks only: send() of other threads does not disturb it.
THEOREM SocketCorrect == CalledInCallbacks /\ Spec => []ConnectedHasSocket
<1>1. TypeOK /\ ConnectionInv => ConnectedHasSocket
  BY DEF ConnectionInv
<1> QED
  BY <1>1, ConnectionCorrect, PTL

\* Under the same rule nothing of a connection is left in the queue, nor is
\* any write space missing, when DISCONNECT is reported.
THEOREM ClosedCorrect == CalledInCallbacks /\ Spec => []ClosedClientIsEmpty
<1>1. TypeOK /\ ConnectionInv => ClosedClientIsEmpty
  BY DEF ConnectionInv, CallInv, EmptyInv, ClosedClientIsEmpty, connected
<1> QED
  BY <1>1, ConnectionCorrect, PTL

-----------------------------------------------------------------------------
(* The buffers of a connection *)

\* The buffers cover the bytes from..to-1 without gaps and in order.
Covers(bufs, from, to) ==
  /\ bufs = <<>> => from = to
  /\ bufs # <<>> => bufs[1].lo = from /\ bufs[Len(bufs)].hi = to
  /\ \A i \in 1..(Len(bufs) - 1) : bufs[i].hi = bufs[i + 1].lo

\* SentAccounting, with what waits in notifyQueue and what is queued as one
\* sequence.
LEMMA SentCovers == SentAccounting <=> (connected => Covers(notify \o queue, acked, tail))
BY DEF SentAccounting, Covers

\* Sequences of the same length with the same boundaries cover the same bytes.
LEMMA CoversSame ==
  ASSUME NEW q \in Seq(WriteQueueBuffer), NEW r \in Seq(WriteQueueBuffer), Len(r) = Len(q),
         \A i \in 1..Len(q) : r[i].lo = q[i].lo /\ r[i].hi = q[i].hi,
         NEW from, NEW to, Covers(q, from, to)
  PROVE  Covers(r, from, to)
BY DEF Covers

\* A buffer added behind the others.
LEMMA CoversAppend ==
  ASSUME NEW q \in Seq(WriteQueueBuffer), NEW r \in Seq(WriteQueueBuffer),
         Len(r) = Len(q) + 1, \A i \in 1..Len(q) : r[i] = q[i],
         NEW from, NEW to, Covers(q, from, to), r[Len(r)].lo = to
  PROVE  Covers(r, from, r[Len(r)].hi)
BY DEF Covers

\* The first buffer taken away.
LEMMA CoversTail ==
  ASSUME NEW q \in Seq(WriteQueueBuffer), NEW r \in Seq(WriteQueueBuffer),
         Len(q) = Len(r) + 1, \A i \in 1..Len(r) : r[i] = q[i + 1],
         NEW from, NEW to, Covers(q, from, to)
  PROVE  Covers(r, q[1].hi, to) /\ q[1].lo = from
BY DEF Covers

\* A pass moves the pos and the err of buffers, and nothing else.
LEMMA PassKeepsBytes ==
  ASSUME TypeOK, NEW t \in Threads, PassWrite(t) \/ PassError(t)
  PROVE  /\ Len(queue') = Len(queue)
         /\ \A i \in 1..Len(queue) : /\ queue'[i].lo = queue[i].lo
                                     /\ queue'[i].hi = queue[i].hi
                                     /\ queue'[i].conn = queue[i].conn
<1>1. queue \in Seq(WriteQueueBuffer) /\ room \in Nat
  BY ConstantsAssumption DEF TypeOK
<1>2. PICK i \in DOMAIN queue, b \in WriteQueueBuffer :
        /\ queue' = [queue EXCEPT ![i] = b]
        /\ b.lo = queue[i].lo /\ b.hi = queue[i].hi /\ b.conn = queue[i].conn
  <2>1. CASE PassWrite(t)
    <3>1. PICK i \in DOMAIN queue, n \in 1..room :
            queue' = [queue EXCEPT ![i] = [queue[i] EXCEPT !.pos = queue[i].pos + n]]
      BY <2>1 DEF PassWrite, lwip_write
    <3>2. queue[i] \in WriteQueueBuffer
      BY <1>1
    <3>3. queue[i].pos + n \in Nat
      BY <1>1, <3>2 DEF WriteQueueBuffer
    <3>4. [queue[i] EXCEPT !.pos = queue[i].pos + n] \in WriteQueueBuffer
      BY <3>2, <3>3, BufferUpdates
    <3> QED
      BY <3>1, <3>2, <3>4 DEF WriteQueueBuffer
  <2>2. CASE PassError(t)
    <3>1. PICK i \in DOMAIN queue :
            queue' = [queue EXCEPT ![i] = [queue[i] EXCEPT !.err = TRUE]]
      BY <2>2 DEF PassError
    <3>2. queue[i] \in WriteQueueBuffer
      BY <1>1
    <3>3. [queue[i] EXCEPT !.err = TRUE] \in WriteQueueBuffer
      BY <3>2, BufferUpdates
    <3> QED
      BY <3>1, <3>2, <3>3 DEF WriteQueueBuffer
  <2> QED
    BY <2>1, <2>2
<1> QED
  BY <1>1, <1>2, ExceptSeq

\* _cleanupWriteQueue() moves buffers from the queue to notifyQueue.
LEMMA CleanupMoves ==
  ASSUME TypeOK, CleanupFront
  PROVE  /\ notify' \o queue' = queue
         /\ \A i \in DOMAIN queue' : \E k \in DOMAIN queue : queue'[i] = queue[k]
<1>1. PICK n \in 0..Len(queue) :
        notify' = SubSeq(queue, 1, n) /\ queue' = SubSeq(queue, n + 1, Len(queue))
  BY DEF CleanupFront
<1>2. queue \in Seq(WriteQueueBuffer) /\ Len(queue) \in Nat /\ n \in Nat
  BY DEF TypeOK
<1>3. SubSeq(queue, 1, n) \o SubSeq(queue, n + 1, Len(queue)) = queue
  <2>1. 1 \in 1..Len(queue) + 1 /\ n \in (1 - 1)..Len(queue) /\ Len(queue) \in n..Len(queue)
    BY <1>2
  <2>2. SubSeq(queue, 1, n) \o SubSeq(queue, n + 1, Len(queue)) = SubSeq(queue, 1, Len(queue))
    BY <1>2, <2>1, ConcatAdjacentSubSeq
  <2>3. SubSeq(queue, 1, Len(queue)) = queue
    BY <1>2, SubSeqFull
  <2> QED
    BY <2>2, <2>3
<1>4. \A i \in DOMAIN SubSeq(queue, n + 1, Len(queue)) :
        \E k \in DOMAIN queue : SubSeq(queue, n + 1, Len(queue))[i] = queue[k]
  BY <1>2
<1> QED
  BY <1>1, <1>3, <1>4

\* The queue, the reports and the connection are left alone, and the client
\* does not become CONNECTED.
Unmoved ==
  UNCHANGED <<queue, notify, tail, acked, conn>> /\ (connected' => connected)

\* Few actions do anything else.
LEMMA QueueFrame ==
  ASSUME [Next]_vars
  PROVE  \/ Unmoved
         \/ \E t \in Threads : \/ AddPush(t) \/ PassWrite(t) \/ PassError(t)
                               \/ CloseClear(t) \/ ConnectSocket(t)
         \/ SockConnected \/ CleanupFront \/ NotifySent
<1> USE DEF Unmoved, connected, clientVars, managerVars, kernelVars, historyVars
<1>1. ASSUME NEW t \in Threads, UserCall(t) PROVE Unmoved
  BY <1>1 DEF UserCall, AddBegin, SendCall, CloseCall, ConnectCall
<1>2. ASSUME NEW t \in Threads,
             AddSpace(t) \/ SendSelect(t) \/ SendLock(t) \/ PassBlocked(t) \/ PassEnd(t)
      PROVE  Unmoved
  BY <1>2 DEF AddSpace, SendSelect, SendLock, PassBlocked, PassEnd
<1>3. ASSUME NEW t \in Threads, CloseState(t) \/ CloseSocket(t) \/ ConnectState(t)
      PROVE  Unmoved
  BY <1>3 DEF CloseState, CloseSocket, ConnectState
<1>4. CASE Select \/ SelectFails \/ CollectWriteable \/ SockIsWriteable \/ SockDrain
  BY <1>4 DEF Select, SelectFails, CollectWriteable, SockIsWriteable, SockDrain
<1>5. CASE CleanupError \/ ReadErrorCode \/ CollectReadable \/ SockIsReadable \/ SockPoll
           \/ PollCleanup
  BY <1>5 DEF CleanupError, ReadErrorCode, CollectReadable, SockIsReadable, SockPoll, PollCleanup
<1>6. CASE PollConnected \/ AckTimeout \/ NoAckTimeout \/ RxTimeout \/ NoRxTimeout
  BY <1>6 DEF PollConnected, AckTimeout, NoAckTimeout, RxTimeout, NoRxTimeout
<1>7. CASE ProcessingDone \/ FireDisconnect \/ CallbackReturn
  BY <1>7 DEF ProcessingDone, FireDisconnect, CallbackReturn
<1>8. CASE KernelAck \/ PeerLeaves \/ UNCHANGED vars
  BY <1>8 DEF KernelAck, PeerLeaves, vars
<1> QED
  BY <1>1, <1>2, <1>3, <1>4, <1>5, <1>6, <1>7, <1>8 DEF Next, CallProgress, ManagerProgress

\* A buffer is added to the connection add() was called on.
LEMMA BelongsStep ==
  ASSUME TypeOK, ConnectionInv, QueueBelongsToConnection, [Next]_vars
  PROVE  QueueBelongsToConnection'
<1> USE MgrIsThread DEF QueueBelongsToConnection
<1>1. CASE Unmoved
  BY <1>1 DEF Unmoved
<1>2. ASSUME NEW t \in Threads, AddPush(t) PROVE QueueBelongsToConnection'
  <2>1. connected /\ api[t].conn = conn
    BY <1>2 DEF ConnectionInv, SenderInv, CallInv, AddPush
  <2> QED
    BY <1>2, <2>1 DEF AddPush, TypeOK
<1>3. ASSUME NEW t \in Threads, PassWrite(t) \/ PassError(t)
      PROVE  QueueBelongsToConnection'
  <2>1. queue' \in Seq(WriteQueueBuffer) /\ queue \in Seq(WriteQueueBuffer)
    BY <1>3, QueueType DEF TypeOK
  <2>2. state' = state /\ conn' = conn
    BY <1>3 DEF PassWrite, PassError, historyVars
  <2> QED
    BY <1>3, <2>1, <2>2, PassKeepsBytes DEF connected
<1>4. ASSUME NEW t \in Threads, CloseClear(t) PROVE QueueBelongsToConnection'
  BY <1>4 DEF CloseClear
<1>5. ASSUME NEW t \in Threads, ConnectSocket(t) PROVE QueueBelongsToConnection'
  <2>1. ~connected
    BY <1>5 DEF ConnectionInv, SenderInv, CallInv, ConnectSocket, connected
  <2> QED
    BY <1>5, <2>1 DEF ConnectSocket, connected
<1>6. CASE SockConnected
  BY <1>6 DEF SockConnected, ManagerAt, ConnectionInv, CallInv, EmptyInv, TypeOK
<1>7. CASE CleanupFront
  BY <1>7, CleanupMoves DEF CleanupFront, historyVars, connected
<1>8. CASE NotifySent
  BY <1>8 DEF NotifySent, clientVars, connected
<1> QED
  BY <1>1, <1>2, <1>3, <1>4, <1>5, <1>6, <1>7, <1>8, QueueFrame

\* What SENT has reported, is about to report and has still to report stay
\* consecutive.
LEMMA SentStep ==
  ASSUME TypeOK, ConnectionInv, SentAccounting, [Next]_vars
  PROVE  SentAccounting'
<1> DEFINE rest == notify \o queue
<1>0. /\ queue \in Seq(WriteQueueBuffer) /\ notify \in Seq(WriteQueueBuffer)
      /\ queue' \in Seq(WriteQueueBuffer) /\ notify' \in Seq(WriteQueueBuffer)
      /\ connected => Covers(rest, acked, tail)
  BY TypeNext, SentCovers DEF TypeOK
<1>c. /\ rest \in Seq(WriteQueueBuffer) /\ rest' \in Seq(WriteQueueBuffer)
      /\ Len(rest) = Len(notify) + Len(queue)
      /\ Len(rest') = Len(notify') + Len(queue')
      /\ \A i \in 1..Len(notify) + Len(queue) :
           rest[i] = IF i <= Len(notify) THEN notify[i] ELSE queue[i - Len(notify)]
      /\ \A i \in 1..Len(notify') + Len(queue') :
           rest'[i] = IF i <= Len(notify') THEN notify'[i] ELSE queue'[i - Len(notify')]
  BY <1>0, ConcatProperties
<1>n. Len(notify) \in Nat /\ Len(queue) \in Nat /\ Len(notify') \in Nat /\ Len(queue') \in Nat
  BY <1>0
<1> SUFFICES ASSUME connected' PROVE Covers(rest', acked', tail')
  BY DEF SentAccounting, Covers
<1> HIDE DEF rest
<1> USE MgrIsThread
<1>1. CASE Unmoved
  BY <1>0, <1>1 DEF Unmoved, rest
<1>2. ASSUME NEW t \in Threads, AddPush(t) PROVE Covers(rest', acked', tail')
  <2> DEFINE new == [lo |-> tail, hi |-> tail + api[t].size, pos |-> tail,
                     err |-> FALSE, conn |-> api[t].conn]
  <2>1. /\ connected /\ notify' = notify /\ acked' = acked
        /\ queue' = Append(queue, new) /\ new.lo = tail /\ new.hi = tail'
    BY <1>2 DEF AddPush, connected, managerVars
  <2> HIDE DEF new
  <2>2. /\ Len(queue') = Len(queue) + 1 /\ queue'[Len(queue) + 1] = new
        /\ \A i \in 1..Len(queue) : queue'[i] = queue[i]
    BY <1>0, <2>1
  <2>3. Len(rest') = Len(rest) + 1
    BY <1>n, <1>c, <2>1, <2>2
  <2>4. rest'[Len(rest')] = new
    BY <1>n, <1>c, <2>1, <2>2
  <2>5. ASSUME NEW i \in 1..Len(rest) PROVE rest'[i] = rest[i]
    BY <1>n, <1>c, <2>1, <2>2
  <2> QED
    BY <1>0, <1>c, <2>1, <2>3, <2>4, <2>5, CoversAppend
<1>3. ASSUME NEW t \in Threads, PassWrite(t) \/ PassError(t)
      PROVE  Covers(rest', acked', tail')
  <2>1. connected /\ notify' = notify /\ acked' = acked /\ tail' = tail
    BY <1>3 DEF PassWrite, PassError, managerVars, historyVars, connected
  <2>2. /\ Len(queue') = Len(queue)
        /\ \A i \in 1..Len(queue) : /\ queue'[i].lo = queue[i].lo
                                    /\ queue'[i].hi = queue[i].hi
    BY <1>3, PassKeepsBytes
  <2>3. Len(rest') = Len(rest)
    BY <1>n, <1>c, <2>1, <2>2
  <2>4. ASSUME NEW i \in 1..Len(rest)
        PROVE  rest'[i].lo = rest[i].lo /\ rest'[i].hi = rest[i].hi
    <3>1. CASE i <= Len(notify)
      BY <1>n, <1>c, <2>1, <2>2, <3>1
    <3>2. CASE i > Len(notify)
      <4>1. i - Len(notify) \in 1..Len(queue)
        BY <1>n, <1>c, <3>2
      <4>2. rest[i] = queue[i - Len(notify)]
        BY <1>n, <1>c, <3>2
      <4>3. rest'[i] = queue'[i - Len(notify')]
        <5>1. i \in 1..Len(notify') + Len(queue') /\ ~(i <= Len(notify'))
          BY <1>n, <1>c, <2>1, <2>2, <3>2
        <5> QED
          BY <1>c, <5>1
      <4> QED
        BY <2>1, <2>2, <4>1, <4>2, <4>3
    <3> QED
      BY <1>n, <3>1, <3>2
  <2> QED
    BY <1>0, <1>c, <2>1, <2>3, <2>4, CoversSame
<1>4. ASSUME NEW t \in Threads, CloseClear(t) \/ ConnectSocket(t) PROVE FALSE
  BY <1>4 DEF ConnectionInv, SenderInv, CallInv, CloseClear, ConnectSocket, connected
<1>5. CASE SockConnected
  <2>1. /\ notify' = <<>> /\ queue' = <<>> /\ acked' = 0 /\ tail' = 0
    BY <1>5 DEF SockConnected, ManagerAt, ConnectionInv, CallInv, EmptyInv, NotifyInv
  <2>2. rest' = <<>>
    BY <1>0, <1>c, <2>1
  <2> QED
    BY <2>1, <2>2 DEF Covers
<1>6. CASE CleanupFront
  <2>1. connected /\ notify = <<>> /\ acked' = acked /\ tail' = tail
    BY <1>6 DEF CleanupFront, ManagerAt, ConnectionInv, NotifyInv, historyVars, connected
  <2>2. rest = queue /\ rest' = queue
    BY <1>0, <1>6, <2>1, ConcatEmptySeq, CleanupMoves DEF rest
  <2> QED
    BY <1>0, <2>1, <2>2
<1>7. CASE NotifySent
  <2>1. connected /\ queue' = queue /\ tail' = tail
    BY <1>7 DEF NotifySent, clientVars, connected
  <2>2. CASE notify = <<>>
    BY <1>0, <1>7, <2>1, <2>2 DEF NotifySent, rest
  <2>3. CASE notify # <<>>
    <3>1. notify' = Tail(notify) /\ acked' = acked + (Head(notify).hi - Head(notify).lo)
      BY <1>7, <2>3 DEF NotifySent
    <3>2. /\ Len(notify) = Len(notify') + 1 /\ Head(notify) = notify[1]
          /\ notify[1] \in WriteQueueBuffer
          /\ \A i \in 1..Len(notify') : notify'[i] = notify[i + 1]
      BY <1>0, <2>3, <3>1
    <3>3. Len(rest) = Len(rest') + 1 /\ rest[1] = notify[1]
      BY <1>n, <1>c, <2>1, <3>2
    <3>4. ASSUME NEW i \in 1..Len(rest') PROVE rest'[i] = rest[i + 1]
      BY <1>n, <1>c, <2>1, <3>2
    <3>5. Covers(rest', rest[1].hi, tail) /\ rest[1].lo = acked
      BY <1>0, <1>c, <2>1, <3>3, <3>4, CoversTail
    <3>6. acked' = rest[1].hi
      BY <3>1, <3>2, <3>3, <3>5 DEF WriteQueueBuffer
    <3> QED
      BY <2>1, <3>5, <3>6
  <2> QED
    BY <2>2, <2>3
<1> QED
  BY <1>1, <1>2, <1>3, <1>4, <1>5, <1>6, <1>7, QueueFrame

\* Under CalledInCallbacks a connection sends only what was added while it was
\* up, for any number of threads that call send() meanwhile.
THEOREM BelongsCorrect == CalledInCallbacks /\ Spec => []QueueBelongsToConnection
<1> SUFFICES ASSUME CalledInCallbacks PROVE Spec => []QueueBelongsToConnection
  OBVIOUS
<1>1. Init => QueueBelongsToConnection
  BY DEF Init, QueueBelongsToConnection
<1>2. TypeOK /\ ConnectionInv /\ QueueBelongsToConnection /\ [Next]_vars
        => QueueBelongsToConnection'
  BY BelongsStep
<1> QED
  BY <1>1, <1>2, ConnectionCorrect, PTL DEF Spec

\* Under CalledInCallbacks SENT reports every accepted byte of a live
\* connection once and in order, whatever sizes are added, whatever lwIP
\* takes of them and whoever calls send().
THEOREM SentCorrect == CalledInCallbacks /\ Spec => []SentAccounting
<1> SUFFICES ASSUME CalledInCallbacks PROVE Spec => []SentAccounting
  OBVIOUS
<1>1. Init => SentAccounting
  BY DEF Init, SentAccounting
<1>2. TypeOK /\ ConnectionInv /\ SentAccounting /\ [Next]_vars => SentAccounting'
  BY SentStep
<1> QED
  BY <1>1, <1>2, ConnectionCorrect, PTL DEF Spec
=============================================================================
