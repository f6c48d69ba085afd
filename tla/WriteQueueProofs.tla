-------------------------- MODULE WriteQueueProofs --------------------------
(***************************************************************************)
(* Proofs about module WriteQueue, for every value of its constants.       *)
(***************************************************************************)
EXTENDS WriteQueue, TLAPS, FiniteSetTheorems, SequenceTheorems

-----------------------------------------------------------------------------
(* Type correctness *)

LEMMA MgrIsThread == Mgr \in Threads
  BY DEF Threads

LEMMA NoCallType == NoCall \in Call
  BY DEF NoCall, Call, CallStep

LEMMA AtStepType == \A s \in CallStep : AtStep(s) \in Call
  BY DEF AtStep, NoCall, Call

LEMMA CallUpdates ==
  ASSUME NEW c \in Call
  PROVE  /\ \A s \in CallStep : [c EXCEPT !.step = s] \in Call
         /\ \A s \in CallStep, n \in Nat : [c EXCEPT !.step = s, !.size = n] \in Call
         /\ \A s \in CallStep, n \in Nat : [c EXCEPT !.step = s, !.lo = n] \in Call
         /\ \A n \in Nat : [c EXCEPT !.total = n] \in Call
         /\ \A n \in Nat : [c EXCEPT !.act = TRUE, !.total = n] \in Call
  BY DEF Call

LEMMA AddCallType ==
  ASSUME NEW size \in Nat, NEW imm \in BOOLEAN, conn \in Nat
  PROVE  [NoCall EXCEPT !.step = "space", !.size = size, !.conn = conn, !.imm = imm]
           \in Call
  BY DEF NoCall, Call, CallStep

LEMMA SizeArithmetic ==
  /\ \A a, n \in Int : Plus(a, n) \in 0..(SizeMod - 1) /\ Minus(a, n) \in 0..(SizeMod - 1)
  /\ \A a, n \in Nat : a + n < SizeMod => Plus(a, n) = a + n
  /\ \A a, n \in Nat : n <= a /\ a < SizeMod => Minus(a, n) = a - n
  BY ConstantsAssumption DEF Plus, Minus

LEMMA BufferUpdates ==
  ASSUME NEW b \in WriteQueueBuffer
  PROVE  /\ [b EXCEPT !.err = TRUE] \in WriteQueueBuffer
         /\ \A n \in Nat : b.pos + n \in Nat
         /\ \A p \in Nat : [b EXCEPT !.pos = p] \in WriteQueueBuffer
<1>1. [b EXCEPT !.err = TRUE] \in WriteQueueBuffer
  BY DEF WriteQueueBuffer
<1>2. \A n \in Nat : b.pos + n \in Nat
  BY DEF WriteQueueBuffer
<1>3. \A p \in Nat : [b EXCEPT !.pos = p] \in WriteQueueBuffer
  BY DEF WriteQueueBuffer
<1> QED
  BY <1>1, <1>2, <1>3

LEMMA QueueUpdates ==
  ASSUME NEW q \in Seq(WriteQueueBuffer), NEW i \in DOMAIN q, NEW b \in WriteQueueBuffer
  PROVE  /\ [q EXCEPT ![i] = b] \in Seq(WriteQueueBuffer)
         /\ Len([q EXCEPT ![i] = b]) = Len(q)
         /\ DOMAIN [q EXCEPT ![i] = b] = DOMAIN q
  BY ExceptSeq

\* The write queue stays a queue of buffers.
LEMMA QueueType ==
  ASSUME TypeOK, NEW t \in Threads,
         AddPush(t) \/ PassWrite(t) \/ PassError(t)
  PROVE  queue' \in Seq(WriteQueueBuffer)
<1>1. queue \in Seq(WriteQueueBuffer) /\ api[t] \in Call /\ tail \in Nat /\ room \in Nat
  BY ConstantsAssumption DEF TypeOK
<1>2. CASE AddPush(t)
  <2>1. [lo |-> tail, hi |-> tail + api[t].size, pos |-> tail,
         err |-> FALSE, conn |-> api[t].conn] \in WriteQueueBuffer
    BY <1>1 DEF WriteQueueBuffer, Call
  <2> QED
    BY <1>1, <1>2, <2>1, AppendProperties DEF AddPush
<1>3. CASE PassWrite(t)
  <2>1. PICK i \in DOMAIN queue : \E n \in lwip_write(i) :
          queue' = [queue EXCEPT ![i].pos = @ + n]
    BY <1>3 DEF PassWrite
  <2>2. PICK n \in lwip_write(i) : queue' = [queue EXCEPT ![i].pos = @ + n]
    BY <2>1
  <2>3. n \in Nat
    BY <1>1 DEF lwip_write
  <2>4. queue[i] \in WriteQueueBuffer
    BY <1>1
  <2>5. [queue[i] EXCEPT !.pos = queue[i].pos + n] \in WriteQueueBuffer
    BY <2>3, <2>4, BufferUpdates
  <2> QED
    BY <1>1, <2>2, <2>5, QueueUpdates
<1>4. CASE PassError(t)
  <2>1. PICK i \in DOMAIN queue : queue' = [queue EXCEPT ![i].err = TRUE]
    BY <1>4 DEF PassError
  <2>2. [queue[i] EXCEPT !.err = TRUE] \in WriteQueueBuffer
    BY <1>1, BufferUpdates
  <2> QED
    BY <1>1, <2>1, <2>2, QueueUpdates
<1> QED
  BY <1>2, <1>3, <1>4

LEMMA TypeInit == Init => TypeOK
<1> SUFFICES ASSUME Init PROVE TypeOK
  OBVIOUS
<1>1. api \in [Threads -> Call]
  BY NoCallType DEF Init, Constructed
<1>2. queue \in Seq(WriteQueueBuffer) /\ notify \in Seq(WriteQueueBuffer)
  BY DEF Init, Constructed
<1>3. /\ space \in 0..(SizeMod - 1) /\ room \in 0..TCP_SND_BUF /\ cursor \in Nat
      /\ tail \in Nat /\ acked \in Int /\ conn \in Nat
  BY ConstantsAssumption DEF Init, Constructed
<1>4. /\ state \in ConnectionState /\ socket \in BOOLEAN /\ signaled \in BOOLEAN
      /\ mpc \in ManagerStep /\ after \in {"read", "poll", "timeouts"}
      /\ ready \in SUBSET {"r", "w"} /\ peer \in {"open", "eof", "reset"}
      /\ mutex \in Threads \cup {NoOne}
  BY DEF Init, Constructed, ConnectionState, ManagerStep
<1> QED
  BY <1>1, <1>2, <1>3, <1>4 DEF TypeOK

LEMMA TypeNext == TypeOK /\ [Next]_vars => TypeOK'
<1> SUFFICES ASSUME TypeOK, [Next]_vars
             PROVE  TypeOK'
  OBVIOUS
<1>a. api \in [Threads -> Call] /\ \A t \in Threads : api[t] \in Call
  BY DEF TypeOK
<1>n. /\ space \in Nat /\ room \in Nat /\ tail \in Nat /\ conn \in Nat /\ acked \in Int
      /\ \A t \in Threads : api[t].size \in Nat /\ api[t].total \in Nat
  BY <1>a, ConstantsAssumption DEF TypeOK, Call

<1>1. ASSUME NEW t \in Threads, AddBegin(t)
       PROVE  TypeOK'
  <2>1. PICK size \in 1..MaxSize, imm \in (IF t \in Senders THEN BOOLEAN ELSE {FALSE}) :
          api' = [api EXCEPT ![t] = [NoCall EXCEPT !.step = "space", !.size = size,
                                                   !.conn = conn, !.imm = imm]]
    BY <1>1 DEF AddBegin
  <2>2. size \in Nat
    BY ConstantsAssumption
  <2>3. imm \in BOOLEAN
    OBVIOUS
  <2>4. [NoCall EXCEPT !.step = "space", !.size = size, !.conn = conn, !.imm = imm] \in Call
    BY <1>n, <2>2, <2>3, AddCallType
  <2>api. api' \in [Threads -> Call]
    BY <1>a, <2>1, <2>4
  <2> QED
    BY <1>1, <2>1, <2>2, <2>3, <2>4, <2>api DEF TypeOK, AddBegin, clientVars, managerVars, kernelVars, historyVars
<1>2. ASSUME NEW t \in Threads, SendCall(t)
       PROVE  TypeOK'
  <2>api. api' \in [Threads -> Call]
    BY <1>2, <1>a, <1>n, CallUpdates, NoCallType, AtStepType, MgrIsThread DEF SendCall, CallStep
  <2> QED
    BY <1>2, <2>api DEF TypeOK, SendCall, clientVars, managerVars, kernelVars, historyVars
<1>3. ASSUME NEW t \in Threads, CloseCall(t)
       PROVE  TypeOK'
  <2>api. api' \in [Threads -> Call]
    BY <1>3, <1>a, <1>n, CallUpdates, NoCallType, AtStepType, MgrIsThread DEF CloseCall, CallStep
  <2> QED
    BY <1>3, <2>api DEF TypeOK, CloseCall, clientVars, managerVars, kernelVars, historyVars
<1>4. ASSUME NEW t \in Threads, ConnectCall(t)
       PROVE  TypeOK'
  <2>api. api' \in [Threads -> Call]
    BY <1>4, <1>a, <1>n, CallUpdates, NoCallType, AtStepType, MgrIsThread DEF ConnectCall, CallStep
  <2> QED
    BY <1>4, <2>api DEF TypeOK, ConnectCall, clientVars, managerVars, kernelVars, historyVars
<1>5. ASSUME NEW t \in Threads, AddSpace(t)
       PROVE  TypeOK'
  <2> DEFINE next == IF space = 0 THEN NoCall
                     ELSE [api[t] EXCEPT !.step = "push", !.size = Least(space, api[t].size)]
  <2>1. Least(space, api[t].size) \in Nat
    BY <1>n DEF Least
  <2>2. next \in Call
    BY <1>a, <2>1, CallUpdates, NoCallType DEF CallStep
  <2>3. api' = [api EXCEPT ![t] = next]
    BY <1>5 DEF AddSpace
  <2>api. api' \in [Threads -> Call]
    BY <1>a, <2>2, <2>3
  <2> QED
    BY <1>5, <2>1, <2>2, <2>3, <2>api DEF TypeOK, AddSpace, clientVars, managerVars, kernelVars, historyVars
<1>6. ASSUME NEW t \in Threads, AddPush(t)
       PROVE  TypeOK'
  <2>1. [api[t] EXCEPT !.step = "send", !.lo = tail] \in Call
    BY <1>a, <1>n, CallUpdates DEF CallStep
  <2>api. api' \in [Threads -> Call]
    BY <1>6, <1>a, <2>1, NoCallType DEF AddPush
  <2>3. queue' \in Seq(WriteQueueBuffer)
    BY <1>6, QueueType
  <2>4. space' \in 0..(SizeMod - 1) /\ tail' \in Nat
    BY <1>6, <1>n, SizeArithmetic DEF AddPush
  <2> QED
    BY <1>6, <2>1, <2>api, <2>3, <2>4 DEF TypeOK, AddPush, managerVars, kernelVars
<1>7. ASSUME NEW t \in Threads, SendSelect(t)
       PROVE  TypeOK'
  <2>1. [api[t] EXCEPT !.step = "sendLock"] \in Call
    BY <1>a, CallUpdates DEF CallStep
  <2>api. api' \in [Threads -> Call]
    BY <1>7, <1>a, <2>1, NoCallType DEF SendSelect
  <2> QED
    BY <1>7, <2>1, <2>api DEF TypeOK, SendSelect, clientVars, managerVars, kernelVars, historyVars
<1>8. ASSUME NEW t \in Threads, SendLock(t)
       PROVE  TypeOK'
  <2>1. [api[t] EXCEPT !.step = "pass"] \in Call
    BY <1>a, CallUpdates DEF CallStep
  <2>api. api' \in [Threads -> Call]
    BY <1>8, <1>a, <2>1, NoCallType DEF SendLock
  <2> QED
    BY <1>8, <2>1, <2>api DEF TypeOK, SendLock, managerVars, kernelVars, historyVars, ConnectionState
<1>9. ASSUME NEW t \in Threads, PassWrite(t)
       PROVE  TypeOK'
  <2>1. PICK i \in DOMAIN queue : \E n \in lwip_write(i) :
          /\ room' = room - n
          /\ cursor' = IF queue[i].pos + n = queue[i].hi THEN i + 1 ELSE i
          /\ space' = IF queue[i].pos + n = queue[i].hi
                      THEN Plus(space, api[t].total + n) ELSE space
          /\ api' = [api EXCEPT ![t] = [@ EXCEPT !.act = TRUE, !.total =
                       IF queue[i].pos + n = queue[i].hi THEN 0 ELSE api[t].total + n]]
    BY <1>9 DEF PassWrite
  <2>2. PICK n \in lwip_write(i) :
          /\ room' = room - n
          /\ cursor' = IF queue[i].pos + n = queue[i].hi THEN i + 1 ELSE i
          /\ space' = IF queue[i].pos + n = queue[i].hi
                      THEN Plus(space, api[t].total + n) ELSE space
          /\ api' = [api EXCEPT ![t] = [@ EXCEPT !.act = TRUE, !.total =
                       IF queue[i].pos + n = queue[i].hi THEN 0 ELSE api[t].total + n]]
    BY <2>1
  <2>3. n \in Nat /\ n <= room
    BY <1>n DEF lwip_write
  <2>4. \A k \in Nat : [api[t] EXCEPT !.act = TRUE, !.total = k] \in Call
    BY <1>a, CallUpdates
  <2>k. (IF queue[i].pos + n = queue[i].hi THEN 0 ELSE api[t].total + n) \in Nat
    BY <1>n, <2>3
  <2>api. api' \in [Threads -> Call]
    BY <1>a, <2>2, <2>4, <2>k
  <2>5. queue' \in Seq(WriteQueueBuffer)
    BY <1>9, QueueType
  <2>6. space' \in 0..(SizeMod - 1)
    <3>1. space \in Int /\ api[t].total + n \in Int
      BY <1>n, <2>3
    <3>2. Plus(space, api[t].total + n) \in 0..(SizeMod - 1)
      BY <3>1, SizeArithmetic
    <3> QED
      BY <2>2, <3>2 DEF TypeOK
  <2>8. room' \in 0..TCP_SND_BUF
    BY <2>2, <2>3, ConstantsAssumption DEF TypeOK
  <2>7. cursor' \in Nat
    BY <2>2 DEF TypeOK
  <2> QED
    BY <1>9, <2>1, <2>2, <2>3, <2>4, <2>k, <2>api, <2>5, <2>6, <2>8, <2>7 DEF TypeOK, PassWrite, managerVars, historyVars
<1>10. ASSUME NEW t \in Threads, PassBlocked(t)
       PROVE  TypeOK'
  <2>1. \A k \in Nat : [api[t] EXCEPT !.total = k] \in Call
    BY <1>a, CallUpdates
  <2>api. api' \in [Threads -> Call]
    BY <1>10, <1>a, <2>1 DEF PassBlocked
  <2>2. cursor' \in Nat
    BY <1>10 DEF PassBlocked, TypeOK
  <2>3. space' \in 0..(SizeMod - 1)
    BY <1>10, <1>n, SizeArithmetic DEF PassBlocked
  <2> QED
    BY <1>10, <2>1, <2>api, <2>2, <2>3 DEF TypeOK, PassBlocked, managerVars, kernelVars, historyVars
<1>11. ASSUME NEW t \in Threads, PassError(t)
       PROVE  TypeOK'
  <2>1. \A k \in Nat : [api[t] EXCEPT !.total = k] \in Call
    BY <1>a, CallUpdates
  <2>api. api' \in [Threads -> Call]
    BY <1>11, <1>a, <2>1 DEF PassError
  <2>2. cursor' \in Nat
    BY <1>11 DEF PassError, TypeOK
  <2>3. space' \in 0..(SizeMod - 1)
    BY <1>11, <1>n, SizeArithmetic DEF PassError
  <2>4. queue' \in Seq(WriteQueueBuffer)
    BY <1>11, QueueType
  <2> QED
    BY <1>11, <2>1, <2>api, <2>2, <2>3, <2>4 DEF TypeOK, PassError, managerVars, kernelVars, historyVars
<1>12. ASSUME NEW t \in Threads, PassEnd(t)
       PROVE  TypeOK'
  <2>api. api' \in [Threads -> Call]
    BY <1>12, <1>a, <1>n, CallUpdates, NoCallType, AtStepType, MgrIsThread DEF PassEnd, CallStep
  <2> QED
    BY <1>12, <2>api DEF TypeOK, PassEnd, managerVars, kernelVars, historyVars
<1>13. ASSUME NEW t \in Threads, CloseState(t)
       PROVE  TypeOK'
  <2>api. api' \in [Threads -> Call]
    BY <1>13, <1>a, <1>n, CallUpdates, NoCallType, AtStepType, MgrIsThread DEF CloseState, CallStep
  <2> QED
    BY <1>13, <2>api DEF TypeOK, CloseState, managerVars, kernelVars, historyVars, ConnectionState
<1>14. ASSUME NEW t \in Threads, CloseSocket(t)
       PROVE  TypeOK'
  <2>api. api' \in [Threads -> Call]
    BY <1>14, <1>a, <1>n, CallUpdates, NoCallType, AtStepType, MgrIsThread DEF CloseSocket, CallStep
  <2> QED
    BY <1>14, <2>api DEF TypeOK, CloseSocket, managerVars, kernelVars, historyVars
<1>15. ASSUME NEW t \in Threads, CloseClear(t)
       PROVE  TypeOK'
  <2>api. api' \in [Threads -> Call]
    BY <1>15, <1>a, <1>n, CallUpdates, NoCallType, AtStepType, MgrIsThread DEF CloseClear, CallStep
  <2> QED
    BY <1>15, <2>api, ConstantsAssumption DEF TypeOK, CloseClear, managerVars, kernelVars
<1>16. ASSUME NEW t \in Threads, ConnectState(t)
       PROVE  TypeOK'
  <2>api. api' \in [Threads -> Call]
    BY <1>16, <1>a, <1>n, CallUpdates, NoCallType, AtStepType, MgrIsThread DEF ConnectState, CallStep
  <2> QED
    BY <1>16, <2>api DEF TypeOK, ConnectState, managerVars, kernelVars, historyVars, ConnectionState
<1>17. ASSUME NEW t \in Threads, ConnectSocket(t)
       PROVE  TypeOK'
  <2>api. api' \in [Threads -> Call]
    BY <1>17, <1>a, <1>n, CallUpdates, NoCallType, AtStepType, MgrIsThread DEF ConnectSocket, CallStep
  <2> QED
    BY <1>17, <2>api, ConstantsAssumption DEF TypeOK, ConnectSocket, managerVars
<1>18. CASE Select
  BY <1>18 DEF TypeOK, Select, clientVars, kernelVars, historyVars, ManagerStep, ClientCallbackType
<1>19. CASE CollectWriteable
  BY <1>19 DEF TypeOK, CollectWriteable, clientVars, kernelVars, historyVars, ManagerStep, ClientCallbackType
<1>20. CASE SockIsWriteable
  BY <1>20 DEF TypeOK, SockIsWriteable, clientVars, kernelVars, historyVars, ManagerStep, ClientCallbackType
<1>21. CASE SockConnected
  <2>1. acked' \in Int
    BY <1>21 DEF SockConnected
  <2>2. state' \in ConnectionState /\ mpc' \in ManagerStep /\ signaled' \in BOOLEAN
    BY <1>21 DEF SockConnected, ConnectionState, ManagerStep, ClientCallbackType
  <2> QED
    BY <1>21, <2>1, <2>2 DEF TypeOK, SockConnected, kernelVars
<1>22. CASE SockDrain
  <2>api. api' \in [Threads -> Call]
    BY <1>22, <1>a, <1>n, CallUpdates, NoCallType, AtStepType, MgrIsThread DEF SockDrain, CallStep
  <2> QED
    BY <1>22, <2>api, MgrIsThread DEF TypeOK, SockDrain, kernelVars, historyVars, ConnectionState, ManagerStep, ClientCallbackType
<1>23. CASE CleanupError
  BY <1>23 DEF TypeOK, CleanupError, kernelVars, historyVars, ManagerStep, ClientCallbackType
<1>42. CASE ReadErrorCode
  BY <1>42 DEF TypeOK, ReadErrorCode, clientVars, kernelVars, historyVars, ManagerStep, ClientCallbackType
<1>24. CASE CleanupFront
  <2>1. PICK n \in 0..Len(queue) :
          notify' = SubSeq(queue, 1, n) /\ queue' = SubSeq(queue, n + 1, Len(queue))
    BY <1>24 DEF CleanupFront
  <2>2. queue \in Seq(WriteQueueBuffer)
    BY DEF TypeOK
  <2>3. notify' \in Seq(WriteQueueBuffer) /\ queue' \in Seq(WriteQueueBuffer)
    BY <2>1, <2>2, SubSeqProperties
  <2> QED
    BY <1>24, <2>1, <2>2, <2>3 DEF TypeOK, CleanupFront, kernelVars, historyVars, ManagerStep, ClientCallbackType
<1>25. CASE NotifySent
  <2>1. notify \in Seq(WriteQueueBuffer) /\ acked \in Int
    BY DEF TypeOK
  <2>2. CASE notify = <<>>
    BY <1>25, <2>2 DEF NotifySent, TypeOK, ManagerStep, clientVars, kernelVars
  <2>3. CASE notify # <<>>
    <3>1. Head(notify) \in WriteQueueBuffer /\ notify' \in Seq(WriteQueueBuffer)
      BY <1>25, <2>1, <2>3 DEF NotifySent
    <3>2. acked' = acked + (Head(notify).hi - Head(notify).lo)
      BY <1>25, <2>3 DEF NotifySent
    <3>3. acked' \in Int
      BY <2>1, <3>1, <3>2 DEF WriteQueueBuffer
    <3> QED
      BY <1>25, <2>3, <3>1, <3>3
      DEF NotifySent, TypeOK, ManagerStep, ClientCallbackType, clientVars, kernelVars
  <2> QED
    BY <2>2, <2>3
<1>26. CASE CollectReadable
  BY <1>26 DEF TypeOK, CollectReadable, clientVars, kernelVars, historyVars, ManagerStep, ClientCallbackType
<1>27. CASE SockIsReadable
  <2>api. api' \in [Threads -> Call]
    BY <1>27, <1>a, <1>n, CallUpdates, NoCallType, AtStepType, MgrIsThread DEF SockIsReadable, CallStep
  <2> QED
    BY <1>27, <2>api DEF TypeOK, SockIsReadable, clientVars, kernelVars, historyVars, ManagerStep, ClientCallbackType
<1>28. CASE SockPoll
  BY <1>28 DEF TypeOK, SockPoll, clientVars, kernelVars, historyVars, ManagerStep, ClientCallbackType
<1>29. CASE PollCleanup
  BY <1>29, MgrIsThread DEF TypeOK, PollCleanup, kernelVars, historyVars, ManagerStep, ClientCallbackType
<1>30. CASE PollConnected
  BY <1>30 DEF TypeOK, PollConnected, clientVars, kernelVars, historyVars, ManagerStep, ClientCallbackType
<1>31. CASE AckTimeout
  BY <1>31 DEF TypeOK, AckTimeout, kernelVars, historyVars, ManagerStep, ClientCallbackType
<1>32. CASE NoAckTimeout
  BY <1>32 DEF TypeOK, NoAckTimeout, clientVars, kernelVars, historyVars, ManagerStep, ClientCallbackType
<1>33. CASE RxTimeout
  <2>api. api' \in [Threads -> Call]
    BY <1>33, <1>a, <1>n, CallUpdates, NoCallType, AtStepType, MgrIsThread DEF RxTimeout, CallStep
  <2> QED
    BY <1>33, <2>api DEF TypeOK, RxTimeout, clientVars, kernelVars, historyVars, ManagerStep, ClientCallbackType
<1>34. CASE NoRxTimeout
  BY <1>34 DEF TypeOK, NoRxTimeout, clientVars, kernelVars, historyVars, ManagerStep, ClientCallbackType
<1>35. CASE ProcessingDone
  BY <1>35 DEF TypeOK, ProcessingDone, clientVars, kernelVars, historyVars, ManagerStep, ClientCallbackType
<1>36. CASE FireDisconnect
  BY <1>36 DEF TypeOK, FireDisconnect, kernelVars, historyVars, ConnectionState, ManagerStep, ClientCallbackType
<1>37. CASE CallbackReturn
  <2>api. api' \in [Threads -> Call]
    BY <1>37, <1>a, <1>n, CallUpdates, NoCallType, AtStepType, MgrIsThread DEF CallbackReturn, CallStep
  <2> QED
    BY <1>37, <2>api DEF TypeOK, CallbackReturn, clientVars, kernelVars, historyVars, ManagerStep, ClientCallbackType
<1>38. CASE SelectFails
  BY <1>38 DEF TypeOK, SelectFails, clientVars, kernelVars, historyVars, ManagerStep, ClientCallbackType
<1>39. CASE KernelAck
  BY <1>39, ConstantsAssumption DEF TypeOK, KernelAck, clientVars, managerVars, historyVars
<1>40. CASE PeerLeaves
  BY <1>40 DEF TypeOK, PeerLeaves, clientVars, managerVars, historyVars
<1>41. CASE UNCHANGED vars
  BY <1>41 DEF TypeOK, vars, clientVars, managerVars, kernelVars, historyVars
<1> QED
  BY <1>1, <1>2, <1>3, <1>4, <1>5, <1>6, <1>7, <1>8, <1>9, <1>10, <1>11, <1>12, <1>13, <1>14, <1>15, <1>16, <1>17, <1>18, <1>19, <1>20, <1>21, <1>22, <1>23, <1>24, <1>25, <1>26, <1>27, <1>28, <1>29, <1>30, <1>31, <1>32, <1>33, <1>34, <1>35, <1>36, <1>37, <1>38, <1>39, <1>40, <1>41, <1>42
  DEF Next, UserCall, CallProgress, ManagerProgress

-----------------------------------------------------------------------------
(* The mutex *)

\* Library calls that user code makes on the manager task are made inside a
\* callback, and the handlers' own pass is followed by the cleanup.
CallsInCallbacks ==
  /\ api[Mgr].step \in {"space", "push", "send", "sendLock"} => mpc \in ClientCallbackType
  /\ api[Mgr].step = "pass" => mpc \in ClientCallbackType \cup {"cleanup"}

MutexInv == MutexDiscipline /\ CallsInCallbacks

LEMMA MutexInit == Init => MutexInv
  BY MgrIsThread DEF Init, Constructed, MutexInv, MutexDiscipline, CallsInCallbacks, NoCall

LEMMA MutexNext == TypeOK /\ MutexInv /\ [Next]_vars => MutexInv'
<1> SUFFICES ASSUME TypeOK, MutexInv, [Next]_vars
             PROVE  MutexInv'
  OBVIOUS
<1>a. api \in [Threads -> Call] /\ \A t \in Threads : api[t] \in Call
  BY DEF TypeOK
<1>b. after \in {"read", "poll", "timeouts"}
  BY DEF TypeOK
<1>c. mutex \in Threads \cup {NoOne}
  BY DEF TypeOK
<1> USE MgrIsThread DEF MutexInv, MutexDiscipline, CallsInCallbacks, ClientCallbackType, ManagerAt

<1>1. ASSUME NEW t \in Threads, AddBegin(t)
       PROVE  MutexInv'
  BY <1>1, <1>a, ConstantsAssumption DEF AddBegin, MayCall, NoCall, clientVars, managerVars, kernelVars, historyVars, Call
<1>2. ASSUME NEW t \in Threads, SendCall(t)
       PROVE  MutexInv'
  BY <1>2, <1>a, ConstantsAssumption DEF SendCall, MayCall, AtStep, NoCall, clientVars, managerVars, kernelVars, historyVars, Call
<1>3. ASSUME NEW t \in Threads, CloseCall(t)
       PROVE  MutexInv'
  BY <1>3, <1>a, ConstantsAssumption DEF CloseCall, MayCall, AtStep, NoCall, clientVars, managerVars, kernelVars, historyVars, Call
<1>4. ASSUME NEW t \in Threads, ConnectCall(t)
       PROVE  MutexInv'
  BY <1>4, <1>a, ConstantsAssumption DEF ConnectCall, MayCall, AtStep, NoCall, clientVars, managerVars, kernelVars, historyVars, Call
<1>5. ASSUME NEW t \in Threads, AddSpace(t)
       PROVE  MutexInv'
  BY <1>5, <1>a, ConstantsAssumption DEF AddSpace, NoCall, clientVars, managerVars, kernelVars, historyVars, Call
<1>6. ASSUME NEW t \in Threads, AddPush(t)
       PROVE  MutexInv'
  BY <1>6, <1>a, ConstantsAssumption DEF AddPush, NoCall, managerVars, kernelVars, Call
<1>7. ASSUME NEW t \in Threads, SendSelect(t)
       PROVE  MutexInv'
  BY <1>7, <1>a, ConstantsAssumption DEF SendSelect, NoCall, clientVars, managerVars, kernelVars, historyVars, Call
<1>8. ASSUME NEW t \in Threads, SendLock(t)
       PROVE  MutexInv'
  <2>1. CASE queue = <<>>
    <3>1. api' = [api EXCEPT ![t] = NoCall] /\ mutex' = mutex /\ mpc' = mpc
      BY <1>8, <2>1 DEF SendLock, managerVars
    <3> QED
      BY <1>8, <3>1, <1>a DEF SendLock, NoCall
  <2>2. CASE queue # <<>>
    <3>1. api' = [api EXCEPT ![t].step = "pass"] /\ mutex' = t /\ mpc' = mpc
      BY <1>8, <2>2 DEF SendLock, managerVars
    <3>2. api'[t].step = "pass" /\ \A u \in Threads \ {t} : api'[u] = api[u]
      BY <3>1, <1>a DEF Call
    <3> QED
      BY <1>8, <3>1, <3>2, <1>a, ConstantsAssumption DEF SendLock
  <2> QED
    BY <2>1, <2>2
<1>9. ASSUME NEW t \in Threads, PassWrite(t)
       PROVE  MutexInv'
  BY <1>9, <1>a, ConstantsAssumption DEF PassWrite, managerVars, historyVars, Call
<1>10. ASSUME NEW t \in Threads, PassBlocked(t)
       PROVE  MutexInv'
  BY <1>10, <1>a, ConstantsAssumption DEF PassBlocked, managerVars, kernelVars, historyVars, Call
<1>11. ASSUME NEW t \in Threads, PassError(t)
       PROVE  MutexInv'
  BY <1>11, <1>a, ConstantsAssumption DEF PassError, managerVars, kernelVars, historyVars, Call
<1>12. ASSUME NEW t \in Threads, PassEnd(t)
       PROVE  MutexInv'
  BY <1>12, <1>a, ConstantsAssumption DEF PassEnd, InUserCall, NoCall, managerVars, kernelVars, historyVars, Call
<1>13. ASSUME NEW t \in Threads, CloseState(t)
       PROVE  MutexInv'
  BY <1>13, <1>a, ConstantsAssumption DEF CloseState, managerVars, kernelVars, historyVars, Call
<1>14. ASSUME NEW t \in Threads, CloseSocket(t)
       PROVE  MutexInv'
  BY <1>14, <1>a, ConstantsAssumption DEF CloseSocket, managerVars, kernelVars, historyVars, Call
<1>15. ASSUME NEW t \in Threads, CloseClear(t)
       PROVE  MutexInv'
  BY <1>15, <1>a, ConstantsAssumption DEF CloseClear, NoCall, managerVars, kernelVars, Call
<1>16. ASSUME NEW t \in Threads, ConnectState(t)
       PROVE  MutexInv'
  BY <1>16, <1>a, ConstantsAssumption DEF ConnectState, managerVars, kernelVars, historyVars, Call
<1>17. ASSUME NEW t \in Threads, ConnectSocket(t)
       PROVE  MutexInv'
  BY <1>17, <1>a, ConstantsAssumption DEF ConnectSocket, NoCall, managerVars, Call
<1>18. CASE Select
  BY <1>18, <1>a, ConstantsAssumption DEF Select, clientVars, kernelVars, historyVars
<1>19. CASE CollectWriteable
  BY <1>19, <1>a, ConstantsAssumption DEF CollectWriteable, clientVars, kernelVars, historyVars
<1>20. CASE SockIsWriteable
  BY <1>20, <1>a, ConstantsAssumption DEF SockIsWriteable, clientVars, kernelVars, historyVars
<1>21. CASE SockConnected
  BY <1>21, <1>a, ConstantsAssumption DEF SockConnected, kernelVars
<1>22. CASE SockDrain
  BY <1>22, <1>a, ConstantsAssumption DEF SockDrain, AtStep, NoCall, kernelVars, historyVars, Call
<1>23. CASE CleanupError
  BY <1>23, <1>a, ConstantsAssumption DEF CleanupError, kernelVars, historyVars
<1>42. CASE ReadErrorCode
  BY <1>42, <1>a, ConstantsAssumption DEF ReadErrorCode, clientVars, kernelVars, historyVars
<1>24. CASE CleanupFront
  BY <1>24, <1>a, ConstantsAssumption DEF CleanupFront, kernelVars, historyVars
<1>25. CASE NotifySent
  <2>1. api' = api /\ mutex' = mutex /\ mpc' # "cleanup" /\ ManagerAt("notify")
    BY <1>25, <1>b DEF NotifySent, clientVars
  <2> QED
    BY <2>1, ConstantsAssumption
<1>26. CASE CollectReadable
  BY <1>26, <1>a, ConstantsAssumption DEF CollectReadable, clientVars, kernelVars, historyVars
<1>27. CASE SockIsReadable
  <2>1. /\ mutex' = mutex /\ mpc' # "cleanup" /\ ManagerAt("readable")
        /\ api' = api \/ api' = [api EXCEPT ![Mgr] = AtStep("close")]
    BY <1>27 DEF SockIsReadable, clientVars
  <2>2. api'[Mgr].step \in {"none", "close"} /\ \A u \in Threads \ {Mgr} : api'[u] = api[u]
    BY <2>1, <1>a DEF AtStep, NoCall
  <2> QED
    BY <2>1, <2>2, <1>c, ConstantsAssumption
<1>28. CASE SockPoll
  BY <1>28, <1>a, ConstantsAssumption DEF SockPoll, clientVars, kernelVars, historyVars
<1>29. CASE PollCleanup
  BY <1>29, <1>a, ConstantsAssumption DEF PollCleanup, kernelVars, historyVars
<1>30. CASE PollConnected
  BY <1>30, <1>a, ConstantsAssumption DEF PollConnected, clientVars, kernelVars, historyVars
<1>31. CASE AckTimeout
  BY <1>31, <1>a, ConstantsAssumption DEF AckTimeout, kernelVars, historyVars
<1>32. CASE NoAckTimeout
  BY <1>32, <1>a, ConstantsAssumption DEF NoAckTimeout, clientVars, kernelVars, historyVars
<1>33. CASE RxTimeout
  BY <1>33, <1>a, ConstantsAssumption DEF RxTimeout, AtStep, NoCall, clientVars, kernelVars, historyVars, Call
<1>34. CASE NoRxTimeout
  BY <1>34, <1>a, ConstantsAssumption DEF NoRxTimeout, clientVars, kernelVars, historyVars
<1>35. CASE ProcessingDone
  BY <1>35, <1>a, ConstantsAssumption DEF ProcessingDone, clientVars, kernelVars, historyVars
<1>36. CASE FireDisconnect
  BY <1>36, <1>a, ConstantsAssumption DEF FireDisconnect, kernelVars, historyVars
<1>37. CASE CallbackReturn
  <2>1. /\ mutex' = mutex /\ mpc' # "cleanup" /\ mpc # "cleanup" /\ api[Mgr].step = "none"
        /\ api' = api \/ api' = [api EXCEPT ![Mgr] = AtStep("close")]
    BY <1>37, <1>b DEF CallbackReturn, clientVars
  <2>2. api'[Mgr].step \in {"none", "close"} /\ \A u \in Threads \ {Mgr} : api'[u] = api[u]
    BY <2>1, <1>a DEF AtStep, NoCall
  <2> QED
    BY <2>1, <2>2, <1>c, ConstantsAssumption
<1>38. CASE SelectFails
  BY <1>38, <1>a, ConstantsAssumption DEF SelectFails, clientVars, kernelVars, historyVars
<1>39. CASE KernelAck
  BY <1>39, <1>a, ConstantsAssumption DEF KernelAck, clientVars, managerVars, historyVars
<1>40. CASE PeerLeaves
  BY <1>40, <1>a, ConstantsAssumption DEF PeerLeaves, clientVars, managerVars, historyVars
<1>41. CASE UNCHANGED vars
  BY <1>41 DEF vars, clientVars, managerVars, kernelVars, historyVars
<1> QED
  BY <1>1, <1>2, <1>3, <1>4, <1>5, <1>6, <1>7, <1>8, <1>9, <1>10, <1>11, <1>12, <1>13, <1>14, <1>15, <1>16, <1>17, <1>18, <1>19, <1>20, <1>21, <1>22, <1>23, <1>24, <1>25, <1>26, <1>27, <1>28, <1>29, <1>30, <1>31, <1>32, <1>33, <1>34, <1>35, <1>36, <1>37, <1>38, <1>39, <1>40, <1>41, <1>42
  DEF Next, UserCall, CallProgress, ManagerProgress

-----------------------------------------------------------------------------
(* The unsent bytes of a queue *)

\* The buffers of a queue are consecutive, and end before byte n.
LaidOut(q, n) ==
  /\ \A i \in DOMAIN q : q[i].lo <= q[i].pos /\ q[i].pos <= q[i].hi /\ q[i].hi <= n
  /\ \A i, j \in DOMAIN q : i < j => q[i].hi <= q[j].lo

LEMMA BufferFields ==
  ASSUME NEW q \in Seq(WriteQueueBuffer), NEW i \in DOMAIN q
  PROVE  q[i] \in WriteQueueBuffer /\ q[i].lo \in Nat /\ q[i].hi \in Nat /\ q[i].pos \in Nat
<1>1. q[i] \in WriteQueueBuffer
  OBVIOUS
<1> QED
  BY <1>1 DEF WriteQueueBuffer

LEMMA UnsentElement ==
  ASSUME NEW q, NEW b
  PROVE  b \in UnsentIn(q) <=>
           \E i \in DOMAIN q : b \in Int /\ q[i].pos <= b /\ b <= q[i].hi - 1
  BY DEF UnsentIn, UnsentOf

LEMMA UnsentFinite ==
  ASSUME NEW q \in Seq(WriteQueueBuffer), NEW n \in Nat, LaidOut(q, n)
  PROVE  /\ IsFiniteSet(UnsentIn(q))
         /\ Cardinality(UnsentIn(q)) \in Nat
         /\ \A b \in UnsentIn(q) : b \in Nat /\ b < n
<1>1. \A b \in UnsentIn(q) : b \in Nat /\ b < n
  <2> SUFFICES ASSUME NEW b \in UnsentIn(q)
               PROVE  b \in Nat /\ b < n
    OBVIOUS
  <2>1. PICK i \in DOMAIN q : b \in Int /\ q[i].pos <= b /\ b <= q[i].hi - 1
    BY UnsentElement
  <2>2. q[i].pos \in Nat /\ q[i].hi \in Nat /\ q[i].hi <= n
    BY BufferFields DEF LaidOut
  <2> QED
    BY <2>1, <2>2
<1>2. UnsentIn(q) \in SUBSET Nat /\ \A b \in UnsentIn(q) : b <= n
  BY <1>1
<1>3. IsFiniteSet(UnsentIn(q))
  BY <1>2, FS_BoundedSetOfNaturals
<1> QED
  BY <1>1, <1>3, FS_CardinalityType

LEMMA UnsentEmpty == LaidOut(<<>>, 0) /\ UnsentIn(<<>>) = {} /\ Cardinality({}) = 0
<1>1. DOMAIN <<>> = {}
  OBVIOUS
<1> QED
  BY <1>1, FS_EmptySet DEF LaidOut, UnsentIn

LEMMA IntervalSize ==
  ASSUME NEW a \in Nat, NEW k \in Nat
  PROVE  IsFiniteSet(a..(a + k - 1)) /\ Cardinality(a..(a + k - 1)) = k
<1> DEFINE b == a + k - 1
<1>1. a \in Int /\ b \in Int
  OBVIOUS
<1>2. IsFiniteSet(a..b) /\ Cardinality(a..b) = IF a > b THEN 0 ELSE b - a + 1
  <2> HIDE DEF b
  <2> QED
    BY <1>1, FS_Interval
<1> QED
  BY <1>2

LEMMA DisjointUnion ==
  ASSUME NEW S, NEW T, IsFiniteSet(S), IsFiniteSet(T), S \cap T = {}
  PROVE  Cardinality(S \cup T) = Cardinality(S) + Cardinality(T)
<1>1. Cardinality(S \cup T) = Cardinality(S) + Cardinality(T) - Cardinality(S \cap T)
  BY FS_Union
<1>2. Cardinality(S \cap T) = 0
  BY FS_EmptySet
<1>3. Cardinality(S) \in Nat /\ Cardinality(T) \in Nat
  BY FS_CardinalityType
<1> QED
  BY <1>1, <1>2, <1>3

\* What add() appends.
LEMMA UnsentAppend ==
  ASSUME NEW q \in Seq(WriteQueueBuffer), NEW n \in Nat, LaidOut(q, n),
         NEW b \in WriteQueueBuffer, NEW size \in Nat,
         b.lo = n, b.pos = n, b.hi = n + size
  PROVE  /\ LaidOut(Append(q, b), n + size)
         /\ Cardinality(UnsentIn(Append(q, b))) = Cardinality(UnsentIn(q)) + size
<1> DEFINE r == Append(q, b)
<1>1. /\ DOMAIN r = DOMAIN q \cup {Len(q) + 1} /\ r[Len(q) + 1] = b
      /\ \A i \in DOMAIN q : r[i] = q[i] /\ i < Len(q) + 1 /\ i \in Nat
  BY AppendProperties
<1>2. LaidOut(r, n + size)
  <2>1. \A i \in DOMAIN q : /\ q[i].lo \in Nat /\ q[i].pos \in Nat /\ q[i].hi \in Nat
                            /\ q[i].hi <= n
    BY BufferFields DEF LaidOut
  <2>2. \A i \in DOMAIN r :
          r[i].lo <= r[i].pos /\ r[i].pos <= r[i].hi /\ r[i].hi <= n + size
    BY <1>1, <2>1 DEF LaidOut
  <2>3. ASSUME NEW i \in DOMAIN r, NEW j \in DOMAIN r, i < j
        PROVE  r[i].hi <= r[j].lo
    <3>1. i \in DOMAIN q
      BY <1>1, <2>3
    <3> QED
      BY <1>1, <2>1, <2>3, <3>1 DEF LaidOut
  <2> QED
    BY <2>2, <2>3 DEF LaidOut
<1>3. UnsentIn(r) = UnsentIn(q) \cup n..(n + size - 1)
  <2>1. ASSUME NEW x PROVE x \in UnsentIn(r) <=> x \in UnsentIn(q) \cup n..(n + size - 1)
    <3>1. ASSUME x \in UnsentIn(r) PROVE x \in UnsentIn(q) \cup n..(n + size - 1)
      <4>1. PICK i \in DOMAIN r : x \in Int /\ r[i].pos <= x /\ x <= r[i].hi - 1
        BY <3>1, UnsentElement
      <4>2. CASE i \in DOMAIN q
        BY <1>1, <4>1, <4>2, UnsentElement
      <4>3. CASE i = Len(q) + 1
        BY <1>1, <4>1, <4>3
      <4> QED
        BY <1>1, <4>2, <4>3
    <3>2. ASSUME x \in UnsentIn(q) PROVE x \in UnsentIn(r)
      <4>1. PICK i \in DOMAIN q : x \in Int /\ q[i].pos <= x /\ x <= q[i].hi - 1
        BY <3>2, UnsentElement
      <4>2. i \in DOMAIN r /\ r[i] = q[i]
        BY <1>1
      <4> HIDE DEF r
      <4> QED
        BY <4>1, <4>2, UnsentElement
    <3>3. ASSUME x \in n..(n + size - 1) PROVE x \in UnsentIn(r)
      <4>1. Len(q) + 1 \in DOMAIN r /\ x \in Int
            /\ r[Len(q) + 1].pos <= x /\ x <= r[Len(q) + 1].hi - 1
        BY <1>1, <3>3
      <4> HIDE DEF r
      <4> QED
        BY <4>1, UnsentElement
    <3> QED
      BY <3>1, <3>2, <3>3
  <2> QED
    BY <2>1
<1>4. UnsentIn(q) \cap n..(n + size - 1) = {}
  BY UnsentFinite
<1>5. IsFiniteSet(n..(n + size - 1)) /\ Cardinality(n..(n + size - 1)) = size
  BY IntervalSize
<1>6. IsFiniteSet(UnsentIn(q))
  BY UnsentFinite
<1> QED
  BY <1>2, <1>3, <1>4, <1>5, <1>6, DisjointUnion

\* What one lwip_write() takes away.
LEMMA UnsentWritten ==
  ASSUME NEW q \in Seq(WriteQueueBuffer), NEW n \in Nat, LaidOut(q, n),
         NEW r \in Seq(WriteQueueBuffer), NEW i \in DOMAIN q, NEW k \in Nat,
         q[i].pos + k <= q[i].hi,
         DOMAIN r = DOMAIN q,
         r[i].lo = q[i].lo, r[i].hi = q[i].hi, r[i].pos = q[i].pos + k,
         \A j \in DOMAIN q : j # i => r[j] = q[j]
  PROVE  /\ LaidOut(r, n)
         /\ Cardinality(UnsentIn(r)) + k = Cardinality(UnsentIn(q))
<1> DEFINE w == q[i].pos..(q[i].pos + k - 1)
<1>0. \A j \in DOMAIN q : q[j].lo \in Nat /\ q[j].pos \in Nat /\ q[j].hi \in Nat
  BY BufferFields
<1>1. /\ DOMAIN r = DOMAIN q
      /\ r[i].lo = q[i].lo /\ r[i].hi = q[i].hi /\ r[i].pos = q[i].pos + k
      /\ \A j \in DOMAIN q : j # i => r[j] = q[j]
  OBVIOUS
<1>2. LaidOut(r, n)
  <2>1. \A j \in DOMAIN q : r[j].lo = q[j].lo /\ r[j].hi = q[j].hi
    BY <1>1
  <2>2. \A j \in DOMAIN r : r[j].lo <= r[j].pos /\ r[j].pos <= r[j].hi /\ r[j].hi <= n
    BY <1>0, <1>1 DEF LaidOut
  <2> QED
    BY <1>1, <2>1, <2>2 DEF LaidOut
<1>d. DOMAIN q \subseteq Nat
  OBVIOUS
<1>3. UnsentIn(q) = UnsentIn(r) \cup w
  <2>1. ASSUME NEW x PROVE x \in UnsentIn(q) <=> x \in UnsentIn(r) \cup w
    <3>1. ASSUME x \in UnsentIn(q) PROVE x \in UnsentIn(r) \cup w
      <4>1. PICK j \in DOMAIN q : x \in Int /\ q[j].pos <= x /\ x <= q[j].hi - 1
        BY <3>1, UnsentElement
      <4>2. CASE j # i
        BY <1>1, <4>1, <4>2, UnsentElement
      <4>3. CASE j = i /\ x < q[i].pos + k
        BY <1>0, <4>1, <4>3
      <4>4. CASE j = i /\ ~(x < q[i].pos + k)
        <5>1. i \in DOMAIN r /\ r[i].pos <= x /\ x <= r[i].hi - 1
          BY <1>0, <1>1, <4>1, <4>4
        <5> QED
          BY <4>1, <5>1, UnsentElement
      <4> QED
        BY <4>2, <4>3, <4>4
    <3>2. ASSUME x \in UnsentIn(r) PROVE x \in UnsentIn(q)
      <4>1. PICK j \in DOMAIN q : x \in Int /\ r[j].pos <= x /\ x <= r[j].hi - 1
        BY <1>1, <3>2, UnsentElement
      <4>3. q[j].pos \in Nat /\ q[j].pos <= r[j].pos /\ r[j].hi = q[j].hi /\ r[j].pos \in Nat
        <5>1. CASE j = i
          BY <1>0, <1>1, <5>1
        <5>2. CASE j # i
          BY <1>0, <1>1, <5>2
        <5> QED
          BY <5>1, <5>2
      <4>2. q[j].pos <= x /\ x <= q[j].hi - 1
        BY <4>1, <4>3
      <4> QED
        BY <4>1, <4>2, UnsentElement
    <3>3. ASSUME x \in w PROVE x \in UnsentIn(q)
      <4>1. x \in Int /\ q[i].pos <= x /\ x <= q[i].hi - 1
        BY <1>0, <3>3
      <4> QED
        BY <4>1, UnsentElement
    <3> QED
      BY <3>1, <3>2, <3>3
  <2> QED
    BY <2>1
<1>4. UnsentIn(r) \cap w = {}
  <2> SUFFICES ASSUME NEW x \in UnsentIn(r), x \in w PROVE FALSE
    OBVIOUS
  <2>1. PICK j \in DOMAIN q : x \in Int /\ r[j].pos <= x /\ x <= r[j].hi - 1
    BY <1>1, UnsentElement
  <2>2. q[i].pos <= x /\ x < q[i].pos + k
    BY <1>0
  <2>3. j # i
    BY <1>0, <1>1, <2>1, <2>2
  <2>6. r[j] = q[j]
    BY <1>1, <2>3
  <2>7. q[j].pos <= x /\ x <= q[j].hi - 1
    BY <2>1, <2>6
  <2>8. q[j].lo <= q[j].pos /\ q[i].lo <= q[i].pos
    BY DEF LaidOut
  <2>9. /\ q[i].lo \in Nat /\ q[i].pos \in Nat /\ q[i].hi \in Nat
        /\ q[j].lo \in Nat /\ q[j].pos \in Nat /\ q[j].hi \in Nat
    BY <1>0
  <2>10. q[i].pos + k <= q[i].hi /\ x \in Int
    BY <2>1
  <2>4. x < q[j].hi /\ q[i].lo <= x /\ x < q[i].hi /\ q[j].lo <= x
    <3>1. x < q[j].hi
      BY <2>7, <2>9, <2>10
    <3>2. q[i].lo <= x
      BY <2>2, <2>8, <2>9, <2>10
    <3>3. x < q[i].hi
      BY <2>2, <2>9, <2>10
    <3>4. q[j].lo <= x
      BY <2>7, <2>8, <2>9, <2>10
    <3> QED
      BY <3>1, <3>2, <3>3, <3>4
  <2>5. q[i].hi <= q[j].lo \/ q[j].hi <= q[i].lo
    BY <1>d, <2>3 DEF LaidOut
  <2> QED
    BY <1>0, <2>1, <2>4, <2>5
<1>5. IsFiniteSet(w) /\ Cardinality(w) = k
  BY <1>0, IntervalSize
<1>6. IsFiniteSet(UnsentIn(r)) /\ Cardinality(UnsentIn(r)) \in Nat
  BY <1>2, UnsentFinite
<1>7. Cardinality(UnsentIn(q)) = Cardinality(UnsentIn(r)) + Cardinality(w)
  <2> HIDE DEF w
  <2> QED
    BY <1>3, <1>4, <1>5, <1>6, DisjointUnion
<1> QED
  BY <1>2, <1>5, <1>6, <1>7

\* A write error changes no position.
LEMMA UnsentError ==
  ASSUME NEW q \in Seq(WriteQueueBuffer), NEW n \in Nat, LaidOut(q, n),
         NEW r, NEW i \in DOMAIN q, r = [q EXCEPT ![i].err = TRUE]
  PROVE  LaidOut(r, n) /\ UnsentIn(r) = UnsentIn(q)
<1>0. \A j \in DOMAIN q : q[j] \in WriteQueueBuffer
  OBVIOUS
<1>1. DOMAIN r = DOMAIN q /\ \A j \in DOMAIN q :
        r[j].lo = q[j].lo /\ r[j].hi = q[j].hi /\ r[j].pos = q[j].pos
  BY <1>0 DEF WriteQueueBuffer
<1>2. LaidOut(r, n)
  BY <1>1 DEF LaidOut
<1>3. ASSUME NEW x PROVE x \in UnsentIn(r) <=> x \in UnsentIn(q)
  <2>1. x \in UnsentIn(r) <=>
          \E j \in DOMAIN r : x \in Int /\ r[j].pos <= x /\ x <= r[j].hi - 1
    BY UnsentElement
  <2>2. x \in UnsentIn(q) <=>
          \E j \in DOMAIN q : x \in Int /\ q[j].pos <= x /\ x <= q[j].hi - 1
    BY UnsentElement
  <2> QED
    BY <1>1, <2>1, <2>2
<1> QED
  BY <1>2, <1>3

\* The cleanup only removes what is fully written.
LEMMA UnsentRest ==
  ASSUME NEW q \in Seq(WriteQueueBuffer), NEW n \in Nat, LaidOut(q, n),
         NEW k \in 0..Len(q), \A i \in 1..k : isFullyWritten(q[i])
  PROVE  /\ LaidOut(SubSeq(q, k + 1, Len(q)), n)
         /\ UnsentIn(SubSeq(q, k + 1, Len(q))) = UnsentIn(q)
<1> DEFINE r == SubSeq(q, k + 1, Len(q))
<1>0. \A j \in DOMAIN q : q[j].lo \in Nat /\ q[j].pos \in Nat /\ q[j].hi \in Nat
  BY BufferFields
<1>1. Len(q) \in Nat /\ k \in Nat /\ k <= Len(q) /\ DOMAIN q = 1..Len(q)
  OBVIOUS
<1>2. /\ r \in Seq(WriteQueueBuffer) /\ Len(r) = Len(q) - k
      /\ \A i \in 1..(Len(q) - k) : r[i] = q[k + i]
  <2> DEFINE m == k + 1
             l == Len(q)
  <2>1. m \in Int /\ l \in Int /\ \A i \in m..l : q[i] \in WriteQueueBuffer
    BY <1>1
  <2>2. /\ SubSeq(q, m, l) \in Seq(WriteQueueBuffer)
        /\ Len(SubSeq(q, m, l)) = IF m <= l THEN l - m + 1 ELSE 0
        /\ \A i \in 1..(l - m + 1) : SubSeq(q, m, l)[i] = q[m + i - 1]
    <3> HIDE DEF m, l
    <3> QED
      BY <2>1, SubSeqProperties
  <2>3. Len(r) = Len(q) - k
    <3>1. Len(r) = IF k + 1 <= Len(q) THEN Len(q) - (k + 1) + 1 ELSE 0
      BY <2>2
    <3>2. \A a, b \in Nat : b <= a => (IF b + 1 <= a THEN a - (b + 1) + 1 ELSE 0) = a - b
      OBVIOUS
    <3> HIDE DEF r
    <3> QED
      BY <1>1, <3>1, <3>2
  <2>4. ASSUME NEW i \in 1..(Len(q) - k) PROVE r[i] = q[k + i]
    <3>1. i \in 1..(l - m + 1) /\ m + i - 1 = k + i
      BY <1>1
    <3> QED
      BY <2>2, <3>1
  <2> QED
    BY <2>2, <2>3, <2>4
<1>3. DOMAIN r = 1..(Len(q) - k)
  BY <1>2
<1>4. LaidOut(r, n)
  <2>1. ASSUME NEW i \in DOMAIN r PROVE k + i \in DOMAIN q /\ r[i] = q[k + i]
    <3> HIDE DEF r
    <3> QED
      BY <1>1, <1>2, <1>3
  <2>2. \A i, j \in DOMAIN r : i < j => k + i < k + j
    BY <1>1, <1>3
  <2> QED
    BY <2>1, <2>2 DEF LaidOut
<1>5. ASSUME NEW x PROVE x \in UnsentIn(r) <=> x \in UnsentIn(q)
  <2>1. ASSUME x \in UnsentIn(r) PROVE x \in UnsentIn(q)
    <3>1. PICK i \in DOMAIN r : x \in Int /\ r[i].pos <= x /\ x <= r[i].hi - 1
      BY <2>1, UnsentElement
    <3>2. k + i \in DOMAIN q /\ r[i] = q[k + i]
      <4> HIDE DEF r
      <4> QED
        BY <1>1, <1>2, <1>3
    <3> QED
      BY <3>1, <3>2, UnsentElement
  <2>2. ASSUME x \in UnsentIn(q) PROVE x \in UnsentIn(r)
    <3>1. PICK j \in DOMAIN q : x \in Int /\ q[j].pos <= x /\ x <= q[j].hi - 1
      BY <2>2, UnsentElement
    <3>2. ~isFullyWritten(q[j])
      BY <1>0, <3>1 DEF isFullyWritten
    <3>4. j \in Nat /\ k < j /\ j <= Len(q)
      BY <1>1, <3>2
    <3>5. j - k \in 1..(Len(q) - k) /\ k + (j - k) = j
      BY <1>1, <3>4
    <3>3. j - k \in DOMAIN r /\ r[j - k] = q[j]
      BY <1>2, <1>3, <3>5
    <3> QED
      BY <3>1, <3>3, UnsentElement
  <2> QED
    BY <2>1, <2>2
<1> QED
  BY <1>4, <1>5

-----------------------------------------------------------------------------
(* Write space *)

\* add() tests the space before it locks the mutex (ClientBase.tpp:192), so
\* the space is accounted for only while a single thread adds.
SingleAdder == \A s, t \in Adders : s = t

\* writtenTotal counts bytes of the buffer the loop is at, and is 0 outside
\* of a pass.
Totals ==
  \A t \in Threads :
    /\ api[t].step # "pass" => api[t].total = 0
    /\ api[t].total > 0 => /\ cursor \in DOMAIN queue
                           /\ ~isFullyWritten(queue[cursor]) /\ ~queue[cursor].err

\* What add() is about to push fits the write space.
Offers ==
  \A t \in Threads :
    /\ api[t].step \in {"space", "push"} => t \in Adders
    /\ api[t].step = "push" => api[t].size <= space

CreditsInv == LaidOut(queue, tail) /\ Totals /\ Offers /\ CreditsConserved

LEMMA CallFields ==
  ASSUME TypeOK, NEW t \in Threads
  PROVE  api[t] \in Call /\ api[t].total \in Nat /\ api[t].size \in Nat
<1>1. api[t] \in Call
  BY DEF TypeOK
<1> QED
  BY <1>1 DEF Call

\* A pass in progress is the only call with uncredited bytes.
LEMMA OnlyThePass ==
  ASSUME TypeOK, MutexInv, Totals
  PROVE  /\ \A t \in Threads : t # mutex => api[t].total = 0
         /\ \A t \in Threads : t = mutex => Uncredited = api[t].total
         /\ mutex = NoOne => Uncredited = 0
  BY ConstantsAssumption DEF MutexInv, MutexDiscipline, Totals, Uncredited

LEMMA SpaceBound ==
  ASSUME TypeOK, CreditsInv
  PROVE  /\ space \in Nat /\ Uncredited \in Nat /\ Cardinality(UnsentIn(queue)) \in Nat
         /\ space + Uncredited <= TCP_SND_BUF /\ TCP_SND_BUF \in Nat
         /\ space + Uncredited < SizeMod
<1>1. space \in Nat /\ mutex \in Threads \cup {NoOne}
      /\ queue \in Seq(WriteQueueBuffer) /\ tail \in Nat
  BY ConstantsAssumption DEF TypeOK
<1>2. Uncredited \in Nat
  BY <1>1, CallFields DEF Uncredited
<1>3. Cardinality(UnsentIn(queue)) \in Nat
  BY <1>1, UnsentFinite DEF CreditsInv
<1>4. space + Uncredited + Cardinality(UnsentIn(queue)) = TCP_SND_BUF
  BY DEF CreditsInv, CreditsConserved
<1>5. TCP_SND_BUF \in Nat /\ SizeMod \in Nat /\ TCP_SND_BUF < SizeMod
  BY ConstantsAssumption
<1> HIDE DEF Uncredited
<1> QED
  BY <1>1, <1>2, <1>3, <1>4, <1>5

LEMMA CreditsInit == Init => CreditsInv
<1> SUFFICES ASSUME Init PROVE CreditsInv
  OBVIOUS
<1>1. LaidOut(queue, tail) /\ Cardinality(UnsentIn(queue)) = 0
  BY UnsentEmpty DEF Init, Constructed
<1>2. Totals /\ Offers
  BY DEF Init, Constructed, Totals, Offers, NoCall
<1>3. CreditsConserved
  BY <1>1, ConstantsAssumption DEF Init, Constructed, CreditsConserved, Uncredited
<1> QED
  BY <1>1, <1>2, <1>3 DEF CreditsInv

\* Steps that touch nothing CreditsInv speaks of.
LEMMA CreditsFrame ==
  ASSUME CreditsInv, UNCHANGED <<queue, space, tail, mutex, cursor, api>>
  PROVE  CreditsInv'
<1>1. UNCHANGED Uncredited
  BY DEF Uncredited
<1>2. CreditsConserved'
  BY <1>1 DEF CreditsInv, CreditsConserved
<1>3. Totals' /\ Offers' /\ LaidOut(queue', tail')
  BY DEF CreditsInv, Totals, Offers
<1> QED
  BY <1>2, <1>3 DEF CreditsInv

\* Steps that move the call of one thread, outside of a pass.
LEMMA CreditsCallFrame ==
  ASSUME TypeOK, MutexInv, CreditsInv, NEW t \in Threads,
         UNCHANGED <<queue, space, tail, mutex, cursor>>,
         \A u \in Threads \ {t} : api'[u] = api[u],
         api[t].step # "pass", api'[t].total = 0,
         api'[t].step \in {"space", "push"} => t \in Adders,
         api'[t].step = "push" => api'[t].size <= space
  PROVE  CreditsInv'
<1>1. Totals' /\ Offers' /\ LaidOut(queue', tail')
  BY DEF CreditsInv, Totals, Offers
<1>2. api[t].total = 0 /\ mutex \in Threads \cup {NoOne}
  BY DEF CreditsInv, Totals, TypeOK
<1>3. UNCHANGED Uncredited
  BY <1>2 DEF Uncredited
<1>4. CreditsConserved'
  BY <1>3 DEF CreditsInv, CreditsConserved
<1> QED
  BY <1>1, <1>4 DEF CreditsInv

\* Steps that lock or unlock the mutex when nothing is uncredited.
LEMMA CreditsLockFrame ==
  ASSUME TypeOK, TypeOK', CreditsInv, Offers', UNCHANGED <<queue, space, tail>>,
         \A u \in Threads : api[u].total = 0 /\ api'[u].total = 0
  PROVE  CreditsInv'
<1>1. mutex \in Threads \cup {NoOne} /\ mutex' \in Threads \cup {NoOne}
  BY DEF TypeOK
<1>2. Uncredited = 0 /\ Uncredited' = 0
  BY <1>1 DEF Uncredited
<1>3. CreditsConserved'
  BY <1>2 DEF CreditsInv, CreditsConserved
<1>4. Totals' /\ LaidOut(queue', tail')
  BY DEF CreditsInv, Totals
<1> QED
  BY <1>3, <1>4 DEF CreditsInv

LEMMA CreditsAddPush ==
  ASSUME TypeOK, MutexInv, CreditsInv, SingleAdder, NEW t \in Threads, AddPush(t)
  PROVE  CreditsInv'
<1> DEFINE size == api[t].size
           buf == [lo |-> tail, hi |-> tail + size, pos |-> tail,
                   err |-> FALSE, conn |-> api[t].conn]
<1>1. /\ queue \in Seq(WriteQueueBuffer) /\ tail \in Nat /\ size \in Nat
      /\ api[t] \in Call /\ api \in [Threads -> Call] /\ size <= space
  BY CallFields DEF TypeOK, AddPush, CreditsInv, Offers
<1>2. buf \in WriteQueueBuffer
  BY <1>1 DEF WriteQueueBuffer, Call
<1>3. /\ LaidOut(Append(queue, buf), tail + size)
      /\ Cardinality(UnsentIn(Append(queue, buf))) = Cardinality(UnsentIn(queue)) + size
  <2>1. buf.lo = tail /\ buf.pos = tail /\ buf.hi = tail + size
    OBVIOUS
  <2> HIDE DEF buf, size
  <2> QED
    BY <1>1, <1>2, <2>1, UnsentAppend DEF CreditsInv
<1>4. /\ queue' = Append(queue, buf) /\ tail' = tail + size /\ mutex = NoOne /\ mutex' = NoOne
      /\ space' = Minus(space, size)
  BY DEF AddPush
<1>5. LaidOut(queue', tail')
  BY <1>3, <1>4
<1>6. Uncredited = 0 /\ Uncredited' = 0
  BY <1>4 DEF Uncredited
<1>7. space' = space - size
  <2>1. space \in Nat /\ space < SizeMod
    BY SpaceBound, ConstantsAssumption DEF TypeOK
  <2> HIDE DEF size
  <2> QED
    BY <1>1, <1>4, <2>1, SizeArithmetic
<1>8. CreditsConserved'
  <2>1. /\ space \in Nat /\ Cardinality(UnsentIn(queue)) \in Nat
        /\ space + 0 + Cardinality(UnsentIn(queue)) = TCP_SND_BUF
    BY <1>6, SpaceBound DEF CreditsInv, CreditsConserved
  <2>2. Cardinality(UnsentIn(queue')) = Cardinality(UnsentIn(queue)) + size
    BY <1>3, <1>4
  <2>3. space' + 0 + Cardinality(UnsentIn(queue')) = TCP_SND_BUF
    <3> HIDE DEF size
    <3> QED
      BY <1>1, <1>7, <2>1, <2>2
  <2> QED
    BY <1>6, <2>3 DEF CreditsConserved
<1>9. /\ api'[t].step \in {"send", "none"} /\ api'[t].total = 0
      /\ \A u \in Threads \ {t} : api'[u] = api[u]
  <2>1. api[t].total = 0
    BY DEF CreditsInv, Totals, AddPush
  <2> QED
    BY <1>1, <2>1 DEF AddPush, Call, NoCall
<1>10. Totals'
  BY <1>4, <1>9, OnlyThePass, ConstantsAssumption DEF CreditsInv, Totals
<1>11. Offers'
  BY <1>9 DEF CreditsInv, Offers, SingleAdder, AddPush
<1> QED
  BY <1>5, <1>8, <1>10, <1>11 DEF CreditsInv

\* The end of the inner loop: writtenTotal is added to the write space.
LEMMA Credited ==
  ASSUME TypeOK, CreditsInv, NEW n \in Nat, n <= Cardinality(UnsentIn(queue))
  PROVE  /\ Plus(space, Uncredited + n) = space + Uncredited + n
         /\ space <= Plus(space, Uncredited + n)
<1>1. /\ space \in Nat /\ Uncredited \in Nat /\ Cardinality(UnsentIn(queue)) \in Nat
      /\ space + Uncredited + Cardinality(UnsentIn(queue)) = TCP_SND_BUF
  BY SpaceBound DEF CreditsInv, CreditsConserved
<1>2. Uncredited + n \in Nat /\ space + (Uncredited + n) < SizeMod
  <2>1. TCP_SND_BUF < SizeMod /\ SizeMod \in Nat
    BY ConstantsAssumption
  <2> QED
    BY <1>1, <2>1
<1>3. Plus(space, Uncredited + n) = space + (Uncredited + n)
  BY <1>1, <1>2, SizeArithmetic
<1> QED
  BY <1>1, <1>3

LEMMA CreditsPassWrite ==
  ASSUME TypeOK, MutexInv, CreditsInv, TypeOK', NEW t \in Threads, PassWrite(t)
  PROVE  CreditsInv'
<1> DEFINE card == Cardinality(UnsentIn(queue))
           full(i, n) == queue[i].pos + n = queue[i].hi
           total(n) == api[t].total + n
<1>1. PICK i \in DOMAIN queue :
        /\ IsNext(i) /\ ~queue[i].err
        /\ \E n \in lwip_write(i) :
             /\ queue' = [queue EXCEPT ![i].pos = @ + n]
             /\ cursor' = IF full(i, n) THEN i + 1 ELSE i
             /\ space' = IF full(i, n) THEN Plus(space, total(n)) ELSE space
             /\ api' = [api EXCEPT ![t] = [@ EXCEPT
                          !.act = TRUE, !.total = IF full(i, n) THEN 0 ELSE total(n)]]
  BY DEF PassWrite
<1>2. PICK n \in lwip_write(i) :
        /\ queue' = [queue EXCEPT ![i].pos = @ + n]
        /\ cursor' = IF full(i, n) THEN i + 1 ELSE i
        /\ space' = IF full(i, n) THEN Plus(space, total(n)) ELSE space
        /\ api' = [api EXCEPT ![t] = [@ EXCEPT
                     !.act = TRUE, !.total = IF full(i, n) THEN 0 ELSE total(n)]]
  BY <1>1
<1>3. /\ queue \in Seq(WriteQueueBuffer) /\ queue' \in Seq(WriteQueueBuffer)
      /\ tail \in Nat /\ tail' = tail /\ room \in Nat
      /\ api \in [Threads -> Call] /\ api[t] \in Call /\ api[t].total \in Nat
      /\ mutex = t /\ mutex' = t /\ t # NoOne
  <2>1. /\ queue \in Seq(WriteQueueBuffer) /\ queue' \in Seq(WriteQueueBuffer)
        /\ tail \in Nat /\ room \in Nat /\ api \in [Threads -> Call]
    BY ConstantsAssumption DEF TypeOK
  <2>2. api[t].step = "pass" /\ tail' = tail /\ mutex' = mutex
    BY DEF PassWrite, historyVars
  <2>3. mutex = t /\ t # NoOne
    BY <2>2, ConstantsAssumption DEF MutexInv, MutexDiscipline
  <2> QED
    BY <2>1, <2>2, <2>3, CallFields
<1>4. n \in Nat /\ queue[i].pos + n <= queue[i].hi
  BY <1>3 DEF lwip_write
<1>5. /\ LaidOut(queue', tail')
      /\ Cardinality(UnsentIn(queue')) + n = card
  <2>1. queue[i] \in WriteQueueBuffer
    BY <1>3, BufferFields
  <2>2. /\ DOMAIN queue' = DOMAIN queue
        /\ queue'[i].lo = queue[i].lo /\ queue'[i].hi = queue[i].hi
        /\ queue'[i].pos = queue[i].pos + n
        /\ \A j \in DOMAIN queue : j # i => queue'[j] = queue[j]
    BY <1>2, <1>3, <2>1 DEF WriteQueueBuffer
  <2> QED
    BY <1>3, <1>4, <2>2, UnsentWritten DEF CreditsInv
<1>6. Cardinality(UnsentIn(queue')) \in Nat /\ card \in Nat
  BY <1>3, <1>5, UnsentFinite DEF CreditsInv
<1>7. n <= card
  <2> HIDE DEF card
  <2> QED
    BY <1>4, <1>5, <1>6
<1>8. Uncredited = api[t].total /\ Uncredited' = api'[t].total
  BY <1>3 DEF Uncredited
<1>9. /\ \A u \in Threads \ {t} : api'[u] = api[u]
      /\ api'[t].step = "pass"
      /\ api'[t].total = IF full(i, n) THEN 0 ELSE total(n)
  BY <1>2, <1>3 DEF Call, PassWrite
<1>10. Plus(space, total(n)) = space + api[t].total + n /\ space <= Plus(space, total(n))
  BY <1>4, <1>7, <1>8, Credited
<1>11. CreditsConserved'
  <2>1. space \in Nat /\ space + api[t].total + card = TCP_SND_BUF
    BY <1>8, SpaceBound DEF CreditsInv, CreditsConserved
  <2>2. space' + api'[t].total = space + api[t].total + n
    <3>1. CASE full(i, n)
      BY <1>2, <1>3, <1>4, <1>9, <1>10, <2>1, <3>1
    <3>2. CASE ~full(i, n)
      BY <1>2, <1>3, <1>4, <1>9, <2>1, <3>2
    <3> QED
      BY <3>1, <3>2
  <2>3. space' + api'[t].total + Cardinality(UnsentIn(queue')) = TCP_SND_BUF
    <3> HIDE DEF card
    <3> QED
      BY <1>3, <1>4, <1>5, <1>6, <2>1, <2>2
  <2> QED
    BY <1>8, <2>3 DEF CreditsConserved
<1>12. Totals'
  <2>1. \A u \in Threads \ {t} : api'[u].total = 0 /\ api'[u].step = api[u].step
    BY <1>3, <1>9, OnlyThePass DEF CreditsInv
  <2>2. ASSUME ~full(i, n)
        PROVE  cursor' = i /\ i \in DOMAIN queue' /\ ~isFullyWritten(queue'[i]) /\ ~queue'[i].err
    <3>1. queue[i] \in WriteQueueBuffer /\ queue[i].pos \in Nat /\ queue[i].hi \in Nat
      BY <1>3, BufferFields
    <3>2. /\ queue'[i].pos = queue[i].pos + n /\ queue'[i].hi = queue[i].hi
          /\ queue'[i].err = queue[i].err /\ i \in DOMAIN queue'
      BY <1>2, <1>3, <3>1 DEF WriteQueueBuffer
    <3> QED
      BY <1>1, <1>2, <1>4, <2>2, <3>1, <3>2 DEF isFullyWritten
  <2> HIDE DEF full
  <2>3. api'[t].step = "pass" /\ (full(i, n) => ~(api'[t].total > 0))
    BY <1>9
  <2>4. ASSUME NEW u \in Threads
        PROVE  /\ api'[u].step # "pass" => api'[u].total = 0
               /\ api'[u].total > 0 => /\ cursor' \in DOMAIN queue'
                                       /\ ~isFullyWritten(queue'[cursor'])
                                       /\ ~queue'[cursor'].err
    <3>1. CASE u # t
      <4>1. api'[u].total = 0
        BY <2>1, <3>1
      <4> QED
        BY <4>1
    <3>2. CASE u = t /\ full(i, n)
      BY <2>3, <3>2
    <3>3. CASE u = t /\ ~full(i, n)
      BY <2>2, <2>3, <3>3
    <3> QED
      BY <3>1, <3>2, <3>3
  <2>5. Totals' = (\A u \in Threads :
          /\ api'[u].step # "pass" => api'[u].total = 0
          /\ api'[u].total > 0 => /\ cursor' \in DOMAIN queue'
                                  /\ ~isFullyWritten(queue'[cursor'])
                                  /\ ~queue'[cursor'].err)
    BY Zenon DEF Totals, isFullyWritten
  <2> QED
    BY <2>4, <2>5
<1>13. Offers'
  <2>1. space <= space' /\ space \in Int /\ space' \in Int
    BY <1>2, <1>10, SpaceBound DEF TypeOK
  <2>2. ASSUME NEW u \in Threads, api'[u].step \in {"space", "push"}
        PROVE  u \in Adders /\ (api'[u].step = "push" => api'[u].size <= space')
    <3>1. api'[u] = api[u] /\ api[u].size \in Int
      BY <1>9, <2>2, CallFields
    <3> QED
      BY <2>1, <2>2, <3>1 DEF CreditsInv, Offers
  <2> QED
    BY <2>2 DEF Offers
<1> QED
  BY <1>5, <1>11, <1>12, <1>13 DEF CreditsInv

\* EAGAIN and other errors: what was written of the buffer is credited.
LEMMA CreditsPassStops ==
  ASSUME TypeOK, MutexInv, CreditsInv, TypeOK', NEW t \in Threads,
         PassBlocked(t) \/ PassError(t)
  PROVE  CreditsInv'
<1>1. /\ queue \in Seq(WriteQueueBuffer) /\ tail \in Nat /\ tail' = tail
      /\ api \in [Threads -> Call] /\ api[t] \in Call /\ api[t].total \in Nat
      /\ mutex = t /\ mutex' = t /\ t # NoOne /\ api[t].step = "pass"
      /\ space' = Plus(space, api[t].total) /\ api' = [api EXCEPT ![t].total = 0]
  BY CallFields, ConstantsAssumption
  DEF TypeOK, PassBlocked, PassError, historyVars, MutexInv, MutexDiscipline
<1>2. LaidOut(queue', tail') /\ UnsentIn(queue') = UnsentIn(queue)
  <2>1. CASE PassBlocked(t)
    BY <1>1, <2>1 DEF PassBlocked, CreditsInv
  <2>2. CASE PassError(t)
    <3>1. PICK i \in DOMAIN queue : queue' = [queue EXCEPT ![i].err = TRUE]
      BY <2>2 DEF PassError
    <3> QED
      BY <1>1, <3>1, UnsentError DEF CreditsInv
  <2> QED
    BY <2>1, <2>2
<1>3. /\ \A u \in Threads \ {t} : api'[u] = api[u]
      /\ api'[t].step = "pass" /\ api'[t].total = 0
  BY <1>1 DEF Call
<1>4. Uncredited = api[t].total /\ Uncredited' = 0
  BY <1>1, <1>3 DEF Uncredited
<1>5. space' = space + api[t].total /\ space <= space' /\ space \in Nat /\ space' \in Nat
  <2>1. space \in Nat /\ 0 <= Cardinality(UnsentIn(queue))
    BY SpaceBound
  <2>2. api[t].total + 0 = api[t].total /\ space + api[t].total + 0 = space + api[t].total
    BY <1>1, <2>1
  <2> QED
    BY <1>1, <1>4, <2>1, <2>2, Credited
<1>6. CreditsConserved'
  <2>1. space' + 0 + Cardinality(UnsentIn(queue')) = TCP_SND_BUF
    BY <1>1, <1>2, <1>4, <1>5, SpaceBound DEF CreditsInv, CreditsConserved
  <2> QED
    BY <1>4, <2>1 DEF CreditsConserved
<1>7. Totals'
  BY <1>1, <1>3, OnlyThePass DEF CreditsInv, Totals
<1>8. Offers'
  <2>1. ASSUME NEW u \in Threads, api'[u].step \in {"space", "push"}
        PROVE  u \in Adders /\ (api'[u].step = "push" => api'[u].size <= space')
    <3>1. api'[u] = api[u] /\ api[u].size \in Int
      BY <1>3, <2>1, CallFields
    <3> QED
      BY <1>5, <2>1, <3>1 DEF CreditsInv, Offers
  <2> QED
    BY <2>1 DEF Offers
<1> QED
  BY <1>2, <1>6, <1>7, <1>8 DEF CreditsInv

LEMMA CreditsPassEnd ==
  ASSUME TypeOK, MutexInv, CreditsInv, TypeOK', NEW t \in Threads, PassEnd(t)
  PROVE  CreditsInv'
<1>1. /\ queue \in Seq(WriteQueueBuffer) /\ api \in [Threads -> Call]
      /\ api[t].total \in Nat /\ mutex = t /\ api' = [api EXCEPT ![t] = NoCall]
      /\ UNCHANGED <<queue, space, tail>>
  BY CallFields DEF TypeOK, PassEnd, historyVars, MutexInv, MutexDiscipline
<1>2. api[t].total = 0
  <2> SUFFICES ASSUME api[t].total > 0 PROVE FALSE
    BY <1>1
  <2>1. cursor \in DOMAIN queue /\ ~isFullyWritten(queue[cursor]) /\ ~queue[cursor].err
    BY DEF CreditsInv, Totals
  <2>2. cursor \in Nat /\ cursor..(cursor - 1) = {}
    BY DEF TypeOK
  <2>3. IsNext(cursor)
    BY <2>1, <2>2 DEF IsNext
  <2> QED
    BY <2>1, <2>3 DEF PassEnd
<1>3. \A u \in Threads : api[u].total = 0
  BY <1>1, <1>2, OnlyThePass DEF CreditsInv
<1>4. api'[t] = NoCall /\ \A u \in Threads \ {t} : api'[u] = api[u]
  BY <1>1
<1>5. Offers' /\ \A u \in Threads : api'[u].total = 0
  BY <1>1, <1>3, <1>4 DEF CreditsInv, Offers, NoCall
<1> QED
  BY <1>1, <1>3, <1>5, CreditsLockFrame

LEMMA CreditsCleanupFront ==
  ASSUME TypeOK, MutexInv, CreditsInv, CleanupFront
  PROVE  CreditsInv'
<1>1. /\ queue \in Seq(WriteQueueBuffer) /\ tail \in Nat /\ tail' = tail
      /\ mutex = Mgr /\ mutex' = NoOne /\ api[Mgr].step = "none"
      /\ UNCHANGED <<space, api>>
  BY DEF TypeOK, CleanupFront, ManagerAt, historyVars, MutexInv, MutexDiscipline
<1>2. PICK k \in 0..Len(queue) : /\ \A i \in 1..k : isFullyWritten(queue[i])
                                 /\ queue' = SubSeq(queue, k + 1, Len(queue))
  BY DEF CleanupFront
<1>3. LaidOut(queue', tail') /\ UnsentIn(queue') = UnsentIn(queue)
  BY <1>1, <1>2, UnsentRest DEF CreditsInv
<1>4. \A u \in Threads : api[u].total = 0
  BY <1>1, OnlyThePass, MgrIsThread DEF CreditsInv, Totals
<1>5. Uncredited = 0 /\ Uncredited' = 0
  BY <1>1, <1>4, MgrIsThread, ConstantsAssumption DEF Uncredited
<1>6. CreditsConserved'
  BY <1>1, <1>3, <1>5 DEF CreditsInv, CreditsConserved
<1>7. Totals' /\ Offers'
  BY <1>1, <1>4 DEF CreditsInv, Totals, Offers
<1> QED
  BY <1>3, <1>6, <1>7 DEF CreditsInv

LEMMA CreditsCloseClear ==
  ASSUME TypeOK, MutexInv, CreditsInv, NEW t \in Threads, CloseClear(t)
  PROVE  CreditsInv'
<1>1. /\ mutex = NoOne /\ mutex' = NoOne /\ api \in [Threads -> Call]
      /\ queue' = <<>> /\ tail' = 0 /\ space' = TCP_SND_BUF
      /\ api' = [api EXCEPT ![t] = NoCall]
  BY DEF TypeOK, CloseClear
<1>2. LaidOut(queue', tail') /\ Cardinality(UnsentIn(queue')) = 0
  BY <1>1, UnsentEmpty
<1>3. api'[t] = NoCall /\ \A u \in Threads \ {t} : api'[u] = api[u]
  BY <1>1
<1>4. CreditsConserved'
  BY <1>1, <1>2, ConstantsAssumption DEF CreditsConserved, Uncredited
<1>5. Totals'
  BY <1>1, <1>3, OnlyThePass, ConstantsAssumption DEF CreditsInv, Totals, NoCall
<1>6. Offers'
  <2>1. space <= space' /\ space \in Int /\ space' \in Int
    BY <1>1, SpaceBound
  <2>2. ASSUME NEW u \in Threads, api'[u].step \in {"space", "push"}
        PROVE  u \in Adders /\ (api'[u].step = "push" => api'[u].size <= space')
    <3>1. api'[u] = api[u] /\ api[u].size \in Int
      BY <1>3, <2>2, CallFields DEF NoCall
    <3> QED
      BY <2>1, <2>2, <3>1 DEF CreditsInv, Offers
  <2> QED
    BY <2>2 DEF Offers
<1> QED
  BY <1>2, <1>4, <1>5, <1>6 DEF CreditsInv

LEMMA CreditsNext ==
  SingleAdder /\ TypeOK /\ MutexInv /\ CreditsInv /\ [Next]_vars => CreditsInv'
<1> SUFFICES ASSUME SingleAdder, TypeOK, MutexInv, CreditsInv, [Next]_vars
             PROVE  CreditsInv'
  OBVIOUS
<1>a. api \in [Threads -> Call] /\ \A t \in Threads : api[t] \in Call
  BY DEF TypeOK
<1>b. TypeOK'
  BY TypeNext
<1>c. \A u \in Threads : api[u].step # "pass" => api[u].total = 0
  BY DEF CreditsInv, Totals
<1>d. mutex = NoOne => \A u \in Threads : api[u].total = 0
  BY OnlyThePass, ConstantsAssumption DEF CreditsInv
<1>1. ASSUME NEW t \in Threads, AddBegin(t)
       PROVE  CreditsInv'
  <2>1. UNCHANGED <<queue, space, tail, mutex, cursor>> /\ api[t].step # "pass" /\ t \in Adders
    BY <1>1 DEF AddBegin, MayCall, clientVars, historyVars
  <2>2. /\ \A u \in Threads \ {t} : api'[u] = api[u]
        /\ api'[t].total = 0 /\ api'[t].step # "push"
    BY <1>1, <1>a, <1>c, <2>1 DEF AddBegin, MayCall, NoCall, Call
  <2> QED
    BY <2>1, <2>2, CreditsCallFrame
<1>2. ASSUME NEW t \in Threads, SendCall(t)
       PROVE  CreditsInv'
  <2>1. UNCHANGED <<queue, space, tail, mutex, cursor>> /\ api[t].step # "pass"
    BY <1>2 DEF SendCall, MayCall, clientVars, historyVars
  <2>2. /\ \A u \in Threads \ {t} : api'[u] = api[u]
        /\ api'[t].total = 0 /\ api'[t].step \notin {"space", "push"}
    BY <1>2, <1>a, <1>c, <2>1 DEF SendCall, MayCall, AtStep, NoCall, Call
  <2> QED
    BY <2>1, <2>2, CreditsCallFrame
<1>3. ASSUME NEW t \in Threads, CloseCall(t)
       PROVE  CreditsInv'
  <2>1. UNCHANGED <<queue, space, tail, mutex, cursor>> /\ api[t].step # "pass"
    BY <1>3 DEF CloseCall, MayCall, clientVars, historyVars
  <2>2. /\ \A u \in Threads \ {t} : api'[u] = api[u]
        /\ api'[t].total = 0 /\ api'[t].step \notin {"space", "push"}
    BY <1>3, <1>a, <1>c, <2>1 DEF CloseCall, MayCall, AtStep, NoCall, Call
  <2> QED
    BY <2>1, <2>2, CreditsCallFrame
<1>4. ASSUME NEW t \in Threads, ConnectCall(t)
       PROVE  CreditsInv'
  <2>1. UNCHANGED <<queue, space, tail, mutex, cursor>> /\ api[t].step # "pass"
    BY <1>4 DEF ConnectCall, MayCall, clientVars, historyVars
  <2>2. /\ \A u \in Threads \ {t} : api'[u] = api[u]
        /\ api'[t].total = 0 /\ api'[t].step \notin {"space", "push"}
    BY <1>4, <1>a, <1>c, <2>1 DEF ConnectCall, MayCall, AtStep, NoCall, Call
  <2> QED
    BY <2>1, <2>2, CreditsCallFrame
<1>5. ASSUME NEW t \in Threads, AddSpace(t)
       PROVE  CreditsInv'
  <2>1. t \in Adders /\ api[t].total = 0 /\ api[t].step = "space"
    BY <1>5 DEF AddSpace, CreditsInv, Totals, Offers
  <2>2. /\ \A u \in Threads \ {t} : api'[u] = api[u]
        /\ api'[t].total = 0
        /\ api'[t].step = "push" => api'[t].size = Least(space, api[t].size)
    BY <1>5, <1>a, <2>1 DEF AddSpace, NoCall, Call
  <2>3. Least(space, api[t].size) <= space
    BY SpaceBound, CallFields DEF Least
  <2>4. UNCHANGED <<queue, space, tail, mutex, cursor>>
    BY <1>5 DEF AddSpace, clientVars, historyVars
  <2> QED
    BY <2>1, <2>2, <2>3, <2>4, CreditsCallFrame
<1>6. ASSUME NEW t \in Threads, AddPush(t)
       PROVE  CreditsInv'
  BY <1>6, CreditsAddPush
<1>7. ASSUME NEW t \in Threads, SendSelect(t)
       PROVE  CreditsInv'
  <2>1. UNCHANGED <<queue, space, tail, mutex, cursor>> /\ api[t].step # "pass"
    BY <1>7 DEF SendSelect, clientVars, historyVars
  <2>2. /\ \A u \in Threads \ {t} : api'[u] = api[u]
        /\ api'[t].total = 0 /\ api'[t].step \notin {"space", "push"}
    BY <1>7, <1>a, <1>c, <2>1 DEF SendSelect, NoCall, Call
  <2> QED
    BY <2>1, <2>2, CreditsCallFrame
<1>8. ASSUME NEW t \in Threads, SendLock(t)
       PROVE  CreditsInv'
  <2>1. /\ mutex = NoOne /\ api[t].step = "sendLock" /\ UNCHANGED <<queue, space, tail>>
        /\ api' = [api EXCEPT ![t] = NoCall] \/ api' = [api EXCEPT ![t].step = "pass"]
    BY <1>8 DEF SendLock, historyVars
  <2>2. /\ \A u \in Threads \ {t} : api'[u] = api[u]
        /\ api'[t].total = 0 /\ api'[t].step \in {"none", "pass"}
    BY <1>a, <1>c, <2>1 DEF NoCall, Call
  <2>3. Offers'
    BY <2>1, <2>2 DEF CreditsInv, Offers
  <2> QED
    BY <1>b, <1>d, <2>1, <2>2, <2>3, CreditsLockFrame
<1>9. ASSUME NEW t \in Threads, PassWrite(t)
       PROVE  CreditsInv'
  BY <1>9, <1>b, CreditsPassWrite
<1>10. ASSUME NEW t \in Threads, PassBlocked(t)
       PROVE  CreditsInv'
  BY <1>10, <1>b, CreditsPassStops
<1>11. ASSUME NEW t \in Threads, PassError(t)
       PROVE  CreditsInv'
  BY <1>11, <1>b, CreditsPassStops
<1>12. ASSUME NEW t \in Threads, PassEnd(t)
       PROVE  CreditsInv'
  BY <1>12, <1>b, CreditsPassEnd
<1>13. ASSUME NEW t \in Threads, CloseState(t)
       PROVE  CreditsInv'
  <2>1. UNCHANGED <<queue, space, tail, mutex, cursor>> /\ api[t].step # "pass"
    BY <1>13 DEF CloseState, historyVars
  <2>2. /\ \A u \in Threads \ {t} : api'[u] = api[u]
        /\ api'[t].total = 0 /\ api'[t].step \notin {"space", "push"}
    BY <1>13, <1>a, <1>c, <2>1 DEF CloseState, Call
  <2> QED
    BY <2>1, <2>2, CreditsCallFrame
<1>14. ASSUME NEW t \in Threads, CloseSocket(t)
       PROVE  CreditsInv'
  <2>1. UNCHANGED <<queue, space, tail, mutex, cursor>> /\ api[t].step # "pass"
    BY <1>14 DEF CloseSocket, historyVars
  <2>2. /\ \A u \in Threads \ {t} : api'[u] = api[u]
        /\ api'[t].total = 0 /\ api'[t].step \notin {"space", "push"}
    BY <1>14, <1>a, <1>c, <2>1 DEF CloseSocket, Call
  <2> QED
    BY <2>1, <2>2, CreditsCallFrame
<1>15. ASSUME NEW t \in Threads, CloseClear(t)
       PROVE  CreditsInv'
  BY <1>15, CreditsCloseClear
<1>16. ASSUME NEW t \in Threads, ConnectState(t)
       PROVE  CreditsInv'
  <2>1. UNCHANGED <<queue, space, tail, mutex, cursor>> /\ api[t].step # "pass"
    BY <1>16 DEF ConnectState, historyVars
  <2>2. /\ \A u \in Threads \ {t} : api'[u] = api[u]
        /\ api'[t].total = 0 /\ api'[t].step \notin {"space", "push"}
    BY <1>16, <1>a, <1>c, <2>1 DEF ConnectState, Call
  <2> QED
    BY <2>1, <2>2, CreditsCallFrame
<1>17. ASSUME NEW t \in Threads, ConnectSocket(t)
       PROVE  CreditsInv'
  <2>1. UNCHANGED <<queue, space, tail, mutex, cursor>> /\ api[t].step # "pass"
    BY <1>17 DEF ConnectSocket
  <2>2. /\ \A u \in Threads \ {t} : api'[u] = api[u]
        /\ api'[t].total = 0 /\ api'[t].step \notin {"space", "push"}
    BY <1>17, <1>a, <1>c, <2>1 DEF ConnectSocket, NoCall, Call
  <2> QED
    BY <2>1, <2>2, CreditsCallFrame
<1>18. CASE Select
  BY <1>18, CreditsFrame DEF Select, clientVars, kernelVars, historyVars
<1>19. CASE CollectWriteable
  BY <1>19, CreditsFrame DEF CollectWriteable, clientVars, kernelVars, historyVars
<1>20. CASE SockIsWriteable
  BY <1>20, CreditsFrame DEF SockIsWriteable, clientVars, kernelVars, historyVars
<1>21. CASE SockConnected
  BY <1>21, CreditsFrame DEF SockConnected, kernelVars
<1>22. CASE SockDrain
  <2>1. /\ mutex = NoOne /\ api[Mgr].step = "none" /\ UNCHANGED <<queue, space, tail>>
        /\ api' = api \/ api' = [api EXCEPT ![Mgr] = AtStep("pass")]
    BY <1>22 DEF SockDrain, ManagerAt, historyVars
  <2>2. /\ \A u \in Threads \ {Mgr} : api'[u] = api[u]
        /\ api'[Mgr].total = 0 /\ api'[Mgr].step \in {"none", "pass"}
    BY <1>a, <1>c, <2>1, MgrIsThread DEF AtStep, NoCall
  <2>3. Offers'
    BY <2>1, <2>2 DEF CreditsInv, Offers
  <2> QED
    BY <1>b, <1>d, <2>1, <2>2, <2>3, CreditsLockFrame
<1>23. CASE CleanupError
  <2>1. /\ mutex = Mgr /\ api[Mgr].step = "none"
        /\ UNCHANGED <<queue, space, tail, api>>
    BY <1>23 DEF CleanupError, ManagerAt, historyVars, MutexInv, MutexDiscipline
  <2>2. \A u \in Threads : api[u].total = 0
    BY <1>c, <2>1, OnlyThePass DEF CreditsInv
  <2>3. Offers'
    BY <2>1 DEF CreditsInv, Offers
  <2> QED
    BY <1>b, <2>1, <2>2, <2>3, CreditsLockFrame
<1>42. CASE ReadErrorCode
  BY <1>42, CreditsFrame DEF ReadErrorCode, clientVars, kernelVars, historyVars
<1>24. CASE CleanupFront
  BY <1>24, CreditsCleanupFront
<1>25. CASE NotifySent
  BY <1>25, CreditsFrame DEF NotifySent, clientVars, kernelVars
<1>26. CASE CollectReadable
  BY <1>26, CreditsFrame DEF CollectReadable, clientVars, kernelVars, historyVars
<1>27. CASE SockIsReadable
  <2>1. /\ UNCHANGED <<queue, space, tail, mutex, cursor>> /\ api[Mgr].step = "none"
        /\ api' = api \/ api' = [api EXCEPT ![Mgr] = AtStep("close")]
    BY <1>27 DEF SockIsReadable, ManagerAt, clientVars, historyVars
  <2>2. /\ \A u \in Threads \ {Mgr} : api'[u] = api[u]
        /\ api'[Mgr].total = 0 /\ api'[Mgr].step \in {"none", "close"}
    BY <1>a, <1>c, <2>1, MgrIsThread DEF AtStep, NoCall
  <2> QED
    BY <2>1, <2>2, MgrIsThread, CreditsCallFrame
<1>28. CASE SockPoll
  BY <1>28, CreditsFrame DEF SockPoll, clientVars, kernelVars, historyVars
<1>29. CASE PollCleanup
  <2>1. mutex = NoOne /\ UNCHANGED <<queue, space, tail, api>>
    BY <1>29 DEF PollCleanup, historyVars
  <2>2. Offers'
    BY <2>1 DEF CreditsInv, Offers
  <2> QED
    BY <1>b, <1>d, <2>1, <2>2, CreditsLockFrame
<1>30. CASE PollConnected
  BY <1>30, CreditsFrame DEF PollConnected, clientVars, kernelVars, historyVars
<1>31. CASE AckTimeout
  BY <1>31, CreditsFrame DEF AckTimeout, kernelVars, historyVars
<1>32. CASE NoAckTimeout
  BY <1>32, CreditsFrame DEF NoAckTimeout, clientVars, kernelVars, historyVars
<1>33. CASE RxTimeout
  <2>1. /\ UNCHANGED <<queue, space, tail, mutex, cursor>> /\ api[Mgr].step = "none"
        /\ api' = api \/ api' = [api EXCEPT ![Mgr] = AtStep("close")]
    BY <1>33 DEF RxTimeout, ManagerAt, clientVars, historyVars
  <2>2. /\ \A u \in Threads \ {Mgr} : api'[u] = api[u]
        /\ api'[Mgr].total = 0 /\ api'[Mgr].step \in {"none", "close"}
    BY <1>a, <1>c, <2>1, MgrIsThread DEF AtStep, NoCall
  <2> QED
    BY <2>1, <2>2, MgrIsThread, CreditsCallFrame
<1>34. CASE NoRxTimeout
  BY <1>34, CreditsFrame DEF NoRxTimeout, clientVars, kernelVars, historyVars
<1>35. CASE ProcessingDone
  BY <1>35, CreditsFrame DEF ProcessingDone, clientVars, kernelVars, historyVars
<1>36. CASE FireDisconnect
  BY <1>36, CreditsFrame DEF FireDisconnect, kernelVars, historyVars
<1>37. CASE CallbackReturn
  <2>1. /\ UNCHANGED <<queue, space, tail, mutex, cursor>> /\ api[Mgr].step = "none"
        /\ api' = api \/ api' = [api EXCEPT ![Mgr] = AtStep("close")]
    BY <1>37 DEF CallbackReturn, clientVars, historyVars
  <2>2. /\ \A u \in Threads \ {Mgr} : api'[u] = api[u]
        /\ api'[Mgr].total = 0 /\ api'[Mgr].step \in {"none", "close"}
    BY <1>a, <1>c, <2>1, MgrIsThread DEF AtStep, NoCall
  <2> QED
    BY <2>1, <2>2, MgrIsThread, CreditsCallFrame
<1>38. CASE SelectFails
  BY <1>38, CreditsFrame DEF SelectFails, clientVars, kernelVars, historyVars
<1>39. CASE KernelAck
  BY <1>39, CreditsFrame DEF KernelAck, clientVars, managerVars, historyVars
<1>40. CASE PeerLeaves
  BY <1>40, CreditsFrame DEF PeerLeaves, clientVars, managerVars, historyVars
<1>41. CASE UNCHANGED vars
  BY <1>41, CreditsFrame DEF vars, clientVars, historyVars
<1> QED
  BY <1>1, <1>2, <1>3, <1>4, <1>5, <1>6, <1>7, <1>8, <1>9, <1>10, <1>11, <1>12, <1>13, <1>14, <1>15, <1>16, <1>17, <1>18, <1>19, <1>20, <1>21, <1>22, <1>23, <1>24, <1>25, <1>26, <1>27, <1>28, <1>29, <1>30, <1>31, <1>32, <1>33, <1>34, <1>35, <1>36, <1>37, <1>38, <1>39, <1>40, <1>41, <1>42
  DEF Next, UserCall, CallProgress, ManagerProgress

-----------------------------------------------------------------------------
(* Theorems *)

\* The client, the manager task, the pending calls and the socket keep their
\* types; in particular _writeSpaceRemaining is a size_t and lwIP's send
\* buffer is never overfilled.
THEOREM TypeCorrect == Spec => []TypeOK
  BY TypeInit, TypeNext, PTL DEF Spec

\* For any number of threads: _writeMutex is held exactly during a pass over
\* the write queue or its cleanup, so passes exclude each other and every
\* user callback runs without the lock.
THEOREM MutexCorrect == Spec => []MutexDiscipline
<1>1. MutexInv => MutexDiscipline
  BY DEF MutexInv
<1> QED
  BY <1>1, TypeInit, TypeNext, MutexInit, MutexNext, PTL DEF Spec

\* If one thread at a time adds, write space is neither lost nor invented
\* however add(), send(), the manager's passes, errors and closes interleave:
\* the space, the uncredited and the unsent bytes make up TCP_SND_BUF.
THEOREM CreditsCorrect ==
  ASSUME SingleAdder
  PROVE  Spec => []CreditsConserved
<1>1. CreditsInv => CreditsConserved
  BY DEF CreditsInv
<1>2. TypeOK /\ MutexInv /\ CreditsInv /\ [Next]_vars => CreditsInv'
  BY CreditsNext
<1> QED
  BY <1>1, <1>2, TypeInit, TypeNext, MutexInit, MutexNext, CreditsInit, PTL DEF Spec
=============================================================================
