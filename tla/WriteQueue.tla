----------------------------- MODULE WriteQueue -----------------------------
(***************************************************************************)
(* The write queue of one client (src/ClientBase.tpp, WriteQueueBuffer.hpp)*)
(* and the threads that share it: the manager task, which runs the socket  *)
(* handlers and every user callback, and the application's own threads.    *)
(*                                                                         *)
(* The bytes handed to add() are numbered 0, 1, 2, ... from the last time  *)
(* the queue was cleared, so a queued buffer is an interval of numbers and *)
(* its payload needs no other representation.  Time is abstracted: a       *)
(* timeout may have elapsed at any moment at which the code looks.         *)
(***************************************************************************)
EXTENDS Integers, Sequences, FiniteSets

CONSTANTS
  Mgr,          \* the manager task (Async TCP Sock Worker)
  Apps,         \* application threads
  Adders,       \* threads that call add() / write()
  Senders,      \* threads that call send(), or write() with IMMEDIATE
  Closers,      \* threads that call close() / abort()
  Connectors,   \* threads that call connect() on the closed client
  TCP_SND_BUF,  \* INITIAL_WRITE_SPACE, and the size of lwIP's send buffer
  SizeMod,      \* 2^32: size_t arithmetic is modulo this number
  NoOne,        \* _writeMutex is unlocked
  MaxSize,      \* bound: largest size passed to add()
  MaxBytes,     \* bound: bytes accepted since the queue was last cleared
  MaxConn       \* bound: connections the client goes through

Threads == Apps \cup {Mgr}

ASSUME ConstantsAssumption ==
  /\ Mgr \notin Apps /\ NoOne \notin Threads
  /\ Adders \subseteq Threads /\ Senders \subseteq Threads
  /\ Closers \subseteq Threads /\ Connectors \subseteq Threads
  /\ TCP_SND_BUF \in Nat \ {0}
  /\ SizeMod \in Nat /\ TCP_SND_BUF < SizeMod
  /\ MaxSize \in Nat /\ MaxBytes \in Nat /\ MaxConn \in Nat

VARIABLES
  state,        \* _state (the DNS states are left to module Lifecycle)
  socket,       \* _socket # -1
  space,        \* _writeSpaceRemaining
  queue,        \* _writeQueue
  mutex,        \* owner of _writeMutex
  signaled,     \* _ack_timeout_signaled
  cursor,       \* position of the loop of the running _processWriteQueue()
  api,          \* the library call each thread is inside of
  mpc,          \* where the manager task is in updateConnectionStates()
  after,        \* where it goes on when _cleanupWriteQueue()/_error() returns
  ready,        \* what select() reported for this client's socket
  notify,       \* notifyQueue of the running _cleanupWriteQueue()
  room,         \* free bytes in lwIP's send buffer
  peer,         \* what lwIP knows of the remote side
  tail,         \* history: bytes accepted since the queue was cleared
  acked,        \* history: of these, bytes reported through SENT
  conn          \* history: number of the current connection

clientVars  == <<state, socket, space, queue, mutex, signaled, cursor>>
managerVars == <<mpc, after, ready, notify>>
kernelVars  == <<room, peer>>
historyVars == <<tail, acked, conn>>
vars == <<clientVars, api, managerVars, kernelVars, historyVars>>

-----------------------------------------------------------------------------
(* Types and helpers *)

ConnectionState == {"DISCONNECTED", "CONNECTING", "CONNECTED", "DISCONNECTING"}

ClientCallbackType ==
  {"CONNECT", "DISCONNECT", "POLL", "SENT", "RECV", "ERROR", "TIMEOUT"}

ManagerStep ==
  {"select", "write", "writeable", "promote", "drain", "cleanup", "errorCode", "notify",
   "read", "readable", "poll", "pollLock", "timeouts", "ackTimeout",
   "rxTimeout", "done", "fire"} \cup ClientCallbackType

\* Where a thread is inside a call of the library.
CallStep ==
  {"none", "space", "push", "send", "sendLock", "pass",
   "close", "closeSocket", "closeClear",
   "connectState", "connectSocket"}

\* A buffer of the queue: bytes lo..hi-1, of which lo..pos-1 are written.
\* err stands for errorCode # 0, conn is the connection add() saw.
WriteQueueBuffer ==
  [lo : Nat, hi : Nat, pos : Nat, err : BOOLEAN, conn : Nat]

\* size, lo and conn are the arguments and locals of add()/write(), imm is
\* the IMMEDIATE flag; act is the activity flag of _processWriteQueue(),
\* total the writtenTotal of the buffer it is at.
Call == [step : CallStep, size : Nat, lo : Nat, conn : Nat,
         imm : BOOLEAN, act : BOOLEAN, total : Nat]

NoCall == [step |-> "none", size |-> 0, lo |-> 0, conn |-> 0,
           imm |-> FALSE, act |-> FALSE, total |-> 0]

AtStep(s) == [NoCall EXCEPT !.step = s]

isFullyWritten(buf) == buf.pos >= buf.hi

connected == state = "CONNECTED"

Least(a, b) == IF a < b THEN a ELSE b

\* size_t subtraction and addition
Minus(a, n) == (a - n) % SizeMod
Plus(a, n)  == (a + n) % SizeMod

\* select() reports a socket with send-buffer space or a pending error.
Writable == socket /\ (room > 0 \/ peer = "reset")

\* A thread may enter the library when it is in no call; the manager task
\* runs user code only in a callback.
MayCall(t) == api[t].step = "none" /\ (t = Mgr => mpc \in ClientCallbackType)

\* The manager task is executing library code, not a nested call.
ManagerAt(step) == mpc = step /\ api[Mgr].step = "none"

\* The call t is inside of was made by user code.
InUserCall(t) == t = Mgr => mpc \in ClientCallbackType

-----------------------------------------------------------------------------
\* Client(): unconnected, connect() starts its first connection.
\* Client(socket): a connection the server accepted.
Constructed ==
  \/ state = "DISCONNECTED" /\ socket = FALSE /\ room = 0 /\ conn = 0
  \/ state = "CONNECTED" /\ socket = TRUE /\ room = TCP_SND_BUF /\ conn = 1

Init ==
  /\ Constructed
  /\ space = TCP_SND_BUF /\ queue = <<>> /\ mutex = NoOne
  /\ signaled = FALSE /\ cursor = 0
  /\ api = [t \in Threads |-> NoCall]
  /\ mpc = "select" /\ after = "read" /\ ready = {} /\ notify = <<>>
  /\ peer = "open"
  /\ tail = 0 /\ acked = 0

-----------------------------------------------------------------------------
(* add() and write() *)

\* The connected() tests of add() and space().
AddBegin(t) ==
  /\ t \in Adders /\ MayCall(t)
  /\ connected
  /\ \E size \in 1..MaxSize, imm \in (IF t \in Senders THEN BOOLEAN ELSE {FALSE}) :
       /\ tail + size <= MaxBytes
       /\ api' = [api EXCEPT ![t] = [NoCall EXCEPT !.step = "space", !.size = size,
                                                   !.conn = conn, !.imm = imm]]
  /\ UNCHANGED <<clientVars, managerVars, kernelVars, historyVars>>

\* The unlocked read of _writeSpaceRemaining.
AddSpace(t) ==
  /\ api[t].step = "space"
  /\ api' = [api EXCEPT ![t] =
       IF space = 0 THEN NoCall
       ELSE [@ EXCEPT !.step = "push", !.size = Least(space, api[t].size)]]
  /\ UNCHANGED <<clientVars, managerVars, kernelVars, historyVars>>

\* The locked section of add(); write() goes on to send() if IMMEDIATE.
AddPush(t) ==
  /\ api[t].step = "push" /\ mutex = NoOne
  /\ queue' = Append(queue, [lo |-> tail, hi |-> tail + api[t].size, pos |-> tail,
                             err |-> FALSE, conn |-> api[t].conn])
  /\ space' = Minus(space, api[t].size)
  /\ signaled' = FALSE
  /\ tail' = tail + api[t].size
  /\ api' = [api EXCEPT ![t] = IF @.imm THEN [@ EXCEPT !.step = "send", !.lo = tail]
                               ELSE NoCall]
  /\ UNCHANGED <<state, socket, mutex, cursor, acked, conn, managerVars, kernelVars>>

-----------------------------------------------------------------------------
(* send() *)

SendCall(t) ==
  /\ t \in Senders /\ MayCall(t)
  /\ api' = [api EXCEPT ![t] = AtStep("send")]
  /\ UNCHANGED <<clientVars, managerVars, kernelVars, historyVars>>

\* connected() and the zero-timeout select(); otherwise send() returns false.
SendSelect(t) ==
  /\ api[t].step = "send"
  /\ api' = [api EXCEPT ![t] = IF connected /\ Writable
                               THEN [@ EXCEPT !.step = "sendLock"] ELSE NoCall]
  /\ UNCHANGED <<clientVars, managerVars, kernelVars, historyVars>>


SendLock(t) ==
  /\ api[t].step = "sendLock" /\ mutex = NoOne
  /\ IF queue = <<>>
     THEN /\ api' = [api EXCEPT ![t] = NoCall]
          /\ UNCHANGED <<mutex, cursor>>
     ELSE /\ api' = [api EXCEPT ![t].step = "pass"]
          /\ mutex' = t /\ cursor' = 1
  /\ UNCHANGED <<state, socket, space, queue, signaled, managerVars, kernelVars, historyVars>>

-----------------------------------------------------------------------------
(* _processWriteQueue(), one action per lwip_write() *)

\* The loop has come to buffer i: everything since cursor is fully written.
IsNext(i) ==
  /\ i \in DOMAIN queue /\ i >= cursor
  /\ ~isFullyWritten(queue[i])
  /\ \A k \in cursor..(i - 1) : isFullyWritten(queue[k])

\* Faulty variant: write() counts what it asked for, not lwip_write()'s result.
lwip_write_all(i) == {queue[i].hi - queue[i].pos}

\* What lwip_write() may take of buffer i: at most what the send buffer holds.
lwip_write(i) == {n \in 1..room : queue[i].pos + n <= queue[i].hi}

\* The inner loop repeats until the buffer is fully written, and only then
\* is writtenTotal added to _writeSpaceRemaining.
PassWrite(t) ==
  /\ api[t].step = "pass"
  /\ socket /\ peer # "reset"
  /\ \E i \in DOMAIN queue :
       /\ IsNext(i) /\ ~queue[i].err
       /\ \E n \in lwip_write(i) :
            LET full  == queue[i].pos + n = queue[i].hi
                total == api[t].total + n
            IN /\ queue' = [queue EXCEPT ![i].pos = @ + n]
               /\ room' = room - n
               /\ cursor' = IF full THEN i + 1 ELSE i
               /\ space' = IF full THEN Plus(space, total) ELSE space
               /\ api' = [api EXCEPT ![t] = [@ EXCEPT
                            !.act = TRUE, !.total = IF full THEN 0 ELSE total]]
  /\ UNCHANGED <<state, socket, mutex, signaled, managerVars, peer, historyVars>>

\* EAGAIN: the inner loop ends, the outer loop goes on with the next buffer.
PassBlocked(t) ==
  /\ api[t].step = "pass"
  /\ socket /\ peer # "reset" /\ room = 0
  /\ \E i \in DOMAIN queue : IsNext(i) /\ ~queue[i].err /\ cursor' = i + 1
  /\ space' = Plus(space, api[t].total)
  /\ api' = [api EXCEPT ![t].total = 0]
  /\ UNCHANGED <<state, socket, queue, mutex, signaled, managerVars, kernelVars,
                 historyVars>>

\* Faulty variant: what was written before the error is not credited.
PassErrorUncredited(t) ==
  /\ api[t].step = "pass"
  /\ ~socket \/ peer = "reset"
  /\ \E i \in DOMAIN queue :
       /\ IsNext(i) /\ ~queue[i].err
       /\ queue' = [queue EXCEPT ![i].err = TRUE]
       /\ cursor' = i + 1
  /\ api' = [api EXCEPT ![t].total = 0]
  /\ UNCHANGED <<state, socket, space, mutex, signaled, managerVars, kernelVars,
                 historyVars>>

\* Any other errno (the connection was reset, or closed by another thread).
PassError(t) ==
  /\ api[t].step = "pass"
  /\ ~socket \/ peer = "reset"
  /\ \E i \in DOMAIN queue :
       /\ IsNext(i) /\ ~queue[i].err
       /\ queue' = [queue EXCEPT ![i].err = TRUE]
       /\ cursor' = i + 1
  /\ space' = Plus(space, api[t].total)
  /\ api' = [api EXCEPT ![t].total = 0]
  /\ UNCHANGED <<state, socket, mutex, signaled, managerVars, kernelVars, historyVars>>

\* The loop ends.  send() unlocks and returns; the manager task's handler
\* keeps the lock for _cleanupWriteQueue().
PassEnd(t) ==
  /\ api[t].step = "pass"
  /\ \A i \in DOMAIN queue : IsNext(i) => queue[i].err
  /\ api' = [api EXCEPT ![t] = NoCall]
  /\ cursor' = 0
  /\ mutex' = IF InUserCall(t) THEN NoOne ELSE mutex
  /\ UNCHANGED <<state, socket, space, queue, signaled, managerVars, kernelVars,
                 historyVars>>

-----------------------------------------------------------------------------
(* close(), abort() and _close() *)

CloseCall(t) ==
  /\ t \in Closers /\ MayCall(t)
  /\ socket
  /\ api' = [api EXCEPT ![t] = AtStep("close")]
  /\ UNCHANGED <<clientVars, managerVars, kernelVars, historyVars>>

\* Faulty variant: _close() takes the socket away first.
CloseSocketFirst(t) ==
  /\ api[t].step = "close"
  /\ socket' = FALSE
  /\ api' = [api EXCEPT ![t].step = "closeSocket"]
  /\ UNCHANGED <<state, space, queue, mutex, signaled, cursor, managerVars,
                 kernelVars, historyVars>>

CloseState(t) ==
  /\ api[t].step = "close"
  /\ state' = "DISCONNECTING"
  /\ api' = [api EXCEPT ![t].step = "closeSocket"]
  /\ UNCHANGED <<socket, space, queue, mutex, signaled, cursor, managerVars,
                 kernelVars, historyVars>>

\* ::close(_socket.exchange(-1))
CloseSocket(t) ==
  /\ api[t].step = "closeSocket"
  /\ socket' = FALSE
  /\ api' = [api EXCEPT ![t].step = "closeClear"]
  /\ UNCHANGED <<state, space, queue, mutex, signaled, cursor, managerVars,
                 kernelVars, historyVars>>

\* Faulty variants: _clearWriteQueue() resets only the space, only the queue.
CloseKeepsQueue(t) ==
  /\ api[t].step = "closeClear" /\ mutex = NoOne
  /\ space' = TCP_SND_BUF
  /\ api' = [api EXCEPT ![t] = NoCall]
  /\ UNCHANGED <<state, socket, queue, mutex, signaled, cursor, managerVars,
                 kernelVars, historyVars>>

CloseKeepsSpace(t) ==
  /\ api[t].step = "closeClear" /\ mutex = NoOne
  /\ queue' = <<>>
  /\ tail' = 0 /\ acked' = 0
  /\ api' = [api EXCEPT ![t] = NoCall]
  /\ UNCHANGED <<state, socket, space, mutex, signaled, cursor, conn, managerVars,
                 kernelVars>>

\* _clearWriteQueue()
CloseClear(t) ==
  /\ api[t].step = "closeClear" /\ mutex = NoOne
  /\ queue' = <<>>
  /\ space' = TCP_SND_BUF
  /\ tail' = 0 /\ acked' = 0
  /\ api' = [api EXCEPT ![t] = NoCall]
  /\ UNCHANGED <<state, socket, mutex, signaled, cursor, conn, managerVars, kernelVars>>

-----------------------------------------------------------------------------
(* connect(ip, port); ::connect() runs on a still blocking socket *)

ConnectCall(t) ==
  /\ t \in Connectors /\ MayCall(t)
  /\ ~socket /\ conn < MaxConn
  /\ api' = [api EXCEPT ![t] = AtStep("connectState")]
  /\ UNCHANGED <<clientVars, managerVars, kernelVars, historyVars>>

ConnectState(t) ==
  /\ api[t].step = "connectState"
  /\ state' = "CONNECTING"
  /\ api' = [api EXCEPT ![t].step = "connectSocket"]
  /\ UNCHANGED <<socket, space, queue, mutex, signaled, cursor, managerVars,
                 kernelVars, historyVars>>

\* _configureSocket() publishes the socket to the manager task.
ConnectSocket(t) ==
  /\ api[t].step = "connectSocket"
  /\ socket' = TRUE
  /\ room' = TCP_SND_BUF /\ peer' = "open"
  /\ conn' = conn + 1
  /\ api' = [api EXCEPT ![t] = NoCall]
  /\ UNCHANGED <<state, space, queue, mutex, signaled, cursor, managerVars, tail, acked>>

-----------------------------------------------------------------------------
(* The manager task: updateConnectionStates() as it treats this client *)

\* Faulty variant: the queue is not looked at.
PendingWriteStateOnly == state \notin {"DISCONNECTED", "CONNECTED"} \/ mutex # NoOne

\* select() with write interest only if _pendingWrite().  Its try_lock()
\* counts a held mutex as something to write.
PendingWrite ==
  \/ state \notin {"DISCONNECTED", "CONNECTED"}
  \/ mutex # NoOne
  \/ queue # <<>>

\* Data may or may not have arrived while the remote side is open.
Select ==
  /\ ManagerAt("select")
  /\ \E data \in BOOLEAN :
       ready' = (IF PendingWrite /\ Writable THEN {"w"} ELSE {}) \cup
                (IF socket /\ (data \/ peer # "open") THEN {"r"} ELSE {})
  /\ mpc' = "write"
  /\ UNCHANGED <<clientVars, api, after, notify, kernelVars, historyVars>>

SelectFails ==
  /\ ManagerAt("select")
  /\ ready' = {}
  /\ mpc' = "write"
  /\ UNCHANGED <<clientVars, api, after, notify, kernelVars, historyVars>>

CollectWriteable ==
  /\ ManagerAt("write")
  /\ mpc' = IF socket /\ "w" \in ready THEN "writeable" ELSE "read"
  /\ UNCHANGED <<clientVars, api, after, ready, notify, kernelVars, historyVars>>

\* _sockIsWriteable(): the state test and getsockopt(SO_ERROR).
SockIsWriteable ==
  /\ ManagerAt("writeable")
  /\ after' = "read"
  /\ mpc' = CASE connected -> "drain"
              [] ~connected /\ socket /\ peer # "reset" -> "promote"
              [] OTHER -> "ERROR"
  /\ UNCHANGED <<clientVars, api, ready, notify, kernelVars, historyVars>>

SockConnected ==
  /\ ManagerAt("promote")
  /\ state' = "CONNECTED"
  /\ signaled' = FALSE
  /\ acked' = 0
  /\ mpc' = "CONNECT"
  /\ UNCHANGED <<socket, space, queue, mutex, cursor, api, after, ready, notify,
                 kernelVars, tail, conn>>

\* The locked part: _processWriteQueue(), then _cleanupWriteQueue().
SockDrain ==
  /\ ManagerAt("drain") /\ mutex = NoOne
  /\ IF connected /\ queue # <<>>
     THEN /\ mutex' = Mgr /\ cursor' = 1
          /\ api' = [api EXCEPT ![Mgr] = AtStep("pass")]
          /\ mpc' = "cleanup"
     ELSE /\ mpc' = "read"
          /\ UNCHANGED <<mutex, cursor, api>>
  /\ UNCHANGED <<state, socket, space, queue, signaled, after, ready, notify,
                 kernelVars, historyVars>>

\* Faulty variant: _error() runs with _writeMutex locked.
CleanupErrorLocked ==
  /\ ManagerAt("cleanup")
  /\ \E i \in DOMAIN queue :
       queue[i].err /\ \A k \in 1..(i - 1) : isFullyWritten(queue[k])
  /\ mpc' = "ERROR"
  /\ UNCHANGED <<clientVars, api, after, ready, notify, kernelVars, historyVars>>

\* _cleanupWriteQueue() meets an error behind fully written buffers only, and
\* unlocks the mutex.
CleanupError ==
  /\ ManagerAt("cleanup")
  /\ \E i \in DOMAIN queue :
       queue[i].err /\ \A k \in 1..(i - 1) : isFullyWritten(queue[k])
  /\ mutex' = NoOne
  /\ mpc' = "errorCode"
  /\ UNCHANGED <<state, socket, space, queue, signaled, cursor, api, after, ready,
                 notify, kernelVars, historyVars>>

\* Then it reads errorCode through its reference into _writeQueue, for _error().
ReadErrorCode ==
  /\ ManagerAt("errorCode")
  /\ mpc' = "ERROR"
  /\ UNCHANGED <<clientVars, api, after, ready, notify, kernelVars, historyVars>>

\* Faulty variant: the reported buffers are not erased.
CleanupKeeps ==
  /\ ManagerAt("cleanup")
  /\ \E n \in 0..Len(queue) :
       /\ \A k \in 1..n : isFullyWritten(queue[k])
       /\ n < Len(queue) => ~isFullyWritten(queue[n + 1]) /\ ~queue[n + 1].err
       /\ notify' = SubSeq(queue, 1, n)
  /\ mutex' = NoOne
  /\ mpc' = "notify"
  /\ UNCHANGED <<state, socket, space, queue, signaled, cursor, api, after, ready,
                 kernelVars, historyVars>>

\* _cleanupWriteQueue() removes the fully written front and unlocks.
CleanupFront ==
  /\ ManagerAt("cleanup")
  /\ \E n \in 0..Len(queue) :
       /\ \A k \in 1..n : isFullyWritten(queue[k])
       /\ n < Len(queue) => ~isFullyWritten(queue[n + 1]) /\ ~queue[n + 1].err
       /\ notify' = SubSeq(queue, 1, n)
       /\ queue' = SubSeq(queue, n + 1, Len(queue))
  /\ mutex' = NoOne
  /\ mpc' = "notify"
  /\ UNCHANGED <<state, socket, space, signaled, cursor, api, after, ready,
                 kernelVars, historyVars>>

\* One SENT callback per removed buffer, without the lock.
NotifySent ==
  /\ ManagerAt("notify")
  /\ IF notify = <<>>
     THEN /\ mpc' = after
          /\ UNCHANGED <<notify, acked>>
     ELSE /\ mpc' = "SENT"
          /\ acked' = acked + (Head(notify).hi - Head(notify).lo)
          /\ notify' = Tail(notify)
  /\ UNCHANGED <<clientVars, api, after, ready, kernelVars, tail, conn>>

CollectReadable ==
  /\ ManagerAt("read")
  /\ mpc' = IF socket /\ "r" \in ready THEN "readable" ELSE "poll"
  /\ UNCHANGED <<clientVars, api, after, ready, notify, kernelVars, historyVars>>

\* _sockIsReadable(): lwip_read() returns data, nothing (EAGAIN), end of
\* stream or an error.
SockIsReadable ==
  /\ ManagerAt("readable")
  /\ after' = "poll"
  /\ \/ socket /\ peer = "open" /\ mpc' \in {"RECV", "poll"} /\ UNCHANGED api
     \/ /\ socket /\ peer = "eof"
        /\ api' = [api EXCEPT ![Mgr] = AtStep("close")]
        /\ mpc' = "poll"
     \/ (~socket \/ peer = "reset") /\ mpc' = "ERROR" /\ UNCHANGED api
  /\ UNCHANGED <<clientVars, ready, notify, kernelVars, historyVars>>

\* _sockPoll() runs if POLL_INTERVAL has passed since the last activity.
SockPoll ==
  /\ ManagerAt("poll")
  /\ \/ mpc' = "done"
     \/ connected /\ mpc' = "pollLock"
  /\ UNCHANGED <<clientVars, api, after, ready, notify, kernelVars, historyVars>>

PollCleanup ==
  /\ ManagerAt("pollLock") /\ mutex = NoOne
  /\ mutex' = Mgr
  /\ mpc' = "cleanup" /\ after' = "timeouts"
  /\ UNCHANGED <<state, socket, space, queue, signaled, cursor, api, ready, notify,
                 kernelVars, historyVars>>

\* The notifications may have disconnected the client.
PollConnected ==
  /\ ManagerAt("timeouts")
  /\ mpc' = IF connected THEN "ackTimeout" ELSE "done"
  /\ UNCHANGED <<clientVars, api, after, ready, notify, kernelVars, historyVars>>

\* _checkAckTimeout() fires: the front buffer has no writtenAt stamp.
AckTimeout ==
  /\ ManagerAt("ackTimeout") /\ mutex = NoOne
  /\ ~signaled
  /\ queue # <<>> /\ ~isFullyWritten(queue[1])
  /\ signaled' = TRUE
  /\ mpc' = "TIMEOUT"
  /\ UNCHANGED <<state, socket, space, queue, mutex, cursor, api, after, ready,
                 notify, kernelVars, historyVars>>

\* It does not; without a timeout set the mutex is not taken.
NoAckTimeout ==
  /\ ManagerAt("ackTimeout")
  /\ mpc' = "rxTimeout"
  /\ UNCHANGED <<clientVars, api, after, ready, notify, kernelVars, historyVars>>

\* _checkRxTimeout() closes a socket that is silent and not readable.
RxTimeout ==
  /\ ManagerAt("rxTimeout")
  /\ ~socket \/ peer = "open"
  /\ api' = [api EXCEPT ![Mgr] = AtStep("close")]
  /\ mpc' = "done"
  /\ UNCHANGED <<clientVars, after, ready, notify, kernelVars, historyVars>>

NoRxTimeout ==
  /\ ManagerAt("rxTimeout")
  /\ mpc' = "POLL"
  /\ UNCHANGED <<clientVars, api, after, ready, notify, kernelVars, historyVars>>

\* _processingDone(), the test and then the assignment.
ProcessingDone ==
  /\ ManagerAt("done")
  /\ mpc' = IF state = "DISCONNECTING" THEN "fire" ELSE "select"
  /\ UNCHANGED <<clientVars, api, after, ready, notify, kernelVars, historyVars>>

FireDisconnect ==
  /\ ManagerAt("fire")
  /\ state' = "DISCONNECTED"
  /\ mpc' = "DISCONNECT"
  /\ UNCHANGED <<socket, space, queue, mutex, signaled, cursor, api, after, ready,
                 notify, kernelVars, historyVars>>

\* A user callback returns; _error() then runs _close().
CallbackReturn ==
  /\ mpc \in ClientCallbackType /\ api[Mgr].step = "none"
  /\ mpc' = CASE mpc = "CONNECT" -> "drain"
              [] mpc = "SENT" -> "notify"
              [] mpc = "RECV" -> "poll"
              [] mpc = "ERROR" -> after
              [] mpc \in {"POLL", "TIMEOUT"} -> "done"
              [] mpc = "DISCONNECT" -> "select"
  /\ api' = IF mpc = "ERROR" THEN [api EXCEPT ![Mgr] = AtStep("close")] ELSE api
  /\ UNCHANGED <<clientVars, after, ready, notify, kernelVars, historyVars>>

-----------------------------------------------------------------------------
(* lwIP *)

\* The remote side acknowledges a byte; this happens at any time, also
\* between two lwip_write() calls of one pass.
KernelAck ==
  /\ socket /\ peer # "reset" /\ room < TCP_SND_BUF
  /\ room' = room + 1
  /\ UNCHANGED <<clientVars, api, managerVars, peer, historyVars>>

PeerLeaves ==
  /\ socket /\ peer = "open"
  /\ peer' \in {"eof", "reset"}
  /\ UNCHANGED <<clientVars, api, managerVars, room, historyVars>>

-----------------------------------------------------------------------------
\* A call in progress advances.
CallProgress(t) ==
  \/ AddSpace(t) \/ AddPush(t)
  \/ SendSelect(t) \/ SendLock(t)
  \/ PassWrite(t) \/ PassBlocked(t) \/ PassError(t) \/ PassEnd(t)
  \/ CloseState(t) \/ CloseSocket(t) \/ CloseClear(t)
  \/ ConnectState(t) \/ ConnectSocket(t)

UserCall(t) ==
  AddBegin(t) \/ SendCall(t) \/ CloseCall(t) \/ ConnectCall(t)

ManagerProgress ==
  \/ Select \/ CollectWriteable \/ SockIsWriteable \/ SockConnected \/ SockDrain
  \/ CleanupError \/ ReadErrorCode \/ CleanupFront \/ NotifySent
  \/ CollectReadable \/ SockIsReadable
  \/ SockPoll \/ PollCleanup \/ PollConnected
  \/ AckTimeout \/ NoAckTimeout \/ RxTimeout \/ NoRxTimeout
  \/ ProcessingDone \/ FireDisconnect
  \/ CallbackReturn

Next ==
  \/ \E t \in Threads : UserCall(t) \/ CallProgress(t)
  \/ ManagerProgress \/ SelectFails
  \/ KernelAck \/ PeerLeaves

Spec == Init /\ [][Next]_vars

\* Scheduling: the manager task and every thread inside a call keep running,
\* also when they compete for _writeMutex (FreeRTOS hands a mutex to its
\* highest-priority waiter); user callbacks return; select() does not fail
\* for ever; lwIP delivers ACKs.
Fairness ==
  /\ SF_vars(ManagerProgress) /\ SF_vars(Select)
  /\ \A t \in Threads : SF_vars(CallProgress(t))
  /\ WF_vars(KernelAck)

FairSpec == Spec /\ Fairness

-----------------------------------------------------------------------------
(* Properties *)

TypeOK ==
  /\ state \in ConnectionState /\ socket \in BOOLEAN
  /\ space \in 0..(SizeMod - 1) /\ queue \in Seq(WriteQueueBuffer)
  /\ mutex \in Threads \cup {NoOne} /\ signaled \in BOOLEAN /\ cursor \in Nat
  /\ api \in [Threads -> Call]
  /\ mpc \in ManagerStep /\ after \in {"read", "poll", "timeouts"}
  /\ ready \in SUBSET {"r", "w"} /\ notify \in Seq(WriteQueueBuffer)
  /\ room \in 0..TCP_SND_BUF /\ peer \in {"open", "eof", "reset"}
  /\ tail \in Nat /\ acked \in Int /\ conn \in Nat

\* _writeMutex is held exactly by the thread that is inside
\* _processWriteQueue() or _cleanupWriteQueue(): no two passes overlap, and
\* no user callback, and no call that locks the mutex, runs under it.
MutexDiscipline ==
  /\ \A t \in Threads : api[t].step = "pass" => mutex = t
  /\ mpc = "cleanup" => mutex = Mgr
  /\ mutex # NoOne => api[mutex].step = "pass" \/ (mutex = Mgr /\ ManagerAt("cleanup"))

\* The bytes of a buffer, of a queue, that are not yet handed to lwIP.
UnsentOf(buf) == buf.pos..(buf.hi - 1)
UnsentIn(q) == UNION {UnsentOf(q[i]) : i \in DOMAIN q}

\* Bytes the running pass has written and not yet credited.
Uncredited == IF mutex = NoOne THEN 0 ELSE api[mutex].total

\* _writeSpaceRemaining, what a running pass has still to add to it and the
\* unsent bytes always make up TCP_SND_BUF: no interleaving of add(), send(),
\* the manager's passes and closes loses or invents write space.
CreditsConserved == space + Uncredited + Cardinality(UnsentIn(queue)) = TCP_SND_BUF

\* On a live connection SENT reports every accepted byte once and in order:
\* what was reported, what is about to be reported and what is queued are
\* consecutive and cover everything accepted.
SentAccounting ==
  LET rest == notify \o queue IN
  connected =>
    /\ rest = <<>> => acked = tail
    /\ rest # <<>> => rest[1].lo = acked /\ rest[Len(rest)].hi = tail
    /\ \A i \in 1..(Len(rest) - 1) : rest[i].hi = rest[i + 1].lo

\* A connection only ever sends what was added while it was up.
QueueBelongsToConnection ==
  connected => \A i \in DOMAIN queue : queue[i].conn = conn

\* After DISCONNECT nothing of the old connection is left in the queue.
ClosedClientIsEmpty ==
  state = "DISCONNECTED" => queue = <<>> /\ space = TCP_SND_BUF

\* connected() is never true of a client without a socket.
ConnectedHasSocket == connected => socket


\* Every accepted byte is eventually reported through SENT, unless the
\* connection goes down.
EventuallyReported ==
  \A b \in 1..MaxBytes : (connected /\ tail >= b) ~> (acked >= b \/ ~connected)

\* "send queue" (ClientBase.hpp:137): no byte is handed to lwIP before the
\* bytes that were added earlier.
NoOvertaking ==
  \A i, j \in DOMAIN queue :
    i < j /\ queue[j].pos > queue[j].lo => isFullyWritten(queue[i])

\* "Sending failed => nothing was written" (ClientBase.tpp:294): when
\* write() with IMMEDIATE returns 0 on a live connection, its data is not
\* left in the queue (from where the manager task would send it).
WriteReturnsZero(t) ==
  /\ api[t].imm /\ api[t].step \in {"send", "sendLock", "pass"}
  /\ api'[t].step = "none" /\ ~api[t].act

ZeroMeansNotWritten ==
  [][\A t \in Threads : 
        WriteReturnsZero(t) /\ connected /\ socket /\ peer = "open" =>
          \A i \in DOMAIN queue' : queue'[i].lo # api[t].lo]_vars
=============================================================================
