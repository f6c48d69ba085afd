------------------------------ MODULE Timeouts ------------------------------
(***************************************************************************)
(* The timers of one client: the poll interval of the manager task, the    *)
(* ack timeout of the write queue and the receive timeout of the           *)
(* connection (src/ClientBase.tpp, the loop of src/SocketConnection.tpp).  *)
(* Module WriteQueue lets a timeout elapse at any moment; here time        *)
(* passes, and the module asks when the timers fire.                       *)
(*                                                                         *)
(* A time stamp of the code is kept as its age, which saturates at the     *)
(* timeout it is compared with.  The manager task does one step of its     *)
(* loop at a time; calls of the user, on a thread of the application or in *)
(* the callbacks of a step, come between the steps.  The queue is cut down *)
(* to what the timers look at: which buffers are written, and since when.  *)
(***************************************************************************)
EXTENDS Integers, Sequences

CONSTANTS
  Mgr,           \* the manager task
  Setters,       \* threads that call setAckTimeout() / setRxTimeout()
  POLL_INTERVAL, \* CONFIG_ASYNC_TCP_POLL_INTERVAL, in ticks
  ACK_TIMEOUT,   \* the value of _ack_timeout while it is set
  RX_TIMEOUT,    \* the value of _rx_timeout while it is set
  MaxQueue       \* bound: buffers in the queue (space() is 0 from there on)

ASSUME TimersAssumption ==
  /\ POLL_INTERVAL \in Nat \ {0}
  /\ ACK_TIMEOUT \in Nat \ {0} /\ RX_TIMEOUT \in Nat \ {0}
  /\ MaxQueue \in Nat \ {0}

VARIABLES
  state,    \* _state; "CLOSED" is DISCONNECTING or DISCONNECTED, no socket
  queue,    \* _writeQueue
  signaled, \* _ack_timeout_signaled
  ackSet,   \* _ack_timeout.has_value()
  rxSet,    \* _rx_timeout.has_value()
  idle,     \* age of _lastActive
  silent,   \* age of _rx_last_packet
  pc,       \* where the manager task is in its loop
  ready,    \* what select() reported for the socket
  act,      \* the activity flag of _sockIsWriteable()
  room,     \* lwIP's send buffer takes more data
  data,     \* there is received data that was not read
  peer,     \* what lwIP knows of the remote side
  told,     \* history: TIMEOUT was invoked for the front buffer
  unheard   \* history: age of the newest data, or of the connection

timerVars  == <<signaled, ackSet, rxSet, idle, silent>>
kernelVars == <<room, data, peer>>
vars == <<state, queue, timerVars, pc, ready, act, kernelVars, told, unheard>>

-----------------------------------------------------------------------------
(* Types and helpers *)

ManagerStep ==
  {"select", "write", "drain", "read", "poll", "ackTest", "ackCheck",
   "rxCheck", "rxClose"}

\* age counts from queuedAt, and from writtenAt once the buffer is written;
\* a failed buffer has an errorCode.  A partly written one is "queued".
Buffer == [status : {"queued", "written", "failed"}, age : Nat]

TypeOK ==
  /\ state \in {"CONNECTING", "CONNECTED", "CLOSED"}
  /\ queue \in Seq(Buffer) /\ Len(queue) <= MaxQueue
  /\ signaled \in BOOLEAN /\ ackSet \in BOOLEAN /\ rxSet \in BOOLEAN
  /\ idle \in Nat /\ silent \in Nat /\ unheard \in Nat
  /\ pc \in ManagerStep /\ ready \subseteq {"r", "w"} /\ act \in BOOLEAN
  /\ room \in BOOLEAN /\ data \in BOOLEAN /\ told \in BOOLEAN
  /\ peer \in {"none", "connecting", "open", "gone"}

connected == state = "CONNECTED"

\* The age one tick later: nothing compares it with more than limit.
Older(age, limit) == IF age < limit THEN age + 1 ELSE age

\* select() with a zero timeout on the socket; an end of file is readable.
Readable == state # "CLOSED" /\ (data \/ peer = "gone")
Writable ==
  /\ state # "CLOSED"
  /\ IF state = "CONNECTING" THEN peer # "connecting" ELSE room \/ peer = "gone"

\* The fully written buffers in front of the queue.
WrittenPrefix(q) ==
  CHOOSE n \in 0..Len(q) :
    /\ \A i \in 1..n : q[i].status = "written"
    /\ n < Len(q) => q[n + 1].status # "written"

\* _close(), as far as a step of this module sees it.
Closed ==
  /\ state' = "CLOSED" /\ queue' = <<>> /\ told' = FALSE /\ ready' = {}
  /\ data' = FALSE /\ peer' = "none" /\ unheard' = 0

-----------------------------------------------------------------------------
\* Client(): unconnected.  Client(socket): accepted by a server.
Init ==
  /\ \/ state = "CLOSED" /\ peer = "none" /\ room = FALSE /\ silent = RX_TIMEOUT
     \/ state = "CONNECTED" /\ peer = "open" /\ room = TRUE /\ silent = 0
  /\ queue = <<>> /\ signaled = FALSE /\ ackSet = TRUE /\ rxSet = FALSE
  /\ idle = 0 /\ pc = "select" /\ ready = {} /\ act = FALSE /\ data = FALSE
  /\ told = FALSE /\ unheard = 0

Tick ==
  /\ idle' = Older(idle, POLL_INTERVAL)
  /\ silent' = Older(silent, RX_TIMEOUT)
  /\ unheard' = Older(unheard, RX_TIMEOUT)
  /\ queue' = [i \in DOMAIN queue |->
                 [queue[i] EXCEPT !.age =
                    Older(@, IF queue[i].status = "written" THEN RX_TIMEOUT
                                                            ELSE ACK_TIMEOUT)]]
  /\ UNCHANGED <<state, signaled, ackSet, rxSet, pc, ready, act, kernelVars, told>>

-----------------------------------------------------------------------------
(* The user *)

\* Faulty variant: a buffer more than there is space for.
AddOneMore ==
  /\ connected /\ Len(queue) <= MaxQueue
  /\ queue' = Append(queue, [status |-> "queued", age |-> 0])
  /\ signaled' = FALSE
  /\ UNCHANGED <<state, ackSet, rxSet, idle, silent, pc, ready, act, kernelVars,
                 told, unheard>>

Add ==
  /\ connected /\ Len(queue) < MaxQueue
  /\ queue' = Append(queue, [status |-> "queued", age |-> 0])
  /\ signaled' = FALSE
  /\ UNCHANGED <<state, ackSet, rxSet, idle, silent, pc, ready, act, kernelVars,
                 told, unheard>>

Close ==
  /\ state # "CLOSED" /\ Closed
  /\ UNCHANGED <<timerVars, pc, act, room>>

\* A descriptor that is used again while select()'s result is being worked
\* off is the subject of module Lifecycle.
Connect ==
  /\ state = "CLOSED" /\ pc = "select"
  /\ state' = "CONNECTING" /\ peer' = "connecting" /\ room' = FALSE
  /\ UNCHANGED <<queue, timerVars, pc, ready, act, data, told, unheard>>

\* The manager task calls the setters in a callback, never within a check.
MaySet(t) == t = Mgr => pc \notin {"ackCheck", "rxCheck"}

SetAckTimeout(t) ==
  /\ MaySet(t)
  /\ ackSet' = ~ackSet
  /\ UNCHANGED <<state, queue, signaled, rxSet, idle, silent, pc, ready, act,
                 kernelVars, told, unheard>>

SetRxTimeout(t) ==
  /\ MaySet(t)
  /\ rxSet' = ~rxSet
  /\ UNCHANGED <<state, queue, signaled, ackSet, idle, silent, pc, ready, act,
                 kernelVars, told, unheard>>

\* What _processWriteQueue() may do to the queue: the buffers in done are
\* written completely, the one at fail (0: none) is the first to get an error.
\* Neither a full socket nor an error ends the loop, so that done may be any
\* set without fail.  Buffers behind it may get errors of their own; as passes
\* and clean-ups stop at the first one, that makes no difference.
Passed(done, fail) ==
  [i \in DOMAIN queue |->
     CASE i \in done -> [status |-> "written", age |-> 0]
       [] i = fail   -> [queue[i] EXCEPT !.status = "failed"]
       [] OTHER      -> queue[i]]

\* The buffers a pass tries to write: it ends at one that has an error.
Queued == {i \in DOMAIN queue : /\ queue[i].status = "queued"
                                /\ \A k \in 1..i : queue[k].status # "failed"}

\* Where a write may meet an error.
Failing == IF peer = "gone" THEN Queued \cup {0} ELSE {0}

Pass(done, fail, wrote) ==
  /\ fail \notin done
  /\ wrote => room /\ Queued # {}
  /\ done # {} => wrote
  /\ room' \in (IF wrote THEN BOOLEAN ELSE {room})

\* send() on a thread of the application: a pass and nothing else.
Send(done, fail, wrote) ==
  /\ connected /\ Writable
  /\ Pass(done, fail, wrote)
  /\ queue' = Passed(done, fail)
  /\ UNCHANGED <<state, timerVars, pc, ready, act, data, peer, told, unheard>>

-----------------------------------------------------------------------------
(* The manager task *)

PendingWrite == state = "CONNECTING" \/ queue # <<>>

Select ==
  /\ pc = "select" /\ pc' = "write"
  /\ ready' = (IF Readable THEN {"r"} ELSE {})
              \cup (IF Writable /\ PendingWrite THEN {"w"} ELSE {})
  /\ UNCHANGED <<state, queue, timerVars, act, kernelVars, told, unheard>>

\* select() fails for every client when one of the sockets was closed.
SelectFails ==
  /\ pc = "select" /\ pc' = "poll" /\ ready' = {}
  /\ UNCHANGED <<state, queue, timerVars, act, kernelVars, told, unheard>>

SkipWrite ==
  /\ pc = "write" /\ "w" \notin ready /\ pc' = "read"
  /\ UNCHANGED <<state, queue, timerVars, ready, act, kernelVars, told, unheard>>

\* The connection is established: CONNECT.
Promote ==
  /\ pc = "write" /\ "w" \in ready /\ state = "CONNECTING" /\ peer = "open"
  /\ state' = "CONNECTED" /\ silent' = 0 /\ signaled' = FALSE
  /\ act' = TRUE /\ pc' = "drain"
  /\ room' = TRUE /\ unheard' = 0
  /\ UNCHANGED <<queue, ackSet, rxSet, idle, ready, data, peer, told>>

ConnectFailed ==
  /\ pc = "write" /\ "w" \in ready /\ state = "CONNECTING" /\ peer = "gone"
  /\ Closed /\ pc' = "read"
  /\ UNCHANGED <<timerVars, act, room>>

\* The code after CONNECT, which a connected client reaches at once.
AtDrain == pc = "drain" \/ (pc = "write" /\ "w" \in ready /\ connected)

\* _cleanupWriteQueue() of queue q: an error behind the written prefix is
\* reported and closes the connection, else the prefix is removed and its
\* writtenAt moves _rx_last_packet forward.
CleanupQueue(q) ==
  LET n == WrittenPrefix(q)
      failed == n < Len(q) /\ q[n + 1].status = "failed"
  IN /\ silent' = CHOOSE s \in {silent} \cup {q[i].age : i \in 1..n} :
                    s <= silent /\ \A i \in 1..n : s <= q[i].age
     /\ IF failed
        THEN Closed
        ELSE /\ queue' = SubSeq(q, n + 1, Len(q))
             /\ told' = (told /\ n = 0)
             /\ UNCHANGED <<state, ready, data, peer, unheard>>

\* The write of a connected client.  The flag of the pass replaces act.
Drain(done, fail, wrote) ==
  /\ AtDrain /\ connected /\ queue # <<>>
  /\ Pass(done, fail, wrote)
  /\ CleanupQueue(Passed(done, fail))
  /\ idle' = (IF wrote THEN 0 ELSE idle)
  /\ act' = FALSE /\ pc' = "read"
  /\ UNCHANGED <<signaled, ackSet, rxSet>>

NothingToDrain ==
  /\ AtDrain /\ ~(connected /\ queue # <<>>)
  /\ idle' = (IF act THEN 0 ELSE idle)
  /\ act' = FALSE /\ pc' = "read"
  /\ UNCHANGED <<state, queue, signaled, ackSet, rxSet, silent, ready,
                 kernelVars, told, unheard>>

SkipRead ==
  /\ pc = "read" /\ "r" \notin ready /\ pc' = "poll" /\ ready' = {}
  /\ UNCHANGED <<state, queue, timerVars, act, kernelVars, told, unheard>>

\* RECV; the read buffer may not hold everything that has arrived.
Read ==
  /\ pc = "read" /\ "r" \in ready /\ data
  /\ idle' = 0 /\ silent' = 0 /\ pc' = "poll" /\ ready' = {}
  /\ data' \in BOOLEAN
  /\ UNCHANGED <<state, queue, signaled, ackSet, rxSet, act, room, peer,
                 told, unheard>>

\* End of file or a read error.
ReadEnd ==
  /\ pc = "read" /\ "r" \in ready /\ ~data
  /\ idle' = 0 /\ pc' = "poll"
  /\ Closed
  /\ UNCHANGED <<signaled, ackSet, rxSet, silent, act, room>>

SkipPoll ==
  /\ pc = "poll" /\ idle < POLL_INTERVAL /\ pc' = "select"
  /\ UNCHANGED <<state, queue, timerVars, ready, act, kernelVars, told, unheard>>

\* _sockPoll() up to the timeouts.
Poll ==
  /\ pc = "poll" /\ idle >= POLL_INTERVAL
  /\ idle' = 0
  /\ IF connected
     THEN CleanupQueue(queue) /\ UNCHANGED room /\ pc' = "ackTest"
     ELSE /\ pc' = "select"
          /\ UNCHANGED <<state, queue, silent, ready, kernelVars, told, unheard>>
  /\ UNCHANGED <<signaled, ackSet, rxSet, act>>

\* Without a receive timeout _checkRxTimeout() returns, and POLL is invoked.
RxTest == IF rxSet THEN "rxCheck" ELSE "select"

AckTest ==
  /\ pc = "ackTest"
  /\ pc' = (IF ~connected THEN "select"
            ELSE IF signaled \/ ~ackSet THEN RxTest ELSE "ackCheck")
  /\ UNCHANGED <<state, queue, timerVars, ready, act, kernelVars, told, unheard>>

AckExpired ==
  queue # <<>> /\ Head(queue).age >= ACK_TIMEOUT /\ Head(queue).status # "written"

\* Faulty variant: the flag is not set when the handler is called.
AckTimeoutUnflagged ==
  /\ pc = "ackCheck" /\ AckExpired
  /\ told' = TRUE /\ pc' = "select"
  /\ UNCHANGED <<state, queue, timerVars, ready, act, kernelVars, unheard>>

\* TIMEOUT; the poll ends here.
AckTimeout ==
  /\ pc = "ackCheck" /\ AckExpired
  /\ signaled' = TRUE /\ told' = TRUE /\ pc' = "select"
  /\ UNCHANGED <<state, queue, ackSet, rxSet, idle, silent, ready, act,
                 kernelVars, unheard>>

\* Faulty variant: the flag is set before the age is looked at.
NoAckTimeoutFlagged ==
  /\ pc = "ackCheck" /\ ~AckExpired /\ pc' = RxTest
  /\ signaled' = TRUE
  /\ UNCHANGED <<state, queue, ackSet, rxSet, idle, silent, ready, act,
                 kernelVars, told, unheard>>

NoAckTimeout ==
  /\ pc = "ackCheck" /\ ~AckExpired /\ pc' = RxTest
  /\ UNCHANGED <<state, queue, timerVars, ready, act, kernelVars, told, unheard>>

\* A duration is never less than an empty optional.
RxExpired == ~(rxSet /\ silent < RX_TIMEOUT)

\* POLL, as the timeout has not elapsed.
NoRxTimeout ==
  /\ pc = "rxCheck" /\ ~RxExpired /\ pc' = "select"
  /\ UNCHANGED <<state, queue, timerVars, ready, act, kernelVars, told, unheard>>

\* POLL, as there is data to read.
RxReadable ==
  /\ pc = "rxCheck" /\ RxExpired /\ Readable
  /\ silent' = 0 /\ pc' = "select"
  /\ UNCHANGED <<state, queue, signaled, ackSet, rxSet, idle, ready, act,
                 kernelVars, told, unheard>>

\* Faulty variant: the socket's readability is not looked at.
RxTimeoutUnread ==
  /\ pc = "rxCheck" /\ RxExpired /\ pc' = "rxClose"
  /\ UNCHANGED <<state, queue, timerVars, ready, act, kernelVars, told, unheard>>

RxTimeout ==
  /\ pc = "rxCheck" /\ RxExpired /\ ~Readable /\ pc' = "rxClose"
  /\ UNCHANGED <<state, queue, timerVars, ready, act, kernelVars, told, unheard>>

RxClose ==
  /\ pc = "rxClose" /\ Closed /\ pc' = "select"
  /\ UNCHANGED <<timerVars, act, room>>

-----------------------------------------------------------------------------
(* lwIP and the remote side *)

Established ==
  /\ peer = "connecting" /\ peer' \in {"open", "gone"}
  /\ UNCHANGED <<state, queue, timerVars, pc, ready, act, room, data, told, unheard>>

PeerSends ==
  /\ peer = "open" /\ data' = TRUE /\ unheard' = 0
  /\ UNCHANGED <<state, queue, timerVars, pc, ready, act, room, peer, told>>

PeerLeaves ==
  /\ peer = "open" /\ peer' = "gone"
  /\ UNCHANGED <<state, queue, timerVars, pc, ready, act, room, data, told, unheard>>

PeerAcks ==
  /\ peer = "open" /\ connected /\ ~room /\ room' = TRUE
  /\ UNCHANGED <<state, queue, timerVars, pc, ready, act, data, peer, told, unheard>>

-----------------------------------------------------------------------------
ManagerLoop ==
  \/ SkipWrite \/ Promote \/ ConnectFailed
  \/ \E done \in SUBSET Queued, fail \in Failing, wrote \in BOOLEAN :
       Drain(done, fail, wrote)
  \/ NothingToDrain \/ SkipRead \/ Read \/ ReadEnd \/ SkipPoll \/ Poll
  \/ AckTest \/ AckTimeout \/ NoAckTimeout
  \/ NoRxTimeout \/ RxReadable \/ RxTimeout \/ RxClose

User ==
  \/ Add \/ Close \/ Connect
  \/ \E t \in Setters : SetAckTimeout(t) \/ SetRxTimeout(t)
  \/ \E done \in SUBSET Queued, fail \in Failing, wrote \in BOOLEAN :
       Send(done, fail, wrote)

Network == Established \/ PeerSends \/ PeerLeaves \/ PeerAcks

Next == Tick \/ Select \/ SelectFails \/ ManagerLoop \/ User \/ Network

Spec == Init /\ [][Next]_vars

\* Time passes, the manager task is scheduled, and select() does not fail
\* for ever: a failure takes another socket that is closed during the call.
FairSpec ==
  Spec /\ WF_vars(Tick) /\ WF_vars(ManagerLoop) /\ SF_vars(Select)

-----------------------------------------------------------------------------
(* Properties *)

\* _checkRxTimeout() gives a connection up only after RX_TIMEOUT without any
\* data from the peer: not for data that has arrived and was not read yet, be
\* it because select() failed or because the manager task was late, and not
\* for silence before the connection was established.
NoPrematureClose ==
  [][pc # "rxClose" /\ pc' = "rxClose" /\ connected => unheard >= RX_TIMEOUT]_vars

\* A connection with a receive timeout whose peer stays silent is closed,
\* whatever the user queues meanwhile: a pending ack timeout, which ends the
\* poll before the receive timeout is looked at, does so only once.
SilentPeerClosed ==
  (connected /\ rxSet) ~> (~connected \/ ~rxSet \/ data \/ (queue # <<>> /\ room))

Stalled ==
  /\ connected /\ ackSet /\ ~room /\ ~data
  /\ queue # <<>> /\ Head(queue).status = "queued"

\* A front buffer that lwIP does not take is reported by TIMEOUT, unless the
\* flag that this was done is still set from an earlier one.
FirstStallSignalled == (Stalled /\ ~signaled) ~> (told \/ ~Stalled)

\* Every front buffer that lwIP does not take is reported by TIMEOUT, also one
\* that waits behind a buffer whose TIMEOUT was given.
EveryStallSignalled == Stalled ~> (told \/ ~Stalled)

=============================================================================
