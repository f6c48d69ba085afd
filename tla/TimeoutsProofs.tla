--------------------------- MODULE TimeoutsProofs ---------------------------
(***************************************************************************)
(* Theorems about Timeouts, for every poll interval, every timeout and     *)
(* any length of the queue: types, and that _checkRxTimeout() does not     *)
(* give up a connection whose peer sends.                                  *)
(***************************************************************************)
EXTENDS Timeouts, WellFoundedInduction, TLAPS

\* The receive timeout is set in callbacks only, or before the client is used.
SetInCallbacks == Setters \subseteq {Mgr}

\* Without unread data, _rx_last_packet is not older than the last data of the
\* peer: data that has been read has moved it forward.
HeardInv == connected /\ ~data => silent <= unheard

\* While _checkRxTimeout() compares the ages there is a timeout.
TestInv == pc = "rxCheck" => rxSet

RxInv == HeardInv /\ TestInv

-----------------------------------------------------------------------------
(* Helpers *)

\* A set of natural numbers has a least element.
LEMMA LeastNatural ==
  ASSUME NEW T, T \subseteq Nat, T # {}
  PROVE  \E x \in T : \A y \in T : x <= y
<1>1. \E x \in T : \A y \in T : ~ (<<y, x>> \in OpToRel(<, Nat))
  BY NatLessThanWellFounded, WFMin
<1>2. \A x, y \in Nat : x < y => <<x, y>> \in OpToRel(<, Nat)
  <2> SUFFICES ASSUME NEW x \in Nat, NEW y \in Nat, x < y
               PROVE  <<x, y>> \in {ss \in Nat \X Nat : ss[1] < ss[2]}
    BY Zenon DEF OpToRel
  <2> QED
    BY SMT
<1>3. PICK x \in T : \A y \in T : ~ (<<y, x>> \in OpToRel(<, Nat))
  BY <1>1
<1>4. \A y \in T : ~ (y < x)
  BY <1>2, <1>3, Zenon
<1> QED
  BY <1>4, SMT

\* The written prefix of a queue is one of its prefixes.
LEMMA PrefixType ==
  ASSUME NEW q \in Seq(Buffer)
  PROVE  WrittenPrefix(q) \in 0..Len(q)
<1> DEFINE Ends(n) == /\ \A i \in 1..n : q[i].status = "written"
                      /\ n < Len(q) => q[n + 1].status # "written"
           Unwritten == {i \in 1..Len(q) : q[i].status # "written"}
<1>1. Len(q) \in Nat
  OBVIOUS
<1>2. \E n \in 0..Len(q) : Ends(n)
  <2>1. CASE Unwritten = {}
    <3>1. Ends(Len(q))
      BY <1>1, <2>1
    <3> QED
      BY <1>1, <3>1
  <2>2. CASE Unwritten # {}
    <3>1. PICK x \in Unwritten : \A y \in Unwritten : x <= y
      <4>1. Unwritten \subseteq Nat
        BY <1>1
      <4> QED
        BY <4>1, <2>2, LeastNatural, Zenon
    <3>2. x - 1 \in 0..Len(q) /\ Ends(x - 1)
      BY <1>1, <3>1
    <3> QED
      BY <3>2
  <2> QED
    BY <2>1, <2>2
<1> QED
  BY <1>2 DEF WrittenPrefix

\* A pass leaves a queue of buffers as long as it was.
LEMMA PassedType ==
  ASSUME TypeOK, NEW done, NEW fail
  PROVE  Passed(done, fail) \in Seq(Buffer) /\ Len(Passed(done, fail)) = Len(queue)
<1>1. \A i \in DOMAIN queue : queue[i] \in Buffer
  BY DEF TypeOK
<1>2. \A i \in DOMAIN queue : Passed(done, fail)[i] \in Buffer
  BY <1>1 DEF Passed, Buffer
<1>3. DOMAIN Passed(done, fail) = 1..Len(queue) /\ Len(queue) \in Nat
  BY DEF Passed, TypeOK
<1>4. Passed(done, fail) = [i \in 1..Len(queue) |-> Passed(done, fail)[i]]
  BY <1>3 DEF Passed
<1>5. \A i \in 1..Len(queue) : Passed(done, fail)[i] \in Buffer
  BY <1>2, <1>3 DEF Passed
<1> QED
  BY <1>3, <1>4, <1>5

\* _cleanupWriteQueue() moves _rx_last_packet forward, if at all.
LEMMA CleanupSilent ==
  ASSUME TypeOK, NEW q \in Seq(Buffer), CleanupQueue(q)
  PROVE  silent' \in Nat /\ silent' <= silent
<1> DEFINE n == WrittenPrefix(q)
           Ages == {q[i].age : i \in 1..n}
<1>1. n \in 0..Len(q)
  BY PrefixType
<1>2. Ages \subseteq Nat
  <2>1. \A i \in 1..n : q[i] \in Buffer
    BY <1>1
  <2> QED
    BY <2>1 DEF Buffer
<1>3. {silent} \cup Ages \subseteq Nat
  BY <1>2 DEF TypeOK
<1>4. \E s \in {silent} \cup Ages : \A y \in {silent} \cup Ages : s <= y
  BY <1>3, LeastNatural
<1>5. \E s \in {silent} \cup Ages : s <= silent /\ \A i \in 1..n : s <= q[i].age
  BY <1>4
<1>6. silent' = CHOOSE s \in {silent} \cup {q[i].age : i \in 1..n} :
                   s <= silent /\ \A i \in 1..n : s <= q[i].age
  BY DEF CleanupQueue
<1>7. silent' \in {silent} \cup Ages /\ silent' <= silent
  BY <1>5, <1>6
<1> QED
  BY <1>3, <1>7

\* What _cleanupWriteQueue() leaves: a closed connection, or a shorter queue.
LEMMA CleanupEffect ==
  ASSUME TypeOK, NEW q \in Seq(Buffer), Len(q) <= MaxQueue, CleanupQueue(q)
  PROVE  /\ \/ state' = "CLOSED" /\ data' = FALSE /\ peer' = "none" /\ unheard' = 0
               /\ ready' = {}
            \/ UNCHANGED <<state, ready, data, peer, unheard>>
         /\ told' \in BOOLEAN
         /\ queue' \in Seq(Buffer) /\ Len(queue') <= MaxQueue
<1> DEFINE n == WrittenPrefix(q)
<1>1. n \in 0..Len(q) /\ Len(q) \in Nat /\ MaxQueue \in Nat
  BY PrefixType, TimersAssumption
<1>2. <<>> \in Seq(Buffer) /\ Len(<<>>) <= MaxQueue
  BY <1>1
<1>3. SubSeq(q, n + 1, Len(q)) \in Seq(Buffer) /\ Len(SubSeq(q, n + 1, Len(q))) <= MaxQueue
  BY <1>1
<1>4. CASE Closed
  BY <1>4, <1>2, Zenon DEF Closed
<1>5. CASE /\ queue' = SubSeq(q, n + 1, Len(q))
           /\ told' = (told /\ n = 0)
           /\ UNCHANGED <<state, ready, data, peer, unheard>>
  BY <1>5, <1>3, Zenon DEF TypeOK
<1> QED
  BY <1>4, <1>5 DEF CleanupQueue

-----------------------------------------------------------------------------
(* Types *)

\* Ages stay natural numbers.
LEMMA OlderType ==
  ASSUME NEW a \in Nat, NEW limit \in Nat
  PROVE  Older(a, limit) \in Nat
BY DEF Older

\* The types hold in the initial states.
LEMMA TypeInit == Init => TypeOK
<1>1. <<>> \in Seq(Buffer) /\ Len(<<>>) <= MaxQueue
  BY TimersAssumption
<1>2. 0 \in Nat /\ RX_TIMEOUT \in Nat
  BY TimersAssumption
<1> QED
  BY <1>1, <1>2, Zenon DEF Init, TypeOK, ManagerStep

\* A closed client is well-typed.
LEMMA ClosedType ==
  ASSUME Closed
  PROVE  /\ state' = "CLOSED" /\ queue' \in Seq(Buffer) /\ Len(queue') <= MaxQueue
         /\ told' \in BOOLEAN /\ ready' \subseteq {"r", "w"}
         /\ data' \in BOOLEAN /\ peer' = "none" /\ unheard' \in Nat
<1>1. <<>> \in Seq(Buffer) /\ Len(<<>>) <= MaxQueue /\ 0 \in Nat
  BY TimersAssumption
<1> QED
  BY <1>1, Zenon DEF Closed

\* Every step of the manager task, the user, the network and the clock
\* preserves the types.
LEMMA TypeStep == TypeOK /\ [Next]_vars => TypeOK'
<1> SUFFICES ASSUME TypeOK, [Next]_vars PROVE TypeOK'
  OBVIOUS
<1> USE DEF TypeOK, timerVars, kernelVars
<1>z. 0 \in Nat
  OBVIOUS
<1>1. CASE Tick
  <2>1. idle' \in Nat /\ silent' \in Nat /\ unheard' \in Nat
    BY <1>1, OlderType, TimersAssumption DEF Tick
  <2>2. queue' \in Seq(Buffer) /\ Len(queue') = Len(queue)
    <3>1. \A i \in 1..Len(queue) : queue[i] \in Buffer
      OBVIOUS
    <3>2. ASSUME NEW i \in 1..Len(queue)
          PROVE  [queue[i] EXCEPT !.age =
                    Older(@, IF queue[i].status = "written" THEN RX_TIMEOUT
                                                            ELSE ACK_TIMEOUT)] \in Buffer
      BY <3>1, OlderType, TimersAssumption DEF Buffer
    <3>3. queue' = [i \in 1..Len(queue) |->
                      [queue[i] EXCEPT !.age =
                         Older(@, IF queue[i].status = "written" THEN RX_TIMEOUT
                                                                 ELSE ACK_TIMEOUT)]]
      BY <1>1 DEF Tick
    <3>4. Len(queue) \in Nat
      OBVIOUS
    <3> HIDE DEF TypeOK
    <3> QED
      BY <3>2, <3>3, <3>4
  <2> QED
    BY <1>1, <2>1, <2>2, Zenon DEF Tick
<1>2. CASE Add
  <2>1. queue' \in Seq(Buffer) /\ Len(queue') <= MaxQueue
    BY <1>2, TimersAssumption DEF Add, Buffer
  <2> QED
    BY <1>2, <2>1, Zenon DEF Add
<1>3. CASE Close
  BY <1>3, ClosedType, Zenon DEF Close
<1>4. CASE Connect
  BY <1>4, Zenon DEF Connect
<1>5. CASE \E t \in Setters : SetAckTimeout(t)
  BY <1>5, Zenon DEF SetAckTimeout
<1>6. CASE \E t \in Setters : SetRxTimeout(t)
  BY <1>6, Zenon DEF SetRxTimeout
<1>7. CASE \E done \in SUBSET Queued, fail \in Failing, wrote \in BOOLEAN :
             Send(done, fail, wrote)
  <2> PICK done \in SUBSET Queued, fail \in Failing, wrote \in BOOLEAN :
             Send(done, fail, wrote)
    BY <1>7
  <2>1. queue' \in Seq(Buffer) /\ Len(queue') = Len(queue)
    BY PassedType DEF Send
  <2>2. room' \in BOOLEAN
    BY Zenon DEF Send, Pass
  <2> QED
    BY <2>1, <2>2, Zenon DEF Send
<1>8. CASE Select
  BY <1>8, Zenon DEF Select, ManagerStep
<1>9. CASE SelectFails
  BY <1>9, Zenon DEF SelectFails, ManagerStep
<1>10. CASE SkipWrite
  BY <1>10, Zenon DEF SkipWrite, ManagerStep
<1>11. CASE Promote
  BY <1>11, <1>z, Zenon DEF Promote, ManagerStep
<1>12. CASE ConnectFailed
  BY <1>12, ClosedType, Zenon DEF ConnectFailed, ManagerStep
<1>13. CASE \E done \in SUBSET Queued, fail \in Failing, wrote \in BOOLEAN :
              Drain(done, fail, wrote)
  <2> PICK done \in SUBSET Queued, fail \in Failing, wrote \in BOOLEAN :
             Drain(done, fail, wrote)
    BY <1>13
  <2>1. Passed(done, fail) \in Seq(Buffer) /\ Len(Passed(done, fail)) <= MaxQueue
    BY PassedType
  <2>2. CleanupQueue(Passed(done, fail))
    BY Zenon DEF Drain
  <2>3. silent' \in Nat
    BY <2>1, <2>2, CleanupSilent, Zenon
  <2>4. /\ state' \in {"CONNECTING", "CONNECTED", "CLOSED"} /\ data' \in BOOLEAN
        /\ peer' \in {"none", "connecting", "open", "gone"} /\ unheard' \in Nat
        /\ ready' \subseteq {"r", "w"} /\ told' \in BOOLEAN
        /\ queue' \in Seq(Buffer) /\ Len(queue') <= MaxQueue
    BY <2>1, <2>2, <1>z, CleanupEffect, Zenon
  <2>5. room' \in BOOLEAN
    BY Zenon DEF Drain, Pass
  <2>6. idle' \in Nat
    BY <1>z, Zenon DEF Drain
  <2> QED
    BY <2>3, <2>4, <2>5, <2>6, Zenon DEF Drain, ManagerStep
<1>14. CASE NothingToDrain
  BY <1>14, <1>z, Zenon DEF NothingToDrain, ManagerStep
<1>15. CASE SkipRead
  BY <1>15, Zenon DEF SkipRead, ManagerStep
<1>16. CASE Read
  BY <1>16, <1>z, Zenon DEF Read, ManagerStep
<1>17. CASE ReadEnd
  BY <1>17, <1>z, ClosedType, Zenon DEF ReadEnd, ManagerStep
<1>18. CASE SkipPoll
  BY <1>18, Zenon DEF SkipPoll, ManagerStep
<1>19. CASE Poll
  <2>1. CASE connected
    <3>1. CleanupQueue(queue) /\ UNCHANGED room /\ pc' = "ackTest"
      BY <1>19, <2>1, Zenon DEF Poll
    <3>2. silent' \in Nat
      BY <3>1, CleanupSilent, Zenon
    <3>3. /\ state' \in {"CONNECTING", "CONNECTED", "CLOSED"} /\ data' \in BOOLEAN
          /\ peer' \in {"none", "connecting", "open", "gone"} /\ unheard' \in Nat
          /\ ready' \subseteq {"r", "w"} /\ told' \in BOOLEAN
          /\ queue' \in Seq(Buffer) /\ Len(queue') <= MaxQueue
      BY <3>1, <1>z, CleanupEffect, Zenon
    <3> QED
      BY <1>19, <1>z, <3>1, <3>2, <3>3, Zenon DEF Poll, ManagerStep
  <2>2. CASE ~connected
    BY <1>19, <1>z, <2>2, Zenon DEF Poll, ManagerStep
  <2> QED
    BY <2>1, <2>2
<1>20. CASE AckTest
  BY <1>20, Zenon DEF AckTest, RxTest, ManagerStep
<1>21. CASE AckTimeout
  BY <1>21, Zenon DEF AckTimeout, ManagerStep
<1>22. CASE NoAckTimeout
  BY <1>22, Zenon DEF NoAckTimeout, RxTest, ManagerStep
<1>23. CASE NoRxTimeout
  BY <1>23, Zenon DEF NoRxTimeout, ManagerStep
<1>24. CASE RxReadable
  BY <1>24, <1>z, Zenon DEF RxReadable, ManagerStep
<1>25. CASE RxTimeout
  BY <1>25, Zenon DEF RxTimeout, ManagerStep
<1>26. CASE RxClose
  BY <1>26, ClosedType, Zenon DEF RxClose, ManagerStep
<1>27. CASE Established
  BY <1>27, Zenon DEF Established
<1>28. CASE PeerSends
  BY <1>28, <1>z, Zenon DEF PeerSends
<1>29. CASE PeerLeaves
  BY <1>29, Zenon DEF PeerLeaves
<1>30. CASE PeerAcks
  BY <1>30, Zenon DEF PeerAcks
<1>31. CASE UNCHANGED vars
  BY <1>31, Zenon DEF vars
<1> QED
  BY <1>1, <1>2, <1>3, <1>4, <1>5, <1>6, <1>7, <1>8, <1>9, <1>10, <1>11, <1>12,
     <1>13, <1>14, <1>15, <1>16, <1>17, <1>18, <1>19, <1>20, <1>21, <1>22, <1>23,
     <1>24, <1>25, <1>26, <1>27, <1>28, <1>29, <1>30, <1>31, Zenon
     DEF Next, ManagerLoop, User, Network

\* Every state is well-typed: whatever threads add, send and close, the queue
\* holds at most MaxQueue buffers and every time stamp lies in the past.
THEOREM TimersTypeCorrect == Spec => []TypeOK
BY TypeInit, TypeStep, PTL DEF Spec

-----------------------------------------------------------------------------
(* The receive timeout *)

\* An accepted client starts with two fresh time stamps.
LEMMA RxInit == Init => RxInv
BY DEF Init, RxInv, HeardInv, TestInv, connected

\* Every step keeps _rx_last_packet up to date with what was read, and the
\* receive timeout set while it is looked at.
LEMMA RxStep ==
  ASSUME SetInCallbacks, TypeOK, RxInv, [Next]_vars
  PROVE  RxInv'
<1> USE DEF RxInv, HeardInv, TestInv, connected, timerVars, kernelVars
<1>0. silent \in Nat /\ unheard \in Nat /\ 0 <= unheard
  BY DEF TypeOK
<1>a. ASSUME Closed, pc' # "rxCheck" PROVE RxInv'
  BY <1>a DEF Closed
<1>b. ASSUME NEW q \in Seq(Buffer), Len(q) <= MaxQueue, CleanupQueue(q), pc' # "rxCheck"
      PROVE  RxInv'
  <2>1. silent' \in Nat /\ silent' <= silent
    BY <1>b, CleanupSilent
  <2>2. \/ state' = "CLOSED"
        \/ UNCHANGED <<state, data, unheard>>
    BY <1>b, CleanupEffect
  <2> QED
    BY <1>0, <1>b, <2>1, <2>2
<1>1. CASE Tick
  <2>1. ASSUME silent <= unheard PROVE silent' <= unheard'
    BY <1>1, <1>0, <2>1, TimersAssumption DEF Tick, Older
  <2> QED
    BY <1>1, <2>1 DEF Tick
<1>2. CASE Add
  BY <1>2 DEF Add
<1>3. CASE Close
  BY <1>3 DEF Close, Closed
<1>4. CASE Connect
  BY <1>4 DEF Connect
<1>5. CASE \E t \in Setters : SetAckTimeout(t)
  BY <1>5 DEF SetAckTimeout
<1>6. CASE \E t \in Setters : SetRxTimeout(t)
  BY <1>6 DEF SetRxTimeout, MaySet, SetInCallbacks
<1>7. CASE \E done \in SUBSET Queued, fail \in Failing, wrote \in BOOLEAN :
             Send(done, fail, wrote)
  BY <1>7 DEF Send
<1>8. CASE Select
  BY <1>8 DEF Select
<1>9. CASE SelectFails
  BY <1>9 DEF SelectFails
<1>10. CASE SkipWrite
  BY <1>10 DEF SkipWrite
<1>11. CASE Promote
  BY <1>11 DEF Promote
<1>12. CASE ConnectFailed
  BY <1>12, <1>a DEF ConnectFailed
<1>13. CASE \E done \in SUBSET Queued, fail \in Failing, wrote \in BOOLEAN :
              Drain(done, fail, wrote)
  <2> PICK done \in SUBSET Queued, fail \in Failing, wrote \in BOOLEAN :
             Drain(done, fail, wrote)
    BY <1>13
  <2>1. Passed(done, fail) \in Seq(Buffer) /\ Len(Passed(done, fail)) <= MaxQueue
    BY PassedType DEF TypeOK
  <2>2. CleanupQueue(Passed(done, fail)) /\ pc' # "rxCheck"
    BY DEF Drain
  <2> QED
    BY <2>1, <2>2, <1>b, Zenon
<1>14. CASE NothingToDrain
  BY <1>14 DEF NothingToDrain
<1>15. CASE SkipRead
  BY <1>15 DEF SkipRead
<1>16. CASE Read
  BY <1>16, <1>0 DEF Read
<1>17. CASE ReadEnd
  BY <1>17, <1>a DEF ReadEnd
<1>18. CASE SkipPoll
  BY <1>18 DEF SkipPoll
<1>19. CASE Poll
  <2>1. CASE connected
    <3>1. CleanupQueue(queue) /\ pc' # "rxCheck"
      BY <1>19, <2>1 DEF Poll
    <3>2. queue \in Seq(Buffer) /\ Len(queue) <= MaxQueue
      BY DEF TypeOK
    <3> QED
      BY <3>1, <3>2, <1>b, Zenon
  <2>2. CASE ~connected
    BY <1>19, <2>2 DEF Poll
  <2> QED
    BY <2>1, <2>2
<1>20. CASE AckTest
  BY <1>20 DEF AckTest, RxTest
<1>21. CASE AckTimeout
  BY <1>21 DEF AckTimeout
<1>22. CASE NoAckTimeout
  BY <1>22 DEF NoAckTimeout, RxTest
<1>23. CASE NoRxTimeout
  BY <1>23 DEF NoRxTimeout
<1>24. CASE RxReadable
  BY <1>24, <1>0 DEF RxReadable
<1>25. CASE RxTimeout
  BY <1>25 DEF RxTimeout
<1>26. CASE RxClose
  BY <1>26, <1>a DEF RxClose
<1>27. CASE Established
  BY <1>27 DEF Established
<1>28. CASE PeerSends
  BY <1>28 DEF PeerSends
<1>29. CASE PeerLeaves
  BY <1>29 DEF PeerLeaves
<1>30. CASE PeerAcks
  BY <1>30 DEF PeerAcks
<1>31. CASE UNCHANGED vars
  BY <1>31 DEF vars
<1> QED
  BY <1>1, <1>2, <1>3, <1>4, <1>5, <1>6, <1>7, <1>8, <1>9, <1>10, <1>11, <1>12,
     <1>13, <1>14, <1>15, <1>16, <1>17, <1>18, <1>19, <1>20, <1>21, <1>22, <1>23,
     <1>24, <1>25, <1>26, <1>27, <1>28, <1>29, <1>30, <1>31, Zenon
     DEF Next, ManagerLoop, User, Network

\* _checkRxTimeout() finds a connected client timed out only if its peer has
\* been silent for that long.
LEMMA TimedOutStep ==
  ASSUME TypeOK, RxInv, Next, pc # "rxClose", pc' = "rxClose", connected
  PROVE  unheard >= RX_TIMEOUT
<1>1. RxTimeout
  BY Zenon DEF Next, ManagerLoop, User, Network, Tick, Add, Close, Connect, SetAckTimeout,
     SetRxTimeout, Send, Select, SelectFails, SkipWrite, Promote, ConnectFailed, Drain,
     NothingToDrain, SkipRead, Read, ReadEnd, SkipPoll, Poll, AckTest, RxTest, AckTimeout,
     NoAckTimeout, NoRxTimeout, RxReadable, RxClose, Established, PeerSends, PeerLeaves,
     PeerAcks
<1>2. rxSet /\ ~(silent < RX_TIMEOUT) /\ ~data
  BY <1>1 DEF RxTimeout, RxExpired, Readable, connected, RxInv, TestInv
<1>3. silent <= unheard
  BY <1>2 DEF RxInv, HeardInv
<1> QED
  BY <1>2, <1>3, TimersAssumption DEF TypeOK

\* If the receive timeout is changed in callbacks only, no connection is given
\* up before RX_TIMEOUT without data from its peer, however late the manager
\* task is and however often select() fails.
THEOREM RxTimeoutCorrect == SetInCallbacks /\ Spec => NoPrematureClose
<1> SUFFICES ASSUME SetInCallbacks PROVE Spec => NoPrematureClose
  OBVIOUS
<1>1. Init => TypeOK /\ RxInv
  BY TypeInit, RxInit
<1>2. TypeOK /\ RxInv /\ [Next]_vars => (TypeOK /\ RxInv)'
  BY TypeStep, RxStep
<1>3. TypeOK /\ RxInv /\ [Next]_vars =>
        [pc # "rxClose" /\ pc' = "rxClose" /\ connected => unheard >= RX_TIMEOUT]_vars
  BY TimedOutStep, Zenon
<1> QED
  BY <1>1, <1>2, <1>3, PTL DEF Spec, NoPrematureClose

=============================================================================
