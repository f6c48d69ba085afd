-------------------------- MODULE TlsContextProofs --------------------------
(***************************************************************************)
(* Theorems about TlsContext, for every timeout and every range of         *)
(* millis(): types, the memory of the certificates, the verification of    *)
(* the peer, and the timeout of the handshake.                             *)
(***************************************************************************)
EXTENDS TlsContext, TLAPS

WithCa == mode \in {"ca", "mutual"}

\* The steps of the set-up that come before the authentication mode is chosen,
\* and the end of one that has failed.
Unauthenticated == {"seed", "auth", "failed"}

\* The library's code runs, and a context exists, only on an open connection.
ContextInv ==
  /\ pc # "idle" => ctx
  /\ ctx => conn # "closed"
  /\ ~ctx => refs = {}

\* What each step of the set-up may rely on.
SetUpInv ==
  /\ ctx /\ ~done /\ pc # "failed" => refs \subseteq heap
  /\ pc = "key" => "cert" \in heap
  /\ ctx /\ pc \notin Unauthenticated /\ WithCa => auth = "required"

CertInv == CertsAccountedFor /\ ContextInv /\ SetUpInv

\* A handshake is attempted first when the set-up has cleared the start time.
AttemptInv ==
  /\ pc \notin {"idle", "handshake"} \/ ~ctx => age = -1
  /\ ctx /\ pc = "idle" /\ ~done => age # -1
  /\ pc = "handshake" /\ ~done /\ age = -1 => start = 0

\* A connection is in use after a handshake only, and a handshake made for this
\* connection has verified the peer.
VerifyInv ==
  /\ conn = "open" => done
  /\ ctx /\ done /\ age # -1 /\ WithCa => verified

IInv == TypeOK /\ CertInv /\ AttemptInv /\ VerifyInv

-----------------------------------------------------------------------------
(* Types *)

\* A remainder modulo Wrap is a value of millis().
LEMMA ClockRange ==
  ASSUME NEW n \in Int
  PROVE  n % Wrap \in 0..(Wrap - 1)
BY SMT, WrapAssumption

\* The ages of a handshake that was not attempted, or was attempted just now.
LEMMA AgeRange ==
  /\ -1 \in -1..MaxAge /\ 0 \in -1..MaxAge
  /\ 0 \in 0..MaxWait /\ 0 \in 0..(Wrap - 1)
BY WrapAssumption DEF MaxAge

\* handshake_start_time stays a value of millis().
LEMMA StartTimeType ==
  ASSUME TypeOK
  PROVE  StartTime \in 0..(Wrap - 1)
BY DEF TypeOK, StartTime

\* The types hold in the initial states.
LEMMA TypeInit == Init => TypeOK
<1>1. -1 \in -1..MaxAge /\ 0 \in 0..MaxWait /\ 0 \in 0..(Wrap - 1)
  BY AgeRange
<1> QED
  BY <1>1, Zenon DEF Init, TypeOK

\* Every step of the context, the clock and the user preserves the types.
LEMMA TypeStep == TypeOK /\ [Next]_vars => TypeOK'
<1> SUFFICES ASSUME TypeOK, [Next]_vars PROVE TypeOK'
  OBVIOUS
<1> USE DEF TypeOK
<1>a. StartTime \in 0..(Wrap - 1)
  BY StartTimeType
<1>b. MaxAge \in Nat /\ 0 <= MaxAge /\ -1 <= MaxAge
  BY WrapAssumption DEF MaxAge
<1>1. CASE Tick
  <2>1. clock' \in 0..(Wrap - 1)
    BY <1>1, ClockRange DEF Tick
  <2>2. age' \in -1..MaxAge /\ wait' \in 0..MaxWait
    BY <1>1, <1>b, WrapAssumption DEF Tick
  <2> QED
    BY <1>1, <2>1, <2>2 DEF Tick, certVars
<1>2. CASE \E m \in Modes : Connect(m)
  BY <1>2 DEF Connect, certVars, timeVars
<1>3. CASE Close
  BY <1>3, AgeRange, Zenon DEF Close, Closed, DeleteHandshakeCerts
<1>4. CASE NewContext
  BY <1>4 DEF NewContext, certVars
<1>5. CASE EarlyFailure
  BY <1>5 DEF EarlyFailure, certVars, timeVars
<1>6. CASE Seeded
  BY <1>6 DEF Seeded, certVars, timeVars
<1>7. CASE AuthInsecure
  BY <1>7 DEF AuthInsecure, timeVars
<1>8. CASE AuthPsk
  BY <1>8 DEF AuthPsk, certVars, timeVars
<1>9. CASE AuthCa
  BY <1>9 DEF AuthCa, timeVars, Certs
<1>10. CASE ClientCert
  BY <1>10 DEF ClientCert, timeVars, Certs
<1>11. CASE ClientKey
  BY <1>11 DEF ClientKey, timeVars, Certs
<1>12. CASE LoadFails
  <2>1. Loading \subseteq Certs
    BY DEF Loading, Certs
  <2>2. heap' \subseteq Certs /\ have' \subseteq Certs /\ refs' \subseteq Certs
    BY <1>12, <2>1, Zenon DEF LoadFails
  <2>3. auth' \in {"default", "none", "required", "optional"}
    BY <1>12 DEF LoadFails
  <2> QED
    BY <1>12, <2>2, <2>3, Zenon DEF LoadFails, timeVars
<1>13. CASE SessionSetUp
  BY <1>13, WrapAssumption DEF SessionSetUp, certVars
<1>14. CASE Continue
  BY <1>14 DEF Continue, certVars, timeVars
<1>15. CASE WantMore
  <2>1. age' \in -1..MaxAge
    BY <1>15, AgeRange DEF WantMore, Attempted
  <2>2. atZero' \in BOOLEAN
    BY <1>15, Zenon DEF WantMore, Attempted
  <2> QED
    BY <1>15, <1>a, <2>1, <2>2, AgeRange, Zenon DEF WantMore, Attempted, certVars
<1>16. CASE HandshakeFails
  BY <1>16, <1>a, AgeRange, Zenon DEF HandshakeFails, Closed, DeleteHandshakeCerts
<1>17. CASE \E clean \in BOOLEAN : HandshakeOk(clean)
  <2> PICK clean \in BOOLEAN : HandshakeOk(clean)
    BY <1>17
  <2>1. age' \in -1..MaxAge
    BY AgeRange DEF HandshakeOk, Attempted
  <2>2. atZero' \in BOOLEAN
    BY Zenon DEF HandshakeOk, Attempted
  <2> QED
    BY <1>a, <2>1, <2>2, AgeRange, Zenon DEF HandshakeOk, Attempted, DeleteHandshakeCerts
<1>18. CASE Proceed
  BY <1>18 DEF Proceed, certVars, timeVars
<1>19. CASE SetUpFailed
  BY <1>19, AgeRange, Zenon DEF SetUpFailed, Closed, DeleteHandshakeCerts
<1>20. CASE UNCHANGED vars
  BY <1>20 DEF vars, certVars, timeVars
<1> QED
  BY <1>1, <1>2, <1>3, <1>4, <1>5, <1>6, <1>7, <1>8, <1>9, <1>10, <1>11, <1>12,
     <1>13, <1>14, <1>15, <1>16, <1>17, <1>18, <1>19, <1>20
     DEF Next, StartSSLClient, RunSSLHandshake

\* Every state of the context is well-typed: handshake_start_time and millis()
\* stay within the range of the counter, and the flags name certificates only.
THEOREM TlsTypeCorrect == Spec => []TypeOK
BY TypeInit, TypeStep, PTL DEF Spec

-----------------------------------------------------------------------------
(* The memory of the certificates *)

\* Before the first connection no certificate is loaded.
LEMMA CertInit == Init => CertInv
BY DEF Init, CertInv, CertsAccountedFor, ContextInv, SetUpInv

\* SslClient::_close() leaves nothing behind.
LEMMA ClosedKeeps ==
  ASSUME CertInv, Closed
  PROVE  CertInv'
BY DEF Closed, DeleteHandshakeCerts, CertInv, CertsAccountedFor, ContextInv, SetUpInv

\* Every step keeps the flags, the memory, the configuration and the
\* authentication mode in line.
LEMMA CertStep == TypeOK /\ CertInv /\ [Next]_vars => CertInv'
<1> SUFFICES ASSUME TypeOK, CertInv, [Next]_vars PROVE CertInv'
  OBVIOUS
<1> USE DEF CertInv, CertsAccountedFor, ContextInv, SetUpInv, WithCa, Unauthenticated
<1>1. CASE Tick
  BY <1>1 DEF Tick, certVars
<1>2. CASE \E m \in Modes : Connect(m)
  BY <1>2 DEF Connect, certVars
<1>3. CASE Close
  BY <1>3, ClosedKeeps DEF Close
<1>4. CASE NewContext
  BY <1>4 DEF NewContext, certVars
<1>5. CASE EarlyFailure
  BY <1>5 DEF EarlyFailure, certVars
<1>6. CASE Seeded
  BY <1>6 DEF Seeded, certVars
<1>7. CASE AuthInsecure
  BY <1>7 DEF AuthInsecure
<1>8. CASE AuthPsk
  BY <1>8 DEF AuthPsk, certVars
<1>9. CASE AuthCa
  BY <1>9 DEF AuthCa
<1>10. CASE ClientCert
  BY <1>10 DEF ClientCert
<1>11. CASE ClientKey
  BY <1>11 DEF ClientKey
<1>12. CASE LoadFails
  <2>1. heap' = {} /\ have' = {} /\ pc' = "failed" /\ UNCHANGED <<conn, mode, ctx>> /\ ctx
    BY <1>12 DEF LoadFails
  <2> QED
    BY <2>1
<1>13. CASE SessionSetUp
  BY <1>13 DEF SessionSetUp, certVars
<1>14. CASE Continue
  BY <1>14 DEF Continue, certVars
<1>15. CASE WantMore
  BY <1>15 DEF WantMore, AtHandshake, certVars
<1>16. CASE HandshakeFails
  BY <1>16, ClosedKeeps DEF HandshakeFails
<1>17. CASE \E clean \in BOOLEAN : HandshakeOk(clean)
  BY <1>17 DEF HandshakeOk, AtHandshake, DeleteHandshakeCerts
<1>18. CASE Proceed
  BY <1>18 DEF Proceed, certVars
<1>19. CASE SetUpFailed
  BY <1>19, ClosedKeeps DEF SetUpFailed
<1>20. CASE UNCHANGED vars
  BY <1>20 DEF vars, certVars
<1> QED
  BY <1>1, <1>2, <1>3, <1>4, <1>5, <1>6, <1>7, <1>8, <1>9, <1>10, <1>11, <1>12,
     <1>13, <1>14, <1>15, <1>16, <1>17, <1>18, <1>19, <1>20
     DEF Next, StartSSLClient, RunSSLHandshake

\* The first attempt is the one after the set-up, for every way through it.
LEMMA AttemptStep == TypeOK /\ CertInv /\ AttemptInv /\ [Next]_vars => AttemptInv'
<1> SUFFICES ASSUME TypeOK, CertInv, AttemptInv, [Next]_vars PROVE AttemptInv'
  OBVIOUS
<1> USE DEF TypeOK, CertInv, ContextInv, AttemptInv, timeVars, AtHandshake
<1>1. CASE Tick
  BY <1>1 DEF Tick, InHandshake
<1>2. CASE (\E m \in Modes : Connect(m)) \/ Continue \/ Proceed \/ NewContext
  BY <1>2 DEF Connect, Continue, Proceed, NewContext
<1>3. CASE Close \/ SetUpFailed \/ HandshakeFails
  BY <1>3 DEF Close, SetUpFailed, HandshakeFails, Closed
<1>4. CASE \/ EarlyFailure \/ Seeded \/ AuthInsecure \/ AuthPsk \/ AuthCa
         \/ ClientCert \/ ClientKey \/ LoadFails \/ SessionSetUp
  BY <1>4 DEF EarlyFailure, LoadFails, Seeded, AuthInsecure, AuthPsk, AuthCa, ClientCert, ClientKey, SessionSetUp
<1>5. CASE WantMore
  BY <1>5 DEF WantMore, Attempted
<1>6. CASE \E clean \in BOOLEAN : HandshakeOk(clean)
  BY <1>6 DEF HandshakeOk, Attempted
<1>7. CASE UNCHANGED vars
  BY <1>7 DEF vars
<1> QED
  BY <1>1, <1>2, <1>3, <1>4, <1>5, <1>6, <1>7 DEF Next, StartSSLClient, RunSSLHandshake

\* A handshake that succeeds for a client with a root certificate has verified
\* the peer, and a connection is used after it only.
LEMMA VerifyStep ==
  TypeOK /\ CertInv /\ AttemptInv /\ VerifyInv /\ [Next]_vars => VerifyInv'
<1> SUFFICES ASSUME TypeOK, CertInv, AttemptInv, VerifyInv, [Next]_vars PROVE VerifyInv'
  OBVIOUS
<1> USE DEF TypeOK, CertInv, ContextInv, AttemptInv, VerifyInv, WithCa, timeVars
<1>1. CASE Tick
  BY <1>1 DEF Tick, InHandshake
<1>2. CASE (\E m \in Modes : Connect(m)) \/ Continue \/ Proceed \/ NewContext
  BY <1>2 DEF Connect, Continue, Proceed, NewContext
<1>3. CASE Close \/ SetUpFailed \/ HandshakeFails
  BY <1>3 DEF Close, SetUpFailed, HandshakeFails, Closed
<1>4. CASE \/ EarlyFailure \/ Seeded \/ AuthInsecure \/ AuthPsk \/ AuthCa
         \/ ClientCert \/ ClientKey \/ LoadFails \/ SessionSetUp
  BY <1>4 DEF EarlyFailure, LoadFails, Seeded, AuthInsecure, AuthPsk, AuthCa,
              ClientCert, ClientKey, SessionSetUp
<1>5. CASE WantMore
  BY <1>5 DEF WantMore, AtHandshake
<1>6. CASE \E clean \in BOOLEAN : HandshakeOk(clean)
  <2> PICK clean \in BOOLEAN : HandshakeOk(clean)
    BY <1>6
  <2>1. WithCa => auth = "required"
    BY DEF HandshakeOk, AtHandshake, SetUpInv, Unauthenticated
  <2> QED
    BY <2>1 DEF HandshakeOk
<1>7. CASE UNCHANGED vars
  BY <1>7 DEF vars
<1> QED
  BY <1>1, <1>2, <1>3, <1>4, <1>5, <1>6, <1>7 DEF Next, StartSSLClient, RunSSLHandshake

\* The inductive invariant of the context.
LEMMA InvCorrect == Spec => []IInv
<1>1. Init => IInv
  <2>1. Init => AttemptInv /\ VerifyInv
    BY DEF Init, AttemptInv, VerifyInv
  <2> QED
    BY <2>1, TypeInit, CertInit DEF IInv
<1>2. IInv /\ [Next]_vars => IInv'
  BY TypeStep, CertStep, AttemptStep, VerifyStep DEF IInv
<1> QED
  BY <1>1, <1>2, PTL DEF Spec

\* Certificate memory is freed exactly once, whichever step of
\* _startSSLClient() fails and however the handshake ends.
THEOREM CertsCorrect == Spec => []CertsAccountedFor
<1>1. IInv => CertsAccountedFor
  BY DEF IInv, CertInv
<1> QED
  BY <1>1, InvCorrect, PTL

\* No certificate ssl_conf points to is freed between two calls of
\* runSSLHandshake().
THEOREM CertsLiveCorrect == Spec => []CertsOutliveHandshake
<1>1. IInv => CertsOutliveHandshake
  BY DEF IInv, CertInv, SetUpInv, AttemptInv, CertsOutliveHandshake, InHandshake
<1> QED
  BY <1>1, InvCorrect, PTL

\* A client with a root certificate uses no connection for which it has made a
\* handshake that mbedTLS had an objection to, although the code that looks at
\* the objections after the handshake returns a stale result.
THEOREM VerificationCorrect == Spec => []HandshakenIsVerified
<1>1. IInv => HandshakenIsVerified
  BY DEF IInv, TypeOK, AttemptInv, VerifyInv, WithCa, HandshakenIsVerified
<1> QED
  BY <1>1, InvCorrect, PTL

-----------------------------------------------------------------------------
(* The timeout of the handshake *)

\* What the code takes for the time since the first attempt.
Elapsed == (clock - start) % Wrap

\* A first attempt at millis() = 0 is forgotten, and the second one counts.
Slack == IF atZero THEN MaxWait ELSE 0

\* The start time is recorded by the first attempt, or by the second one.  As
\* an attempt is put off only if it has not timed out, and the next one is soon
\* made, the time elapsed never comes round.
TimeInv ==
  InHandshake =>
    \/ start # 0 /\ age <= Elapsed + Slack /\ Elapsed <= HANDSHAKE_TIMEOUT + wait
    \/ atZero /\ start = 0 /\ age = wait /\ clock = wait

\* The difference of two values of millis().
LEMMA Difference ==
  ASSUME NEW a \in 0..(Wrap - 1), NEW b \in 0..(Wrap - 1)
  PROVE  (a - b) % Wrap = IF a >= b THEN a - b ELSE a - b + Wrap
<1>1. CASE a >= b
  BY <1>1, WrapAssumption
<1>2. CASE a < b
  BY <1>2, WrapAssumption
<1> QED
  BY <1>1, <1>2

\* One tick later it is larger by one, until it comes round.
LEMMA TickDifference ==
  ASSUME NEW a \in 0..(Wrap - 1), NEW b \in 0..(Wrap - 1), NEW c,
         c = (a + 1) % Wrap, ((a - b) % Wrap) + 1 < Wrap
  PROVE  (c - b) % Wrap = ((a - b) % Wrap) + 1
<1>1. c = IF a + 1 = Wrap THEN 0 ELSE a + 1
  BY WrapAssumption
<1>2. c \in 0..(Wrap - 1)
  BY ClockRange
<1>3. (c - b) % Wrap = IF c >= b THEN c - b ELSE c - b + Wrap
  BY <1>2, Difference
<1>4. (a - b) % Wrap = IF a >= b THEN a - b ELSE a - b + Wrap
  BY Difference
<1> QED
  BY <1>1, <1>3, <1>4, WrapAssumption

\* Ticks and attempts keep the start time and the age of the handshake in line.
LEMMA TimeStep == TypeOK /\ CertInv /\ AttemptInv /\ TimeInv /\ [Next]_vars => TimeInv'
<1> SUFFICES ASSUME TypeOK, CertInv, AttemptInv, TimeInv, [Next]_vars, InHandshake'
             PROVE  TimeInv'
  BY DEF TimeInv
<1>t. /\ HANDSHAKE_TIMEOUT \in Nat /\ Wrap \in Nat /\ MaxWait \in Nat
      /\ HANDSHAKE_TIMEOUT + MaxWait < Wrap
      /\ clock \in 0..(Wrap - 1) /\ start \in 0..(Wrap - 1)
      /\ age \in -1..MaxAge /\ wait \in 0..MaxWait
      /\ Elapsed \in 0..(Wrap - 1)
  BY WrapAssumption, ClockRange DEF TypeOK, Elapsed
<1>1. CASE Tick
  <2>1. InHandshake
    BY <1>1 DEF Tick, InHandshake
  <2>2. /\ wait < MaxWait /\ wait' = wait + 1 /\ start' = start /\ atZero' = atZero
        /\ clock' = (clock + 1) % Wrap /\ age' = IF age < MaxAge THEN age + 1 ELSE age
    BY <1>1, <2>1 DEF Tick
  <2>3. CASE /\ start # 0 /\ age <= Elapsed + Slack
             /\ Elapsed <= HANDSHAKE_TIMEOUT + wait
    <3>1. Elapsed' = Elapsed + 1
      <4>1. Elapsed + 1 < Wrap
        BY <1>t, <2>2, <2>3
      <4>2. (clock' - start) % Wrap = ((clock - start) % Wrap) + 1
        BY <1>t, <2>2, <4>1, TickDifference DEF Elapsed
      <4> QED
        BY <2>2, <4>2 DEF Elapsed
    <3>2. Slack' = Slack /\ Slack \in Nat
      BY <1>t, <2>2 DEF Slack
    <3> QED
      BY <1>t, <2>2, <2>3, <3>1, <3>2 DEF TimeInv, MaxAge
  <2>4. CASE atZero /\ start = 0 /\ age = wait /\ clock = wait
    <3>1. clock' = clock + 1
      BY <1>t, <2>2, <2>4
    <3> QED
      BY <1>t, <2>2, <2>4, <3>1 DEF TimeInv, MaxAge
  <2> QED
    BY <2>1, <2>3, <2>4 DEF TimeInv
<1>2. CASE WantMore
  <2>1. /\ start' = StartTime /\ clock' = clock /\ wait' = 0
        /\ age' = IF age = -1 THEN 0 ELSE age
        /\ atZero' = IF age = -1 THEN clock = 0 ELSE atZero
        /\ (clock - StartTime) % Wrap <= HANDSHAKE_TIMEOUT
        /\ pc = "handshake" /\ ctx /\ ~done
    BY <1>2, <1>t, ClockRange
       DEF WantMore, AtHandshake, Attempted, TimedOut, CertInv, ContextInv, StartTime
  <2>3. CASE start # 0
    <3>1. start' = start /\ Elapsed' = Elapsed /\ Elapsed <= HANDSHAKE_TIMEOUT
      BY <2>1, <2>3 DEF StartTime, Elapsed
    <3>2. age # -1
      BY <2>1, <2>3 DEF AttemptInv
    <3>3. age <= Elapsed + Slack /\ Slack' = Slack
      BY <2>1, <2>3, <3>2 DEF TimeInv, InHandshake, Slack
    <3> QED
      BY <1>t, <2>1, <2>3, <3>1, <3>2, <3>3 DEF TimeInv
  <2>4. CASE start = 0 /\ clock = 0
    <3>1. start' = 0 /\ age' = 0 /\ atZero'
      BY <1>t, <2>1, <2>4 DEF StartTime, TimeInv, InHandshake
    <3> QED
      BY <2>1, <2>4, <3>1 DEF TimeInv
  <2>5. CASE start = 0 /\ clock # 0
    <3>1. start' = clock
      BY <2>1, <2>5 DEF StartTime
    <3>2. Elapsed' = 0
      BY <1>t, <2>1, <3>1, Difference DEF Elapsed
    <3>3. age = -1 \/ (atZero /\ age = wait)
      BY <2>1, <2>5 DEF TimeInv, InHandshake
    <3>4. age' <= Slack'
      BY <1>t, <2>1, <3>3 DEF Slack
    <3> QED
      BY <1>t, <2>1, <2>5, <3>1, <3>2, <3>4 DEF TimeInv, Slack
  <2> QED
    BY <2>3, <2>4, <2>5
<1>3. ASSUME \/ \E m \in Modes : Connect(m)
             \/ Continue \/ Proceed \/ UNCHANGED vars
      PROVE  TimeInv'
  <2>1. UNCHANGED <<ctx, done, start, clock, age, wait, atZero>>
    BY <1>3 DEF Connect, Continue, Proceed, vars, timeVars
  <2> QED
    BY <2>1 DEF TimeInv, InHandshake, Elapsed, Slack
<1>4. ASSUME \/ Close \/ NewContext \/ StartSSLClient \/ HandshakeFails
             \/ \E clean \in BOOLEAN : HandshakeOk(clean)
      PROVE  ~InHandshake'
  BY <1>4 DEF Close, NewContext, StartSSLClient, EarlyFailure, Seeded, AuthInsecure, AuthPsk,
     AuthCa, ClientCert, ClientKey, LoadFails, SetUpFailed, SessionSetUp, HandshakeFails,
     HandshakeOk,
     Closed, InHandshake, AttemptInv, CertInv, ContextInv, timeVars
<1> QED
  BY <1>1, <1>2, <1>3, <1>4 DEF Next, RunSSLHandshake

\* runSSLHandshake() puts an attempt off only within HANDSHAKE_TIMEOUT of the
\* first one, for every timeout and wherever millis() comes round.
THEOREM TimeoutCorrect == Spec => TimeoutHonoured
<1>1. Init => TimeInv
  BY DEF Init, TimeInv, InHandshake
<1>2. IInv /\ TimeInv /\ [Next]_vars => TimeInv'
  BY TimeStep DEF IInv
<1>3. IInv /\ TimeInv =>
        [WantMore => age <= HANDSHAKE_TIMEOUT + IF atZero THEN MaxWait ELSE 0]_vars
  <2> SUFFICES ASSUME IInv, TimeInv, WantMore
               PROVE  age <= HANDSHAKE_TIMEOUT + Slack
    BY DEF Slack
  <2>1. /\ HANDSHAKE_TIMEOUT \in Nat /\ MaxWait \in Nat /\ age \in Int
        /\ wait \in 0..MaxWait /\ Elapsed \in 0..(Wrap - 1)
    BY WrapAssumption, ClockRange DEF IInv, TypeOK, Elapsed
  <2>2. age # -1 => InHandshake
    BY DEF IInv, CertInv, ContextInv, WantMore, AtHandshake, InHandshake
  <2>3. start # 0 => Elapsed <= HANDSHAKE_TIMEOUT
    BY <2>1 DEF WantMore, TimedOut, StartTime, Elapsed
  <2> QED
    BY <2>1, <2>2, <2>3 DEF TimeInv, Slack
<1> QED
  BY <1>1, <1>2, <1>3, InvCorrect, PTL DEF Spec, TimeoutHonoured

=============================================================================
