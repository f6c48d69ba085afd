----------------------------- MODULE TlsContext -----------------------------
(***************************************************************************)
(* The TLS context of an encrypted client (src/AsyncTCP_TLS_Context.cpp):  *)
(* its set-up from certificates or a pre-shared key, any step of which may *)
(* fail, the handshake with its timeout, and the memory of the             *)
(* certificates.  It is driven as src/SslClient.cpp writes it down.        *)
(*                                                                         *)
(* mbedTLS is external: it is modelled by the results it may return.       *)
(* Everything here runs on the manager task; between its handlers time     *)
(* passes and callbacks may close the client.                              *)
(***************************************************************************)
EXTENDS Integers

CONSTANTS
  HANDSHAKE_TIMEOUT, \* handshake_timeout, in ticks of millis()
  Wrap,              \* 2^32: millis() counts modulo this number
  MaxWait            \* bound: an unfinished handshake is attempted this often

\* Two attempts are a turn of the manager's loop apart, far less than the 49
\* days in which millis() comes round.
ASSUME WrapAssumption ==
  /\ HANDSHAKE_TIMEOUT \in Nat /\ Wrap \in Nat /\ MaxWait \in Nat \ {0}
  /\ HANDSHAKE_TIMEOUT + MaxWait < Wrap

VARIABLES
  conn,    \* connection of the client: closed, connecting (TCP is up), open
  mode,    \* what setRootCa(), setClientCert(), setPsk() were called with
  ctx,     \* _sslctx # NULL
  pc,      \* where _startSSLClient() is; "idle" between two handlers
  auth,    \* the authmode of ssl_conf
  heap,    \* certificates and keys that hold memory
  have,    \* _have_ca_cert, _have_client_cert, _have_client_key
  refs,    \* certificates and keys that ssl_conf points to
  start,   \* handshake_start_time
  done,    \* _handshake_done
  clock,   \* millis()
  age,     \* history: time since the first attempt of the handshake
  wait,    \* history: time since the last attempt of the handshake
  verified,\* history: the peer's certificate was verified without objection
  atZero   \* history: the first attempt was made when millis() was 0

certVars == <<auth, heap, have, refs>>
timeVars == <<start, clock, age, wait, atZero>>
vars == <<conn, mode, ctx, pc, certVars, timeVars, done, verified>>

Modes == {"insecure", "psk", "ca", "mutual"}
Certs == {"ca", "cert", "key"}

MaxAge == HANDSHAKE_TIMEOUT + MaxWait + 1   \* older handshakes are as old

TypeOK ==
  /\ conn \in {"closed", "connecting", "open"} /\ mode \in Modes
  /\ ctx \in BOOLEAN /\ done \in BOOLEAN /\ verified \in BOOLEAN /\ atZero \in BOOLEAN
  /\ pc \in {"idle", "seed", "auth", "cert", "key", "session", "handshake", "failed"}
  /\ auth \in {"default", "none", "required", "optional"}
  /\ heap \subseteq Certs /\ have \subseteq Certs /\ refs \subseteq Certs
  /\ start \in 0..(Wrap - 1) /\ clock \in 0..(Wrap - 1)
  /\ age \in -1..MaxAge /\ wait \in 0..MaxWait

\* The handshake has been attempted and is not finished.
InHandshake == ctx /\ age # -1 /\ ~done

\* No class of this commit declares _handshake_done, so that its first value
\* is open.
Init ==
  /\ conn = "closed" /\ mode \in Modes /\ ctx = FALSE /\ pc = "idle"
  /\ auth = "default" /\ heap = {} /\ have = {} /\ refs = {}
  /\ start = 0 /\ clock \in 0..(Wrap - 1) /\ age = -1 /\ wait = 0 /\ atZero = FALSE
  /\ done \in BOOLEAN /\ verified = FALSE

-----------------------------------------------------------------------------
(* Time, the network and the user *)

Tick ==
  /\ pc = "idle" /\ wait < MaxWait
  /\ clock' = (clock + 1) % Wrap
  /\ age' = IF InHandshake /\ age < MaxAge THEN age + 1 ELSE age
  /\ wait' = IF InHandshake THEN wait + 1 ELSE wait
  /\ UNCHANGED <<conn, mode, ctx, pc, certVars, start, atZero, done, verified>>

\* connect(): _handshake_done keeps the value it has.
Connect(m) ==
  /\ conn = "closed" /\ pc = "idle"
  /\ conn' = "connecting" /\ mode' = m
  /\ UNCHANGED <<ctx, pc, certVars, timeVars, done, verified>>

\* Faulty variant: the flags are not reset, and the next call frees again.
DeleteHandshakeCertsUnreset == heap' = heap \ have /\ have' = have

\* _deleteHandshakeCerts(): once by the error path or after the handshake, and
\* again by the destructor.
DeleteHandshakeCerts == heap' = heap \ have /\ have' = {}

\* SslClient::_close(), which runs the destructor of the context.
Closed ==
  /\ conn' = "closed" /\ ctx' = FALSE /\ pc' = "idle"
  /\ DeleteHandshakeCerts /\ auth' = "default" /\ refs' = {}
  /\ age' = -1 /\ wait' = 0 /\ atZero' = FALSE /\ verified' = FALSE

\* close() in a callback, or the end of the connection.
Close ==
  /\ conn # "closed" /\ pc = "idle" /\ Closed
  /\ UNCHANGED <<mode, start, clock, done>>

-----------------------------------------------------------------------------
(* _startSSLClient() *)

\* SslClient::_sockIsWriteable() of a client without a context.  The start
\* time of a new object is whatever the memory held.
NewContext ==
  /\ conn = "connecting" /\ ~ctx /\ pc = "idle"
  /\ ctx' = TRUE /\ pc' = "seed"
  /\ start' \in 0..(Wrap - 1)
  /\ UNCHANGED <<conn, mode, certVars, clock, age, wait, atZero, done, verified>>

\* A step that fails before a certificate is loaded: socket options, the
\* seed, the defaults of the configuration, a pre-shared key that is missing,
\* too long or not hexadecimal.
EarlyFailure ==
  /\ pc = "seed" \/ (pc = "auth" /\ mode = "psk")
  /\ pc' = "failed"
  /\ UNCHANGED <<conn, mode, ctx, certVars, timeVars, done, verified>>

Seeded ==
  /\ pc = "seed" /\ pc' = "auth"
  /\ UNCHANGED <<conn, mode, ctx, certVars, timeVars, done, verified>>

AuthInsecure ==
  /\ pc = "auth" /\ mode = "insecure"
  /\ auth' = "none" /\ pc' = "session"
  /\ UNCHANGED <<conn, mode, ctx, heap, have, refs, timeVars, done, verified>>

AuthPsk ==
  /\ pc = "auth" /\ mode = "psk" /\ pc' = "session"
  /\ UNCHANGED <<conn, mode, ctx, certVars, timeVars, done, verified>>

\* Faulty variant: the handshake leaves the verdict to the code after it.
AuthCaOptional ==
  /\ pc = "auth" /\ mode \in {"ca", "mutual"}
  /\ auth' = "optional" /\ heap' = heap \cup {"ca"} /\ have' = have \cup {"ca"}
  /\ refs' = refs \cup {"ca"}
  /\ pc' = IF mode = "mutual" THEN "cert" ELSE "session"
  /\ UNCHANGED <<conn, mode, ctx, timeVars, done, verified>>

\* The root certificate is parsed.
AuthCa ==
  /\ pc = "auth" /\ mode \in {"ca", "mutual"}
  /\ auth' = "required" /\ heap' = heap \cup {"ca"} /\ have' = have \cup {"ca"}
  /\ refs' = refs \cup {"ca"}
  /\ pc' = IF mode = "mutual" THEN "cert" ELSE "session"
  /\ UNCHANGED <<conn, mode, ctx, timeVars, done, verified>>

ClientCert ==
  /\ pc = "cert" /\ pc' = "key"
  /\ heap' = heap \cup {"cert"} /\ have' = have \cup {"cert"}
  /\ UNCHANGED <<conn, mode, ctx, auth, refs, timeVars, done, verified>>

ClientKey ==
  /\ pc = "key" /\ pc' = "session"
  /\ heap' = heap \cup {"key"} /\ have' = have \cup {"key"}
  /\ refs' = refs \cup {"cert", "key"}
  /\ UNCHANGED <<conn, mode, ctx, auth, timeVars, done, verified>>

\* What a parser leaves behind when it fails at one of the steps above.
Loading ==
  CASE pc = "auth" -> {"ca"} [] pc = "cert" -> {"cert"} [] pc = "key" -> {"key"}
    [] OTHER -> {}

\* A certificate or key does not parse, or the session cannot be set up: the
\* flag of what was being loaded is set, and all that is flagged is deleted.
LoadFails ==
  /\ pc \in {"cert", "key", "session"} \/ (pc = "auth" /\ mode \in {"ca", "mutual"})
  /\ heap' = (heap \cup Loading) \ (have \cup Loading) /\ have' = {}
  /\ refs' = refs \cup (Loading \cap {"ca"})
  /\ auth' = IF pc = "auth" THEN "required" ELSE auth
  /\ pc' = "failed"
  /\ UNCHANGED <<conn, mode, ctx, timeVars, done, verified>>

\* SslClient::_sockIsWriteable() closes the client whose set-up has failed.
SetUpFailed ==
  /\ pc = "failed" /\ Closed
  /\ UNCHANGED <<mode, start, clock, done>>

SessionSetUp ==
  /\ pc = "session" /\ start' = 0 /\ pc' = "handshake"
  /\ UNCHANGED <<conn, mode, ctx, certVars, clock, age, wait, atZero, done, verified>>

-----------------------------------------------------------------------------
(* runSSLHandshake(), called by _runSSLHandshakeLoop() *)

\* The loop is entered after the set-up, and whenever the socket of an
\* unfinished handshake is writable or readable.
Continue ==
  /\ pc = "idle" /\ conn = "connecting" /\ ctx /\ ~done /\ pc' = "handshake"
  /\ UNCHANGED <<conn, mode, ctx, certVars, timeVars, done, verified>>

AtHandshake == pc = "handshake" /\ ~done

\* Faulty variant: a deadline is kept, which may lie beyond the range.
StartTimeDeadline == IF start = 0 THEN clock + HANDSHAKE_TIMEOUT ELSE start

\* Faulty variant: every attempt counts as the first.
StartTimeReset == clock

StartTime == IF start = 0 THEN clock ELSE start

\* Faulty variant: the time is compared as if millis() did not come round.
TimedOutUnwrapped == clock - StartTime > HANDSHAKE_TIMEOUT

TimedOut == (clock - StartTime) % Wrap > HANDSHAKE_TIMEOUT

Attempted ==
  /\ age' = IF age = -1 THEN 0 ELSE age
  /\ wait' = 0
  /\ atZero' = IF age = -1 THEN clock = 0 ELSE atZero

\* Faulty variant: whatever is not a success frees the certificates.
WantMoreUnloads ==
  /\ AtHandshake /\ ~TimedOut
  /\ start' = StartTime /\ Attempted /\ pc' = "idle" /\ DeleteHandshakeCerts
  /\ UNCHANGED <<conn, mode, ctx, auth, refs, clock, done, verified>>

\* mbedTLS wants to read or to write: another attempt later.
WantMore ==
  /\ AtHandshake /\ ~TimedOut
  /\ start' = StartTime /\ Attempted /\ pc' = "idle"
  /\ UNCHANGED <<conn, mode, ctx, certVars, clock, done, verified>>

\* It has wanted more for too long, or fails: the client closes.
HandshakeFails ==
  /\ AtHandshake
  /\ start' = StartTime
  /\ Closed
  /\ UNCHANGED <<mode, clock, done>>

\* mbedTLS completes the handshake.  It does so with objections to the peer's
\* certificate only if these are not required to be absent.  The code then
\* returns ret: 0, or the record expansion it has asked for meanwhile.
HandshakeOk(clean) ==
  /\ AtHandshake /\ (auth = "required" => clean)
  /\ start' = StartTime /\ Attempted
  /\ DeleteHandshakeCerts
  /\ verified' = clean
  /\ clean \/ ~({"cert", "key"} \subseteq have)
  /\ done' = TRUE /\ pc' = "idle"
  /\ UNCHANGED <<conn, mode, ctx, auth, refs, clock>>

\* After the handshake, this one or one of an earlier connection, the socket
\* is used as that of an ordinary client.
Proceed ==
  /\ conn = "connecting" /\ ctx /\ done /\ pc \in {"idle", "handshake"}
  /\ conn' = "open" /\ pc' = "idle"
  /\ UNCHANGED <<mode, ctx, certVars, timeVars, done, verified>>

-----------------------------------------------------------------------------
StartSSLClient ==
  \/ EarlyFailure \/ Seeded \/ AuthInsecure \/ AuthPsk \/ AuthCa
  \/ ClientCert \/ ClientKey \/ LoadFails \/ SetUpFailed \/ SessionSetUp

RunSSLHandshake ==
  WantMore \/ HandshakeFails \/ \E clean \in BOOLEAN : HandshakeOk(clean)

Next ==
  \/ Tick \/ Close \/ NewContext \/ StartSSLClient \/ Continue \/ RunSSLHandshake
  \/ Proceed
  \/ \E m \in Modes : Connect(m)

Spec == Init /\ [][Next]_vars

\* The manager task runs its handlers: a connecting socket is in the write set
\* of select(), and has room for a handshake message.  Time passes also when
\* they leave it idle for moments only.
FairSpec ==
  /\ Spec
  /\ SF_vars(Tick) /\ WF_vars(NewContext) /\ WF_vars(StartSSLClient)
  /\ WF_vars(Continue) /\ WF_vars(RunSSLHandshake)

-----------------------------------------------------------------------------
(* Properties *)

\* "These allocate memory during handshake but must be freed on either success
\* or failure": the flags of a context that exists tell what holds memory, so
\* that it is freed, and not twice, by the error path, the end of the handshake
\* and the destructor together.
CertsAccountedFor == heap = have /\ (heap # {} => ctx)

\* While the handshake can go on, no certificate the configuration points to
\* has been freed.
CertsOutliveHandshake == InHandshake => refs \subseteq heap

\* If a client with a root certificate has made a handshake for the connection
\* it uses, mbedTLS had no objection to the peer's certificate.
HandshakenIsVerified ==
  conn = "open" /\ age # -1 /\ mode \in {"ca", "mutual"} => verified

\* "_handshake_done is set to FALSE on connect() if encrypted connection"
\* (SslClient.cpp:132): a client with a root certificate uses no connection
\* without a handshake of its own.
VerifiedBeforeUse ==
  conn = "open" /\ mode \in {"ca", "mutual"} => verified

\* An attempt is put off only within HANDSHAKE_TIMEOUT of the first one, also
\* when millis() comes round in between.  A first attempt at millis() = 0,
\* which the code takes for none, only adds the time to the second one.
TimeoutHonoured ==
  [][WantMore => age <= HANDSHAKE_TIMEOUT + IF atZero THEN MaxWait ELSE 0]_vars

\* A handshake that was begun is completed or given up.
HandshakeEnds == InHandshake ~> (done \/ ~ctx)

=============================================================================
