-------------------------- MODULE OwnershipProofs --------------------------
(***************************************************************************)
(* Who owns what in Lifecycle: descriptors and client objects, for any     *)
(* number of clients, descriptors and application threads.  The rules of   *)
(* use are wider than PoliteUse: connect(host) may be called on an         *)
(* application thread, or close() on one and anything at all in callbacks. *)
(***************************************************************************)
EXTENDS LifecycleProofs

\* The use the examples show: application threads open connections, by name or
\* by address, on idle clients; everything else happens in callbacks.
ExampleUse ==
  /\ Impatient = {} /\ AppCalls \subseteq {"connect", "connectHost"}
  /\ "delete" \notin CallbackCalls

\* Connections are opened in callbacks only, on any client at any time;
\* application threads close them.
CallbackUse == AppCalls \subseteq {"close"} /\ "delete" \notin CallbackCalls

-----------------------------------------------------------------------------
(* The inductive invariant *)

ConnectStep == {"open", "socket", "dial", "configure", "publish"}
CloseStep == {"close", "exchange", "closeFd"}

\* The records of the calls in progress.  Destructors run in DISCONNECT.
ShapeInv ==
  \A t \in Threads :
    /\ call[t].step = "none" <=> call[t].client = None
    /\ call[t].fd # None => call[t].step \in {"dial", "configure", "publish", "closeFd"}
    /\ call[t].step \in {"dial", "configure", "publish"} => call[t].fd # None
    /\ call[t].from = "destructor" =>
         /\ t = Mgr /\ call[t].step \in CloseStep
         /\ callback = "DISCONNECT" /\ cur = call[t].client /\ cur \in alive \ managed
         /\ call[t].step = "closeFd" => ~isOpen(cur)

\* No two threads connect the same client, and none that is open.
AloneInv ==
  /\ \A t, u \in Threads :
       /\ call[t].step \in ConnectStep /\ call[u].step \in ConnectStep
       /\ call[t].client = call[u].client
       => t = u
  /\ \A t \in Threads :
       call[t].step \in ConnectStep \ {"open"} => ~isOpen(call[t].client)

\* A client is alive while it is registered and while its destructor runs.
\* Destroyed clients are closed, and nobody connects or handles them.
LiveInv ==
  /\ managed \subseteq alive
  /\ todo \subseteq managed
  /\ cur # None /\ callback # "DISCONNECT" => cur \in managed
  /\ \A t \in Threads : call[t].step \in ConnectStep \cup {"await"} => call[t].client \in managed
  /\ \A c \in alive \ managed : call[Mgr].from = "destructor" /\ call[Mgr].client = c
  /\ \A c \in Clients \ alive : ~isOpen(c)

OwnInv == ControlInv /\ ShapeInv /\ AloneInv /\ LiveInv

\* What CallbackUse adds.
ClosersInv == \A t \in Apps : call[t].step \in {"none"} \cup CloseStep

\* An application thread is inside connect() on the client, or is about to
\* make it wait for an answer.
Dialled(c)   == \E t \in Apps : call[t].client = c /\ call[t].step \in ConnectStep
Awaited(c)   == \E t \in Threads : call[t].client = c /\ call[t].step = "await"
Resolving(c) == phase = "dns" /\ (c \in todo \/ (cur = c /\ step \in {"start", "resolve"}))

\* The client is in use, no connect() of an application thread is, and no
\* answer is outstanding: only the manager task opens or closes it.
Held(c) ==
  /\ state[c] # "DISCONNECTED" \/ Awaited(c)
  /\ ~Dialled(c) /\ ~Unanswered(c)

\* What ExampleUse adds.  First, the calls in progress.
DialInv ==
  /\ \A t \in Apps :
       /\ call[t].step \in {"none", "await"} \cup ConnectStep
       /\ call[t].step \in ConnectStep =>
            \A u \in Threads : call[u].client = call[t].client => u = t
       /\ call[t].step \in ConnectStep \ {"publish"} => state[call[t].client] = "DISCONNECTED"
       /\ call[t].step = "publish" => state[call[t].client] = "CONNECTING"
  /\ \A t, u \in Threads :
       call[t].step = "await" /\ call[u].step = "await" /\ call[t].client = call[u].client
       => t = u
  /\ \A t \in Threads : call[t].from = "user"
  /\ \A t \in Threads : call[t].step \in ConnectStep => ~isOpen(call[t].client)
  /\ call[Mgr].step \in ConnectStep => ~Unanswered(call[Mgr].client)
  /\ call[Mgr].step = "publish" =>
       state[call[Mgr].client] \in {"CONNECTING", "WAITING_FOR_DNS"}
  /\ call[Mgr].step \in CloseStep =>
       ~Dialled(call[Mgr].client) /\ ~Unanswered(call[Mgr].client)
  /\ call[Mgr].step = "closeFd" => ~isOpen(call[Mgr].client)
  /\ \A t \in Threads : call[t].step # "none" => call[t].client \in managed

\* Second, the sockets of clients that are closed or being closed.
ClosedInv ==
  \A c \in Clients :
    /\ isOpen(c) => state[c] # "DISCONNECTED" \/ Awaited(c)
    /\ isOpen(c) /\ state[c] = "DISCONNECTING" =>
         call[Mgr].client = c /\ call[Mgr].step \in CloseStep
    /\ c \notin alive => state[c] = "DISCONNECTED"

\* Third, the answers of lwIP: one at most for each client, which waits for it.
AnswerInv ==
  \A c \in Clients :
    /\ lookups[c] \in {0, 1}
    /\ lookups[c] = 1 => resolved # c /\ ~dnsFinished[c]
    /\ resolved = c => ~dnsFinished[c]
    /\ phase = "dns" /\ c \in todo => dnsFinished[c]
    /\ phase = "dns" /\ cur = c /\ step = "start" => dnsFinished[c]
    /\ Unanswered(c) \/ Resolving(c) =>
         /\ ~isOpen(c) /\ (state[c] = "WAITING_FOR_DNS" \/ Awaited(c))
         /\ state[c] \in {"DISCONNECTED", "WAITING_FOR_DNS"}
         /\ \A t \in Threads : call[t].client = c => call[t].step = "await"

\* Fourth, the clients the manager task handles.
HeldInv ==
  /\ phase \in {"write", "read"} => \A c \in todo : Held(c)
  /\ cur # None /\ callback # "DISCONNECT" /\ (step = "start" => phase \in {"write", "read"})
       => Held(cur)
  /\ step = "fire" => ~isOpen(cur)

ExampleInv == DialInv /\ ClosedInv /\ AnswerInv /\ HeldInv

\* One of the two ways of using the library, with its part of the invariant.
Orderly == (ExampleUse /\ ExampleInv) \/ (CallbackUse /\ ClosersInv)

-----------------------------------------------------------------------------
(* The invariant is preserved by every action *)

\* connect() starts on an idle client.
LEMMA UserConnectOwn ==
  ASSUME Orderly, TypeOK, OwnInv, NEW t \in Threads, NEW c \in Clients, UserConnect(t, c)
  PROVE  OwnInv'
<1> USE NoneFacts DEF UserConnect, MayCall, Idle, AtCall, objectVars, managerVars,
    lwipVars
<1>1. ControlInv'
  BY DEF TypeOK, OwnInv, ControlInv, isOpen, ConnectStep, CloseStep, Orderly,
     ExampleInv, DialInv, ClosedInv, AnswerInv, HeldInv, ClosersInv, Held, Dialled,
     Unanswered, ExampleUse, CallbackUse
<1>2. ShapeInv'
  BY DEF TypeOK, OwnInv, ShapeInv, LiveInv, ControlInv, isOpen, ConnectStep, CloseStep,
     Orderly, ExampleInv, DialInv, ClosedInv, AnswerInv, HeldInv, ClosersInv, Held,
     Dialled, Unanswered, ExampleUse, CallbackUse
<1>3. AloneInv'
  BY DEF TypeOK, OwnInv, AloneInv, ShapeInv, LiveInv, ControlInv, isOpen, ConnectStep,
     CloseStep, Orderly, ExampleInv, DialInv, ClosedInv, AnswerInv, HeldInv, ClosersInv,
     Held, Dialled, Unanswered, ExampleUse, CallbackUse
<1>4. LiveInv'
  BY DEF TypeOK, OwnInv, LiveInv, ShapeInv, AloneInv, ControlInv, isOpen, ConnectStep,
     CloseStep, Orderly, ExampleInv, DialInv, ClosedInv, AnswerInv, HeldInv, ClosersInv,
     Held, Dialled, Unanswered, ExampleUse, CallbackUse
<1> QED
  BY <1>1, <1>2, <1>3, <1>4 DEF OwnInv

\* connect() starts on an idle client.
LEMMA UserConnectExample ==
  ASSUME ExampleUse, TypeOK, OwnInv, ExampleInv, NEW t \in Threads, NEW c \in Clients, UserConnect(t, c)
  PROVE  ExampleInv'
<1> USE NoneFacts DEF UserConnect, MayCall, Idle, AtCall, objectVars, managerVars,
    lwipVars
<1>1. DialInv'
  BY DEF TypeOK, OwnInv, DialInv, ShapeInv, AloneInv, LiveInv, ClosedInv, AnswerInv,
     HeldInv, ControlInv, isOpen, ConnectStep, CloseStep, ExampleInv, Unanswered,
     Dialled, Awaited, Resolving, Held, ExampleUse
<1>2. ClosedInv'
  BY DEF TypeOK, OwnInv, ClosedInv, ShapeInv, LiveInv, DialInv, AnswerInv, HeldInv,
     ControlInv, isOpen, ConnectStep, CloseStep, ExampleInv, Unanswered, Dialled,
     Awaited, Resolving, Held, ExampleUse
<1>3. AnswerInv'
  BY DEF TypeOK, OwnInv, AnswerInv, ShapeInv, LiveInv, DialInv, ClosedInv, HeldInv,
     ControlInv, isOpen, ConnectStep, CloseStep, ExampleInv, Unanswered, Dialled,
     Awaited, Resolving, Held, ExampleUse
<1>4. HeldInv'
  BY DEF TypeOK, OwnInv, HeldInv, ShapeInv, LiveInv, DialInv, ClosedInv, AnswerInv,
     ControlInv, isOpen, ConnectStep, CloseStep, ExampleInv, Unanswered, Dialled,
     Awaited, Resolving, Held, ExampleUse
<1> QED
  BY <1>1, <1>2, <1>3, <1>4 DEF ExampleInv

\* connect() finds the client closed.
LEMMA ConnectOpenOwn ==
  ASSUME TypeOK, OwnInv, NEW t \in Threads, ConnectOpen(t)
  PROVE  OwnInv'
<1> USE NoneFacts DEF ConnectOpen, AtCall, NoCall, objectVars, managerVars, lwipVars
<1>1. ControlInv'
  BY DEF TypeOK, OwnInv, ControlInv, isOpen, ConnectStep, CloseStep
<1>2. ShapeInv'
  BY DEF TypeOK, OwnInv, ShapeInv, LiveInv, ControlInv, isOpen, ConnectStep, CloseStep
<1>3. AloneInv'
  BY DEF TypeOK, OwnInv, AloneInv, ShapeInv, LiveInv, ControlInv, isOpen, ConnectStep,
     CloseStep
<1>4. LiveInv'
  BY DEF TypeOK, OwnInv, LiveInv, ShapeInv, AloneInv, ControlInv, isOpen, ConnectStep,
     CloseStep
<1> QED
  BY <1>1, <1>2, <1>3, <1>4 DEF OwnInv

\* connect() finds the client closed.
LEMMA ConnectOpenExample ==
  ASSUME TypeOK, OwnInv, ExampleInv, NEW t \in Threads, ConnectOpen(t)
  PROVE  ExampleInv'
<1> USE NoneFacts DEF ConnectOpen, AtCall, NoCall, objectVars, managerVars, lwipVars
<1>1. DialInv'
  BY DEF TypeOK, OwnInv, DialInv, ShapeInv, AloneInv, LiveInv, ClosedInv, AnswerInv,
     HeldInv, ControlInv, isOpen, ConnectStep, CloseStep, ExampleInv, Unanswered,
     Dialled, Awaited, Resolving, Held
<1>2. ClosedInv'
  BY DEF TypeOK, OwnInv, ClosedInv, ShapeInv, LiveInv, DialInv, AnswerInv, HeldInv,
     ControlInv, isOpen, ConnectStep, CloseStep, ExampleInv, Unanswered, Dialled,
     Awaited, Resolving, Held
<1>3. AnswerInv'
  BY DEF TypeOK, OwnInv, AnswerInv, ShapeInv, LiveInv, DialInv, ClosedInv, HeldInv,
     ControlInv, isOpen, ConnectStep, CloseStep, ExampleInv, Unanswered, Dialled,
     Awaited, Resolving, Held
<1>4. HeldInv'
  BY DEF TypeOK, OwnInv, HeldInv, ShapeInv, LiveInv, DialInv, ClosedInv, AnswerInv,
     ControlInv, isOpen, ConnectStep, CloseStep, ExampleInv, Unanswered, Dialled,
     Awaited, Resolving, Held
<1> QED
  BY <1>1, <1>2, <1>3, <1>4 DEF ExampleInv

\* socket() gives connect() a descriptor, or fails.
LEMMA ConnectSocketOwn ==
  ASSUME TypeOK, OwnInv, NEW t \in Threads, ConnectSocket(t)
  PROVE  OwnInv'
<1> USE NoneFacts DEF ConnectSocket, NoCall, objectVars, managerVars, lwipVars
<1>1. ControlInv'
  BY DEF TypeOK, OwnInv, ControlInv, isOpen, ConnectStep, CloseStep
<1>2. ShapeInv'
  BY DEF TypeOK, OwnInv, ShapeInv, LiveInv, ControlInv, isOpen, ConnectStep, CloseStep
<1>3. AloneInv'
  BY DEF TypeOK, OwnInv, AloneInv, ShapeInv, LiveInv, ControlInv, isOpen, ConnectStep,
     CloseStep
<1>4. LiveInv'
  BY DEF TypeOK, OwnInv, LiveInv, ShapeInv, AloneInv, ControlInv, isOpen, ConnectStep,
     CloseStep
<1> QED
  BY <1>1, <1>2, <1>3, <1>4 DEF OwnInv

\* socket() gives connect() a descriptor, or fails.
LEMMA ConnectSocketExample ==
  ASSUME TypeOK, OwnInv, ExampleInv, NEW t \in Threads, ConnectSocket(t)
  PROVE  ExampleInv'
<1> USE NoneFacts DEF ConnectSocket, NoCall, objectVars, managerVars, lwipVars
<1>1. DialInv'
  BY DEF TypeOK, OwnInv, DialInv, ShapeInv, AloneInv, LiveInv, ClosedInv, AnswerInv,
     HeldInv, ControlInv, isOpen, ConnectStep, CloseStep, ExampleInv, Unanswered,
     Dialled, Awaited, Resolving, Held
<1>2. ClosedInv'
  BY DEF TypeOK, OwnInv, ClosedInv, ShapeInv, LiveInv, DialInv, AnswerInv, HeldInv,
     ControlInv, isOpen, ConnectStep, CloseStep, ExampleInv, Unanswered, Dialled,
     Awaited, Resolving, Held
<1>3. AnswerInv'
  BY DEF TypeOK, OwnInv, AnswerInv, ShapeInv, LiveInv, DialInv, ClosedInv, HeldInv,
     ControlInv, isOpen, ConnectStep, CloseStep, ExampleInv, Unanswered, Dialled,
     Awaited, Resolving, Held
<1>4. HeldInv'
  BY DEF TypeOK, OwnInv, HeldInv, ShapeInv, LiveInv, DialInv, ClosedInv, AnswerInv,
     ControlInv, isOpen, ConnectStep, CloseStep, ExampleInv, Unanswered, Dialled,
     Awaited, Resolving, Held
<1> QED
  BY <1>1, <1>2, <1>3, <1>4 DEF ExampleInv

\* The connection is established.
LEMMA ConnectDialOwn ==
  ASSUME TypeOK, OwnInv, NEW t \in Threads, ConnectDial(t)
  PROVE  OwnInv'
<1> USE NoneFacts DEF ConnectDial, objectVars, managerVars, lwipVars
<1>1. ControlInv'
  BY DEF TypeOK, OwnInv, ControlInv, isOpen, ConnectStep, CloseStep
<1>2. ShapeInv'
  BY DEF TypeOK, OwnInv, ShapeInv, LiveInv, ControlInv, isOpen, ConnectStep, CloseStep
<1>3. AloneInv'
  BY DEF TypeOK, OwnInv, AloneInv, ShapeInv, LiveInv, ControlInv, isOpen, ConnectStep,
     CloseStep
<1>4. LiveInv'
  BY DEF TypeOK, OwnInv, LiveInv, ShapeInv, AloneInv, ControlInv, isOpen, ConnectStep,
     CloseStep
<1> QED
  BY <1>1, <1>2, <1>3, <1>4 DEF OwnInv

\* The connection is established.
LEMMA ConnectDialExample ==
  ASSUME TypeOK, OwnInv, ExampleInv, NEW t \in Threads, ConnectDial(t)
  PROVE  ExampleInv'
<1> USE NoneFacts DEF ConnectDial, objectVars, managerVars, lwipVars
<1>1. DialInv'
  BY DEF TypeOK, OwnInv, DialInv, ShapeInv, AloneInv, LiveInv, ClosedInv, AnswerInv,
     HeldInv, ControlInv, isOpen, ConnectStep, CloseStep, ExampleInv, Unanswered,
     Dialled, Awaited, Resolving, Held
<1>2. ClosedInv'
  BY DEF TypeOK, OwnInv, ClosedInv, ShapeInv, LiveInv, DialInv, AnswerInv, HeldInv,
     ControlInv, isOpen, ConnectStep, CloseStep, ExampleInv, Unanswered, Dialled,
     Awaited, Resolving, Held
<1>3. AnswerInv'
  BY DEF TypeOK, OwnInv, AnswerInv, ShapeInv, LiveInv, DialInv, ClosedInv, HeldInv,
     ControlInv, isOpen, ConnectStep, CloseStep, ExampleInv, Unanswered, Dialled,
     Awaited, Resolving, Held
<1>4. HeldInv'
  BY DEF TypeOK, OwnInv, HeldInv, ShapeInv, LiveInv, DialInv, ClosedInv, AnswerInv,
     ControlInv, isOpen, ConnectStep, CloseStep, ExampleInv, Unanswered, Dialled,
     Awaited, Resolving, Held
<1> QED
  BY <1>1, <1>2, <1>3, <1>4 DEF ExampleInv

\* ::connect() fails, and connect() returns false.
LEMMA ConnectFailsOwn ==
  ASSUME TypeOK, OwnInv, NEW t \in Threads, ConnectFails(t)
  PROVE  OwnInv'
<1> USE NoneFacts DEF ConnectFails, NoCall, objectVars, managerVars, lwipVars
<1>1. ControlInv'
  BY DEF TypeOK, OwnInv, ControlInv, isOpen, ConnectStep, CloseStep
<1>2. ShapeInv'
  BY DEF TypeOK, OwnInv, ShapeInv, LiveInv, ControlInv, isOpen, ConnectStep, CloseStep
<1>3. AloneInv'
  BY DEF TypeOK, OwnInv, AloneInv, ShapeInv, LiveInv, ControlInv, isOpen, ConnectStep,
     CloseStep
<1>4. LiveInv'
  BY DEF TypeOK, OwnInv, LiveInv, ShapeInv, AloneInv, ControlInv, isOpen, ConnectStep,
     CloseStep
<1> QED
  BY <1>1, <1>2, <1>3, <1>4 DEF OwnInv

\* ::connect() fails, and connect() returns false.
LEMMA ConnectFailsExample ==
  ASSUME TypeOK, OwnInv, ExampleInv, NEW t \in Threads, ConnectFails(t)
  PROVE  ExampleInv'
<1> USE NoneFacts DEF ConnectFails, NoCall, objectVars, managerVars, lwipVars
<1>1. DialInv'
  BY DEF TypeOK, OwnInv, DialInv, ShapeInv, AloneInv, LiveInv, ClosedInv, AnswerInv,
     HeldInv, ControlInv, isOpen, ConnectStep, CloseStep, ExampleInv, Unanswered,
     Dialled, Awaited, Resolving, Held
<1>2. ClosedInv'
  BY DEF TypeOK, OwnInv, ClosedInv, ShapeInv, LiveInv, DialInv, AnswerInv, HeldInv,
     ControlInv, isOpen, ConnectStep, CloseStep, ExampleInv, Unanswered, Dialled,
     Awaited, Resolving, Held
<1>3. AnswerInv'
  BY DEF TypeOK, OwnInv, AnswerInv, ShapeInv, LiveInv, DialInv, ClosedInv, HeldInv,
     ControlInv, isOpen, ConnectStep, CloseStep, ExampleInv, Unanswered, Dialled,
     Awaited, Resolving, Held
<1>4. HeldInv'
  BY DEF TypeOK, OwnInv, HeldInv, ShapeInv, LiveInv, DialInv, ClosedInv, AnswerInv,
     ControlInv, isOpen, ConnectStep, CloseStep, ExampleInv, Unanswered, Dialled,
     Awaited, Resolving, Held
<1> QED
  BY <1>1, <1>2, <1>3, <1>4 DEF ExampleInv

\* connect() stores the state before the socket.
LEMMA ConnectStateOwn ==
  ASSUME TypeOK, OwnInv, NEW t \in Threads, ConnectState(t)
  PROVE  OwnInv'
<1> USE NoneFacts DEF ConnectState, objectVars, managerVars, lwipVars
<1>1. ControlInv'
  BY DEF TypeOK, OwnInv, ControlInv, isOpen, ConnectStep, CloseStep
<1>2. ShapeInv'
  BY DEF TypeOK, OwnInv, ShapeInv, LiveInv, ControlInv, isOpen, ConnectStep, CloseStep
<1>3. AloneInv'
  BY DEF TypeOK, OwnInv, AloneInv, ShapeInv, LiveInv, ControlInv, isOpen, ConnectStep,
     CloseStep
<1>4. LiveInv'
  BY DEF TypeOK, OwnInv, LiveInv, ShapeInv, AloneInv, ControlInv, isOpen, ConnectStep,
     CloseStep
<1> QED
  BY <1>1, <1>2, <1>3, <1>4 DEF OwnInv

\* connect() stores the state before the socket.
LEMMA ConnectStateExample ==
  ASSUME TypeOK, OwnInv, ExampleInv, NEW t \in Threads, ConnectState(t)
  PROVE  ExampleInv'
<1> USE NoneFacts DEF ConnectState, objectVars, managerVars, lwipVars
<1>1. DialInv'
  BY DEF TypeOK, OwnInv, DialInv, ShapeInv, AloneInv, LiveInv, ClosedInv, AnswerInv,
     HeldInv, ControlInv, isOpen, ConnectStep, CloseStep, ExampleInv, Unanswered,
     Dialled, Awaited, Resolving, Held
<1>2. ClosedInv'
  BY DEF TypeOK, OwnInv, ClosedInv, ShapeInv, LiveInv, DialInv, AnswerInv, HeldInv,
     ControlInv, isOpen, ConnectStep, CloseStep, ExampleInv, Unanswered, Dialled,
     Awaited, Resolving, Held
<1>3. AnswerInv'
  BY DEF TypeOK, OwnInv, AnswerInv, ShapeInv, LiveInv, DialInv, ClosedInv, HeldInv,
     ControlInv, isOpen, ConnectStep, CloseStep, ExampleInv, Unanswered, Dialled,
     Awaited, Resolving, Held
<1>4. HeldInv'
  BY DEF TypeOK, OwnInv, HeldInv, ShapeInv, LiveInv, DialInv, ClosedInv, AnswerInv,
     ControlInv, isOpen, ConnectStep, CloseStep, ExampleInv, Unanswered, Dialled,
     Awaited, Resolving, Held
<1> QED
  BY <1>1, <1>2, <1>3, <1>4 DEF ExampleInv

\* The descriptor moves from connect() to _socket.
LEMMA ConfigureSocketOwn ==
  ASSUME TypeOK, OwnInv, NEW t \in Threads, ConfigureSocket(t)
  PROVE  OwnInv'
<1> USE NoneFacts DEF ConfigureSocket, NoCall, objectVars, managerVars, lwipVars
<1>1. ControlInv'
  BY DEF TypeOK, OwnInv, ControlInv, isOpen, ConnectStep, CloseStep
<1>2. ShapeInv'
  BY DEF TypeOK, OwnInv, ShapeInv, LiveInv, ControlInv, isOpen, ConnectStep, CloseStep
<1>3. AloneInv'
  BY DEF TypeOK, OwnInv, AloneInv, ShapeInv, LiveInv, ControlInv, isOpen, ConnectStep,
     CloseStep
<1>4. LiveInv'
  BY DEF TypeOK, OwnInv, LiveInv, ShapeInv, AloneInv, ControlInv, isOpen, ConnectStep,
     CloseStep
<1> QED
  BY <1>1, <1>2, <1>3, <1>4 DEF OwnInv

\* The descriptor moves from connect() to _socket.
LEMMA ConfigureSocketExample ==
  ASSUME TypeOK, OwnInv, ExampleInv, NEW t \in Threads, ConfigureSocket(t)
  PROVE  ExampleInv'
<1> USE NoneFacts DEF ConfigureSocket, NoCall, objectVars, managerVars, lwipVars
<1>1. DialInv'
  BY DEF TypeOK, OwnInv, DialInv, ShapeInv, AloneInv, LiveInv, ClosedInv, AnswerInv,
     HeldInv, ControlInv, isOpen, ConnectStep, CloseStep, ExampleInv, Unanswered,
     Dialled, Awaited, Resolving, Held
<1>2. ClosedInv'
  BY DEF TypeOK, OwnInv, ClosedInv, ShapeInv, LiveInv, DialInv, AnswerInv, HeldInv,
     ControlInv, isOpen, ConnectStep, CloseStep, ExampleInv, Unanswered, Dialled,
     Awaited, Resolving, Held
<1>3. AnswerInv'
  BY DEF TypeOK, OwnInv, AnswerInv, ShapeInv, LiveInv, DialInv, ClosedInv, HeldInv,
     ControlInv, isOpen, ConnectStep, CloseStep, ExampleInv, Unanswered, Dialled,
     Awaited, Resolving, Held
<1>4. HeldInv'
  BY DEF TypeOK, OwnInv, HeldInv, ShapeInv, LiveInv, DialInv, ClosedInv, AnswerInv,
     ControlInv, isOpen, ConnectStep, CloseStep, ExampleInv, Unanswered, Dialled,
     Awaited, Resolving, Held
<1> QED
  BY <1>1, <1>2, <1>3, <1>4 DEF ExampleInv

\* connect(host) asks lwIP for the address.
LEMMA UserConnectHostOwn ==
  ASSUME Orderly, TypeOK, OwnInv, NEW t \in Threads, NEW c \in Clients, UserConnectHost(t, c)
  PROVE  OwnInv'
<1> USE NoneFacts DEF UserConnectHost, MayCall, Idle, AtCall, objectVars, managerVars,
    lwipVars
<1>1. ControlInv'
  BY DEF TypeOK, OwnInv, ControlInv, isOpen, ConnectStep, CloseStep, Orderly,
     ExampleInv, DialInv, ClosedInv, AnswerInv, HeldInv, ClosersInv, Held, Dialled,
     Unanswered, ExampleUse, CallbackUse
<1>2. ShapeInv'
  BY DEF TypeOK, OwnInv, ShapeInv, LiveInv, ControlInv, isOpen, ConnectStep, CloseStep,
     Orderly, ExampleInv, DialInv, ClosedInv, AnswerInv, HeldInv, ClosersInv, Held,
     Dialled, Unanswered, ExampleUse, CallbackUse
<1>3. AloneInv'
  BY DEF TypeOK, OwnInv, AloneInv, ShapeInv, LiveInv, ControlInv, isOpen, ConnectStep,
     CloseStep, Orderly, ExampleInv, DialInv, ClosedInv, AnswerInv, HeldInv, ClosersInv,
     Held, Dialled, Unanswered, ExampleUse, CallbackUse
<1>4. LiveInv'
  BY DEF TypeOK, OwnInv, LiveInv, ShapeInv, AloneInv, ControlInv, isOpen, ConnectStep,
     CloseStep, Orderly, ExampleInv, DialInv, ClosedInv, AnswerInv, HeldInv, ClosersInv,
     Held, Dialled, Unanswered, ExampleUse, CallbackUse
<1> QED
  BY <1>1, <1>2, <1>3, <1>4 DEF OwnInv

\* connect(host) asks lwIP for the address.
LEMMA UserConnectHostExample ==
  ASSUME ExampleUse, TypeOK, OwnInv, ExampleInv, NEW t \in Threads, NEW c \in Clients, UserConnectHost(t, c)
  PROVE  ExampleInv'
<1> USE NoneFacts DEF UserConnectHost, MayCall, Idle, AtCall, objectVars, managerVars,
    lwipVars
<1>1. DialInv'
  <2>1. /\ state[c] = "DISCONNECTED" /\ ~isOpen(c) /\ c \in managed
        /\ \A u \in Threads : call[u].client # c
        /\ UNCHANGED <<state, socket, managed, resolved, dnsFinished>>
    BY DEF ExampleUse
  <2>2. ~Unanswered(c)
    BY <2>1 DEF ExampleInv, AnswerInv, Awaited
  <2>3. /\ call'[t].client = c /\ call'[t].from = "user" /\ call'[t].step \in {"open", "await"}
        /\ call'[t].step = "open" => lookups' = lookups
        /\ \A u \in Threads \ {t} : call'[u] = call[u]
        /\ \A d \in Clients \ {c} : lookups'[d] = lookups[d]
    BY DEF TypeOK
  <2> HIDE DEF UserConnectHost, MayCall, Idle, AtCall, objectVars, managerVars, lwipVars
  <2>4. /\ DialInv
        /\ \A u \in Threads : call[u].client \in Clients \cup {None}
        /\ \A u \in Threads : call[u].client = None <=> call[u].step = "none"
    BY DEF ExampleInv, OwnInv, ShapeInv, TypeOK
  <2>5. \A u \in Apps : call'[u].step \in ConnectStep =>
          \A v \in Threads : call'[v].client = call'[u].client => v = u
    BY <2>1, <2>3, <2>4 DEF DialInv, Threads
  <2>6. \A u \in Apps :
          /\ call'[u].step \in {"none", "await"} \cup ConnectStep
          /\ call'[u].step \in ConnectStep \ {"publish"} =>
               state'[call'[u].client] = "DISCONNECTED"
          /\ call'[u].step = "publish" => state'[call'[u].client] = "CONNECTING"
    BY <2>1, <2>3, <2>4 DEF DialInv, Threads, ConnectStep
  <2>7. \A u \in Threads :
          /\ call'[u].from = "user"
          /\ call'[u].step \in ConnectStep => ~isOpen(call[u].client)'
          /\ call'[u].step # "none" => call'[u].client \in managed'
    <3> TAKE u \in Threads
    <3>1. CASE u = t
      BY <2>1, <2>3, <3>1 DEF isOpen
    <3>2. CASE u # t
      BY <2>1, <2>3, <2>4, <3>2 DEF DialInv, isOpen
    <3> QED
      BY <3>1, <3>2
  <2>8. \A u, v \in Threads :
          /\ call'[u].step = "await" /\ call'[v].step = "await"
          /\ call'[u].client = call'[v].client
          => u = v
    BY <2>1, <2>3, <2>4 DEF DialInv
  <2>9. \A d \in Clients \ {c} : Unanswered(d)' = Unanswered(d) /\ (Dialled(d)' => Dialled(d))
    BY <2>1, <2>3 DEF Unanswered, Dialled, Threads
  <2>10. CASE t = Mgr
    <3>1. call'[Mgr].step = "open" => ~Unanswered(c)'
      BY <2>1, <2>2, <2>3, <2>10 DEF Unanswered
    <3>2. call'[Mgr].client = c /\ call'[Mgr].step \in {"open", "await"}
      BY <2>3, <2>10
    <3> QED
      BY <2>5, <2>6, <2>7, <2>8, <3>1, <3>2 DEF DialInv, ConnectStep, CloseStep
  <2>11. CASE t # Mgr
    <3>1. call'[Mgr] = call[Mgr] /\ call[Mgr].client # c
      BY <2>1, <2>3, <2>11 DEF Threads
    <3>2. call[Mgr].step # "none" => call[Mgr].client \in Clients \ {c}
      BY <2>4, <3>1 DEF Threads
    <3>3. /\ call'[Mgr].step \in ConnectStep => ~Unanswered(call[Mgr].client)'
          /\ call'[Mgr].step = "publish" =>
               state'[call'[Mgr].client] \in {"CONNECTING", "WAITING_FOR_DNS"}
      BY <2>1, <2>4, <2>9, <3>1, <3>2 DEF DialInv, ConnectStep
    <3>4. /\ call'[Mgr].step \in CloseStep =>
               ~Dialled(call[Mgr].client)' /\ ~Unanswered(call[Mgr].client)'
          /\ call'[Mgr].step = "closeFd" => ~isOpen(call[Mgr].client)'
      BY <2>1, <2>4, <2>9, <3>1, <3>2 DEF DialInv, CloseStep, isOpen
    <3> QED
      BY <2>5, <2>6, <2>7, <2>8, <3>3, <3>4 DEF DialInv
  <2> QED
    BY <2>10, <2>11
<1>2. ClosedInv'
  BY DEF TypeOK, OwnInv, ClosedInv, ShapeInv, LiveInv, DialInv, AnswerInv, HeldInv,
     ControlInv, isOpen, ConnectStep, CloseStep, ExampleInv, Unanswered, Dialled,
     Awaited, Resolving, Held, ExampleUse
<1>3. AnswerInv'
  BY DEF TypeOK, OwnInv, AnswerInv, ShapeInv, LiveInv, DialInv, ClosedInv, HeldInv,
     ControlInv, isOpen, ConnectStep, CloseStep, ExampleInv, Unanswered, Dialled,
     Awaited, Resolving, Held, ExampleUse
<1>4. HeldInv'
  BY DEF TypeOK, OwnInv, HeldInv, ShapeInv, LiveInv, DialInv, ClosedInv, AnswerInv,
     ControlInv, isOpen, ConnectStep, CloseStep, ExampleInv, Unanswered, Dialled,
     Awaited, Resolving, Held, ExampleUse
<1> QED
  BY <1>1, <1>2, <1>3, <1>4 DEF ExampleInv

\* connect(host) returns; the client waits for the answer.
LEMMA ConnectAwaitOwn ==
  ASSUME TypeOK, OwnInv, NEW t \in Threads, ConnectAwait(t)
  PROVE  OwnInv'
<1> USE NoneFacts DEF ConnectAwait, NoCall, objectVars, managerVars, lwipVars
<1>1. ControlInv'
  BY DEF TypeOK, OwnInv, ControlInv, isOpen, ConnectStep, CloseStep
<1>2. ShapeInv'
  BY DEF TypeOK, OwnInv, ShapeInv, LiveInv, ControlInv, isOpen, ConnectStep, CloseStep
<1>3. AloneInv'
  BY DEF TypeOK, OwnInv, AloneInv, ShapeInv, LiveInv, ControlInv, isOpen, ConnectStep,
     CloseStep
<1>4. LiveInv'
  BY DEF TypeOK, OwnInv, LiveInv, ShapeInv, AloneInv, ControlInv, isOpen, ConnectStep,
     CloseStep
<1> QED
  BY <1>1, <1>2, <1>3, <1>4 DEF OwnInv

\* connect(host) returns; the client waits for the answer.
LEMMA ConnectAwaitExample ==
  ASSUME TypeOK, OwnInv, ExampleInv, NEW t \in Threads, ConnectAwait(t)
  PROVE  ExampleInv'
<1> USE NoneFacts DEF ConnectAwait, NoCall, objectVars, managerVars, lwipVars
<1>1. DialInv'
  BY DEF TypeOK, OwnInv, DialInv, ShapeInv, AloneInv, LiveInv, ClosedInv, AnswerInv,
     HeldInv, ControlInv, isOpen, ConnectStep, CloseStep, ExampleInv, Unanswered,
     Dialled, Awaited, Resolving, Held
<1>2. ClosedInv'
  BY DEF TypeOK, OwnInv, ClosedInv, ShapeInv, LiveInv, DialInv, AnswerInv, HeldInv,
     ControlInv, isOpen, ConnectStep, CloseStep, ExampleInv, Unanswered, Dialled,
     Awaited, Resolving, Held
<1>3. AnswerInv'
  BY DEF TypeOK, OwnInv, AnswerInv, ShapeInv, LiveInv, DialInv, ClosedInv, HeldInv,
     ControlInv, isOpen, ConnectStep, CloseStep, ExampleInv, Unanswered, Dialled,
     Awaited, Resolving, Held
<1>4. HeldInv'
  BY DEF TypeOK, OwnInv, HeldInv, ShapeInv, LiveInv, DialInv, ClosedInv, AnswerInv,
     ControlInv, isOpen, ConnectStep, CloseStep, ExampleInv, Unanswered, Dialled,
     Awaited, Resolving, Held
<1> QED
  BY <1>1, <1>2, <1>3, <1>4 DEF ExampleInv

\* The answer arrives.
LEMMA DnsFoundOwn ==
  ASSUME TypeOK, OwnInv, NEW c \in Clients, DnsFound(c)
  PROVE  OwnInv'
<1> USE NoneFacts DEF DnsFound, objectVars, managerVars, lwipVars
<1>1. ControlInv'
  BY DEF TypeOK, OwnInv, ControlInv, isOpen, ConnectStep, CloseStep
<1>2. ShapeInv'
  BY DEF TypeOK, OwnInv, ShapeInv, LiveInv, ControlInv, isOpen, ConnectStep, CloseStep
<1>3. AloneInv'
  BY DEF TypeOK, OwnInv, AloneInv, ShapeInv, LiveInv, ControlInv, isOpen, ConnectStep,
     CloseStep
<1>4. LiveInv'
  BY DEF TypeOK, OwnInv, LiveInv, ShapeInv, AloneInv, ControlInv, isOpen, ConnectStep,
     CloseStep
<1> QED
  BY <1>1, <1>2, <1>3, <1>4 DEF OwnInv

\* The answer arrives.
LEMMA DnsFoundExample ==
  ASSUME TypeOK, OwnInv, ExampleInv, NEW c \in Clients, DnsFound(c)
  PROVE  ExampleInv'
<1> USE NoneFacts DEF DnsFound, objectVars, managerVars, lwipVars
<1>1. DialInv'
  BY DEF TypeOK, OwnInv, DialInv, ShapeInv, AloneInv, LiveInv, ClosedInv, AnswerInv,
     HeldInv, ControlInv, isOpen, ConnectStep, CloseStep, ExampleInv, Unanswered,
     Dialled, Awaited, Resolving, Held
<1>2. ClosedInv'
  BY DEF TypeOK, OwnInv, ClosedInv, ShapeInv, LiveInv, DialInv, AnswerInv, HeldInv,
     ControlInv, isOpen, ConnectStep, CloseStep, ExampleInv, Unanswered, Dialled,
     Awaited, Resolving, Held
<1>3. AnswerInv'
  BY DEF TypeOK, OwnInv, AnswerInv, ShapeInv, LiveInv, DialInv, ClosedInv, HeldInv,
     ControlInv, isOpen, ConnectStep, CloseStep, ExampleInv, Unanswered, Dialled,
     Awaited, Resolving, Held
<1>4. HeldInv'
  BY DEF TypeOK, OwnInv, HeldInv, ShapeInv, LiveInv, DialInv, ClosedInv, AnswerInv,
     ControlInv, isOpen, ConnectStep, CloseStep, ExampleInv, Unanswered, Dialled,
     Awaited, Resolving, Held
<1> QED
  BY <1>1, <1>2, <1>3, <1>4 DEF ExampleInv

\* The answer is announced to the manager task.
LEMMA DnsFinishedOwn ==
  ASSUME TypeOK, OwnInv, DnsFinished
  PROVE  OwnInv'
<1> USE NoneFacts DEF DnsFinished, objectVars, managerVars, lwipVars
<1>1. ControlInv'
  BY DEF TypeOK, OwnInv, ControlInv, isOpen, ConnectStep, CloseStep
<1>2. ShapeInv'
  BY DEF TypeOK, OwnInv, ShapeInv, LiveInv, ControlInv, isOpen, ConnectStep, CloseStep
<1>3. AloneInv'
  BY DEF TypeOK, OwnInv, AloneInv, ShapeInv, LiveInv, ControlInv, isOpen, ConnectStep,
     CloseStep
<1>4. LiveInv'
  BY DEF TypeOK, OwnInv, LiveInv, ShapeInv, AloneInv, ControlInv, isOpen, ConnectStep,
     CloseStep
<1> QED
  BY <1>1, <1>2, <1>3, <1>4 DEF OwnInv

\* The answer is announced to the manager task.
LEMMA DnsFinishedExample ==
  ASSUME TypeOK, OwnInv, ExampleInv, DnsFinished
  PROVE  ExampleInv'
<1> USE NoneFacts DEF DnsFinished, objectVars, managerVars, lwipVars
<1>1. DialInv'
  BY DEF TypeOK, OwnInv, DialInv, ShapeInv, AloneInv, LiveInv, ClosedInv, AnswerInv,
     HeldInv, ControlInv, isOpen, ConnectStep, CloseStep, ExampleInv, Unanswered,
     Dialled, Awaited, Resolving, Held
<1>2. ClosedInv'
  BY DEF TypeOK, OwnInv, ClosedInv, ShapeInv, LiveInv, DialInv, AnswerInv, HeldInv,
     ControlInv, isOpen, ConnectStep, CloseStep, ExampleInv, Unanswered, Dialled,
     Awaited, Resolving, Held
<1>3. AnswerInv'
  BY DEF TypeOK, OwnInv, AnswerInv, ShapeInv, LiveInv, DialInv, ClosedInv, HeldInv,
     ControlInv, isOpen, ConnectStep, CloseStep, ExampleInv, Unanswered, Dialled,
     Awaited, Resolving, Held
<1>4. HeldInv'
  BY DEF TypeOK, OwnInv, HeldInv, ShapeInv, LiveInv, DialInv, ClosedInv, AnswerInv,
     ControlInv, isOpen, ConnectStep, CloseStep, ExampleInv, Unanswered, Dialled,
     Awaited, Resolving, Held
<1> QED
  BY <1>1, <1>2, <1>3, <1>4 DEF ExampleInv

\* close() is called in a callback.
LEMMA UserCloseOwn ==
  ASSUME Orderly, TypeOK, OwnInv, NEW t \in Threads, NEW c \in Clients, UserClose(t, c)
  PROVE  OwnInv'
<1> USE NoneFacts DEF UserClose, MayCall, AtCall, objectVars, managerVars, lwipVars
<1>1. ControlInv'
  BY DEF TypeOK, OwnInv, ControlInv, isOpen, ConnectStep, CloseStep, Orderly,
     ExampleInv, DialInv, ClosedInv, AnswerInv, HeldInv, ClosersInv, Held, Dialled,
     Unanswered, ExampleUse, CallbackUse
<1>2. ShapeInv'
  BY DEF TypeOK, OwnInv, ShapeInv, LiveInv, ControlInv, isOpen, ConnectStep, CloseStep,
     Orderly, ExampleInv, DialInv, ClosedInv, AnswerInv, HeldInv, ClosersInv, Held,
     Dialled, Unanswered, ExampleUse, CallbackUse
<1>3. AloneInv'
  BY DEF TypeOK, OwnInv, AloneInv, ShapeInv, LiveInv, ControlInv, isOpen, ConnectStep,
     CloseStep, Orderly, ExampleInv, DialInv, ClosedInv, AnswerInv, HeldInv, ClosersInv,
     Held, Dialled, Unanswered, ExampleUse, CallbackUse
<1>4. LiveInv'
  BY DEF TypeOK, OwnInv, LiveInv, ShapeInv, AloneInv, ControlInv, isOpen, ConnectStep,
     CloseStep, Orderly, ExampleInv, DialInv, ClosedInv, AnswerInv, HeldInv, ClosersInv,
     Held, Dialled, Unanswered, ExampleUse, CallbackUse
<1> QED
  BY <1>1, <1>2, <1>3, <1>4 DEF OwnInv

\* close() is called in a callback.
LEMMA UserCloseExample ==
  ASSUME ExampleUse, TypeOK, OwnInv, ExampleInv, NEW t \in Threads, NEW c \in Clients, UserClose(t, c)
  PROVE  ExampleInv'
<1> USE NoneFacts DEF UserClose, MayCall, AtCall, objectVars, managerVars, lwipVars
<1>1. DialInv'
  BY DEF TypeOK, OwnInv, DialInv, ShapeInv, AloneInv, LiveInv, ClosedInv, AnswerInv,
     HeldInv, ControlInv, isOpen, ConnectStep, CloseStep, ExampleInv, Unanswered,
     Dialled, Awaited, Resolving, Held, ExampleUse
<1>2. ClosedInv'
  BY DEF TypeOK, OwnInv, ClosedInv, ShapeInv, LiveInv, DialInv, AnswerInv, HeldInv,
     ControlInv, isOpen, ConnectStep, CloseStep, ExampleInv, Unanswered, Dialled,
     Awaited, Resolving, Held, ExampleUse
<1>3. AnswerInv'
  BY DEF TypeOK, OwnInv, AnswerInv, ShapeInv, LiveInv, DialInv, ClosedInv, HeldInv,
     ControlInv, isOpen, ConnectStep, CloseStep, ExampleInv, Unanswered, Dialled,
     Awaited, Resolving, Held, ExampleUse
<1>4. HeldInv'
  BY DEF TypeOK, OwnInv, HeldInv, ShapeInv, LiveInv, DialInv, ClosedInv, AnswerInv,
     ControlInv, isOpen, ConnectStep, CloseStep, ExampleInv, Unanswered, Dialled,
     Awaited, Resolving, Held, ExampleUse
<1> QED
  BY <1>1, <1>2, <1>3, <1>4 DEF ExampleInv

\* _close() stores the state before it takes the socket away.
LEMMA CloseStateOwn ==
  ASSUME TypeOK, OwnInv, NEW t \in Threads, CloseState(t)
  PROVE  OwnInv'
<1> USE NoneFacts DEF CloseState, objectVars, managerVars, lwipVars
<1>1. ControlInv'
  BY DEF TypeOK, OwnInv, ControlInv, isOpen, ConnectStep, CloseStep
<1>2. ShapeInv'
  BY DEF TypeOK, OwnInv, ShapeInv, LiveInv, ControlInv, isOpen, ConnectStep, CloseStep
<1>3. AloneInv'
  BY DEF TypeOK, OwnInv, AloneInv, ShapeInv, LiveInv, ControlInv, isOpen, ConnectStep,
     CloseStep
<1>4. LiveInv'
  BY DEF TypeOK, OwnInv, LiveInv, ShapeInv, AloneInv, ControlInv, isOpen, ConnectStep,
     CloseStep
<1> QED
  BY <1>1, <1>2, <1>3, <1>4 DEF OwnInv

\* _close() stores the state before it takes the socket away.
LEMMA CloseStateExample ==
  ASSUME TypeOK, OwnInv, ExampleInv, NEW t \in Threads, CloseState(t)
  PROVE  ExampleInv'
<1> USE NoneFacts DEF CloseState, objectVars, managerVars, lwipVars
<1>1. DialInv'
  BY DEF TypeOK, OwnInv, DialInv, ShapeInv, AloneInv, LiveInv, ClosedInv, AnswerInv,
     HeldInv, ControlInv, isOpen, ConnectStep, CloseStep, ExampleInv, Unanswered,
     Dialled, Awaited, Resolving, Held
<1>2. ClosedInv'
  BY DEF TypeOK, OwnInv, ClosedInv, ShapeInv, LiveInv, DialInv, AnswerInv, HeldInv,
     ControlInv, isOpen, ConnectStep, CloseStep, ExampleInv, Unanswered, Dialled,
     Awaited, Resolving, Held
<1>3. AnswerInv'
  BY DEF TypeOK, OwnInv, AnswerInv, ShapeInv, LiveInv, DialInv, ClosedInv, HeldInv,
     ControlInv, isOpen, ConnectStep, CloseStep, ExampleInv, Unanswered, Dialled,
     Awaited, Resolving, Held
<1>4. HeldInv'
  BY DEF TypeOK, OwnInv, HeldInv, ShapeInv, LiveInv, DialInv, ClosedInv, AnswerInv,
     ControlInv, isOpen, ConnectStep, CloseStep, ExampleInv, Unanswered, Dialled,
     Awaited, Resolving, Held
<1> QED
  BY <1>1, <1>2, <1>3, <1>4 DEF ExampleInv

\* The descriptor moves from _socket to _close().
LEMMA CloseExchangeOwn ==
  ASSUME TypeOK, OwnInv, NEW t \in Threads, CloseExchange(t)
  PROVE  OwnInv'
<1> USE NoneFacts DEF CloseExchange, objectVars, managerVars, lwipVars
<1>1. ControlInv'
  BY DEF TypeOK, OwnInv, ControlInv, isOpen, ConnectStep, CloseStep
<1>2. ShapeInv'
  BY DEF TypeOK, OwnInv, ShapeInv, LiveInv, ControlInv, isOpen, ConnectStep, CloseStep
<1>3. AloneInv'
  BY DEF TypeOK, OwnInv, AloneInv, ShapeInv, LiveInv, ControlInv, isOpen, ConnectStep,
     CloseStep
<1>4. LiveInv'
  BY DEF TypeOK, OwnInv, LiveInv, ShapeInv, AloneInv, ControlInv, isOpen, ConnectStep,
     CloseStep
<1> QED
  BY <1>1, <1>2, <1>3, <1>4 DEF OwnInv

\* The descriptor moves from _socket to _close().
LEMMA CloseExchangeExample ==
  ASSUME TypeOK, OwnInv, ExampleInv, NEW t \in Threads, CloseExchange(t)
  PROVE  ExampleInv'
<1> USE NoneFacts DEF CloseExchange, objectVars, managerVars, lwipVars
<1>1. DialInv'
  BY DEF TypeOK, OwnInv, DialInv, ShapeInv, AloneInv, LiveInv, ClosedInv, AnswerInv,
     HeldInv, ControlInv, isOpen, ConnectStep, CloseStep, ExampleInv, Unanswered,
     Dialled, Awaited, Resolving, Held
<1>2. ClosedInv'
  BY DEF TypeOK, OwnInv, ClosedInv, ShapeInv, LiveInv, DialInv, AnswerInv, HeldInv,
     ControlInv, isOpen, ConnectStep, CloseStep, ExampleInv, Unanswered, Dialled,
     Awaited, Resolving, Held
<1>3. AnswerInv'
  BY DEF TypeOK, OwnInv, AnswerInv, ShapeInv, LiveInv, DialInv, ClosedInv, HeldInv,
     ControlInv, isOpen, ConnectStep, CloseStep, ExampleInv, Unanswered, Dialled,
     Awaited, Resolving, Held
<1>4. HeldInv'
  BY DEF TypeOK, OwnInv, HeldInv, ShapeInv, LiveInv, DialInv, ClosedInv, AnswerInv,
     ControlInv, isOpen, ConnectStep, CloseStep, ExampleInv, Unanswered, Dialled,
     Awaited, Resolving, Held
<1> QED
  BY <1>1, <1>2, <1>3, <1>4 DEF ExampleInv

\* ::close() gives the descriptor back to lwIP.
LEMMA CloseFdOwn ==
  ASSUME TypeOK, OwnInv, NEW t \in Threads, CloseFd(t)
  PROVE  OwnInv'
<1> USE NoneFacts DEF CloseFd, NoCall, objectVars, managerVars, lwipVars
<1>1. ControlInv'
  BY DEF TypeOK, OwnInv, ControlInv, isOpen, ConnectStep, CloseStep
<1>2. ShapeInv'
  BY DEF TypeOK, OwnInv, ShapeInv, LiveInv, ControlInv, isOpen, ConnectStep, CloseStep
<1>3. AloneInv'
  BY DEF TypeOK, OwnInv, AloneInv, ShapeInv, LiveInv, ControlInv, isOpen, ConnectStep,
     CloseStep
<1>4. LiveInv'
  BY DEF TypeOK, OwnInv, LiveInv, ShapeInv, AloneInv, ControlInv, isOpen, ConnectStep,
     CloseStep
<1> QED
  BY <1>1, <1>2, <1>3, <1>4 DEF OwnInv

\* ::close() gives the descriptor back to lwIP.
LEMMA CloseFdExample ==
  ASSUME TypeOK, OwnInv, ExampleInv, NEW t \in Threads, CloseFd(t)
  PROVE  ExampleInv'
<1> USE NoneFacts DEF CloseFd, NoCall, objectVars, managerVars, lwipVars
<1>1. DialInv'
  BY DEF TypeOK, OwnInv, DialInv, ShapeInv, AloneInv, LiveInv, ClosedInv, AnswerInv,
     HeldInv, ControlInv, isOpen, ConnectStep, CloseStep, ExampleInv, Unanswered,
     Dialled, Awaited, Resolving, Held
<1>2. ClosedInv'
  BY DEF TypeOK, OwnInv, ClosedInv, ShapeInv, LiveInv, DialInv, AnswerInv, HeldInv,
     ControlInv, isOpen, ConnectStep, CloseStep, ExampleInv, Unanswered, Dialled,
     Awaited, Resolving, Held
<1>3. AnswerInv'
  BY DEF TypeOK, OwnInv, AnswerInv, ShapeInv, LiveInv, DialInv, ClosedInv, HeldInv,
     ControlInv, isOpen, ConnectStep, CloseStep, ExampleInv, Unanswered, Dialled,
     Awaited, Resolving, Held
<1>4. HeldInv'
  BY DEF TypeOK, OwnInv, HeldInv, ShapeInv, LiveInv, DialInv, ClosedInv, AnswerInv,
     ControlInv, isOpen, ConnectStep, CloseStep, ExampleInv, Unanswered, Dialled,
     Awaited, Resolving, Held
<1> QED
  BY <1>1, <1>2, <1>3, <1>4 DEF ExampleInv

\* An idle client is deleted in its DISCONNECT callback.
LEMMA UserDeleteOwn ==
  ASSUME Orderly, TypeOK, OwnInv, NEW t \in Threads, NEW c \in Clients, UserDelete(t, c)
  PROVE  OwnInv'
<1> USE NoneFacts DEF UserDelete, MayDelete, MayCall, Idle, AtCall, removeConnection,
    objectVars, managerVars, lwipVars
<1>1. ControlInv'
  BY DEF TypeOK, OwnInv, ControlInv, isOpen, ConnectStep, CloseStep, Orderly,
     ExampleInv, DialInv, ClosedInv, AnswerInv, HeldInv, ClosersInv, Held, Dialled,
     Unanswered, ExampleUse, CallbackUse
<1>2. ShapeInv'
  BY DEF TypeOK, OwnInv, ShapeInv, LiveInv, ControlInv, isOpen, ConnectStep, CloseStep,
     Orderly, ExampleInv, DialInv, ClosedInv, AnswerInv, HeldInv, ClosersInv, Held,
     Dialled, Unanswered, ExampleUse, CallbackUse
<1>3. AloneInv'
  BY DEF TypeOK, OwnInv, AloneInv, ShapeInv, LiveInv, ControlInv, isOpen, ConnectStep,
     CloseStep, Orderly, ExampleInv, DialInv, ClosedInv, AnswerInv, HeldInv, ClosersInv,
     Held, Dialled, Unanswered, ExampleUse, CallbackUse
<1>4. LiveInv'
  BY DEF TypeOK, OwnInv, LiveInv, ShapeInv, AloneInv, ControlInv, isOpen, ConnectStep,
     CloseStep, Orderly, ExampleInv, DialInv, ClosedInv, AnswerInv, HeldInv, ClosersInv,
     Held, Dialled, Unanswered, ExampleUse, CallbackUse
<1> QED
  BY <1>1, <1>2, <1>3, <1>4 DEF OwnInv

\* An idle client is deleted in its DISCONNECT callback.
LEMMA UserDeleteExample ==
  ASSUME ExampleUse, TypeOK, OwnInv, ExampleInv, NEW t \in Threads, NEW c \in Clients, UserDelete(t, c)
  PROVE  ExampleInv'
<1> USE NoneFacts DEF UserDelete, MayDelete, MayCall, Idle, AtCall, removeConnection,
    objectVars, managerVars, lwipVars
<1>1. DialInv'
  BY DEF TypeOK, OwnInv, DialInv, ShapeInv, AloneInv, LiveInv, ClosedInv, AnswerInv,
     HeldInv, ControlInv, isOpen, ConnectStep, CloseStep, ExampleInv, Unanswered,
     Dialled, Awaited, Resolving, Held, ExampleUse
<1>2. ClosedInv'
  BY DEF TypeOK, OwnInv, ClosedInv, ShapeInv, LiveInv, DialInv, AnswerInv, HeldInv,
     ControlInv, isOpen, ConnectStep, CloseStep, ExampleInv, Unanswered, Dialled,
     Awaited, Resolving, Held, ExampleUse
<1>3. AnswerInv'
  BY DEF TypeOK, OwnInv, AnswerInv, ShapeInv, LiveInv, DialInv, ClosedInv, HeldInv,
     ControlInv, isOpen, ConnectStep, CloseStep, ExampleInv, Unanswered, Dialled,
     Awaited, Resolving, Held, ExampleUse
<1>4. HeldInv'
  BY DEF TypeOK, OwnInv, HeldInv, ShapeInv, LiveInv, DialInv, ClosedInv, AnswerInv,
     ControlInv, isOpen, ConnectStep, CloseStep, ExampleInv, Unanswered, Dialled,
     Awaited, Resolving, Held, ExampleUse
<1> QED
  BY <1>1, <1>2, <1>3, <1>4 DEF ExampleInv

\* select() returns sets of descriptors.
LEMMA SelectOwn ==
  ASSUME TypeOK, OwnInv, Select
  PROVE  OwnInv'
<1> USE NoneFacts DEF Select, ManagerRuns, objectVars, managerVars, lwipVars
<1>1. ControlInv'
  BY DEF TypeOK, OwnInv, ControlInv, isOpen, ConnectStep, CloseStep
<1>2. ShapeInv'
  BY DEF TypeOK, OwnInv, ShapeInv, LiveInv, ControlInv, isOpen, ConnectStep, CloseStep
<1>3. AloneInv'
  BY DEF TypeOK, OwnInv, AloneInv, ShapeInv, LiveInv, ControlInv, isOpen, ConnectStep,
     CloseStep
<1>4. LiveInv'
  BY DEF TypeOK, OwnInv, LiveInv, ShapeInv, AloneInv, ControlInv, isOpen, ConnectStep,
     CloseStep
<1> QED
  BY <1>1, <1>2, <1>3, <1>4 DEF OwnInv

\* select() returns sets of descriptors.
LEMMA SelectExample ==
  ASSUME TypeOK, OwnInv, ExampleInv, Select
  PROVE  ExampleInv'
<1> USE NoneFacts DEF Select, ManagerRuns, objectVars, managerVars, lwipVars
<1>1. DialInv'
  BY DEF TypeOK, OwnInv, DialInv, ShapeInv, AloneInv, LiveInv, ClosedInv, AnswerInv,
     HeldInv, ControlInv, isOpen, ConnectStep, CloseStep, ExampleInv, Unanswered,
     Dialled, Awaited, Resolving, Held
<1>2. ClosedInv'
  BY DEF TypeOK, OwnInv, ClosedInv, ShapeInv, LiveInv, DialInv, AnswerInv, HeldInv,
     ControlInv, isOpen, ConnectStep, CloseStep, ExampleInv, Unanswered, Dialled,
     Awaited, Resolving, Held
<1>3. AnswerInv'
  BY DEF TypeOK, OwnInv, AnswerInv, ShapeInv, LiveInv, DialInv, ClosedInv, HeldInv,
     ControlInv, isOpen, ConnectStep, CloseStep, ExampleInv, Unanswered, Dialled,
     Awaited, Resolving, Held
<1>4. HeldInv'
  BY DEF TypeOK, OwnInv, HeldInv, ShapeInv, LiveInv, DialInv, ClosedInv, AnswerInv,
     ControlInv, isOpen, ConnectStep, CloseStep, ExampleInv, Unanswered, Dialled,
     Awaited, Resolving, Held
<1> QED
  BY <1>1, <1>2, <1>3, <1>4 DEF ExampleInv

\* select() fails.
LEMMA SelectFailsOwn ==
  ASSUME TypeOK, OwnInv, SelectFails
  PROVE  OwnInv'
<1> USE NoneFacts DEF SelectFails, ManagerRuns, objectVars, managerVars, lwipVars
<1>1. ControlInv'
  BY DEF TypeOK, OwnInv, ControlInv, isOpen, ConnectStep, CloseStep
<1>2. ShapeInv'
  BY DEF TypeOK, OwnInv, ShapeInv, LiveInv, ControlInv, isOpen, ConnectStep, CloseStep
<1>3. AloneInv'
  BY DEF TypeOK, OwnInv, AloneInv, ShapeInv, LiveInv, ControlInv, isOpen, ConnectStep,
     CloseStep
<1>4. LiveInv'
  BY DEF TypeOK, OwnInv, LiveInv, ShapeInv, AloneInv, ControlInv, isOpen, ConnectStep,
     CloseStep
<1> QED
  BY <1>1, <1>2, <1>3, <1>4 DEF OwnInv

\* select() fails.
LEMMA SelectFailsExample ==
  ASSUME TypeOK, OwnInv, ExampleInv, SelectFails
  PROVE  ExampleInv'
<1> USE NoneFacts DEF SelectFails, ManagerRuns, objectVars, managerVars, lwipVars
<1>1. DialInv'
  BY DEF TypeOK, OwnInv, DialInv, ShapeInv, AloneInv, LiveInv, ClosedInv, AnswerInv,
     HeldInv, ControlInv, isOpen, ConnectStep, CloseStep, ExampleInv, Unanswered,
     Dialled, Awaited, Resolving, Held
<1>2. ClosedInv'
  BY DEF TypeOK, OwnInv, ClosedInv, ShapeInv, LiveInv, DialInv, AnswerInv, HeldInv,
     ControlInv, isOpen, ConnectStep, CloseStep, ExampleInv, Unanswered, Dialled,
     Awaited, Resolving, Held
<1>3. AnswerInv'
  BY DEF TypeOK, OwnInv, AnswerInv, ShapeInv, LiveInv, DialInv, ClosedInv, HeldInv,
     ControlInv, isOpen, ConnectStep, CloseStep, ExampleInv, Unanswered, Dialled,
     Awaited, Resolving, Held
<1>4. HeldInv'
  BY DEF TypeOK, OwnInv, HeldInv, ShapeInv, LiveInv, DialInv, ClosedInv, AnswerInv,
     ControlInv, isOpen, ConnectStep, CloseStep, ExampleInv, Unanswered, Dialled,
     Awaited, Resolving, Held
<1> QED
  BY <1>1, <1>2, <1>3, <1>4 DEF ExampleInv

\* The next phase begins with the clients it concerns.
LEMMA CollectOwn ==
  ASSUME TypeOK, OwnInv, Collect
  PROVE  OwnInv'
<1> USE NoneFacts DEF ManagerRuns, objectVars, managerVars, lwipVars
<1>1. ControlInv'
  BY CollectBlocks DEF TypeOK, OwnInv, ControlInv, isOpen, ConnectStep, CloseStep
<1>2. ShapeInv'
  BY CollectBlocks DEF TypeOK, OwnInv, ShapeInv, LiveInv, ControlInv, isOpen,
     ConnectStep, CloseStep
<1>3. AloneInv'
  BY CollectBlocks DEF TypeOK, OwnInv, AloneInv, ShapeInv, LiveInv, ControlInv, isOpen,
     ConnectStep, CloseStep
<1>4. LiveInv'
  BY CollectBlocks DEF TypeOK, OwnInv, LiveInv, ShapeInv, AloneInv, ControlInv, isOpen,
     ConnectStep, CloseStep
<1> QED
  BY <1>1, <1>2, <1>3, <1>4 DEF OwnInv

\* The next phase begins with the clients it concerns.
LEMMA CollectExample ==
  ASSUME TypeOK, OwnInv, ExampleInv, Collect
  PROVE  ExampleInv'
<1> USE NoneFacts DEF ManagerRuns, objectVars, managerVars, lwipVars
<1>1. DialInv'
  BY CollectBlocks DEF TypeOK, OwnInv, DialInv, ShapeInv, AloneInv, LiveInv, ClosedInv,
     AnswerInv, HeldInv, ControlInv, isOpen, ConnectStep, CloseStep, ExampleInv,
     Unanswered, Dialled, Awaited, Resolving, Held
<1>2. ClosedInv'
  BY CollectBlocks DEF TypeOK, OwnInv, ClosedInv, ShapeInv, LiveInv, DialInv, AnswerInv,
     HeldInv, ControlInv, isOpen, ConnectStep, CloseStep, ExampleInv, Unanswered,
     Dialled, Awaited, Resolving, Held
<1>3. AnswerInv'
  BY CollectBlocks DEF TypeOK, OwnInv, AnswerInv, ShapeInv, LiveInv, DialInv, ClosedInv,
     HeldInv, ControlInv, isOpen, ConnectStep, CloseStep, ExampleInv, Unanswered,
     Dialled, Awaited, Resolving, Held
<1>4. HeldInv'
  BY CollectBlocks DEF TypeOK, OwnInv, HeldInv, ShapeInv, LiveInv, DialInv, ClosedInv,
     AnswerInv, ControlInv, isOpen, ConnectStep, CloseStep, ExampleInv, Unanswered,
     Dialled, Awaited, Resolving, Held
<1> QED
  BY <1>1, <1>2, <1>3, <1>4 DEF ExampleInv

\* The next client is handled.
LEMMA DispatchOwn ==
  ASSUME TypeOK, OwnInv, Dispatch
  PROVE  OwnInv'
<1> USE NoneFacts DEF Dispatch, ManagerRuns, objectVars, managerVars, lwipVars
<1>1. ControlInv'
  BY DEF TypeOK, OwnInv, ControlInv, isOpen, ConnectStep, CloseStep, Phases
<1>2. ShapeInv'
  BY DEF TypeOK, OwnInv, ShapeInv, LiveInv, ControlInv, isOpen, ConnectStep, CloseStep,
     Phases
<1>3. AloneInv'
  BY DEF TypeOK, OwnInv, AloneInv, ShapeInv, LiveInv, ControlInv, isOpen, ConnectStep,
     CloseStep, Phases
<1>4. LiveInv'
  BY DEF TypeOK, OwnInv, LiveInv, ShapeInv, AloneInv, ControlInv, isOpen, ConnectStep,
     CloseStep, Phases
<1> QED
  BY <1>1, <1>2, <1>3, <1>4 DEF OwnInv

\* The next client is handled.
LEMMA DispatchExample ==
  ASSUME TypeOK, OwnInv, ExampleInv, Dispatch
  PROVE  ExampleInv'
<1> USE NoneFacts DEF Dispatch, ManagerRuns, objectVars, managerVars, lwipVars
<1>1. DialInv'
  BY DEF TypeOK, OwnInv, DialInv, ShapeInv, AloneInv, LiveInv, ClosedInv, AnswerInv,
     HeldInv, ControlInv, isOpen, ConnectStep, CloseStep, ExampleInv, Unanswered,
     Dialled, Awaited, Resolving, Held, Phases
<1>2. ClosedInv'
  BY DEF TypeOK, OwnInv, ClosedInv, ShapeInv, LiveInv, DialInv, AnswerInv, HeldInv,
     ControlInv, isOpen, ConnectStep, CloseStep, ExampleInv, Unanswered, Dialled,
     Awaited, Resolving, Held, Phases
<1>3. AnswerInv'
  BY DEF TypeOK, OwnInv, AnswerInv, ShapeInv, LiveInv, DialInv, ClosedInv, HeldInv,
     ControlInv, isOpen, ConnectStep, CloseStep, ExampleInv, Unanswered, Dialled,
     Awaited, Resolving, Held, Phases
<1>4. HeldInv'
  BY DEF TypeOK, OwnInv, HeldInv, ShapeInv, LiveInv, DialInv, ClosedInv, AnswerInv,
     ControlInv, isOpen, ConnectStep, CloseStep, ExampleInv, Unanswered, Dialled,
     Awaited, Resolving, Held, Phases
<1> QED
  BY <1>1, <1>2, <1>3, <1>4 DEF ExampleInv

\* The state test and getsockopt().
LEMMA SockIsWriteableOwn ==
  ASSUME TypeOK, OwnInv, SockIsWriteable
  PROVE  OwnInv'
<1> USE NoneFacts DEF SockIsWriteable, Handling, ManagerRuns, Finish, Goto, Enter,
    Invoke, AtCall, loopVars, objectVars, managerVars, lwipVars
<1>1. ControlInv'
  BY DEF TypeOK, OwnInv, ControlInv, isOpen, ConnectStep, CloseStep
<1>2. ShapeInv'
  BY DEF TypeOK, OwnInv, ShapeInv, LiveInv, ControlInv, isOpen, ConnectStep, CloseStep
<1>3. AloneInv'
  BY DEF TypeOK, OwnInv, AloneInv, ShapeInv, LiveInv, ControlInv, isOpen, ConnectStep,
     CloseStep
<1>4. LiveInv'
  BY DEF TypeOK, OwnInv, LiveInv, ShapeInv, AloneInv, ControlInv, isOpen, ConnectStep,
     CloseStep
<1> QED
  BY <1>1, <1>2, <1>3, <1>4 DEF OwnInv

\* The state test and getsockopt().
LEMMA SockIsWriteableExample ==
  ASSUME TypeOK, OwnInv, ExampleInv, SockIsWriteable
  PROVE  ExampleInv'
<1> USE NoneFacts DEF SockIsWriteable, Handling, ManagerRuns, Finish, Goto, Enter,
    Invoke, AtCall, loopVars, objectVars, managerVars, lwipVars
<1>1. DialInv'
  BY DEF TypeOK, OwnInv, DialInv, ShapeInv, AloneInv, LiveInv, ClosedInv, AnswerInv,
     HeldInv, ControlInv, isOpen, ConnectStep, CloseStep, ExampleInv, Unanswered,
     Dialled, Awaited, Resolving, Held
<1>2. ClosedInv'
  BY DEF TypeOK, OwnInv, ClosedInv, ShapeInv, LiveInv, DialInv, AnswerInv, HeldInv,
     ControlInv, isOpen, ConnectStep, CloseStep, ExampleInv, Unanswered, Dialled,
     Awaited, Resolving, Held, SocketError, Status
<1>3. AnswerInv'
  BY DEF TypeOK, OwnInv, AnswerInv, ShapeInv, LiveInv, DialInv, ClosedInv, HeldInv,
     ControlInv, isOpen, ConnectStep, CloseStep, ExampleInv, Unanswered, Dialled,
     Awaited, Resolving, Held
<1>4. HeldInv'
  BY DEF TypeOK, OwnInv, HeldInv, ShapeInv, LiveInv, DialInv, ClosedInv, AnswerInv,
     ControlInv, isOpen, ConnectStep, CloseStep, ExampleInv, Unanswered, Dialled,
     Awaited, Resolving, Held, SocketError, Status
<1> QED
  BY <1>1, <1>2, <1>3, <1>4 DEF ExampleInv

\* A client becomes CONNECTED.
LEMMA SockConnectedOwn ==
  ASSUME TypeOK, OwnInv, SockConnected
  PROVE  OwnInv'
<1> USE NoneFacts DEF SockConnected, Handling, ManagerRuns, Finish, Goto, Enter, Invoke,
    AtCall, loopVars, objectVars, managerVars, lwipVars
<1>1. ControlInv'
  BY DEF TypeOK, OwnInv, ControlInv, isOpen, ConnectStep, CloseStep
<1>2. ShapeInv'
  BY DEF TypeOK, OwnInv, ShapeInv, LiveInv, ControlInv, isOpen, ConnectStep, CloseStep
<1>3. AloneInv'
  BY DEF TypeOK, OwnInv, AloneInv, ShapeInv, LiveInv, ControlInv, isOpen, ConnectStep,
     CloseStep
<1>4. LiveInv'
  BY DEF TypeOK, OwnInv, LiveInv, ShapeInv, AloneInv, ControlInv, isOpen, ConnectStep,
     CloseStep
<1> QED
  BY <1>1, <1>2, <1>3, <1>4 DEF OwnInv

\* A client becomes CONNECTED.
LEMMA SockConnectedExample ==
  ASSUME TypeOK, OwnInv, ExampleInv, SockConnected
  PROVE  ExampleInv'
<1> USE NoneFacts DEF SockConnected, Handling, ManagerRuns, Finish, Goto, Enter, Invoke,
    AtCall, loopVars, objectVars, managerVars, lwipVars
<1>1. DialInv'
  BY DEF TypeOK, OwnInv, DialInv, ShapeInv, AloneInv, LiveInv, ClosedInv, AnswerInv,
     HeldInv, ControlInv, isOpen, ConnectStep, CloseStep, ExampleInv, Unanswered,
     Dialled, Awaited, Resolving, Held
<1>2. ClosedInv'
  BY DEF TypeOK, OwnInv, ClosedInv, ShapeInv, LiveInv, DialInv, AnswerInv, HeldInv,
     ControlInv, isOpen, ConnectStep, CloseStep, ExampleInv, Unanswered, Dialled,
     Awaited, Resolving, Held
<1>3. AnswerInv'
  BY DEF TypeOK, OwnInv, AnswerInv, ShapeInv, LiveInv, DialInv, ClosedInv, HeldInv,
     ControlInv, isOpen, ConnectStep, CloseStep, ExampleInv, Unanswered, Dialled,
     Awaited, Resolving, Held
<1>4. HeldInv'
  BY DEF TypeOK, OwnInv, HeldInv, ShapeInv, LiveInv, DialInv, ClosedInv, AnswerInv,
     ControlInv, isOpen, ConnectStep, CloseStep, ExampleInv, Unanswered, Dialled,
     Awaited, Resolving, Held
<1> QED
  BY <1>1, <1>2, <1>3, <1>4 DEF ExampleInv

\* The write queue is processed.
LEMMA SockDrainOwn ==
  ASSUME TypeOK, OwnInv, SockDrain
  PROVE  OwnInv'
<1> USE NoneFacts DEF SockDrain, Handling, ManagerRuns, Finish, Goto, Enter, Invoke,
    AtCall, loopVars, objectVars, managerVars, lwipVars
<1>1. ControlInv'
  BY DEF TypeOK, OwnInv, ControlInv, isOpen, ConnectStep, CloseStep
<1>2. ShapeInv'
  BY DEF TypeOK, OwnInv, ShapeInv, LiveInv, ControlInv, isOpen, ConnectStep, CloseStep
<1>3. AloneInv'
  BY DEF TypeOK, OwnInv, AloneInv, ShapeInv, LiveInv, ControlInv, isOpen, ConnectStep,
     CloseStep
<1>4. LiveInv'
  BY DEF TypeOK, OwnInv, LiveInv, ShapeInv, AloneInv, ControlInv, isOpen, ConnectStep,
     CloseStep
<1> QED
  BY <1>1, <1>2, <1>3, <1>4 DEF OwnInv

\* The write queue is processed.
LEMMA SockDrainExample ==
  ASSUME TypeOK, OwnInv, ExampleInv, SockDrain
  PROVE  ExampleInv'
<1> USE NoneFacts DEF SockDrain, Handling, ManagerRuns, Finish, Goto, Enter, Invoke,
    AtCall, loopVars, objectVars, managerVars, lwipVars
<1>1. DialInv'
  BY DEF TypeOK, OwnInv, DialInv, ShapeInv, AloneInv, LiveInv, ClosedInv, AnswerInv,
     HeldInv, ControlInv, isOpen, ConnectStep, CloseStep, ExampleInv, Unanswered,
     Dialled, Awaited, Resolving, Held
<1>2. ClosedInv'
  BY DEF TypeOK, OwnInv, ClosedInv, ShapeInv, LiveInv, DialInv, AnswerInv, HeldInv,
     ControlInv, isOpen, ConnectStep, CloseStep, ExampleInv, Unanswered, Dialled,
     Awaited, Resolving, Held
<1>3. AnswerInv'
  BY DEF TypeOK, OwnInv, AnswerInv, ShapeInv, LiveInv, DialInv, ClosedInv, HeldInv,
     ControlInv, isOpen, ConnectStep, CloseStep, ExampleInv, Unanswered, Dialled,
     Awaited, Resolving, Held
<1>4. HeldInv'
  BY DEF TypeOK, OwnInv, HeldInv, ShapeInv, LiveInv, DialInv, ClosedInv, AnswerInv,
     ControlInv, isOpen, ConnectStep, CloseStep, ExampleInv, Unanswered, Dialled,
     Awaited, Resolving, Held
<1> QED
  BY <1>1, <1>2, <1>3, <1>4 DEF ExampleInv

\* SENT is run.
LEMMA NotifySentOwn ==
  ASSUME TypeOK, OwnInv, NotifySent
  PROVE  OwnInv'
<1> USE NoneFacts DEF NotifySent, Handling, ManagerRuns, Finish, Goto, Enter, Invoke,
    AtCall, loopVars, objectVars, managerVars, lwipVars
<1>1. ControlInv'
  BY DEF TypeOK, OwnInv, ControlInv, isOpen, ConnectStep, CloseStep
<1>2. ShapeInv'
  BY DEF TypeOK, OwnInv, ShapeInv, LiveInv, ControlInv, isOpen, ConnectStep, CloseStep
<1>3. AloneInv'
  BY DEF TypeOK, OwnInv, AloneInv, ShapeInv, LiveInv, ControlInv, isOpen, ConnectStep,
     CloseStep
<1>4. LiveInv'
  BY DEF TypeOK, OwnInv, LiveInv, ShapeInv, AloneInv, ControlInv, isOpen, ConnectStep,
     CloseStep
<1> QED
  BY <1>1, <1>2, <1>3, <1>4 DEF OwnInv

\* SENT is run.
LEMMA NotifySentExample ==
  ASSUME TypeOK, OwnInv, ExampleInv, NotifySent
  PROVE  ExampleInv'
<1> USE NoneFacts DEF NotifySent, Handling, ManagerRuns, Finish, Goto, Enter, Invoke,
    AtCall, loopVars, objectVars, managerVars, lwipVars
<1>1. DialInv'
  BY DEF TypeOK, OwnInv, DialInv, ShapeInv, AloneInv, LiveInv, ClosedInv, AnswerInv,
     HeldInv, ControlInv, isOpen, ConnectStep, CloseStep, ExampleInv, Unanswered,
     Dialled, Awaited, Resolving, Held
<1>2. ClosedInv'
  BY DEF TypeOK, OwnInv, ClosedInv, ShapeInv, LiveInv, DialInv, AnswerInv, HeldInv,
     ControlInv, isOpen, ConnectStep, CloseStep, ExampleInv, Unanswered, Dialled,
     Awaited, Resolving, Held
<1>3. AnswerInv'
  BY DEF TypeOK, OwnInv, AnswerInv, ShapeInv, LiveInv, DialInv, ClosedInv, HeldInv,
     ControlInv, isOpen, ConnectStep, CloseStep, ExampleInv, Unanswered, Dialled,
     Awaited, Resolving, Held
<1>4. HeldInv'
  BY DEF TypeOK, OwnInv, HeldInv, ShapeInv, LiveInv, DialInv, ClosedInv, AnswerInv,
     ControlInv, isOpen, ConnectStep, CloseStep, ExampleInv, Unanswered, Dialled,
     Awaited, Resolving, Held
<1> QED
  BY <1>1, <1>2, <1>3, <1>4 DEF ExampleInv

\* All buffers are reported.
LEMMA NotifyEndOwn ==
  ASSUME TypeOK, OwnInv, NotifyEnd
  PROVE  OwnInv'
<1> USE NoneFacts DEF NotifyEnd, Handling, ManagerRuns, Finish, Goto, Enter, Invoke,
    AtCall, loopVars, objectVars, managerVars, lwipVars
<1>1. ControlInv'
  BY DEF TypeOK, OwnInv, ControlInv, isOpen, ConnectStep, CloseStep
<1>2. ShapeInv'
  BY DEF TypeOK, OwnInv, ShapeInv, LiveInv, ControlInv, isOpen, ConnectStep, CloseStep
<1>3. AloneInv'
  BY DEF TypeOK, OwnInv, AloneInv, ShapeInv, LiveInv, ControlInv, isOpen, ConnectStep,
     CloseStep
<1>4. LiveInv'
  BY DEF TypeOK, OwnInv, LiveInv, ShapeInv, AloneInv, ControlInv, isOpen, ConnectStep,
     CloseStep
<1> QED
  BY <1>1, <1>2, <1>3, <1>4 DEF OwnInv

\* All buffers are reported.
LEMMA NotifyEndExample ==
  ASSUME TypeOK, OwnInv, ExampleInv, NotifyEnd
  PROVE  ExampleInv'
<1> USE NoneFacts DEF NotifyEnd, Handling, ManagerRuns, Finish, Goto, Enter, Invoke,
    AtCall, loopVars, objectVars, managerVars, lwipVars
<1>1. DialInv'
  BY DEF TypeOK, OwnInv, DialInv, ShapeInv, AloneInv, LiveInv, ClosedInv, AnswerInv,
     HeldInv, ControlInv, isOpen, ConnectStep, CloseStep, ExampleInv, Unanswered,
     Dialled, Awaited, Resolving, Held
<1>2. ClosedInv'
  BY DEF TypeOK, OwnInv, ClosedInv, ShapeInv, LiveInv, DialInv, AnswerInv, HeldInv,
     ControlInv, isOpen, ConnectStep, CloseStep, ExampleInv, Unanswered, Dialled,
     Awaited, Resolving, Held
<1>3. AnswerInv'
  BY DEF TypeOK, OwnInv, AnswerInv, ShapeInv, LiveInv, DialInv, ClosedInv, HeldInv,
     ControlInv, isOpen, ConnectStep, CloseStep, ExampleInv, Unanswered, Dialled,
     Awaited, Resolving, Held
<1>4. HeldInv'
  BY DEF TypeOK, OwnInv, HeldInv, ShapeInv, LiveInv, DialInv, ClosedInv, AnswerInv,
     ControlInv, isOpen, ConnectStep, CloseStep, ExampleInv, Unanswered, Dialled,
     Awaited, Resolving, Held
<1> QED
  BY <1>1, <1>2, <1>3, <1>4 DEF ExampleInv

\* Data, the end of the stream, or an error.
LEMMA SockIsReadableOwn ==
  ASSUME TypeOK, OwnInv, SockIsReadable
  PROVE  OwnInv'
<1> USE NoneFacts DEF SockIsReadable, Handling, ManagerRuns, Finish, Goto, Enter,
    Invoke, AtCall, loopVars, objectVars, managerVars, lwipVars
<1>1. ControlInv'
  BY DEF TypeOK, OwnInv, ControlInv, isOpen, ConnectStep, CloseStep
<1>2. ShapeInv'
  BY DEF TypeOK, OwnInv, ShapeInv, LiveInv, ControlInv, isOpen, ConnectStep, CloseStep
<1>3. AloneInv'
  BY DEF TypeOK, OwnInv, AloneInv, ShapeInv, LiveInv, ControlInv, isOpen, ConnectStep,
     CloseStep
<1>4. LiveInv'
  BY DEF TypeOK, OwnInv, LiveInv, ShapeInv, AloneInv, ControlInv, isOpen, ConnectStep,
     CloseStep
<1> QED
  BY <1>1, <1>2, <1>3, <1>4 DEF OwnInv

\* Data, the end of the stream, or an error.
LEMMA SockIsReadableExample ==
  ASSUME TypeOK, OwnInv, ExampleInv, SockIsReadable
  PROVE  ExampleInv'
<1> USE NoneFacts DEF SockIsReadable, Handling, ManagerRuns, Finish, Goto, Enter,
    Invoke, AtCall, loopVars, objectVars, managerVars, lwipVars
<1>1. DialInv'
  BY DEF TypeOK, OwnInv, DialInv, ShapeInv, AloneInv, LiveInv, ClosedInv, AnswerInv,
     HeldInv, ControlInv, isOpen, ConnectStep, CloseStep, ExampleInv, Unanswered,
     Dialled, Awaited, Resolving, Held
<1>2. ClosedInv'
  BY DEF TypeOK, OwnInv, ClosedInv, ShapeInv, LiveInv, DialInv, AnswerInv, HeldInv,
     ControlInv, isOpen, ConnectStep, CloseStep, ExampleInv, Unanswered, Dialled,
     Awaited, Resolving, Held
<1>3. AnswerInv'
  BY DEF TypeOK, OwnInv, AnswerInv, ShapeInv, LiveInv, DialInv, ClosedInv, HeldInv,
     ControlInv, isOpen, ConnectStep, CloseStep, ExampleInv, Unanswered, Dialled,
     Awaited, Resolving, Held
<1>4. HeldInv'
  BY DEF TypeOK, OwnInv, HeldInv, ShapeInv, LiveInv, DialInv, ClosedInv, AnswerInv,
     ControlInv, isOpen, ConnectStep, CloseStep, ExampleInv, Unanswered, Dialled,
     Awaited, Resolving, Held
<1> QED
  BY <1>1, <1>2, <1>3, <1>4 DEF ExampleInv

\* The answer is taken.
LEMMA DnsResetOwn ==
  ASSUME TypeOK, OwnInv, DnsReset
  PROVE  OwnInv'
<1> USE NoneFacts DEF DnsReset, Handling, ManagerRuns, Finish, Goto, Enter, Invoke,
    AtCall, loopVars, objectVars, managerVars, lwipVars
<1>1. ControlInv'
  BY DEF TypeOK, OwnInv, ControlInv, isOpen, ConnectStep, CloseStep
<1>2. ShapeInv'
  BY DEF TypeOK, OwnInv, ShapeInv, LiveInv, ControlInv, isOpen, ConnectStep, CloseStep
<1>3. AloneInv'
  BY DEF TypeOK, OwnInv, AloneInv, ShapeInv, LiveInv, ControlInv, isOpen, ConnectStep,
     CloseStep
<1>4. LiveInv'
  BY DEF TypeOK, OwnInv, LiveInv, ShapeInv, AloneInv, ControlInv, isOpen, ConnectStep,
     CloseStep
<1> QED
  BY <1>1, <1>2, <1>3, <1>4 DEF OwnInv

\* The answer is taken.
LEMMA DnsResetExample ==
  ASSUME TypeOK, OwnInv, ExampleInv, DnsReset
  PROVE  ExampleInv'
<1> USE NoneFacts DEF DnsReset, Handling, ManagerRuns, Finish, Goto, Enter, Invoke,
    AtCall, loopVars, objectVars, managerVars, lwipVars
<1>1. DialInv'
  BY DEF TypeOK, OwnInv, DialInv, ShapeInv, AloneInv, LiveInv, ClosedInv, AnswerInv,
     HeldInv, ControlInv, isOpen, ConnectStep, CloseStep, ExampleInv, Unanswered,
     Dialled, Awaited, Resolving, Held
<1>2. ClosedInv'
  BY DEF TypeOK, OwnInv, ClosedInv, ShapeInv, LiveInv, DialInv, AnswerInv, HeldInv,
     ControlInv, isOpen, ConnectStep, CloseStep, ExampleInv, Unanswered, Dialled,
     Awaited, Resolving, Held
<1>3. AnswerInv'
  BY DEF TypeOK, OwnInv, AnswerInv, ShapeInv, LiveInv, DialInv, ClosedInv, HeldInv,
     ControlInv, isOpen, ConnectStep, CloseStep, ExampleInv, Unanswered, Dialled,
     Awaited, Resolving, Held
<1>4. HeldInv'
  BY DEF TypeOK, OwnInv, HeldInv, ShapeInv, LiveInv, DialInv, ClosedInv, AnswerInv,
     ControlInv, isOpen, ConnectStep, CloseStep, ExampleInv, Unanswered, Dialled,
     Awaited, Resolving, Held
<1> QED
  BY <1>1, <1>2, <1>3, <1>4 DEF ExampleInv

\* The delayed connect() starts, or ERROR is run.
LEMMA SockDelayedConnectOwn ==
  ASSUME Orderly, TypeOK, OwnInv, SockDelayedConnect
  PROVE  OwnInv'
<1> USE NoneFacts DEF SockDelayedConnect, Handling, ManagerRuns, Finish, Goto, Enter,
    Invoke, AtCall, loopVars, objectVars, managerVars, lwipVars
<1>1. ControlInv'
  BY DEF TypeOK, OwnInv, ControlInv, isOpen, ConnectStep, CloseStep, Orderly,
     ExampleInv, DialInv, ClosedInv, AnswerInv, HeldInv, ClosersInv, Held, Dialled,
     Unanswered, ExampleUse, CallbackUse
<1>2. ShapeInv'
  BY DEF TypeOK, OwnInv, ShapeInv, LiveInv, ControlInv, isOpen, ConnectStep, CloseStep,
     Orderly, ExampleInv, DialInv, ClosedInv, AnswerInv, HeldInv, ClosersInv, Held,
     Dialled, Unanswered, ExampleUse, CallbackUse
<1>3. AloneInv'
  BY DEF TypeOK, OwnInv, AloneInv, ShapeInv, LiveInv, ControlInv, isOpen, ConnectStep,
     CloseStep, Orderly, ExampleInv, DialInv, ClosedInv, AnswerInv, HeldInv, ClosersInv,
     Held, Dialled, Unanswered, ExampleUse, CallbackUse
<1>4. LiveInv'
  BY DEF TypeOK, OwnInv, LiveInv, ShapeInv, AloneInv, ControlInv, isOpen, ConnectStep,
     CloseStep, Orderly, ExampleInv, DialInv, ClosedInv, AnswerInv, HeldInv, ClosersInv,
     Held, Dialled, Unanswered, ExampleUse, CallbackUse
<1> QED
  BY <1>1, <1>2, <1>3, <1>4 DEF OwnInv

\* The delayed connect() starts, or ERROR is run.
LEMMA SockDelayedConnectExample ==
  ASSUME ExampleUse, TypeOK, OwnInv, ExampleInv, SockDelayedConnect
  PROVE  ExampleInv'
<1> USE NoneFacts DEF SockDelayedConnect, Handling, ManagerRuns, Finish, Goto, Enter,
    Invoke, AtCall, loopVars, objectVars, managerVars, lwipVars
<1>1. DialInv'
  BY DEF TypeOK, OwnInv, DialInv, ShapeInv, AloneInv, LiveInv, ClosedInv, AnswerInv,
     HeldInv, ControlInv, isOpen, ConnectStep, CloseStep, ExampleInv, Unanswered,
     Dialled, Awaited, Resolving, Held, ExampleUse
<1>2. ClosedInv'
  BY DEF TypeOK, OwnInv, ClosedInv, ShapeInv, LiveInv, DialInv, AnswerInv, HeldInv,
     ControlInv, isOpen, ConnectStep, CloseStep, ExampleInv, Unanswered, Dialled,
     Awaited, Resolving, Held, ExampleUse
<1>3. AnswerInv'
  BY DEF TypeOK, OwnInv, AnswerInv, ShapeInv, LiveInv, DialInv, ClosedInv, HeldInv,
     ControlInv, isOpen, ConnectStep, CloseStep, ExampleInv, Unanswered, Dialled,
     Awaited, Resolving, Held, ExampleUse
<1>4. HeldInv'
  BY DEF TypeOK, OwnInv, HeldInv, ShapeInv, LiveInv, DialInv, ClosedInv, AnswerInv,
     ControlInv, isOpen, ConnectStep, CloseStep, ExampleInv, Unanswered, Dialled,
     Awaited, Resolving, Held, ExampleUse
<1> QED
  BY <1>1, <1>2, <1>3, <1>4 DEF ExampleInv

\* _sockPoll() cleans the write queue up.
LEMMA SockPollOwn ==
  ASSUME TypeOK, OwnInv, SockPoll
  PROVE  OwnInv'
<1> USE NoneFacts DEF SockPoll, Handling, ManagerRuns, Finish, Goto, Enter, Invoke,
    AtCall, loopVars, objectVars, managerVars, lwipVars
<1>1. ControlInv'
  BY DEF TypeOK, OwnInv, ControlInv, isOpen, ConnectStep, CloseStep
<1>2. ShapeInv'
  BY DEF TypeOK, OwnInv, ShapeInv, LiveInv, ControlInv, isOpen, ConnectStep, CloseStep
<1>3. AloneInv'
  BY DEF TypeOK, OwnInv, AloneInv, ShapeInv, LiveInv, ControlInv, isOpen, ConnectStep,
     CloseStep
<1>4. LiveInv'
  BY DEF TypeOK, OwnInv, LiveInv, ShapeInv, AloneInv, ControlInv, isOpen, ConnectStep,
     CloseStep
<1> QED
  BY <1>1, <1>2, <1>3, <1>4 DEF OwnInv

\* _sockPoll() cleans the write queue up.
LEMMA SockPollExample ==
  ASSUME TypeOK, OwnInv, ExampleInv, SockPoll
  PROVE  ExampleInv'
<1> USE NoneFacts DEF SockPoll, Handling, ManagerRuns, Finish, Goto, Enter, Invoke,
    AtCall, loopVars, objectVars, managerVars, lwipVars
<1>1. DialInv'
  BY DEF TypeOK, OwnInv, DialInv, ShapeInv, AloneInv, LiveInv, ClosedInv, AnswerInv,
     HeldInv, ControlInv, isOpen, ConnectStep, CloseStep, ExampleInv, Unanswered,
     Dialled, Awaited, Resolving, Held
<1>2. ClosedInv'
  BY DEF TypeOK, OwnInv, ClosedInv, ShapeInv, LiveInv, DialInv, AnswerInv, HeldInv,
     ControlInv, isOpen, ConnectStep, CloseStep, ExampleInv, Unanswered, Dialled,
     Awaited, Resolving, Held
<1>3. AnswerInv'
  BY DEF TypeOK, OwnInv, AnswerInv, ShapeInv, LiveInv, DialInv, ClosedInv, HeldInv,
     ControlInv, isOpen, ConnectStep, CloseStep, ExampleInv, Unanswered, Dialled,
     Awaited, Resolving, Held
<1>4. HeldInv'
  BY DEF TypeOK, OwnInv, HeldInv, ShapeInv, LiveInv, DialInv, ClosedInv, AnswerInv,
     ControlInv, isOpen, ConnectStep, CloseStep, ExampleInv, Unanswered, Dialled,
     Awaited, Resolving, Held
<1> QED
  BY <1>1, <1>2, <1>3, <1>4 DEF ExampleInv

\* _sockPoll() tests the timeouts.
LEMMA PollTimeoutsOwn ==
  ASSUME TypeOK, OwnInv, PollTimeouts
  PROVE  OwnInv'
<1> USE NoneFacts DEF PollTimeouts, Handling, ManagerRuns, Finish, Goto, Enter, Invoke,
    AtCall, loopVars, objectVars, managerVars, lwipVars
<1>1. ControlInv'
  BY DEF TypeOK, OwnInv, ControlInv, isOpen, ConnectStep, CloseStep
<1>2. ShapeInv'
  BY DEF TypeOK, OwnInv, ShapeInv, LiveInv, ControlInv, isOpen, ConnectStep, CloseStep
<1>3. AloneInv'
  BY DEF TypeOK, OwnInv, AloneInv, ShapeInv, LiveInv, ControlInv, isOpen, ConnectStep,
     CloseStep
<1>4. LiveInv'
  BY DEF TypeOK, OwnInv, LiveInv, ShapeInv, AloneInv, ControlInv, isOpen, ConnectStep,
     CloseStep
<1> QED
  BY <1>1, <1>2, <1>3, <1>4 DEF OwnInv

\* _sockPoll() tests the timeouts.
LEMMA PollTimeoutsExample ==
  ASSUME TypeOK, OwnInv, ExampleInv, PollTimeouts
  PROVE  ExampleInv'
<1> USE NoneFacts DEF PollTimeouts, Handling, ManagerRuns, Finish, Goto, Enter, Invoke,
    AtCall, loopVars, objectVars, managerVars, lwipVars
<1>1. DialInv'
  BY DEF TypeOK, OwnInv, DialInv, ShapeInv, AloneInv, LiveInv, ClosedInv, AnswerInv,
     HeldInv, ControlInv, isOpen, ConnectStep, CloseStep, ExampleInv, Unanswered,
     Dialled, Awaited, Resolving, Held
<1>2. ClosedInv'
  BY DEF TypeOK, OwnInv, ClosedInv, ShapeInv, LiveInv, DialInv, AnswerInv, HeldInv,
     ControlInv, isOpen, ConnectStep, CloseStep, ExampleInv, Unanswered, Dialled,
     Awaited, Resolving, Held
<1>3. AnswerInv'
  BY DEF TypeOK, OwnInv, AnswerInv, ShapeInv, LiveInv, DialInv, ClosedInv, HeldInv,
     ControlInv, isOpen, ConnectStep, CloseStep, ExampleInv, Unanswered, Dialled,
     Awaited, Resolving, Held
<1>4. HeldInv'
  BY DEF TypeOK, OwnInv, HeldInv, ShapeInv, LiveInv, DialInv, ClosedInv, AnswerInv,
     ControlInv, isOpen, ConnectStep, CloseStep, ExampleInv, Unanswered, Dialled,
     Awaited, Resolving, Held
<1> QED
  BY <1>1, <1>2, <1>3, <1>4 DEF ExampleInv

\* A client that was closed is found.
LEMMA ProcessingDoneOwn ==
  ASSUME TypeOK, OwnInv, ProcessingDone
  PROVE  OwnInv'
<1> USE NoneFacts DEF ProcessingDone, Handling, ManagerRuns, Finish, Goto, Enter,
    Invoke, AtCall, loopVars, objectVars, managerVars, lwipVars
<1>1. ControlInv'
  BY DEF TypeOK, OwnInv, ControlInv, isOpen, ConnectStep, CloseStep
<1>2. ShapeInv'
  BY DEF TypeOK, OwnInv, ShapeInv, LiveInv, ControlInv, isOpen, ConnectStep, CloseStep
<1>3. AloneInv'
  BY DEF TypeOK, OwnInv, AloneInv, ShapeInv, LiveInv, ControlInv, isOpen, ConnectStep,
     CloseStep
<1>4. LiveInv'
  BY DEF TypeOK, OwnInv, LiveInv, ShapeInv, AloneInv, ControlInv, isOpen, ConnectStep,
     CloseStep
<1> QED
  BY <1>1, <1>2, <1>3, <1>4 DEF OwnInv

\* A client that was closed is found.
LEMMA ProcessingDoneExample ==
  ASSUME TypeOK, OwnInv, ExampleInv, ProcessingDone
  PROVE  ExampleInv'
<1> USE NoneFacts DEF ProcessingDone, Handling, ManagerRuns, Finish, Goto, Enter,
    Invoke, AtCall, loopVars, objectVars, managerVars, lwipVars
<1>1. DialInv'
  BY DEF TypeOK, OwnInv, DialInv, ShapeInv, AloneInv, LiveInv, ClosedInv, AnswerInv,
     HeldInv, ControlInv, isOpen, ConnectStep, CloseStep, ExampleInv, Unanswered,
     Dialled, Awaited, Resolving, Held
<1>2. ClosedInv'
  BY DEF TypeOK, OwnInv, ClosedInv, ShapeInv, LiveInv, DialInv, AnswerInv, HeldInv,
     ControlInv, isOpen, ConnectStep, CloseStep, ExampleInv, Unanswered, Dialled,
     Awaited, Resolving, Held
<1>3. AnswerInv'
  BY DEF TypeOK, OwnInv, AnswerInv, ShapeInv, LiveInv, DialInv, ClosedInv, HeldInv,
     ControlInv, isOpen, ConnectStep, CloseStep, ExampleInv, Unanswered, Dialled,
     Awaited, Resolving, Held
<1>4. HeldInv'
  BY DEF TypeOK, OwnInv, HeldInv, ShapeInv, LiveInv, DialInv, ClosedInv, AnswerInv,
     ControlInv, isOpen, ConnectStep, CloseStep, ExampleInv, Unanswered, Dialled,
     Awaited, Resolving, Held
<1> QED
  BY <1>1, <1>2, <1>3, <1>4 DEF ExampleInv

\* The client becomes DISCONNECTED, and DISCONNECT is run.
LEMMA FireDisconnectOwn ==
  ASSUME TypeOK, OwnInv, FireDisconnect
  PROVE  OwnInv'
<1> USE NoneFacts DEF FireDisconnect, Handling, ManagerRuns, Finish, Goto, Enter,
    Invoke, AtCall, loopVars, objectVars, managerVars, lwipVars
<1>1. ControlInv'
  BY DEF TypeOK, OwnInv, ControlInv, isOpen, ConnectStep, CloseStep
<1>2. ShapeInv'
  BY DEF TypeOK, OwnInv, ShapeInv, LiveInv, ControlInv, isOpen, ConnectStep, CloseStep
<1>3. AloneInv'
  BY DEF TypeOK, OwnInv, AloneInv, ShapeInv, LiveInv, ControlInv, isOpen, ConnectStep,
     CloseStep
<1>4. LiveInv'
  BY DEF TypeOK, OwnInv, LiveInv, ShapeInv, AloneInv, ControlInv, isOpen, ConnectStep,
     CloseStep
<1> QED
  BY <1>1, <1>2, <1>3, <1>4 DEF OwnInv

\* The client becomes DISCONNECTED, and DISCONNECT is run.
LEMMA FireDisconnectExample ==
  ASSUME TypeOK, OwnInv, ExampleInv, FireDisconnect
  PROVE  ExampleInv'
<1> USE NoneFacts DEF FireDisconnect, Handling, ManagerRuns, Finish, Goto, Enter,
    Invoke, AtCall, loopVars, objectVars, managerVars, lwipVars
<1>1. DialInv'
  BY DEF TypeOK, OwnInv, DialInv, ShapeInv, AloneInv, LiveInv, ClosedInv, AnswerInv,
     HeldInv, ControlInv, isOpen, ConnectStep, CloseStep, ExampleInv, Unanswered,
     Dialled, Awaited, Resolving, Held
<1>2. ClosedInv'
  BY DEF TypeOK, OwnInv, ClosedInv, ShapeInv, LiveInv, DialInv, AnswerInv, HeldInv,
     ControlInv, isOpen, ConnectStep, CloseStep, ExampleInv, Unanswered, Dialled,
     Awaited, Resolving, Held
<1>3. AnswerInv'
  BY DEF TypeOK, OwnInv, AnswerInv, ShapeInv, LiveInv, DialInv, ClosedInv, HeldInv,
     ControlInv, isOpen, ConnectStep, CloseStep, ExampleInv, Unanswered, Dialled,
     Awaited, Resolving, Held
<1>4. HeldInv'
  BY DEF TypeOK, OwnInv, HeldInv, ShapeInv, LiveInv, DialInv, ClosedInv, AnswerInv,
     ControlInv, isOpen, ConnectStep, CloseStep, ExampleInv, Unanswered, Dialled,
     Awaited, Resolving, Held
<1> QED
  BY <1>1, <1>2, <1>3, <1>4 DEF ExampleInv

\* A callback returns.
LEMMA CallbackReturnOwn ==
  ASSUME TypeOK, OwnInv, CallbackReturn
  PROVE  OwnInv'
<1> USE NoneFacts DEF loopVars, AtCall, objectVars, managerVars, lwipVars
<1>0. /\ callback' = None /\ callback # None
      /\ \/ callback = "CONNECT" /\ step' = "drain" /\ cur' = cur /\ call' = call
         \/ callback = "SENT" /\ step' = "notify" /\ cur' = cur /\ call' = call
         \/ /\ callback = "ERROR" /\ step' = "none" /\ cur' = None
            /\ call' = [call EXCEPT ![Mgr] = AtCall("close", cur)]
         \/ /\ callback \notin {"CONNECT", "SENT", "ERROR"}
            /\ step' = "none" /\ cur' = None /\ call' = call
      /\ call[Mgr].step = "none" /\ UNCHANGED <<objectVars, loopVars, lwipVars, view>>
  BY DEF CallbackReturn
<1>1. ControlInv'
  BY <1>0 DEF TypeOK, OwnInv, ControlInv, isOpen, ConnectStep, CloseStep
<1>2. ShapeInv'
  BY <1>0 DEF TypeOK, OwnInv, ShapeInv, LiveInv, ControlInv, isOpen, ConnectStep,
     CloseStep
<1>3. AloneInv'
  BY <1>0 DEF TypeOK, OwnInv, AloneInv, ShapeInv, LiveInv, ControlInv, isOpen,
     ConnectStep, CloseStep
<1>4. LiveInv'
  BY <1>0 DEF TypeOK, OwnInv, LiveInv, ShapeInv, AloneInv, ControlInv, isOpen,
     ConnectStep, CloseStep
<1> QED
  BY <1>1, <1>2, <1>3, <1>4 DEF OwnInv

\* A callback returns.
LEMMA CallbackReturnExample ==
  ASSUME TypeOK, OwnInv, ExampleInv, CallbackReturn
  PROVE  ExampleInv'
<1> USE NoneFacts DEF loopVars, AtCall, objectVars, managerVars, lwipVars
<1>0. /\ callback' = None /\ callback # None
      /\ \/ callback = "CONNECT" /\ step' = "drain" /\ cur' = cur /\ call' = call
         \/ callback = "SENT" /\ step' = "notify" /\ cur' = cur /\ call' = call
         \/ /\ callback = "ERROR" /\ step' = "none" /\ cur' = None
            /\ call' = [call EXCEPT ![Mgr] = AtCall("close", cur)]
         \/ /\ callback \notin {"CONNECT", "SENT", "ERROR"}
            /\ step' = "none" /\ cur' = None /\ call' = call
      /\ call[Mgr].step = "none" /\ UNCHANGED <<objectVars, loopVars, lwipVars, view>>
  BY DEF CallbackReturn
<1>1. DialInv'
  BY <1>0 DEF TypeOK, OwnInv, DialInv, ShapeInv, AloneInv, LiveInv, ClosedInv,
     AnswerInv, HeldInv, ControlInv, isOpen, ConnectStep, CloseStep, ExampleInv,
     Unanswered, Dialled, Awaited, Resolving, Held
<1>2. ClosedInv'
  BY <1>0 DEF TypeOK, OwnInv, ClosedInv, ShapeInv, LiveInv, DialInv, AnswerInv, HeldInv,
     ControlInv, isOpen, ConnectStep, CloseStep, ExampleInv, Unanswered, Dialled,
     Awaited, Resolving, Held
<1>3. AnswerInv'
  BY <1>0 DEF TypeOK, OwnInv, AnswerInv, ShapeInv, LiveInv, DialInv, ClosedInv, HeldInv,
     ControlInv, isOpen, ConnectStep, CloseStep, ExampleInv, Unanswered, Dialled,
     Awaited, Resolving, Held
<1>4. HeldInv'
  BY <1>0 DEF TypeOK, OwnInv, HeldInv, ShapeInv, LiveInv, DialInv, ClosedInv, AnswerInv,
     ControlInv, isOpen, ConnectStep, CloseStep, ExampleInv, Unanswered, Dialled,
     Awaited, Resolving, Held
<1> QED
  BY <1>1, <1>2, <1>3, <1>4 DEF ExampleInv

\* A server makes a client for a connection it accepts.
LEMMA SockAcceptOwn ==
  ASSUME TypeOK, OwnInv, NEW c \in Clients, SockAccept(c)
  PROVE  OwnInv'
<1> USE NoneFacts DEF SockAccept, ManagerRuns, loopVars, objectVars, managerVars,
    lwipVars
<1>1. ControlInv'
  BY DEF TypeOK, OwnInv, ControlInv, isOpen, ConnectStep, CloseStep
<1>2. ShapeInv'
  BY DEF TypeOK, OwnInv, ShapeInv, LiveInv, ControlInv, isOpen, ConnectStep, CloseStep
<1>3. AloneInv'
  BY DEF TypeOK, OwnInv, AloneInv, ShapeInv, LiveInv, ControlInv, isOpen, ConnectStep,
     CloseStep
<1>4. LiveInv'
  BY DEF TypeOK, OwnInv, LiveInv, ShapeInv, AloneInv, ControlInv, isOpen, ConnectStep,
     CloseStep
<1> QED
  BY <1>1, <1>2, <1>3, <1>4 DEF OwnInv

\* A server makes a client for a connection it accepts.
LEMMA SockAcceptExample ==
  ASSUME TypeOK, OwnInv, ExampleInv, NEW c \in Clients, SockAccept(c)
  PROVE  ExampleInv'
<1> USE NoneFacts DEF SockAccept, ManagerRuns, loopVars, objectVars, managerVars,
    lwipVars
<1>1. DialInv'
  BY DEF TypeOK, OwnInv, DialInv, ShapeInv, AloneInv, LiveInv, ClosedInv, AnswerInv,
     HeldInv, ControlInv, isOpen, ConnectStep, CloseStep, ExampleInv, Unanswered,
     Dialled, Awaited, Resolving, Held
<1>2. ClosedInv'
  BY DEF TypeOK, OwnInv, ClosedInv, ShapeInv, LiveInv, DialInv, AnswerInv, HeldInv,
     ControlInv, isOpen, ConnectStep, CloseStep, ExampleInv, Unanswered, Dialled,
     Awaited, Resolving, Held
<1>3. AnswerInv'
  BY DEF TypeOK, OwnInv, AnswerInv, ShapeInv, LiveInv, DialInv, ClosedInv, HeldInv,
     ControlInv, isOpen, ConnectStep, CloseStep, ExampleInv, Unanswered, Dialled,
     Awaited, Resolving, Held
<1>4. HeldInv'
  BY DEF TypeOK, OwnInv, HeldInv, ShapeInv, LiveInv, DialInv, ClosedInv, AnswerInv,
     ControlInv, isOpen, ConnectStep, CloseStep, ExampleInv, Unanswered, Dialled,
     Awaited, Resolving, Held
<1> QED
  BY <1>1, <1>2, <1>3, <1>4 DEF ExampleInv

\* The peer closes or resets the connection.
LEMMA PeerLeavesOwn ==
  ASSUME TypeOK, OwnInv, NEW f \in Fds, PeerLeaves(f)
  PROVE  OwnInv'
<1> USE NoneFacts DEF PeerLeaves, objectVars, managerVars, lwipVars
<1>1. ControlInv'
  BY DEF TypeOK, OwnInv, ControlInv, isOpen, ConnectStep, CloseStep
<1>2. ShapeInv'
  BY DEF TypeOK, OwnInv, ShapeInv, LiveInv, ControlInv, isOpen, ConnectStep, CloseStep
<1>3. AloneInv'
  BY DEF TypeOK, OwnInv, AloneInv, ShapeInv, LiveInv, ControlInv, isOpen, ConnectStep,
     CloseStep
<1>4. LiveInv'
  BY DEF TypeOK, OwnInv, LiveInv, ShapeInv, AloneInv, ControlInv, isOpen, ConnectStep,
     CloseStep
<1> QED
  BY <1>1, <1>2, <1>3, <1>4 DEF OwnInv

\* The peer closes or resets the connection.
LEMMA PeerLeavesExample ==
  ASSUME TypeOK, OwnInv, ExampleInv, NEW f \in Fds, PeerLeaves(f)
  PROVE  ExampleInv'
<1> USE NoneFacts DEF PeerLeaves, objectVars, managerVars, lwipVars
<1>1. DialInv'
  BY DEF TypeOK, OwnInv, DialInv, ShapeInv, AloneInv, LiveInv, ClosedInv, AnswerInv,
     HeldInv, ControlInv, isOpen, ConnectStep, CloseStep, ExampleInv, Unanswered,
     Dialled, Awaited, Resolving, Held
<1>2. ClosedInv'
  BY DEF TypeOK, OwnInv, ClosedInv, ShapeInv, LiveInv, DialInv, AnswerInv, HeldInv,
     ControlInv, isOpen, ConnectStep, CloseStep, ExampleInv, Unanswered, Dialled,
     Awaited, Resolving, Held
<1>3. AnswerInv'
  BY DEF TypeOK, OwnInv, AnswerInv, ShapeInv, LiveInv, DialInv, ClosedInv, HeldInv,
     ControlInv, isOpen, ConnectStep, CloseStep, ExampleInv, Unanswered, Dialled,
     Awaited, Resolving, Held
<1>4. HeldInv'
  BY DEF TypeOK, OwnInv, HeldInv, ShapeInv, LiveInv, DialInv, ClosedInv, AnswerInv,
     ControlInv, isOpen, ConnectStep, CloseStep, ExampleInv, Unanswered, Dialled,
     Awaited, Resolving, Held
<1> QED
  BY <1>1, <1>2, <1>3, <1>4 DEF ExampleInv

-----------------------------------------------------------------------------
(* The invariant *)

\* At the start nobody is inside a call and no client is open.
LEMMA OwnInit == Init => OwnInv /\ ExampleInv /\ ClosersInv
BY NoneFacts DEF Init, NoCall, OwnInv, ExampleInv, ClosersInv, ControlInv, ShapeInv, AloneInv,
   LiveInv, DialInv, ClosedInv, AnswerInv, HeldInv, Held, Dialled, Awaited, Resolving,
   Unanswered, isOpen, ConnectStep, CloseStep

\* Every step keeps descriptors and clients in order, for both ways of use.
LEMMA OwnStep ==
  ASSUME Orderly, TypeOK, OwnInv, [Next]_vars
  PROVE  OwnInv'
<1>1. ASSUME NEW t \in Threads, NEW c \in Clients, UserCall(t, c) PROVE OwnInv'
  BY <1>1, UserConnectOwn, UserConnectHostOwn, UserCloseOwn, UserDeleteOwn DEF UserCall
<1>2. ASSUME NEW t \in Threads, CallProgress(t) PROVE OwnInv'
  BY <1>2, ConnectOpenOwn, ConnectSocketOwn, ConnectDialOwn, ConnectFailsOwn, ConnectStateOwn,
     ConfigureSocketOwn, ConnectAwaitOwn, CloseStateOwn, CloseExchangeOwn, CloseFdOwn
     DEF CallProgress
<1>3. CASE ManagerProgress
  BY <1>3, SelectOwn, SelectFailsOwn, CollectOwn, DispatchOwn, SockIsWriteableOwn,
     SockConnectedOwn, SockDrainOwn, NotifySentOwn, NotifyEndOwn, SockIsReadableOwn,
     DnsResetOwn, SockDelayedConnectOwn, SockPollOwn, PollTimeoutsOwn, ProcessingDoneOwn,
     FireDisconnectOwn, CallbackReturnOwn DEF ManagerProgress
<1>4. CASE DnsProgress
  BY <1>4, DnsFinishedOwn, DnsFoundOwn DEF DnsProgress
<1>5. ASSUME NEW f \in Fds, PeerLeaves(f) PROVE OwnInv'
  BY <1>5, PeerLeavesOwn
<1>6. ASSUME NEW c \in Clients, SockAccept(c) PROVE OwnInv'
  BY <1>6, SockAcceptOwn
<1>7. CASE UNCHANGED vars
  BY <1>7 DEF vars, objectVars, managerVars, lwipVars, OwnInv, ControlInv, ShapeInv, AloneInv,
     LiveInv, isOpen
<1> QED
  BY <1>1, <1>2, <1>3, <1>4, <1>5, <1>6, <1>7 DEF Next

\* What the examples' use adds to the invariant is preserved.
LEMMA ExampleStep ==
  ASSUME ExampleUse, TypeOK, OwnInv, ExampleInv, [Next]_vars
  PROVE  ExampleInv'
<1>1. ASSUME NEW t \in Threads, NEW c \in Clients, UserCall(t, c) PROVE ExampleInv'
  BY <1>1, UserConnectExample, UserConnectHostExample, UserCloseExample, UserDeleteExample
     DEF UserCall
<1>2. ASSUME NEW t \in Threads, CallProgress(t) PROVE ExampleInv'
  BY <1>2, ConnectOpenExample, ConnectSocketExample, ConnectDialExample, ConnectFailsExample,
     ConnectStateExample, ConfigureSocketExample, ConnectAwaitExample, CloseStateExample,
     CloseExchangeExample, CloseFdExample DEF CallProgress
<1>3. CASE ManagerProgress
  BY <1>3, SelectExample, SelectFailsExample, CollectExample, DispatchExample,
     SockIsWriteableExample, SockConnectedExample, SockDrainExample, NotifySentExample,
     NotifyEndExample, SockIsReadableExample, DnsResetExample, SockDelayedConnectExample,
     SockPollExample, PollTimeoutsExample, ProcessingDoneExample, FireDisconnectExample,
     CallbackReturnExample DEF ManagerProgress
<1>4. CASE DnsProgress
  BY <1>4, DnsFinishedExample, DnsFoundExample DEF DnsProgress
<1>5. ASSUME NEW f \in Fds, PeerLeaves(f) PROVE ExampleInv'
  BY <1>5, PeerLeavesExample
<1>6. ASSUME NEW c \in Clients, SockAccept(c) PROVE ExampleInv'
  BY <1>6, SockAcceptExample
<1>7. CASE UNCHANGED vars
  BY <1>7 DEF vars, objectVars, managerVars, lwipVars, ExampleInv, DialInv, ClosedInv,
     AnswerInv, HeldInv, Held, Dialled, Awaited, Resolving, Unanswered, isOpen
<1> QED
  BY <1>1, <1>2, <1>3, <1>4, <1>5, <1>6, <1>7 DEF Next

\* Application threads that may only close are inside _close() at most.
LEMMA ClosersStep ==
  ASSUME CallbackUse, TypeOK, ClosersInv, [Next]_vars
  PROVE  ClosersInv'
<1> USE NoneFacts DEF TypeOK, ClosersInv, CloseStep, objectVars, managerVars, lwipVars
<1>1. ASSUME NEW t \in Threads, NEW c \in Clients, UserCall(t, c) PROVE ClosersInv'
  BY <1>1 DEF UserCall, UserConnect, UserConnectHost, UserClose, UserDelete, MayDelete,
     MayCall, AtCall, CallbackUse
<1>2. ASSUME NEW t \in Threads, CallProgress(t) PROVE ClosersInv'
  BY <1>2 DEF CallProgress, ConnectOpen, ConnectSocket, ConnectDial, ConnectFails,
     ConnectState, ConfigureSocket, ConnectAwait, CloseState, CloseExchange, CloseFd,
     AtCall, NoCall
<1>3. CASE ManagerProgress
  <2>1. \A t \in Apps : call'[t] = call[t]
    BY <1>3 DEF ManagerProgress, Select, SelectFails, Collect, Dispatch, SockIsWriteable,
       SockConnected, SockDrain, NotifySent, NotifyEnd, SockIsReadable, DnsReset,
       SockDelayedConnect, SockPoll, PollTimeouts, ProcessingDone, FireDisconnect,
       CallbackReturn, Finish, Goto, Enter, Invoke
  <2> QED
    BY <2>1
<1>4. CASE DnsProgress \/ (\E f \in Fds : PeerLeaves(f)) \/ (\E c \in Clients : SockAccept(c))
  BY <1>4 DEF DnsProgress, DnsFinished, DnsFound, PeerLeaves, SockAccept
<1>5. CASE UNCHANGED vars
  BY <1>5 DEF vars
<1> QED
  BY <1>1, <1>2, <1>3, <1>4, <1>5 DEF Next

\* The invariant holds for the use the examples show.
LEMMA ExampleCorrect == ExampleUse /\ Spec => [](TypeOK /\ OwnInv /\ ExampleInv)
<1> SUFFICES ASSUME ExampleUse PROVE Spec => [](TypeOK /\ OwnInv /\ ExampleInv)
  OBVIOUS
<1>1. TypeOK /\ OwnInv /\ ExampleInv /\ [Next]_vars => OwnInv' /\ ExampleInv'
  BY OwnStep, ExampleStep DEF Orderly
<1>2. Init => OwnInv /\ ExampleInv
  BY OwnInit
<1> QED
  BY <1>1, <1>2, LifecycleTypeCorrect, PTL DEF Spec

\* The invariant holds if connections are opened in callbacks only.
LEMMA CallbackCorrect == CallbackUse /\ Spec => [](TypeOK /\ OwnInv /\ ClosersInv)
<1> SUFFICES ASSUME CallbackUse PROVE Spec => [](TypeOK /\ OwnInv /\ ClosersInv)
  OBVIOUS
<1>1. TypeOK /\ OwnInv /\ ClosersInv /\ [Next]_vars => OwnInv' /\ ClosersInv'
  BY OwnStep, ClosersStep DEF Orderly
<1>2. Init => OwnInv /\ ClosersInv
  BY OwnInit
<1> QED
  BY <1>1, <1>2, LifecycleTypeCorrect, PTL DEF Spec

-----------------------------------------------------------------------------
(* Objects *)

\* In the use the examples show nothing refers to a destroyed client: not the
\* manager's list, clientsProcessing, a handler or a call in progress, nor a
\* DNS query.
THEOREM AliveCorrect == ExampleUse /\ Spec => []NoUseAfterFree
<1>1. TypeOK /\ OwnInv /\ ExampleInv => NoUseAfterFree
  <2> SUFFICES ASSUME TypeOK, OwnInv, ExampleInv PROVE NoUseAfterFree
    OBVIOUS
  <2>1. ASSUME NEW c \in Clients, lookups[c] > 0 \/ resolved = c PROVE c \in alive
    <3>1. Unanswered(c)
      BY <2>1, NoneFacts DEF Unanswered, TypeOK
    <3>2. state[c] = "WAITING_FOR_DNS" \/ Awaited(c)
      BY <3>1 DEF ExampleInv, AnswerInv
    <3> QED
      BY <3>2 DEF ExampleInv, ClosedInv, Awaited, OwnInv, LiveInv
  <2>2. managed \cup todo \subseteq alive
    BY DEF OwnInv, LiveInv
  <2>3. cur # None /\ callback # "DISCONNECT" => cur \in alive
    BY DEF OwnInv, LiveInv
  <2>4. \A t \in Threads : call[t].step # "none" => call[t].client \in alive
    BY DEF OwnInv, LiveInv, ExampleInv, DialInv
  <2> QED
    BY <2>1, <2>2, <2>3, <2>4 DEF NoUseAfterFree
<1> QED
  BY <1>1, ExampleCorrect, PTL

-----------------------------------------------------------------------------
(* Descriptors *)

\* Every descriptor lwIP has given out is held once, by a client or by a
\* thread inside connect() or _close(), and no closed one is held.
FdInv ==
  /\ \A c, d \in Clients : socket[c] = socket[d] => c = d \/ socket[c] = None
  /\ \A t, u \in Threads : call[t].fd = call[u].fd => t = u \/ call[t].fd = None
  /\ \A c \in Clients, t \in Threads : socket[c] = call[t].fd => socket[c] = None
  /\ \A f \in Fds : fd[f] # "free" <=>
       (\E c \in Clients : socket[c] = f) \/ (\E t \in Threads : call[t].fd = f)

\* Actions that move no descriptor.
LEMMA FdFrame ==
  ASSUME FdInv, UNCHANGED <<socket, fd>>, \A t \in Threads : call'[t].fd = call[t].fd
  PROVE  FdInv'
BY DEF FdInv

\* The manager task itself moves no descriptor: its calls to connect() and
\* _close() do.
LEMMA ManagerFds ==
  ASSUME TypeOK, OwnInv, ManagerProgress
  PROVE  UNCHANGED <<socket, fd>> /\ \A t \in Threads : call'[t].fd = call[t].fd
<1> USE NoneFacts DEF TypeOK, objectVars, managerVars, lwipVars, loopVars
<1>1. call[Mgr].step = "none" => call[Mgr].fd = None
  BY DEF OwnInv, ShapeInv
<1>2. ASSUME NEW s, Enter(s), call[Mgr].step = "none"
      PROVE  \A t \in Threads : call'[t].fd = call[t].fd
  BY <1>1, <1>2 DEF Enter, AtCall
<1>3. CASE Select \/ SelectFails \/ Collect \/ Dispatch
  BY <1>3 DEF Select, SelectFails, Collect, Dispatch
<1>4. CASE SockIsWriteable \/ SockConnected \/ SockDrain \/ NotifySent \/ NotifyEnd
  BY <1>4 DEF SockIsWriteable, SockConnected, SockDrain, NotifySent, NotifyEnd, Finish, Goto,
     Invoke
<1>5. CASE SockIsReadable
  BY <1>2, <1>5 DEF SockIsReadable, Handling, ManagerRuns, Finish, Invoke
<1>6. CASE DnsReset \/ SockPoll \/ ProcessingDone \/ FireDisconnect
  BY <1>6 DEF DnsReset, SockPoll, ProcessingDone, FireDisconnect, Finish, Goto, Invoke
<1>7. CASE SockDelayedConnect
  BY <1>2, <1>7 DEF SockDelayedConnect, Handling, ManagerRuns, Invoke
<1>8. CASE PollTimeouts
  BY <1>2, <1>8 DEF PollTimeouts, Handling, ManagerRuns, Finish, Invoke
<1>9. CASE CallbackReturn
  BY <1>1, <1>9 DEF CallbackReturn, AtCall
<1> QED
  BY <1>3, <1>4, <1>5, <1>6, <1>7, <1>8, <1>9 DEF ManagerProgress

\* Every step hands a descriptor on as a whole: from lwIP to connect(), to
\* _socket, to _close() and back to lwIP.
LEMMA FdStep ==
  ASSUME Orderly, ~FcntlFails, TypeOK, OwnInv, FdInv, [Next]_vars
  PROVE  FdInv'
<1> USE NoneFacts DEF TypeOK, objectVars, managerVars, lwipVars
<1>1. CASE ManagerProgress
  BY <1>1, ManagerFds, FdFrame
<1>2. CASE DnsProgress
  BY <1>2, FdFrame DEF DnsProgress, DnsFound, DnsFinished
<1>3. ASSUME NEW f \in Fds, PeerLeaves(f) PROVE FdInv'
  BY <1>3 DEF PeerLeaves, FdInv
<1>4. ASSUME NEW t \in Threads, NEW c \in Clients, UserCall(t, c) PROVE FdInv'
  <2>1. call[t].step = "none" => call[t].fd = None
    BY DEF OwnInv, ShapeInv
  <2> QED
    BY <1>4, <2>1, FdFrame DEF UserCall, UserConnect, UserConnectHost, UserClose, UserDelete,
       MayDelete, MayCall, AtCall
<1>5. ASSUME NEW t \in Threads, ConnectOpen(t) \/ ConnectAwait(t) \/ CloseState(t)
      PROVE  FdInv'
  <2>1. call[t].fd = None
    BY <1>5 DEF OwnInv, ShapeInv, ConnectOpen, ConnectAwait, CloseState
  <2> QED
    BY <1>5, <2>1, FdFrame DEF ConnectOpen, ConnectAwait, CloseState, AtCall, NoCall
<1>6. ASSUME NEW t \in Threads, ConnectSocket(t) PROVE FdInv'
  <2>1. call[t].fd = None
    BY <1>6 DEF OwnInv, ShapeInv, ConnectSocket
  <2>2. CASE fd' = fd
    BY <1>6, <2>1, <2>2, FdFrame DEF ConnectSocket, NoCall
  <2>3. CASE fd' # fd
    BY <1>6, <2>1, <2>3 DEF ConnectSocket, FdInv
  <2> QED
    BY <2>2, <2>3
<1>7. ASSUME NEW t \in Threads, ConnectState(t) PROVE FdInv'
  BY <1>7, FdFrame DEF ConnectState
<1>12. ASSUME NEW t \in Threads, ConnectDial(t) PROVE FdInv'
  <2>1. call[t].fd \in Fds
    BY <1>12 DEF OwnInv, ShapeInv, ConnectDial
  <2>2. /\ UNCHANGED socket /\ \A u \in Threads : call'[u].fd = call[u].fd
        /\ \A f \in Fds : fd'[f] = IF f = call[t].fd THEN "open" ELSE fd[f]
    BY <1>12, <2>1 DEF ConnectDial
  <2> QED
    BY <2>1, <2>2 DEF FdInv
<1>13. ASSUME NEW t \in Threads, ConnectFails(t) PROVE FdInv'
  <2>1. call[t].fd \in Fds
    BY <1>13 DEF OwnInv, ShapeInv, ConnectFails
  <2> QED
    BY <1>13, <2>1 DEF ConnectFails, NoCall, FdInv
<1>14. ASSUME NEW c \in Clients, SockAccept(c) PROVE FdInv'
  <2>1. socket[c] = None
    BY <1>14 DEF OwnInv, LiveInv, isOpen, SockAccept
  <2> QED
    BY <1>14, <2>1 DEF SockAccept, FdInv
<1>8. ASSUME NEW t \in Threads, ConfigureSocket(t) PROVE FdInv'
  <2>1. call[t].client \in Clients /\ socket[call[t].client] = None /\ call[t].fd \in Fds
    BY <1>8 DEF OwnInv, ShapeInv, AloneInv, isOpen, ConfigureSocket, ConnectStep
  <2> QED
    BY <1>8, <2>1 DEF ConfigureSocket, NoCall, FdInv
<1>9. ASSUME NEW t \in Threads, CloseExchange(t) PROVE FdInv'
  <2>1. call[t].client \in Clients /\ call[t].fd = None
    BY <1>9 DEF OwnInv, ShapeInv, CloseExchange
  <2>2. /\ fd' = fd /\ socket'[call[t].client] = None
        /\ \A c \in Clients \ {call[t].client} : socket'[c] = socket[c]
    BY <1>9, <2>1 DEF CloseExchange
  <2>3. /\ call'[t].fd = socket[call[t].client]
        /\ \A u \in Threads \ {t} : call'[u] = call[u]
    BY <1>9, <2>1 DEF CloseExchange
  <2>4. \A c, d \in Clients : socket'[c] = socket'[d] => c = d \/ socket'[c] = None
    BY <2>2 DEF FdInv
  <2>5. \A u \in Threads \ {t} :
          call[u].fd = socket[call[t].client] => socket[call[t].client] = None
    BY <2>1 DEF FdInv
  <2>6. \A u, v \in Threads : call'[u].fd = call'[v].fd => u = v \/ call'[u].fd = None
    BY <2>3, <2>5 DEF FdInv
  <2>7. \A c \in Clients, u \in Threads : socket'[c] = call'[u].fd => socket'[c] = None
    BY <2>1, <2>2, <2>3 DEF FdInv
  <2>8. \A f \in Fds : (\E c \in Clients : socket[c] = f) \/ (\E u \in Threads : call[u].fd = f)
          <=> (\E c \in Clients : socket'[c] = f) \/ (\E u \in Threads : call'[u].fd = f)
    BY <2>1, <2>2, <2>3, NoneFacts
  <2> QED
    BY <2>2, <2>4, <2>6, <2>7, <2>8 DEF FdInv
<1>10. ASSUME NEW t \in Threads, CloseFd(t) PROVE FdInv'
  BY <1>10 DEF CloseFd, NoCall, FdInv
<1>11. CASE UNCHANGED vars
  BY <1>11, FdFrame DEF vars
<1> QED
  BY <1>1, <1>2, <1>3, <1>4, <1>5, <1>6, <1>7, <1>8, <1>9, <1>10, <1>11,
     <1>12, <1>13, <1>14 DEF Next, CallProgress

\* A descriptor that is open is held exactly once.
LEMMA OneHolder ==
  ASSUME FdInv, NEW f \in Fds
  PROVE  Cardinality(Holders(f)) = IF fd[f] = "free" THEN 0 ELSE 1
<1> USE NoneFacts
<1>1. ASSUME NEW c \in Clients, socket[c] = f PROVE Holders(f) = {<<c, "object">>}
  BY <1>1 DEF FdInv, Holders
<1>2. ASSUME NEW t \in Threads, call[t].fd = f PROVE Holders(f) = {<<t, "call">>}
  BY <1>2 DEF FdInv, Holders
<1>3. ASSUME fd[f] = "free" PROVE Holders(f) = {}
  BY <1>3 DEF FdInv, Holders
<1>4. ASSUME fd[f] # "free"
      PROVE  (\E c \in Clients : socket[c] = f) \/ (\E t \in Threads : call[t].fd = f)
  BY <1>4 DEF FdInv
<1>5. Cardinality({}) = 0 /\ \A x : Cardinality({x}) = 1
  BY FS_EmptySet, FS_Singleton
<1>6. fd[f] = "free" => Cardinality(Holders(f)) = 0
  BY <1>3, <1>5, Zenon
<1>7. fd[f] # "free" => Cardinality(Holders(f)) = 1
  BY <1>1, <1>2, <1>4, <1>5, Zenon
<1> QED
  BY <1>6, <1>7

\* If fcntl() does not fail, every open descriptor is in exactly one place and no
\* place holds a closed one, for any number of clients and threads: none leaks,
\* on the error paths of connect() neither, none is closed twice, none is
\* shared.  This holds for the examples' use, and for any use of callbacks in
\* which application threads do no more than close.
THEOREM FdOwnershipCorrect ==
  (ExampleUse \/ CallbackUse) /\ ~FcntlFails /\ Spec => []FdOwnership
<1>1. Init => FdInv
  BY NoneFacts DEF Init, NoCall, FdInv
<1>2. FdInv => FdOwnership
  BY OneHolder DEF FdOwnership
<1>3. ASSUME ExampleUse, ~FcntlFails PROVE Spec => []FdOwnership
  <2>1. TypeOK /\ OwnInv /\ ExampleInv /\ FdInv /\ [Next]_vars => FdInv'
    BY <1>3, FdStep DEF Orderly
  <2>2. Spec => [](TypeOK /\ OwnInv /\ ExampleInv)
    BY <1>3, ExampleCorrect
  <2> QED
    BY <1>1, <1>2, <2>1, <2>2, PTL DEF Spec
<1>4. ASSUME CallbackUse, ~FcntlFails PROVE Spec => []FdOwnership
  <2>1. TypeOK /\ OwnInv /\ ClosersInv /\ FdInv /\ [Next]_vars => FdInv'
    BY <1>4, FdStep DEF Orderly
  <2>2. Spec => [](TypeOK /\ OwnInv /\ ClosersInv)
    BY <1>4, CallbackCorrect
  <2> QED
    BY <1>1, <1>2, <2>1, <2>2, PTL DEF Spec
<1> QED
  BY <1>3, <1>4
=============================================================================
