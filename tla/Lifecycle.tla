------------------------------ MODULE Lifecycle ------------------------------
(***************************************************************************)
(* The life of the clients: connect() with and without DNS, the manager    *)
(* task's loop (src/SocketConnection.tpp, updateConnectionStates), the     *)
(* socket handlers and callbacks of src/ClientBase.tpp, close() and the    *)
(* destructor.  Sockets are file descriptors that lwIP hands out again     *)
(* after ::close().  The write queue is the subject of module WriteQueue   *)
(* and does not appear here: a CONNECTED client may or may not have        *)
(* something to write, and any number of buffers may be reported by SENT.  *)
(***************************************************************************)
EXTENDS Naturals, FiniteSets

CONSTANTS
  Clients,      \* client objects
  Accepted,     \* those of them that a server makes when it accepts
  Fds,          \* file descriptors lwIP has for them
  Mgr,          \* the manager task
  Apps,         \* application threads
  None,         \* no client, no descriptor (-1), no callback
  AppCalls,     \* calls the application threads make
  CallbackCalls,\* calls user code makes from callbacks
  Impatient,    \* threads that connect or delete a client that is not idle
  FcntlFails,   \* fcntl(O_NONBLOCK) may fail
  MaxLookups    \* bound: DNS queries in progress for one client

Threads == Apps \cup {Mgr}
ApiCalls == {"connect", "connectHost", "close", "delete", "deleteSelf"}
CallbackType ==
  {"ACCEPT", "CONNECT", "DISCONNECT", "POLL", "SENT", "RECV", "ERROR", "TIMEOUT"}

ASSUME LifecycleAssumption ==
  /\ Mgr \notin Apps /\ None \notin Clients \cup Fds
  /\ None \notin CallbackType /\ None \notin Clients \X CallbackType
  /\ AppCalls \subseteq ApiCalls /\ CallbackCalls \subseteq ApiCalls
  /\ Accepted \subseteq Clients /\ Impatient \subseteq Threads
  /\ FcntlFails \in BOOLEAN /\ MaxLookups \in Nat

VARIABLES
  alive,        \* clients that are constructed and not destroyed
  managed,      \* the manager's list of clients
  state,        \* _state
  socket,       \* _socket
  ip,           \* _ip is a valid address
  port,         \* _port has been assigned
  dnsFinished,  \* _dnsFinished
  call,         \* the library call each thread is inside of
  phase,        \* the block of updateConnectionStates() being executed
  todo,         \* clientsProcessing
  cur,          \* the client being handled
  step,         \* where its handler is
  callback,     \* the user callback being run for it
  wset, rset,   \* sockSet_w and sockSet_r after select()
  fd,           \* lwIP: what it knows of each descriptor
  lookups,      \* lwIP: DNS queries in progress for each client
  resolved,     \* lwIP: the client whose dnsFoundCallback() is running
  view          \* history: what the callbacks told the user

objectVars  == <<alive, managed, state, socket, ip, port, dnsFinished>>
managerVars == <<phase, todo, cur, step, callback, wset, rset>>
lwipVars    == <<fd, lookups, resolved>>
vars == <<objectVars, call, managerVars, lwipVars, view>>

-----------------------------------------------------------------------------
ConnectionState ==
  {"DISCONNECTED", "WAITING_FOR_DNS", "CONNECTING", "CONNECTED", "DISCONNECTING"}

Phases == {"select", "write", "read", "dns", "poll", "done"}

HandlerStep ==
  {"none", "start", "promote", "drain", "notify", "timeouts", "resolve", "fire"}

CallStep == {"none", "await", "open", "socket", "dial", "configure", "publish",
             "close", "exchange", "closeFd"}

\* fd is the local variable of connect() and _close(), from tells a _close()
\* that a destructor called.
NoCall == [step |-> "none", client |-> None, fd |-> None, from |-> "user"]
AtCall(s, c) == [step |-> s, client |-> c, fd |-> None, from |-> "user"]

isOpen(c) == socket[c] # None

\* What lwIP finds out about a client's descriptor: free stands for EBADF, new
\* for a socket that is not connected.
Status(c) == IF isOpen(c) THEN fd[socket[c]] ELSE "free"
SocketError(c) == Status(c) \in {"free", "reset"}
Broken(c) == Status(c) \in {"free", "reset", "new"}

\* User code runs in the application threads and, on the manager task, in
\* callbacks.
MayCall(t, name) ==
  /\ call[t].step = "none"
  /\ \/ t \in Apps /\ name \in AppCalls
     \/ t = Mgr /\ callback # None /\ name \in CallbackCalls

\* Nobody uses the client, as far as its user can tell.
Idle(c) ==
  /\ state[c] = "DISCONNECTED" /\ ~isOpen(c)
  /\ \A t \in Threads : call[t].client # c

\* The manager task executes library code.
ManagerRuns == callback = None /\ call[Mgr].step = "none"
Handling(p, s) == ManagerRuns /\ cur # None /\ phase = p /\ step = s

Init ==
  /\ alive = Clients \ Accepted /\ managed = Clients \ Accepted
  /\ state = [c \in Clients |-> "DISCONNECTED"]
  /\ socket = [c \in Clients |-> None]
  /\ ip = [c \in Clients |-> FALSE] /\ port = [c \in Clients |-> FALSE]
  /\ dnsFinished = [c \in Clients |-> FALSE]
  /\ call = [t \in Threads |-> NoCall]
  /\ phase = "done" /\ todo = {} /\ cur = None /\ step = "none"
  /\ callback = None /\ wset = {} /\ rset = {}
  /\ fd = [f \in Fds |-> "free"]
  /\ lookups = [c \in Clients |-> 0] /\ resolved = None
  /\ view = [c \in Clients |-> "down"]

-----------------------------------------------------------------------------
(* connect(ip, port) *)

UserConnect(t, c) ==
  /\ MayCall(t, "connect") /\ c \in managed
  /\ t \in Impatient \/ Idle(c)
  /\ call' = [call EXCEPT ![t] = AtCall("open", c)]
  /\ UNCHANGED <<objectVars, managerVars, lwipVars, view>>

\* "already connected": connect() returns false.
ConnectOpen(t) ==
  /\ call[t].step = "open"
  /\ call' = [call EXCEPT ![t] = IF isOpen(call[t].client) THEN NoCall
                                 ELSE AtCall("socket", call[t].client)]
  /\ UNCHANGED <<objectVars, managerVars, lwipVars, view>>

\* socket() returns a new descriptor, or -1.
ConnectSocket(t) ==
  /\ call[t].step = "socket"
  /\ \/ \E f \in Fds :
          /\ fd[f] = "free"
          /\ fd' = [fd EXCEPT ![f] = "new"]
          /\ call' = [call EXCEPT ![t].step = "dial", ![t].fd = f]
     \/ call' = [call EXCEPT ![t] = NoCall] /\ UNCHANGED fd
  /\ UNCHANGED <<objectVars, managerVars, lookups, resolved, view>>

\* ::connect(): the socket is still in blocking mode, so the call returns with
\* an established connection or fails.
ConnectDial(t) ==
  /\ call[t].step = "dial"
  /\ fd' = [fd EXCEPT ![call[t].fd] = "open"]
  /\ call' = [call EXCEPT ![t].step = "configure"]
  /\ UNCHANGED <<objectVars, managerVars, lookups, resolved, view>>

\* Faulty variant: the error path does not close the descriptor.
ConnectFailsLeaks(t) ==
  /\ call[t].step = "dial"
  /\ call' = [call EXCEPT ![t] = NoCall]
  /\ UNCHANGED <<objectVars, managerVars, lwipVars, view>>

\* ::connect() fails: ::close(socket), and connect() returns false.
ConnectFails(t) ==
  /\ call[t].step = "dial"
  /\ fd' = [fd EXCEPT ![call[t].fd] = "free"]
  /\ call' = [call EXCEPT ![t] = NoCall]
  /\ UNCHANGED <<objectVars, managerVars, lookups, resolved, view>>

\* Faulty variant: connect() forgets to leave DISCONNECTED.
ConnectStateForgotten(t) ==
  /\ call[t].step = "configure"
  /\ ip' = [ip EXCEPT ![call[t].client] = TRUE]
  /\ port' = [port EXCEPT ![call[t].client] = TRUE]
  /\ call' = [call EXCEPT ![t].step = "publish"]
  /\ UNCHANGED <<alive, managed, state, socket, dnsFinished, managerVars, lwipVars, view>>

ConnectState(t) ==
  LET c == call[t].client IN
  /\ call[t].step = "configure"
  /\ ip' = [ip EXCEPT ![c] = TRUE]
  /\ port' = [port EXCEPT ![c] = TRUE]
  /\ state' = [state EXCEPT ![c] = "CONNECTING"]
  /\ call' = [call EXCEPT ![t].step = "publish"]
  /\ UNCHANGED <<alive, managed, socket, dnsFinished, managerVars, lwipVars, view>>

\* _configureSocket(): if fcntl() fails the descriptor is closed and then
\* published all the same.
ConfigureSocket(t) ==
  /\ call[t].step = "publish"
  /\ \/ UNCHANGED fd
     \/ FcntlFails /\ fd' = [fd EXCEPT ![call[t].fd] = "free"]
  /\ socket' = [socket EXCEPT ![call[t].client] = call[t].fd]
  /\ call' = [call EXCEPT ![t] = NoCall]
  /\ UNCHANGED <<alive, managed, state, ip, port, dnsFinished, managerVars, lookups,
                 resolved, view>>

-----------------------------------------------------------------------------
(* connect(host, port) *)

\* dns_gethostbyname(): a cached answer, or a query in lwIP.
UserConnectHost(t, c) ==
  /\ MayCall(t, "connectHost") /\ c \in managed
  /\ t \in Impatient \/ Idle(c)
  /\ \/ /\ call' = [call EXCEPT ![t] = AtCall("open", c)]
        /\ UNCHANGED lookups
     \/ /\ lookups[c] < MaxLookups
        /\ lookups' = [lookups EXCEPT ![c] = @ + 1]
        /\ call' = [call EXCEPT ![t] = AtCall("await", c)]
  /\ UNCHANGED <<objectVars, managerVars, fd, resolved, view>>

\* Faulty variant: connect(host) clears what an earlier query may have left.
ConnectAwaitClears(t) ==
  LET c == call[t].client IN
  /\ call[t].step = "await"
  /\ state' = [state EXCEPT ![c] = "WAITING_FOR_DNS"]
  /\ port' = [port EXCEPT ![c] = TRUE]
  /\ dnsFinished' = [dnsFinished EXCEPT ![c] = FALSE]
  /\ call' = [call EXCEPT ![t] = NoCall]
  /\ UNCHANGED <<alive, managed, socket, ip, managerVars, lwipVars, view>>

ConnectAwait(t) ==
  LET c == call[t].client IN
  /\ call[t].step = "await"
  /\ state' = [state EXCEPT ![c] = "WAITING_FOR_DNS"]
  /\ port' = [port EXCEPT ![c] = TRUE]
  /\ call' = [call EXCEPT ![t] = NoCall]
  /\ UNCHANGED <<alive, managed, socket, ip, dnsFinished, managerVars, lwipVars, view>>

\* dnsFoundCallback() on the lwIP thread: first _ip, then _dnsFinished.
DnsFound(c) ==
  /\ resolved = None /\ lookups[c] > 0
  /\ \E found \in BOOLEAN : ip' = [ip EXCEPT ![c] = found]
  /\ lookups' = [lookups EXCEPT ![c] = @ - 1]
  /\ resolved' = c
  /\ UNCHANGED <<alive, managed, state, socket, port, dnsFinished, call, managerVars,
                 fd, view>>

DnsFinished ==
  /\ resolved # None
  /\ dnsFinished' = [dnsFinished EXCEPT ![resolved] = TRUE]
  /\ resolved' = None
  /\ UNCHANGED <<alive, managed, state, socket, ip, port, call, managerVars, fd,
                 lookups, view>>

-----------------------------------------------------------------------------
(* close(), abort(), _close() and the destructor *)

UserClose(t, c) ==
  /\ MayCall(t, "close") /\ c \in managed
  /\ isOpen(c)
  /\ call' = [call EXCEPT ![t] = AtCall("close", c)]
  /\ UNCHANGED <<objectVars, managerVars, lwipVars, view>>

CloseState(t) ==
  /\ call[t].step = "close"
  /\ state' = [state EXCEPT ![call[t].client] = "DISCONNECTING"]
  /\ call' = [call EXCEPT ![t].step = "exchange"]
  /\ UNCHANGED <<alive, managed, socket, ip, port, dnsFinished, managerVars, lwipVars, view>>

\* Faulty variant: _socket is read and stays published after ::close().
CloseLoad(t) ==
  /\ call[t].step = "exchange"
  /\ call' = [call EXCEPT ![t].step = "closeFd", ![t].fd = socket[call[t].client]]
  /\ UNCHANGED <<objectVars, managerVars, lwipVars, view>>

\* _socket.exchange(-1)
CloseExchange(t) ==
  LET c == call[t].client IN
  /\ call[t].step = "exchange"
  /\ call' = [call EXCEPT ![t].step = "closeFd", ![t].fd = socket[c]]
  /\ socket' = [socket EXCEPT ![c] = None]
  /\ UNCHANGED <<alive, managed, state, ip, port, dnsFinished, managerVars, lwipVars, view>>

\* ::close(); ::close(-1) fails without effect.  A destructor ends here.
CloseFd(t) ==
  /\ call[t].step = "closeFd"
  /\ fd' = IF call[t].fd = None THEN fd ELSE [fd EXCEPT ![call[t].fd] = "free"]
  /\ alive' = IF call[t].from = "destructor" THEN alive \ {call[t].client} ELSE alive
  /\ call' = [call EXCEPT ![t] = NoCall]
  /\ UNCHANGED <<managed, state, socket, ip, port, dnsFinished, managerVars, lookups,
                 resolved, view>>

removeConnection(c) == managed' = managed \ {c}

\* delete may be called anywhere, deleteSelf is the delete of a client in its
\* own DISCONNECT callback.
MayDelete(t, c) ==
  /\ \/ MayCall(t, "delete")
     \/ MayCall(t, "deleteSelf") /\ t = Mgr /\ cur = c /\ callback = "DISCONNECT"
  /\ t \in Impatient \/ Idle(c)

\* Faulty variant: the destructor does not call unmanage().
DeleteStillManaged(t, c) ==
  /\ MayDelete(t, c) /\ c \in alive /\ ~isOpen(c)
  /\ alive' = alive \ {c}
  /\ UNCHANGED <<managed, state, socket, ip, port, dnsFinished, call, managerVars,
                 lwipVars, view>>

\* ~Client(): unmanage(), then ~ClientBase() closes an open socket.
UserDelete(t, c) ==
  /\ MayDelete(t, c) /\ c \in managed
  /\ removeConnection(c)
  /\ IF isOpen(c)
     THEN /\ call' = [call EXCEPT ![t] = [AtCall("close", c) EXCEPT !.from = "destructor"]]
          /\ UNCHANGED alive
     ELSE alive' = alive \ {c} /\ UNCHANGED call
  /\ UNCHANGED <<state, socket, ip, port, dnsFinished, managerVars, lwipVars, view>>

-----------------------------------------------------------------------------
(* The manager task's loop *)

PendingWrite(c) == state[c] \notin {"DISCONNECTED", "CONNECTED"}

\* iterateClients() visits the registered clients with managerMutex locked;
\* its function picks the chosen ones.
iterateClients(chosen) == managed \cap chosen

\* Faulty variant: the test for socket # -1 is missing.
WriteSetUnchecked(some) ==
  {socket[c] : c \in iterateClients({d \in Clients : PendingWrite(d)} \cup some)}

\* A client is in sockSet_w when it is connecting or has data queued: some
\* are the CONNECTED clients of which the latter is true.
WriteSet(some) ==
  {socket[c] : c \in iterateClients(
     {d \in Clients : isOpen(d) /\ (PendingWrite(d) \/ d \in some)})}

ReadSet == {socket[c] : c \in iterateClients({d \in Clients : isOpen(d)})}

\* select() fails as soon as one descriptor in its sets is not open.
Select ==
  /\ ManagerRuns /\ cur = None /\ todo = {} /\ phase = "done"
  /\ \A f \in ReadSet : fd[f] # "free"
  /\ \E some \in SUBSET {c \in managed : state[c] = "CONNECTED"},
        data \in SUBSET {f \in Fds : fd[f] = "open"} :
       /\ wset' = WriteSet(some) \ {f \in Fds : fd[f] = "new"}
       /\ rset' = {f \in ReadSet : f \in data \/ fd[f] \in {"eof", "reset"}}
  /\ phase' = "select"
  /\ UNCHANGED <<objectVars, call, todo, cur, step, callback, lwipVars, view>>

\* A descriptor is closed, or was closed while the sets were collected: the
\* socket blocks have nothing to do, the others run as always.
SelectFails ==
  /\ ManagerRuns /\ cur = None /\ todo = {} /\ phase = "done"
  /\ wset' = {} /\ rset' = {}
  /\ phase' = "select"
  /\ UNCHANGED <<objectVars, call, todo, cur, step, callback, lwipVars, view>>

NextPhase ==
  [select |-> "write", write |-> "read", read |-> "dns", dns |-> "poll", poll |-> "done"]

\* iterateClients() collects the clients the next block handles.  Which of
\* them have been idle for POLL_INTERVAL is left open.
Collect ==
  /\ ManagerRuns /\ cur = None /\ todo = {} /\ phase # "done"
  /\ phase' = NextPhase[phase]
  /\ \E idle \in SUBSET managed :
       /\ phase # "dns" => idle = managed
       /\ todo' = CASE phase = "select" -> iterateClients({c \in Clients : socket[c] \in wset})
                    [] phase = "write"  -> iterateClients({c \in Clients : socket[c] \in rset})
                    [] phase = "read"   -> iterateClients({c \in Clients : dnsFinished[c]})
                    [] OTHER            -> idle
  /\ UNCHANGED <<objectVars, call, cur, step, callback, wset, rset, lwipVars, view>>

Dispatch ==
  /\ ManagerRuns /\ cur = None
  /\ \E c \in todo : cur' = c /\ todo' = todo \ {c}
  /\ step' = "start"
  /\ UNCHANGED <<objectVars, call, phase, callback, wset, rset, lwipVars, view>>

\* A handler returns to the loop, starts a nested call, or runs a callback.
Finish == cur' = None /\ step' = "none" /\ UNCHANGED <<call, callback, view>>
Goto(s) == step' = s /\ UNCHANGED <<call, cur, callback, view>>
Enter(s) ==
  /\ call' = [call EXCEPT ![Mgr] = AtCall(s, cur)]
  /\ cur' = None /\ step' = "none"
  /\ UNCHANGED <<callback, view>>
Invoke(type) ==
  /\ callback' = type
  /\ view' = [view EXCEPT ![cur] =
       CASE type = "CONNECT" -> "up"
         [] type = "ERROR" -> "failed"
         [] type = "DISCONNECT" -> "down"
         [] OTHER -> @]
  /\ step' = "none"
  /\ UNCHANGED <<call, cur>>

loopVars == <<phase, todo, wset, rset>>

-----------------------------------------------------------------------------
(* The socket handlers *)

\* _sockIsWriteable(): the state test and getsockopt(SO_ERROR).
SockIsWriteable ==
  /\ Handling("write", "start")
  /\ CASE state[cur] = "CONNECTED" -> Goto("drain")
       [] state[cur] # "CONNECTED" /\ SocketError(cur) -> Invoke("ERROR")
       [] OTHER -> Goto("promote")
  /\ UNCHANGED <<objectVars, loopVars, lwipVars>>

\* Faulty variant: the state stays CONNECTING.
SockConnectedForgotten ==
  /\ Handling("write", "promote")
  /\ Invoke("CONNECT")
  /\ UNCHANGED <<objectVars, loopVars, lwipVars>>

SockConnected ==
  /\ Handling("write", "promote")
  /\ state' = [state EXCEPT ![cur] = "CONNECTED"]
  /\ Invoke("CONNECT")
  /\ UNCHANGED <<alive, managed, socket, ip, port, dnsFinished, loopVars, lwipVars>>

\* The write queue is processed and cleaned up; lwip_write() may have failed.
SockDrain ==
  /\ Handling("write", "drain")
  /\ \/ state[cur] # "CONNECTED" /\ Finish
     \/ state[cur] = "CONNECTED" /\ Goto("notify")
     \/ state[cur] = "CONNECTED" /\ Broken(cur) /\ Invoke("ERROR")
  /\ UNCHANGED <<objectVars, loopVars, lwipVars>>

\* _cleanupWriteQueue() runs SENT for each buffer it removed.
NotifySent ==
  /\ Handling(phase, "notify")
  /\ Invoke("SENT")
  /\ UNCHANGED <<objectVars, loopVars, lwipVars>>

NotifyEnd ==
  /\ Handling(phase, "notify")
  /\ \/ phase = "write" /\ Finish
     \/ phase = "poll" /\ Goto("timeouts")
  /\ UNCHANGED <<objectVars, loopVars, lwipVars>>

\* _sockIsReadable()
SockIsReadable ==
  /\ Handling("read", "start")
  /\ \/ Broken(cur) /\ Invoke("ERROR")
     \/ Status(cur) = "eof" /\ Enter("close")
     \/ Status(cur) = "open" /\ (Finish \/ Invoke("RECV"))
  /\ UNCHANGED <<objectVars, loopVars, lwipVars>>

\* setDnsFinished(false), then _sockDelayedConnect().
DnsReset ==
  /\ Handling("dns", "start")
  /\ dnsFinished' = [dnsFinished EXCEPT ![cur] = FALSE]
  /\ Goto("resolve")
  /\ UNCHANGED <<alive, managed, state, socket, ip, port, loopVars, lwipVars>>

SockDelayedConnect ==
  /\ Handling("dns", "resolve")
  /\ IF ip[cur] THEN Enter("open") ELSE Invoke("ERROR")
  /\ UNCHANGED <<objectVars, loopVars, lwipVars>>

\* _sockPoll(): first the cleanup of the write queue.
SockPoll ==
  /\ Handling("poll", "start")
  /\ \/ state[cur] # "CONNECTED" /\ Finish
     \/ state[cur] = "CONNECTED" /\ Goto("notify")
     \/ state[cur] = "CONNECTED" /\ Broken(cur) /\ Invoke("ERROR")
  /\ UNCHANGED <<objectVars, loopVars, lwipVars>>

\* Then the timeouts: an RX timeout closes a connection that is not readable.
PollTimeouts ==
  /\ Handling("poll", "timeouts")
  /\ \/ state[cur] # "CONNECTED" /\ Finish
     \/ state[cur] = "CONNECTED" /\ (Invoke("TIMEOUT") \/ Invoke("POLL"))
     \/ /\ state[cur] = "CONNECTED"
        /\ Status(cur) \in {"open", "free", "new"}
        /\ Enter("close")
  /\ UNCHANGED <<objectVars, loopVars, lwipVars>>

\* _processingDone(), the test and then the assignment.
ProcessingDone ==
  /\ Handling("done", "start")
  /\ IF state[cur] = "DISCONNECTING" THEN Goto("fire") ELSE Finish
  /\ UNCHANGED <<objectVars, loopVars, lwipVars>>

FireDisconnect ==
  /\ Handling("done", "fire")
  /\ state' = [state EXCEPT ![cur] = "DISCONNECTED"]
  /\ Invoke("DISCONNECT")
  /\ UNCHANGED <<alive, managed, socket, ip, port, dnsFinished, loopVars, lwipVars>>

\* A callback returns; _error() goes on with _close(), CONNECT is followed by
\* the write queue, SENT by the next SENT.
CallbackReturn ==
  /\ callback # None /\ call[Mgr].step = "none"
  /\ callback' = None
  /\ step' = CASE callback = "CONNECT" -> "drain"
               [] callback = "SENT" -> "notify"
               [] OTHER -> "none"
  /\ cur' = IF callback \in {"CONNECT", "SENT"} THEN cur ELSE None
  /\ call' = IF callback = "ERROR" THEN [call EXCEPT ![Mgr] = AtCall("close", cur)]
             ELSE call
  /\ UNCHANGED <<objectVars, loopVars, lwipVars, view>>

PeerLeaves(f) ==
  /\ fd[f] = "open"
  /\ \E how \in {"eof", "reset"} : fd' = [fd EXCEPT ![f] = how]
  /\ UNCHANGED <<objectVars, call, managerVars, lookups, resolved, view>>

\* A server accepts a connection: Client(int socket) configures and publishes
\* the descriptor and is CONNECTED, then the ACCEPT callback is run with it.
SockAccept(c) ==
  /\ ManagerRuns /\ cur = None /\ todo = {} /\ phase = "read"
  /\ c \in Accepted \ alive
  /\ \E f \in Fds :
       /\ fd[f] = "free"
       /\ \/ fd' = [fd EXCEPT ![f] = "open"]
          \/ FcntlFails /\ UNCHANGED fd
       /\ socket' = [socket EXCEPT ![c] = f]
  /\ alive' = alive \cup {c} /\ managed' = managed \cup {c}
  /\ state' = [state EXCEPT ![c] = "CONNECTED"]
  /\ ip' = [ip EXCEPT ![c] = FALSE] /\ port' = [port EXCEPT ![c] = FALSE]
  /\ dnsFinished' = [dnsFinished EXCEPT ![c] = FALSE]
  /\ cur' = c /\ callback' = "ACCEPT"
  /\ view' = [view EXCEPT ![c] = "up"]
  /\ UNCHANGED <<call, step, loopVars, lookups, resolved>>

-----------------------------------------------------------------------------
CallProgress(t) ==
  \/ ConnectOpen(t) \/ ConnectSocket(t) \/ ConnectDial(t) \/ ConnectFails(t)
  \/ ConnectState(t) \/ ConfigureSocket(t) \/ ConnectAwait(t)
  \/ CloseState(t) \/ CloseExchange(t) \/ CloseFd(t)

UserCall(t, c) ==
  UserConnect(t, c) \/ UserConnectHost(t, c) \/ UserClose(t, c) \/ UserDelete(t, c)

ManagerProgress ==
  \/ Select \/ SelectFails \/ Collect \/ Dispatch
  \/ SockIsWriteable \/ SockConnected \/ SockDrain \/ NotifySent \/ NotifyEnd
  \/ SockIsReadable
  \/ DnsReset \/ SockDelayedConnect \/ SockPoll \/ PollTimeouts
  \/ ProcessingDone \/ FireDisconnect
  \/ CallbackReturn

DnsProgress == DnsFinished \/ \E c \in Clients : DnsFound(c)

Next ==
  \/ \E t \in Threads, c \in Clients : UserCall(t, c)
  \/ \E t \in Threads : CallProgress(t)
  \/ ManagerProgress
  \/ DnsProgress
  \/ \E c \in Clients : SockAccept(c)
  \/ \E f \in Fds : PeerLeaves(f)

Spec == Init /\ [][Next]_vars

\* Scheduling: the manager task and every thread inside a call keep running,
\* user callbacks return, a cleanup has a finite number of buffers to report,
\* select() does not fail for ever when all descriptors are open, and lwIP
\* answers DNS queries.
Fairness ==
  /\ SF_vars(ManagerProgress) /\ SF_vars(NotifyEnd) /\ SF_vars(Select)
  /\ \A t \in Threads : WF_vars(CallProgress(t))
  /\ WF_vars(DnsProgress)

FairSpec == Spec /\ Fairness

-----------------------------------------------------------------------------
(* Properties *)

TypeOK ==
  /\ alive \subseteq Clients /\ managed \subseteq Clients
  /\ state \in [Clients -> ConnectionState]
  /\ socket \in [Clients -> Fds \cup {None}]
  /\ ip \in [Clients -> BOOLEAN] /\ port \in [Clients -> BOOLEAN]
  /\ dnsFinished \in [Clients -> BOOLEAN]
  /\ call \in [Threads -> [step : CallStep, client : Clients \cup {None},
                           fd : Fds \cup {None}, from : {"user", "destructor"}]]
  /\ phase \in Phases /\ todo \subseteq Clients /\ cur \in Clients \cup {None}
  /\ step \in HandlerStep /\ callback \in CallbackType \cup {None}
  /\ wset \subseteq Fds /\ rset \subseteq Fds
  /\ fd \in [Fds -> {"free", "new", "open", "eof", "reset"}]
  /\ lookups \in [Clients -> Nat] /\ resolved \in Clients \cup {None}
  /\ view \in [Clients -> {"down", "up", "failed"}]

\* A descriptor lwIP has given out is in exactly one place, the _socket of a
\* client or a local variable of a connect() or _close() in progress, and no
\* place holds a descriptor that is closed: nothing leaks, nothing is closed
\* twice, and no two clients share a connection.
Holders(f) ==
  {<<c, "object">> : c \in {d \in Clients : socket[d] = f}} \cup
  {<<t, "call">> : t \in {u \in Threads : call[u].fd = f}}

FdOwnership ==
  \A f \in Fds : Cardinality(Holders(f)) = IF fd[f] = "free" THEN 0 ELSE 1

\* Nothing is left that refers to a destroyed client: not the manager's
\* list or its snapshot clientsProcessing, not a handler or a call in
\* progress, and not the argument of a DNS query.
NoUseAfterFree ==
  /\ managed \cup todo \subseteq alive
  /\ cur # None /\ callback # "DISCONNECT" => cur \in alive
  /\ \A t \in Threads : call[t].step # "none" => call[t].client \in alive
  /\ \A c \in Clients : lookups[c] > 0 \/ resolved = c => c \in alive

\* What the state of a client says of its socket when nobody is inside a
\* call on it: CONNECTED and CONNECTING mean open, the others closed.
StateMatchesSocket ==
  \A c \in alive :
    (\A t \in Threads : call[t].client # c) =>
      (isOpen(c) <=> state[c] \in {"CONNECTING", "CONNECTED"})

\* The callbacks follow the protocol of module CallbackProtocol.
Protocol == INSTANCE CallbackProtocol WITH
  running <- IF callback = None THEN None ELSE <<cur, callback>>

CallbacksFollowProtocol == Protocol!Spec

\* A connection that was closed, by whichever side, is reported through
\* DISCONNECT.
DisconnectReported ==
  \A c \in Clients :
    state[c] = "DISCONNECTING" ~> (cur = c /\ callback = "DISCONNECT")

\* "unsuccessful connect or error" (Client.hpp:83): a connect() that waits
\* for DNS ends in CONNECT or ERROR.
DelayedConnectReported ==
  \A c \in Clients :
    state[c] = "WAITING_FOR_DNS" ~>
      (cur = c /\ callback \in {"CONNECT", "ERROR", "DISCONNECT"})

\* An answer of lwIP, once announced, is handled by the manager task; no
\* connect(host) that is still on its way to WAITING_FOR_DNS loses it.
DnsAnswerHandled ==
  \A c \in Clients :
    dnsFinished[c] ~> (cur = c /\ step = "resolve") \/ c \notin managed

\* "notify all sockets waiting for DNS completion" (SocketConnection.tpp:230):
\* the delayed connect runs only for a client that is waiting, with the
\* port connect() was given.
DelayedConnectWhenWaiting ==
  [][SockDelayedConnect => state[cur] = "WAITING_FOR_DNS" /\ port[cur]]_vars
=============================================================================
