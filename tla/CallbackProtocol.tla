-------------------------- MODULE CallbackProtocol --------------------------
(***************************************************************************)
(* What a user of the library may rely on when writing callbacks: they are *)
(* run one at a time, a client is told of a connection before it is told   *)
(* of anything that happens on it, no second CONNECT arrives before the    *)
(* DISCONNECT of the first, and after ERROR the only news is DISCONNECT.   *)
(***************************************************************************)
CONSTANTS Clients, None

VARIABLES
  view,     \* what the callbacks so far told the user of each client
  running   \* the callback being run, <<client, type>>, or None

vars == <<view, running>>

Init ==
  /\ view = [c \in Clients |-> "down"]
  /\ running = None

\* on successful connect
Connect(c) ==
  /\ view[c] = "down"
  /\ view' = [view EXCEPT ![c] = "up"]
  /\ running' = <<c, "CONNECT">>

\* a server hands out a client that is connected
Accept(c) ==
  /\ view[c] = "down"
  /\ view' = [view EXCEPT ![c] = "up"]
  /\ running' = <<c, "ACCEPT">>

\* data received, ack received, ack timeout, every 125ms when connected
Traffic(c) ==
  /\ view[c] = "up"
  /\ running' \in {c} \X {"RECV", "SENT", "TIMEOUT", "POLL"}
  /\ UNCHANGED view

\* unsuccessful connect or error
Error(c) ==
  /\ view[c] # "failed"
  /\ view' = [view EXCEPT ![c] = "failed"]
  /\ running' = <<c, "ERROR">>

\* disconnected
Disconnect(c) ==
  /\ view' = [view EXCEPT ![c] = "down"]
  /\ running' = <<c, "DISCONNECT">>

Return ==
  /\ running # None
  /\ running' = None
  /\ UNCHANGED view

Next ==
  \/ running = None /\ \E c \in Clients :
       Accept(c) \/ Connect(c) \/ Traffic(c) \/ Error(c) \/ Disconnect(c)
  \/ Return

Spec == Init /\ [][Next]_vars
=============================================================================
