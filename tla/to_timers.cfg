CONSTANTS
  Mgr = mgr
  Setters = {mgr}
  POLL_INTERVAL = 1
  ACK_TIMEOUT = 1
  RX_TIMEOUT = 2
  MaxQueue = 2
SPECIFICATION FairSpec
INVARIANTS
  TypeOK
PROPERTIES
  NoPrematureClose
  SilentPeerClosed
  FirstStallSignalled
