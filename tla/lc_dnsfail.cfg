CONSTANTS
  Clients = {c1}
  Accepted = {}
  Fds = {f1}
  Mgr = mgr
  Apps = {a}
  None = none
  AppCalls = {"connect"}
  CallbackCalls = {"connectHost"}
  Impatient = {}
  FcntlFails = FALSE
  MaxLookups = 1
SPECIFICATION FairSpec
PROPERTIES
  DelayedConnectReported
