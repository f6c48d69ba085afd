CONSTANTS
  Clients = {c1}
  Accepted = {}
  Fds = {f1}
  Mgr = mgr
  Apps = {a}
  None = none
  AppCalls = {"connectHost"}
  CallbackCalls = {}
  Impatient = {}
  FcntlFails = FALSE
  MaxLookups = 1
SPECIFICATION Spec
PROPERTIES
  DelayedConnectWhenWaiting
