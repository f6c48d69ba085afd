CONSTANTS
  Clients = {c1, c2}
  Accepted = {}
  Fds = {f1, f2}
  Mgr = mgr
  Apps = {a}
  None = none
  AppCalls = {"connect"}
  CallbackCalls = {"connect", "connectHost", "close", "deleteSelf"}
  Impatient = {}
  FcntlFails = FALSE
  MaxLookups = 1
SPECIFICATION Spec
PROPERTIES
  CallbacksFollowProtocol
