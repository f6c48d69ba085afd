CONSTANTS
  Clients = {c1, c2}
  Accepted = {c2}
  Fds = {f1}
  Mgr = mgr
  Apps = {a}
  None = none
  AppCalls = {"close"}
  CallbackCalls = {"connect", "close", "deleteSelf"}
  Impatient = {mgr}
  FcntlFails = FALSE
  MaxLookups = 1
SPECIFICATION Spec
INVARIANTS
  FdOwnership
