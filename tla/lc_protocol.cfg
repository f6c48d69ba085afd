CONSTANTS
  Clients = {c1}
  Accepted = {c1}
  Fds = {f1}
  Mgr = mgr
  Apps = {a}
  None = none
  AppCalls = {"connect"}
  CallbackCalls = {"connect", "connectHost", "close", "deleteSelf"}
  Impatient = {}
  FcntlFails = TRUE
  MaxLookups = 1
SPECIFICATION FairSpec
INVARIANTS
  TypeOK
  StateMatchesSocket
  NoUseAfterFree
PROPERTIES
  CallbacksFollowProtocol
  DnsAnswerHandled
