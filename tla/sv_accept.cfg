CONSTANTS
  Mgr = mgr
  Apps = {app1, app2}
  AppServers = {s1}
  CallbackServers = {s1, s2}
  Clients = {c1}
  ClientUsers = {mgr}
  Clearers = {mgr}
  Deleters = {mgr}
  DeletePhases = {"cleanup"}
  Alone = TRUE
  MAX_SOCKETS = 3
  BACKLOG = 1
  Nobody = nobody
SPECIFICATION FairSpec
INVARIANTS
  TypeOK
  FdHasOneOwner
PROPERTIES
  DroppedOnlyWhenCrowded
  PendingAccepted
