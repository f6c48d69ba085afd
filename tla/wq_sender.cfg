CONSTANTS
  Mgr = mgr
  Apps = {a}
  Adders = {mgr}
  Senders = {a, mgr}
  Closers = {mgr}
  Connectors = {mgr}
  TCP_SND_BUF = 2
  SizeMod = 16
  NoOne = noone
  MaxSize = 2
  MaxBytes = 3
  MaxConn = 2
SPECIFICATION Spec
INVARIANTS
  TypeOK
  MutexDiscipline
  CreditsConserved
  SentAccounting
  QueueBelongsToConnection
  ClosedClientIsEmpty
  ConnectedHasSocket

  
