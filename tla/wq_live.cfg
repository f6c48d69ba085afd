CONSTANTS
  Mgr = mgr
  Apps = {a}
  Adders = {a}
  Senders = {a}
  Closers = {mgr}
  Connectors = {}
  TCP_SND_BUF = 2
  SizeMod = 16
  NoOne = noone
  MaxSize = 2
  MaxBytes = 2
  MaxConn = 1
SPECIFICATION FairSpec
PROPERTIES
  EventuallyReported
INVARIANTS
  CreditsConserved
