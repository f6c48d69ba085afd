CONSTANTS
  Mgr = mgr
  Apps = {}
  Adders = {mgr}
  Senders = {mgr}
  Closers = {mgr}
  Connectors = {mgr}
  TCP_SND_BUF = 2
  SizeMod = 16
  NoOne = noone
  MaxSize = 2
  MaxBytes = 4
  MaxConn = 2
SPECIFICATION Spec
INVARIANTS
  NoOvertaking
