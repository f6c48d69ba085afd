CONSTANTS
  HANDSHAKE_TIMEOUT = 3
  Wrap = 8
  MaxWait = 2
SPECIFICATION FairSpec
INVARIANTS
  TypeOK
  CertsAccountedFor
  CertsOutliveHandshake
  HandshakenIsVerified
PROPERTIES
  TimeoutHonoured
  HandshakeEnds
