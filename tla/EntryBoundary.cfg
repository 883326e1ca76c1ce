SPECIFICATION FairSpec
CONSTANTS
  Humans = {h1}
  WsThread = ws
  RequestIds = {r1, r2}
  h1 = h1
  r1 = r1
  r2 = r2
  ws = ws
  NoRequest = NoRequest
  Symbols = {s1}
  s1 = s1
  MaxRevision = 1
  MaxPositions = 2
  LedgerLimit = 1
INVARIANTS
  TypeOK
  AdmissionInv
  CommitUnderAuthority
  AnswerTruthful
  AtMostOnce
PROPERTIES
  RecordedNeverActs
  ImplementsDesk
  LockReleased
