SPECIFICATION SharedSpec
CONSTANTS
  Humans = {h1}
  WsThread = feed
  RequestIds = {r1}
  NoRequest = NoRequest
  Symbols = {s1, s2}
  MaxRevision = 1
  MaxPositions = 1
  LedgerLimit = 1
  Transactions = {t1}
  Sessions = {b1}
  None = None
  h1 = h1
  feed = feed
  r1 = r1
  s1 = s1
  s2 = s2
  t1 = t1
  b1 = b1
SYMMETRY Symmetry
INVARIANTS
  ExposureOnActiveSymbol
