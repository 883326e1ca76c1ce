SPECIFICATION FewUpdatesSpec
CONSTANTS
  Transactions = {t1, t2}
  Sessions = {b1, b2}
  None = None
  Symbols = {s1, s2}
  FirstSession = b1
  FirstSymbol = s1
  t1 = t1
  t2 = t2
  b1 = b1
  b2 = b2
  s1 = s1
  s2 = s2
CHECK_DEADLOCK FALSE
INVARIANTS
  TypeOK
  AuthoritativeFeedRuns
  PauseOwned
  SwitchInv
PROPERTIES
  ImplementsAuthority
  PauseEnds
