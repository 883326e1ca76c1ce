SPECIFICATION MCSpec
CONSTANTS
  Transactions = {t1}
  Sessions = {b1}
  None = None
  FirstSession = b1
  FirstSymbol = s1
  Symbols = {s1, s2}
  t1 = t1
  b1 = b1
  s1 = s1
  s2 = s2
CHECK_DEADLOCK FALSE
INVARIANTS
  StoppedBotHasNoFeed
