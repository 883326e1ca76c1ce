SPECIFICATION FewCommitsSpec
CONSTANTS
  Ranks = {0, 3}
  FeedKinds = {"balance"}
  MaxClock = 2
  MaxRebases = 1
INVARIANTS
  TypeOK
  AdmissionTruthful
  AdmissionHeedsMetrics
  RebaseDurable
  NeverLessRestrictive
PROPERTIES
  LockOutlivesRestart
  ImplementsRecord
