SPECIFICATION Spec
CONSTANTS
  Workers = {w1, w2}
  Keys = {k1}
  Fingerprints = {f1, f2}
  w1 = w1
  w2 = w2
  k1 = k1
  f1 = f1
  f2 = f2
  Free = Free
  Ttl = 2
  Lease = 1
  Duration = 1
  CompletedRetention = 2
  FailedRetention = 3
  MaxActiveClaims = 1
  MaxTime = 3
  MaxClaims = 3
SYMMETRY Symmetry
INVARIANTS
  TypeOK
  OneRunner
  ReplayTruthful
  TriggerInv
PROPERTIES
  NotRepeated
  ImplementsRuns
