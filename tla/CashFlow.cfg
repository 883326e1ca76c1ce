SPECIFICATION Spec
CONSTANTS
  e1 = e1
  e2 = e2
  Transfers = {e1, e2}
  MaxClock = 3
SYMMETRY Symmetric
CHECK_DEADLOCK FALSE
INVARIANTS
  TypeOK
  FlowOnce
  ProcessedAccounted
  CommitInv
PROPERTIES
  ImplementsFlows
