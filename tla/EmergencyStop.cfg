SPECIFICATION MCSpec
CONSTANTS
  Feed = feed
  Humans = {h1}
  Orders = {1, 2, 3}
  None = None
  feed = feed
  h1 = h1
CHECK_DEADLOCK FALSE
INVARIANTS
  StopTypeOK
  StopInv
  LockedFlat
PROPERTIES
  ImplementsAccount
  ConfirmedCloseFlat
  CloseEnds
