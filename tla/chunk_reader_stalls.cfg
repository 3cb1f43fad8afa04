CONSTANTS
  Csid = {2, 3}
  Sizes = {1, 3}
  DefaultSize = 2
  LongSize = 3
  MaxMessages = 3
  Stalls = TRUE
SPECIFICATION Spec
INVARIANT MessagesArriveWhole
CHECK_DEADLOCK FALSE
