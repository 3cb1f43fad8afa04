\* A show.load inside its await while the show starts.
CONSTANTS
  Item = {a, b}
  Timed = {a}
  Scene = {sc}
  SnapshotName = {}
  Nothing = Nothing
  MaxVersion = 5
  MaxConn = 2
  MaxLoads = 1
  LoadMayFail = FALSE
SPECIFICATION Spec
PROPERTY LiveShowIsNotReplaced
CHECK_DEADLOCK FALSE
