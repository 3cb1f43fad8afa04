\* From a show on the air: two commands, two reconnects, under fairness.
CONSTANTS
  Item = {a, b}
  Timed = {a}
  Scene = {sc}
  SnapshotName = {}
  Nothing = Nothing
  MaxVersion = 4
  MaxConn = 3
  MaxLoads = 1
  LoadMayFail = FALSE
SPECIFICATION OnAirFairSpec
INVARIANT EndIsPending
PROPERTY PlaybackEnds
CHECK_DEADLOCK FALSE
