\* From a show on the air: three commands, one reconnect, loads that fail.
CONSTANTS
  Item = {a, b}
  Timed = {a}
  Scene = {sc}
  SnapshotName = {s}
  Nothing = Nothing
  MaxVersion = 5
  MaxConn = 2
  MaxLoads = 1
  LoadMayFail = TRUE
SPECIFICATION OnAirSpec
INVARIANTS OnAirIsOnView 
CHECK_DEADLOCK FALSE
