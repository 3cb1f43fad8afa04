CONSTANTS
  Setups <- MCSetups
  RecordBound = 1
  StreamBound = 1
  MaxFrame = 5
  MaxPending = 2
  EncoderBacklog = 1
  Items = {i, j}
  i = i
  j = j
  Length = 2
  MaxLayers = 2
  LastFrame = 3
  MaxCommands = 3
  Package = {a, b}
  a = a
  b = b
  MaxLoads = 2
  MaxVersions = 2
  MaxFaults = 2
  MaxEvents = 5
SPECIFICATION MCSpec
SYMMETRY Names
INVARIANTS NoTornFrame  ReadersSettle ResyncAgrees ShownOrMissing
PROPERTIES MixIsSeamless NothingBeginsEarly OverlayFollowsCommand
CHECK_DEADLOCK FALSE
