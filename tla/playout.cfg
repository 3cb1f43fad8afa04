CONSTANTS
  Block = 2
  Target = 4
  Capacity = 6
  Period = 3
  Ahead = 1
  Latency = 2
  Realign = 1
  SlipAt = 0
  SilentLimit = 4
  CatchUp = 1
  MaxDrift = 1
  MaxShows = 1
  MaxTime = 8
  Second = 10
  Rate = 3
  Budget = 3
  Late = {0, 1, 4}
  Work = {1, 4, 8}
  Threshold = 2
  ClearAfter = 2
  RestoreAfter = 2
  Rung1After = 1
  Rung2After = 1
  MaxAge = 13
  MaxRuns = 2
  Length = 4
  HeadCap = 1
  Window = 2
  Depth = 1
  PerFrame = 2
  Buffers = 2
  Advance = {0, 1, 2}
SPECIFICATION MCSpec
INVARIANTS EachFrameAccounted PlayedInOrder HeardInSync
PROPERTIES StoppedRecovers WindowSettles LostGoesSilent
CHECK_DEADLOCK FALSE
