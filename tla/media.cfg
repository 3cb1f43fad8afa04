CONSTANTS
  MaxStreams = 2
  MaxTicks = 3
  MaxShows = 2
  ResyncsLive = FALSE
  MaxBegun = 6
  ChannelBound = 1
  Capacity = 2
  MaxBatch = 2
  MaxPushed = 6
  FragmentTicks = 2
  PacketTicks = 1
  Gap = {1, 2}
  MaxUnit = 6
  MaxPreIdr = 2
  MaxVideo = 3
  MaxAudio = 3
  TailChunk = 2
  Priming = 1
  Csid = {2, 3}
  Sizes = {1, 3}
  DefaultSize = 2
  LongSize = 3
  MaxMessages = 3
  Stalls = FALSE
  Items = {"a", "b"}
  ClipItems = {"a", "b"}
  MusicItems = {"a"}
  Sounds = {"s", "t"}
  Resident = {"s"}
  Spaced = TRUE
  MaxIntents = 2
  MaxTakes = 3
  MaxOthers = 2
SPECIFICATION MCSpec
INVARIANTS NoSkipUnseen StampsNeverGoBack MessagesArriveWhole HeardInOrder TracksInStep FinishedIsWhole SoundFollowsPicture
CHECK_DEADLOCK FALSE
