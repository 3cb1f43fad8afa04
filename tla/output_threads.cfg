CONSTANTS
  MaxTake = 2
  MaxMarker = 2
  QueueBound = 1
  Track = {"video", "audio"}
  ChannelBound = 2
  MaxSent = 3
  MaxDials = 2
SPECIFICATION MCSpec
INVARIANTS AckedIsFinished ChaptersKept NoOrphanTake HeaderFirst
PROPERTIES ThreadsEnd TransportEnds
CHECK_DEADLOCK FALSE
