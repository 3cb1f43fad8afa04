SPECIFICATION Spec
CONSTANTS
  Items = {"a", "b"}
  ClipItems = {"a", "b"}
  MusicItems = {"a"}
  Sounds = {"s", "t"}
  Resident = {"s"}
  Spaced = FALSE
  MaxIntents = 2
  MaxTakes = 3
  MaxOthers = 2
INVARIANT SoundFollowsPicture
