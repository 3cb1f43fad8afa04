CONSTANTS
  Started = TRUE
  Commands = {"stream.start", "stream.stop", "record.start", "record.stop", "show.stop", "other"}
  MaxVersion = 4
  MaxConn = 1
  MaxDown = 1
  Reporting = TRUE
SPECIFICATION FairSpec
INVARIANT AlertsCurrent
PROPERTIES CorrectionFollowsCommand StreamBeliefSettles
