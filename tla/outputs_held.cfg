CONSTANTS
  Started = TRUE
  Commands = {"stream.start", "stream.stop", "show.stop", "show.load", "show.start", "show.unload"}
  MaxVersion = 5
  MaxConn = 2
  MaxDown = 1
  Reporting = FALSE
SPECIFICATION Spec
PROPERTY HeldAlertIsWitnessed
