---------------------------- MODULE MCPlayback ----------------------------
EXTENDS Playback

\* A show on the air: a package loaded, the clock started, nothing on the View,
\* the engine connected and in step.  (Reached by a connect and two commands.)
OnAir ==
  /\ show = "RUNNING"
  /\ loads = 0
  /\ package = 1
  /\ itemState = AllReady
  /\ viewItem = Nothing
  /\ viewStart = 0
  /\ starts = 0
  /\ previewItem = Nothing
  /\ fallbackActive = FALSE
  /\ snapshots = [n \in SnapshotName |-> Unsaved]
  /\ version = 2
  /\ sent = 3
  /\ lost = FALSE
  /\ down = <<>>
  /\ up = [c \in Conn |-> <<>>]
  /\ conns = 1
  /\ conn = 1
  /\ expected = 3
  /\ view = Nothing
  /\ slate = FALSE
  /\ running = TRUE
  /\ loaded = 1
  /\ tracker = [c \in Conn |-> [item |-> Nothing, gen |-> 0]]
  /\ timers = {}
  /\ outgoing = <<>>
  /\ heard = [show |-> "RUNNING", view |-> Nothing, slate |-> FALSE]
  /\ raised = FALSE
  /\ sound = TRUE
  /\ muted = {}

OnAirSpec == OnAir /\ [][Next]_vars
OnAirFairSpec == OnAirSpec /\ Fair
=============================================================================
