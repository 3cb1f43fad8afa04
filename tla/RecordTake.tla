----------------------------- MODULE RecordTake -----------------------------
(***************************************************************************)
(* A take's life on the engine (directive.rs, tick.rs, record/): the       *)
(* directive handler opens and stops it, the render loop feeds it, and a   *)
(* thread of its own encodes, writes and finishes it.  The handler and the *)
(* render loop share one thread and change places only where one of them   *)
(* awaits; the record threads, and the blocking task in which show.stop    *)
(* finishes a take, run beside both.  A stop waits a bounded time for its  *)
(* record thread and leaves a late one to itself, so the threads of two    *)
(* takes may run at once, on one marker store.                             *)
(*                                                                         *)
(* Frames are counted, not told apart; a marker is the take it was made    *)
(* in; what the encoder, the disk and the surfaces do is left open.        *)
(***************************************************************************)
EXTENDS Integers, Sequences

CONSTANTS
  MaxTake,      \* bound on the takes started
  MaxMarker,    \* MAX_MARKERS: the store keeps the newest
  QueueBound    \* RECORD_CHANNEL_BOUND

ASSUME MaxTakeType == MaxTake \in Nat
ASSUME MaxMarkerType == MaxMarker \in Nat \ {0}
ASSUME QueueBoundType == QueueBound \in Nat \ {0}

Take == 1..MaxTake
Path == {"zeroCopy", "cpuReadback"}
Ready == [kind |-> "ready", take |-> 0]
Between == [at |-> "between", take |-> 0, loan |-> "none"]
NoSidecar == <<0>>

VARIABLES
  running,    \* whether the show's clock runs
  state,      \* record_state
  session,    \* record_session: the take, or 0
  tap,        \* record_tap: the take the audio driver pushes to, or 0
  selection,  \* record_tap_selection; a stop leaves it
  markers,    \* the marker store of the process
  takes,      \* the takes opened so far
  handler,    \* the directive being carried out, and the take it waits for
  tick,       \* the render loop's tick: how far, whose sender, what on loan
  thread,     \* each record thread, to what it reports at its end
  queue,      \* the frames waiting in its channel
  control,    \* the control messages waiting
  file,       \* its file: "none", "delta" or "keyframe" units, or "finished"
  sidecar,    \* the markers written beside the file
  chapters,   \* history: the markers made since the store was last emptied
  owed,       \* history: the chapters of each take when its stop began
  alone,      \* history: the takes no earlier thread was left to run in
  acked       \* history: the takes whose stop was acknowledged

stateVars == <<running, state, session, tap, selection, takes>>
threadVars == <<thread, queue, control, file, sidecar>>
historyVars == <<chapters, owed, alone, acked>>
vars == <<stateVars, markers, handler, tick, threadVars, historyVars>>

Alive(t) == thread[t] \in {"running", "clearing"}

TypeOK ==
  /\ running \in BOOLEAN
  /\ state \in {"idle", "recording"}
  /\ takes \in 0..MaxTake
  /\ session \in 0..takes /\ tap \in 0..takes
  /\ selection \in Path \union {"none"}
  /\ markers \in Seq(Take) /\ Len(markers) <= MaxMarker
  /\ handler \in {Ready} \union [kind : {"stop", "quiesce"}, take : 0..takes]
  /\ tick \in {Between} \union
       [at : {"begun", "drawn", "readback"}, take : 0..takes,
        loan : {"none", "surface", "dry", "cpu"}]
  /\ thread \in [Take -> {"unborn", "running", "clearing", "ok", "failed"}]
  /\ queue \in [Take -> 0..QueueBound]
  /\ control \in [Take -> Seq({"stop", "abandon"})]
  /\ file \in [Take -> {"none", "delta", "keyframe", "finished"}]
  /\ sidecar \in [Take -> Seq(0..MaxTake)]
  /\ chapters \in Seq(Take) /\ Len(chapters) <= MaxMarker
  /\ owed \in [Take -> Seq(Take)]
  /\ alone \subseteq Take /\ acked \subseteq Take

Init ==
  /\ running = FALSE /\ state = "idle" /\ session = 0 /\ tap = 0
  /\ selection = "none" /\ markers = <<>> /\ takes = 0
  /\ handler = Ready /\ tick = Between
  /\ thread = [t \in Take |-> "unborn"]
  /\ queue = [t \in Take |-> 0]
  /\ control = [t \in Take |-> <<>>]
  /\ file = [t \in Take |-> "none"]
  /\ sidecar = [t \in Take |-> NoSidecar]
  /\ chapters = <<>> /\ owed = [t \in Take |-> <<>>]
  /\ alone = {} /\ acked = {}

-----------------------------------------------------------------------------
(* Directives, on the main thread.                                         *)

\* A directive is taken up between ticks, or while a tick awaits a readback.
OnMain == handler = Ready /\ tick.at \in {"between", "readback"}

Emptied == markers' = <<>> /\ chapters' = <<>>

ShowStart ==
  /\ OnMain
  /\ running' = TRUE
  /\ UNCHANGED <<state, session, tap, selection, takes, markers, handler, tick,
                 threadVars, historyVars>>

\* load_package empties the store, whatever is being recorded.
ShowLoad ==
  /\ OnMain
  /\ Emptied
  /\ UNCHANGED <<stateVars, handler, tick, threadVars, owed, alone, acked>>

\* record.start refused: already recording, no directory, no space, no
\* encoder, no file.  The store is emptied by the attempt.
RecordStartRefused ==
  /\ OnMain /\ running
  /\ Emptied
  /\ UNCHANGED <<stateVars, handler, tick, threadVars, owed, alone, acked>>

\* record.start: a session with its thread and tap, and a frame path.
RecordStart ==
  /\ OnMain /\ running /\ state = "idle" /\ takes < MaxTake
  /\ selection' \in Path
  /\ takes' = takes + 1
  /\ Emptied
  /\ tap' = takes' /\ session' = takes' /\ state' = "recording"
  /\ thread' = [thread EXCEPT ![takes'] = "running"]
  /\ alone' = IF \E t \in Take : Alive(t) THEN alone ELSE alone \union {takes'}
  /\ UNCHANGED <<running, handler, tick, queue, control, file, sidecar,
                 owed, acked>>

MarkerAdd ==
  LET Kept(s) == IF Len(s) >= MaxMarker THEN Tail(s) ELSE s
  IN /\ OnMain /\ state = "recording"
     /\ markers' = Append(Kept(markers), takes)
     /\ chapters' = Append(Kept(chapters), takes)
     /\ UNCHANGED <<stateVars, handler, tick, threadVars, owed, alone, acked>>

\* What a thread that is gone is told is lost.
Tell(t, message) ==
  control' = IF Alive(t) THEN [control EXCEPT ![t] = Append(@, message)]
             ELSE control

\* Mutant: the stop empties the store itself, before the thread has written it.
TakeSessionEmpties(kind) ==
  /\ tap' = 0 /\ session' = 0
  /\ Tell(session, "stop")
  /\ handler' = [kind |-> kind, take |-> session]
  /\ owed' = [owed EXCEPT ![session] = chapters]
  /\ markers' = <<>>
  /\ UNCHANGED <<running, state, selection, takes, chapters, alone, acked>>

\* The session is taken from the state, and its thread told to stop.
TakeSession(kind) ==
  /\ tap' = 0 /\ session' = 0
  /\ Tell(session, "stop")
  /\ handler' = [kind |-> kind, take |-> session]
  /\ owed' = [owed EXCEPT ![session] = chapters]
  /\ UNCHANGED <<running, state, selection, takes, markers, chapters, alone,
                 acked>>

\* record.stop; without a session it only flips the state.
RecordStop ==
  /\ OnMain /\ state = "recording"
  /\ \/ session # 0 /\ TakeSession("stop")
     \/ /\ session = 0
        /\ tap' = 0 /\ state' = "idle"
        /\ UNCHANGED <<running, session, selection, takes, markers, handler,
                       control, historyVars>>
  /\ UNCHANGED <<tick, thread, queue, file, sidecar>>

\* show.stop with no take to end.
ShowStop ==
  /\ OnMain /\ ~(state = "recording" /\ session # 0)
  /\ running' = FALSE /\ state' = "idle"
  /\ UNCHANGED <<session, tap, selection, takes, markers, handler, tick,
                 threadVars, historyVars>>

\* show.stop { force }: the take is abandoned as it is.
ShowStopForced ==
  /\ OnMain /\ state = "recording" /\ session # 0
  /\ running' = FALSE /\ state' = "idle" /\ tap' = 0 /\ session' = 0
  /\ Tell(session, "abandon")
  /\ Emptied
  /\ UNCHANGED <<selection, takes, handler, tick, thread, queue, file, sidecar,
                 owed, alone, acked>>

\* show.stop: a blocking task ends the take while the handler awaits it.
ShowStopQuiesces ==
  /\ OnMain /\ state = "recording" /\ session # 0
  /\ handler' = [kind |-> "quiesce", take |-> 0]
  /\ UNCHANGED <<stateVars, markers, tick, threadVars, historyVars>>

Quiesce ==
  /\ handler = [kind |-> "quiesce", take |-> 0]
  /\ \/ session # 0 /\ TakeSession("quiesce")
     \/ /\ session = 0
        /\ tap' = 0 /\ state' = "idle" /\ running' = FALSE
        /\ Emptied /\ handler' = Ready
        /\ UNCHANGED <<session, selection, takes, control, owed, alone, acked>>
  /\ UNCHANGED <<tick, thread, queue, file, sidecar>>

\* The wait ends, and the session with it.
Ended ==
  /\ state' = "idle" /\ handler' = Ready
  /\ running' = (running /\ handler.kind = "stop")

\* Mutant: a failed finalize is acknowledged too.
ReportedWhatever ==
  /\ handler.take # 0 /\ thread[handler.take] \in {"ok", "failed"}
  /\ Ended /\ Emptied
  /\ acked' = acked \union {handler.take}
  /\ UNCHANGED <<session, tap, selection, takes, tick, threadVars, owed, alone>>

\* stop_and_finish hears the thread's report; only an Ok is acknowledged.
Reported ==
  /\ handler.take # 0 /\ thread[handler.take] \in {"ok", "failed"}
  /\ Ended /\ Emptied
  /\ acked' = IF thread[handler.take] = "ok" THEN acked \union {handler.take}
              ELSE acked
  /\ UNCHANGED <<session, tap, selection, takes, tick, threadVars, owed, alone>>

\* RECORD_STOP_TIMEOUT: the thread is told to give up and left to itself.
TimedOut ==
  /\ handler.take # 0
  /\ Ended
  /\ Tell(handler.take, "abandon")
  /\ UNCHANGED <<session, tap, selection, takes, markers, tick, thread, queue,
                 file, sidecar, historyVars>>

-----------------------------------------------------------------------------
(* The render loop.                                                        *)

\* A stop's wait holds the main thread; show.stop's does not.
LoopRuns == handler.kind # "stop"

\* produce_tick reads the state, then the session.
TickBegins ==
  /\ LoopRuns /\ tick = Between /\ state = "recording"
  /\ tick' = [at |-> "begun", take |-> session, loan |-> "none"]
  /\ UNCHANGED <<stateVars, markers, handler, threadVars, historyVars>>

\* Mutant: a chain loss drops the session without a word, on the tick that holds its
\* sender.
ChainLostSilently ==
  /\ tap' = 0 /\ session' = 0 /\ state' = "idle"
  /\ tick' = [tick EXCEPT !.at = "drawn", !.loan = "cpu"]
  /\ UNCHANGED <<running, selection, takes, control>>

\* end_take_on_chain_loss.
ChainLost ==
  /\ tap' = 0 /\ session' = 0 /\ state' = "idle"
  /\ IF session = 0 THEN UNCHANGED control ELSE Tell(session, "abandon")
  /\ tick' = [tick EXCEPT !.at = "drawn", !.loan = "cpu"]
  /\ UNCHANGED <<running, selection, takes>>

\* begin_tap_frame: a surface to draw into, none free, or the CPU path.  A
\* take that claims zero copy and shows no pool, or whose surface the
\* renderer refuses, has lost its chain.
TickDraws ==
  LET surface == selection = "zeroCopy"
  IN /\ LoopRuns /\ tick.at = "begun"
     /\ \/ /\ surface => tick.take # 0
           /\ \E l \in IF surface THEN {"surface", "dry"} ELSE {"cpu"} :
                tick' = [tick EXCEPT !.at = "drawn", !.loan = l]
           /\ UNCHANGED <<stateVars, control>>
        \/ surface /\ ChainLost
     /\ UNCHANGED <<markers, handler, thread, queue, file, sidecar,
                    historyVars>>

\* try_send: refused when the channel is full or the thread has gone.
Sent(t) ==
  queue' = IF Alive(t) /\ queue[t] < QueueBound
           THEN [queue EXCEPT ![t] = @ + 1] ELSE queue

\* end_tap_frame: the frame is handed over or skipped; a CPU frame is first
\* read back, and the handler may run meanwhile.
TickEnds ==
  /\ LoopRuns /\ tick.at = "drawn"
  /\ \/ tick' = Between /\ UNCHANGED queue
     \/ /\ tick.take # 0 /\ tick.loan = "surface"
        /\ tick' = Between /\ Sent(tick.take)
     \/ /\ tick.take # 0 /\ tick.loan = "cpu"
        /\ tick' = [tick EXCEPT !.at = "readback"] /\ UNCHANGED queue
  /\ UNCHANGED <<stateVars, markers, handler, thread, control, file, sidecar,
                 historyVars>>

ReadBack ==
  /\ LoopRuns /\ tick.at = "readback"
  /\ tick' = Between /\ Sent(tick.take)
  /\ UNCHANGED <<stateVars, markers, handler, thread, control, file, sidecar,
                 historyVars>>

-----------------------------------------------------------------------------
(* A record thread.                                                        *)

\* Who still holds the channel's sending end.
Sender(t) == session = t \/ handler.take = t \/ tick.take = t

\* The thread reports and is gone, and what waits in its channels with it.
Exits(t, report) ==
  /\ thread' = [thread EXCEPT ![t] = report]
  /\ queue' = [queue EXCEPT ![t] = 0]
  /\ control' = [control EXCEPT ![t] = <<>>]

\* handle_msg and drain_tap_fatal: a frame is skipped, or its units written,
\* or the writer fails.
Encode(t) ==
  /\ thread[t] = "running" /\ queue[t] > 0
  /\ \/ /\ queue' = [queue EXCEPT ![t] = @ - 1]
        /\ \E units \in {"none", "delta", "keyframe"} :
             file' = [file EXCEPT ![t] =
               IF units = "none" \/ @ = "keyframe" THEN @ ELSE units]
        /\ UNCHANGED <<thread, control>>
     \/ Exits(t, "failed") /\ UNCHANGED file
  /\ UNCHANGED <<stateVars, markers, handler, tick, sidecar, historyVars>>

\* Mutant: a stop waits for the take's first keyframe.
ReadStopAwaitsKeyframe(t) ==
  /\ thread[t] = "running" /\ queue[t] = 0
  /\ control[t] # <<>> /\ Head(control[t]) = "stop"
  /\ file[t] = "keyframe"
  /\ file' = [file EXCEPT ![t] = "finished"]
  /\ sidecar' = [sidecar EXCEPT ![t] = markers]
  /\ thread' = [thread EXCEPT ![t] = "clearing"]
  /\ UNCHANGED <<queue, control, stateVars, markers, handler, tick, historyVars>>

\* The control channel is read once the frames are, a stop first.  finish_take:
\* a take with a keyframe is finalized with its sidecar, or fails; either way
\* its markers go next.
ReadStop(t) ==
  /\ thread[t] = "running" /\ queue[t] = 0
  /\ control[t] # <<>> /\ Head(control[t]) = "stop"
  /\ \/ /\ file[t] = "keyframe"
        /\ file' = [file EXCEPT ![t] = "finished"]
        /\ sidecar' = [sidecar EXCEPT ![t] = markers]
        /\ thread' = [thread EXCEPT ![t] = "clearing"]
        /\ UNCHANGED <<queue, control>>
     \/ /\ thread' = [thread EXCEPT ![t] = "clearing"]
        /\ UNCHANGED <<queue, control, file, sidecar>>
     \/ /\ file[t] # "none" /\ Exits(t, "failed")
        /\ UNCHANGED <<file, sidecar>>
  /\ UNCHANGED <<stateVars, markers, handler, tick, historyVars>>

\* The markers go, then the report is sent.
ClearMarkers(t) ==
  /\ thread[t] = "clearing"
  /\ markers' = <<>>
  /\ Exits(t, IF file[t] = "finished" THEN "ok" ELSE "failed")
  /\ UNCHANGED <<stateVars, handler, tick, file, sidecar, historyVars>>

\* abandon_take.
ReadAbandon(t) ==
  /\ thread[t] = "running" /\ queue[t] = 0
  /\ control[t] # <<>> /\ Head(control[t]) = "abandon"
  /\ markers' = <<>>
  /\ Exits(t, "ok")
  /\ UNCHANGED <<stateVars, handler, tick, file, sidecar, historyVars>>

\* on_frames_gone, without a stop to honour: the crash-shape exit.
FramesGone(t) ==
  /\ thread[t] = "running" /\ queue[t] = 0 /\ ~Sender(t)
  /\ control[t] = <<>> \/ Head(control[t]) = "abandon"
  /\ Exits(t, "failed")
  /\ UNCHANGED <<stateVars, markers, handler, tick, file, sidecar, historyVars>>

-----------------------------------------------------------------------------
Thread(t) == \/ Encode(t) \/ ReadStop(t) \/ ClearMarkers(t) \/ ReadAbandon(t)
             \/ FramesGone(t)
Loop == TickBegins \/ TickDraws \/ TickEnds \/ ReadBack
Handler == Quiesce \/ Reported \/ TimedOut

Next ==
  \/ ShowStart \/ ShowLoad \/ RecordStartRefused \/ RecordStart \/ MarkerAdd
  \/ RecordStop \/ ShowStop \/ ShowStopForced \/ ShowStopQuiesces
  \/ Handler \/ Loop
  \/ \E t \in Take : Thread(t)

\* The waits are bounded and the loop ticks; a thread may hang, in the encoder
\* or on the disk.
Fairness == WF_vars(Handler) /\ WF_vars(Loop)

Spec == Init /\ [][Next]_vars /\ Fairness

-----------------------------------------------------------------------------
(* What the code promises.                                                 *)

\* A stop is acknowledged when the take's file and its sidecar are complete,
\* and only then (directive.rs on_record_stop, quiesce_record_for_show_stop).
AckedIsFinished ==
  \A t \in acked : file[t] = "finished" /\ sidecar[t] # NoSidecar

\* No chapter is lost: where no earlier take's thread was left to run, the
\* sidecar of a finished take holds every marker made since the store was
\* last emptied, across record and show stops, failures and chain losses.
ChaptersKept ==
  \A t \in acked \intersect alone : sidecar[t] = owed[t]

\* A sidecar holds the chapters of its own take (directive.rs on_record_stop:
\* a detached take's late finish owns its marker snapshot).
SidecarIsOwn ==
  \A t \in Take : file[t] = "finished" =>
    \A i \in DOMAIN sidecar[t] : sidecar[t][i] = t

\* No take is orphaned: a record thread belongs to the session, or is being
\* waited for, or has been told to end.
NoOrphanTake ==
  \A t \in Take : thread[t] = "running" =>
    session = t \/ handler.take = t \/ control[t] # <<>>

\* A thread that does not hang ends once its take is over, however late: every
\* way out of a session leaves it a message or closes its channel.
ThreadsEnd ==
  \A t \in Take : WF_vars(Thread(t)) =>
    (thread[t] = "running" /\ session # t ~> ~Alive(t))
=============================================================================
