------------------------------ MODULE Outputs ------------------------------
(***************************************************************************)
(* What the control plane believes about the recording and the stream, and *)
(* what the engine does with them.  The operator's output commands move    *)
(* the belief at once; acknowledgements, windows that run out and the      *)
(* engine's reports confirm it, doubt it or correct it, and a list of      *)
(* alerts tells the operator which of these is unsettled (alerts.ts).      *)
(*                                                                         *)
(* The channel is the one of module Playback: a frame is refused, read in  *)
(* order, or lost with its connection.  Acknowledgements and reports come  *)
(* up it in order; what the engine has queued survives a reconnect.        *)
(* A report's transport token is kept as what it says of the belief.       *)
(***************************************************************************)
EXTENDS Integers, Sequences

CONSTANTS
  Started,      \* whether the show was loaded and started ahead of the engine
  Commands,     \* bound: the commands the operators give
  MaxVersion,   \* bound: no command is accepted at this version
  MaxConn,      \* bound on the number of connections the engine makes
  MaxDown,      \* bound on the frames on their way to the engine
  Reporting     \* bound: whether the engine's reports are sent

ASSUME StartedType == Started \in BOOLEAN
ASSUME MaxVersionType == MaxVersion \in Nat
ASSUME MaxConnType == MaxConn \in Nat
ASSUME MaxDownType == MaxDown \in Nat
ASSUME ReportingType == Reporting \in BOOLEAN

Conn == 1..MaxConn
Output == {"stream", "record"}

VARIABLES
  (* the control plane: what it believes *)
  version,          \* state.stateVersion
  show,             \* state.showState
  record,           \* state.recordState
  stream,           \* state.streamState
  (* the control plane: OperatorSignals and the alert lane *)
  pending,          \* per output: the newest command's claim on the belief
  showStopPending,  \* the version of a show.stop in motion, 0 for none
  heldStop,         \* heldStopVersion, 0 for none
  waiting,          \* the show.stop commands in their wait
  report,           \* world.last: the newest report received
  hearing,          \* how long ago the engine was heard, against the TTL
  postdates,        \* the newest report was received after streamAnchor
  alerts,           \* the alert lane
  (* the control plane: its sessions, one per connection *)
  resyncs,          \* versions of the session's resyncs
  lastApplied,      \* the newest version acknowledged, -1 for none
  (* the connections *)
  hole,             \* a frame was refused since the last resync that was not
  down,             \* frames on their way to the engine
  up,               \* per connection: frames on their way to the control plane
  (* the engine *)
  conns,            \* connections made so far
  conn,             \* the connection run() reads from, 0 for none
  running,          \* the master clock runs
  recording,        \* a take is running
  streaming,        \* a stream session is open
  closing,          \* the stop whose outputs are being closed, or NoFrame
  outgoing,         \* OutgoingQueue: survives a reconnect
  (* history *)
  done,             \* a stream command this new is behind the engine
  taken,            \* outputs whose newest command reached its handler
  stopped           \* the newest stop the engine has carried out

beliefVars == <<version, show, record, stream>>
signalVars == <<pending, showStopPending, heldStop, waiting, report, hearing,
                postdates, alerts>>
sessionVars == <<resyncs, lastApplied>>
channelVars == <<hole, down>>
connVars == <<conns, conn>>
outputVars == <<running, recording, streaming, closing>>
historyVars == <<done, taken, stopped>>
engineVars == <<connVars, outputVars, outgoing, historyVars>>
vars == <<beliefVars, signalVars, sessionVars, channelVars, up, engineVars>>

StartCommand == {"record.start", "stream.start"}
StopCommand == {"record.stop", "stream.stop"}
OutputCommand == StartCommand \union StopCommand
Command == OutputCommand \union {"show.load", "show.unload", "show.start",
                                 "show.stop", "other", "resync"}

\* How show.stop is told to treat the outputs: quiesceOutputs, force, neither.
Mode == {"graceful", "force", "plain"}

\* A directive past a hole is out of sequence (ConnectionGate.expected_seq)
\* until a resync resets the gate.
DownFrame == [command : Command, sv : Nat, gap : BOOLEAN, mode : Mode,
              running : BOOLEAN]
NoFrame == [command |-> "none"]

Ack(v) == [kind |-> "ack", sv |-> v]
ResyncRequest == [kind |-> "resyncRequest"]
Report == [kind : {"report"}, streaming : BOOLEAN, done : Nat, conn : 0..MaxConn]
UpFrame == [kind : {"ack"}, sv : Nat] \union {ResyncRequest} \union Report

NoReport == [kind |-> "report", streaming |-> FALSE, done |-> 0, conn |-> 0]

\* Pending: a claim holds the belief until it is processed or expires.
Claim(command, v) ==
  [command |-> command, version |-> v, processed |-> FALSE, expired |-> FALSE]
NoClaim == [command |-> "none", version |-> 0, processed |-> TRUE,
            expired |-> FALSE]
ClaimOpen(o) == ~pending[o].processed
ClaimLive(o) == ~pending[o].processed /\ ~pending[o].expired

Alert == {"stream", "record", "divergence", "held", "notReporting"}

TypeOK ==
  /\ version \in Nat
  /\ show \in {"UNLOADED", "LOADED", "RUNNING", "STOPPED"}
  /\ record \in {"idle", "recording"}
  /\ stream \in {"idle", "live", "held"}
  /\ pending \in [Output -> [command : OutputCommand \union {"none"},
                             version : 0..version, processed : BOOLEAN,
                             expired : BOOLEAN]]
  /\ showStopPending \in 0..version
  /\ heldStop \in 0..version
  /\ waiting \subseteq 1..version
  /\ report \in Report
  /\ hearing \in {"fresh", "grace", "silent"}
  /\ postdates \in BOOLEAN
  /\ alerts \subseteq Alert
  /\ resyncs \in [Conn -> SUBSET Nat]
  /\ lastApplied \in [Conn -> Int]
  /\ hole \in BOOLEAN
  /\ down \in Seq(DownFrame)
  /\ up \in [Conn -> Seq(UpFrame)]
  /\ conns \in 0..MaxConn
  /\ conn \in 0..conns
  /\ running \in BOOLEAN
  /\ recording \in BOOLEAN
  /\ streaming \in BOOLEAN
  /\ closing \in DownFrame \union {NoFrame}
  /\ outgoing \in Seq(UpFrame)
  /\ done \in 0..version
  /\ taken \subseteq Output
  /\ stopped \in Nat

\* A cold start; or the show loaded (version 1) and started (version 2)
\* before an engine has connected.
Init ==
  /\ version = IF Started THEN 2 ELSE 0
  /\ show = IF Started THEN "RUNNING" ELSE "UNLOADED"
  /\ record = "idle"
  /\ stream = "idle"
  /\ pending = [o \in Output |-> NoClaim]
  /\ showStopPending = 0
  /\ heldStop = 0
  /\ waiting = {}
  /\ report = NoReport
  /\ hearing = "grace"
  /\ postdates = FALSE
  /\ alerts = {}
  /\ resyncs = [c \in Conn |-> {}]
  /\ lastApplied = [c \in Conn |-> -1]
  /\ hole = FALSE
  /\ down = <<>>
  /\ up = [c \in Conn |-> <<>>]
  /\ conns = 0
  /\ conn = 0
  /\ running = FALSE
  /\ recording = FALSE
  /\ streaming = FALSE
  /\ closing = NoFrame
  /\ outgoing = <<>>
  /\ done = 0
  /\ taken = {}
  /\ stopped = 0

-----------------------------------------------------------------------------
(* The control plane: commands                                             *)

\* The socket takes the frame or refuses it; a refusal leaves a hole in the
\* sequence, and a resync that is taken makes up for it.
Send(frame) ==
  IF conn = 0
  THEN UNCHANGED channelVars
  ELSE /\ Len(down) < MaxDown
       /\ \/ down' = down /\ hole' = TRUE
          \/ /\ down' = Append(down, frame)
             /\ hole' = (hole /\ frame.command # "resync")

\* An accepted command bumps the version once and sends one directive.
Accept(command, mode) ==
  /\ command \in Commands
  /\ version < MaxVersion
  /\ version' = version + 1
  /\ Send([command |-> command, sv |-> version + 1, gap |-> hole,
           mode |-> mode, running |-> show' = "RUNNING"])
  /\ UNCHANGED <<sessionVars, up, connVars, outputVars, outgoing, done, stopped>>

\* onAccepted: the newer command supersedes its output's last episode.
ClaimOutput(o, command) ==
  /\ pending' = [pending EXCEPT ![o] = Claim(command, version + 1)]
  /\ taken' = taken \ {o}
  /\ alerts' = alerts \ (IF o = "stream" THEN {"stream", "divergence"}
                                         ELSE {"record"})
  /\ UNCHANGED <<showStopPending, heldStop, waiting, report, hearing, postdates>>

RecordStart ==
  /\ show = "RUNNING"
  /\ record = "idle"
  /\ record' = "recording"
  /\ ClaimOutput("record", "record.start")
  /\ UNCHANGED <<show, stream>>
  /\ Accept("record.start", "plain")

RecordStop ==
  /\ record = "recording"
  /\ record' = "idle"
  /\ ClaimOutput("record", "record.stop")
  /\ UNCHANGED <<show, stream>>
  /\ Accept("record.stop", "plain")

\* A stream starts only from idle: a held one's state is unknown.
StreamStart ==
  /\ show = "RUNNING"
  /\ stream = "idle"
  /\ stream' = "live"
  /\ ClaimOutput("stream", "stream.start")
  /\ UNCHANGED <<show, record>>
  /\ Accept("stream.start", "plain")

StreamStop ==
  /\ stream \in {"live", "held"}
  /\ stream' = "idle"
  /\ ClaimOutput("stream", "stream.stop")
  /\ UNCHANGED <<show, record>>
  /\ Accept("stream.stop", "plain")

\* The show's lifecycle ends an unresolved hold.
Lifecycle(command, next) ==
  /\ show # "RUNNING"
  /\ show' = next
  /\ heldStop' = 0
  /\ alerts' = alerts \ {"held"}
  /\ UNCHANGED <<record, stream, pending, showStopPending, waiting, report,
                 hearing, postdates, taken>>
  /\ Accept(command, "plain")

\* show.load, its preflight await left out (module Playback has it).
ShowLoad == Lifecycle("show.load", "LOADED")
ShowUnload == Lifecycle("show.unload", "UNLOADED")

ShowStart ==
  /\ show = "LOADED"
  /\ show' = "RUNNING"
  /\ UNCHANGED <<record, stream, signalVars, taken>>
  /\ Accept("show.start", "plain")

Forward ==
  /\ UNCHANGED <<show, record, stream, signalVars, taken>>
  /\ Accept("other", "plain")

OutputsActive == record = "recording" \/ stream # "idle"

\* show.stop gave up on its acknowledgement: a live stream is in limbo, and
\* the hold is announced while an output is active (held()).
GiveUp(v) ==
  /\ stream' = IF stream = "live" THEN "held" ELSE stream
  /\ IF OutputsActive
     THEN /\ showStopPending' = 0
          /\ heldStop' = v
          /\ postdates' = FALSE
          /\ alerts' = alerts \union {"held"}
     ELSE /\ showStopPending' = showStopPending
          /\ UNCHANGED <<heldStop, postdates, alerts>>

\* show.stop is the only directive; it waits for its own acknowledgement when
\* it has outputs to stop and an engine to acknowledge it.
ShowStop(mode) ==
  /\ show = "RUNNING" \/ mode = "force"
  /\ ~(OutputsActive /\ mode = "plain")
  /\ show' = "STOPPED"
  /\ \/ /\ OutputsActive
        /\ conn = 0
        /\ GiveUp(version + 1)
        /\ UNCHANGED waiting
     \/ /\ ~(OutputsActive /\ conn = 0)
        /\ showStopPending' = version + 1
        /\ waiting' = waiting \union (IF OutputsActive THEN {version + 1} ELSE {})
        /\ UNCHANGED <<stream, heldStop, postdates, alerts>>
  /\ UNCHANGED <<record, pending, report, hearing, taken>>
  /\ Accept("show.stop", mode)

-----------------------------------------------------------------------------
(* The control plane: what it hears                                        *)

\* An acknowledgement at a version this session sent a resync at is the
\* resync's: it says nothing of a command and only moves the anchor.
ResyncAcked ==
  /\ postdates' = FALSE
  /\ UNCHANGED <<record, stream, pending, showStopPending, heldStop, waiting,
                 alerts>>

\* A later acknowledgement is taken for proof that a claim was processed.
Processes(o, v) == ClaimOpen(o) /\ pending[o].version <= v

\* The held stop is witnessed by its own acknowledgement, or by a later
\* output stop's own.
Witnessed(v) ==
  \/ v = heldStop
  \/ \E o \in Output : /\ Processes(o, v)
                       /\ pending[o].version = v
                       /\ pending[o].command \in StopCommand
                       /\ v >= heldStop

\* onApplied, then the waiter for exactly this version.
CommandAcked(v) ==
  LET ends == showStopPending # 0 /\ v >= showStopPending
      processed == {o \in Output : Processes(o, v)}
      clears == heldStop # 0 /\ Witnessed(v)
      met == v \in waiting
  IN /\ showStopPending' = IF ends THEN 0 ELSE showStopPending
     /\ pending' = [o \in Output |-> IF o \in processed
                                     THEN [pending[o] EXCEPT !.processed = TRUE]
                                     ELSE pending[o]]
     /\ postdates' = (postdates /\ ~ends /\ "stream" \notin processed)
     /\ heldStop' = IF clears THEN 0 ELSE heldStop
     /\ alerts' = alerts \ (processed \union (IF clears THEN {"held"} ELSE {}))
     /\ waiting' = waiting \ {v}
     /\ record' = IF met THEN "idle" ELSE record
     /\ stream' = IF met THEN "idle" ELSE stream

AckIgnored ==
  UNCHANGED <<record, stream, pending, showStopPending, heldStop, waiting,
              postdates, alerts>>

\* Mutant: every acknowledgement is a command's.
AnyAckIsOwn(c, v) == TRUE

OwnAck(c, v) == v \notin resyncs[c]

\* noteApplied: an acknowledgement at or below the session's newest is ignored.
ReceiveAck(c) ==
  /\ up[c] # <<>>
  /\ Head(up[c]).kind = "ack"
  /\ up' = [up EXCEPT ![c] = Tail(@)]
  /\ LET v == Head(up[c]).sv
     IN IF v <= lastApplied[c]
        THEN AckIgnored /\ UNCHANGED lastApplied
        ELSE /\ lastApplied' = [lastApplied EXCEPT ![c] = v]
             /\ IF OwnAck(c, v) THEN CommandAcked(v) ELSE ResyncAcked
  /\ UNCHANGED <<version, show, report, hearing, resyncs, channelVars,
                 engineVars>>

\* The report replaces the last one.
ReceiveReport(c) ==
  /\ up[c] # <<>>
  /\ Head(up[c]).kind = "report"
  /\ up' = [up EXCEPT ![c] = Tail(@)]
  /\ report' = Head(up[c])
  /\ hearing' = "fresh"
  /\ postdates' = TRUE
  /\ UNCHANGED <<beliefVars, pending, showStopPending, heldStop, waiting,
                 alerts, sessionVars, channelVars, engineVars>>

Resync ==
  [command |-> "resync", sv |-> version, gap |-> FALSE, mode |-> "plain",
   running |-> show = "RUNNING"]

\* resyncOnRequest: to the connection that asked, unless that is gone.
ReceiveRequest(c) ==
  /\ up[c] # <<>>
  /\ Head(up[c]).kind = "resyncRequest"
  /\ up' = [up EXCEPT ![c] = Tail(@)]
  /\ resyncs' = [resyncs EXCEPT ![c] = @ \union {version}]
  /\ IF c = conn THEN Send(Resync) ELSE UNCHANGED channelVars
  /\ UNCHANGED <<beliefVars, signalVars, lastApplied, engineVars>>

Receive(c) == ReceiveAck(c) \/ ReceiveReport(c) \/ ReceiveRequest(c)

-----------------------------------------------------------------------------
(* The control plane: what time brings                                     *)

\* Mutant: the expiry alert goes up beside "the engine is not reporting".
WindowElapsedAnyway(o) ==
  /\ ClaimLive(o)
  /\ pending' = [pending EXCEPT ![o].expired = TRUE]
  /\ postdates' = (postdates /\ o # "stream")
  /\ alerts' = alerts \union {o}
  /\ UNCHANGED <<beliefVars, showStopPending, heldStop, waiting, report,
                 hearing, sessionVars, channelVars, up, engineVars>>

\* windowElapsed: a claim nobody acknowledged ends.  While the engine is not
\* reporting, that alert speaks for it.
WindowElapsed(o) ==
  /\ ClaimLive(o)
  /\ pending' = [pending EXCEPT ![o].expired = TRUE]
  /\ postdates' = (postdates /\ o # "stream")
  /\ alerts' = IF "notReporting" \in alerts THEN alerts ELSE alerts \union {o}
  /\ UNCHANGED <<beliefVars, showStopPending, heldStop, waiting, report,
                 hearing, sessionVars, channelVars, up, engineVars>>

\* showStopTimer: the stop is no longer in motion.
ShowStopLapses ==
  /\ showStopPending # 0
  /\ showStopPending' = 0
  /\ UNCHANGED <<beliefVars, pending, heldStop, waiting, report, hearing,
                 postdates, alerts, sessionVars, channelVars, up, engineVars>>

\* waitForGrace runs out.
GraceExpires(v) ==
  /\ v \in waiting
  /\ waiting' = waiting \ {v}
  /\ GiveUp(v)
  /\ UNCHANGED <<version, show, record, pending, report, hearing, sessionVars,
                 channelVars, up, engineVars>>

\* The last report outlives the TTL; a registration younger than the TTL
\* (or the control plane's own start) still counts as having heard.
Age ==
  /\ hearing' \in CASE hearing = "fresh" -> {"grace", "silent"}
                    [] hearing = "grace" -> {"silent"}
                    [] OTHER -> {}
  /\ UNCHANGED <<beliefVars, pending, showStopPending, heldStop, waiting,
                 report, postdates, alerts, sessionVars, channelVars, up,
                 engineVars>>

\* beliefFromReport
Reported == IF report.streaming THEN "live" ELSE "idle"

NotReporting == hearing = "silent" /\ (conns > 0 \/ show = "RUNNING")

\* divergence(): what it can judge, and what contradicts the belief.
Judged ==
  /\ hearing = "fresh"
  /\ postdates
  /\ ~ClaimOpen("stream")
  /\ showStopPending = 0
  /\ alerts \intersect {"stream", "held"} = {}

Divergent == stream # "held" /\ stream # Reported

\* Mutant: a report from before the anchor corrects.
CorrectsWithoutAnchor ==
  /\ hearing = "fresh"
  /\ ~ClaimLive("stream")
  /\ showStopPending = 0
  /\ stream # Reported

\* Mutant: a held stream is left for the operator.
CorrectsAllButHeld ==
  /\ hearing = "fresh"
  /\ postdates
  /\ ~ClaimLive("stream")
  /\ showStopPending = 0
  /\ stream \notin {"held", Reported}

\* correction(): with no live claim, a fresh report that postdates the anchor
\* rules.
Corrects ==
  /\ hearing = "fresh"
  /\ postdates
  /\ ~ClaimLive("stream")
  /\ showStopPending = 0
  /\ stream # Reported

EngineSilent ==
  /\ NotReporting
  /\ alerts' = (alerts \ {"stream", "record", "divergence"})
                 \union {"notReporting"}
  /\ UNCHANGED <<version, stream>>

\* A correction bumps the version and sends no directive.
Judge ==
  /\ ~NotReporting
  /\ alerts' = IF ~Judged THEN alerts \ {"notReporting"}
               ELSE IF Divergent
               THEN (alerts \ {"notReporting"}) \union {"divergence"}
               ELSE alerts \ {"notReporting", "divergence"}
  /\ stream' = IF Corrects THEN Reported ELSE stream
  /\ version' = IF Corrects THEN version + 1 ELSE version

\* evaluate()
Evaluate ==
  /\ EngineSilent \/ Judge
  /\ UNCHANGED <<show, record, pending, showStopPending, heldStop, waiting,
                 report, hearing, postdates, sessionVars, channelVars, up,
                 engineVars>>

-----------------------------------------------------------------------------
(* The engine: connections                                                 *)

\* The session registers and its first frame is a resync; onRegistered moves
\* the anchor.  run() has returned from the last connection, so no stop is
\* still closing, and nothing sent before is read any more.
Connect ==
  /\ conn = 0
  /\ closing = NoFrame
  /\ conns < MaxConn
  /\ conns' = conns + 1
  /\ conn' = conns + 1
  /\ hole' = FALSE
  /\ down' = <<Resync>>
  /\ resyncs' = [resyncs EXCEPT ![conns + 1] = {version}]
  /\ hearing' = IF hearing = "silent" THEN "grace" ELSE hearing
  /\ postdates' = FALSE
  /\ done' = pending["stream"].version
  /\ UNCHANGED <<beliefVars, pending, showStopPending, heldStop, waiting,
                 report, alerts, lastApplied, up, outputVars, outgoing, taken,
                 stopped>>

\* What was on its way down is gone; of what was on its way up, a prefix
\* still arrives.
Drop ==
  /\ conn # 0
  /\ conn' = 0
  /\ hole' = FALSE
  /\ down' = <<>>
  /\ \E n \in 0..Len(up[conn]) : up' = [up EXCEPT ![conn] = SubSeq(@, 1, n)]

\* The connection breaks.  The engine plays, records and streams on.
Disconnect ==
  /\ Drop
  /\ UNCHANGED <<beliefVars, signalVars, sessionVars, conns, outputVars,
                 outgoing, historyVars>>

\* The engine process dies and comes back, with no output open.
Restart ==
  /\ Drop
  /\ running' = FALSE
  /\ recording' = FALSE
  /\ streaming' = FALSE
  /\ closing' = NoFrame
  /\ outgoing' = <<>>
  /\ UNCHANGED <<beliefVars, signalVars, sessionVars, conns, historyVars>>

\* The pump drains the queue.
Pump ==
  /\ conn # 0
  /\ outgoing # <<>>
  /\ up' = [up EXCEPT ![conn] = @ \o outgoing]
  /\ outgoing' = <<>>
  /\ UNCHANGED <<beliefVars, signalVars, sessionVars, channelVars, connVars,
                 outputVars, historyVars>>

\* pump_tick, on its own cadence: what was queued while it ran goes after it.
\* Bound: one report on its way at a time (a later one says no more).
SendReport ==
  /\ Reporting
  /\ conn # 0
  /\ \A i \in DOMAIN up[conn] : up[conn][i].kind # "report"
  /\ up' = [up EXCEPT ![conn] = Append(@,
       [kind |-> "report", streaming |-> streaming, done |-> done,
        conn |-> conn])]
  /\ UNCHANGED <<beliefVars, signalVars, sessionVars, channelVars, connVars,
                 outputVars, outgoing, historyVars>>

-----------------------------------------------------------------------------
(* The engine: applying                                                    *)

\* The frame run() reads next, when it is free to read.
Arriving ==
  IF conn # 0 /\ closing = NoFrame /\ down # <<>> THEN {Head(down)} ELSE {}

Read(f) ==
  /\ down' = Tail(down)
  /\ UNCHANGED <<beliefVars, signalVars, sessionVars, hole, up,
                 connVars>>

\* The gate lets the frame through.
Accepted(f) ==
  /\ Read(f)
  /\ f.command # "resync"
  /\ ~f.gap

\* History: the output command reached its handler; no stream command
\* older than a frame that was read is still to come.
Take(f) ==
  taken' = taken \union {o \in Output : pending[o].version = f.sv}

Over(f) ==
  done' = IF f.sv >= pending["stream"].version THEN pending["stream"].version
          ELSE done

\* Applied: acknowledged on the way out.
Applied(f) ==
  /\ Over(f)
  /\ outgoing' = Append(outgoing, Ack(f.sv))

\* Refused: no acknowledgement.
RefusedBy(f) ==
  /\ Over(f)
  /\ UNCHANGED outgoing

\* on_resync: the clock, and nothing about the outputs.
ReadResync ==
  \E f \in Arriving :
    /\ Read(f)
    /\ f.command = "resync"
    /\ running' = f.running
    /\ Applied(f)
    /\ UNCHANGED <<recording, streaming, closing, taken, stopped>>

\* A sequence gap: the frame is passed over and a resync asked for.
ReadGap ==
  \E f \in Arriving :
    /\ Read(f)
    /\ f.command # "resync"
    /\ f.gap
    /\ Over(f)
    /\ outgoing' = Append(outgoing, ResyncRequest)
    /\ UNCHANGED <<outputVars, taken, stopped>>

\* show.start, and commands with nothing to do with the outputs.
ApplyOther ==
  \E f \in Arriving :
    /\ Accepted(f)
    /\ f.command \notin OutputCommand \union {"show.stop"}
    /\ running' = (running \/ f.command = "show.start")
    /\ Applied(f)
    /\ UNCHANGED <<recording, streaming, closing, taken, stopped>>

\* on_record_start, on_stream_start
ApplyStart ==
  \E f \in Arriving :
    /\ Accepted(f)
    /\ running
    /\ \/ /\ f.command = "record.start"
          /\ ~recording
          /\ recording' = TRUE
          /\ UNCHANGED streaming
       \/ /\ f.command = "stream.start"
          /\ ~streaming
          /\ streaming' = TRUE
          /\ UNCHANGED recording
    /\ Applied(f)
    /\ Take(f)
    /\ UNCHANGED <<running, closing, stopped>>

\* What a stop command is about.
Stops(f) ==
  CASE f.command = "record.stop" -> recording
    [] f.command = "stream.stop" -> streaming
    [] OTHER -> recording \/ streaming

\* A stop that finalizes takes the session first: reports show it gone while
\* the file and the socket are still being closed, and run() reads nothing.
BeginClosing ==
  \E f \in Arriving :
    /\ Accepted(f)
    /\ \/ f.command \in StopCommand
       \/ f.command = "show.stop" /\ f.mode = "graceful"
    /\ Stops(f)
    /\ closing' = f
    /\ recording' = (recording /\ f.command = "stream.stop")
    /\ streaming' = (streaming /\ f.command = "record.stop")
    /\ Take(f)
    /\ UNCHANGED <<running, outgoing, done, stopped>>

\* The close succeeds, or fails and withholds the acknowledgement; either way
\* the output is gone, and show.stop stops the clock.
FinishClosing ==
  /\ closing # NoFrame
  /\ closing' = NoFrame
  /\ running' = (running /\ closing.command # "show.stop")
  /\ \/ Applied(closing) /\ stopped' = closing.sv
     \/ RefusedBy(closing) /\ UNCHANGED stopped
  /\ UNCHANGED <<beliefVars, signalVars, sessionVars, channelVars, up,
                 connVars, recording, streaming, taken>>

\* show.stop with nothing to close, or told to abandon it.
StopAtOnce ==
  \E f \in Arriving :
    /\ Accepted(f)
    /\ f.command = "show.stop"
    /\ Stops(f) => f.mode = "force"
    /\ running' = FALSE
    /\ recording' = FALSE
    /\ streaming' = FALSE
    /\ Applied(f)
    /\ stopped' = f.sv
    /\ UNCHANGED <<closing, taken>>

\* A start may be refused by its preconditions or by the machine; a stop is
\* refused when there is nothing to stop, and show.stop when it is told
\* neither to close the outputs nor to abandon them.
Refuse ==
  \E f \in Arriving :
    /\ Accepted(f)
    /\ \/ f.command \in StartCommand \union {"show.load", "other"}
       \/ f.command \in StopCommand /\ ~Stops(f)
       \/ f.command = "show.stop" /\ f.mode = "plain" /\ Stops(f)
    /\ RefusedBy(f)
    /\ Take(f)
    /\ UNCHANGED <<outputVars, stopped>>

\* end_take_on_chain_loss: the take ends on its own.
ChainLoss ==
  /\ recording
  /\ recording' = FALSE
  /\ UNCHANGED <<beliefVars, signalVars, sessionVars, channelVars, up,
                 connVars, running, streaming, closing, outgoing, historyVars>>

-----------------------------------------------------------------------------
ReadNext ==
  \/ ReadResync \/ ReadGap \/ ApplyOther \/ ApplyStart \/ BeginClosing
  \/ StopAtOnce \/ Refuse

Next ==
  \/ RecordStart
  \/ RecordStop
  \/ StreamStart
  \/ StreamStop
  \/ ShowLoad
  \/ ShowUnload
  \/ ShowStart
  \/ Forward
  \/ \E mode \in Mode : ShowStop(mode)
  \/ \E c \in Conn : ReceiveAck(c)
  \/ \E c \in Conn : ReceiveReport(c)
  \/ \E c \in Conn : ReceiveRequest(c)
  \/ \E o \in Output : WindowElapsed(o)
  \/ ShowStopLapses
  \/ \E v \in 1..version : GraceExpires(v)
  \/ Age
  \/ Evaluate
  \/ Connect
  \/ Disconnect
  \/ Restart
  \/ Pump
  \/ SendReport
  \/ ReadResync
  \/ ReadGap
  \/ ApplyOther
  \/ ApplyStart
  \/ BeginClosing
  \/ FinishClosing
  \/ StopAtOnce
  \/ Refuse
  \/ ChainLoss

Spec == Init /\ [][Next]_vars

\* Tasks and timers run: the engine's reader, its stops and its pump, the
\* control plane's message events, its windows.  The evaluator runs four times
\* a second and a report is fresh for two, so it sees one that keeps coming.
\* Nothing is assumed of commands, of the sockets or of the outputs.
FairSpec ==
  /\ Spec
  /\ WF_vars(ReadNext)
  /\ WF_vars(FinishClosing)
  /\ WF_vars(Pump)
  /\ WF_vars(SendReport)
  /\ \A c \in Conn : WF_vars(Receive(c))
  /\ \A o \in Output : WF_vars(WindowElapsed(o))
  /\ WF_vars(ShowStopLapses)
  /\ \A v \in 1..MaxVersion : WF_vars(v <= version /\ GraceExpires(v))
  /\ SF_vars(Evaluate /\ hearing = "fresh")

-----------------------------------------------------------------------------
(* What the signals promise                                                *)

\* The alerts are current: an output's unacknowledged alert is up only for a
\* claim that expired and is still unprocessed, the held alert exactly while a
\* stop is unwitnessed, and nothing about the outputs is claimed beside "the
\* engine is not reporting" (windowElapsed, evaluate, onAccepted, onApplied).
AlertsCurrent ==
  /\ \A o \in Output \intersect alerts : ClaimOpen(o) /\ pending[o].expired
  /\ "held" \in alerts <=> heldStop # 0
  /\ "notReporting" \in alerts =>
       alerts \intersect {"stream", "record", "divergence"} = {}

\* A correction never takes back what the operator asked for on evidence from
\* before it: the report it rests on was built once the engine would act on
\* nothing at or below the newest stream command, unless that command's claim
\* has expired or the report is a late one from an earlier connection.
CorrectionFollowsCommand ==
  [][(Evaluate /\ version' # version) =>
        \/ report.done >= pending["stream"].version
        \/ pending["stream"].expired
        \/ report.conn < conns]_vars

\* A resync's acknowledgement of an earlier connection, taken for a command's.
CarriedResync(v) ==
  \E c \in Conn : /\ up[c] # <<>>
                  /\ Head(up[c]) = Ack(v)
                  /\ \E b \in 1..(c - 1) : v \in resyncs[b]

\* The held alert stands until the show's lifecycle ends it or the engine has
\* carried out a stop no older than the held one (SPEC 10.1.2's clearing rule
\* for outputs.held), save for a resync's acknowledgement carried across a
\* reconnect.
HeldAlertIsWitnessed ==
  [][("held" \in alerts /\ "held" \notin alerts') =>
        \/ ShowLoad \/ ShowUnload
        \/ stopped >= heldStop
        \/ \E v \in heldStop..version : CarriedResync(v)]_vars

\* While the engine stays connected the stream's belief comes to the truth and
\* stays there: no refusal, lost command, withheld acknowledgement or hold
\* leaves it wrong for good (SPEC 10.1.4).
StreamBeliefSettles ==
  <>[](conn # 0) => <>[](stream = IF streaming THEN "live" ELSE "idle")

\* SPEC 10.1.2, (b): "A later acknowledgement proves processing because the
\* render node applies directives in arrival order".
ProcessedMeansRead ==
  \A o \in Output :
    pending[o].version # 0 /\ pending[o].processed
      => o \in taken

\* SPEC 10.1.3, first tier: the latest accepted command for the output holds
\* the belief until its acknowledgement.
StopKeepsNewerClaim ==
  [][\A c \in Conn :
       ReceiveAck(c) /\ record' # record
         => pending["record"].version < Head(up[c]).sv]_vars
=============================================================================
