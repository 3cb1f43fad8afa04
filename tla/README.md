# nbe: a TLA+ model of the control plane and the render engine

nbe runs a live show. A TypeScript **control plane** (`packages/control-plane`)
owns the state of the show and takes commands from operators, a Companion
surface and automation rules; a Rust **engine** (`crates/nbe-engine`) draws,
mixes, records and streams it. The two talk over one WebSocket, the *render
channel*. This directory holds the TLA+ specification of that system, its TLC
configurations, and proofs checked by TLAPS.

    tlc -config render_link.cfg MCRenderLink.tla      # a model-checking run
    tlapm RenderLinkProofs.tla                        # the proofs of a module

`PROJECT.json` lists the runs, the properties each one checks, the source lines
behind every definition, the mutants that show a property can fail, the
findings and the hazards.

## 1. The system

Paths are below `packages/control-plane/src` (CP) and `crates/nbe-engine/src`
(EN).

| Component | State it keeps | Operations | Correct when |
|---|---|---|---|
| Render channel, CP side: `render-bridge.ts`, `server.ts` | registered render sessions; per session a sequence number, the last sixteen resync versions, the newest acknowledged version, the acknowledged versions | register, fan out, send, resync on connect and on request, take an acknowledgement, forget | a session is registered only if its resync went out; a command's acknowledgement is never confused with a resync's |
| Render channel, EN side: `channel.rs`, `directive.rs` | the connection gate (resynced, expected sequence), last applied version, the outgoing queue | connect, read, classify, apply, pump, reconnect | no command is lost silently; nothing already applied is undone by something older |
| Rundown and show: `state.ts`, `commands/{view,sequence,state,show}.ts` | item states, View, Preview, slate flag, snapshots, package, show state | arm, preview, take, cut, fallback, stop, reset, save, recall, load, unload, start, stop | one item on air, and it is the one on the View; a running show is not replaced |
| Playback: EN `directive.rs`, `state.rs` | View item, slate, clock, loaded package, playback tracker, end timers | take, recall, fallback, load, start, stop, resync, the timer's end | the audience sees what the control plane says; every timed item ends, once |
| Command dispatch: `dispatch.ts`, `protocol.ts` | state version, token buckets | alias, validate, authorise, check base version, run the handler, bump, forward | one bump and at most one directive per command |
| Output control: `commands/output.ts`, `commands/show.ts`, `alerts.ts` | recording and stream beliefs, claims of pending commands, alerts, anchors | start, stop, acknowledge, expire, correct, raise, clear | a belief follows the newest command until an engine report says otherwise; an alert stands until what it says is no longer true |
| Persistence: `persistence.ts` | the state file, dirty flag | mark, flush, restore | a restart never comes back below what the engine applied |
| Automation: `automation.ts`, `nbe-core/automation*.rs` | rules, the queue, the frame limiter, timers | fire, enqueue, drain, hold, load | a hold stops everything not yet dispatched; a rule fires once per event |
| Engine loop: `clock.rs`, `tick.rs`, `render.rs`, `watchdog.rs` | master clock, frame counters, slate sources, ladder rung | tick, render, trip, clear, degrade, restore | every master frame is drawn in time or counted; a stopped show recovers |
| Picture: `directive.rs`, `scene.rs`, `render.rs` | View item, its start, the transition, overlays | take, mix, show, hide, draw | a mix never jumps, nothing begins before its frame |
| Package: `directive.rs`, `render.rs`, `audio_driver.rs` | the loaded package, its parts, a counter, each reader's copy | load, forget, reconcile, sync | a reader at rest holds the package the engine holds |
| Decode: `video.rs`, `read_ahead.rs`, `nbe-decode` | decode-session leases, a clip's window, its read-ahead thread | acquire, release, place, poll | a window that rests fills; a broken clip rests |
| Audio: `audio*.rs`, `limiter.rs` | the buses and their exchanges, the device ring and marks | take, fade, render, push, pop | what is heard belongs to what is seen, in order and when it is due |
| Recording: `record/*` | the take's state, session, record thread, surfaces, tap, fragments | start, feed, stop, abandon, finish | a take that was acknowledged as stopped is complete on disk, its tracks in step |
| Streaming: `record/stream.rs`, `record/rtmp.rs` | the session, its thread and publisher, their queues | open, hand over, dial, publish, redial, stop | no frame is lost uncounted; headers come first; a stop ends the transport |

How they interact. A command runs in `dispatch`: its handler changes the show's
state (some handlers await something in the middle), the state version goes up
by one, and at most one directive goes to every registered render session,
tagged with that version. The engine applies directives in order and
acknowledges each. If it sees a gap it asks for a *resync*, a whole snapshot;
every new connection starts with one. The engine's own events (an item ended,
is missing, cannot be decoded) and its reports come back on the same socket.

What is hard here: handlers that await with other sessions running in between;
frames refused by a full socket, lost with a connection, or left over from the
previous one; an engine that restarts with nothing; timers set for a playback
that a reconnect has superseded; and snapshots that bring back part of an older
state. In the engine, four or five threads share state without waiting for each
other: the directive handler and the render loop (one thread, changing places at
awaits), the audio driver, the device's callback, and a thread per output, each
with queues that shed and stops that give up waiting. `PROJECT.json` lists these
hazards at their lines.

## 2. The modules

| Module | What it is |
|---|---|
| `RenderLink` | the render channel, both ends |
| `VersionedReplica` | what the render channel promises: an engine that follows the command history and never skips or rewinds |
| `MCRenderLink` | its instance for TLC |
| `RenderLinkProofs` | its proofs |
| `Rundown` | the control plane's picture of the show, one action per command |
| `Playback` | extends `Rundown`: commands become directives, the engine follows, timers fire, events come back |
| `PlaybackProofs` | its proofs, and `Rundown`'s |
| `MCPlayback` | the instance for TLC, with a show already on the air as an initial state |
| `Outputs` | recording and stream: what the control plane believes, what the engine does, and the alerts in between |
| `OutputsProofs` | its proofs: types and alerts; what acknowledgements and reports are evidence of |
| `ViewTimeline` | takes, mixes and an overlay against the master frame |
| `PackageLoad` | a package's load, write by write, and the two threads that take it up |
| `TapFeed` | a drawn frame's way to the record and stream encoders, over pooled surfaces |
| `MCPicture` | the three above, for TLC |
| `PictureProofs` | the proofs of `TapFeed`, `PackageLoad` and `ViewTimeline` |
| `RecordTake` | a take across handler, render loop and record threads, with its chapters |
| `Publisher` | a stream's transport: dial, write, redial, stop |
| `MCOutputThreads` | the two above, for TLC |
| `OutputThreadsProofs` | their proofs |
| `AudioTap`, `TakeWriter` | the ring an output takes its sound from; the fragments of a take's file |
| `StreamSession` | a stream's starts and stops, its thread and its time stamps |
| `ChunkReader` | what the publisher hears from its peer |
| `Mixer` | the audio graph: takes, faders, exchanges through silence |
| `MCMedia` | the five above, for TLC |
| `MediaProofs` | the proofs of `AudioTap`, `StreamSession`, `Mixer` and `ChunkReader` |
| `FrameLoop` | the render loop's time, the watchdog and the ladder |
| `ClipWindow` | a clip's resident window and its read-ahead thread |
| `DeviceAudio` | the driver, the ring, the marks and the device's callback |
| `MCPlayout` | the three above, for TLC |
| `PlayoutProofs` | the proofs of `FrameLoop` |
| `DeviceAudioProofs` | the proofs of `DeviceAudio` |

`MCPicture`, `MCOutputThreads`, `MCMedia` and `MCPlayout` put components that
share no state in the models side by side: a variable `part`, chosen at the
start, says which of them the behaviour is about, and the others stay as they
began. Their states are the sum of their parts', not the product, and a property
of one says nothing of another. What does tie components together is in the
modules: `Playback` extends `Rundown`, `TakeWriter` extends `AudioTap`,
`RenderLink` refines `VersionedReplica`.

### RenderLink

*Data.* A directive is the state version it was sent at; the control plane's
state is the set `issued` of versions that had a directive; the engine's state
is the subset `has` of them it holds. That is all "nothing is lost, nothing
goes back" needs. `wire[c]` is every frame the control plane sent on connection
`c`, refused ones included (`sent = FALSE`), and `pos` how many of them the
engine has passed; `up[c]` is the other direction.

| Code | Model |
|---|---|
| `dispatch` bump and `bridge.send` | `Command`; `Bump` for a change that sends nothing |
| `WsRenderBridge.send`: `seq` is consumed even when the socket refuses | `FanOut`, `NextSeq` |
| handshake: register, build, send, or release everything | `Connect`, `HandshakeFails` |
| `resyncOnRequest` | `AnswerRequest` (sent or refused by the socket), `RequestTearsDown` |
| `noteApplied`, `waitForGrace` | `ReceiveAck`, `ShowStop`, `GraceExpires` |
| `forget` on close | `Close` |
| `RenderChannel::run`, `AbortOnDrop`, `run_forever` | `Connect`, `Leave`, `Pump`, `Restart` |
| `ConnectionGate::classify` | `Classify`, with its four verdicts in the code's order |
| `handle_frame` | `ApplyResync`, `RefuseResync`, `ApplyDirective`, `FailDirective`, `TurnAway` |

`direct` is a history variable: versions applied from their own directive.
An engine death between two connections is a death on leaving the first, so
`Restart` asks for `conn # 0`.

### Rundown

One action per command handler, its guard the handler's checks, plus the three
itemEvents. `LoadAsked`, `LoadRefused` and `ShowLoad` are the two halves of
`show.load`, whose handler awaits the preflight between its check and its
effect. `viewStart` stands for `viewItemTakenAtMs`: starts on the View are
numbered instead of timed. Not in it: element overrides, overlays, per-scene
states, guests and audio, which no modelled action reads.

### Playback

`Playback` gives every `Rundown` action its directive. A directive carries what
it means to the engine and, as history, `PictureAfter`: what the control plane
believed once the command was in. The channel is the abstraction `RenderLink`
justifies: a frame is refused, delivered in order, or lost with its connection;
a number that is not the expected one is turned away and asks for a resync.
The gate's stale branch is missing because `NothingIsTurnedAwayUnread`, a
theorem of `RenderLinkProofs`, shows nothing reaches it.

| Code | Model |
|---|---|
| `PlaybackTracker::{begin, clear, is_current}` | `Begin`, `StillPlaying`; one tracker per connection, as `run` makes one |
| `schedule_done` | `Schedule`, `Fire`; a timer that runs out on a stopped clock is recorded in `muted` |
| `on_take`, `on_recall`, `on_fallback`, `on_show_load`, clock directives | `ApplyTake`, `ApplyRecall`, `ApplyFallback`, `ApplyLoad`, `ApplyClock` |
| `on_resync` with its package reconcile | `ApplyResync` |
| a render failure engaging the held slate | `RenderFails` |
| `viewItemEnd`, `resyncSnapshot` | `ViewItemEnd`, `Resync` |
| `itemEvent` handling in `server.ts` | `ReceiveEvent` |

Time is left out: a timer that exists may fire at any moment, and must
eventually. A reported end therefore may come arbitrarily early or late with
respect to commands; that is the set of orders the code has to survive.

### Outputs

The control plane moves its belief (`record`, `stream`) when it accepts a
command, before the engine has seen it. `pending` keeps the newest command per
output until an acknowledgement settles it or its window runs out; a report of
the engine then confirms or corrects the belief. `show.stop` waits for its own
acknowledgement and otherwise holds the outputs.

| Code | Model |
|---|---|
| `record.start` ... `stream.stop` (`commands/output.ts`) | `RecordStart`, `RecordStop`, `StreamStart`, `StreamStop`; `ClaimOutput` is `onAccepted` |
| `show.stop` and its `afterForward` | `ShowStop`, then one of `ReceiveAck`, `GraceExpires` (or `GiveUp` at once without an engine) |
| `show.load`, `show.unload`, `show.start`, any other command | `ShowLoad`, `ShowUnload`, `ShowStart`, `Forward` |
| `noteApplied`, `onApplied` | `ReceiveAck`: `AckIgnored`, `ResyncAcked` or `CommandAcked` |
| `windowElapsed`, the `showStopTimer` | `WindowElapsed`, `ShowStopLapses` |
| `evaluate`: `notReporting`, `divergence`, `correction` | `Evaluate`: `EngineSilent`, or `Judge` with `Judged`, `Divergent`, `Corrects` |
| `on_record_start`, `on_stream_start` | `ApplyStart`, `Refuse` |
| `on_record_stop`, `on_stream_stop`, graceful `on_show_stop` | `BeginClosing`, `FinishClosing`; the reader reads nothing in between |
| `on_show_stop` forced, or with nothing to close | `StopAtOnce` |
| `end_take_on_chain_loss` | `ChainLoss` |
| `on_resync` | `ReadResync`: the clock, and nothing about the outputs |

*Abstracted.* Times become orders: `postdates` says whether the newest report
was received after `streamAnchor`, and `hearing` how the newest report or
registration compares with the TTL. A report's transport token is kept as
whether a stream session is open (`live` and `reconnecting` against `none` and
`closed`, the two groups the code maps tokens to). Sequence numbers are reduced to `hole`: whether a frame
was refused since the last resync, which is what the gate's comparison detects.
A session's memory of its resyncs is unbounded here (sixteen in the code; the
overflow is `RenderLink`'s). `show.load` is one step; `Playback` has its await.
The lane's audio and audit-sink alerts are left out: they read nothing else here.

History variables: `done` (no stream command up to this version is still to
come), `taken` (outputs whose newest command reached its handler), `stopped`
(the newest stop the engine carried out). `done` travels in a report to say
what the engine had behind it when it built the report.

### ViewTimeline

A take is issued for the next frame boundary. It writes the transition, the item
and the item's start one after the other; the render loop reads them one after
the other in the opposite order, while the clock moves on. Both sides are split
at each of these accesses.

| Code | Model |
|---|---|
| `apply_take`, `on_recall` | `TakeBegins`, `TakeWritesTransition`, `TakeWritesItem`, `TakeWritesStart` |
| a mix that interrupts a mix: what was on air becomes frozen layers, up to `MAX_UNDERLAY_LAYERS` | `Frozen`, `Beneath` |
| `frame_snapshot`, `scene_for`, `overlay_draws` | `ReadItem`, `ReadStart`, `DrawView` with `SceneFor`, `Settled`, `OverlayAlpha` |
| `on_overlay` show and hide | `ShowOverlay`, `HideOverlay` |

A mix and an overlay's animation have one length, and alpha is counted in parts
of it. One run of the clock; the slate over the View is `FrameLoop`'s.
`clear_view`, a resync's item and show.stop's dropping of the transition are not
here.

### PackageLoad

Each part of a loaded package holds the number of the load that wrote it; a path
does not tell two loads apart, since the files on disk may change between them.
Loading is a step per group of writes; the renderer and the audio driver notice
a counter and copy each part under a lock of its own.

| Code | Model |
|---|---|
| `show.load` and the resync's `reconcile_package` | `Load`, `Resync` with `Holds` |
| `load_package`, its errors, `forget_package` | `LoadBegins`, `ReadsFallback`, `ReadsManifest`, `InstallsMedia`, `InstallsIndex`, `LoadEnds`, `Fails`, `Forget` |
| `on_resync` after it: item, slate, the missing report | `ResyncApplies`, `SlateAfter`, `ReadMissing` |
| `sync_package` | `SyncBegins` ... `SyncSlate`, `Reacquire`, `Shed` |
| `sync_library` | `SyncLibrary`, `DriverSyncs` |

The items of a package share one id. Not told apart: decode failures and
quality, the limiter's ceiling, markers, the release of decode sessions.

### TapFeed

Surfaces are numbered; a picture is the number of the frame it shows. The render
loop picks a free surface of the shared pool or of the stream's own, draws, and
hands it on; the GPU completes draws later, in order; threads and encoders let
go when they like. Whether a surface is free is two readings
(`is_free`: the owners, then the encoder), and other threads move in between.

| Code | Model |
|---|---|
| `begin_tap_frame`, `acquire_record_surface`, `SurfacePool::acquire` | `LoanScan`, `LoanTaken`, `NoLoan` with `Scan`, `LetGo` |
| the stream's own surface in `run_tick` | `OwnScan`, `OwnTaken`, `NoOwn` |
| draw, `readback_view`, `end_tap_frame`, `hand_off_stream_surface` | `Draw`, `ReadBack`, `EndTapFrame`, `HandOffStream` |
| the consumers' threads and encoders | `Take`, `Encode`, `Drop`, `Release` |

### RecordTake

The handler and the render loop share a thread and change places only where one
awaits (`OnMain`, `LoopRuns`); the record threads run beside them. Frames are
counted, not told apart; a marker is the take it was made in.

| Code | Model |
|---|---|
| `on_record_start`, `on_record_stop`, `on_show_stop_inner`, `quiesce_record_for_show_stop` | `RecordStart`, `RecordStop`, `ShowStop`, `ShowStopForced`, `ShowStopQuiesces`, `Quiesce` |
| `stop_and_finish` with its bounded wait | `Tell`, `Reported`, `TimedOut` |
| `run_tick`'s part: chain loss, hand-over, readback | `TickBegins`, `ChainLost`, `TickDraws`, `TickEnds`, `ReadBack` |
| the record thread | `Encode`, `ReadStop`, `ClearMarkers`, `ReadAbandon`, `FramesGone` |

`chapters`, `owed`, `alone` and `acked` are history: what a take's sidecar owes,
which takes had no late predecessor, and which were acknowledged.

### AudioTap and TakeWriter

`AudioTap` is the ring between the audio thread and an output. The producer
never waits: with the ring full it evicts the oldest frame with a
compare-and-swap of the index the consumer is about to move. Every load and
store of an index, and every slot stored, is a step. Memory is sequentially
consistent in the model. `TakeWriter` reads that ring and cuts both
tracks into fragments (`try_emit`, `enforce_buffer_caps`, `finish`), each with the
place in either track it is written at (`at`, `from`: `emit_fragment`'s two
`base_ticks`); time is in ticks, and a frame of the tap makes one packet.

### Publisher

The stream thread's `send` (`Offer`, `TrySend`, `Credit`), the publisher task
(`Dial`, `Answered`, `Replay`, `Up`, `Top`, `TakeMessage`, `Write`, `Pause`,
`Redial`) and a session's stop (`Stop`, `ThreadAwaited`, `Signal`, `Notify`,
`Awaited`, `DropHandle`). The signal is a flag that is polled and a notification
that reaches the task only where it waits for one; a write of a queued message
listens for neither. The peer may read nothing, ever; only a fresh connection is
taken to have room for the headers, and the 800 ms a stop waits to outlast every
poll. A late refusal of publish, after the 50 ms of silence, goes live as in the
code.

### StreamSession

Directives come one after another, but a tick keeps the sender and the frame
number it has read while a stream is closed and the next is opened, and a stream
abandoned without waiting keeps its thread beside the next one's. `TickBegins`,
`ReadsState`, `TakesSender` and `HandsOver` are the loop; `Opens`, `Receives`,
`Drops`, `Encodes`, `Holds` and `Publishes` the thread; the skip counter is one
for all streams, as in the code. Not here: the stream's sound.

### ChunkReader

The peer's chunks, interleaved by chunk stream, with any sizes, against
`next_message` read field by field and the dialog that waits for answers. A byte
of a payload stands for as many as one likes. Compressed header forms 1 and 2,
time stamp values and the decoding of commands are not modelled.

### Mixer

Handlers queue intents (`Take`, `ClearView`, `Fader`, `Switch`, `Soundboard`);
before every block the graph's owner applies the batch (`ApplyTake`, ...) and
renders (`Render`, with `service_pending_swaps`). A take exchanges the sources of
the element buses through silence: fade out, exchange, fade in. Time is in
blocks; a ramp ends in its first or second. Sample values, the limiter, meters,
guest buses and taps are not modelled; a `BusSet` with gain and mute is two
intents in a row.

### FrameLoop

`run_loop`, step by step: `ReadClock`, `Aim`, `Sleep`, `Wake` (with
`CadenceTick`), `Render` (with `ReportFrame`), `Submit` (with `UpdateRung`), while
directives start and stop the clock and hold the slate. How late a wake is and
how long a draw takes are the inputs. Frames before a run's first drawn one are
counted nowhere in the code, and the property starts there.

### ClipWindow

A clip's window of slots moves with the index that is due; the render loop places
it, takes what the read-ahead thread has sent, and draws (`BeginFrame`, `Place`,
`TakePending`, `Receive`, `PumpEnds`, `Done`, `Draw`); the thread opens, sends
and ends; the GPU returns staging buffers (`Reclaim`). A broken clip that plays
past its readable end restarts a thread as the window moves; only a resting
window is quiet. `settle_read_ahead` is a test seam and left out.

### DeviceAudio

The device's callback marks which ring frame is heard when, behind a sequence
lock, and pops (`MarkOpen` ... `PopFrees`); the driver reads the marks, plans,
renders and pushes (`ReadSeq` ... `PushPublishes`); a device that is lost or quiet is
replaced by a null sink. A tick is one sample frame of the master clock; the
device's clock may drift. Not modelled: the counters of underruns, the push log
and presentation jitter, the values a respacing interpolates. The epoch is read
once per cycle, so a show starts and stops between cycles.

## 3. What the runs show

| Run | Checks | States | Result |
|---|---|---|---|
| `render_link` | `ReplicaExact`, `NothingTurnedAwayUnread`, `OwnAckOnItsConnection`, `ImplementsReplica`, `Converges` | 232,405 | hold |
| `playback_picture` | `OnAirIsOnView`, `PictureFollows` | 629,621 | hold |
| `playback_ends` | `EndIsPending`, `PlaybackEnds` | 57,366 | hold |
| `outputs_held` | `HeldAlertIsWitnessed` | 2,656,074 | hold |
| `outputs_settle` | `AlertsCurrent`, `CorrectionFollowsCommand`, `StreamBeliefSettles` | 808,597 | hold |
| `picture` | `MixIsSeamless`, `NothingBeginsEarly`, `OverlayFollowsCommand`; `ReadersSettle`, `ResyncAgrees`, `ShownOrMissing`; `NoTornFrame`, `CopyIsCurrent` | 2,667,774 | hold |
| `media` | `HeardInOrder`, `TracksInStep`, `FinishedIsWhole`; `NoSkipUnseen`, `StampsNeverGoBack`; `MessagesArriveWhole`; `SoundFollowsPicture` | 2,965,842 | hold |
| `output_threads` | `AckedIsFinished`, `ChaptersKept`, `NoOrphanTake`, `ThreadsEnd`; `HeaderFirst`, `TransportEnds` | 921,222 | hold |
| `playout` | `EachFrameAccounted`, `StoppedRecovers`; `WindowSettles`; `PlayedInOrder`, `HeardInSync`, `LostGoesSilent` | 911,321 | hold |
| `playback_load_race` | `LiveShowIsNotReplaced` | | violated |
| `mixer_takes_close` | `SoundFollowsPicture` | | violated |
| `chunk_reader_stalls` | `MessagesArriveWhole` | | violated |

What the properties say, beside the comment each one carries in its module:

- `ReplicaExact`: what the engine holds is exactly what was issued up to its
  applied version, less what it reported as failed. `ImplementsReplica` is the
  same promise for whole behaviours, with `VersionedReplica` as the abstract
  specification.
- `NothingTurnedAwayUnread`: no directive reaches the gate ahead of its resync
  or behind the applied version.
- `OwnAckOnItsConnection`: an acknowledgement counted as a directive's own is
  one, except for two causes the property names: it was left over from an
  earlier connection's resync, or the session has forgotten the resync.
- `Converges`: while the session stands and its newest frame was taken by the
  socket, the engine comes to hold everything.
- `PictureFollows`: slate and View on the engine are the control plane's at the
  newest frame applied, save for a slate the engine raised itself.
- `EndIsPending`: a timed item PLAYING in a running show has an end scheduled,
  queued or on its way. `PlaybackEnds` is its liveness counterpart.
- `HeldAlertIsWitnessed`: "outputs held" is taken down only by show.load or
  show.unload, or once the engine has carried out a stop no older than the held
  one. Its one exception is the carried-over resync acknowledgement
  (`StopAckExact` below).
- `CorrectionFollowsCommand`: a report corrects the stream's belief only if the
  engine built it with every stream command behind it, or the command's claim
  has expired. A report still on its way from an earlier connection is the named
  exception.
- `AlertsCurrent`: an alert is up only while what it says is so.
- `StreamBeliefSettles`: an engine that stays connected has its stream's state
  believed in the end, whatever was refused, withheld or held.
- `MixIsSeamless`, `NothingBeginsEarly`, `OverlayFollowsCommand`: a mix begins,
  and interrupts another, without a jump in any layer; no item is shown before its frame,
  wherever the loop's reads fall among a take's writes; the overlay ends as the
  last command wanted.
- `ReadersSettle`, `ResyncAgrees`, `ShownOrMissing`: a reader that has caught up
  holds the engine's package and no part of another; after a resync the engine
  holds the named load whole or nothing; an item put on air without its package
  is covered by the slate on both sides.
- `NoTornFrame`: an encoder reads the frame it was given for as long as it reads.
  `CopyIsCurrent`: a copy shows the newest View.
- `AckedIsFinished`, `ChaptersKept`, `NoOrphanTake`, `ThreadsEnd`: a stop is
  acknowledged only for a complete file; no marker of a take that ran alone is
  lost; every running thread belongs to the session, is waited for or has been
  told; one that does not hang ends.
- `HeardInOrder`, `TracksInStep`, `FinishedIsWhole`: the tap loses frames but
  never swaps, repeats or mangles one; each fragment of a file continues both tracks
  and they stay within a packet; nothing kept stays behind at the end.
- `HeaderFirst`, `TransportEnds`: every connection announces a track before it
  sends it; a stop ends the transport although its peer reads nothing.
- `NoSkipUnseen`, `StampsNeverGoBack`: every frame the loop had a live stream for
  is in exactly one place and a lost one is counted; a stream's time never goes
  back.
- `MessagesArriveWhole`, `SoundFollowsPicture`: see their comments; each is also
  violated in a run of its own, where a circumstance left out above is let in.
- `EachFrameAccounted`, `StoppedRecovers`: between two ticks every master frame
  of the run was submitted in time or is counted, once; a stopped show lets go
  of the watchdog's slate and the ladder.
- `WindowSettles`, `PlayedInOrder`, `HeardInSync`, `LostGoesSilent`: a resting
  window fills or its thread rests; the device is handed the ring's next frames,
  heard when they were due within the tolerance of a realignment; a lost device
  is replaced.

### Where the code departs from what is written about it

Three runs show it; each is a finding in `PROJECT.json`.

1. `playback_load_race` (`commands/show.ts:22`): the check comes before the
   preflight's await, so a show started meanwhile is replaced while live.
2. `mixer_takes_close` (`audio.rs:434`): a take that finds its bus just silent
   installs its sources at once, and the exchange an earlier take left waiting
   is made after it: the earlier item's sound under the later picture. `Spaced`
   keeps takes an exchange apart in `media`.
3. `chunk_reader_stalls` (`rtmp.rs:1563`): the wait for publish's answer drops a
   read inside a chunk; what follows is read as headers. `Stalls` lets a peer
   fall silent inside a chunk.

More was met while modelling. These definitions are in the modules, and a
configuration with the constants named shows each of them violated:

| Definition | With | What happens |
|---|---|---|
| `RenderLink!StopAckExact` | `MaxVersion = 2`, `MaxConn = 3`, `ResyncMemory = 16` | the engine's queue outlives a connection: a resync's acknowledgement left in it resolves a later session's show.stop |
| `Playback!OneEndPending` | `MCPlayback`'s `OnAirSpec`, `MaxVersion = 5`, `MaxConn = 2` | the tracker is the connection's, so a resync does not supersede the earlier connection's timer |
| `Playback!CompletedByOwnEnd` | the same | an end completes whatever playback of its item is current |
| `Playback!EndIsPending` | a snapshot name, `MaxVersion = 6`, `MaxConn = 1` | recalling a snapshot of an item still on the View restores PLAYING and starts nothing |
| `Outputs!ProcessedMeansRead` | `Commands` record start and stop and other, `MaxVersion = 5` | a later acknowledgement proves nothing about a command whose frame was refused and covered by a resync |
| `Outputs!StopKeepsNewerClaim` | record and stream start, show stop, load and start, `MaxVersion = 7` | show.stop's acknowledgement sets an output idle that was started during its wait |
| `TapFeed!CopyIsCurrent` | a CPU take beside a stream | the take reads back the built-in View target, which the stream's surface has replaced |
| `StreamSession!StampsNeverGoBack` | `MaxStreams = 1`, `ResyncsLive = TRUE` | a resync restarts the clock under a live stream, whose time goes back |
| `TakeWriter!NothingStranded` | `media`'s constants | units behind a shed one are not all written at the finish |
| `Publisher!BufferedIsExact` | `output_threads`' constants | a message credited after the task has debited it leaves the measure of the buffer too high |
| `PackageLoad!ForgottenIsSilent` | `picture`'s constants | a package forgotten in a resync still sounds: nothing tells the audio graph |
| `RecordTake!SidecarIsOwn` | `output_threads`' constants | the late finish of an abandoned take writes the markers of the next |

Read in the code, without a definition: overlays and `view_item_start_frame` keep
frame numbers over a stopped and restarted show (`directive.rs:578`); a take that
lands after its frame's boundary shows one frame of the outgoing item at full
(`directive.rs:789`); interrupting a mix from black at its very start draws its
item at full (`render.rs:985`); a failed `show.load` leaves the new
`package_path` behind; the comment at `state.rs:219` (a session exactly while
Live) is not so while a stop is awaited.

### Bounds

`render_link` takes two versions and two connections with a resync memory of
one instead of sixteen. Two versions are enough for a gap (the first is refused,
the second lands) and for a stop overtaken by a command; two connections for
everything an earlier connection leaves behind; a memory of one overflows with
the second resync. Larger instances were run by hand without a violation: three
versions on two connections (6.5 million states) and two on three (8.7 million).
The safety properties are also proved for all bounds.

`playback_picture` starts from a show on the air, a state reached by one
connect and two commands, and takes three more commands, a reconnect, loads
that fail on the engine, and a saved snapshot. The items are one timed, one
not: an item that ends and one that replaces it. `playback_ends` takes two
commands and two reconnects and no snapshots, with fairness. The bounds
`MaxVersion`, `MaxConn`, `MaxLoads` sit in the guards of the actions they bound.

`outputs_held` starts with the show loaded and started before an engine
connects (`Started`, two versions) and takes three more commands: enough to
start a stream, have its stop held, and load, start and stop again past the
hold, over two connections. Reports are off (`Reporting`), because nothing the
property reads depends on them. `outputs_settle` takes two more commands on one
connection with reports, both outputs and the unrelated command, and fairness;
`CorrectionFollowsCommand` was also run by hand with two connections (4.6
million states). `MaxDown` bounds the frames on their way down, `Commands` the
commands given. One report at a time is on its way: a second says no more.

`picture`: three commands make a mix that interrupts a mix and a take behind it,
over mixes of two frames; queues of one make pools of five and three surfaces, so
six frames come round to a surface again; two loads over two packages, with two
faults, give each reader a load that overtakes its copy. `MaxEvents` bounds a
package's loads, commands and faults together at five, so one of each kind stands
beside any pair. `MCSetups` leaves out
the CPU take beside a stream (the table above). Packages and items are symmetric.

`media`: a ring of two frames wraps three times under pushes of two; six units,
with caps of three, shed, fill and cut several fragments; two streams, two shows
and three ticks are a tick held across a stop and the next start, and `MaxBegun`
bounds them together at six: only all seven at once is left out; three messages
on two chunk streams interleave under a changed size; three takes and two other
commands leave an exchange waiting under a second take.

`output_threads`: two takes, the second beside the first's late thread, two
markers (the store's cap), a queue of one; two dials, three messages.

`playout`: eight time units and a device period of three are several callbacks
around a ring of three blocks, with a drift of one; thirteen ticks at three
frames in ten and draws of up to eight run into the watchdog and both rungs; a
clip of four frames under a window of two moves, wraps and breaks. The code's
constants keep their relations (`ClearAfter = RestoreAfter`; the ring holds the
target and a block) but not their sizes.

`CHECK_DEADLOCK` is off where a system at its bounds has nothing left to do; in
`Outputs` the evaluator always has.

### Fairness

Weak fairness, on tasks that are loops in the code: the engine's reader, its
pump, its reconnect loop and its timers (tokio tasks), the control plane's
message and close handlers (the event loop), the render loop, the read-ahead
thread, the audio driver, the device while it lives, and the bounded waits of a
stop. Nothing is assumed of operators, of whether a socket takes a frame, of when
a connection breaks, or of a peer; the liveness properties name those cases as
their way out. A record thread may hang in the encoder or on the disk:
`ThreadsEnd` asks only for one that does not.

Two assumptions are strong fairness. In `Outputs` the evaluator, an interval of
250 ms, runs again and again while the newest report is fresh, which lasts
2000 ms; a report cannot keep turning fresh and stale between two evaluations. In
`ClipWindow` the GPU's returned buffers are taken back where a frame begins, which
comes round with every frame.

`MCOutputThreads` and `MCPlayout` restate their parts' fairness for the behaviours
about them. `StreamSession`, `TapFeed`, `TakeWriter`, `ChunkReader`, `Mixer`,
`ViewTimeline` and `PackageLoad` are checked for safety only.

## 4. What is proved

All proofs are checked to the last leaf, for all values of the constants.

- `RenderLinkProofs`: `TypeCorrect`, `Invariant`, `ReplicaIsExact`,
  `NothingIsTurnedAwayUnread`, `EngineNeverRewinds`, `LinkImplementsReplica`,
  `OwnAckIsOnItsConnection`.
- `PlaybackProofs`: `RundownTypeCorrect`, and `OneItemOnAir` of `RundownSpec`;
  `TypeCorrect`; `PlaybackFollowsRundown`, every behaviour of `Playback` is one of
  `RundownSpec`, hence the rundown's invariants (`OneItemOnAirInPlayback`);
  `PictureAlwaysFollows`; and, where nothing is recalled (`SnapshotName = {}`; with
  a snapshot it is false, section 3), `AnEndIsPending` (`EndIsPending`).
- `OutputsProofs`: `TypeCorrect` and `AlertsAlwaysCurrent`; `HeldAlertStands` and
  `CorrectionIsInformed`, the action properties `HeldAlertIsWitnessed` and
  `CorrectionFollowsCommand`.
- `PictureProofs`, of `TapFeed`: `TapInvariant`, `TapTypeCorrect`, `FramesAreWhole`
  (`NoTornFrame`) and `CopiesAreCurrent` (`CopyIsCurrent` wherever no CPU take runs
  beside a stream; with both it is false, section 3); of `PackageLoad`:
  `PackageInvariant`, `PackageTypeCorrect`, `ReadersHoldThePackage`
  (`ReadersSettle`), `ResyncSettlesTheLoad` (`ResyncAgrees`) and
  `ItemIsShownOrCovered` (`ShownOrMissing`); of `ViewTimeline`: `ViewInvariant`,
  `NothingIsShownEarly` (`NothingBeginsEarly`), `OverlayIsAsCommanded`
  (`OverlayFollowsCommand`), `SeamInvariant` and `MixesAreSeamless`
  (`MixIsSeamless`).
- `OutputThreadsProofs`, of `RecordTake`: `Invariant`, `TypeCorrect`,
  `AcknowledgedIsFinished`, `ChaptersAreKept`, `NoTakeIsOrphaned`; of `Publisher`:
  `LinkInvariant`, `LinkTypeCorrect` and `HeadersComeFirst` (`HeaderFirst`).
- `MediaProofs`, of the ring alone (`TapSpec`): `TapInvariant` and
  `TapHeardInOrder`; of a take: `TakeUsesTap`, every behaviour of a take is one of
  the ring's specification, and hence `TakeHearsInOrder` (`HeardInOrder`);
  `TakeFileInvariant`, `TracksStayInStep` (`TracksInStep`) and
  `AFinishedTakeIsWhole` (`FinishedIsWhole`); of `StreamSession`: `SessionsInvariant` and `SkipsAreSeen` (`NoSkipUnseen`), resyncs
  under a live stream included, and, where there are none (`~ResyncsLive`; with
  them it is false, section 3), `TimesInvariant` and `StampsRiseInTime`
  (`StampsNeverGoBack`); of `Mixer`, where takes wait for the exchange before them
  (`Spaced`; without it `mixer_takes_close`), `MixInvariant` and
  `SoundIsThePictures` (`SoundFollowsPicture`); of `ChunkReader`, where no silence
  falls inside a chunk (`~Stalls`; with one `chunk_reader_stalls`),
  `ReaderInvariant` and `MessagesArrive` (`MessagesArriveWhole`).
- `PlayoutProofs`: `FrameInvariant`, `FrameTypeCorrect` and `FramesAreAccounted`
  (`EachFrameAccounted`).
- `DeviceAudioProofs`: `Invariant`, `TypeCorrect`, `DevicePlaysInOrder`
  (`PlayedInOrder`) and `BlocksAreHeardInSync` (`HeardInSync`).

The theorems about `PackageLoad`, `ViewTimeline`, `Publisher`, `FrameLoop` and the parts of
`MCMedia` are of the side by side specification (`MCSpec`) TLC runs, with every
constant of the part free; the other parts stand still in it.

*The channel's invariant.* `ReplicaExact` alone is not inductive: whether the
next accepted directive leaves a hole depends on what is on the wire.
`IInv` adds `WireInv`: sequence numbers are positions; versions on a connection
only grow and lie between the applied version and the current one; the first
frame of a live connection is its resync; every version issued since that
resync is on the wire, refused or not; and `GateInv`: after the resync the
expected number counts the frames accepted, so equality with a frame's number
means nothing was skipped. Then an accepted directive extends an exact replica
by its successor, and a resync replaces it. `NeverRewinds` and the refinement
follow from the same invariant. For the acknowledgements, `AckIInv` says where
each acknowledgement in a queue can have come from and what a session's memory
holds.

*The picture's invariant.* `PictureInv` says that the View, slate, clock and
package the engine will have after reading what is on its way are those of the
newest frame it would apply: the frames on their way are numbered (`Numbered`),
each one's effect takes the picture of its predecessor to its own (`Linked`),
the last carries the control plane's present picture (`Latest`), and a gap
means the frames behind it will be turned away (`NothingMissing`). Any operation that
changed the control plane's picture without saying so in its directive would
break `Linked`.

*The end's invariant.* An end is set when the engine reads a take, a recall or a
resync. `EndInv` says what is to come for an item that plays: where no frame was
refused behind it, the last such frame on its way names the playback; where none is on
its way, the end is a pending timer of the tracker's present generation or an event on
its way up. A refused frame leaves fewer frames than numbers (`Room`), which nothing but a
resync makes up for, and a resync names what plays then. A load that fails or
succeeds sets nothing and forgets nothing; a recall would restore PLAYING with no
frame to name it.

*The rundown's invariant.* One item on air is preserved by a recall only if
every snapshot was itself consistent, hence `SnapshotsConsistent`.

*The alerts' invariant.* `AlertsCurrent` is inductive beside the types: a hold
takes its version from `waiting`, whose members the type invariant keeps above
zero, so `heldStop # 0` exactly while the alert is up.

*The ring's invariant.* `HeardInOrder` rests on what the slots hold: `SlotInv` says
that every slot between the read counter and the producer's own, unpublished head
holds the frame whose turn it is, which a store keeps because room was made first,
so no two of those frames share a slot (`SlotsApart`). `ConsumerInv` says what a
drain may count on while it copies: nothing if the read counter has moved since,
everything if it has not, and the compare-and-swap at the end tells the two
apart. A batch no longer than the ring keeps an eviction from passing what is
published.

*The stream's invariant.* `FlowInv` puts the frames a stream was offered in one line:
with the loop, queued, in the thread's hand, held back by the encoder, published.
Each of these is ahead of what comes before it in that order, so no frame is in two
of them; the lost are apart from all, and until the stream is told to stop the line and the lost
are all there is. A stream with a session is not told (`SessionInv`), although the
threads of earlier ones still run beside it and count into the same counter, hence
`skips` is only at least the number of the lost. `NoSkipUnseen` alone is not
inductive, for want of the order: that a frame handed on is not already behind.

*The stream's time.* `StampsNeverGoBack` needs where frame numbers come from. A tick
may hold a number of an earlier run of the clock, or of the loop's idle count, when
it takes the sender of a stream opened meanwhile; but the clock is only touched
where no session is, so this can befall a session's first frame only (`ClockInv`).
`TimeInv` says that frames after the first rise, and that once a base is taken the
first is no longer on its way to the encoder: if it set the base, it is where time
begins; if it never reached the encoder, it is of no concern; and what is below the
base is dropped.

*The mix's invariant.* A take is first a command in the queue and then an exchange
that waits on each bus that has to fade out. While takes wait for the exchange
before them, one at most is under way, and `MixInv` says where: if it is in the queue, it is
the last take and no exchange waits; if not, every exchange that waits brings the
last take's feed, and a bus without one plays it. A fader may still interfere with
a fade; the exchange is then late, never wrong. `SoundFollowsPicture` alone says
nothing until all is at rest.

*The reader's invariant.* Peer and reader are at the same place of the same chunk but
for one field on its way; `ReaderInv` is a disjunction over these places. Between a
message's chunks the reader keeps as many of its bytes as have left (`Kept`), and
the last full header of its chunk stream names it (`Named`), hence both compute the
same length of the next chunk. The moment between a message's last byte leaving
and being read is the only one where the two lists, or the two chunk sizes, differ
(`Ended`). A wait that gives up inside a chunk takes the reader out of step.

*What counts as evidence.* Neither action property follows from the state it is
judged in: both depend on what frames still on their way can say. `StopInv`
says of every acknowledgement, queued or on its way up any connection, that if
its version is one the control plane remembers a stop by (`IsStop`: waited for,
held, or the newest claim of an output) then the engine has carried out that stop
or a later one, or the version is a resync's that some connection up to this one
remembers. It needs the frames on their way down to be in version order, none
older than what was carried out (`TrueFrame`, `InOrder`), and no version to become
a stop's after the fact (`StopsFixed`). `ReportInv` says that an acknowledgement
at or past the newest stream command has the engine past it, and so does every
report behind that acknowledgement on its connection or on a later one
(`Follows`); once the claim is processed this holds of all reports on the newest
connection (`Proven`), so the one that rules after the anchor moved is one of them.

*The surfaces' invariant.* `NoTornFrame` looks only at who reads a surface now; it
is kept because a surface about to be drawn into has no reader, although its two
readings (`is_free`) are apart: between them no reader can be added, since only
the loop hands surfaces on. `WillShow` is what a surface shows once the GPU is
through with the draws ordered for it; every message and every encoder's hold
names the frame its surface will show, and the draws complete in order. `AccountInv`
bounds what an output has settled by the ticks there were.

*The package's invariant.* A load in progress lies strictly between the counter
readers compare with and the numbers given out (`loaded.version < job.version =<
versions`), so a reader cannot take a half-written package for a finished one
without the counter moving once more. `WholeInv` says the newest load is held
whole once it is through; `LinkedInv` that while the engine is linked the control
plane says what the handler was told; and for each reader `SyncedInv` says that a
copy it has made is what the engine holds, or the counter is still to move on
(`IndexDue`, `AudioDue`, `VideoDue`). The last is what makes copies behind
separate locks safe, and it is preserved only because every group of writes comes
before the counter's last increment.

*The View's invariants.* A take writes transition, item and start in this order and
the loop reads item, start and transition, so of a take it can only have read less
than the transition says: `ViewInv` bounds every start it holds by the transition's,
and the transition's by the next frame. What is younger than its frame is then only
the item a take replaces. An overlay that moves has its end no later than was asked
(`OverlayInv`). For the seams, `MixIsSeamless` compares the picture with one drawn a
frame before, by other reads; `SeamInv` carries it across: a picture that was not
early is the transition's as it stands, from the frame before its first. A take
written over it either freezes exactly those layers or follows a picture that was
complete, and makes it early where it changes what should have been seen. A
transition's start on the first frame adds a layer at nothing, which is not seen.

*The take's invariant.* Who owns a running take decides what its thread may have
been told: in the session nothing; waited for, to stop and nothing else; on its
own, to end (`StateInv`). `FileInv` says how far the file is at each point of the
thread, and `AloneInv` that a take which began with no late predecessor has the
marker store to itself for as long as it has an owner: only a thread that was let
go of in a timeout or a chain loss can touch another's markers. `TypeOK` with the
three properties is not inductive: an acknowledgement is for whatever take the
handler waits for, and only `StateInv` ties that take to its file.

*A take's file.* `FileInv` takes the writer's buffers and what it has written as one
record. The units buffered are a chain, each starting where the one before it ends
(`Chained`); every fragment continues the one before it in both tracks, and what is
next to be written continues the last (`Fits`); until the finish the packets are less
than one past the video (`InTime`); while no unit was shed the oldest buffered starts
where the file ends. A turn of `try_emit` keeps this because the span of a beginning
of a chain is the distance between its ends (`SpanOfChain`). At the finish a turn that
writes leaves less in the buffers (`FinishingTurn`), so the turns `TryEmit` counts are
enough. Both are inductions over a recursive function, without a theorem that takes an
operator as a parameter: the function is what its equation says since some function
satisfies it (`Iterated`), and a set of numbers with zero and every successor is all of
them since there is no least one outside it (`OfAllNaturals`).

*The publisher's invariant.* A header is cached where its track starts, and the
replay of a fresh connection and the queue behind it overlap. `LinkInv` lines up
what was written, what the task holds, what is queued and what the thread is about
to offer: once the cached headers were told to this connection, this is one line in
which every unit stands behind its track's header unless that header was shed.

*The loop's invariant.* The clock's frame and the loop's target are both divisions of
one time. `BoundaryReached` says that at the boundary computed for a frame the
clock shows that frame or a later one, for any rate. Hence a tick that aims at the
frame behind the one drawn wakes past it and cannot draw it twice, and `CountInv`
adds up: frames submitted in time and frames counted dropped are those since the
run's first. A stop and restart in the middle of a tick make a new run, and only a
tick whose run is still on is held to it.

*The device's invariant.* As in the tap, the slots between the counters hold the frame
whose turn it is, and the single producer and consumer write opposite ends. What
was played, the silence handed out and what the device lost add up to its time.
The marks the driver reads are whole whenever the lock's number is even and
unmoved; `Timely` says that a plan made from such a mark is right at any later
time, since between the mark and the hearing the same number of frames is popped
as time passes. The tolerance is a realignment's and what the device's clock lost.

Assumptions: the constants' types; `Timed \subseteq Item`, `Nothing` outside `Item`
and `Scene`, items and scenes disjoint; queue bounds, periods and capacities of at
least one; an animation and a layer cap of at least one, and `none` no item's name; a
tap's batch no longer than its ring; a device's ring that holds the target and a
block (`RingHolds`); a publisher's, a loop's and a device's constants as their
modules name them. They are the `ASSUME`s of the modules, evaluated by TLC in every
run. `PackageLoad`'s and `Mixer`'s proofs need none of these. `StampsRiseInTime` has
`~ResyncsLive` besides, `SoundIsThePictures` `Spaced`, `MessagesArrive` `~Stalls`,
`AnEndIsPending` `SnapshotName = {}`: the properties are false without them.

Only model-checked are the liveness properties, which are out of the prover's reach (`Converges`,
`PlaybackEnds`, `StreamBeliefSettles`, `ThreadsEnd`, `TransportEnds`,
`StoppedRecovers`, `WindowSettles`, `LostGoesSilent`). Every safety property of a
passing run is a theorem, some under the conditions named above.

## 5. Not modelled, and what could follow

`PROJECT.json` lists every component with its status.

- **Persistence and a control-plane restart.** A restart restores the version and
  little else; a version below what a running engine has applied is a hazard
  without a property. It would be one action of `RenderLink` (and a weaker
  `ReplicaExact`), and would touch every proof about the channel.
- **Automation.** Queue, hold, frame limiter, timers, the static cycle refusal;
  the triggers computed around an await. `autoFollow` advances are not in its
  static graph. To the modelled components a rule's action is a command.
- **The decode-session pool** (`video.rs:140`): leases, epochs, a cap. A race
  there miscounts sessions and refuses or admits one too many. The **loop
  cache**'s residency plan is arithmetic over a manifest.
- **Companion, keyboard, intent mapping, roles, schemas, token buckets**: stateless
  translation and checks that only refuse.
- **Pixels and samples**: geometry, blending, glyphs, the limiter, meters; **wire
  encodings**: RTMP's handshake and commands, the box bytes of a take's file;
  manifest validation; the platform's decoder and encoder.
- **Between the modelled parts of the engine**: the run loop's clock read twice
  around a directive (`tick.rs:515`), a chain loss reported during show.stop's
  quiesce, a frame drawn between a package's change and its View item's, and the
  sound of a stream are in no module.

Every safety property that is checked is proved; a next theorem would come with one of
the parts above.
