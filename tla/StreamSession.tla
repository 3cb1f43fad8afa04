---------------------------- MODULE StreamSession ----------------------------
(***************************************************************************)
(* The life of a live stream (directive.rs, record/stream.rs): the         *)
(* directives that open and close it, the render loop that hands it the    *)
(* frames it draws, and its thread, which encodes them and stamps them     *)
(* with their distance from the first.                                     *)
(*                                                                         *)
(* Directives come one after another, but the loop and the threads do not  *)
(* wait for them: a tick keeps the sender and the frame number it has      *)
(* read while a stream is closed, the clock stopped and started again and  *)
(* the next stream opened, and a stream that was let go of without waiting *)
(* still has its thread beside the next one's.                             *)
(***************************************************************************)
EXTENDS Integers, Sequences, FiniteSets, SequencesExt

CONSTANTS
  MaxStreams,   \* bound on the streams opened
  MaxTicks,     \* bound on the ticks of the render loop
  MaxShows,     \* bound on the starts of the show's clock
  ResyncsLive,  \* whether a resync may start or stop the clock under a stream
  ChannelBound  \* STREAM_CHANNEL_BOUND

StreamSessionConstants ==
  /\ MaxStreams \in Nat /\ MaxTicks \in Nat /\ MaxShows \in Nat
  /\ ResyncsLive \in BOOLEAN /\ ChannelBound \in Nat \ {0}

Stream == 1..MaxStreams
Nobody == 0
NoFrame == [n |-> 0, frame |-> 0]

VARIABLES
  clock,     \* [shows, frame]: frame is -1 while STOPPED
  idle,      \* run_loop's stopped_frame
  ticks,     \* ticks begun: a frame's identity
  tick,      \* the render loop: [at, frame, to]
  live,      \* stream_state is Live
  slot,      \* stream_session
  opened,    \* sessions opened
  closing,   \* the stop being applied: [at, stream, show]
  skips,     \* skipped_stream_frames
  thread,    \* per stream: [at, encoder, frame, header]
  told,      \* the streams whose thread has been sent Stop
  transport, \* per stream: "up", "told" to close or "down"
  queue,     \* per stream: frames handed over
  base,      \* per stream: base_frame, -1 before the first
  pending,   \* per stream: frames the encoder holds back
  offered,   \* history, per stream: the frames a tick had it to send to
  stamps,    \* history, per stream: [frame, at], the units published
  lost       \* history, per stream: the frames counted as skipped

clockVars == <<clock, idle, ticks>>
directiveVars == <<live, slot, opened, closing>>
streamVars == <<thread, told, transport, queue, base, pending, stamps>>
vars == <<clockVars, tick, directiveVars, skips, streamVars, offered, lost>>

Resting == [at |-> "free", stream |-> Nobody, show |-> FALSE]

Init ==
  /\ clock = [shows |-> 0, frame |-> -1] /\ idle = 0 /\ ticks = 0
  /\ tick = [at |-> "due", frame |-> NoFrame, to |-> Nobody]
  /\ live = FALSE /\ slot = Nobody /\ opened = 0 /\ closing = Resting
  /\ skips = 0
  /\ thread = [s \in Stream |-> [at |-> "none", encoder |-> FALSE,
                                 frame |-> NoFrame, header |-> FALSE]]
  /\ told = {} /\ transport = [s \in Stream |-> "none"]
  /\ queue = [s \in Stream |-> <<>>] /\ base = [s \in Stream |-> -1]
  /\ pending = [s \in Stream |-> {}]
  /\ offered = [s \in Stream |-> {}] /\ lost = [s \in Stream |-> {}]
  /\ stamps = [s \in Stream |-> <<>>]

-----------------------------------------------------------------------------
(* The directives.                                                         *)

Running == clock.frame >= 0
Free == closing.at = "free"
history == <<offered, lost>>
threads == <<thread, queue, base, pending, stamps>>

\* on_show_start, and the clock's half of a resync.
ClockStarts ==
  /\ ~Running /\ clock.shows < MaxShows
  /\ clock' = [shows |-> clock.shows + 1, frame |-> 0]

ShowStart ==
  /\ Free /\ ClockStarts
  /\ UNCHANGED <<idle, ticks, tick, directiveVars, skips, streamVars, history>>

\* on_resync: the snapshot's show state starts or stops the clock, and the
\* outputs are not looked at.
Resync ==
  /\ Free /\ (live => ResyncsLive)
  /\ \/ ClockStarts
     \/ Running /\ clock' = [clock EXCEPT !.frame = -1]
  /\ UNCHANGED <<idle, ticks, tick, directiveVars, skips, streamVars, history>>

\* StreamSession::open: the publisher, its queue and the thread.
Opened(s) ==
  /\ thread' = [thread EXCEPT ![s].at = "opening"]
  /\ transport' = [transport EXCEPT ![s] = "up"]

\* on_stream_start: of a running show, and one at a time.  The counter starts
\* afresh, then the session opens, and the state is written last.
StreamStart ==
  /\ Free /\ Running /\ ~live /\ opened < MaxStreams
  /\ opened' = opened + 1 /\ slot' = opened + 1
  /\ skips' = 0 /\ Opened(opened + 1)
  /\ closing' = [Resting EXCEPT !.at = "opened"]
  /\ UNCHANGED <<clockVars, tick, live, told, queue, base, pending, stamps, history>>

GoesLive ==
  /\ closing.at = "opened" /\ live' = TRUE /\ closing' = Resting
  /\ UNCHANGED <<clockVars, tick, slot, opened, skips, streamVars, history>>

\* on_stream_stop, and show.stop's quiesce: the session is taken, its thread
\* told, and waited for.
Stops(show) ==
  /\ Free /\ live
  /\ closing' = [at |-> "thread", stream |-> slot, show |-> show]
  /\ slot' = Nobody /\ told' = told \union {slot}
  /\ UNCHANGED <<clockVars, tick, live, opened, skips, threads, transport, history>>

StreamStop == Stops(FALSE)
ShowStop == Running /\ Stops(TRUE)

\* stop_thread has its answer or runs into its backstop; then the transport is
\* told, and waited for as long.
ThreadAwaited ==
  /\ closing.at = "thread"
  /\ transport' = [transport EXCEPT ![closing.stream] = IF @ = "up" THEN "told" ELSE @]
  /\ closing' = [closing EXCEPT !.at = "transport"]
  /\ UNCHANGED <<clockVars, tick, live, slot, opened, skips, threads, told, history>>

\* Confirmed or not, the state is Idle, and a show's clock stops.
StopEnds ==
  /\ closing.at = "transport" /\ live' = FALSE /\ closing' = Resting
  /\ clock' = IF closing.show THEN [clock EXCEPT !.frame = -1] ELSE clock
  /\ UNCHANGED <<idle, ticks, tick, slot, opened, skips, streamVars, history>>

\* abandon: both are told, and neither is waited for.
Abandon(s) ==
  /\ told' = told \union {s}
  /\ transport' = [transport EXCEPT ![s] = "told"]

\* show.stop with force, and of a show with no stream.
ShowStopForced ==
  /\ Free /\ Running
  /\ \/ live /\ Abandon(slot) /\ slot' = Nobody /\ live' = FALSE
     \/ ~live /\ UNCHANGED <<told, transport, slot, live>>
  /\ clock' = [clock EXCEPT !.frame = -1]
  /\ UNCHANGED <<idle, ticks, tick, opened, closing, skips, threads, history>>

-----------------------------------------------------------------------------
(* The render loop.                                                        *)

\* run_loop names the frame: the clock's, or its own while it is stopped.
TickBegins ==
  /\ tick.at = "due" /\ ticks < MaxTicks /\ ticks' = ticks + 1
  /\ IF Running THEN clock' = [clock EXCEPT !.frame = @ + 1] /\ UNCHANGED idle
     ELSE idle' = idle + 1 /\ UNCHANGED clock
  /\ tick' = [at |-> "named", to |-> Nobody,
              frame |-> [n |-> ticks + 1,
                         frame |-> IF Running THEN clock.frame ELSE idle + 1]]
  /\ UNCHANGED <<directiveVars, skips, streamVars, history>>

\* run_tick: the state, and then the session's sender, each under its own lock.
ReadsState ==
  /\ tick.at = "named"
  /\ tick' = [tick EXCEPT !.at = IF live THEN "live" ELSE "due"]
  /\ UNCHANGED <<clockVars, directiveVars, skips, streamVars, history>>

TakesSender ==
  /\ tick.at = "live"
  /\ tick' = [tick EXCEPT !.at = IF slot = Nobody THEN "due" ELSE "draws",
                          !.to = slot]
  /\ offered' = IF slot = Nobody THEN offered
                ELSE [offered EXCEPT ![slot] = @ \union {tick.frame}]
  /\ UNCHANGED <<clockVars, directiveVars, skips, streamVars, lost>>

Counted(s, frames, n) ==
  /\ skips' = skips + n
  /\ lost' = [lost EXCEPT ![s] = @ \union frames]

\* Mutant: a frame the queue has no room for is dropped in silence.
HandsOverQuietly ==
  /\ tick.at = "draws" /\ tick' = [tick EXCEPT !.at = "due", !.to = Nobody]
  /\ LET s == tick.to IN
     \/ Counted(s, {tick.frame}, 1) /\ UNCHANGED queue
     \/ /\ queue' = IF thread[s].at = "done" \/ Len(queue[s]) >= ChannelBound THEN queue
                    ELSE [queue EXCEPT ![s] = Append(@, tick.frame)]
        /\ UNCHANGED <<skips, lost>>
  /\ UNCHANGED <<clockVars, directiveVars, thread, told, transport, base, pending,
                 stamps, offered>>

\* The frame is drawn and handed over, or had no surface or no draw.  A full
\* queue is counted; a thread that has gone is not.
HandsOver ==
  /\ tick.at = "draws" /\ tick' = [tick EXCEPT !.at = "due", !.to = Nobody]
  /\ LET s == tick.to IN
     \/ Counted(s, {tick.frame}, 1) /\ UNCHANGED queue
     \/ thread[s].at = "done" /\ UNCHANGED <<queue, skips, lost>>
     \/ /\ thread[s].at # "done" /\ Len(queue[s]) < ChannelBound
        /\ queue' = [queue EXCEPT ![s] = Append(@, tick.frame)]
        /\ UNCHANGED <<skips, lost>>
     \/ /\ thread[s].at # "done" /\ Len(queue[s]) >= ChannelBound
        /\ Counted(s, {tick.frame}, 1) /\ UNCHANGED queue
  /\ UNCHANGED <<clockVars, directiveVars, thread, told, transport, base, pending,
                 stamps, offered>>

-----------------------------------------------------------------------------
(* A stream's thread.                                                      *)

Elsewhere == UNCHANGED <<clockVars, tick, directiveVars, told, offered>>

\* StreamThread::open: the encoder opens, or every frame will be a skip.
Opens(s) ==
  /\ thread[s].at = "opening"
  /\ \E e \in BOOLEAN : thread' = [thread EXCEPT ![s].at = "top", ![s].encoder = e]
  /\ UNCHANGED <<skips, transport, queue, base, pending, stamps, lost>> /\ Elsewhere

\* The loop's top: the stop is looked for before each frame.  What is queued
\* goes with the thread.
SeesStop(s) ==
  /\ thread[s].at = "top" /\ s \in told
  /\ thread' = [thread EXCEPT ![s].at = "done"]
  /\ queue' = [queue EXCEPT ![s] = <<>>]
  /\ UNCHANGED <<skips, transport, base, pending, stamps, lost>> /\ Elsewhere

Receives(s) ==
  /\ thread[s].at = "top" /\ s \notin told /\ queue[s] # <<>>
  /\ thread' = [thread EXCEPT ![s].at = "frame", ![s].frame = Head(queue[s])]
  /\ queue' = [queue EXCEPT ![s] = Tail(@)]
  /\ UNCHANGED <<skips, transport, base, pending, stamps, lost>> /\ Elsewhere

First(s) == IF base[s] = -1 THEN thread[s].frame.frame ELSE base[s]

Back(s) == [thread EXCEPT ![s].at = "top", ![s].frame = NoFrame]

\* The frame is dropped: no encoder, a frame before the first, a draw that does
\* not finish, a refusal.
Drops(s) ==
  /\ thread[s].at = "frame"
  /\ thread' = Back(s)
  /\ base' = IF thread[s].encoder THEN [base EXCEPT ![s] = First(s)] ELSE base
  /\ Counted(s, {thread[s].frame}, 1)
  /\ UNCHANGED <<transport, queue, pending, stamps>> /\ Elsewhere

\* Mutant: a frame before the first is encoded like any other.
EncodesAny(s) == thread[s].at = "frame" /\ thread[s].encoder

Encodes(s) ==
  /\ thread[s].at = "frame" /\ thread[s].encoder
  /\ thread[s].frame.frame >= First(s)

\* The encoder keeps the frame for now.
Holds(s) ==
  /\ Encodes(s)
  /\ thread' = Back(s)
  /\ base' = [base EXCEPT ![s] = First(s)]
  /\ pending' = [pending EXCEPT ![s] = @ \union {thread[s].frame}]
  /\ UNCHANGED <<skips, transport, queue, stamps, lost>> /\ Elsewhere

\* The frames in the order of their ticks.
ByTick(frames) ==
  CHOOSE q \in [1..Cardinality(frames) -> frames] :
    \A i, j \in DOMAIN q : i < j => q[i].n < q[j].n

\* Its units come out and are offered to the transport, each taken or shed;
\* before the first go the parameter sets, and without them nothing does.
Publishes(s) ==
  /\ Encodes(s)
  /\ base' = [base EXCEPT ![s] = First(s)]
  /\ pending' = [pending EXCEPT ![s] = {}]
  /\ LET units == pending[s] \union {thread[s].frame} IN
     \/ /\ ~thread[s].header
        /\ thread' = Back(s)
        /\ Counted(s, units, Cardinality(units)) /\ UNCHANGED stamps
     \/ \E taken \in SUBSET units, headerShed \in {0, 1} :
          /\ thread[s].header => headerShed = 0
          /\ thread' = [Back(s) EXCEPT ![s].header = TRUE]
          /\ Counted(s, units \ taken, headerShed + Cardinality(units \ taken))
          /\ stamps' = [stamps EXCEPT ![s] = @ \o
               [i \in DOMAIN ByTick(taken) |->
                  [frame |-> ByTick(taken)[i],
                   at |-> ByTick(taken)[i].frame - First(s)]]]
  /\ UNCHANGED <<transport, queue>> /\ Elsewhere

\* The publisher task ends once it is told, or the thread's share of it was the
\* last.
TransportEnds(s) ==
  /\ transport[s] = "told"
  /\ transport' = [transport EXCEPT ![s] = "down"]
  /\ UNCHANGED <<skips, thread, queue, base, pending, stamps, lost>> /\ Elsewhere

-----------------------------------------------------------------------------
Next ==
  \/ ShowStart \/ Resync \/ StreamStart \/ GoesLive \/ StreamStop \/ ShowStop
  \/ ThreadAwaited \/ StopEnds \/ ShowStopForced
  \/ TickBegins \/ ReadsState \/ TakesSender \/ HandsOver
  \/ \E s \in Stream :
       \/ Opens(s) \/ SeesStop(s) \/ Receives(s) \/ Drops(s) \/ Holds(s)
       \/ Publishes(s) \/ TransportEnds(s)

Spec == Init /\ [][Next]_vars

-----------------------------------------------------------------------------
(* What a stream promises.                                                 *)

InHand(s) == IF thread[s].at = "frame" THEN {thread[s].frame} ELSE {}
Offering(s) == IF tick.to = s THEN {tick.frame} ELSE {}
Published(s) == {stamps[s][i].frame : i \in DOMAIN stamps[s]}

\* Every frame the loop had a live stream for is on its way, published or
\* counted, in one of these only, and the counter knows of every one counted,
\* whatever an earlier stream's thread still counts into it (skip.rs; stream.rs,
\* hand_off_stream_surface).
NoSkipUnseen ==
  live /\ slot # Nobody =>
    LET parts == <<Offering(slot), ToSet(queue[slot]), InHand(slot),
                   pending[slot], Published(slot), lost[slot]>>
    IN /\ offered[slot] = UNION ToSet(parts)
       /\ \A i, j \in DOMAIN parts : i # j => parts[i] \intersect parts[j] = {}
       /\ skips >= Cardinality(lost[slot])

\* A stream's time begins with its first frame and never goes back, even if that
\* frame was named before the show and the stream were started anew (stream.rs,
\* Timeline).
StampsNeverGoBack ==
  \A s \in Stream : \A i \in DOMAIN stamps[s] :
    /\ stamps[s][i].at >= 0
    /\ i > 1 => stamps[s][i].at >= stamps[s][i - 1].at
=============================================================================
