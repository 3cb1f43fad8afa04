------------------------------ MODULE TapFeed ------------------------------
(***************************************************************************)
(* How the View reaches the record and stream encoders (tick.rs run_tick,  *)
(* record/feed.rs, zerocopy.rs SurfacePool).  Each tick the render loop    *)
(* picks a target, submits one draw into it and hands it to the outputs;   *)
(* the GPU completes draws later, in order.  With zero copy the target is  *)
(* a surface of a pool, which an encoder reads in place: it must not be    *)
(* drawn into again before the thread and the encoder have let it go.      *)
(*                                                                         *)
(* A picture is the number of the frame it shows.  Which outputs run is    *)
(* fixed; RecordTake has their starts and stops.                           *)
(***************************************************************************)
EXTENDS Integers, Sequences, FiniteSets, SequencesExt, FiniteSetsExt

CONSTANTS
  Setups,          \* the record paths and streams to start from
  RecordBound,     \* RECORD_CHANNEL_BOUND
  StreamBound,     \* STREAM_CHANNEL_BOUND
  MaxFrame,        \* bound on the ticks
  MaxPending,      \* bound on the draws the GPU has yet to complete
  EncoderBacklog   \* bound on the surfaces an encoder keeps

Consumer == {"record", "stream"}
Bound == [c \in Consumer |-> IF c = "record" THEN RecordBound ELSE StreamBound]

ASSUME BoundsType == RecordBound \in Nat \ {0} /\ StreamBound \in Nat \ {0}
ASSUME LimitsType == {MaxFrame, MaxPending, EncoderBacklog} \subseteq Nat
ASSUME SetupsType ==
  Setups \subseteq [record : {"off", "zeroCopy", "cpuReadback"},
                    stream : BOOLEAN]

\* consumer_in_flight: its queue and the surface it is encoding.
InFlight(c) == Bound[c] + 1
SharedSize == InFlight("record") + InFlight("stream") + 1
OwnSize == InFlight("stream") + 1

\* The View's built-in target, the record take's pool, the stream's own.
View == 0
Shared == 1..SharedSize
Own == SharedSize + 1 .. SharedSize + OwnSize
Surface == Shared \union Own
Frame == 0..MaxFrame

\* What a thread is handed: the surface with the frame drawn into it, or a copy.
Message == [surface : {View} \union Surface, frame : Frame, copy : Frame]
Idle == [at |-> "idle", loan |-> View, own |-> View, candidate |-> View,
         drew |-> FALSE]

VARIABLES
  setup,     \* record: the take's path; stream: whether it is live
  frame,     \* the tick's frame
  tick,      \* how far the tick is, the surfaces it holds, whether it drew
  newest,    \* the newest frame whose View was drawn
  gpu,       \* the draws submitted and not completed
  picture,   \* the frame each target shows
  queue,     \* the messages waiting for each output's thread
  thread,    \* the message each thread is at work on
  encoder,   \* the surfaces each encoder still reads, with their frames
  settled    \* the frames of each output encoded, or counted as skipped

vars == <<setup, frame, tick, newest, gpu, picture, queue, thread, encoder,
          settled>>

TypeOK ==
  /\ setup \in Setups
  /\ frame \in Frame /\ newest \in Frame
  /\ tick \in [at : {"idle", "loan", "stream", "own", "draw", "record", "hand"},
               loan : {View} \union Shared, own : {View} \union Own,
               candidate : {View} \union Surface, drew : BOOLEAN]
  /\ gpu \in Seq([target : {View} \union Surface, frame : Frame])
  /\ Len(gpu) <= MaxPending
  /\ picture \in [{View} \union Surface -> Frame]
  /\ \A c \in Consumer : queue[c] \in Seq(Message) /\ Len(queue[c]) <= Bound[c]
  /\ thread \in [Consumer -> UNION {[1..n -> Message] : n \in 0..1}]
  /\ \A c \in Consumer :
       /\ encoder[c] \subseteq [surface : Surface, frame : Frame]
       /\ Cardinality(encoder[c]) <= EncoderBacklog
  /\ settled \in [Consumer -> Frame]

Init ==
  /\ setup \in Setups
  /\ frame = 0 /\ tick = Idle /\ newest = 0 /\ gpu = <<>>
  /\ picture = [t \in {View} \union Surface |-> 0]
  /\ queue = [c \in Consumer |-> <<>>] /\ thread = [c \in Consumer |-> <<>>]
  /\ encoder = [c \in Consumer |-> {}]
  /\ settled = [c \in Consumer |-> 0]

-----------------------------------------------------------------------------
(* The pools.                                                              *)

\* The references to a surface: the loop's, the messages', the threads'.
Owned(s) ==
  \/ s \in {tick.loan, tick.own}
  \/ \E c \in Consumer : \E m \in Range(queue[c]) \union Range(thread[c]) :
       m.surface = s

EncoderHas(s) == \E c \in Consumer : \E e \in encoder[c] : e.surface = s

\* Mutant: the encoder's count is read first.
LetGoReversed(reading, s) == IF reading = 1 THEN ~EncoderHas(s) ELSE ~Owned(s)

\* is_free reads two counts, one after the other: the owners', the encoder's.
LetGo(reading, s) == IF reading = 1 THEN ~Owned(s) ELSE ~EncoderHas(s)

\* acquire goes through a pool in order.  Both counts only fall meanwhile, so
\* the surfaces passed over may be read together.
Scan(pool, here, dry) ==
  LET left == {s \in pool : s > tick.candidate /\ LetGo(1, s)}
  IN \/ /\ left # {}
        /\ tick' = [tick EXCEPT !.at = here, !.candidate = Min(left)]
        /\ UNCHANGED settled
     \/ left = {} /\ dry

Settle(c) == settled' = [settled EXCEPT ![c] = @ + 1]

-----------------------------------------------------------------------------
(* The tick.                                                               *)

outputVars == <<queue, thread, encoder>>

\* begin_tap_frame: a zero-copy take draws into a surface of its pool, or,
\* with none free, into nothing of its own: a skip before the draw.
LoanScan ==
  /\ \/ tick.at = "idle" /\ frame < MaxFrame /\ frame' = frame + 1
     \/ tick.at = "loan" /\ ~LetGo(2, tick.candidate) /\ UNCHANGED frame
  /\ setup.record = "zeroCopy"
  /\ Scan(Shared, "loan",
          tick' = [Idle EXCEPT !.at = "stream"] /\ Settle("record"))
  /\ UNCHANGED <<setup, newest, gpu, picture, outputVars>>

LoanTaken ==
  /\ tick.at = "loan" /\ LetGo(2, tick.candidate)
  /\ tick' = [Idle EXCEPT !.at = "draw", !.loan = tick.candidate]
  /\ UNCHANGED <<setup, frame, newest, gpu, picture, settled, outputVars>>

NoLoan ==
  /\ tick.at = "idle" /\ frame < MaxFrame /\ setup.record # "zeroCopy"
  /\ frame' = frame + 1
  /\ tick' = [Idle EXCEPT !.at = "stream"]
  /\ UNCHANGED <<setup, newest, gpu, picture, settled, outputVars>>

\* Where record lends none, a live stream has the View drawn into its own.
OwnScan ==
  /\ \/ tick.at = "stream" /\ setup.stream
     \/ tick.at = "own" /\ ~LetGo(2, tick.candidate)
  /\ Scan(Own, "own", tick' = [Idle EXCEPT !.at = "draw"] /\ Settle("stream"))
  /\ UNCHANGED <<setup, frame, newest, gpu, picture, outputVars>>

OwnTaken ==
  /\ tick.at = "own" /\ LetGo(2, tick.candidate)
  /\ tick' = [Idle EXCEPT !.at = "draw", !.own = tick.candidate]
  /\ UNCHANGED <<setup, frame, newest, gpu, picture, settled, outputVars>>

NoOwn ==
  /\ tick.at = "stream" /\ ~setup.stream
  /\ tick' = [Idle EXCEPT !.at = "draw"]
  /\ UNCHANGED <<setup, frame, newest, gpu, picture, settled, outputVars>>

\* set_view_surface: the surface last set, or the built-in target.
Target == IF tick.loan # View THEN tick.loan ELSE tick.own

\* render_frame, and whether it submitted a draw of the View.
Draw ==
  /\ tick.at = "draw"
  /\ \/ /\ Len(gpu) < MaxPending
        /\ gpu' = Append(gpu, [target |-> Target, frame |-> frame])
        /\ newest' = frame
        /\ tick' = [tick EXCEPT !.at = "record", !.drew = TRUE]
     \/ /\ tick' = [tick EXCEPT !.at = "record"]
        /\ UNCHANGED <<gpu, newest>>
  /\ UNCHANGED <<setup, frame, picture, settled, outputVars>>

\* try_send, or a skip.
Offer(c, message) ==
  IF Len(queue[c]) < Bound[c]
  THEN queue' = [queue EXCEPT ![c] = Append(@, message)] /\ UNCHANGED settled
  ELSE Settle(c) /\ UNCHANGED queue

\* Mutant: the copy does not wait for the GPU.
ReadBackAtOnce ==
  /\ setup.record = "cpuReadback"
  /\ Offer("record",
           [surface |-> View, frame |-> newest, copy |-> picture[View]])

\* readback_view copies the built-in target once the GPU is done.
ReadBack ==
  /\ setup.record = "cpuReadback" /\ gpu = <<>>
  /\ Offer("record",
           [surface |-> View, frame |-> newest, copy |-> picture[View]])

\* end_tap_frame.
EndTapFrame ==
  /\ tick.at = "record"
  /\ tick' = [tick EXCEPT !.at = "hand"]
  /\ \/ /\ setup.record # "cpuReadback" /\ tick.loan = View
        /\ UNCHANGED <<queue, settled>>
     \/ /\ setup.record = "cpuReadback" \/ tick.loan # View
        /\ Settle("record") /\ UNCHANGED queue                \* over budget
     \/ /\ tick.loan # View /\ tick.drew
        /\ Offer("record", [surface |-> tick.loan, frame |-> frame, copy |-> 0])
     \/ /\ tick.loan # View /\ ~tick.drew
        /\ Settle("record") /\ UNCHANGED queue                \* no draw
     \/ ReadBack
  /\ UNCHANGED <<setup, frame, newest, gpu, picture, thread, encoder>>

\* hand_off_stream_surface, and the end of the tick: what was not handed over
\* is let go.
HandOffStream ==
  /\ tick.at = "hand"
  /\ tick' = Idle
  /\ IF ~setup.stream \/ Target = View THEN UNCHANGED <<queue, settled>>
     ELSE IF ~tick.drew THEN Settle("stream") /\ UNCHANGED queue
     ELSE Offer("stream", [surface |-> Target, frame |-> frame, copy |-> 0])
  /\ UNCHANGED <<setup, frame, newest, gpu, picture, thread, encoder>>

\* The GPU completes its oldest draw.
GpuCompletes ==
  /\ gpu # <<>>
  /\ picture' = [picture EXCEPT ![Head(gpu).target] = Head(gpu).frame]
  /\ gpu' = Tail(gpu)
  /\ UNCHANGED <<setup, frame, tick, newest, settled, outputVars>>

-----------------------------------------------------------------------------
(* The outputs' threads and their encoders.                                *)

loopVars == <<setup, frame, tick, newest, gpu, picture>>

Take(c) ==
  /\ thread[c] = <<>> /\ queue[c] # <<>>
  /\ thread' = [thread EXCEPT ![c] = <<Head(queue[c])>>]
  /\ queue' = [queue EXCEPT ![c] = Tail(@)]
  /\ UNCHANGED <<loopVars, encoder, settled>>

\* DrawDone::wait.
Drawn(m) ==
  \A i \in DOMAIN gpu : ~(gpu[i].target = m.surface /\ gpu[i].frame = m.frame)

\* encode_after_draw: the encoder keeps the surface beyond the call; a copy it
\* takes whole.
Encode(c) ==
  /\ thread[c] # <<>> /\ Drawn(Head(thread[c]))
  /\ LET m == Head(thread[c])
     IN encoder' = [encoder EXCEPT ![c] =
          IF m.surface = View THEN @
          ELSE @ \union {[surface |-> m.surface, frame |-> m.frame]}]
  /\ Cardinality(encoder'[c]) <= EncoderBacklog
  /\ Settle(c)
  /\ thread' = [thread EXCEPT ![c] = <<>>]
  /\ UNCHANGED <<loopVars, queue>>

\* No encoder, refused by it, or not drawn within DRAW_WAIT.
Drop(c) ==
  /\ thread[c] # <<>>
  /\ thread' = [thread EXCEPT ![c] = <<>>]
  /\ Settle(c)
  /\ UNCHANGED <<loopVars, queue, encoder>>

\* The encoder lets a surface go.
Release(c) ==
  /\ \E e \in encoder[c] : encoder' = [encoder EXCEPT ![c] = @ \ {e}]
  /\ UNCHANGED <<loopVars, queue, thread, settled>>

Tick == \/ LoanScan \/ LoanTaken \/ NoLoan \/ OwnScan \/ OwnTaken \/ NoOwn
        \/ Draw
        \/ EndTapFrame \/ HandOffStream
Threads == \E c \in Consumer : Take(c) \/ Encode(c) \/ Drop(c) \/ Release(c)

Next == Tick \/ GpuCompletes \/ Threads

Spec == Init /\ [][Next]_vars

-----------------------------------------------------------------------------
(* What the code promises.                                                 *)

\* An encoder reads the frame it was given for as long as it reads it: the
\* draw is complete, and nothing is drawn over it (zerocopy.rs SurfacePool,
\* feed.rs R31).
NoTornFrame ==
  \A c \in Consumer : \A e \in encoder[c] : picture[e.surface] = e.frame

\* A copy shows the newest View (render.rs readback_view; tick.rs: record's
\* path is untouched by the stream's surface).
CopyIsCurrent ==
  \A m \in Range(queue["record"]) \union Range(thread["record"]) :
    m.surface = View => m.copy = m.frame
=============================================================================
