----------------------------- MODULE TakeWriter -----------------------------
(***************************************************************************)
(* What a take writes (record/writer.rs, driven by record/thread.rs): the  *)
(* thread is given encoded video, drains the audio tap after each unit or  *)
(* poll, and cuts both into fragments of at most a second, each with the   *)
(* audio that starts before its video ends.                                *)
(*                                                                         *)
(* Time is in ticks; one frame of the tap makes one packet of audio.       *)
(***************************************************************************)
EXTENDS AudioTap

CONSTANTS
  FragmentTicks,  \* FRAGMENT_TICKS
  PacketTicks,    \* a packet's length
  Gap,            \* the distances between video units
  MaxUnit,        \* bound on the video units
  MaxPreIdr,      \* MAX_PRE_IDR_UNITS
  MaxVideo,       \* MAX_BUFFERED_VIDEO_FRAMES
  MaxAudio,       \* MAX_BUFFERED_AUDIO_PACKETS
  TailChunk,      \* the packets of a fragment without video, at the end
  Priming         \* AAC_PRIMING_TRIM_PACKETS

ASSUME WriterConstants ==
  /\ TapConstants
  /\ {FragmentTicks, PacketTicks, MaxPreIdr, MaxVideo, MaxAudio, TailChunk}
       \subseteq Nat \ {0}
  /\ Gap \subseteq Nat \ {0} /\ MaxUnit \in Nat /\ Priming \in Nat

VARIABLES
  phase,     \* "none" (no writer), "early" (no header), "open", "stopping",
             \* "finished" or "failed"
  preIdr,    \* the units before the first keyframe
  pts,       \* the newest unit's time
  units,     \* the units pushed since the header
  video,     \* the units buffered: start, and duration once it is known
  lostVideo, \* the units shed
  audio,     \* the packets buffered
  priming,   \* the packets still to be left out
  ticks,     \* the video ticks written
  packets,   \* the packets written
  fragments  \* history: the fragments written

writerVars == <<phase, preIdr, pts, units, video, lostVideo, audio, priming,
                ticks, packets, fragments>>
vars == <<tapVars, writerVars>>

Unknown == 0
Sample == [start : Nat, duration : Nat]
Fragment == [at : Nat, ticks : Nat, from : Nat, packets : Nat, tail : BOOLEAN]

TypeOK ==
  /\ TapTypeOK
  /\ phase \in {"none", "early", "open", "stopping", "finished", "failed"}
  /\ preIdr \in 0..MaxPreIdr /\ pts \in Nat /\ units \in 0..MaxUnit
  /\ video \in Seq(Sample) /\ Len(video) <= MaxVideo
  /\ lostVideo \in 0..MaxUnit
  /\ audio \in 0..MaxAudio /\ priming \in 0..Priming
  /\ ticks \in Nat /\ packets \in Nat
  /\ fragments \in Seq(Fragment)

Init ==
  /\ TapInit
  /\ phase = "none" /\ preIdr = 0 /\ pts = 0 /\ units = 0 /\ video = <<>>
  /\ lostVideo = 0 /\ audio = 0 /\ priming = Priming
  /\ ticks = 0 /\ packets = 0 /\ fragments = <<>>

-----------------------------------------------------------------------------
(* Cutting fragments.  The buffers and what is written are one record here. *)

Span(samples) ==
  LET upTo[i \in 0..Len(samples)] ==
        IF i = 0 THEN 0 ELSE upTo[i - 1] + samples[i].duration
  IN upTo[Len(samples)]

CeilDiv(a, b) == (a + b - 1) \div b

\* The samples of known duration that start before the window's end.
Window(w, finishing) ==
  LET fixed == IF finishing \/ w.video = <<>> THEN w.video ELSE Front(w.video)
      Starts(s) == s.start < w.ticks + FragmentTicks
      late == {i \in DOMAIN fixed : ~Starts(fixed[i])}
  IN IF late = {} THEN fixed ELSE SubSeq(fixed, 1, Min(late) - 1)

\* Mutant: every packet there is goes with the fragment.
JoiningAll(w, end) == w.audio

\* The packets that start before the video's end, of those there are.
Joining(w, end) == Max({0, Min({w.audio, CeilDiv(end, PacketTicks) - w.packets})})

Written(w, samples, n, finishing) ==
  [w EXCEPT
     !.video = SubSeq(@, Len(samples) + 1, Len(@)),
     !.audio = @ - n,
     !.ticks = @ + Span(samples),
     !.packets = @ + n,
     !.fragments = Append(@, [at |-> w.ticks, ticks |-> Span(samples),
                              from |-> w.packets, packets |-> n, tail |-> finishing])]

\* try_emit, a turn of its loop: a fragment, unless the window is not covered or,
\* while streaming, the audio has not caught up with it.
EmitNext(w, finishing) ==
  LET samples == Window(w, finishing)
      end == w.ticks + Span(samples)
      n == Joining(w, end)
      covered == finishing \/ /\ end >= w.ticks + FragmentTicks
                              /\ (w.packets + n) * PacketTicks >= end
  IN IF samples # <<>> /\ covered
     THEN Written(w, samples, n, finishing)
     ELSE IF samples = <<>> /\ finishing /\ w.audio > 0
          THEN Written(w, <<>>, Min({w.audio, TailChunk}), TRUE)
          ELSE w

\* try_emit: every turn but the last takes a unit or a packet out of the buffers.
TryEmit(w, finishing) ==
  LET emitted[turns \in Nat] ==
        IF turns = 0 THEN w ELSE EmitNext(emitted[turns - 1], finishing)
  IN emitted[Len(w.video) + w.audio]

Writer == [video |-> video, audio |-> audio, ticks |-> ticks,
           packets |-> packets, fragments |-> fragments]

\* enforce_buffer_caps: the oldest go.
Keep(w) ==
  LET excess == Max({0, Len(w.video) - MaxVideo})
  IN /\ video' = SubSeq(w.video, excess + 1, Len(w.video))
     /\ lostVideo' = lostVideo + excess
     /\ audio' = Min({w.audio, MaxAudio})
     /\ ticks' = w.ticks /\ packets' = w.packets /\ fragments' = w.fragments

-----------------------------------------------------------------------------
(* The record thread.                                                      *)

\* push_video before the header: the units before the first keyframe are left
\* out, and too many of them end the take.
PushEarly ==
  /\ phase \in {"none", "early"} /\ consumer.at = "away"
  /\ \/ /\ preIdr = MaxPreIdr /\ phase' = "failed"
        /\ UNCHANGED <<preIdr, tapVars>>
     \/ /\ preIdr < MaxPreIdr /\ phase' = "early"
        /\ preIdr' = preIdr + 1 /\ DrainBegins
  /\ UNCHANGED <<pts, units, video, lostVideo, audio, priming, ticks, packets,
                 fragments>>

\* push_video: the newest unit ends the one before it.  The tap is drained next.
PushVideo ==
  /\ phase \in {"none", "early", "open"} /\ consumer.at = "away"
  /\ units < MaxUnit /\ units' = units + 1
  /\ \E gap \in Gap :
       LET first == phase # "open"
           ended == IF video = <<>> THEN video
                    ELSE [video EXCEPT ![Len(video)].duration = gap]
       IN /\ pts' = IF first THEN 0 ELSE pts + gap
          /\ Keep(TryEmit([Writer EXCEPT !.video =
                 Append(ended, [start |-> pts', duration |-> Unknown])], FALSE))
  /\ phase' = "open" /\ preIdr' = 0
  /\ DrainBegins
  /\ UNCHANGED priming

\* No unit for DRAIN_POLL; without a writer the tap is left as it is.
Poll ==
  /\ phase \in {"early", "open"}
  /\ DrainBegins
  /\ UNCHANGED writerVars

\* A stop: the tail of the tap is drained before the file is finished.
Stop ==
  /\ phase = "open" /\ DrainBegins
  /\ phase' = "stopping"
  /\ UNCHANGED <<preIdr, pts, units, video, lostVideo, audio, priming, ticks,
                 packets, fragments>>

\* push_audio, with what the drain returned.
PushAudio ==
  /\ phase # "failed" /\ Drain
  /\ LET skip == Min({priming, consumer.count})
     IN /\ priming' = priming - skip
        /\ Keep(TryEmit([Writer EXCEPT !.audio = @ + consumer.count - skip],
                        FALSE))
  /\ UNCHANGED <<phase, preIdr, pts, units>>

Draining == DrainSteps /\ UNCHANGED writerVars

\* Mutant: the last unit keeps its unknown duration and stays behind.
FinishForgetsTail ==
  /\ phase = "stopping" /\ consumer.at = "away"
  /\ LET w == TryEmit([Writer EXCEPT !.video =
                         IF @ = <<>> THEN @ ELSE Front(@)], TRUE)
     IN /\ video' = IF video = <<>> THEN <<>> ELSE w.video \o <<Last(video)>>
        /\ audio' = w.audio /\ ticks' = w.ticks /\ packets' = w.packets
        /\ fragments' = w.fragments
  /\ phase' = "finished"
  /\ UNCHANGED <<preIdr, pts, units, lostVideo, priming, tapVars>>

\* finish: the last unit is given a duration, the encoder flushed of what it
\* still holds, and all that is left is written.
Finish ==
  /\ phase = "stopping" /\ consumer.at = "away"
  /\ LET last == Len(video)
         lasting == IF last > 1 THEN video[last - 1].duration ELSE 1
         ended == IF video = <<>> THEN video
                  ELSE [video EXCEPT ![last].duration = lasting]
     IN \E flushed \in 0..1 :
          LET w == TryEmit([Writer EXCEPT !.video = ended,
                              !.audio = @ + Max({0, flushed - priming})], TRUE)
          IN /\ video' = w.video /\ audio' = w.audio
             /\ ticks' = w.ticks /\ packets' = w.packets
             /\ fragments' = w.fragments
  /\ phase' = "finished"
  /\ UNCHANGED <<preIdr, pts, units, lostVideo, priming, tapVars>>

Next ==
  \/ Push /\ UNCHANGED writerVars
  \/ PushEarly \/ PushVideo \/ Poll \/ Stop \/ Draining \/ PushAudio \/ Finish

Spec == Init /\ [][Next]_vars

-----------------------------------------------------------------------------
(* What the writer promises.                                               *)

\* The two tracks stay in step: in the file each fragment begins, in both, where the
\* one before it ended, and until the finish its audio reaches its video's end, by
\* less than a packet (writer.rs, try_emit and emit_fragment).
TracksInStep ==
  \A i \in DOMAIN fragments :
    LET f == fragments[i]
        end == f.at + f.ticks
    IN /\ i = 1 => f.at = 0 /\ f.from = 0
       /\ i > 1 => LET e == fragments[i - 1]
                   IN f.at = e.at + e.ticks /\ f.from = e.from + e.packets
       /\ ~f.tail => (f.from + f.packets) * PacketTicks \in end .. end + PacketTicks - 1

\* A finished take whose video was never shed holds every unit and packet.
FinishedIsWhole ==
  phase = "finished" =>
    /\ audio = 0
    /\ lostVideo = 0 => video = <<>> /\ ticks >= pts

\* What was not shed is in a finished take (writer.rs
\* MAX_BUFFERED_VIDEO_FRAMES: the timeline stays continuous).
NothingStranded == phase = "finished" => video = <<>>
=============================================================================
