------------------------------- MODULE MCMedia --------------------------------
(* Sound and coded picture in one run, four components of it side by side:   *)
(* the mix of what is on air (Mixer), the take's tap and file (AudioTap,     *)
(* TakeWriter), the stream's frames (StreamSession) and what its peer        *)
(* answers (ChunkReader).  They share no state in the models; a behaviour is *)
(* about one of them.                                                        *)
EXTENDS TakeWriter

CONSTANTS MaxStreams, MaxTicks, MaxShows, ResyncsLive, ChannelBound
CONSTANT MaxBegun  \* bound on ticks, shows and streams begun, together
CONSTANTS Csid, Sizes, DefaultSize, LongSize, MaxMessages, Stalls
CONSTANTS Items, ClipItems, MusicItems, Sounds, Resident, Spaced, MaxIntents,
          MaxTakes, MaxOthers

VARIABLES clock, idle, ticked, tick, live, streaming, opened, closing, skips,
          thread, told, transport, queue, base, pending, offered, stamps, lost
VARIABLES peer, open, sent, begun, wire, reader, last, partial, inSize,
          delivered, stage
VARIABLES onAir, takes, others, intents, gain, mute, operator, sources,
          exchanges, ducker, voices, hushed

VARIABLE part  \* the component this behaviour is about

streamVars == <<clock, idle, ticked, tick, live, streaming, opened, closing,
                skips, thread, told, transport, queue, base, pending, offered,
                stamps, lost>>
readerVars == <<peer, open, sent, begun, wire, reader, last, partial, inSize,
                delivered, stage>>
soundVars == <<onAir, takes, others, intents, gain, mute, operator, sources,
               exchanges, ducker, voices, hushed>>

Stream == INSTANCE StreamSession WITH slot <- streaming, ticks <- ticked
Reader == INSTANCE ChunkReader
Sound == INSTANCE Mixer WITH pending <- exchanges

ASSUME StreamConstants == Stream!StreamSessionConstants
ASSUME ReaderConstants == Reader!ChunkReaderConstants
ASSUME SoundConstants == Sound!MixerConstants

MCInit ==
  /\ part \in {"stream", "take", "peer", "mix"}
  /\ Init /\ Stream!Init /\ Reader!Init /\ Sound!Init

MCNext ==
  \/ /\ part = "stream" /\ Stream!Next /\ UNCHANGED <<part, vars, readerVars, soundVars>>
     /\ ticked' + clock'.shows + opened' <= MaxBegun
  \/ part = "take" /\ Next /\ UNCHANGED <<part, streamVars, readerVars, soundVars>>
  \/ part = "peer" /\ Reader!Next /\ UNCHANGED <<part, vars, streamVars, soundVars>>
  \/ part = "mix" /\ Sound!Next /\ UNCHANGED <<part, vars, streamVars, readerVars>>

MCSpec ==
  /\ MCInit /\ [][MCNext]_<<part, vars, streamVars, readerVars, soundVars>>

\* Every frame the loop had a live stream for is on its way, published or
\* counted, in one of these only (skip.rs; stream.rs, hand_off_stream_surface).
NoSkipUnseen == Stream!NoSkipUnseen

\* A stream's time begins with its first frame and never goes back, even if that
\* frame was named before the show and the stream were started anew (stream.rs,
\* Timeline).
StampsNeverGoBack == Stream!StampsNeverGoBack

\* Messages arrive whole and in the order they were finished, however their
\* chunks are interleaved and whatever sizes are set between them, and one that
\* has been sent to its end has been heard (rtmp.rs, live_loop's read side).
MessagesArriveWhole == Reader!MessagesArriveWhole

\* What is heard belongs to what is seen: once its commands have been applied,
\* every element bus plays the feed of the last take, and a bus that take does
\* not feed plays nothing (audio_control.rs, apply).
SoundFollowsPicture == Sound!SoundFollowsPicture
===============================================================================
