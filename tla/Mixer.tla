-------------------------------- MODULE Mixer --------------------------------
(***************************************************************************)
(* The audio graph between the directive handlers and its own thread       *)
(* (audio_control.rs, audio.rs).  Handlers queue intents; the graph's      *)
(* owner applies a batch of them before every block it renders.  A take    *)
(* exchanges the sources of the element buses through silence: the bus     *)
(* fades out, the sources are exchanged at zero, the bus fades in again.   *)
(* An exchange that has to wait for its fade stays in a queue of its own,  *)
(* and later intents are applied while it waits.                           *)
(*                                                                         *)
(* Time goes in blocks (one house frame).  A ramp of 5 to 25 ms ends in    *)
(* its first or its second block; between its ends a gain has no value     *)
(* anything looks at, only "is it zero".  A feed is named by the take it   *)
(* was read for: taking an item again reads it from a new t0.              *)
(***************************************************************************)
EXTENDS Integers, Sequences, SequencesExt

CONSTANTS
  Items,       \* the items of the rundown
  ClipItems, MusicItems,  \* those that feed each element bus (item_audio)
  Sounds,      \* the soundboard assets; the engine holds the resident ones
  Resident,
  Spaced,      \* takes and fader moves wait for the exchange before them
  MaxIntents,  \* how many may wait for the next block
  MaxTakes, MaxOthers  \* how many commands there are

Bus == {"clip", "music"}

MixerConstants ==
  /\ ClipItems \cup MusicItems \subseteq Items /\ Resident \subseteq Sounds
  /\ Spaced \in BOOLEAN
  /\ {MaxIntents, MaxTakes, MaxOthers} \subseteq Nat

Level == {"silent", "low", "unity"}

VARIABLES
  onAir,     \* the last take: its item (None: an empty View) and its number
  takes, others,  \* how many commands there were
  intents,   \* EngineState.audio_commands
  gain,      \* the gain ramp of each bus
  mute,      \* and its mute ramp
  operator,  \* operator_db
  sources,   \* the take whose feed each bus plays, or Nothing
  pending,   \* pending_swaps, by bus: those of two buses do not meet
  ducker,    \* the ducker's ramp, heard on music alone
  voices,    \* the soundboard's voices, on sfx
  \* History: the last command on each bus was a take with its audio muted.
  hushed

commandVars == <<onAir, takes, others>>
graphVars == <<gain, mute, operator, sources, pending, ducker, voices, hushed>>
vars == <<commandVars, intents, graphVars>>

None == "none"
Nothing == 0   \* a bus whose sources are empty
Unset == -1    \* a bus nothing was ever exchanged on
Playing == 2   \* the length of a sound, in blocks

-----------------------------------------------------------------------------
(* Ramps *)

Ramp == [at : Level \cup {"between"}, to : Level, left : 0..2]

Resting(level) == [at |-> level, to |-> level, left |-> 0]

\* A ramp to where it is has no step and is over.
To(ramp, level, blocks) ==
  [ramp EXCEPT !.to = level, !.left = IF ramp.at = level THEN 0 ELSE blocks]

\* One block of it.
Advance(ramp) ==
  CASE ramp.left = 0 -> ramp
    [] ramp.left = 1 -> Resting(ramp.to)
    [] OTHER -> [ramp EXCEPT !.at = "between", !.left = @ - 1]

IsZero(ramp) == ramp.at = "silent"

-----------------------------------------------------------------------------
(* The commands *)

TakeIntent(item, n, mode, blocks) ==
  [kind |-> "take", item |-> item, n |-> n, mode |-> mode, blocks |-> blocks]
BusIntent(b, level) == [kind |-> "bus", bus |-> b, level |-> level]
MuteIntent(b, muted) == [kind |-> "mute", bus |-> b, muted |-> muted]
DuckIntent(on) == [kind |-> "duck", on |-> on]
PlayIntent(s) == [kind |-> "play", sound |-> s]
StopIntent(s) == [kind |-> "stop", sound |-> s]

Publish(intent) == Len(intents) < MaxIntents /\ intents' = Append(intents, intent)

Waits(b) ==
  \/ pending[b] # <<>>
  \/ \E i \in DOMAIN intents : intents[i].kind = "take"

\* The audio of a take, or of a recall that puts an item on air; None is a recall
\* of an empty View, which publishes a take of no sources.  (The picture's half of
\* the same handlers is ViewTimeline's and Playback's.)
Take(item, mode, blocks) ==
  /\ takes < MaxTakes
  /\ Spaced => \A b \in Bus : ~Waits(b)
  /\ takes' = takes + 1
  /\ onAir' = [item |-> item, n |-> takes']
  /\ Publish(TakeIntent(item, takes', mode, blocks))
  /\ UNCHANGED <<others, graphVars>>

ClearView == Take(None, "follow", 1)

\* audio.bus.set with a gain
Fader(b, level) ==
  /\ others < MaxOthers
  /\ Spaced => ~Waits(b)
  /\ others' = others + 1
  /\ Publish(BusIntent(b, level))
  /\ UNCHANGED <<onAir, takes, graphVars>>

\* audio.bus.set with muted, audio.duck
Switch ==
  /\ others < MaxOthers
  /\ others' = others + 1
  /\ \E on \in BOOLEAN : \/ \E b \in Bus : Publish(MuteIntent(b, on))
                         \/ Publish(DuckIntent(on))
  /\ UNCHANGED <<onAir, takes, graphVars>>

\* soundboard.play, .stop and .stopAll (None stops every voice)
Soundboard ==
  /\ others < MaxOthers
  /\ others' = others + 1
  /\ \/ \E s \in Sounds : Publish(PlayIntent(s))
     \/ \E s \in Sounds \cup {None} : Publish(StopIntent(s))
  /\ UNCHANGED <<onAir, takes, graphVars>>

-----------------------------------------------------------------------------
(* The graph's owner, before a block *)

FeedOf(item, n, b) ==
  IF item \in (IF b = "clip" THEN ClipItems ELSE MusicItems) THEN n ELSE Nothing

HasSources(b) == sources[b] > Nothing

\* Mutant: a bus the new item does not feed is left alone.
TakesPartFed(b, feed) == b = "clip" \/ feed # Nothing

\* The clip bus always takes the item's audio, none included; another bus
\* only when the old item or the new one feeds it.
TakesPart(b, feed) == b = "clip" \/ feed # Nothing \/ HasSources(b)

\* Another element bus returns to the operator's level.
TakeLevel(b, mode) ==
  CASE mode = "mute" -> "silent"
    [] b = "clip" -> "unity"
    [] OTHER -> operator[b]

FadeOut(b, blocks) == To(gain[b], "silent", blocks)

\* The next intent of the batch.
Taken(kind) == intents # <<>> /\ Head(intents).kind = kind /\ intents' = Tail(intents)

\* TakeItem.  A bus that is silent already has nothing to fade out of: its
\* sources are exchanged now (swap_source_through_silence).
ApplyTake ==
  /\ Taken("take")
  /\ LET t == Head(intents)
         feed(b) == FeedOf(t.item, t.n, b)
         part == {b \in Bus : TakesPart(b, feed(b))}
         now == {b \in part : IsZero(gain[b])}
         swap(b) == [feed |-> feed(b), level |-> TakeLevel(b, t.mode), blocks |-> t.blocks]
     IN  /\ sources' = [b \in Bus |-> IF b \in now THEN feed(b) ELSE sources[b]]
         /\ gain' = [b \in Bus |-> CASE b \in now -> To(gain[b], TakeLevel(b, t.mode), t.blocks)
                                     [] b \in part \ now -> FadeOut(b, t.blocks)
                                     [] OTHER -> gain[b]]
         /\ pending' = [b \in Bus |-> IF b \in part \ now THEN Append(pending[b], swap(b))
                                     ELSE pending[b]]
         /\ hushed' = [b \in Bus |-> IF b \in part THEN t.mode = "mute" ELSE hushed[b]]
  /\ UNCHANGED <<commandVars, mute, operator, ducker, voices>>

\* audio.bus.set, its gain
ApplyFader ==
  /\ Taken("bus")
  /\ LET b == Head(intents).bus
         level == Head(intents).level
     IN  /\ operator' = [operator EXCEPT ![b] = level]
         /\ gain' = [gain EXCEPT ![b] = To(@, level, 1)]
         /\ hushed' = [hushed EXCEPT ![b] = FALSE]
  /\ UNCHANGED <<commandVars, mute, sources, pending, ducker, voices>>

\* audio.bus.set, its mute
ApplyMute ==
  /\ Taken("mute")
  /\ mute' = [mute EXCEPT ![Head(intents).bus] =
                To(@, IF Head(intents).muted THEN "silent" ELSE "unity", 1)]
  /\ UNCHANGED <<commandVars, gain, operator, sources, pending, ducker, voices, hushed>>

\* audio.duck (AudioGraph::set_duck)
ApplyDuck ==
  /\ Taken("duck")
  /\ ducker' = IF Head(intents).on THEN To(ducker, "low", 1) ELSE To(ducker, "unity", 2)
  /\ UNCHANGED <<commandVars, gain, mute, operator, sources, pending, voices, hushed>>

\* A voice starts silent and is up within its first block; `left` is what it
\* still has to play, in blocks.  A sound that is not resident is not played.
ApplyPlay ==
  /\ Taken("play")
  /\ LET s == Head(intents).sound
     IN  voices' = IF s \in Resident
                   THEN Append(voices, [sound |-> s, left |-> Playing, stopping |-> FALSE])
                   ELSE voices
  /\ UNCHANGED <<commandVars, gain, mute, operator, sources, pending, ducker, hushed>>

\* A stop that names an asset, or stops every voice.  A stop that names a
\* playback stops none: the identifier is a string, the engine reads a number.
ApplyStop ==
  /\ Taken("stop")
  /\ LET s == Head(intents).sound
     IN  voices' = [i \in DOMAIN voices |->
           [voices[i] EXCEPT !.stopping = @ \/ s \in {None, voices[i].sound}]]
  /\ UNCHANGED <<commandVars, gain, mute, operator, sources, pending, ducker, hushed>>

-----------------------------------------------------------------------------
(* A block *)

Ready(b) == IsZero(gain[b]) /\ pending[b] # <<>>

\* service_pending_swaps.  Every exchange whose bus is at zero is made, in
\* order; a new target leaves the ramp where it is, so of several on one bus
\* the last one stands.
Due(b) == Last(pending[b])

\* Voices that ran out, or were stopped, are gone at the block's end.
Sounding == SelectSeq(voices, LAMBDA v : ~v.stopping /\ v.left > 1)

\* render_at: the exchanges that are due, then a block of every ramp and voice;
\* the ducker's only when music is rendered.
Render ==
  /\ sources' = [b \in Bus |-> IF Ready(b) THEN Due(b).feed ELSE sources[b]]
  /\ gain' = [b \in Bus |->
       Advance(IF Ready(b) THEN To(gain[b], Due(b).level, Due(b).blocks) ELSE gain[b])]
  /\ pending' = [b \in Bus |-> IF Ready(b) THEN <<>> ELSE pending[b]]
  /\ mute' = [b \in Bus |-> Advance(mute[b])]
  /\ ducker' = IF sources'["music"] = Unset THEN ducker ELSE Advance(ducker)
  /\ voices' = [i \in DOMAIN Sounding |-> [Sounding[i] EXCEPT !.left = @ - 1]]
  /\ UNCHANGED <<commandVars, intents, operator, hushed>>

Init ==
  /\ onAir = [item |-> None, n |-> 0] /\ takes = 0 /\ others = 0
  /\ intents = <<>> /\ pending = [b \in Bus |-> <<>>]
  /\ gain = [b \in Bus |-> Resting("unity")] /\ mute = gain
  /\ operator = [b \in Bus |-> "unity"] /\ hushed = [b \in Bus |-> FALSE]
  /\ sources = [b \in Bus |-> Unset]
  /\ ducker = Resting("unity") /\ voices = <<>>

Applies == ApplyTake \/ ApplyFader \/ ApplyMute \/ ApplyDuck \/ ApplyPlay \/ ApplyStop

Driver == Applies \/ Render

Next ==
  \/ \E item \in Items, mode \in {"follow", "mute"}, blocks \in {1, 2} : Take(item, mode, blocks)
  \/ ClearView
  \/ \E b \in Bus, level \in Level : Fader(b, level)
  \/ Switch
  \/ Soundboard
  \/ Driver

Spec == Init /\ [][Next]_vars /\ WF_vars(Applies) /\ WF_vars(Render)
-----------------------------------------------------------------------------
(* Properties *)

AtRest ==
  /\ intents = <<>>
  /\ \A b \in Bus : pending[b] = <<>> /\ gain[b].left = 0

\* What is heard belongs to what is seen: once its commands have been applied,
\* every element bus plays the feed of the last take, and a bus that take does
\* not feed plays nothing (audio_control.rs, apply).
SoundFollowsPicture ==
  AtRest => \A b \in Bus :
    LET feed == FeedOf(onAir.item, onAir.n, b)
    IN  IF feed = Nothing THEN sources[b] \in {Nothing, Unset} ELSE sources[b] = feed
=============================================================================
