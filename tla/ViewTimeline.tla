---------------------------- MODULE ViewTimeline ----------------------------
(***************************************************************************)
(* What the View shows against the master frame: takes and their mixes     *)
(* (directive.rs, apply_take; scene.rs, Transition) and one overlay over   *)
(* them (on_overlay), drawn by the render loop (render.rs, scene_for and   *)
(* overlay_draws).  A take is issued for the next frame boundary.  It      *)
(* writes the transition, the item and its start one after the other, and  *)
(* the loop reads them one after the other, in the opposite order, while   *)
(* the clock moves on.  A mix that interrupts a mix keeps what was on air  *)
(* beneath it as frozen layers.                                            *)
(*                                                                         *)
(* One run of the clock, and the directives of the show before it: frame   *)
(* numbers that items and overlays keep mean nothing in the next run, and  *)
(* the pictures drawn without a clock are on no timeline.                  *)
(*                                                                         *)
(* The slate that covers all of this is FrameLoop's.                       *)
(***************************************************************************)
EXTENDS Integers, Sequences

CONSTANTS
  Items,       \* the rundown's items
  Length,      \* of a mix and of an overlay's animation, in frames
  MaxLayers,   \* MAX_UNDERLAY_LAYERS
  MaxFrame,    \* bound on the master frame
  MaxCommands \* bound on takes and overlay commands

ViewTimelineConstants ==
  /\ "none" \notin Items
  /\ {Length, MaxLayers} \subseteq Nat \ {0} /\ {MaxFrame, MaxCommands} \subseteq Nat

VARIABLES
  clock,      \* the master frame; Stopped
  pc,         \* the loop is "between" frames or reads "item", "start"
              \* or "transition" next
  frame,      \* the one it draws
  read,       \* the item and the start it has read
  shown,      \* what the View showed last: its
              \* frame and layers, and whether it is "early": a take
              \* it does not show changes the picture
  item, start, transition, \* view_item, view_item_start_frame, transition
  take,       \* the take being applied, and what it has still to write
  commands,   \* takes and overlay commands so far
  overlay,    \* its OverlayRuntime, or NoOverlay
  asked,      \* history: what the last overlay command wanted, and from when
  base        \* history: what the View showed in the frame before a mix

loopVars == <<pc, frame, read, shown>>
viewVars == <<item, start, transition>>
takeVars == <<take, base>>
overlayVars == <<overlay, asked>>
vars == <<clock, loopVars, viewVars, takeVars, overlayVars, commands>>

Stopped == -1
None == "none"
NoOverlay == [phase |-> "none"]
NoTake == [step |-> "none"]
NoTransition == [kind |-> "none"]
NoBase == <<>>

Layer(i, alpha, t0) == [item |-> i, alpha |-> alpha, t0 |-> t0]

\* The layers that are seen, each with its place.
Visible(layers) == {<<i, layers[i]>> : i \in {j \in DOMAIN layers : layers[j].alpha > 0}}

TypeOK ==
  /\ clock \in {Stopped} \cup 0..MaxFrame
  /\ pc \in {"between", "item", "start", "transition"}
  /\ {frame, start} \subseteq 0..MaxFrame + 1
  /\ item \in Items \cup {None}
  /\ transition # NoTransition =>
       /\ transition.kind \in {"cut", "mix"} /\ transition.to \in Items
       /\ transition.from \in Items \cup {None}
       /\ {transition.start, transition.fromStart} \subseteq 0..MaxFrame + 1
       /\ Len(transition.underlay) <= MaxLayers
  /\ commands \in 0..MaxCommands

Init ==
  /\ clock = Stopped
  /\ pc = "between" /\ frame = 0
  /\ read = Layer(None, Length, 0)
  /\ shown = [frame |-> Stopped, layers |-> <<>>, early |-> FALSE]
  /\ item = None /\ start = 0 /\ transition = NoTransition
  /\ take = NoTake /\ commands = 0 /\ base = NoBase
  /\ overlay = NoOverlay /\ asked = [alpha |-> 0, from |-> 0]

-----------------------------------------------------------------------------
Running == clock # Stopped

\* Transition::progress, in parts of Length.
Progress(t, f) ==
  IF f < t.start THEN 0
  ELSE IF t.kind = "cut" \/ f - t.start >= Length THEN Length
  ELSE f - t.start

IsComplete(t, f) == Progress(t, f) >= Length

\* What lies beneath a mix: the outgoing item, or what it interrupted.
Beneath(t) ==
  IF t.underlay # <<>> THEN t.underlay
  ELSE IF t.from = None THEN <<>>
  ELSE <<Layer(t.from, Length, t.fromStart)>>

\* Mutant: a take shows as soon as it is read.
SceneForAtOnce(s, t, f) ==
  IF t # NoTransition /\ t.kind = "mix" /\ ~IsComplete(t, f)
  THEN Append(Beneath(t), Layer(t.to, Progress(t, f), t.start))
  ELSE IF s.item = None THEN <<>> ELSE <<s>>

\* The picture a snapshot makes at a frame.
SceneFor(s, t, f) ==
  IF t # NoTransition /\ f < t.start
  THEN IF t.from = None THEN <<>> ELSE <<Layer(t.from, Length, t.fromStart)>>
  ELSE IF t # NoTransition /\ t.kind = "mix" /\ ~IsComplete(t, f)
  THEN Append(Beneath(t), Layer(t.to, Progress(t, f), t.start))
  ELSE IF s.item = None THEN <<>> ELSE <<s>>

\* The picture is the newest take's: its frame has come, and the item and the
\* start were read after it wrote them.
Settled(t, f) ==
  t = NoTransition \/ (f >= t.start /\ (IsComplete(t, f) => read = Layer(t.to, Length, t.start)))

OverlayAlpha(o, f) ==
  LET elapsed == f - o.start + 1
      part == IF elapsed <= 0 THEN 0 ELSE IF elapsed < Length THEN elapsed ELSE Length
  IN CASE o.phase = "steady" -> Length
       [] o.phase = "enter" -> part
       [] o.phase = "exit" -> Length - part
       [] OTHER -> 0

-----------------------------------------------------------------------------
(* The clock and the render loop.                                          *)

\* show.start, and the clock's frame passes.
StartShow ==
  /\ ~Running /\ take = NoTake
  /\ clock' = 0
  /\ UNCHANGED <<loopVars, viewVars, takeVars, overlayVars, commands>>

Advance ==
  /\ Running /\ clock < MaxFrame
  /\ clock' = clock + 1
  /\ UNCHANGED <<loopVars, viewVars, takeVars, overlayVars, commands>>

\* The loop wakes for the clock's frame, each at most once.
Wake ==
  /\ pc = "between" /\ pc' = "item"
  /\ clock > shown.frame /\ frame' = clock
  /\ UNCHANGED <<clock, read, shown, viewVars, takeVars, overlayVars, commands>>

\* frame_snapshot, in the order it reads.
ReadItem ==
  /\ pc = "item" /\ pc' = "start"
  /\ read' = [read EXCEPT !.item = item]
  /\ UNCHANGED <<clock, frame, shown, viewVars, takeVars, overlayVars, commands>>

ReadStart ==
  /\ pc = "start" /\ pc' = "transition"
  /\ read' = [read EXCEPT !.t0 = start]
  /\ UNCHANGED <<clock, frame, shown, viewVars, takeVars, overlayVars, commands>>

\* The transition, and the picture; an overlay whose exit is over is dropped.
DrawView ==
  /\ pc = "transition" /\ pc' = "between"
  /\ shown' = [frame |-> frame, layers |-> SceneFor(read, transition, frame),
               early |-> ~Settled(transition, frame)]
  /\ overlay' = IF overlay.phase = "exit" /\ OverlayAlpha(overlay, frame) = 0
                THEN NoOverlay ELSE overlay
  /\ read' = Layer(None, Length, 0)
  /\ UNCHANGED <<clock, frame, viewVars, takeVars, asked, commands>>

-----------------------------------------------------------------------------
(* The directives, applied one at a time.                                  *)

\* view.take and view.cut, and snapshot.recall, a cut with the overlays it names.
TakeBegins(to, kind, recalled) ==
  /\ take = NoTake /\ commands < MaxCommands
  /\ take' = [step |-> "transition", to |-> to, kind |-> kind, recalled |-> recalled,
              start |-> IF Running THEN clock + 1 ELSE 0]
  /\ commands' = commands + 1
  /\ UNCHANGED <<clock, loopVars, viewVars, base, overlayVars>>

\* Mutant: the outgoing mix frozen where it will be, not where it was.
FrozenNext(old, s) ==
  LET f == s
      alpha == Progress(old, f)
      layers == IF alpha > 0 THEN Append(Beneath(old), Layer(old.to, alpha, old.start))
                             ELSE Beneath(old)
  IN IF Len(layers) <= MaxLayers THEN layers
     ELSE <<layers[1]>> \o SubSeq(layers, Len(layers) - MaxLayers + 2, Len(layers))

\* A mix in flight, as the frame before s shows it; above MaxLayers the
\* oldest layer but the lowest goes.
Frozen(old, s) ==
  LET f == IF s = 0 THEN 0 ELSE s - 1
      alpha == Progress(old, f)
      layers == IF alpha > 0 THEN Append(Beneath(old), Layer(old.to, alpha, old.start))
                             ELSE Beneath(old)
  IN IF Len(layers) <= MaxLayers THEN layers
     ELSE <<layers[1]>> \o SubSeq(layers, Len(layers) - MaxLayers + 2, Len(layers))

InFlight(t, f) == t # NoTransition /\ t.kind = "mix" /\ ~IsComplete(t, f)

TakeWritesTransition ==
  /\ take.step = "transition" /\ take' = [take EXCEPT !.step = "item"]
  /\ LET s == take.start
         frozen == IF s = 0 THEN 0 ELSE s - 1
         interrupts == take.kind = "mix" /\ InFlight(transition, frozen)
         layers == IF interrupts THEN Frozen(transition, s) ELSE <<>>
         \* What the freezing preserves: not above the cap, and not a mix from
         \* black that shows nothing yet (its item is then drawn as if on air).
         keeps == layers # <<>> /\ Len(Beneath(transition)) < MaxLayers
     IN /\ transition' = [kind |-> take.kind, start |-> s, to |-> take.to,
                          from |-> item, fromStart |-> start, underlay |-> layers]
        /\ base' = IF take.kind = "mix" /\ s > 0 /\ shown.frame = s - 1 /\ ~shown.early
                      /\ (interrupts => keeps)
                   THEN <<Visible(shown.layers)>> ELSE NoBase
        /\ shown' = [shown EXCEPT !.early = @ \/ take.kind = "cut" \/ s # clock + 1
                                              \/ (interrupts /\ ~keeps)]
  /\ UNCHANGED <<clock, pc, frame, read, item, start, overlayVars, commands>>

TakeWritesItem ==
  /\ take.step = "item" /\ take' = [take EXCEPT !.step = "start"]
  /\ item' = take.to
  /\ UNCHANGED <<clock, loopVars, start, transition, base, overlayVars, commands>>

NextFrame == IF Running THEN clock + 1 ELSE 1

\* The end of the take; of a recall, replace_overlays.
TakeWritesStart ==
  /\ take.step = "start" /\ take' = NoTake
  /\ start' = take.start
  /\ IF take.recalled = {} THEN UNCHANGED overlayVars
     ELSE \E alpha \in take.recalled :
            /\ overlay' = IF alpha > 0 THEN [phase |-> "steady"] ELSE NoOverlay
            /\ asked' = [alpha |-> alpha, from |-> NextFrame]
  /\ UNCHANGED <<clock, loopVars, item, transition, base, commands>>

OverlayCommand(alpha) ==
  /\ take = NoTake /\ commands < MaxCommands /\ commands' = commands + 1
  /\ asked' = [alpha |-> alpha, from |-> NextFrame + Length - 1]
  /\ UNCHANGED <<clock, loopVars, viewVars, takeVars>>

\* Mutant: any overlay on air counts as shown, one on its way out too.
NeedsShowIdle == overlay.phase = "none"

\* Only an overlay on its way out, or gone, is shown again.
NeedsShow == overlay.phase \in {"none", "exit"}

ShowOverlay ==
  /\ OverlayCommand(Length)
  /\ overlay' = IF NeedsShow THEN [phase |-> "enter", start |-> NextFrame] ELSE overlay

HideOverlay ==
  /\ OverlayCommand(0)
  /\ overlay' = IF overlay.phase \in {"none", "exit"} THEN overlay
                ELSE [phase |-> "exit", start |-> NextFrame]

Draws == ReadItem \/ ReadStart \/ DrawView
Writes == TakeWritesTransition \/ TakeWritesItem \/ TakeWritesStart

Next ==
  \/ StartShow \/ Advance \/ Wake \/ Draws \/ Writes
  \/ \E to \in Items : \/ to # item /\ \E kind \in {"cut", "mix"} : TakeBegins(to, kind, {})
                       \/ \E alpha \in {0, Length} : TakeBegins(to, "cut", {alpha})
  \/ ShowOverlay \/ HideOverlay

Spec == Init /\ [][Next]_vars

-----------------------------------------------------------------------------
Drawing == pc = "transition" /\ pc' = "between"

\* render.rs, scene_for: the first frame of a mix shows exactly what the frame
\* before it showed, and the new item at nothing; so does a mix that cuts into
\* one, or into a chain of them short of the layer cap.
MixIsSeamless ==
  [][Drawing /\ transition # NoTransition /\ frame = transition.start /\ base # NoBase
       => Visible(shown'.layers) = base[1]]_vars

\* "No transition begins mid-frame": wherever the snapshot's reads fall among
\* a take's writes, the View shows no item before the frame it was taken for,
\* but for the outgoing one of a second take, which is drawn as if on air.
NothingBeginsEarly ==
  [][Drawing => \A i \in DOMAIN shown'.layers :
       shown'.layers[i].t0 > frame =>
         /\ transition # NoTransition /\ frame < transition.start
         /\ shown'.layers[i].item = transition.from]_vars

\* SPEC 7.10: once its animation is over, the overlay is what the last of the
\* shows, hides and recalls asked for, whatever it was doing when that came.
OverlayFollowsCommand ==
  [][Drawing /\ frame >= asked.from => OverlayAlpha(overlay, frame) = asked.alpha]_vars
=============================================================================
