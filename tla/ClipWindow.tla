----------------------------- MODULE ClipWindow -----------------------------
(***************************************************************************)
(* A plain clip's resident frames (render.rs, ClipRing; read_ahead.rs).    *)
(* The frames before `head` are decoded at show.load and stay.  Behind     *)
(* them a window of slots moves with the index that is due: a read-ahead   *)
(* thread decodes into a channel, and once a frame the render loop takes   *)
(* what has arrived into the slots.  A frame that is not there yet is held *)
(* over, never waited for.  Ladder rung 2 sheds a ring the View does not   *)
(* show; it is uploaded again, with an empty window, when a bus needs it.  *)
(*                                                                         *)
(* One clip, on the View, on the Preview, on both (the View then places    *)
(* the window) or on neither.                                              *)
(***************************************************************************)
EXTENDS Integers, FiniteSets, FiniteSetsExt

CONSTANTS
  Length,   \* the clip's frames, by its container
  HeadCap,  \* CLIP_PRELOAD_FRAMES
  Window,   \* clip_window_frames
  Depth,    \* CHANNEL_DEPTH
  PerFrame, \* READ_AHEAD_UPLOADS_PER_FRAME
  Buffers,  \* READ_AHEAD_STAGING_BUFFERS
  Advance   \* how far the due index may move from one frame to the next

ClipConstants ==
  /\ {Length, HeadCap, Window, Depth, PerFrame, Buffers} \subseteq Nat \ {0}
  /\ Advance \subseteq Nat

VARIABLES
  file,      \* the frames a decoder can read now; 0: it cannot open the file
  head,      \* the frames resident from show.load on
  ringed,    \* the clip has its ring
  slots,     \* slot_frame: the index each slot holds
  base,      \* the lowest index the window must hold
  worker,    \* the read-ahead thread and its channel
  pending,   \* a delivered frame held back
  stalledAt, \* the missing frame a finished thread left behind
  view,      \* the index due on the View
  preview,   \* and on the Preview
  shown,     \* the index the View drew last in this play
  lastPresented,
  at,        \* the render loop is "between" frames, "placing" the window,
             \* "pumping" or "drawing"
  budget,    \* the uploads left to the frame (a local of the pump, reset by Draw)
  inFlight   \* the staging buffers the GPU has not returned

ringVars == <<ringed, slots, base, worker, pending, stalledAt>>
busVars == <<view, preview>>
vars == <<file, head, ringVars, busVars, shown, lastPresented, at, budget, inFlight>>

None == -1
Index == 0..Length - 1
Slots == Min({Length - head, Window})
Slot(j) == (j - head) % Slots

NoWorker == [thread |-> "none"]
\* The channel holds the frames from next (the loop's side) to decoded - 1.
Worker == [thread : {"opening", "decoding", "gone"},
           next : Nat, decoded : Nat]

TypeOK ==
  /\ file \in 0..Length /\ head \in 1..HeadCap /\ ringed \in BOOLEAN
  /\ slots \in [0..Slots - 1 -> Index \cup {None}]
  /\ base \in head..Length
  /\ worker \in Worker \cup {NoWorker}
  /\ {pending, stalledAt, view, preview, shown, lastPresented} \subseteq Index \cup {None}
  /\ at \in {"between", "placing", "pumping", "drawing"}
  /\ budget \in 0..PerFrame /\ inFlight \in 0..Buffers

\* The load decodes the head and primes the window from what the file has.
\* It may have less than its container says, and may be gone afterwards.
Init ==
  /\ \E read \in 1..Length :
       /\ head = Min({read, HeadCap})
       /\ slots = [s \in 0..Slots - 1 |-> IF head + s < read THEN head + s ELSE None]
       /\ file \in {0, read}
  /\ ringed = TRUE /\ base = head /\ worker = NoWorker
  /\ pending = None /\ stalledAt = None /\ view = None /\ preview = None
  /\ shown = None /\ lastPresented = None
  /\ at = "between" /\ budget = PerFrame /\ inFlight = 0

-----------------------------------------------------------------------------
Resident(j) == j < head \/ (Slots > 0 /\ slots[Slot(j)] = j)
WindowEnd == Min({base + Slots, Length})
MissingFrom(b) == {j \in b..Min({b + Slots, Length}) - 1 : ~Resident(j)}
FirstOf(set) == IF set = {} THEN None ELSE Min(set)

\* Where a bus may be at the next frame: off the clip, at a new play's start,
\* or further on (past the end nothing is due).
Moves(i) == {None, 0} \cup (IF i = None THEN {} ELSE {i + a : a \in Advance} \cap Index)

\* Mutant: a thread that is past the missing frame is kept.
MustRestartOnlyFar(m, held) ==
  IF worker = NoWorker THEN stalledAt # m
  ELSE m > (IF held # None THEN held ELSE worker.next) + Slots

MustRestart(m, held) ==
  IF worker = NoWorker THEN stalledAt # m
  ELSE LET next == IF held # None THEN held ELSE worker.next
       IN next > m \/ m > next + Slots

\* A ring uploaded again: what the load had primed is spent.
FreshRing ==
  /\ slots' = [s \in DOMAIN slots |-> None] /\ base' = head
  /\ worker' = NoWorker /\ pending' = None /\ stalledAt' = None
  /\ lastPresented' = None

\* A frame begins, on any rung of the ladder: the View gets its ring back,
\* rung 2 drops one the View does not show.
BeginFrame ==
  /\ at = "between" /\ at' = "placing"
  /\ view' \in Moves(view) /\ preview' \in Moves(preview)
  /\ shown' = IF view' = None \/ (view # None /\ view' < view) THEN None ELSE shown
  /\ \/ /\ IF ringed THEN view' # None \/ TRUE ELSE view' = None
        /\ UNCHANGED <<ringVars, lastPresented>>
     \/ /\ ~ringed /\ view' # None
        /\ ringed' = TRUE /\ FreshRing
     \/ /\ ringed /\ view' = None
        /\ ringed' = FALSE /\ FreshRing
  /\ UNCHANGED <<file, head, budget, inFlight>>

\* The window moves to the due index; a thread that cannot bring the first
\* missing frame is replaced by one that starts there.
Place ==
  /\ at = "placing"
  /\ IF ~ringed \/ Slots = 0
     THEN at' = "drawing" /\ UNCHANGED ringVars
     ELSE LET b == Max({IF view # None THEN view ELSE preview, head})
              held == IF pending < b THEN None ELSE pending
              m == FirstOf(MissingFrom(b))
              restart == m # None /\ MustRestart(m, held)
          IN /\ base' = b
             /\ pending' = IF restart THEN None ELSE held
             /\ stalledAt' = IF restart THEN None ELSE stalledAt
             /\ worker' = IF restart
                          THEN [thread |-> "opening", next |-> m, decoded |-> m]
                          ELSE worker
             /\ at' = "pumping"
             /\ UNCHANGED <<ringed, slots>>
  /\ UNCHANGED <<file, head, busVars, shown, lastPresented, budget, inFlight>>

\* A delivered frame: past it already, ahead of the window, or uploaded.
Deliver(j) ==
  \/ /\ j < base \/ Resident(j)
     /\ pending' = None
     /\ UNCHANGED <<slots, budget, inFlight, at>>
  \/ /\ j >= base /\ ~Resident(j) /\ (j >= WindowEnd \/ inFlight = Buffers)
     /\ pending' = j /\ at' = "drawing"
     /\ UNCHANGED <<slots, budget, inFlight>>
  \/ /\ j >= base /\ ~Resident(j) /\ j < WindowEnd /\ inFlight < Buffers
     /\ slots' = [slots EXCEPT ![Slot(j)] = j]
     /\ pending' = None /\ budget' = budget - 1 /\ inFlight' = inFlight + 1
     /\ UNCHANGED at

Outside == UNCHANGED <<file, head, ringed, base, busVars, shown, lastPresented>>

TakePending ==
  /\ at = "pumping" /\ budget > 0 /\ pending # None
  /\ Deliver(pending)
  /\ UNCHANGED <<worker, stalledAt>> /\ Outside

Polls == at = "pumping" /\ budget > 0 /\ pending = None /\ worker # NoWorker

Receive ==
  /\ Polls /\ worker.next < worker.decoded
  /\ worker' = [worker EXCEPT !.next = @ + 1]
  /\ Deliver(worker.next)
  /\ UNCHANGED stalledAt /\ Outside

\* Nothing to poll, nothing there yet, or the frame's uploads are spent.
PumpEnds ==
  /\ at = "pumping"
  /\ \/ budget = 0
     \/ pending = None /\ worker = NoWorker
     \/ Polls /\ worker.next = worker.decoded /\ worker.thread # "gone"
  /\ at' = "drawing"
  /\ UNCHANGED <<ringVars, budget, inFlight, file, head, busVars, shown, lastPresented>>

\* The thread has ended and its channel is empty: Delivery::Done.
Done ==
  /\ Polls /\ worker.next = worker.decoded /\ worker.thread = "gone"
  /\ worker' = NoWorker /\ stalledAt' = FirstOf(MissingFrom(base))
  /\ at' = "drawing"
  /\ UNCHANGED <<slots, pending, budget, inFlight>> /\ Outside

-----------------------------------------------------------------------------
\* The miss policy: the last frame the View drew, the nearest one before, or
\* the head's last.
HoldFor(i) ==
  LET before == {slots[s] : s \in DOMAIN slots} \cap 0..i - 1
  IN IF lastPresented \in 0..i - 1 /\ Resident(lastPresented) THEN lastPresented
     ELSE IF before # {} THEN Max(before) ELSE head - 1

Draw ==
  /\ at = "drawing" /\ at' = "between" /\ budget' = PerFrame
  /\ IF view # None
     THEN /\ shown' = IF Resident(view) THEN view ELSE HoldFor(view)
          /\ lastPresented' = shown'
          /\ UNCHANGED ringVars
     ELSE /\ UNCHANGED shown
          /\ \/ UNCHANGED <<ringVars, lastPresented>>
             \/ /\ ~ringed /\ preview # None  \* the Preview's pre-roll
                /\ ringed' = TRUE /\ FreshRing
  /\ UNCHANGED <<file, head, busVars, inFlight>>

-----------------------------------------------------------------------------
(* The thread.  It decodes and drops the frames before its start.          *)

ThreadStep == UNCHANGED <<file, head, ringed, slots, base, pending, stalledAt, busVars,
                          shown, lastPresented, at, budget, inFlight>>

\* A clip that does not open, or ends before the start, ends the thread.
Open ==
  /\ worker # NoWorker /\ worker.thread = "opening"
  /\ worker' = [worker EXCEPT !.thread =
                  IF worker.next < file THEN "decoding" ELSE "gone"]
  /\ ThreadStep

Send ==
  /\ worker # NoWorker /\ worker.thread = "decoding"
  /\ worker.decoded < Min({file, Length})
  /\ worker.decoded - worker.next < Depth
  /\ worker' = [worker EXCEPT !.decoded = @ + 1]
  /\ ThreadStep

ThreadEnds ==
  /\ worker # NoWorker /\ worker.thread = "decoding"
  /\ worker.decoded = Min({file, Length})
  /\ worker' = [worker EXCEPT !.thread = "gone"]
  /\ ThreadStep

\* The GPU has consumed staged uploads: reclaim, where a frame begins.
Reclaim ==
  /\ inFlight > 0 /\ at = "between"
  /\ inFlight' \in 0..inFlight - 1
  /\ UNCHANGED <<file, head, ringVars, busVars, shown, lastPresented, at, budget>>

Loop == BeginFrame \/ Place \/ TakePending \/ Receive \/ PumpEnds \/ Done \/ Draw
Thread == Open \/ Send \/ ThreadEnds
Next == Loop \/ Thread \/ Reclaim

\* The loop ticks, the thread runs, and the GPU finishes what it was given; what
\* it returned is taken back where a frame begins, so again and again possible.
Spec == Init /\ [][Next]_vars /\ WF_vars(Loop) /\ WF_vars(Thread) /\ SF_vars(Reclaim)

-----------------------------------------------------------------------------
\* A window that stays where it is settles, whatever the thread was doing when it
\* came there: it fills, if the file has the frames, and if the file ends early, or
\* is gone, the last thread ends and does not cost another one a frame.
WindowSettles ==
  <>[]ringed /\ <>[][base' = base]_vars
    => <>[](IF file >= WindowEnd THEN MissingFrom(base) = {} ELSE worker = NoWorker)
=============================================================================
