----------------------------- MODULE DeviceAudio -----------------------------
(***************************************************************************)
(* Program audio on a device (audio_driver.rs, audio_clock.rs,             *)
(* audio_ring.rs, audio_device.rs).  The device calls back every Period    *)
(* frames for what it will play Ahead of time: the callback marks which    *)
(* ring frame is heard when, behind a sequence lock, and pops the ring.    *)
(* The driver polls: it reads the marks, works out when a frame pushed now *)
(* will be heard, renders the block due then and pushes it.  A device that *)
(* is lost or goes quiet is replaced by a null sink, which paces itself.   *)
(*                                                                         *)
(* A tick of time is one sample frame of the master clock.  The two        *)
(* threads interleave at each shared access; a callback takes no time.     *)
(***************************************************************************)
EXTENDS Integers, Sequences

CONSTANTS
  Block,       \* frames the driver renders at once
  Target,      \* TARGET_FILL_BLOCKS, in frames
  Capacity,    \* RING_BLOCKS, in frames
  Period,      \* frames the device asks for
  Ahead,       \* how long before it is heard a callback comes
  Latency,     \* latency_frames, what the device says of itself
  Realign,     \* REALIGN_MS, in frames
  SlipAt,      \* SLIP_THRESHOLD_MS, in frames
  SilentLimit, \* DEVICE_SILENT_LIMIT
  CatchUp,     \* MAX_CATCH_UP_BLOCKS
  MaxDrift,    \* bound on the frames the device's clock falls behind
  MaxShows,    \* bound on the clock's runs
  MaxTime      \* bound on time

ASSUME AudioConstants ==
  /\ {Block, Target, Capacity, Period, SilentLimit, MaxTime} \subseteq Nat \ {0}
  /\ {Ahead, Latency, Realign, SlipAt, CatchUp, MaxDrift, MaxShows} \subseteq Nat

\* Eight blocks of ring over a target of two: a push always fits.
ASSUME RingHolds == Target + Block =< Capacity

VARIABLES
  now, epoch, shows,             \* the master clock
  buf, written, read,            \* the ring
  seq, markFrame, markAt, calls, \* DeviceMarks
  cb, out,                       \* the callback, and what it hands the device
  heardAt,                       \* when its first frame will be heard
  alive, lost, slow,             \* the device; what its clock has lost
  sink, dr, reg, pushing,        \* the driver, what it read of the marks
  cursor, anchored,              \* Feeder
  using,                         \* the epoch a cycle read
  seenCalls, seenAt,             \* last_callback_seen
  due, handed, nullSince,        \* the null sink: its next block, those it had
  gaps, markGaps,                \* history: frames of silence, also at the mark
  told                           \* history: when a block's first frame is due

clockVars == <<now, epoch, shows>>
ringVars == <<buf, written, read, told>>
markVars == <<seq, markFrame, markAt, calls, markGaps>>
deviceVars == <<cb, out, heardAt, alive, lost, slow, gaps>>
readVars == <<reg, pushing>>
feederVars == <<cursor, anchored>>
seenVars == <<seenCalls, seenAt>>
nullVars == <<due, handed, nullSince>>
vars == <<clockVars, ringVars, markVars, deviceVars, sink, dr, readVars,
          feederVars, using, seenVars, nullVars>>

None == -1000

NoMark == [seq |-> 0, frame |-> 0, at |-> 0, gaps |-> None]
Untold == [due |-> None, gaps |-> None]
Slots == 0..Capacity - 1

TypeOK ==
  /\ now \in 0..MaxTime /\ epoch \in Int /\ shows \in 0..MaxShows
  /\ buf \in [Slots -> Nat \cup {None}] /\ {read, written} \subseteq Nat
  /\ told \in [Slots -> [due : Int, gaps : Int]]
  /\ {seq, markFrame, calls} \subseteq Nat /\ markAt \in Nat
  /\ cb \in {"away", "open", "frame", "at", "marked", "popped"}
  /\ out \in Seq([frame : Nat \cup {None}, due : Int, gaps : Int])
  /\ heardAt \in Nat /\ alive \in BOOLEAN /\ lost \in BOOLEAN /\ slow \in 0..MaxDrift
  /\ sink \in {"device", "null"}
  /\ dr \in {"rest", "asleep", "fill", "again", "frame", "at", "plan", "publish"}
  /\ reg \in [seq : Nat, frame : Nat, at : Nat, gaps : Int]
  /\ pushing \in 0..Block + 1 /\ {cursor, anchored, using} \subseteq Int
  /\ {seenCalls, seenAt, due, handed, nullSince, gaps} \subseteq Nat
  /\ markGaps \in Int

Init ==
  /\ now = 0 /\ epoch = None /\ shows = 0
  /\ buf = [s \in Slots |-> None] /\ told = [s \in Slots |-> Untold]
  /\ written = 0 /\ read = 0
  /\ seq = 0 /\ markFrame = 0 /\ markAt = 0 /\ calls = 0
  /\ cb = "away" /\ out = <<>>
  /\ heardAt = Ahead + 1 /\ alive = TRUE /\ lost = FALSE /\ slow = 0
  /\ sink = "device" /\ dr = "rest" /\ reg = NoMark /\ pushing = 0
  /\ cursor = None /\ anchored = None /\ using = None
  /\ seenCalls = 0 /\ seenAt = 0
  /\ due = 0 /\ handed = 0 /\ nullSince = 0
  /\ gaps = 0 /\ markGaps = None

\* Between two cycles.
Polling == dr \in {"rest", "asleep"}

Smaller(a, b) == IF a < b THEN a ELSE b
Larger(a, b) == IF a > b THEN a ELSE b
Size(n) == IF n < 0 THEN -n ELSE n

-----------------------------------------------------------------------------
(* The device's callback: copy_out.                                        *)

CallbackDue == alive /\ now >= heardAt - Ahead

Callback == UNCHANGED <<clockVars, alive, lost, sink, dr, readVars, feederVars,
                        using, seenVars, nullVars>>

\* DeviceMarks::mark: odd, the two halves, even.
MarkOpen ==
  /\ cb = "away" /\ CallbackDue
  /\ cb' = "open" /\ seq' = seq + 1
  /\ Callback
  /\ UNCHANGED <<ringVars, markFrame, markAt, calls, markGaps, out,
                 heardAt, slow, gaps>>

MarkFrame ==
  /\ cb = "open" /\ cb' = "frame"
  /\ markFrame' = read /\ markGaps' = gaps
  /\ Callback
  /\ UNCHANGED <<ringVars, seq, markAt, calls, out, heardAt, slow, gaps>>

MarkAt ==
  /\ cb = "frame" /\ cb' = "at"
  /\ markAt' = heardAt
  /\ Callback
  /\ UNCHANGED <<ringVars, seq, markFrame, calls, markGaps, out, heardAt,
                 slow, gaps>>

MarkClose ==
  /\ cb = "at" /\ cb' = "marked"
  /\ seq' = seq + 1 /\ calls' = calls + 1
  /\ Callback
  /\ UNCHANGED <<ringVars, markFrame, markAt, markGaps, out, heardAt,
                 slow, gaps>>

\* RingConsumer::pop_into: what is written is copied, then it is freed.
PopCopies ==
  /\ cb = "marked" /\ cb' = "popped"
  /\ out' = [i \in 1..Smaller(Period, written - read) |->
               LET s == (read + i - 1) % Capacity
               IN [frame |-> buf[s], due |-> told[s].due, gaps |-> told[s].gaps]]
  /\ Callback
  /\ UNCHANGED <<ringVars, markVars, heardAt, slow, gaps>>

\* The rest of the period is silence.  The device's clock may run slow.
PopFrees ==
  /\ cb = "popped" /\ cb' = "away"
  /\ read' = read + Len(out)
  /\ told' = [s \in Slots |-> IF (s - read) % Capacity < Len(out) THEN Untold ELSE told[s]]
  /\ gaps' = gaps + (Period - Len(out))
  /\ \E lag \in {0, 1} :
       /\ slow + lag =< MaxDrift /\ slow' = slow + lag
       /\ heardAt' = heardAt + Period + lag
  /\ out' = <<>>
  /\ Callback
  /\ UNCHANGED <<buf, written, markVars>>

\* The device goes, between two callbacks: it says so, or just stops.
Goes ==
  /\ alive /\ cb = "away" /\ Polling
  /\ alive' = FALSE /\ lost' \in BOOLEAN
  /\ UNCHANGED <<clockVars, ringVars, markVars, cb, out, heardAt, slow, gaps,
                 sink, dr, readVars, feederVars, using, seenVars, nullVars>>

-----------------------------------------------------------------------------
(* The driver on a device: cycle_device, from one poll to the next.        *)

Driver == UNCHANGED <<clockVars, deviceVars, markVars>>

\* Mutant: every poll counts as a sign of life.
SeenAtEveryPoll == seenAt' = now /\ seenCalls' = calls

\* Whether the device called back since the last poll.
Seen ==
  IF calls # seenCalls THEN seenCalls' = calls /\ seenAt' = now
  ELSE UNCHANGED seenVars

\* A device given up is dropped, and its ring and marks with it.
Dropped ==
  /\ buf' = [s \in Slots |-> None] /\ told' = [s \in Slots |-> Untold]
  /\ written' = 0 /\ read' = 0
  /\ seq' = 0 /\ markFrame' = 0 /\ markAt' = 0 /\ calls' = 0 /\ markGaps' = None
  /\ gaps' = 0

\* collect_device_events, then the epoch for the whole cycle.
Collect ==
  /\ sink = "device" /\ dr = "rest"
  /\ Seen
  /\ IF lost \/ now - seenAt' > SilentLimit
     THEN /\ sink' = "null" /\ due' = now /\ nullSince' = now
          /\ Dropped /\ UNCHANGED <<dr, using>>
     ELSE /\ dr' = "fill" /\ using' = epoch
          /\ UNCHANGED <<sink, due, nullSince, ringVars, markVars, gaps>>
  /\ UNCHANGED <<clockVars, cb, out, heardAt, alive, lost, slow, readVars,
                 feederVars, handed>>

Filled ==
  /\ dr = "fill" /\ written - read >= Target
  /\ dr' = "asleep" /\ using' = None
  /\ Driver
  /\ UNCHANGED <<ringVars, sink, readVars, feederVars, seenVars, nullVars>>

\* DeviceMarks::latest: an even sequence, the two halves, the same again.
Reads(from, to) ==
  /\ dr = from /\ dr' = to
  /\ Driver
  /\ UNCHANGED <<ringVars, sink, pushing, feederVars, using, seenVars, nullVars>>

ReadSeq ==
  /\ written - read < Target /\ seq % 2 = 0
  /\ reg' = [NoMark EXCEPT !.seq = seq]
  /\ Reads("fill", "frame")

ReadFrame ==
  /\ reg' = [reg EXCEPT !.frame = markFrame, !.gaps = markGaps]
  /\ Reads("frame", "at")

ReadAt ==
  /\ reg' = [reg EXCEPT !.at = markAt]
  /\ Reads("at", "again")

\* Mutant: the sequence is not looked at again.
RecheckNever(s) == TRUE

Recheck(s) == s = seq

ReadAgain ==
  \/ Recheck(reg.seq) /\ UNCHANGED reg /\ Reads("again", "plan")
  \/ ~Recheck(reg.seq) /\ reg' = NoMark /\ Reads("again", "fill")

\* When the next frame pushed will be heard.
Heard(m) ==
  IF m.seq > 0 THEN m.at + Larger(written - m.frame, 0)
  ELSE now + (written - read) + Latency

\* Feeder::plan: the block's first sample, and how many frames it becomes.
Plan ==
  IF using = None THEN [base |-> None, frames |-> Block]
  ELSE LET heard == Heard(reg)
           at == IF anchored = using /\ cursor # None THEN cursor ELSE heard - using
           skew == heard - (using + at)
           base == IF Size(skew) > Realign THEN heard - using ELSE at
           left == IF Size(skew) > Realign THEN 0 ELSE skew
       IN [base |-> base,
           frames |-> Block + (IF left > SlipAt THEN -1 ELSE IF left < -SlipAt THEN 1 ELSE 0)]

\* What a cycle plans is kept by the feeder.
Plans ==
  /\ anchored' = using
  /\ cursor' = IF using = None THEN None ELSE Plan.base + Block
  /\ pushing' = Plan.frames
  /\ Driver
  /\ UNCHANGED <<read, sink, reg, using, seenVars, nullVars>>

\* Mutant: the ring is published before it is copied to.
PushPublishesFirst ==
  /\ dr = "plan" /\ dr' = "publish"
  /\ written' = written + Plan.frames
  /\ UNCHANGED <<buf, told>>
  /\ Plans

\* The block is rendered for the plan and copied into the ring.
PushCopies ==
  /\ dr = "plan" /\ dr' = "publish"
  /\ LET Later(s) == (s - written) % Capacity
     IN /\ buf' = [s \in Slots |-> IF Later(s) < Plan.frames THEN written + Later(s) ELSE buf[s]]
        /\ told' = [told EXCEPT ![written % Capacity] =
                      [due |-> IF using = None THEN None ELSE using + Plan.base,
                       gaps |-> reg.gaps]]
  /\ Plans /\ UNCHANGED written

\* And published; the driver looks whether another is wanted.
PushPublishes ==
  /\ dr = "publish" /\ dr' = "fill"
  /\ written' = written + pushing /\ pushing' = 0 /\ reg' = NoMark
  /\ Driver
  /\ UNCHANGED <<buf, read, told, sink, feederVars, using, seenVars, nullVars>>

-----------------------------------------------------------------------------
(* The driver without a device: run_blocking's own pace, and render_due.   *)

BlocksDue == Larger((now - due + Block - 1) \div Block, 1)

\* The blocks due, and silence for the rest of the gap past the cap.
RenderDue ==
  LET rendered == Smaller(BlocksDue, CatchUp + 1)
      silent == BlocksDue - rendered
  IN handed' = handed + rendered + silent /\ due' = due + (rendered + silent) * Block

NullCycle ==
  /\ sink = "null" /\ now >= due
  /\ RenderDue
  /\ Driver
  /\ UNCHANGED <<ringVars, sink, dr, readVars, feederVars, using, seenVars, nullSince>>

-----------------------------------------------------------------------------
\* Time passes; a callback that is due comes first, and a cycle is shorter than
\* a tick.  What only a cycle's start reads changes between two cycles.
Tick ==
  /\ now < MaxTime /\ cb = "away" /\ ~CallbackDue
  /\ Polling /\ dr' = "rest"
  /\ now' = now + 1
  /\ UNCHANGED <<epoch, shows, ringVars, markVars, deviceVars, sink, readVars,
                 feederVars, using, seenVars, nullVars>>

StartShow ==
  /\ epoch = None /\ shows < MaxShows /\ dr = "rest"
  /\ epoch' = now /\ shows' = shows + 1
  /\ UNCHANGED <<now, ringVars, markVars, deviceVars, sink, dr, readVars, feederVars,
                 using, seenVars, nullVars>>

StopShow ==
  /\ epoch # None /\ epoch' = None /\ dr = "rest"
  /\ UNCHANGED <<now, shows, ringVars, markVars, deviceVars, sink, dr, readVars,
                 feederVars, using, seenVars, nullVars>>

DeviceSteps ==
  \/ MarkOpen \/ MarkFrame \/ MarkAt \/ MarkClose
  \/ PopCopies \/ PopFrees

DriverSteps ==
  \/ Collect \/ Filled \/ ReadSeq \/ ReadFrame \/ ReadAt \/ ReadAgain
  \/ PushCopies \/ PushPublishes \/ NullCycle

Next == DeviceSteps \/ DriverSteps \/ Goes \/ Tick \/ StartShow \/ StopShow

Spec ==
  /\ Init /\ [][Next]_vars
  /\ WF_vars(DeviceSteps) /\ WF_vars(DriverSteps) /\ WF_vars(Tick)

-----------------------------------------------------------------------------
\* audio_ring.rs: what the device is handed is the ring's own next frames,
\* whole and in order, wherever the two threads stand.
PlayedInOrder ==
  cb = "popped" => \A i \in DOMAIN out : out[i].frame = read + i - 1

\* D2: a block is heard when it is due on the master clock, within what a
\* realignment tolerates and the device lost since, unless the device was
\* handed silence between the mark it was planned from and now.
HeardInSync ==
  cb = "popped" =>
    \A i \in DOMAIN out :
      out[i].due # None /\ out[i].gaps = gaps
        => Size(heardAt + i - 1 - out[i].due) =< Realign + MaxDrift

\* E_AUDIO: a device that is gone is replaced, whether it said so or not.
\* (Within the bound on time.)
LostGoesSilent ==
  /\ ~alive /\ now < MaxTime
  /\ lost \/ (calls = seenCalls /\ seenAt + SilentLimit < MaxTime)
  ~> sink = "null"
=============================================================================
