--------------------------- MODULE DeviceAudioProofs ---------------------------
(***************************************************************************)
(* The device plays the ring's frames in order, and each when it is due,   *)
(* for all sizes, paces and latencies that let a block fit the ring.  The  *)
(* argument: between what is read and what is stored every slot holds the  *)
(* frame whose turn it is; what the device will have played, the silence   *)
(* it was handed and the frames its clock lost add up to the time it has   *)
(* come to; a mark is either whole or known not to be; and a block planned *)
(* from a whole mark is due when that sum says it will be heard.           *)
(***************************************************************************)
EXTENDS DeviceAudio, SequenceTheorems, TLAPS

\* How far the driver has copied: past what is published while it pushes.
Stored == IF dr = "publish" THEN written + pushing ELSE written

\* What is stored and not yet read fits the ring, and lies where it belongs.
RingInv ==
  /\ read =< written /\ Stored - read =< Capacity
  /\ dr \in {"frame", "at", "again", "plan"} => written - read < Target
  /\ \A k \in read..Stored - 1 : buf[k % Capacity] = k

\* When the device's first frame is heard, less what it has played: the time
\* it started at.
Start == Ahead + 1

\* Frame k, if t says when it is due, is heard then, but for what the device
\* has lost since, if it is handed no more silence.
Timely(k, t) ==
  t.due # None /\ t.gaps # None =>
    \E z \in 0..slow : Size(k + t.gaps + z + Start - t.due) =< Realign

\* Only a block's first frame is told when it is due, and in time.
ToldInv ==
  /\ \A k \in read..Stored - 1 : Timely(k, told[k % Capacity])
  /\ \A k \in Stored..read + Capacity - 1 : k # written => told[k % Capacity] = Untold

\* The device and the driver: nothing is dropped under a callback that plays.
DeviceInv ==
  /\ cb # "away" => alive
  /\ lost => ~alive
  /\ sink = "null" => dr = "rest" /\ written = 0 /\ (cb = "popped" => out = <<>>)
  /\ sink = "device" =>
       /\ seenCalls =< calls
       /\ cb \in {"marked", "popped"} => calls # seenCalls \/ seenAt = now

\* What a callback has copied, until it frees it.
OutInv ==
  cb = "popped" =>
    /\ Len(out) =< Period /\ read + Len(out) =< written
    /\ PlayedInOrder /\ HeardInSync

\* A mark taken at one moment.
Whole(at, frame, silence) ==
  /\ silence \in Nat /\ frame =< read
  /\ at - frame - silence - Start \in 0..slow

MarkInv ==
  sink = "device" =>
    /\ heardAt = read + gaps + slow + Start
    /\ seq % 2 = 1 <=> cb \in {"open", "frame", "at"}
    /\ cb \in {"frame", "at"} => markFrame = read /\ markGaps = gaps
    /\ cb = "at" => markAt = heardAt
    /\ seq % 2 = 0 /\ seq > 0 => Whole(markAt, markFrame, markGaps)
    /\ seq = 0 => markGaps = None

\* What the driver has read of the marks is of one mark if the sequence stands.
RegInv ==
  sink = "device" =>
    /\ dr \in {"frame", "at", "again"} => reg.seq % 2 = 0 /\ reg.seq =< seq
    /\ dr \in {"at", "again"} /\ reg.seq = seq =>
         reg.frame = markFrame /\ reg.gaps = markGaps
    /\ dr = "again" /\ reg.seq = seq => reg.at = markAt
    /\ dr = "plan" =>
         IF reg.seq = 0 THEN reg.gaps = None ELSE Whole(reg.at, reg.frame, reg.gaps)

IInv == TypeOK /\ RingInv /\ ToldInv /\ DeviceInv /\ OutInv /\ MarkInv /\ RegInv

-----------------------------------------------------------------------------
(* Arithmetic.                                                             *)

LEMMA Constants ==
  /\ Block \in Nat /\ Target \in Nat /\ Capacity \in Nat /\ Period \in Nat
  /\ SilentLimit \in Nat /\ MaxTime \in Nat /\ Ahead \in Nat /\ Latency \in Nat
  /\ Realign \in Nat /\ SlipAt \in Nat /\ CatchUp \in Nat /\ MaxDrift \in Nat
  /\ MaxShows \in Nat
  /\ Block >= 1 /\ Target >= 1 /\ Period >= 1 /\ SilentLimit >= 1 /\ Capacity >= 1
  /\ Target + Block =< Capacity /\ Start \in Nat
<1>1. /\ Block \in Nat \ {0} /\ Target \in Nat \ {0} /\ Capacity \in Nat \ {0}
      /\ Period \in Nat \ {0} /\ SilentLimit \in Nat \ {0} /\ MaxTime \in Nat
      /\ Ahead \in Nat /\ Latency \in Nat /\ Realign \in Nat /\ SlipAt \in Nat
      /\ CatchUp \in Nat /\ MaxDrift \in Nat /\ MaxShows \in Nat
  BY AudioConstants
<1>. QED  BY <1>1, RingHolds DEF Start

LEMMA SlotExists ==
  ASSUME NEW c \in Nat, c > 0, NEW a \in Int
  PROVE  a % c \in 0..c - 1
  OBVIOUS

\* Two remainders that come from numbers less than c apart differ.
LEMMA SlotsDiffer ==
  ASSUME NEW c \in Nat, c > 0, NEW a \in Nat, NEW b \in Nat, a < b, b - a < c
  PROVE  a % c # b % c
<1>. SUFFICES ASSUME a % c = b % c
              PROVE  FALSE
  OBVIOUS
<1>. DEFINE p == a \div c
            q == b \div c
<1>1. p \in Int /\ q \in Int /\ a = c * p + (a % c) /\ b = c * q + (b % c)
  OBVIOUS
<1>. HIDE DEF p, q
<1>2. b - a = c * (q - p)
  BY <1>1
<1>3. q - p >= 1
  BY <1>1, <1>2
<1>4. c * (q - p) >= c
  BY <1>1, <1>3
<1>. QED  BY <1>2, <1>4

LEMMA SmallMultiple ==
  ASSUME NEW c \in Nat, c > 0, NEW x \in Int, c * x < c, c * x > -c
  PROVE  x = 0
<1>1. x >= 1 => c * x >= c
  OBVIOUS
<1>2. x =< -1 => c * x =< -c
  OBVIOUS
<1>3. c * x \in Int
  OBVIOUS
<1>. QED  BY <1>1, <1>2, <1>3

\* How far slot k % c lies behind slot w % c, for k in the lap that starts at w
\* and in the one before.
LEMMA SlotsAhead ==
  ASSUME NEW c \in Nat, c > 0, NEW w \in Nat, NEW k \in Nat
  PROVE  /\ w =< k /\ k < w + c => ((k % c) - w) % c = k - w
         /\ k < w /\ w =< k + c => ((k % c) - w) % c = k - w + c
<1>. DEFINE q == k \div c
            s == k % c
            p == (s - w) \div c
            r == (s - w) % c
<1>1. q \in Int /\ s \in 0..c - 1 /\ k = c * q + s
  OBVIOUS
<1>2. s - w \in Int
  BY <1>1
<1>. HIDE DEF q, s
<1>3. p \in Int /\ r \in 0..c - 1 /\ s - w = c * p + r
  BY <1>2
<1>. HIDE DEF p, r
<1>4. ASSUME w =< k, k < w + c
      PROVE  r = k - w
  <2>1. c * (p + q) = k - w - r
    BY <1>1, <1>3
  <2>2. k - w - r < c /\ k - w - r > -c
    BY <1>3, <1>4
  <2>3. p + q \in Int
    BY <1>1, <1>3
  <2>4. p + q = 0
    BY <2>1, <2>2, <2>3, SmallMultiple
  <2>5. c * 0 = 0
    OBVIOUS
  <2>6. k - w - r = 0
    BY <2>1, <2>4, <2>5
  <2>. QED  BY <1>3, <2>6
<1>5. ASSUME k < w, w =< k + c
      PROVE  r = k - w + c
  <2>1. c * (p + q + 1) = k - w + c - r
    BY <1>1, <1>3
  <2>2. k - w + c - r < c /\ k - w + c - r > -c
    BY <1>3, <1>5
  <2>3. p + q + 1 \in Int
    BY <1>1, <1>3
  <2>4. p + q + 1 = 0
    BY <2>1, <2>2, <2>3, SmallMultiple
  <2>5. c * 0 = 0
    OBVIOUS
  <2>6. k - w + c - r = 0
    BY <2>1, <2>4, <2>5
  <2>. QED  BY <1>3, <2>6
<1>. QED  BY <1>4, <1>5 DEF r, s

\* A plan is for about a block, and keeps it within what is tolerated.
LEMMA PlanFits ==
  ASSUME TypeOK
  PROVE  /\ Plan.frames \in 0..Block + 1 /\ Plan.base \in Int /\ Heard(reg) \in Int
         /\ using # None => Size(Heard(reg) - (using + Plan.base)) =< Realign
<1>1. /\ using \in Int /\ cursor \in Int /\ anchored \in Int /\ now \in Int
      /\ reg.at \in Nat /\ reg.frame \in Nat /\ reg.seq \in Nat
      /\ written \in Nat /\ read \in Nat
  BY DEF TypeOK
<1>2. Heard(reg) \in Int
  BY <1>1, Constants DEF Heard, Larger
<1>3. CASE using = None
  BY <1>2, <1>3, Constants DEF Plan, None
<1>4. CASE using # None
  <2>. DEFINE heard == Heard(reg)
              at == IF anchored = using /\ cursor # None THEN cursor ELSE heard - using
              skew == heard - (using + at)
              base == IF Size(skew) > Realign THEN heard - using ELSE at
              left == IF Size(skew) > Realign THEN 0 ELSE skew
              frames == Block + (IF left > SlipAt THEN -1 ELSE IF left < -SlipAt THEN 1 ELSE 0)
  <2>1. Plan = [base |-> base, frames |-> frames]
    BY <1>4 DEF Plan
  <2>2. heard \in Int
    BY <1>2
  <2>. HIDE DEF heard
  <2>3. at \in Int
    BY <1>1, <2>2
  <2>. HIDE DEF at
  <2>4. skew \in Int
    BY <1>1, <2>2, <2>3
  <2>5. base \in Int /\ (Size(skew) > Realign => base = heard - using)
        /\ (~(Size(skew) > Realign) => base = at)
    BY <1>1, <2>2, <2>3
  <2>6. frames \in 0..Block + 1
    BY Constants
  <2>7. Size(heard - (using + base)) =< Realign
    <3>1. CASE Size(skew) > Realign
      <4>1. heard - (using + base) = 0
        BY <1>1, <2>2, <2>5, <3>1
      <4>. QED  BY <4>1, Constants DEF Size
    <3>2. CASE ~(Size(skew) > Realign)
      <4>1. heard - (using + base) = skew
        BY <2>5, <3>2
      <4>2. Size(skew) \in Int
        BY <2>4 DEF Size
      <4>. QED  BY <3>2, <4>1, <4>2, Constants
    <3>. QED  BY <3>1, <3>2
  <2>8. Plan.base = base /\ Plan.frames = frames
    BY <2>1
  <2>. QED  BY <1>2, <2>5, <2>6, <2>7, <2>8 DEF heard
<1>. QED  BY <1>3, <1>4

-----------------------------------------------------------------------------
(* The type invariant, part by part.                                       *)

ClockTyped == now \in 0..MaxTime /\ epoch \in Int /\ shows \in 0..MaxShows
RingTyped ==
  /\ buf \in [Slots -> Nat \cup {None}] /\ read \in Nat /\ written \in Nat
  /\ told \in [Slots -> [due : Int, gaps : Int]]
MarkTyped ==
  seq \in Nat /\ markFrame \in Nat /\ calls \in Nat /\ markAt \in Nat /\ markGaps \in Int
DeviceTyped ==
  /\ cb \in {"away", "open", "frame", "at", "marked", "popped"}
  /\ out \in Seq([frame : Nat \cup {None}, due : Int, gaps : Int])
  /\ heardAt \in Nat /\ alive \in BOOLEAN /\ lost \in BOOLEAN /\ slow \in 0..MaxDrift
  /\ gaps \in Nat
DriverTyped ==
  /\ sink \in {"device", "null"}
  /\ dr \in {"rest", "asleep", "fill", "again", "frame", "at", "plan", "publish"}
  /\ reg \in [seq : Nat, frame : Nat, at : Nat, gaps : Int]
  /\ pushing \in 0..Block + 1
FeederTyped ==
  /\ cursor \in Int /\ anchored \in Int /\ using \in Int
  /\ seenCalls \in Nat /\ seenAt \in Nat /\ due \in Nat /\ handed \in Nat
  /\ nullSince \in Nat

LEMMA TypeParts ==
  TypeOK <=> /\ ClockTyped /\ RingTyped /\ MarkTyped /\ DeviceTyped /\ DriverTyped
             /\ FeederTyped
  BY DEF TypeOK, ClockTyped, RingTyped, MarkTyped, DeviceTyped, DriverTyped, FeederTyped

LEMMA TypeJoined ==
  ASSUME ClockTyped', RingTyped', MarkTyped', DeviceTyped', DriverTyped', FeederTyped'
  PROVE  TypeOK'
  BY DEF TypeOK, ClockTyped, RingTyped, MarkTyped, DeviceTyped, DriverTyped, FeederTyped

\* What the callback, and the driver, leave alone.
LEMMA CallbackLeaves ==
  ASSUME Callback
  PROVE  /\ now' = now /\ epoch' = epoch /\ shows' = shows
         /\ alive' = alive /\ lost' = lost /\ sink' = sink /\ dr' = dr /\ reg' = reg
         /\ pushing' = pushing /\ cursor' = cursor /\ anchored' = anchored
         /\ using' = using /\ seenCalls' = seenCalls /\ seenAt' = seenAt /\ due' = due
         /\ handed' = handed /\ nullSince' = nullSince
  BY DEF Callback, clockVars, readVars, feederVars, seenVars, nullVars

LEMMA DriverLeaves ==
  ASSUME Driver
  PROVE  /\ now' = now /\ epoch' = epoch /\ shows' = shows
         /\ cb' = cb /\ out' = out /\ heardAt' = heardAt /\ alive' = alive
         /\ lost' = lost /\ slow' = slow /\ gaps' = gaps
         /\ seq' = seq /\ markFrame' = markFrame /\ markAt' = markAt
         /\ calls' = calls /\ markGaps' = markGaps
  BY DEF Driver, clockVars, deviceVars, markVars

LEMMA CallbackTypes ==
  ASSUME TypeOK, Callback
  PROVE  ClockTyped' /\ DriverTyped' /\ FeederTyped'
  BY CallbackLeaves DEF TypeOK, ClockTyped, DriverTyped, FeederTyped

LEMMA DriverTypes ==
  ASSUME TypeOK, Driver
  PROVE  ClockTyped' /\ MarkTyped' /\ DeviceTyped'
  BY DriverLeaves DEF TypeOK, ClockTyped, MarkTyped, DeviceTyped

-----------------------------------------------------------------------------
(* What a step that leaves a part alone leaves true.                       *)

LEMMA TimelyStands ==
  ASSUME TypeOK, slow' \in Nat, slow =< slow', NEW k, NEW t, Timely(k, t)
  PROVE  Timely(k, t)'
<1>1. slow \in Nat
  BY Constants DEF TypeOK
<1>2. \A z \in 0..slow : z \in 0..slow'
  BY <1>1
<1>. QED  BY <1>2, Zenon DEF Timely

LEMMA RingStands ==
  ASSUME TypeOK, RingInv, ToldInv, UNCHANGED <<ringVars, slow>>, Stored' = Stored,
         dr' \in {"frame", "at", "again", "plan"} => written - read < Target
  PROVE  RingInv' /\ ToldInv'
<1>1. /\ buf' = buf /\ written' = written /\ read' = read /\ told' = told
      /\ slow' = slow
  BY DEF ringVars
<1>2. RingInv'
  BY <1>1 DEF RingInv
<1>3. \A k, t : Timely(k, t) <=> Timely(k, t)'
  BY <1>1 DEF Timely
<1>4. ToldInv'
  BY <1>1, <1>3 DEF ToldInv
<1>. QED  BY <1>2, <1>4

LEMMA OutStands ==
  ASSUME TypeOK, OutInv, UNCHANGED <<cb, out, read, heardAt, gaps>>,
         written' \in Nat, cb = "popped" => written =< written'
  PROVE  OutInv'
<1>1. written \in Nat /\ read \in Nat
  BY DEF TypeOK
<1>2. cb = "popped" => Len(out) \in Nat
  BY LenProperties DEF TypeOK
<1>. QED  BY <1>1, <1>2 DEF OutInv, PlayedInOrder, HeardInSync

LEMMA MarkStands ==
  ASSUME MarkInv, UNCHANGED <<sink, heardAt, read, gaps, slow, markVars, cb>>
  PROVE  MarkInv'
  BY DEF MarkInv, Whole, markVars

LEMMA RegStands ==
  ASSUME TypeOK, RegInv, UNCHANGED <<sink, dr, reg, markVars, read, slow>>
  PROVE  RegInv'
  BY DEF RegInv, Whole, markVars

\* A step of the callback that marks or copies leaves the driver's reading
\* whole, or the sequence past it.
LEMMA CallbackReg ==
  ASSUME TypeOK, TypeOK', RegInv, UNCHANGED <<sink, dr, reg>>, read =< read', slow =< slow',
         sink = "device" =>
           \/ seq' = seq /\ UNCHANGED <<markFrame, markAt, markGaps>>
           \/ seq' = seq /\ seq % 2 = 1
           \/ seq' = seq + 1
  PROVE  RegInv'
<1>1. /\ seq \in Nat /\ seq' \in Nat /\ read \in Nat /\ read' \in Nat /\ slow \in Nat
      /\ slow' \in Nat /\ reg.seq \in Nat /\ reg.frame \in Nat /\ reg.at \in Nat
      /\ reg.gaps \in Int
  BY Constants DEF TypeOK
<1>2. Whole(reg.at, reg.frame, reg.gaps) => Whole(reg.at, reg.frame, reg.gaps)'
  BY <1>1, Constants DEF Whole
<1>. SUFFICES ASSUME sink = "device"
              PROVE  RegInv'
  BY DEF RegInv
<1>3. dr = "plan" => IF reg.seq = 0 THEN reg.gaps = None
                                    ELSE Whole(reg.at, reg.frame, reg.gaps)'
  BY <1>2 DEF RegInv
<1>4. dr \in {"frame", "at", "again"} => reg.seq % 2 = 0 /\ reg.seq =< seq
  BY DEF RegInv
<1>5. /\ dr \in {"at", "again"} /\ reg.seq = seq =>
           reg.frame = markFrame /\ reg.gaps = markGaps
      /\ dr = "again" /\ reg.seq = seq => reg.at = markAt
  BY DEF RegInv
<1>6. CASE seq' = seq /\ UNCHANGED <<markFrame, markAt, markGaps>>
  BY <1>3, <1>4, <1>5, <1>6 DEF RegInv
<1>7. CASE seq' = seq /\ seq % 2 = 1
  <2>1. dr \in {"frame", "at", "again"} => reg.seq # seq
    BY <1>4, <1>7
  <2>. QED  BY <1>3, <1>4, <1>7, <2>1 DEF RegInv
<1>8. CASE seq' = seq + 1
  <2>1. dr \in {"frame", "at", "again"} => reg.seq # seq' /\ reg.seq =< seq'
    BY <1>1, <1>4, <1>8
  <2>. QED  BY <1>3, <1>4, <2>1 DEF RegInv
<1>. QED  BY <1>6, <1>7, <1>8

-----------------------------------------------------------------------------
(* The callback.                                                           *)

\* The marking steps: the ring and what the callback holds stand.
LEMMA MarkingKeeps ==
  ASSUME IInv, Callback, UNCHANGED <<ringVars, out, heardAt, slow, gaps>>,
         cb' \in {"open", "frame", "at", "marked"}, alive,
         MarkTyped', MarkInv',
         sink = "device" => calls =< calls' /\ (cb' = "marked" => calls' = calls + 1),
         sink = "device" =>
           \/ seq' = seq /\ seq % 2 = 1
           \/ seq' = seq + 1
  PROVE  IInv'
<1>. USE DEF IInv
<1>1. /\ buf' = buf /\ written' = written /\ read' = read /\ told' = told
      /\ out' = out /\ heardAt' = heardAt /\ slow' = slow /\ gaps' = gaps
  BY DEF ringVars
<1>2. /\ dr' = dr /\ pushing' = pushing /\ sink' = sink /\ alive' = alive /\ reg' = reg
      /\ lost' = lost /\ seenCalls' = seenCalls /\ seenAt' = seenAt /\ now' = now
  BY CallbackLeaves
<1>3. TypeOK'
  <2>1. RingTyped'
    BY <1>1, TypeParts DEF RingTyped
  <2>2. DeviceTyped'
    BY <1>1, <1>2, TypeParts DEF DeviceTyped
  <2>. QED  BY <2>1, <2>2, CallbackTypes, TypeJoined
<1>4. RingInv' /\ ToldInv'
  <2>1. dr' \in {"frame", "at", "again", "plan"} => written - read < Target
    BY <1>2 DEF RingInv
  <2>2. Stored' = Stored
    BY <1>1, <1>2 DEF Stored
  <2>. QED  BY <2>1, <2>2, RingStands
<1>5. DeviceInv'
  <2>1. calls \in Nat /\ calls' \in Nat /\ seenCalls \in Nat
    BY TypeParts DEF MarkTyped, FeederTyped
  <2>2. cb' # "popped"
    OBVIOUS
  <2>3. sink = "device" =>
          /\ seenCalls =< calls'
          /\ cb' \in {"marked", "popped"} => calls' # seenCalls
    BY <2>1, <2>2 DEF DeviceInv
  <2>. QED  BY <1>1, <1>2, <2>2, <2>3 DEF DeviceInv
<1>6. OutInv'
  BY DEF OutInv
<1>7. RegInv'
  <2>1. read =< read' /\ slow =< slow'
    BY <1>1, Constants, TypeParts DEF RingTyped, DeviceTyped
  <2>. QED  BY <1>2, <1>3, <2>1, CallbackReg
<1>. QED  BY <1>3, <1>4, <1>5, <1>6, <1>7

LEMMA Parity ==
  ASSUME NEW n \in Nat
  PROVE  /\ n % 2 = 0 \/ n % 2 = 1
         /\ n % 2 = 0 <=> (n + 1) % 2 = 1
         /\ n % 2 = 1 <=> (n + 1) % 2 = 0
  OBVIOUS

LEMMA MarkOpenKeeps == IInv /\ MarkOpen => IInv'
<1>. SUFFICES ASSUME IInv, MarkOpen
     PROVE  IInv'
  OBVIOUS
<1>. USE DEF IInv
<1>1. /\ cb = "away" /\ alive /\ cb' = "open" /\ seq' = seq + 1 /\ Callback
      /\ UNCHANGED <<ringVars, markFrame, markAt, calls, markGaps, out, heardAt, slow, gaps>>
  BY DEF MarkOpen, CallbackDue
<1>2. seq \in Nat /\ calls \in Nat /\ sink' = sink /\ read' = read
  BY <1>1, CallbackLeaves, TypeParts DEF MarkTyped, ringVars
<1>3. MarkTyped'
  BY <1>1, TypeParts DEF MarkTyped
<1>4. MarkInv'
  <2>1. sink = "device" => seq % 2 = 0 /\ seq' % 2 = 1 /\ seq' # 0
    BY <1>1, <1>2, Parity DEF MarkInv
  <2>. QED  BY <1>1, <1>2, <2>1 DEF MarkInv
<1>. QED  BY <1>1, <1>2, <1>3, <1>4, MarkingKeeps

LEMMA MarkFrameKeeps == IInv /\ MarkFrame => IInv'
<1>. SUFFICES ASSUME IInv, MarkFrame
     PROVE  IInv'
  OBVIOUS
<1>. USE DEF IInv
<1>1. /\ cb = "open" /\ cb' = "frame" /\ Callback /\ markFrame' = read /\ markGaps' = gaps
      /\ UNCHANGED <<ringVars, seq, markAt, calls, out, heardAt, slow, gaps>>
  BY DEF MarkFrame
<1>2. calls \in Nat /\ sink' = sink /\ read' = read /\ alive
  BY <1>1, CallbackLeaves, TypeParts DEF MarkTyped, ringVars, DeviceInv
<1>3. MarkTyped'
  BY <1>1, TypeParts DEF MarkTyped, RingTyped, DeviceTyped
<1>4. sink = "device" => seq % 2 = 1 /\ seq # 0
  BY <1>1 DEF MarkInv
<1>5. MarkInv'
  BY <1>1, <1>2, <1>4 DEF MarkInv
<1>. QED  BY <1>1, <1>2, <1>3, <1>4, <1>5, MarkingKeeps

LEMMA MarkAtKeeps == IInv /\ MarkAt => IInv'
<1>. SUFFICES ASSUME IInv, MarkAt
     PROVE  IInv'
  OBVIOUS
<1>. USE DEF IInv
<1>1. /\ cb = "frame" /\ cb' = "at" /\ Callback /\ markAt' = heardAt
      /\ UNCHANGED <<ringVars, seq, markFrame, calls, markGaps, out, heardAt, slow, gaps>>
  BY DEF MarkAt
<1>2. calls \in Nat /\ sink' = sink /\ read' = read /\ alive
  BY <1>1, CallbackLeaves, TypeParts DEF MarkTyped, ringVars, DeviceInv
<1>3. MarkTyped'
  BY <1>1, TypeParts DEF MarkTyped, DeviceTyped
<1>4. sink = "device" => seq % 2 = 1 /\ seq # 0
  BY <1>1 DEF MarkInv
<1>5. MarkInv'
  BY <1>1, <1>2, <1>4 DEF MarkInv
<1>. QED  BY <1>1, <1>2, <1>3, <1>4, <1>5, MarkingKeeps

LEMMA MarkCloseKeeps == IInv /\ MarkClose => IInv'
<1>. SUFFICES ASSUME IInv, MarkClose
     PROVE  IInv'
  OBVIOUS
<1>. USE DEF IInv
<1>1. /\ cb = "at" /\ cb' = "marked" /\ Callback /\ seq' = seq + 1 /\ calls' = calls + 1
      /\ UNCHANGED <<ringVars, markFrame, markAt, markGaps, out, heardAt, slow, gaps>>
  BY DEF MarkClose
<1>2. calls \in Nat /\ seq \in Nat /\ sink' = sink /\ read' = read /\ alive
  BY <1>1, CallbackLeaves, TypeParts DEF MarkTyped, ringVars, DeviceInv
<1>3. MarkTyped'
  BY <1>1, <1>2, TypeParts DEF MarkTyped
<1>4. sink = "device" => seq' % 2 = 0 /\ seq' # 0
  BY <1>1, <1>2, Parity DEF MarkInv
<1>5. MarkInv'
  <2>1. sink = "device" => Whole(markAt, markFrame, markGaps)'
    <3>1. /\ read \in Nat /\ gaps \in Nat /\ slow \in Nat /\ heardAt \in Nat
          /\ Start \in Nat
      BY Constants, TypeParts DEF RingTyped, DeviceTyped
    <3>2. sink = "device" =>
            /\ markAt = heardAt /\ markFrame = read /\ markGaps = gaps
            /\ heardAt = read + gaps + slow + Start
      BY <1>1 DEF MarkInv
    <3>3. sink = "device" => heardAt - read - gaps - Start = slow
      BY <3>1, <3>2
    <3>. QED  BY <1>1, <1>2, <3>1, <3>2, <3>3 DEF Whole
  <2>2. sink = "device" => heardAt = read + gaps + slow + Start
    BY DEF MarkInv
  <2>. QED  BY <1>1, <1>2, <1>4, <2>1, <2>2 DEF MarkInv
<1>6. calls =< calls'
  BY <1>1, <1>2
<1>. QED  BY <1>1, <1>2, <1>3, <1>5, <1>6, MarkingKeeps

\* What is copied are the next frames, and each is heard when it is due.
LEMMA PopCopiesKeeps == IInv /\ PopCopies => IInv'
<1>. SUFFICES ASSUME IInv, PopCopies
     PROVE  IInv'
  OBVIOUS
<1>. USE DEF IInv
<1>. DEFINE n == Smaller(Period, written - read)
            Slot(i) == (read + i - 1) % Capacity
            Entry(i) == [frame |-> buf[Slot(i)], due |-> told[Slot(i)].due,
                         gaps |-> told[Slot(i)].gaps]
<1>1. /\ cb = "marked" /\ cb' = "popped" /\ Callback /\ out' = [i \in 1..n |-> Entry(i)]
      /\ UNCHANGED <<ringVars, markVars, heardAt, slow, gaps>>
  BY DEF PopCopies
<1>2. /\ dr' = dr /\ pushing' = pushing /\ sink' = sink /\ alive' = alive /\ reg' = reg
      /\ lost' = lost /\ seenCalls' = seenCalls /\ seenAt' = seenAt /\ now' = now
      /\ buf' = buf /\ written' = written /\ read' = read /\ told' = told
      /\ calls' = calls
  BY <1>1, CallbackLeaves DEF ringVars, markVars
<1>3. /\ read \in Nat /\ written \in Nat /\ gaps \in Nat /\ slow \in Nat /\ heardAt \in Nat
      /\ Start \in Nat /\ Stored \in Nat /\ written =< Stored /\ slow =< MaxDrift
  BY Constants, TypeParts DEF RingTyped, DeviceTyped, DriverTyped, Stored
<1>4. n \in Nat /\ n =< Period /\ read + n =< written
  BY <1>3, Constants DEF Smaller, RingInv
<1>. HIDE DEF n
<1>5. \A i \in 1..n : Slot(i) \in Slots
  BY <1>3, <1>4, Constants, SlotExists DEF Slots
<1>6. ASSUME NEW i \in 1..n
      PROVE  Entry(i) \in [frame : Nat \cup {None}, due : Int, gaps : Int]
  <2>1. Slot(i) \in Slots
    BY <1>5
  <2>2. buf[Slot(i)] \in Nat \cup {None} /\ told[Slot(i)] \in [due : Int, gaps : Int]
    BY <2>1, TypeParts DEF RingTyped
  <2>. HIDE DEF Slot
  <2>. QED  BY <2>2
<1>7. out' \in Seq([frame : Nat \cup {None}, due : Int, gaps : Int]) /\ Len(out') = n
  <2>. HIDE DEF Entry
  <2>. QED  BY <1>1, <1>4, <1>6
<1>8. TypeOK'
  <2>1. RingTyped' /\ MarkTyped'
    BY <1>1, <1>2, TypeParts DEF RingTyped, MarkTyped, markVars
  <2>2. DeviceTyped'
    BY <1>1, <1>2, <1>7, TypeParts DEF DeviceTyped
  <2>. QED  BY <1>1, <2>1, <2>2, CallbackTypes, TypeJoined
<1>9. RingInv' /\ ToldInv'
  <2>1. dr' \in {"frame", "at", "again", "plan"} => written - read < Target
    BY <1>2 DEF RingInv
  <2>2. Stored' = Stored
    BY <1>1, <1>2 DEF Stored
  <2>. QED  BY <1>1, <2>1, <2>2, RingStands
<1>10. DeviceInv'
  <2>1. sink = "null" => out' = <<>>
    <3>1. sink = "null" => n = 0
      BY <1>3, <1>4 DEF DeviceInv
    <3>. QED  BY <1>7, <3>1, EmptySeq
  <2>. QED  BY <1>1, <1>2, <2>1 DEF DeviceInv
<1>11. OutInv'
  <2>1. ASSUME NEW i \in 1..n
        PROVE  /\ read + i - 1 \in Nat /\ read + i - 1 \in read..Stored - 1
               /\ buf[Slot(i)] = read + i - 1 /\ Timely(read + i - 1, told[Slot(i)])
    <3>1. read + i - 1 \in Nat /\ read + i - 1 \in read..Stored - 1
      BY <1>3, <1>4
    <3>. QED  BY <3>1 DEF RingInv, ToldInv
  <2>2. PlayedInOrder'
    <3>1. \A i \in DOMAIN out' : i \in 1..n /\ out'[i].frame = buf[Slot(i)]
      <4>. HIDE DEF Slot
      <4>. QED  BY <1>1
    <3>2. \A i \in DOMAIN out' : out'[i].frame = read + i - 1
      BY <2>1, <3>1
    <3>. QED  BY <1>2, <3>2 DEF PlayedInOrder
  <2>3. ASSUME sink = "device", NEW i \in DOMAIN out', out'[i].due # None, out'[i].gaps = gaps
        PROVE  Size(heardAt + i - 1 - out'[i].due) =< Realign + MaxDrift
    <3>. DEFINE d == told[Slot(i)].due
    <3>1. i \in 1..n /\ out'[i].due = d /\ told[Slot(i)].gaps = out'[i].gaps
      <4>. HIDE DEF Slot
      <4>. QED  BY <1>1
    <3>2. d \in Int
      BY <1>5, <3>1, TypeParts DEF RingTyped
    <3>3. gaps # None
      BY <1>3 DEF None
    <3>4. Timely(read + i - 1, told[Slot(i)])
      BY <2>1, <3>1
    <3>5. PICK z \in 0..slow : Size(read + i - 1 + gaps + z + Start - d) =< Realign
      <4>. HIDE DEF Slot
      <4>1. told[Slot(i)].due # None /\ told[Slot(i)].gaps = gaps
        BY <2>3, <3>1
      <4>. QED  BY <3>3, <3>4, <4>1 DEF Timely
    <3>6. heardAt = read + gaps + slow + Start
      BY <2>3 DEF MarkInv
    <3>. HIDE DEF d
    <3>7. i \in Nat
      BY <1>4, <3>1
    <3>8. Size(heardAt + i - 1 - d) =< Realign + MaxDrift
      BY <1>3, <3>2, <3>5, <3>6, <3>7, Constants DEF Size
    <3>. QED  BY <3>1, <3>8
  <2>4. sink # "device" => n = 0
    <3>1. sink \in {"device", "null"}
      BY TypeParts DEF DriverTyped
    <3>. QED  BY <1>3, <1>4, <3>1 DEF DeviceInv
  <2>5. DOMAIN out' = 1..n
    BY <1>1
  <2>6. HeardInSync'
    <3>1. \A i \in DOMAIN out' : sink = "device"
      BY <1>4, <2>4, <2>5
    <3>2. heardAt' = heardAt /\ gaps' = gaps
      BY <1>1
    <3>. QED  BY <2>3, <3>1, <3>2, Zenon DEF HeardInSync
  <2>. QED  BY <1>1, <1>2, <1>4, <1>7, <2>2, <2>6 DEF OutInv
<1>12. MarkInv'
  BY <1>1, <1>2 DEF MarkInv, Whole, markVars
<1>13. RegInv'
  BY <1>1, <1>2, RegStands
<1>. QED  BY <1>8, <1>9, <1>10, <1>11, <1>12, <1>13

\* A lap later, the same slot.
LEMMA SlotAgain ==
  ASSUME NEW c \in Nat, c > 0, NEW k \in Nat
  PROVE  (k + c) % c = k % c
<1>. DEFINE q == k \div c
            s == k % c
            p == (k + c) \div c
            r == (k + c) % c
<1>1. q \in Int /\ s \in 0..c - 1 /\ k = c * q + s
  OBVIOUS
<1>2. p \in Int /\ r \in 0..c - 1 /\ k + c = c * p + r
  OBVIOUS
<1>. HIDE DEF q, s, p, r
<1>3. c * (p - q - 1) = s - r
  BY <1>1, <1>2
<1>4. s - r < c /\ s - r > -c /\ p - q - 1 \in Int
  BY <1>1, <1>2
<1>5. p - q - 1 = 0
  BY <1>3, <1>4, SmallMultiple
<1>6. c * 0 = 0
  OBVIOUS
<1>7. s - r = 0
  BY <1>3, <1>5, <1>6
<1>8. r = s
  BY <1>1, <1>2, <1>7
<1>. QED  BY <1>8 DEF r, s

\* What is freed is forgotten, and nothing else.
LEMMA FreedIsUntold ==
  ASSUME TypeOK, RingInv, ToldInv, NEW n \in Nat, read + n =< Stored,
         told' = [s \in Slots |-> IF (s - read) % Capacity < n THEN Untold ELSE told[s]]
  PROVE  /\ \A k \in read + n..Stored - 1 : told'[k % Capacity] = told[k % Capacity]
         /\ \A k \in Stored..read + n + Capacity - 1 :
              k # written => told'[k % Capacity] = Untold
<1>1. /\ read \in Nat /\ written \in Nat /\ Stored \in Nat /\ written =< Stored
      /\ Stored - read =< Capacity /\ Capacity \in Nat /\ Capacity > 0
  BY Constants, TypeParts DEF RingTyped, DriverTyped, Stored, RingInv
<1>2. ASSUME NEW k \in Nat
      PROVE  k % Capacity \in Slots
  BY <1>1, SlotExists DEF Slots
<1>3. ASSUME NEW k \in read..read + Capacity - 1
      PROVE  told'[k % Capacity] = IF k - read < n THEN Untold ELSE told[k % Capacity]
  <2>1. k \in Nat /\ read =< k /\ k < read + Capacity
    BY <1>1
  <2>2. ((k % Capacity) - read) % Capacity = k - read
    BY <1>1, <2>1, SlotsAhead
  <2>. DEFINE s == k % Capacity
  <2>3. s \in Slots /\ (s - read) % Capacity = k - read
    BY <1>2, <2>1, <2>2
  <2>. HIDE DEF s
  <2>4. told'[s] = IF k - read < n THEN Untold ELSE told[s]
    BY <2>3, Zenon
  <2>. QED  BY <2>4 DEF s
<1>4. ASSUME NEW k \in read + n..Stored - 1
      PROVE  told'[k % Capacity] = told[k % Capacity]
  <2>1. k \in read..read + Capacity - 1 /\ ~(k - read < n)
    BY <1>1
  <2>. QED  BY <1>3, <2>1
<1>5. ASSUME NEW k \in Stored..read + n + Capacity - 1, k # written
      PROVE  told'[k % Capacity] = Untold
  <2>1. CASE k < read + Capacity
    <3>1. k \in read..read + Capacity - 1 /\ k \in Stored..read + Capacity - 1
      BY <1>1, <2>1
    <3>2. told[k % Capacity] = Untold
      BY <1>5, <3>1 DEF ToldInv
    <3>. QED  BY <1>3, <3>1, <3>2
  <2>2. CASE ~(k < read + Capacity)
    <3>. DEFINE j == k - Capacity
    <3>1. j \in Nat /\ j \in read..read + Capacity - 1 /\ j - read < n /\ k = j + Capacity
      BY <1>1, <2>2
    <3>. HIDE DEF j
    <3>2. k % Capacity = j % Capacity
      BY <1>1, <3>1, SlotAgain
    <3>3. told'[j % Capacity] = Untold
      BY <1>3, <3>1
    <3>. QED  BY <3>2, <3>3
  <2>. QED  BY <2>1, <2>2
<1>. QED  BY <1>4, <1>5

\* What was copied is freed, and the device moves on by its period.
LEMMA PopFreesKeeps == IInv /\ PopFrees => IInv'
<1>. SUFFICES ASSUME IInv, PopFrees
     PROVE  IInv'
  OBVIOUS
<1>. USE DEF IInv
<1>. DEFINE n == Len(out)
<1>1. /\ cb = "popped" /\ cb' = "away" /\ Callback
      /\ read' = read + n /\ gaps' = gaps + (Period - n) /\ out' = <<>>
      /\ told' = [s \in Slots |-> IF (s - read) % Capacity < n THEN Untold ELSE told[s]]
      /\ UNCHANGED <<buf, written, markVars>>
  BY DEF PopFrees
<1>2. PICK lag \in {0, 1} : /\ slow + lag =< MaxDrift /\ slow' = slow + lag
                            /\ heardAt' = heardAt + Period + lag
  BY DEF PopFrees
<1>3. /\ dr' = dr /\ pushing' = pushing /\ sink' = sink /\ alive' = alive /\ reg' = reg
      /\ lost' = lost /\ seenCalls' = seenCalls /\ seenAt' = seenAt /\ now' = now
      /\ seq' = seq /\ markFrame' = markFrame /\ markAt' = markAt
      /\ calls' = calls /\ markGaps' = markGaps
  BY <1>1, CallbackLeaves DEF markVars
<1>4. n \in Nat /\ n =< Period /\ read + n =< written
  BY <1>1, LenProperties, TypeParts DEF DeviceTyped, OutInv
<1>. HIDE DEF n
<1>5. /\ read \in Nat /\ written \in Nat /\ gaps \in Nat /\ slow \in Nat /\ heardAt \in Nat
      /\ Start \in Nat /\ Stored \in Nat /\ written =< Stored /\ Stored - read =< Capacity
      /\ Stored' = Stored
  <2>1. /\ read \in Nat /\ written \in Nat /\ gaps \in Nat /\ slow \in Nat
        /\ heardAt \in Nat /\ pushing \in Nat
    BY Constants, TypeParts DEF RingTyped, DeviceTyped, DriverTyped
  <2>2. Stored' = Stored
    BY <1>1, <1>3 DEF Stored
  <2>3. Stored \in Nat /\ written =< Stored
    BY <2>1 DEF Stored
  <2>. QED  BY <2>1, <2>2, <2>3, Constants DEF RingInv
<1>6. /\ read' \in Nat /\ gaps' \in Nat /\ slow' \in 0..MaxDrift /\ heardAt' \in Nat
      /\ read =< read' /\ slow =< slow'
  <2>1. read' = read + n /\ gaps' = gaps + (Period - n)
    BY <1>1
  <2>. QED  BY <1>2, <1>4, <1>5, <2>1, Constants
<1>7. TypeOK'
  <2>1. told' \in [Slots -> [due : Int, gaps : Int]]
    <3>1. Untold \in [due : Int, gaps : Int]
      BY DEF Untold, None
    <3>2. \A s \in Slots : told[s] \in [due : Int, gaps : Int]
      BY TypeParts DEF RingTyped
    <3>. QED  BY <1>1, <3>1, <3>2, Zenon
  <2>2. RingTyped' /\ MarkTyped'
    BY <1>1, <1>3, <1>6, <2>1, TypeParts DEF RingTyped, MarkTyped
  <2>3. DeviceTyped'
    BY <1>1, <1>3, <1>6, TypeParts DEF DeviceTyped
  <2>. QED  BY <1>1, <2>2, <2>3, CallbackTypes, TypeJoined
<1>8. RingInv'
  <2>1. read' =< written' /\ Stored' - read' =< Capacity
    <3>1. read' = read + n /\ written' = written
      BY <1>1
    <3>. QED  BY <1>4, <1>5, <3>1, Constants
  <2>2. dr' \in {"frame", "at", "again", "plan"} => written' - read' < Target
    BY <1>1, <1>3, <1>4, <1>5, Constants DEF RingInv
  <2>3. \A k \in read'..Stored' - 1 : k \in read..Stored - 1
    BY <1>5, <1>6
  <2>. QED  BY <1>1, <2>1, <2>2, <2>3 DEF RingInv
<1>9. ToldInv'
  <2>1. read + n =< Stored
    BY <1>4, <1>5
  <2>2. /\ \A k \in read'..Stored' - 1 : told'[k % Capacity] = told[k % Capacity]
        /\ \A k \in Stored'..read' + Capacity - 1 :
             k # written' => told'[k % Capacity] = Untold
    BY <1>1, <1>4, <1>5, <2>1, FreedIsUntold
  <2>3. ASSUME NEW k \in read'..Stored' - 1
        PROVE  Timely(k, told[k % Capacity])'
    <3>1. k \in read..Stored - 1
      BY <1>5, <1>6
    <3>. DEFINE t == told[k % Capacity]
    <3>2. Timely(k, t)
      BY <3>1 DEF ToldInv
    <3>3. told'[k % Capacity] = t
      BY <2>2
    <3>4. \A z \in 0..slow : z \in 0..slow'
      BY <1>5, <1>6
    <3>. HIDE DEF t
    <3>5. t.due # None /\ t.gaps # None =>
            \E z \in 0..slow' : Size(k + t.gaps + z + Start - t.due) =< Realign
      BY <3>2, <3>4, Zenon DEF Timely
    <3>. QED  BY <3>3, <3>5, Zenon DEF Timely
  <2>. QED  BY <2>2, <2>3 DEF ToldInv
<1>10. DeviceInv'
  BY <1>1, <1>3 DEF DeviceInv
<1>11. OutInv'
  BY <1>1 DEF OutInv
<1>12. MarkInv'
  <2>1. sink = "device" => heardAt' = read' + gaps' + slow' + Start
    <3>1. sink = "device" => heardAt = read + gaps + slow + Start
      BY DEF MarkInv
    <3>. QED  BY <1>1, <1>2, <1>4, <1>5, <3>1, Constants
  <2>2. Whole(markAt, markFrame, markGaps) => Whole(markAt, markFrame, markGaps)'
    <3>1. markAt \in Nat /\ markFrame \in Nat /\ markGaps \in Int
      BY TypeParts DEF MarkTyped
    <3>2. Whole(markAt, markFrame, markGaps) =>
            /\ markGaps \in Nat /\ markFrame =< read'
            /\ markAt - markFrame - markGaps - Start \in 0..slow'
      BY <1>2, <1>5, <1>6, <3>1 DEF Whole
    <3>. QED  BY <1>3, <3>2 DEF Whole
  <2>. QED  BY <1>1, <1>3, <2>1, <2>2 DEF MarkInv
<1>13. RegInv'
  BY <1>3, <1>6, <1>7, CallbackReg
<1>. QED  BY <1>7, <1>8, <1>9, <1>10, <1>11, <1>12, <1>13

-----------------------------------------------------------------------------
(* The driver.                                                             *)

\* A step of the driver that leaves the ring alone, if what it read is whole.
LEMMA ReadingKeeps ==
  ASSUME IInv, Driver, UNCHANGED <<ringVars, sink, seenVars>>, Stored' = Stored,
         dr' \in {"frame", "at", "again", "plan"} => written - read < Target,
         sink = "null" => dr' = "rest",
         DriverTyped', FeederTyped', RegInv'
  PROVE  IInv'
<1>. USE DEF IInv
<1>1. /\ now' = now /\ cb' = cb /\ out' = out /\ heardAt' = heardAt /\ alive' = alive
      /\ lost' = lost /\ slow' = slow /\ gaps' = gaps
      /\ seq' = seq /\ markFrame' = markFrame /\ markAt' = markAt
      /\ calls' = calls /\ markGaps' = markGaps
  BY DriverLeaves
<1>2. /\ buf' = buf /\ written' = written /\ read' = read /\ told' = told
      /\ sink' = sink /\ seenCalls' = seenCalls /\ seenAt' = seenAt
  BY DEF ringVars, seenVars
<1>3. TypeOK'
  <2>1. RingTyped'
    BY <1>2, TypeParts DEF RingTyped
  <2>. QED  BY <2>1, DriverTypes, TypeJoined
<1>4. RingInv' /\ ToldInv'
  BY <1>1, RingStands
<1>5. DeviceInv'
  BY <1>1, <1>2 DEF DeviceInv
<1>6. OutInv'
  <2>1. written \in Nat
    BY TypeParts DEF RingTyped
  <2>. QED  BY <1>1, <1>2, <2>1, OutStands
<1>7. MarkInv'
  BY <1>1, <1>2, MarkStands DEF markVars
<1>. QED  BY <1>3, <1>4, <1>5, <1>6, <1>7

LEMMA FilledKeeps == IInv /\ Filled => IInv'
<1>. SUFFICES ASSUME IInv, Filled
     PROVE  IInv'
  OBVIOUS
<1>1. /\ dr = "fill" /\ dr' = "asleep" /\ using' = None /\ Driver
      /\ UNCHANGED <<ringVars, sink, readVars, feederVars, seenVars, nullVars>>
  BY DEF Filled
<1>2. /\ reg' = reg /\ pushing' = pushing /\ cursor' = cursor /\ anchored' = anchored
      /\ sink' = sink /\ written' = written /\ seenCalls' = seenCalls /\ seenAt' = seenAt
      /\ due' = due /\ handed' = handed /\ nullSince' = nullSince
  BY <1>1 DEF readVars, feederVars, ringVars, seenVars, nullVars
<1>3. DriverTyped' /\ FeederTyped'
  BY <1>1, <1>2, TypeParts DEF IInv, DriverTyped, FeederTyped, None
<1>4. Stored' = Stored
  BY <1>1, <1>2 DEF Stored
<1>5. sink # "null"
  BY <1>1 DEF IInv, DeviceInv
<1>6. RegInv'
  BY <1>1 DEF RegInv
<1>. QED  BY <1>1, <1>3, <1>4, <1>5, <1>6, ReadingKeeps

\* One of the four reads, if what it reads is whole.
LEMMA ReadKeeps ==
  ASSUME IInv, NEW from \in {"fill", "frame", "at", "again"},
         NEW to \in {"fill", "frame", "at", "again", "plan"},
         Reads(from, to), from = "fill" => written - read < Target,
         reg' \in [seq : Nat, frame : Nat, at : Nat, gaps : Int], RegInv'
  PROVE  IInv'
<1>1. /\ dr = from /\ dr' = to /\ Driver
      /\ UNCHANGED <<ringVars, sink, pushing, feederVars, using, seenVars, nullVars>>
  BY DEF Reads
<1>2. /\ pushing' = pushing /\ cursor' = cursor /\ anchored' = anchored /\ using' = using
      /\ sink' = sink /\ written' = written /\ seenCalls' = seenCalls /\ seenAt' = seenAt
      /\ due' = due /\ handed' = handed /\ nullSince' = nullSince
  BY <1>1 DEF feederVars, ringVars, seenVars, nullVars
<1>3. DriverTyped' /\ FeederTyped'
  BY <1>1, <1>2, TypeParts DEF IInv, DriverTyped, FeederTyped
<1>4. Stored' = Stored
  BY <1>1, <1>2 DEF Stored
<1>5. sink # "null"
  BY <1>1 DEF IInv, DeviceInv
<1>6. written - read < Target
  BY <1>1 DEF IInv, RingInv
<1>. QED  BY <1>1, <1>3, <1>4, <1>5, <1>6, ReadingKeeps

\* What the reads find: the registers' types, and the device's.
LEMMA RegTyped ==
  ASSUME IInv
  PROVE  /\ reg \in [seq : Nat, frame : Nat, at : Nat, gaps : Int]
         /\ reg.seq \in Nat /\ reg.frame \in Nat /\ reg.at \in Nat /\ reg.gaps \in Int
         /\ seq \in Nat /\ markFrame \in Nat /\ markAt \in Nat /\ markGaps \in Int
         /\ NoMark \in [seq : Nat, frame : Nat, at : Nat, gaps : Int]
  BY TypeParts DEF IInv, DriverTyped, MarkTyped, NoMark, None

LEMMA ReadSeqKeeps == IInv /\ ReadSeq => IInv'
<1>. SUFFICES ASSUME IInv, ReadSeq
     PROVE  IInv'
  OBVIOUS
<1>1. /\ written - read < Target /\ seq % 2 = 0 /\ Reads("fill", "frame")
      /\ reg' = [seq |-> seq, frame |-> 0, at |-> 0, gaps |-> None]
  BY DEF ReadSeq, NoMark
<1>2. dr' = "frame" /\ seq' = seq
  BY <1>1, DriverLeaves DEF Reads
<1>3. reg' \in [seq : Nat, frame : Nat, at : Nat, gaps : Int] /\ reg'.seq = seq
  BY <1>1, RegTyped DEF None
<1>4. RegInv'
  BY <1>1, <1>2, <1>3, RegTyped DEF RegInv
<1>. QED  BY <1>1, <1>3, <1>4, ReadKeeps

LEMMA ReadFrameKeeps == IInv /\ ReadFrame => IInv'
<1>. SUFFICES ASSUME IInv, ReadFrame
     PROVE  IInv'
  OBVIOUS
<1>1. /\ reg' = [reg EXCEPT !.frame = markFrame, !.gaps = markGaps] /\ Reads("frame", "at")
  BY DEF ReadFrame
<1>2. /\ dr = "frame" /\ dr' = "at" /\ seq' = seq /\ sink' = sink
      /\ markFrame' = markFrame /\ markGaps' = markGaps
  BY <1>1, DriverLeaves DEF Reads
<1>3. /\ reg' \in [seq : Nat, frame : Nat, at : Nat, gaps : Int] /\ reg'.seq = reg.seq
      /\ reg'.frame = markFrame /\ reg'.gaps = markGaps
  BY <1>1, RegTyped
<1>4. sink = "device" => reg.seq % 2 = 0 /\ reg.seq =< seq
  BY <1>2 DEF IInv, RegInv
<1>5. RegInv'
  BY <1>2, <1>3, <1>4 DEF RegInv
<1>. QED  BY <1>1, <1>3, <1>5, ReadKeeps

LEMMA ReadAtKeeps == IInv /\ ReadAt => IInv'
<1>. SUFFICES ASSUME IInv, ReadAt
     PROVE  IInv'
  OBVIOUS
<1>1. /\ reg' = [reg EXCEPT !.at = markAt] /\ Reads("at", "again")
  BY DEF ReadAt
<1>2. /\ dr = "at" /\ dr' = "again" /\ seq' = seq /\ sink' = sink
      /\ markFrame' = markFrame /\ markGaps' = markGaps /\ markAt' = markAt
  BY <1>1, DriverLeaves DEF Reads
<1>3. /\ reg' \in [seq : Nat, frame : Nat, at : Nat, gaps : Int] /\ reg'.seq = reg.seq
      /\ reg'.frame = reg.frame /\ reg'.gaps = reg.gaps /\ reg'.at = markAt
  BY <1>1, RegTyped
<1>4. sink = "device" =>
        /\ reg.seq % 2 = 0 /\ reg.seq =< seq
        /\ reg.seq = seq => reg.frame = markFrame /\ reg.gaps = markGaps
  BY <1>2 DEF IInv, RegInv
<1>5. RegInv'
  BY <1>2, <1>3, <1>4 DEF RegInv
<1>. QED  BY <1>1, <1>3, <1>5, ReadKeeps

\* A mark read under one even sequence is one mark, or none yet.
LEMMA ReadAgainKeeps == IInv /\ ReadAgain => IInv'
<1>. SUFFICES ASSUME IInv, ReadAgain
     PROVE  IInv'
  OBVIOUS
<1>1. CASE Recheck(reg.seq) /\ UNCHANGED reg /\ Reads("again", "plan")
  <2>1. reg.seq = seq /\ reg' = reg /\ Reads("again", "plan")
    BY <1>1 DEF Recheck
  <2>2. dr = "again" /\ dr' = "plan" /\ sink' = sink /\ read' = read /\ slow' = slow
    BY <2>1, DriverLeaves DEF Reads, ringVars
  <2>3. sink = "device" =>
          /\ seq % 2 = 0 /\ reg.frame = markFrame /\ reg.gaps = markGaps
          /\ reg.at = markAt
    BY <2>1, <2>2 DEF IInv, RegInv
  <2>4. sink = "device" => IF reg.seq = 0 THEN reg.gaps = None
                                          ELSE Whole(reg.at, reg.frame, reg.gaps)
    BY <2>1, <2>3, RegTyped DEF IInv, MarkInv
  <2>5. RegInv'
    BY <2>1, <2>2, <2>4 DEF RegInv, Whole
  <2>. QED  BY <2>1, <2>5, RegTyped, ReadKeeps
<1>2. CASE ~Recheck(reg.seq) /\ reg' = NoMark /\ Reads("again", "fill")
  <2>1. dr' = "fill"
    BY <1>2 DEF Reads
  <2>2. RegInv'
    BY <2>1 DEF RegInv
  <2>. QED  BY <1>2, <2>2, RegTyped, ReadKeeps
<1>. QED  BY <1>1, <1>2 DEF ReadAgain

\* The null sink's pace has no part in it.
LEMMA NullCycleKeeps == IInv /\ NullCycle => IInv'
<1>. SUFFICES ASSUME IInv, NullCycle
     PROVE  IInv'
  OBVIOUS
<1>1. /\ sink = "null" /\ RenderDue /\ Driver
      /\ UNCHANGED <<ringVars, sink, dr, readVars, feederVars, using, seenVars, nullSince>>
  BY DEF NullCycle
<1>2. /\ reg' = reg /\ pushing' = pushing /\ cursor' = cursor /\ anchored' = anchored
      /\ sink' = sink /\ dr' = dr /\ written' = written /\ read' = read
      /\ seenCalls' = seenCalls /\ seenAt' = seenAt /\ using' = using
      /\ nullSince' = nullSince /\ seq' = seq /\ slow' = slow
  BY <1>1, DriverLeaves DEF readVars, feederVars, ringVars, seenVars
<1>3. due' \in Nat /\ handed' \in Nat
  <2>1. now \in Nat /\ due \in Nat /\ handed \in Nat
    BY Constants, TypeParts DEF IInv, ClockTyped, FeederTyped
  <2>2. (now - due + Block - 1) \div Block \in Int
    BY <2>1, Constants
  <2>3. BlocksDue \in Nat
    BY <2>2 DEF BlocksDue, Larger
  <2>. DEFINE rendered == Smaller(BlocksDue, CatchUp + 1)
              silent == BlocksDue - rendered
  <2>4. rendered \in Nat /\ silent \in Nat
    BY <2>3, Constants DEF Smaller
  <2>5. handed' = handed + rendered + silent /\ due' = due + (rendered + silent) * Block
    BY <1>1 DEF RenderDue
  <2>. HIDE DEF rendered, silent
  <2>6. (rendered + silent) * Block \in Nat
    BY <2>4, Constants
  <2>. QED  BY <2>1, <2>4, <2>5, <2>6
<1>4. DriverTyped' /\ FeederTyped'
  BY <1>2, <1>3, TypeParts DEF IInv, DriverTyped, FeederTyped
<1>5. Stored' = Stored
  BY <1>2 DEF Stored
<1>6. dr = "rest"
  BY <1>1 DEF IInv, DeviceInv
<1>7. RegInv'
  BY <1>2, <1>6 DEF RegInv
<1>. QED  BY <1>1, <1>2, <1>4, <1>5, <1>6, <1>7, ReadingKeeps DEF seenVars

\* What is being pushed is counted already: publishing it changes no slot.
LEMMA PushPublishesKeeps == IInv /\ PushPublishes => IInv'
<1>. SUFFICES ASSUME IInv, PushPublishes
     PROVE  IInv'
  OBVIOUS
<1>. USE DEF IInv
<1>1. /\ dr = "publish" /\ dr' = "fill" /\ written' = written + pushing /\ pushing' = 0
      /\ reg' = NoMark /\ Driver
      /\ UNCHANGED <<buf, read, told, sink, feederVars, using, seenVars, nullVars>>
  BY DEF PushPublishes
<1>2. /\ cb' = cb /\ out' = out /\ heardAt' = heardAt /\ alive' = alive
      /\ lost' = lost /\ slow' = slow /\ gaps' = gaps /\ now' = now /\ calls' = calls
      /\ cursor' = cursor /\ anchored' = anchored /\ using' = using /\ sink' = sink
      /\ seenCalls' = seenCalls /\ seenAt' = seenAt /\ due' = due /\ handed' = handed
      /\ nullSince' = nullSince /\ buf' = buf /\ told' = told /\ read' = read
  BY <1>1, DriverLeaves DEF feederVars, seenVars, nullVars
<1>3. /\ written \in Nat /\ read \in Nat /\ pushing \in Nat
      /\ written' \in Nat /\ written =< written'
      /\ Stored = written + pushing /\ Stored' = Stored /\ written' = Stored
  BY <1>1, Constants, TypeParts DEF RingTyped, DriverTyped, Stored
<1>4. TypeOK'
  <2>1. RingTyped'
    BY <1>2, <1>3, TypeParts DEF RingTyped
  <2>2. DriverTyped'
    BY <1>1, <1>2, RegTyped, Constants, TypeParts DEF DriverTyped
  <2>3. FeederTyped'
    BY <1>2, TypeParts DEF FeederTyped
  <2>. QED  BY <1>1, <2>1, <2>2, <2>3, DriverTypes, TypeJoined
<1>5. RingInv'
  <2>1. read =< written'
    BY <1>3 DEF RingInv
  <2>. QED  BY <1>1, <1>2, <1>3, <2>1 DEF RingInv
<1>6. ToldInv'
  <2>1. \A k, t : Timely(k, t) => Timely(k, t)'
    BY <1>2 DEF Timely
  <2>2. \A k \in read..Stored - 1 : Timely(k, told[k % Capacity])
    BY DEF ToldInv
  <2>3. ASSUME NEW k \in Stored..read + Capacity - 1, k # written'
        PROVE  told[k % Capacity] = Untold
    <3>1. k # written
      BY <1>3, <2>3
    <3>. QED  BY <3>1 DEF ToldInv
  <2>. QED  BY <1>2, <1>3, <2>1, <2>2, <2>3 DEF ToldInv
<1>7. DeviceInv'
  <2>1. sink # "null"
    BY <1>1 DEF DeviceInv
  <2>. QED  BY <1>1, <1>2, <2>1 DEF DeviceInv
<1>8. OutInv'
  BY <1>2, <1>3, OutStands
<1>9. MarkInv'
  BY <1>1, <1>2, DriverLeaves, MarkStands DEF markVars
<1>10. RegInv'
  BY <1>1 DEF RegInv
<1>. QED  BY <1>4, <1>5, <1>6, <1>7, <1>8, <1>9, <1>10

\* A block planned from a whole mark is due when it will be heard.
LEMMA PlannedInTime ==
  ASSUME IInv, dr = "plan", sink = "device"
  PROVE  Timely(written, [due |-> IF using = None THEN None ELSE using + Plan.base,
                          gaps |-> reg.gaps])
<1>. DEFINE d == using + Plan.base
            t == [due |-> IF using = None THEN None ELSE d, gaps |-> reg.gaps]
<1>. SUFFICES ASSUME t.due # None, t.gaps # None
              PROVE  \E z \in 0..slow : Size(written + t.gaps + z + Start - t.due) =< Realign
  BY DEF Timely
<1>1. using # None /\ t.due = d /\ t.gaps = reg.gaps /\ reg.gaps # None
  OBVIOUS
<1>2. /\ reg.seq \in Nat /\ reg.frame \in Nat /\ reg.at \in Nat /\ reg.gaps \in Int
      /\ using \in Int /\ read \in Nat /\ written \in Nat /\ slow \in Nat /\ Start \in Nat
  BY Constants, RegTyped, TypeParts DEF IInv, FeederTyped, RingTyped, DeviceTyped
<1>3. reg.seq # 0 /\ Whole(reg.at, reg.frame, reg.gaps)
  BY <1>1 DEF IInv, RegInv
<1>. DEFINE z == reg.at - reg.frame - reg.gaps - Start
<1>4. z \in 0..slow /\ reg.frame =< read
  BY <1>3 DEF Whole
<1>5. read =< written
  BY DEF IInv, RingInv
<1>6. Heard(reg) = reg.at + (written - reg.frame)
  BY <1>2, <1>3, <1>4, <1>5 DEF Heard, Larger
<1>7. Plan.base \in Int /\ Size(Heard(reg) - d) =< Realign
  BY <1>1, PlanFits DEF IInv
<1>8. written + reg.gaps + z + Start - d = Heard(reg) - d
  BY <1>2, <1>6, <1>7
<1>. HIDE DEF d, z
<1>9. Size(written + t.gaps + z + Start - t.due) =< Realign
  BY <1>1, <1>7, <1>8
<1>. QED  BY <1>4, <1>9

\* The block lands past what is stored, and overwrites nothing unread.
LEMMA PushedSlots ==
  ASSUME TypeOK, RingInv, ToldInv, dr = "plan", NEW n \in 0..Block + 1, NEW T,
         Timely(written, T),
         buf' = [s \in Slots |-> IF (s - written) % Capacity < n
                                 THEN written + ((s - written) % Capacity) ELSE buf[s]],
         told' = [told EXCEPT ![written % Capacity] = T]
  PROVE  /\ written + n - read =< Capacity
         /\ \A k \in read..written + n - 1 :
              buf'[k % Capacity] = k /\ Timely(k, told'[k % Capacity])
         /\ \A k \in written + n..read + Capacity - 1 :
              k # written => told'[k % Capacity] = Untold
<1>1. /\ read \in Nat /\ written \in Nat /\ Capacity \in Nat /\ Capacity > 0 /\ n \in Nat
      /\ read =< written /\ written - read < Capacity /\ Stored = written
      /\ written + n - read =< Capacity /\ n =< Capacity
  BY Constants, TypeParts DEF RingTyped, Stored, RingInv
<1>2. ASSUME NEW k \in Nat
      PROVE  k % Capacity \in Slots
  BY <1>1, SlotExists DEF Slots
<1>3. ASSUME NEW k \in read..read + Capacity - 1, k # written
      PROVE  told'[k % Capacity] = told[k % Capacity]
  <2>1. k \in Nat /\ (k < written => written - k < Capacity)
        /\ (written < k => k - written < Capacity) /\ (k < written \/ written < k)
    BY <1>1, <1>3
  <2>2. k % Capacity # written % Capacity
    BY <1>1, <2>1, SlotsDiffer
  <2>3. k % Capacity \in Slots /\ written % Capacity \in Slots
    BY <1>1, <1>2, <2>1
  <2>. DEFINE s == k % Capacity
              w == written % Capacity
  <2>. HIDE DEF s, w
  <2>4. s \in Slots /\ w \in Slots /\ s # w
    BY <2>2, <2>3 DEF s, w
  <2>5. told' = [told EXCEPT ![w] = T]
    BY DEF w
  <2>6. told \in [Slots -> [due : Int, gaps : Int]]
    BY TypeParts DEF RingTyped
  <2>7. told'[s] = told[s]
    BY <2>4, <2>5, <2>6, Zenon
  <2>. QED  BY <2>7 DEF s
<1>4. told'[written % Capacity] = T
  <2>. DEFINE w == written % Capacity
  <2>1. w \in Slots
    BY <1>1, <1>2
  <2>. HIDE DEF w
  <2>2. told' = [told EXCEPT ![w] = T]
    BY DEF w
  <2>3. told'[w] = T
    BY <2>1, <2>2, TypeParts DEF RingTyped
  <2>. QED  BY <2>3 DEF w
<1>8. \A s \in Slots : buf'[s] = IF (s - written) % Capacity < n
                                THEN written + ((s - written) % Capacity) ELSE buf[s]
  BY Zenon
<1>5. ASSUME NEW k \in read..written + n - 1
      PROVE  buf'[k % Capacity] = k
  <2>1. k \in Nat /\ read =< k /\ k < written + n
    BY <1>1
  <2>. DEFINE s == k % Capacity
              o == (s - written) % Capacity
  <2>2. s \in Slots
    BY <1>2, <2>1
  <2>3. buf'[s] = IF o < n THEN written + o ELSE buf[s]
    BY <1>8, <2>2, Zenon
  <2>4. CASE written =< k
    <3>1. k < written + Capacity
      BY <1>1, <2>1
    <3>2. o = k - written
      BY <1>1, <2>1, <2>4, <3>1, SlotsAhead
    <3>. HIDE DEF s, o
    <3>3. o < n /\ written + o = k
      BY <1>1, <2>1, <3>2
    <3>4. buf'[s] = k
      BY <2>3, <3>3
    <3>. QED  BY <3>4 DEF s
  <2>5. CASE ~(written =< k)
    <3>1. k < written /\ written =< k + Capacity
      BY <1>1, <2>1, <2>5
    <3>2. o = k - written + Capacity
      BY <1>1, <2>1, <3>1, SlotsAhead
    <3>3. k \in read..Stored - 1
      BY <1>1, <2>1, <3>1
    <3>4. buf[s] = k
      BY <3>3 DEF RingInv
    <3>. HIDE DEF s, o
    <3>5. ~(o < n)
      BY <1>1, <2>1, <3>2
    <3>6. buf'[s] = k
      BY <2>3, <3>4, <3>5
    <3>. QED  BY <3>6 DEF s
  <2>. QED  BY <2>4, <2>5
<1>6. ASSUME NEW k \in read..written + n - 1
      PROVE  Timely(k, told'[k % Capacity])
  <2>1. CASE k = written
    BY <1>4, <2>1
  <2>2. CASE k # written
    <3>1. k \in read..read + Capacity - 1
      BY <1>1
    <3>2. told'[k % Capacity] = told[k % Capacity]
      BY <1>3, <2>2, <3>1
    <3>3. CASE k < written
      <4>1. k \in read..Stored - 1
        BY <1>1, <3>3
      <4>. QED  BY <3>2, <4>1 DEF ToldInv
    <3>4. CASE ~(k < written)
      <4>1. k \in Stored..read + Capacity - 1
        BY <1>1, <3>1, <3>4
      <4>2. told'[k % Capacity] = Untold
        BY <2>2, <3>2, <4>1 DEF ToldInv
      <4>. QED  BY <4>2 DEF Timely, Untold
    <3>. QED  BY <3>3, <3>4
  <2>. QED  BY <2>1, <2>2
<1>7. ASSUME NEW k \in written + n..read + Capacity - 1, k # written
      PROVE  told'[k % Capacity] = Untold
  <2>1. k \in read..read + Capacity - 1 /\ k \in Stored..read + Capacity - 1
    BY <1>1
  <2>2. told[k % Capacity] = Untold
    BY <1>7, <2>1 DEF ToldInv
  <2>. QED  BY <1>3, <1>7, <2>1, <2>2
<1>. QED  BY <1>1, <1>5, <1>6, <1>7

\* The block is stored where it belongs, and its first frame told in time.
LEMMA PushCopiesKeeps == IInv /\ PushCopies => IInv'
<1>. SUFFICES ASSUME IInv, PushCopies
     PROVE  IInv'
  OBVIOUS
<1>. USE DEF IInv
<1>. DEFINE n == Plan.frames
            T == [due |-> IF using = None THEN None ELSE using + Plan.base,
                  gaps |-> reg.gaps]
<1>0. PushCopies /\ Plans
  BY DEF PushCopies
<1>1. /\ dr = "plan" /\ dr' = "publish" /\ Driver /\ pushing' = n
      /\ buf' = [s \in Slots |-> IF (s - written) % Capacity < n
                                 THEN written + ((s - written) % Capacity) ELSE buf[s]]
      /\ told' = [told EXCEPT ![written % Capacity] = T]
      /\ anchored' = using /\ cursor' = IF using = None THEN None ELSE Plan.base + Block
      /\ UNCHANGED <<read, sink, reg, using, seenVars, nullVars, written>>
  BY <1>0, Zenon DEF PushCopies, Plans
<1>2. /\ cb' = cb /\ out' = out /\ heardAt' = heardAt /\ alive' = alive
      /\ lost' = lost /\ slow' = slow /\ gaps' = gaps /\ now' = now /\ calls' = calls
      /\ using' = using /\ sink' = sink /\ reg' = reg /\ written' = written
      /\ seenCalls' = seenCalls /\ seenAt' = seenAt /\ due' = due /\ handed' = handed
      /\ nullSince' = nullSince /\ read' = read
  BY <1>1, DriverLeaves DEF seenVars, nullVars
<1>3. n \in 0..Block + 1 /\ Plan.base \in Int
  BY PlanFits
<1>4. /\ written \in Nat /\ read \in Nat /\ n \in Nat /\ Block \in Nat /\ Capacity \in Nat
      /\ Capacity > 0 /\ using \in Int /\ reg.gaps \in Int /\ read =< written
  BY <1>3, Constants, RegTyped, TypeParts DEF RingTyped, FeederTyped, RingInv
<1>5. sink = "device"
  <2>1. sink \in {"device", "null"}
    BY TypeParts DEF DriverTyped
  <2>. QED  BY <1>1, <2>1 DEF DeviceInv
<1>6. Timely(written, T)
  BY <1>1, <1>5, PlannedInTime
<1>7. T \in [due : Int, gaps : Int]
  <2>1. (IF using = None THEN None ELSE using + Plan.base) \in Int
    BY <1>3, <1>4 DEF None
  <2>. QED  BY <1>4, <2>1
<1>. HIDE DEF n, T
<1>8. TypeOK'
  <2>1. buf' \in [Slots -> Nat \cup {None}]
    <3>1. ASSUME NEW s \in Slots
          PROVE  (IF (s - written) % Capacity < n
                  THEN written + ((s - written) % Capacity) ELSE buf[s]) \in Nat \cup {None}
      <4>1. s \in Int
        BY <1>4 DEF Slots
      <4>2. s - written \in Int
        BY <1>4, <4>1
      <4>3. (s - written) % Capacity \in 0..Capacity - 1
        BY <1>4, <4>2, SlotExists, Zenon
      <4>4. written + ((s - written) % Capacity) \in Nat
        BY <1>4, <4>3
      <4>5. buf[s] \in Nat \cup {None}
        BY TypeParts DEF RingTyped
      <4>. QED  BY <4>4, <4>5, Zenon
    <3>. QED  BY <1>1, <3>1, Zenon
  <2>2. told' \in [Slots -> [due : Int, gaps : Int]]
    BY <1>1, <1>7, TypeParts, Zenon DEF RingTyped
  <2>3. RingTyped'
    BY <1>2, <1>4, <2>1, <2>2 DEF RingTyped
  <2>4. DriverTyped'
    BY <1>1, <1>2, <1>3, TypeParts DEF DriverTyped, n
  <2>5. FeederTyped'
    <3>1. cursor' \in Int /\ anchored' \in Int
      BY <1>1, <1>3, <1>4 DEF None
    <3>. QED  BY <1>2, <3>1, TypeParts DEF FeederTyped
  <2>. QED  BY <1>1, <2>3, <2>4, <2>5, DriverTypes, TypeJoined
<1>9. Stored' = written + n /\ n \in 0..Block + 1
  BY <1>1, <1>2, <1>3 DEF Stored, n
<1>10. /\ written + n - read =< Capacity
       /\ \A k \in read..written + n - 1 :
            buf'[k % Capacity] = k /\ Timely(k, told'[k % Capacity])
       /\ \A k \in written + n..read + Capacity - 1 :
            k # written => told'[k % Capacity] = Untold
  BY <1>1, <1>6, <1>9, PushedSlots
<1>11. RingInv'
  <2>1. dr' \notin {"frame", "at", "again", "plan"}
    BY <1>1
  <2>. QED  BY <1>2, <1>4, <1>9, <1>10, <2>1 DEF RingInv
<1>12. ToldInv'
  <2>1. \A k, t : Timely(k, t) =>
          (t.due # None /\ t.gaps # None =>
             \E z \in 0..slow' : Size(k + t.gaps + z + Start - t.due) =< Realign)
    BY <1>2 DEF Timely
  <2>2. ASSUME NEW k \in read'..Stored' - 1
        PROVE  Timely(k, told[k % Capacity])'
    <3>1. k \in read..written + n - 1
      <4>1. read' = read
        BY <1>2
      <4>2. k \in read..Stored' - 1
        BY <4>1
      <4>. QED  BY <1>4, <1>9, <4>2
    <3>2. Timely(k, told'[k % Capacity])
      BY <1>10, <3>1
    <3>. QED  BY <2>1, <3>2, Zenon DEF Timely
  <2>3. \A k \in Stored'..read' + Capacity - 1 : k # written' => told'[k % Capacity] = Untold
    BY <1>2, <1>9, <1>10
  <2>. QED  BY <2>2, <2>3 DEF ToldInv
<1>13. DeviceInv'
  BY <1>2, <1>5 DEF DeviceInv
<1>14. OutInv'
  BY <1>2, <1>4, OutStands
<1>15. MarkInv'
  BY <1>1, <1>2, DriverLeaves, MarkStands DEF markVars
<1>16. RegInv'
  BY <1>1 DEF RegInv
<1>. QED  BY <1>8, <1>11, <1>12, <1>13, <1>14, <1>15, <1>16

-----------------------------------------------------------------------------
(* The cycle's start, and what comes from outside.                         *)

\* A step that leaves the ring, the marks, the callback and the reading alone.
LEMMA OutsideKeeps ==
  ASSUME IInv,
         UNCHANGED <<ringVars, markVars, cb, out, heardAt, slow, gaps, sink, readVars>>,
         ClockTyped', FeederTyped', alive' \in BOOLEAN, lost' \in BOOLEAN,
         dr' = dr \/ (dr \in {"rest", "asleep"} /\ dr' \in {"rest", "fill"}),
         cb # "away" => alive', lost' => ~alive', sink = "null" => dr' = "rest",
         sink = "device" =>
           /\ seenCalls' =< calls
           /\ cb \in {"marked", "popped"} => calls # seenCalls' \/ seenAt' = now'
  PROVE  IInv'
<1>. USE DEF IInv
<1>1. /\ buf' = buf /\ written' = written /\ read' = read /\ told' = told
      /\ seq' = seq /\ markFrame' = markFrame /\ markAt' = markAt /\ calls' = calls
      /\ markGaps' = markGaps /\ cb' = cb /\ out' = out /\ heardAt' = heardAt
      /\ slow' = slow /\ gaps' = gaps /\ sink' = sink /\ reg' = reg /\ pushing' = pushing
  BY DEF ringVars, markVars, readVars
<1>2. dr' \in {"rest", "asleep", "fill", "again", "frame", "at", "plan", "publish"}
  BY TypeParts DEF DriverTyped
<1>3. TypeOK'
  <2>1. RingTyped' /\ MarkTyped'
    BY <1>1, TypeParts DEF RingTyped, MarkTyped
  <2>2. DeviceTyped' /\ DriverTyped'
    BY <1>1, <1>2, TypeParts DEF DeviceTyped, DriverTyped
  <2>. QED  BY <2>1, <2>2, TypeJoined
<1>4. RingInv' /\ ToldInv'
  <2>1. dr' \in {"frame", "at", "again", "plan"} => written - read < Target
    BY DEF RingInv
  <2>2. Stored' = Stored
    BY <1>1 DEF Stored
  <2>. QED  BY <1>1, <2>1, <2>2, RingStands
<1>5. DeviceInv'
  BY <1>1 DEF DeviceInv
<1>6. OutInv'
  <2>1. written \in Nat
    BY TypeParts DEF RingTyped
  <2>. QED  BY <1>1, <2>1, OutStands
<1>7. MarkInv'
  BY <1>1, MarkStands
<1>8. RegInv'
  <2>1. CASE dr' = dr
    BY <1>1, <2>1, RegStands
  <2>2. CASE dr' \in {"rest", "fill"}
    BY <2>2 DEF RegInv
  <2>. QED  BY <2>1, <2>2
<1>. QED  BY <1>3, <1>4, <1>5, <1>6, <1>7, <1>8

LEMMA GoesKeeps == IInv /\ Goes => IInv'
<1>. SUFFICES ASSUME IInv, Goes
     PROVE  IInv'
  OBVIOUS
<1>1. /\ cb = "away" /\ alive' = FALSE /\ lost' \in BOOLEAN
      /\ UNCHANGED <<clockVars, ringVars, markVars, cb, out, heardAt, slow, gaps,
                     sink, dr, readVars, feederVars, using, seenVars, nullVars>>
  BY DEF Goes
<1>2. ClockTyped' /\ FeederTyped'
  BY <1>1, TypeParts DEF IInv, ClockTyped, FeederTyped, clockVars, feederVars, seenVars,
     nullVars
<1>3. /\ sink = "null" => dr' = "rest"
      /\ sink = "device" => seenCalls' =< calls
  BY <1>1 DEF IInv, DeviceInv, seenVars
<1>. QED  BY <1>1, <1>2, <1>3, OutsideKeeps

LEMMA TickKeeps == IInv /\ Tick => IInv'
<1>. SUFFICES ASSUME IInv, Tick
     PROVE  IInv'
  OBVIOUS
<1>1. /\ now < MaxTime /\ cb = "away" /\ dr \in {"rest", "asleep"} /\ dr' = "rest"
      /\ now' = now + 1
      /\ UNCHANGED <<epoch, shows, ringVars, markVars, deviceVars, sink, readVars,
                     feederVars, using, seenVars, nullVars>>
  BY DEF Tick, Polling
<1>2. /\ UNCHANGED <<cb, out, heardAt, slow, gaps>> /\ alive' = alive /\ lost' = lost
      /\ seenCalls' = seenCalls
  BY <1>1 DEF deviceVars, seenVars
<1>3. ClockTyped'
  BY <1>1, Constants, TypeParts DEF IInv, ClockTyped
<1>4. FeederTyped' /\ alive \in BOOLEAN /\ lost \in BOOLEAN
  BY <1>1, TypeParts DEF IInv, FeederTyped, DeviceTyped, feederVars, seenVars, nullVars
<1>5. /\ lost => ~alive
      /\ sink = "device" => seenCalls =< calls
  BY DEF IInv, DeviceInv
<1>. QED  BY <1>1, <1>2, <1>3, <1>4, <1>5, OutsideKeeps

\* The show's clock starts or stops, or nothing happens.
LEMMA QuietKeeps ==
  ASSUME IInv, now' = now, epoch' \in Int, shows' \in 0..MaxShows,
         UNCHANGED <<ringVars, markVars, deviceVars, sink, dr, readVars,
                     feederVars, using, seenVars, nullVars>>
  PROVE  IInv'
<1>1. /\ UNCHANGED <<cb, out, heardAt, slow, gaps>> /\ alive' = alive /\ lost' = lost
      /\ seenCalls' = seenCalls /\ seenAt' = seenAt
  BY DEF deviceVars, seenVars
<1>2. ClockTyped'
  BY TypeParts DEF IInv, ClockTyped
<1>3. FeederTyped' /\ alive \in BOOLEAN /\ lost \in BOOLEAN
  BY TypeParts DEF IInv, FeederTyped, DeviceTyped, feederVars, seenVars, nullVars
<1>4. /\ lost => ~alive
      /\ cb # "away" => alive
      /\ sink = "null" => dr = "rest"
      /\ sink = "device" =>
           /\ seenCalls =< calls
           /\ cb \in {"marked", "popped"} => calls # seenCalls \/ seenAt = now
  BY DEF IInv, DeviceInv
<1>. QED  BY <1>1, <1>2, <1>3, <1>4, OutsideKeeps

LEMMA StartShowKeeps == IInv /\ StartShow => IInv'
<1>. SUFFICES ASSUME IInv, StartShow
     PROVE  IInv'
  OBVIOUS
<1>1. /\ shows < MaxShows /\ now' = now /\ epoch' = now /\ shows' = shows + 1
      /\ UNCHANGED <<ringVars, markVars, deviceVars, sink, dr, readVars,
                     feederVars, using, seenVars, nullVars>>
  BY DEF StartShow
<1>2. now \in Int /\ shows' \in 0..MaxShows
  BY <1>1, Constants, TypeParts DEF IInv, ClockTyped
<1>. QED  BY <1>1, <1>2, QuietKeeps

LEMMA StopShowKeeps == IInv /\ StopShow => IInv'
<1>. SUFFICES ASSUME IInv, StopShow
     PROVE  IInv'
  OBVIOUS
<1>1. /\ now' = now /\ epoch' = None /\ shows' = shows
      /\ UNCHANGED <<ringVars, markVars, deviceVars, sink, dr, readVars,
                     feederVars, using, seenVars, nullVars>>
  BY DEF StopShow
<1>2. None \in Int /\ shows \in 0..MaxShows
  BY TypeParts DEF IInv, ClockTyped, None
<1>. QED  BY <1>1, <1>2, QuietKeeps

LEMMA StutterKeeps == IInv /\ UNCHANGED vars => IInv'
<1>. SUFFICES ASSUME IInv, UNCHANGED vars
     PROVE  IInv'
  OBVIOUS
<1>1. /\ now' = now /\ epoch' = epoch /\ shows' = shows
      /\ UNCHANGED <<ringVars, markVars, deviceVars, sink, dr, readVars,
                     feederVars, using, seenVars, nullVars>>
  BY DEF vars, clockVars
<1>2. epoch \in Int /\ shows \in 0..MaxShows
  BY TypeParts DEF IInv, ClockTyped
<1>. QED  BY <1>1, <1>2, QuietKeeps

\* A device is given up only between callbacks, or before one has marked.
LEMMA CollectKeeps == IInv /\ Collect => IInv'
<1>. SUFFICES ASSUME IInv, Collect
     PROVE  IInv'
  OBVIOUS
<1>. USE DEF IInv
<1>1. /\ sink = "device" /\ dr = "rest" /\ Seen
      /\ UNCHANGED <<clockVars, cb, out, heardAt, alive, lost, slow, readVars,
                     feederVars, handed>>
  BY DEF Collect
<1>2. /\ now' = now /\ cb' = cb /\ out' = out /\ heardAt' = heardAt /\ alive' = alive
      /\ lost' = lost /\ slow' = slow /\ reg' = reg /\ pushing' = pushing
      /\ cursor' = cursor /\ anchored' = anchored /\ handed' = handed
  BY <1>1 DEF clockVars, readVars, feederVars
<1>3. now \in Nat /\ seenAt \in Nat /\ seenCalls \in Nat /\ calls \in Nat /\ epoch \in Int
  BY Constants, TypeParts DEF ClockTyped, FeederTyped, MarkTyped
<1>4. /\ seenCalls' \in Nat /\ seenAt' \in Nat /\ seenCalls' =< calls
      /\ cb \in {"marked", "popped"} => seenAt' = now
  <2>1. CASE calls # seenCalls
    <3>1. seenCalls' = calls /\ seenAt' = now
      BY <1>1, <2>1 DEF Seen
    <3>. QED  BY <1>3, <3>1
  <2>2. CASE calls = seenCalls
    <3>1. seenCalls' = seenCalls /\ seenAt' = seenAt
      BY <1>1, <2>2 DEF Seen, seenVars
    <3>2. cb \in {"marked", "popped"} => seenAt = now
      BY <1>1, <2>2 DEF DeviceInv
    <3>. QED  BY <1>3, <2>2, <3>1, <3>2
  <2>. QED  BY <2>1, <2>2
<1>5. ClockTyped'
  BY <1>1, TypeParts DEF ClockTyped, clockVars
<1>6. CASE lost \/ now - seenAt' > SilentLimit
  <2>1. /\ sink' = "null" /\ due' = now /\ nullSince' = now /\ dr' = dr /\ using' = using
        /\ Dropped
    BY <1>1, <1>6 DEF Collect
  <2>2. /\ buf' = [s \in Slots |-> None] /\ told' = [s \in Slots |-> Untold]
        /\ written' = 0 /\ read' = 0 /\ seq' = 0 /\ markFrame' = 0 /\ markAt' = 0
        /\ calls' = 0 /\ markGaps' = None /\ gaps' = 0
    BY <2>1 DEF Dropped
  <2>3. cb \notin {"marked", "popped"}
    <3>1. SUFFICES ASSUME cb \in {"marked", "popped"}
                   PROVE  FALSE
      OBVIOUS
    <3>2. ~lost
      BY <3>1 DEF DeviceInv
    <3>3. now - now > SilentLimit
      BY <1>4, <1>6, <3>1, <3>2
    <3>. QED  BY <1>3, <3>3, Constants
  <2>4. TypeOK'
    <3>1. buf' \in [Slots -> Nat \cup {None}] /\ told' \in [Slots -> [due : Int, gaps : Int]]
      <4>1. Untold \in [due : Int, gaps : Int]
        BY DEF Untold, None
      <4>. QED  BY <2>2, <4>1, Zenon
    <3>2. RingTyped'
      BY <2>2, <3>1 DEF RingTyped
    <3>3. MarkTyped'
      BY <2>2 DEF MarkTyped, None
    <3>4. DeviceTyped' /\ DriverTyped'
      BY <1>1, <1>2, <2>1, <2>2, TypeParts DEF DeviceTyped, DriverTyped
    <3>5. FeederTyped'
      BY <1>2, <1>3, <1>4, <2>1, TypeParts DEF FeederTyped
    <3>. QED  BY <1>5, <3>2, <3>3, <3>4, <3>5, TypeJoined
  <2>5. dr' = "rest" /\ Stored' = 0
    BY <1>1, <2>1, <2>2 DEF Stored
  <2>6. RingInv'
    BY <2>2, <2>5, Constants DEF RingInv
  <2>7. ToldInv'
    <3>1. \A k \in 0..Capacity - 1 : k % Capacity \in Slots
      BY Constants, SlotExists DEF Slots
    <3>2. \A k \in Stored'..read' + Capacity - 1 : k \in 0..Capacity - 1
      BY <2>2, <2>5, Constants
    <3>3. \A s \in Slots : told'[s] = Untold
      BY <2>2
    <3>4. \A k \in Stored'..read' + Capacity - 1 : told'[k % Capacity] = Untold
      BY <3>1, <3>2, <3>3
    <3>5. \A k \in read'..Stored' - 1 : FALSE
      BY <2>2, <2>5
    <3>. QED  BY <3>4, <3>5, Zenon DEF ToldInv
  <2>8. DeviceInv'
    BY <1>2, <2>1, <2>2, <2>3, <2>5 DEF DeviceInv
  <2>9. OutInv'
    BY <1>2, <2>3 DEF OutInv
  <2>10. MarkInv' /\ RegInv'
    BY <2>1 DEF MarkInv, RegInv
  <2>. QED  BY <2>4, <2>6, <2>7, <2>8, <2>9, <2>10
<1>7. CASE ~(lost \/ now - seenAt' > SilentLimit)
  <2>1. /\ dr' = "fill" /\ using' = epoch
        /\ UNCHANGED <<sink, due, nullSince, ringVars, markVars, gaps>>
    BY <1>1, <1>7 DEF Collect
  <2>2. FeederTyped' /\ alive \in BOOLEAN /\ lost \in BOOLEAN
    BY <1>2, <1>3, <1>4, <2>1, TypeParts DEF FeederTyped, DeviceTyped
  <2>3. (cb # "away" => alive) /\ (lost => ~alive)
    BY DEF DeviceInv
  <2>. QED  BY <1>1, <1>2, <1>4, <1>5, <2>1, <2>2, <2>3, OutsideKeeps
<1>. QED  BY <1>6, <1>7

-----------------------------------------------------------------------------
(* The theorems.                                                           *)

LEMMA Starts == Init => IInv
<1>. SUFFICES ASSUME Init
     PROVE  IInv
  OBVIOUS
<1>1. /\ now = 0 /\ epoch = None /\ shows = 0
      /\ buf = [s \in Slots |-> None] /\ told = [s \in Slots |-> Untold]
      /\ written = 0 /\ read = 0 /\ seq = 0 /\ markFrame = 0 /\ markAt = 0 /\ calls = 0
      /\ cb = "away" /\ out = <<>> /\ heardAt = Ahead + 1 /\ alive = TRUE /\ lost = FALSE
      /\ slow = 0 /\ sink = "device" /\ dr = "rest" /\ reg = NoMark /\ pushing = 0
      /\ cursor = None /\ anchored = None /\ using = None /\ seenCalls = 0 /\ seenAt = 0
      /\ due = 0 /\ handed = 0 /\ nullSince = 0 /\ gaps = 0 /\ markGaps = None
  BY DEF Init
<1>2. None \in Int /\ NoMark \in [seq : Nat, frame : Nat, at : Nat, gaps : Int]
      /\ Untold \in [due : Int, gaps : Int]
  BY DEF None, NoMark, Untold
<1>3. TypeOK
  <2>1. ClockTyped
    BY <1>1, <1>2, Constants DEF ClockTyped
  <2>2. RingTyped
    <3>1. buf \in [Slots -> Nat \cup {None}] /\ told \in [Slots -> [due : Int, gaps : Int]]
      BY <1>1, <1>2, Zenon
    <3>. QED  BY <1>1, <3>1 DEF RingTyped
  <2>3. MarkTyped /\ FeederTyped
    BY <1>1, <1>2 DEF MarkTyped, FeederTyped
  <2>4. DeviceTyped
    <3>1. heardAt \in Nat /\ slow \in 0..MaxDrift /\ gaps \in Nat
      BY <1>1, Constants
    <3>2. out \in Seq([frame : Nat \cup {None}, due : Int, gaps : Int])
      BY <1>1
    <3>. QED  BY <1>1, <3>1, <3>2 DEF DeviceTyped
  <2>5. DriverTyped
    BY <1>1, <1>2, Constants DEF DriverTyped
  <2>. QED  BY <2>1, <2>2, <2>3, <2>4, <2>5, TypeParts
<1>4. Stored = 0
  BY <1>1 DEF Stored
<1>5. RingInv
  BY <1>1, <1>4, Constants DEF RingInv
<1>6. ToldInv
  <2>1. \A k \in 0..Capacity - 1 : k % Capacity \in Slots
    BY Constants, SlotExists DEF Slots
  <2>2. \A k \in Stored..read + Capacity - 1 : k \in 0..Capacity - 1
    BY <1>1, <1>4, Constants
  <2>3. \A s \in Slots : told[s] = Untold
    BY <1>1
  <2>4. \A k \in Stored..read + Capacity - 1 : told[k % Capacity] = Untold
    BY <2>1, <2>2, <2>3
  <2>5. \A k \in read..Stored - 1 : FALSE
    BY <1>1, <1>4
  <2>. QED  BY <2>4, <2>5, Zenon DEF ToldInv
<1>7. DeviceInv /\ OutInv /\ RegInv
  BY <1>1 DEF DeviceInv, OutInv, RegInv
<1>8. MarkInv
  BY <1>1, Constants DEF MarkInv, Start
<1>. QED  BY <1>3, <1>5, <1>6, <1>7, <1>8 DEF IInv

LEMMA Stays == IInv /\ [Next]_vars => IInv'
<1>. SUFFICES ASSUME IInv, [Next]_vars
     PROVE  IInv'
  OBVIOUS
<1>1. CASE DeviceSteps
  BY <1>1, MarkOpenKeeps, MarkFrameKeeps, MarkAtKeeps, MarkCloseKeeps, PopCopiesKeeps,
     PopFreesKeeps DEF DeviceSteps
<1>2. CASE DriverSteps
  BY <1>2, CollectKeeps, FilledKeeps, ReadSeqKeeps, ReadFrameKeeps, ReadAtKeeps,
     ReadAgainKeeps, PushCopiesKeeps, PushPublishesKeeps, NullCycleKeeps DEF DriverSteps
<1>. QED  BY <1>1, <1>2, GoesKeeps, TickKeeps, StartShowKeeps, StopShowKeeps, StutterKeeps
     DEF Next

\* The ring, the marks, the callback and the driver's reading fit together in
\* every reachable state, for all sizes, paces and latencies.
THEOREM Invariant == Spec => []IInv
<1>. QED  BY Starts, Stays, PTL DEF Spec

\* Every variable keeps its type.
THEOREM TypeCorrect == Spec => []TypeOK
<1>1. IInv => TypeOK
  BY DEF IInv
<1>. QED  BY <1>1, Invariant, PTL

\* The callback hands the device the ring's own next frames, whole and in order
\* (audio_ring.rs), although the driver writes the ring without a lock.
THEOREM DevicePlaysInOrder == Spec => []PlayedInOrder
<1>1. IInv => PlayedInOrder
  BY Zenon DEF IInv, OutInv, PlayedInOrder
<1>. QED  BY <1>1, Invariant, PTL

\* A block is heard when it was due, within what a realignment tolerates and
\* the device lost since (audio_clock.rs), although the driver reads the marks
\* while the callback writes them.
THEOREM BlocksAreHeardInSync == Spec => []HeardInSync
<1>1. IInv => HeardInSync
  BY Zenon DEF IInv, OutInv, HeardInSync
<1>. QED  BY <1>1, Invariant, PTL
================================================================================
