----------------------------- MODULE PlayoutProofs -----------------------------
(***************************************************************************)
(* Every master frame of a run is drawn or counted once, for all rates,    *)
(* budgets and delays.  The argument: a tick of a run that goes on sleeps  *)
(* to the next frame's boundary by the clock's own arithmetic, so the      *)
(* frame it wakes to is past the one it drew, and the cadence counts what  *)
(* lies between; the frame it drew is counted when it is submitted.        *)
(***************************************************************************)
EXTENDS MCPlayout, TLAPS

\* The last tick was of the run that is on.
SameRun == drawn # Frames!None /\ drawn.run = run /\ Frames!Running

\* The cadence and the loop name the same last frame, of this run or an earlier
\* one, and not before the first of its own.
DrawnInv ==
  /\ last = drawn.frame /\ drawn.run =< run
  /\ drawn # Frames!None => drawn.frame \in Nat /\ first \in Nat /\ first =< drawn.frame

\* The ladder leaves its first rung before the counter passes the bound.
LadderInv == rung = "PreviewHalfRate" => lateAtRung1 < Rung2After

\* A loop in its run aims at the next frame and sleeps to its boundary.
AimInv ==
  SameRun =>
    /\ pc = "aiming" => aim = "next"
    /\ pc = "sleeping" => age + left >= Frames!Boundary(drawn.frame + 1)

\* The frame that was drawn is counted once it is submitted.
Counted == IF pc \in {"drawing", "submitting"} THEN 0 ELSE 1
CountInv == SameRun => (drawn.frame - first) + Counted = (kept + dropped) - before

FrameInv ==
  /\ Frames!TypeOK /\ DrawnInv /\ LadderInv /\ AimInv /\ CountInv

-----------------------------------------------------------------------------
(* The types, part by part.                                                *)

LoopTyped ==
  /\ run \in 0..MaxRuns /\ age \in {Frames!Stopped} \cup 0..MaxAge
  /\ pc \in {"reading", "aiming", "sleeping", "drawing", "submitting"}
  /\ aim \in {"next", "now", "grid"} /\ left \in Nat
  /\ drawn \in [run : 0..MaxRuns, frame : Nat \cup {Frames!Stopped}]
  /\ took \in Nat
CountTyped ==
  /\ last \in Nat \cup {Frames!Stopped} /\ first \in Nat \cup {Frames!Stopped}
  /\ repeated \in Nat /\ skipped \in Nat /\ dropped \in Nat
  /\ kept \in Nat /\ before \in Nat
LadderTyped ==
  /\ rung \in {"Nominal", "PreviewHalfRate", "LoopsShed"}
  /\ late \in Nat /\ onTime \in 0..RestoreAfter /\ lateAtRung1 \in 0..Rung2After
WatchTyped ==
  /\ misses \in Nat /\ tripped \in BOOLEAN /\ clear \in 0..ClearAfter
  /\ holders \subseteq {"Held", "Watchdog"}

LEMMA TypeParts ==
  Frames!TypeOK <=> LoopTyped /\ CountTyped /\ LadderTyped /\ WatchTyped
BY Zenon DEF Frames!TypeOK, LoopTyped, CountTyped, LadderTyped, WatchTyped

LEMMA TypeJoined ==
  ASSUME LoopTyped', CountTyped', LadderTyped', WatchTyped'
  PROVE  Frames!TypeOK'
BY Zenon DEF Frames!TypeOK, LoopTyped, CountTyped, LadderTyped, WatchTyped

LEMMA Bounds ==
  /\ Second \in Nat /\ Second >= 1 /\ Rate \in Nat /\ Rate >= 1
  /\ Budget \in Nat /\ Budget >= 1
  /\ ClearAfter \in Nat /\ ClearAfter >= 1 /\ RestoreAfter \in Nat /\ RestoreAfter >= 1
  /\ Rung1After \in Nat /\ Rung1After >= 1 /\ Rung2After \in Nat /\ Rung2After >= 1
  /\ Threshold \in Nat /\ MaxRuns \in Nat /\ MaxAge \in Nat
  /\ Late \subseteq Nat /\ Work \subseteq Nat
BY FramesConstants DEF Frames!LoopConstants

-----------------------------------------------------------------------------
(* The clock's arithmetic.                                                 *)

LEMMA DivBounds ==
  ASSUME NEW a \in Int, NEW b \in Nat, b >= 1
  PROVE  /\ a \div b \in Int /\ b * (a \div b) =< a /\ a < b * (a \div b) + b
<1>1. a \div b \in Int /\ a % b \in 0..b - 1 /\ a = b * (a \div b) + (a % b)
  OBVIOUS
<1>. DEFINE q == b * (a \div b)
            r == a % b
<1>2. q \in Int /\ r \in 0..b - 1 /\ a = q + r
  BY <1>1
<1>. HIDE DEF q, r
<1>3. q =< a /\ a < q + b
  BY <1>2
<1>. QED  BY <1>1, <1>3 DEF q

\* What is no more than a multiple has no more quotients.
LEMMA DivAtLeast ==
  ASSUME NEW a \in Int, NEW b \in Nat, b >= 1, NEW f \in Int, b * f =< a
  PROVE  a \div b >= f
<1>. DEFINE q == a \div b
<1>1. q \in Int /\ a < b * q + b
  BY DivBounds
<1>. HIDE DEF q
<1>2. q >= f
  <2>. SUFFICES ASSUME q < f
                PROVE  FALSE
    BY <1>1
  <2>1. q + 1 =< f
    BY <1>1
  <2>2. b * (q + 1) =< b * f
    BY <1>1, <2>1
  <2>3. b * (q + 1) = b * q + b
    BY <1>1
  <2>. QED  BY <1>1, <2>2, <2>3
<1>. QED  BY <1>2 DEF q

LEMMA BoundaryType == \A f \in Int : Frames!Boundary(f) \in Int
<1>. SUFFICES ASSUME NEW f \in Int
              PROVE  Frames!Boundary(f) \in Int
  OBVIOUS
<1>1. f * Second \in Int
  BY Bounds
<1>2. (f * Second + Rate) - 1 \in Int
  BY <1>1, Bounds
<1>. QED  BY <1>2, Bounds, DivBounds DEF Frames!Boundary, Frames!CeilDiv

LEMMA FrameType == \A a \in Nat : Frames!FrameAt(a) \in Nat
<1>. SUFFICES ASSUME NEW a \in Nat
              PROVE  Frames!FrameAt(a) \in Nat
  OBVIOUS
<1>1. a * Rate \in Nat
  BY Bounds
<1>2. Second * 0 =< a * Rate
  BY <1>1, Bounds
<1>3. (a * Rate) \div Second \in Int /\ (a * Rate) \div Second >= 0
  BY <1>1, <1>2, Bounds, DivBounds, DivAtLeast
<1>. QED  BY <1>3 DEF Frames!FrameAt

\* At a frame's boundary the clock is in that frame, or past it.
LEMMA BoundaryReached ==
  ASSUME NEW a \in Nat, NEW f \in Nat, a >= Frames!Boundary(f)
  PROVE  Frames!FrameAt(a) >= f
<1>. DEFINE x == f * Second
            c == (x + Rate - 1) \div Rate
<1>1. x \in Nat /\ x = Second * f
  BY Bounds
<1>. HIDE DEF x
<1>2. c \in Int /\ x + Rate - 1 < Rate * c + Rate /\ a >= c
  <2>1. x + Rate - 1 \in Int
    BY <1>1, Bounds
  <2>2. a >= c
    BY DEF Frames!Boundary, Frames!CeilDiv, x
  <2>. QED  BY <2>1, <2>2, Bounds, DivBounds
<1>. HIDE DEF c
<1>3. x =< Rate * c
  <2>1. Rate * c \in Int
    BY <1>2, Bounds
  <2>. QED  BY <1>1, <1>2, <2>1, Bounds
<1>4. Rate * c =< Rate * a
  BY <1>2, Bounds
<1>5. Rate * a = a * Rate /\ a * Rate \in Int
  BY Bounds
<1>6. Second * f =< a * Rate
  <2>1. Rate * c \in Int /\ Second * f \in Int
    BY <1>2, Bounds
  <2>. QED  BY <1>1, <1>3, <1>4, <1>5, <2>1
<1>. QED  BY <1>5, <1>6, Bounds, DivAtLeast DEF Frames!FrameAt

-----------------------------------------------------------------------------
(* The loop's steps.                                                       *)

LEMMA ReadClockKeeps == FrameInv /\ Frames!ReadClock => FrameInv'
<1>. SUFFICES ASSUME FrameInv, Frames!ReadClock
     PROVE  FrameInv'
  OBVIOUS
<1>. USE DEF FrameInv
<1>1. /\ pc = "reading" /\ pc' = "aiming"
      /\ aim' = IF ~Frames!Running THEN "grid"
                ELSE IF drawn # Frames!None /\ drawn.run = run THEN "next" ELSE "now"
      /\ run' = run /\ age' = age /\ left' = left /\ drawn' = drawn /\ took' = took
      /\ last' = last /\ repeated' = repeated /\ skipped' = skipped /\ dropped' = dropped
      /\ rung' = rung /\ late' = late /\ onTime' = onTime /\ lateAtRung1' = lateAtRung1
      /\ misses' = misses /\ tripped' = tripped /\ clear' = clear /\ holders' = holders
      /\ first' = first /\ kept' = kept /\ before' = before
  BY DEF Frames!ReadClock, Frames!clockVars, Frames!cadenceVars, Frames!ladderVars,
         Frames!watchdogVars, Frames!history
<1>2. Frames!TypeOK'
  BY <1>1, TypeParts, TypeJoined
     DEF LoopTyped, CountTyped, LadderTyped, WatchTyped
<1>3. DrawnInv' /\ LadderInv'
  BY <1>1 DEF DrawnInv, LadderInv
<1>4. (SameRun' <=> SameRun) /\ Counted' = Counted
  BY <1>1 DEF SameRun, Frames!Running, Counted
<1>5. AimInv' /\ CountInv'
  <2>1. SameRun => aim' = "next"
    BY <1>1 DEF SameRun
  <2>. QED  BY <1>1, <1>4, <2>1 DEF AimInv, CountInv
<1>. QED  BY <1>2, <1>3, <1>5

LEMMA AimKeeps == FrameInv /\ Frames!Aim => FrameInv'
<1>. SUFFICES ASSUME FrameInv, Frames!Aim
     PROVE  FrameInv'
  OBVIOUS
<1>. USE DEF FrameInv
<1>1. /\ pc = "aiming" /\ pc' = "sleeping" /\ aim' = aim
      /\ left' \in CASE aim = "now" -> {0}
                     [] aim = "next" /\ Frames!Running ->
                          {Frames!Larger(Frames!Boundary(drawn.frame + 1) - age, 0)}
                     [] OTHER -> 0..Budget
      /\ run' = run /\ age' = age /\ drawn' = drawn /\ took' = took
      /\ last' = last /\ repeated' = repeated /\ skipped' = skipped /\ dropped' = dropped
      /\ rung' = rung /\ late' = late /\ onTime' = onTime /\ lateAtRung1' = lateAtRung1
      /\ misses' = misses /\ tripped' = tripped /\ clear' = clear /\ holders' = holders
      /\ first' = first /\ kept' = kept /\ before' = before
  BY DEF Frames!Aim, Frames!clockVars, Frames!cadenceVars, Frames!ladderVars,
         Frames!watchdogVars, Frames!history
<1>2. drawn.frame + 1 \in Int /\ age \in Int
  BY Bounds, TypeParts DEF LoopTyped, Frames!Stopped
<1>3. PICK b \in Int : b = Frames!Boundary(drawn.frame + 1)
  BY <1>2, BoundaryType
<1>4. left' \in Nat /\ (SameRun => age + left' >= b)
  <2>1. CASE aim = "now"
    <3>1. ~SameRun
      BY <1>1, <2>1 DEF AimInv
    <3>. QED  BY <1>1, <2>1, <3>1
  <2>2. CASE aim = "next" /\ Frames!Running
    <3>1. left' = Frames!Larger(b - age, 0)
      BY <1>1, <1>3, <2>2
    <3>. QED  BY <1>2, <1>3, <3>1 DEF Frames!Larger
  <2>3. CASE aim # "now" /\ ~(aim = "next" /\ Frames!Running)
    <3>1. ~SameRun
      BY <1>1, <2>3 DEF AimInv, SameRun
    <3>2. left' \in 0..Budget
      BY <1>1, <2>3, Zenon
    <3>. QED  BY <3>1, <3>2, Bounds
  <2>. QED  BY <2>1, <2>2, <2>3
<1>5. Frames!TypeOK'
  BY <1>1, <1>4, TypeParts, TypeJoined
     DEF LoopTyped, CountTyped, LadderTyped, WatchTyped
<1>6. DrawnInv' /\ LadderInv'
  BY <1>1 DEF DrawnInv, LadderInv
<1>7. (SameRun' <=> SameRun) /\ Counted' = Counted
  BY <1>1 DEF SameRun, Frames!Running, Counted
<1>8. AimInv'
  <2>1. Frames!Boundary(drawn.frame + 1)' = b
    BY <1>1, <1>3 DEF Frames!Boundary, Frames!CeilDiv
  <2>. QED  BY <1>1, <1>4, <1>7, <2>1 DEF AimInv
<1>9. CountInv'
  BY <1>1, <1>7 DEF CountInv
<1>. QED  BY <1>5, <1>6, <1>8, <1>9

LEMMA SleepKeeps == FrameInv /\ Frames!Sleep => FrameInv'
<1>. SUFFICES ASSUME FrameInv, Frames!Sleep
     PROVE  FrameInv'
  OBVIOUS
<1>. USE DEF FrameInv
<1>1. /\ pc = "sleeping" /\ pc' = pc /\ left > 0 /\ left' = left - 1
      /\ age' = IF Frames!Running THEN age + 1 ELSE age
      /\ age' =< MaxAge
      /\ run' = run /\ aim' = aim /\ drawn' = drawn /\ took' = took
      /\ last' = last /\ repeated' = repeated /\ skipped' = skipped /\ dropped' = dropped
      /\ rung' = rung /\ late' = late /\ onTime' = onTime /\ lateAtRung1' = lateAtRung1
      /\ misses' = misses /\ tripped' = tripped /\ clear' = clear /\ holders' = holders
      /\ first' = first /\ kept' = kept /\ before' = before
  BY DEF Frames!Sleep, Frames!Pass, Frames!cadenceVars, Frames!ladderVars,
         Frames!watchdogVars, Frames!history
<1>2. age \in {Frames!Stopped} \cup 0..MaxAge /\ left \in Nat /\ MaxAge \in Nat
      /\ drawn.frame + 1 \in Int
  BY Bounds, TypeParts DEF LoopTyped, Frames!Stopped
<1>3. age' \in {Frames!Stopped} \cup 0..MaxAge /\ left' \in Nat
  BY <1>1, <1>2 DEF Frames!Running, Frames!Stopped
<1>4. Frames!TypeOK'
  BY <1>1, <1>3, TypeParts, TypeJoined
     DEF LoopTyped, CountTyped, LadderTyped, WatchTyped
<1>5. DrawnInv' /\ LadderInv'
  BY <1>1 DEF DrawnInv, LadderInv
<1>6. (SameRun' => SameRun) /\ Counted' = Counted
  BY <1>1 DEF SameRun, Frames!Running, Counted
<1>7. AimInv'
  <2>1. PICK b \in Int : b = Frames!Boundary(drawn.frame + 1)
    BY <1>2, BoundaryType
  <2>2. Frames!Boundary(drawn.frame + 1)' = b
    BY <1>1, <2>1 DEF Frames!Boundary, Frames!CeilDiv
  <2>3. SameRun => age' + left' >= b
    <3>. SUFFICES ASSUME SameRun
                  PROVE  age' + left' >= b
      OBVIOUS
    <3>1. age + left >= b
      BY <1>1, <2>1 DEF AimInv
    <3>2. age' = age + 1 /\ age \in Int
      BY <1>1, <1>2 DEF SameRun, Frames!Stopped
    <3>. QED  BY <1>1, <1>2, <2>1, <3>1, <3>2
  <2>. QED  BY <1>1, <1>6, <2>2, <2>3 DEF AimInv
<1>8. CountInv'
  BY <1>1, <1>6 DEF CountInv
<1>. QED  BY <1>4, <1>5, <1>7, <1>8

LEMMA WakeKeeps == FrameInv /\ Frames!Wake => FrameInv'
<1>. SUFFICES ASSUME FrameInv, Frames!Wake
     PROVE  FrameInv'
  OBVIOUS
<1>. USE DEF FrameInv
<1>1. /\ pc = "sleeping" /\ left = 0 /\ pc' = "drawing"
      /\ run' = run /\ aim' = aim /\ left' = left /\ took' = took
      /\ rung' = rung /\ late' = late /\ onTime' = onTime /\ lateAtRung1' = lateAtRung1
      /\ misses' = misses /\ tripped' = tripped /\ clear' = clear /\ holders' = holders
  BY DEF Frames!Wake, Frames!Pass, Frames!ladderVars, Frames!watchdogVars
<1>2. PICK l \in Late : age' = (IF Frames!Running THEN age + l ELSE age) /\ age' =< MaxAge
  BY DEF Frames!Wake, Frames!Pass
<1>3. /\ age \in {Frames!Stopped} \cup 0..MaxAge /\ MaxAge \in Nat /\ l \in Nat
      /\ run \in 0..MaxRuns /\ drawn.frame \in Nat \cup {Frames!Stopped}
  BY Bounds, TypeParts DEF LoopTyped
<1>4. /\ age' \in {Frames!Stopped} \cup 0..MaxAge
      /\ (Frames!Running' <=> Frames!Running)
      /\ Frames!Running => age \in Nat /\ age' \in Nat /\ age' >= age
  BY <1>2, <1>3 DEF Frames!Running, Frames!Stopped
<1>5. PICK f : f = IF Frames!Running THEN Frames!FrameAt(age') ELSE Frames!Stopped
  OBVIOUS
<1>6. /\ f \in Nat \cup {Frames!Stopped}
      /\ (f # Frames!Stopped <=> Frames!Running)
      /\ f # Frames!Stopped => f \in Nat
  BY <1>4, <1>5, FrameType DEF Frames!Stopped
<1>. DEFINE opens == f # Frames!Stopped /\ (drawn = Frames!None \/ drawn.run # run)
            newRun == drawn # Frames!None /\ f # Frames!Stopped /\ drawn.run # run
            prev == IF newRun \/ f = Frames!Stopped \/ f < last THEN Frames!Stopped ELSE last
<1>7. /\ drawn' = IF f = Frames!Stopped THEN Frames!None ELSE [run |-> run, frame |-> f]
      /\ last' = f
      /\ repeated' = repeated + (IF prev # Frames!Stopped /\ f = prev THEN 1 ELSE 0)
      /\ skipped' = skipped + (IF prev # Frames!Stopped /\ f > prev + 1 THEN f - prev - 1 ELSE 0)
      /\ dropped' = dropped + (skipped' - skipped)
      /\ first' = IF opens THEN f ELSE first
      /\ kept' = IF opens THEN 0 ELSE kept
      /\ before' = IF opens THEN dropped ELSE before
  BY <1>5 DEF Frames!Wake, Frames!CadenceTick
<1>8. CountTyped
  BY TypeParts
<1>9. PICK p \in Nat \cup {Frames!Stopped} : p = prev
  BY <1>8 DEF CountTyped
<1>10. PICK s \in Nat : s = IF prev # Frames!Stopped /\ f > prev + 1 THEN f - prev - 1 ELSE 0
  <2>1. p # Frames!Stopped => p \in Nat /\ f \in Nat
    BY <1>6, <1>9
  <2>2. (IF p # Frames!Stopped /\ f > p + 1 THEN f - p - 1 ELSE 0) \in Nat
    BY <2>1
  <2>. QED  BY <1>9, <2>2
<1>11. /\ skipped' = skipped + s /\ skipped' \in Nat /\ repeated' \in Nat
       /\ dropped' = dropped + s /\ dropped' \in Nat
  <2>1. skipped \in Nat /\ repeated \in Nat /\ dropped \in Nat
    BY <1>8 DEF CountTyped
  <2>2. skipped' = skipped + s
    BY <1>7, <1>10
  <2>3. (skipped + s) - skipped = s
    BY <2>1, <1>10
  <2>4. dropped' = dropped + s
    BY <1>7, <2>2, <2>3
  <2>5. repeated' \in Nat
    BY <1>7, <2>1
  <2>. QED  BY <1>10, <2>1, <2>2, <2>4, <2>5
<1>12. /\ (opens <=> Frames!Running /\ ~SameRun)
       /\ (SameRun => Frames!Running /\ ~opens /\ ~newRun /\ prev = IF f < last THEN Frames!Stopped ELSE last)
  BY <1>6 DEF SameRun
<1>. HIDE DEF opens, newRun, prev
<1>13. LoopTyped'
  <2>1. drawn' \in [run : 0..MaxRuns, frame : Nat \cup {Frames!Stopped}]
    <3>1. CASE f = Frames!Stopped
      <4>1. Frames!None \in [run : 0..MaxRuns, frame : Nat \cup {Frames!Stopped}]
        BY <1>3, Bounds DEF Frames!None
      <4>. QED  BY <1>7, <3>1, <4>1
    <3>2. CASE f # Frames!Stopped
      BY <1>3, <1>6, <1>7, <3>2
    <3>. QED  BY <3>1, <3>2
  <2>. QED  BY <1>1, <1>4, <2>1, TypeParts DEF LoopTyped
<1>14. CountTyped'
  <2>1. 0 \in Nat /\ first' \in Nat \cup {Frames!Stopped} /\ kept' \in Nat /\ before' \in Nat
    BY <1>6, <1>7, <1>8 DEF CountTyped
  <2>. QED  BY <1>6, <1>7, <1>11, <2>1 DEF CountTyped
<1>15. LadderTyped' /\ WatchTyped'
  BY <1>1, TypeParts DEF LadderTyped, WatchTyped
<1>16. SameRun => f \in Nat /\ drawn.frame \in Nat /\ f >= drawn.frame + 1
  <2>. SUFFICES ASSUME SameRun
                PROVE  f \in Nat /\ drawn.frame \in Nat /\ f >= drawn.frame + 1
    OBVIOUS
  <2>1. drawn.frame \in Nat /\ Frames!Running
    BY DEF DrawnInv, SameRun
  <2>2. drawn.frame + 1 \in Nat
    BY <2>1
  <2>3. PICK b \in Int : b = Frames!Boundary(drawn.frame + 1)
    BY <2>2, BoundaryType
  <2>4. age + left >= b
    BY <1>1, <2>3 DEF AimInv
  <2>5. age' >= b
    BY <1>1, <1>4, <2>1, <2>3, <2>4
  <2>6. Frames!FrameAt(age') >= drawn.frame + 1
    BY <1>4, <2>1, <2>2, <2>3, <2>5, BoundaryReached
  <2>. QED  BY <1>5, <1>6, <2>1, <2>6
<1>17. /\ (f # Frames!Stopped => drawn' # Frames!None /\ drawn'.run = run)
       /\ (f = Frames!Stopped => drawn' = Frames!None)
       /\ drawn'.frame = f
  BY <1>6, <1>7 DEF Frames!None, Frames!Stopped
<1>18. SameRun' <=> Frames!Running
  BY <1>1, <1>4, <1>6, <1>17 DEF SameRun
<1>19. DrawnInv'
  <2>1. drawn'.run =< run'
    <3>1. CASE f = Frames!Stopped
      <4>1. Frames!None.run = 0
        BY DEF Frames!None
      <4>. QED  BY <1>1, <1>3, <1>17, <3>1, <4>1
    <3>2. CASE f # Frames!Stopped
      BY <1>1, <1>3, <1>17, <3>2
    <3>. QED  BY <3>1, <3>2
  <2>2. f # Frames!Stopped => first' \in Nat /\ first' =< f
    <3>. SUFFICES ASSUME f # Frames!Stopped
                  PROVE  first' \in Nat /\ first' =< f
      OBVIOUS
    <3>1. CASE opens
      BY <1>6, <1>7, <3>1
    <3>2. CASE ~opens
      <4>1. SameRun
        BY <1>6, <1>12, <3>2
      <4>2. first \in Nat /\ first =< drawn.frame
        BY <4>1 DEF DrawnInv, SameRun
      <4>. QED  BY <1>7, <1>16, <3>2, <4>1, <4>2
    <3>. QED  BY <3>1, <3>2
  <2>. QED  BY <1>6, <1>7, <1>17, <2>1, <2>2 DEF DrawnInv
<1>20. CountInv'
  <2>. SUFFICES ASSUME SameRun'
                PROVE  (f - first') + 0 = (kept' + dropped') - before'
    BY <1>1, <1>17 DEF CountInv, Counted
  <2>0. f \in Nat /\ dropped \in Nat /\ kept \in Nat /\ before \in Nat
    BY <1>6, <1>8, <1>18 DEF CountTyped
  <2>1. CASE opens
    <3>1. s = 0
      <4>1. prev = Frames!Stopped
        <5>1. CASE drawn = Frames!None
          <6>1. last = Frames!Stopped
            BY <5>1 DEF DrawnInv, Frames!None
          <6>. QED  BY <6>1 DEF prev
        <5>2. CASE drawn # Frames!None
          BY <2>1, <5>2 DEF opens, newRun, prev
        <5>. QED  BY <5>1, <5>2
      <4>. QED  BY <1>10, <4>1
    <3>2. first' = f /\ kept' = 0 /\ before' = dropped /\ dropped' = dropped + 0
      BY <1>7, <1>11, <2>1, <3>1
    <3>. QED  BY <2>0, <3>2
  <2>2. CASE ~opens
    <3>1. SameRun
      BY <1>12, <1>18, <2>2
    <3>2. PICK g \in Nat : g = drawn.frame /\ last = g /\ f >= g + 1
      BY <1>16, <3>1 DEF DrawnInv
    <3>3. prev = g
      BY <1>12, <2>0, <3>1, <3>2
    <3>4. s = f - g - 1
      BY <1>10, <2>0, <3>2, <3>3 DEF Frames!Stopped
    <3>5. Counted = 1
      BY <1>1 DEF Counted
    <3>6. (g - first) + 1 = (kept + dropped) - before /\ first \in Nat
      BY <3>1, <3>2, <3>5 DEF CountInv, DrawnInv, SameRun
    <3>7. first' = first /\ kept' = kept /\ before' = before /\ dropped' = dropped + s
      BY <1>7, <1>11, <2>2
    <3>. QED  BY <2>0, <3>2, <3>4, <3>6, <3>7
  <2>. QED  BY <2>1, <2>2
<1>21. LadderInv' /\ AimInv'
  BY <1>1 DEF LadderInv, AimInv
<1>. QED  BY <1>13, <1>14, <1>15, <1>19, <1>20, <1>21, TypeJoined

LEMMA RenderKeeps == FrameInv /\ Frames!Render => FrameInv'
<1>. SUFFICES ASSUME FrameInv, Frames!Render
     PROVE  FrameInv'
  OBVIOUS
<1>. USE DEF FrameInv
<1>1. /\ pc = "drawing" /\ pc' = "submitting"
      /\ run' = run /\ aim' = aim /\ left' = left /\ drawn' = drawn
      /\ last' = last /\ repeated' = repeated /\ skipped' = skipped /\ dropped' = dropped
      /\ rung' = rung /\ late' = late /\ onTime' = onTime /\ lateAtRung1' = lateAtRung1
      /\ misses' = misses /\ tripped' = tripped /\ clear' = clear /\ holders' = holders
      /\ first' = first /\ kept' = kept /\ before' = before
  BY DEF Frames!Render, Frames!Pass, Frames!cadenceVars, Frames!ladderVars,
         Frames!watchdogVars, Frames!history
<1>2. PICK t \in Work : /\ age' = (IF Frames!Running THEN age + t ELSE age)
                        /\ age' =< MaxAge /\ took' = t
  BY DEF Frames!Render, Frames!Pass
<1>3. age \in {Frames!Stopped} \cup 0..MaxAge /\ MaxAge \in Nat /\ t \in Nat
  BY Bounds, TypeParts DEF LoopTyped
<1>4. /\ age' \in {Frames!Stopped} \cup 0..MaxAge /\ took' \in Nat
      /\ (Frames!Running' <=> Frames!Running)
  BY <1>2, <1>3 DEF Frames!Running, Frames!Stopped
<1>5. Frames!TypeOK'
  BY <1>1, <1>4, TypeParts, TypeJoined
     DEF LoopTyped, CountTyped, LadderTyped, WatchTyped
<1>6. DrawnInv' /\ LadderInv'
  BY <1>1 DEF DrawnInv, LadderInv
<1>7. (SameRun' <=> SameRun) /\ Counted' = Counted
  BY <1>1, <1>4 DEF SameRun, Counted
<1>8. AimInv' /\ CountInv'
  BY <1>1, <1>7 DEF AimInv, CountInv
<1>. QED  BY <1>5, <1>6, <1>8

\* The watchdog and the ladder, whatever they are told.
LEMMA WatchKeeps ==
  ASSUME WatchTyped, NEW n \in Nat, Frames!ReportFrame(n)
  PROVE  WatchTyped'
<1>1. /\ misses \in Nat /\ tripped \in BOOLEAN /\ clear \in 0..ClearAfter
      /\ ClearAfter \in Nat /\ ClearAfter >= 1
      /\ holders \subseteq {"Held", "Watchdog"}
  BY Bounds DEF WatchTyped
<1>2. CASE n = 0
  <2>1. /\ misses' = 0 /\ tripped' = (tripped /\ clear + 1 < ClearAfter)
        /\ clear' = IF tripped' THEN clear + 1 ELSE 0
        /\ holders' = IF tripped /\ ~tripped' THEN holders \ {"Watchdog"} ELSE holders
    BY <1>2, Zenon DEF Frames!ReportFrame
  <2>2. tripped' \in BOOLEAN
    BY <2>1
  <2>3. clear' \in 0..ClearAfter
    <3>1. CASE tripped'
      <4>1. clear + 1 < ClearAfter
        BY <2>1, <3>1, Zenon
      <4>2. clear' = clear + 1
        BY <2>1, <3>1
      <4>. QED  BY <1>1, <4>1, <4>2
    <3>2. CASE ~tripped'
      BY <1>1, <2>1, <3>2
    <3>. QED  BY <3>1, <3>2
  <2>4. holders' \subseteq {"Held", "Watchdog"} /\ misses' \in Nat
    BY <1>1, <2>1
  <2>. QED  BY <2>2, <2>3, <2>4 DEF WatchTyped
<1>3. CASE n # 0
  <2>1. /\ misses' = misses + n /\ tripped' = (tripped \/ misses' > Threshold)
        /\ holders' = IF ~tripped /\ tripped' THEN holders \cup {"Watchdog"} ELSE holders
        /\ clear' = 0
    BY <1>3, Zenon DEF Frames!ReportFrame
  <2>2. tripped' \in BOOLEAN
    BY <2>1
  <2>3. clear' \in 0..ClearAfter /\ misses' \in Nat
    BY <1>1, <2>1
  <2>4. holders' \subseteq {"Held", "Watchdog"}
    BY <1>1, <2>1
  <2>. QED  BY <2>2, <2>3, <2>4 DEF WatchTyped
<1>. QED  BY <1>2, <1>3

LEMMA RungKeeps ==
  ASSUME LadderTyped, LadderInv, NEW isLate \in BOOLEAN, Frames!UpdateRung(isLate)
  PROVE  LadderTyped' /\ LadderInv'
<1>1. /\ rung \in {"Nominal", "PreviewHalfRate", "LoopsShed"}
      /\ late \in Nat /\ onTime \in 0..RestoreAfter /\ lateAtRung1 \in 0..Rung2After
      /\ RestoreAfter \in Nat /\ RestoreAfter >= 1
      /\ Rung2After \in Nat /\ Rung2After >= 1
  BY Bounds DEF LadderTyped
<1>2. CASE isLate
  <2>. DEFINE down == rung = "Nominal" /\ late + 1 >= Rung1After
              shed == rung = "PreviewHalfRate" /\ lateAtRung1 + 1 >= Rung2After
  <2>1. /\ late' = IF late < Rung1After THEN late + 1 ELSE late
        /\ onTime' = 0
        /\ rung' = IF down THEN "PreviewHalfRate" ELSE IF shed THEN "LoopsShed" ELSE rung
        /\ lateAtRung1' = IF down THEN 0
                          ELSE IF rung = "PreviewHalfRate" THEN lateAtRung1 + 1
                          ELSE lateAtRung1
    BY <1>2, Zenon DEF Frames!UpdateRung
  <2>. HIDE DEF down, shed
  <2>2. rung' \in {"Nominal", "PreviewHalfRate", "LoopsShed"} /\ late' \in Nat
        /\ onTime' \in 0..RestoreAfter
    BY <1>1, <2>1
  <2>3. lateAtRung1' \in 0..Rung2After
        /\ (rung' = "PreviewHalfRate" => lateAtRung1' < Rung2After)
    <3>1. CASE down
      BY <1>1, <2>1, <3>1
    <3>2. CASE ~down /\ rung = "PreviewHalfRate"
      <4>1. lateAtRung1 < Rung2After
        BY <3>2 DEF LadderInv
      <4>2. lateAtRung1' = lateAtRung1 + 1
        BY <2>1, <3>2
      <4>3. ~shed => lateAtRung1 + 1 < Rung2After
        BY <1>1, <3>2 DEF shed
      <4>4. shed => rung' = "LoopsShed"
        BY <2>1, <3>2
      <4>. QED  BY <1>1, <4>1, <4>2, <4>3, <4>4
    <3>3. CASE ~down /\ rung # "PreviewHalfRate"
      <4>1. ~shed
        BY <3>3 DEF shed
      <4>2. lateAtRung1' = lateAtRung1 /\ rung' = rung
        BY <2>1, <3>3, <4>1
      <4>. QED  BY <1>1, <3>3, <4>2
    <3>. QED  BY <3>1, <3>2, <3>3
  <2>. QED  BY <2>2, <2>3 DEF LadderTyped, LadderInv
<1>3. CASE ~isLate
  <2>1. /\ late' = 0
        /\ onTime' = IF onTime < RestoreAfter THEN onTime + 1 ELSE onTime
        /\ rung' = IF onTime + 1 >= RestoreAfter THEN "Nominal" ELSE rung
        /\ lateAtRung1' = IF onTime + 1 >= RestoreAfter THEN 0 ELSE lateAtRung1
    BY <1>3, Zenon DEF Frames!UpdateRung
  <2>2. rung' \in {"Nominal", "PreviewHalfRate", "LoopsShed"} /\ late' \in Nat
        /\ onTime' \in 0..RestoreAfter /\ lateAtRung1' \in 0..Rung2After
    BY <1>1, <2>1
  <2>3. rung' = "PreviewHalfRate" => lateAtRung1' < Rung2After
    BY <1>1, <2>1 DEF LadderInv
  <2>. QED  BY <2>2, <2>3 DEF LadderTyped, LadderInv
<1>. QED  BY <1>2, <1>3

LEMMA SubmitKeeps == FrameInv /\ Frames!Submit => FrameInv'
<1>. SUFFICES ASSUME FrameInv, Frames!Submit
     PROVE  FrameInv'
  OBVIOUS
<1>. USE DEF FrameInv
<1>. DEFINE deadline == drawn # Frames!None
            missed == IF deadline /\ took > Budget
                      THEN Frames!CeilDiv(took - Budget, Budget) ELSE 0
            drops == deadline /\ Frames!Running /\ age >= Frames!Boundary(drawn.frame + 1)
<1>1. /\ pc = "submitting" /\ pc' = "reading" /\ took' = 0
      /\ run' = run /\ age' = age /\ aim' = aim /\ left' = left /\ drawn' = drawn
      /\ last' = last /\ repeated' = repeated /\ skipped' = skipped
      /\ first' = first /\ before' = before
  BY DEF Frames!Submit, Frames!clockVars, Frames!cadenceVars
<1>2. /\ Frames!ReportFrame(missed) /\ Frames!UpdateRung(missed > 0)
      /\ dropped' = dropped + (IF drops THEN 1 ELSE 0)
      /\ kept' = kept + (IF deadline /\ ~drops THEN 1 ELSE 0)
  BY DEF Frames!Submit
<1>3. missed \in Nat
  <2>1. CASE deadline /\ took > Budget
    <3>1. took \in Nat /\ Budget \in Nat /\ Budget >= 1
      BY Bounds, TypeParts DEF LoopTyped
    <3>2. PICK a \in Int : a = (took - Budget) + Budget - 1 /\ Budget * 0 =< a
      BY <2>1, <3>1
    <3>3. a \div Budget \in Int /\ a \div Budget >= 0
      BY <3>1, <3>2, DivBounds, DivAtLeast
    <3>. QED  BY <2>1, <3>2, <3>3 DEF Frames!CeilDiv
  <2>2. CASE ~(deadline /\ took > Budget)
    BY <2>2
  <2>. QED  BY <2>1, <2>2
<1>4. (deadline <=> drawn # Frames!None) /\ (drops => deadline)
  OBVIOUS
<1>. HIDE DEF missed, deadline, drops
<1>5. WatchTyped'
  BY <1>2, <1>3, TypeParts, WatchKeeps
<1>6. LadderTyped' /\ LadderInv'
  <2>1. (missed > 0) \in BOOLEAN
    BY <1>3
  <2>. QED  BY <1>2, <2>1, TypeParts, RungKeeps
<1>7. /\ dropped \in Nat /\ kept \in Nat /\ before \in Nat
      /\ dropped' \in Nat /\ kept' \in Nat
      /\ drawn # Frames!None => kept' + dropped' = (kept + dropped) + 1
  <2>1. dropped \in Nat /\ kept \in Nat /\ before \in Nat
    BY TypeParts DEF CountTyped
  <2>2. CASE drops
    <3>1. dropped' = dropped + 1 /\ kept' = kept + 0
      BY <1>2, <2>2
    <3>. QED  BY <2>1, <3>1
  <2>3. CASE ~drops
    <3>1. dropped' = dropped + 0 /\ kept' = kept + (IF deadline THEN 1 ELSE 0)
      BY <1>2, <2>3
    <3>. QED  BY <1>4, <2>1, <3>1
  <2>. QED  BY <2>2, <2>3
<1>8. LoopTyped' /\ CountTyped'
  BY <1>1, <1>7, TypeParts DEF LoopTyped, CountTyped
<1>9. DrawnInv'
  BY <1>1 DEF DrawnInv
<1>10. (SameRun' <=> SameRun) /\ Counted = 0 /\ Counted' = 1
  BY <1>1 DEF SameRun, Frames!Running, Counted
<1>11. CountInv'
  <2>. SUFFICES ASSUME SameRun
                PROVE  (drawn.frame - first) + 1 = (kept' + dropped') - before
    BY <1>1, <1>10 DEF CountInv
  <2>1. drawn.frame \in Nat /\ first \in Nat /\ drawn # Frames!None
    BY DEF DrawnInv, SameRun
  <2>2. (drawn.frame - first) + 0 = (kept + dropped) - before
    BY <1>10 DEF CountInv
  <2>3. kept' + dropped' = (kept + dropped) + 1
    BY <1>7, <2>1
  <2>0. kept + dropped \in Int /\ kept' + dropped' \in Int
    BY <1>7
  <2>4. PICK x \in Int : x = kept + dropped
    BY <2>0, Zenon
  <2>5. PICK y \in Int : y = kept' + dropped'
    BY <2>0, Zenon
  <2>6. PICK f \in Int : f = drawn.frame - first
    BY <2>1
  <2>7. before \in Nat /\ f + 0 = x - before /\ y = x + 1
    BY <1>7, <2>2, <2>3, <2>4, <2>5, <2>6
  <2>8. f + 1 = y - before
    BY <2>7
  <2>. QED  BY <2>5, <2>6, <2>8
<1>12. AimInv'
  BY <1>1 DEF AimInv
<1>. QED  BY <1>5, <1>6, <1>8, <1>9, <1>11, <1>12, TypeJoined

-----------------------------------------------------------------------------
(* The directives, and the invariant.                                      *)

LEMMA DirectiveKeeps ==
  FrameInv /\ (Frames!StartClock \/ Frames!StopClock \/ Frames!HoldSlate
               \/ Frames!TakeSlateDown \/ UNCHANGED frameVars) => FrameInv'
<1>. SUFFICES ASSUME FrameInv,
                     \/ Frames!StartClock \/ Frames!StopClock \/ Frames!HoldSlate
                     \/ Frames!TakeSlateDown \/ UNCHANGED frameVars
     PROVE  FrameInv'
  OBVIOUS
<1>. USE DEF FrameInv
<1>1. /\ pc' = pc /\ aim' = aim /\ left' = left /\ drawn' = drawn /\ took' = took
      /\ last' = last /\ repeated' = repeated /\ skipped' = skipped /\ dropped' = dropped
      /\ rung' = rung /\ late' = late /\ onTime' = onTime /\ lateAtRung1' = lateAtRung1
      /\ misses' = misses /\ tripped' = tripped /\ clear' = clear
      /\ first' = first /\ kept' = kept /\ before' = before
      /\ \/ holders' = holders \/ holders' = holders \cup {"Held"}
         \/ holders' = holders \ {"Held"}
      /\ \/ run' = run /\ age' = age
         \/ run' = run /\ age' = Frames!Stopped
         \/ run < MaxRuns /\ run' = run + 1 /\ age' = 0
  BY DEF Frames!StartClock, Frames!StopClock, Frames!HoldSlate, Frames!TakeSlateDown,
         Frames!Directive, Frames!clockVars, Frames!cadenceVars, Frames!ladderVars,
         Frames!watchdogVars, Frames!history, frameVars
<1>2. /\ run \in 0..MaxRuns /\ age \in {Frames!Stopped} \cup 0..MaxAge
      /\ drawn.run \in 0..MaxRuns
      /\ MaxRuns \in Nat /\ MaxAge \in Nat /\ drawn.run =< run
      /\ holders \subseteq {"Held", "Watchdog"}
  BY Bounds, TypeParts DEF LoopTyped, WatchTyped, DrawnInv
<1>3. /\ run' \in 0..MaxRuns /\ age' \in {Frames!Stopped} \cup 0..MaxAge
      /\ drawn.run =< run'
  BY <1>1, <1>2
<1>4. holders' \subseteq {"Held", "Watchdog"}
  BY <1>1, <1>2
<1>5. Frames!TypeOK'
  BY <1>1, <1>3, <1>4, TypeParts, TypeJoined
     DEF LoopTyped, CountTyped, LadderTyped, WatchTyped
<1>6. DrawnInv' /\ LadderInv'
  BY <1>1, <1>3 DEF DrawnInv, LadderInv
<1>7. SameRun' => SameRun /\ age' = age
  BY <1>1, <1>2 DEF SameRun, Frames!Running, Frames!Stopped
<1>8. Counted' = Counted
  BY <1>1 DEF Counted
<1>9. Frames!Boundary(drawn.frame + 1)' = Frames!Boundary(drawn.frame + 1)
  BY <1>1 DEF Frames!Boundary, Frames!CeilDiv
<1>10. AimInv' /\ CountInv'
  BY <1>1, <1>7, <1>8, <1>9 DEF AimInv, CountInv
<1>. QED  BY <1>5, <1>6, <1>10

LEMMA FrameInit == Frames!Init => FrameInv
<1>. SUFFICES ASSUME Frames!Init
     PROVE  FrameInv
  OBVIOUS
<1>1. Frames!TypeOK
  <2>1. 0 \in 0..MaxRuns /\ 0 \in 0..RestoreAfter /\ 0 \in 0..Rung2After
        /\ 0 \in 0..ClearAfter /\ 0 \in Nat
    BY Bounds
  <2>2. LoopTyped
    BY <2>1 DEF Frames!Init, Frames!None, LoopTyped
  <2>3. CountTyped
    BY <2>1 DEF Frames!Init, CountTyped
  <2>4. LadderTyped
    BY <2>1 DEF Frames!Init, LadderTyped
  <2>5. WatchTyped
    BY <2>1 DEF Frames!Init, WatchTyped
  <2>. QED  BY <2>2, <2>3, <2>4, <2>5, TypeParts
<1>2. ~SameRun
  BY DEF Frames!Init, SameRun, Frames!Running
<1>3. DrawnInv /\ LadderInv
  BY DEF Frames!Init, Frames!None, DrawnInv, LadderInv
<1>. QED  BY <1>1, <1>2, <1>3 DEF FrameInv, AimInv, CountInv

LEMMA FrameNext == FrameInv /\ (Frames!Next \/ UNCHANGED frameVars) => FrameInv'
BY ReadClockKeeps, AimKeeps, SleepKeeps, WakeKeeps, RenderKeeps, SubmitKeeps,
   DirectiveKeeps
   DEF Frames!Next, Frames!Loop

\* The inductive invariant of clock, loop, cadence and ladder holds for all
\* rates, budgets and delays (tick.rs, clock.rs, render.rs, watchdog.rs).
THEOREM FrameInvariant == MCSpec => []FrameInv
<1>1. MCInit => FrameInv
  BY FrameInit DEF MCInit
<1>2. FrameInv /\ [MCNext]_<<part, vars, frameVars, clipVars>> => FrameInv'
  BY FrameNext DEF MCNext
<1>. QED  BY <1>1, <1>2, PTL DEF MCSpec

\* The loop's variables keep their types; in particular the ladder's and the
\* watchdog's counters stay within their bounds (render.rs, watchdog.rs).
THEOREM FrameTypeCorrect == MCSpec => []Frames!TypeOK
<1>1. FrameInv => Frames!TypeOK
  BY DEF FrameInv
<1>. QED  BY <1>1, FrameInvariant, PTL

\* SPEC 10.2: whatever the rate, and however late the loop wakes and draws,
\* every master frame since the run's first one was submitted in time or is
\* counted dropped, once (tick.rs, Cadence).
THEOREM FramesAreAccounted == MCSpec => []EachFrameAccounted
<1>1. FrameInv => EachFrameAccounted
  <2>. SUFFICES ASSUME FrameInv, pc = "reading", SameRun
                PROVE  drawn.frame - first + 1 = kept + dropped - before
    BY Zenon DEF EachFrameAccounted, Frames!EachFrameAccounted, SameRun
  <2>1. (drawn.frame - first) + 1 = (kept + dropped) - before
    BY DEF FrameInv, CountInv, Counted
  <2>2. kept \in Nat /\ dropped \in Nat /\ before \in Nat
    BY TypeParts DEF FrameInv, CountTyped
  <2>3. (kept + dropped) - before = kept + dropped - before
    BY <2>2
  <2>. QED  BY <2>1, <2>3
<1>. QED  BY <1>1, FrameInvariant, PTL
================================================================================
