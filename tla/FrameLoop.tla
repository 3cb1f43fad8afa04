------------------------------ MODULE FrameLoop ------------------------------
(***************************************************************************)
(* The render loop's time (tick.rs, clock.rs) and what it does about being *)
(* late (watchdog.rs, the ladder in render.rs).  The loop sleeps to the    *)
(* master clock's next boundary and draws the frame the clock then names,  *)
(* while directives start and stop the clock.  The cadence counts the      *)
(* master frames that were passed over; a late View moves the ladder and   *)
(* the watchdog, whose slate shares the View with the operator's.          *)
(*                                                                         *)
(* Time is a number of ticks since the clock was started, Second of them   *)
(* to a second; while the clock is stopped only the loop's own grid runs.  *)
(***************************************************************************)
EXTENDS Integers, FiniteSets

CONSTANTS
  Second,       \* ticks in a second (the code's nanoseconds)
  Rate,         \* house_rate
  Budget,       \* frame_budget
  Late,         \* how late a wake may be
  Work,         \* how long a frame's draw may take
  Threshold,    \* the watchdog's, 2 in the code
  ClearAfter,   \* WATCHDOG_CLEAR_AFTER_ON_TIME
  RestoreAfter, \* RESTORE_AFTER_ON_TIME
  Rung1After,   \* RUNG1_AFTER_LATE
  Rung2After,   \* RUNG2_AFTER_LATE
  MaxAge,       \* bound on the time a run lasts
  MaxRuns       \* bound on the clock's runs

LoopConstants ==
  /\ {Second, Rate, Budget, Threshold, ClearAfter, RestoreAfter, Rung1After,
      Rung2After, MaxRuns} \subseteq Nat \ {0}
  /\ Late \subseteq Nat /\ Work \subseteq Nat /\ MaxAge \in Nat
  \* The comment in watchdog.rs: "the tree's own measure".
  /\ ClearAfter = RestoreAfter


VARIABLES
  run,      \* the clock's epoch: the number of the run it was started for
  age,      \* the time since; Stopped while the clock is
  pc,       \* "reading", "aiming", "sleeping", "drawing" or "submitting"
  aim,      \* what the loop sleeps to: the "next" frame, "now" or its "grid"
  left,     \* of the sleep
  drawn,    \* the epoch and frame of the last tick
  took,     \* how long the draw took
  last,     \* Cadence::last
  repeated, skipped, dropped, \* the counters
  rung, late, onTime, lateAtRung1,
  misses, tripped, clear,     \* the watchdog
  holders,  \* fallback_sources
  first,    \* history: the first frame this run drew,
  kept,     \* the frames it submitted in time,
  before    \* and dropped, when it began

clockVars == <<run, age>>
cadenceVars == <<last, repeated, skipped>>
ladderVars == <<rung, late, onTime, lateAtRung1>>
watchdogVars == <<misses, tripped, clear>>
history == <<first, kept, before>>
vars == <<clockVars, pc, aim, left, drawn, took, cadenceVars, dropped,
          ladderVars, watchdogVars, holders, history>>

Stopped == -1
None == [run |-> 0, frame |-> Stopped]

TypeOK ==
  /\ run \in 0..MaxRuns /\ age \in {Stopped} \cup 0..MaxAge
  /\ pc \in {"reading", "aiming", "sleeping", "drawing", "submitting"}
  /\ aim \in {"next", "now", "grid"} /\ left \in Nat
  /\ drawn \in [run : 0..MaxRuns, frame : Nat \cup {Stopped}]
  /\ last \in Nat \cup {Stopped}
  /\ {took, repeated, skipped, dropped, kept, before, misses} \subseteq Nat
  /\ rung \in {"Nominal", "PreviewHalfRate", "LoopsShed"}
  /\ late \in Nat /\ onTime \in 0..RestoreAfter /\ lateAtRung1 \in 0..Rung2After
  /\ tripped \in BOOLEAN /\ clear \in 0..ClearAfter
  /\ holders \subseteq {"Held", "Watchdog"}
  /\ first \in Nat \cup {Stopped}

Init ==
  /\ run = 0 /\ age = Stopped /\ pc = "reading" /\ aim = "grid" /\ left = 0
  /\ drawn = None /\ took = 0
  /\ last = Stopped /\ repeated = 0 /\ skipped = 0 /\ dropped = 0
  /\ rung = "Nominal" /\ late = 0 /\ onTime = 0 /\ lateAtRung1 = 0
  /\ misses = 0 /\ tripped = FALSE /\ clear = 0 /\ holders = {}
  /\ first = Stopped /\ kept = 0 /\ before = 0

-----------------------------------------------------------------------------
Running == age # Stopped
FrameAt(a) == (a * Rate) \div Second
CeilDiv(a, b) == (a + b - 1) \div b

Boundary(f) == CeilDiv(f * Second, Rate)

Larger(a, b) == IF a > b THEN a ELSE b

\* Time passes; the clock's, while it runs.
Pass(t) ==
  /\ age' = IF Running THEN age + t ELSE age
  /\ age' <= MaxAge
  /\ UNCHANGED run

\* The first of two looks at the clock: which frame to sleep to.
ReadClock ==
  /\ pc = "reading" /\ pc' = "aiming"
  /\ aim' = IF ~Running THEN "grid"
            ELSE IF drawn # None /\ drawn.run = run THEN "next" ELSE "now"
  /\ UNCHANGED <<clockVars, left, drawn, took, cadenceVars, dropped, ladderVars,
                 watchdogVars, holders, history>>

\* The second: when that frame begins, by the clock as it is now.
Aim ==
  /\ pc = "aiming" /\ pc' = "sleeping"
  /\ left' \in CASE aim = "now" -> {0}
                 [] aim = "next" /\ Running -> {Larger(Boundary(drawn.frame + 1) - age, 0)}
                 [] OTHER -> 0..Budget
  /\ UNCHANGED <<clockVars, aim, drawn, took, cadenceVars, dropped, ladderVars,
                 watchdogVars, holders, history>>

Sleep ==
  /\ pc = "sleeping" /\ left > 0
  /\ left' = left - 1 /\ Pass(1)
  /\ UNCHANGED <<pc, aim, drawn, took, cadenceVars, dropped, ladderVars,
                 watchdogVars, holders, history>>

\* Mutant: a new epoch between two ticks is not seen.
CadenceAcrossRuns(f) ==
  LET prev == IF f = Stopped \/ f < last THEN Stopped ELSE last
  IN /\ last' = f
     /\ repeated' = repeated + (IF prev # Stopped /\ f = prev THEN 1 ELSE 0)
     /\ skipped' = skipped + (IF prev # Stopped /\ f > prev + 1 THEN f - prev - 1 ELSE 0)
     /\ dropped' = dropped + (skipped' - skipped)

\* Cadence::new_run and Cadence::tick, for the frame read after the wake.
CadenceTick(f) ==
  LET newRun == drawn # None /\ f # Stopped /\ drawn.run # run
      prev == IF newRun \/ f = Stopped \/ f < last THEN Stopped ELSE last
  IN /\ last' = f
     /\ repeated' = repeated + (IF prev # Stopped /\ f = prev THEN 1 ELSE 0)
     /\ skipped' = skipped + (IF prev # Stopped /\ f > prev + 1 THEN f - prev - 1 ELSE 0)
     /\ dropped' = dropped + (skipped' - skipped)

\* The wake, at the time it slept to or later, and the frame it draws.
Wake ==
  /\ pc = "sleeping" /\ left = 0 /\ pc' = "drawing"
  /\ \E l \in Late : Pass(l)
  /\ LET f == IF Running THEN FrameAt(age') ELSE Stopped
         opens == f # Stopped /\ (drawn = None \/ drawn.run # run)
     IN /\ drawn' = IF f = Stopped THEN None ELSE [run |-> run, frame |-> f]
        /\ CadenceTick(f)
        /\ first' = IF opens THEN f ELSE first
        /\ kept' = IF opens THEN 0 ELSE kept
        /\ before' = IF opens THEN dropped ELSE before
  /\ UNCHANGED <<aim, left, took, ladderVars, watchdogVars, holders>>

\* The frame is drawn, on the View and the Preview.
Render ==
  /\ pc = "drawing" /\ pc' = "submitting"
  /\ \E t \in Work : Pass(t) /\ took' = t
  /\ UNCHANGED <<aim, left, drawn, cadenceVars, dropped, ladderVars,
                 watchdogVars, holders, history>>

-----------------------------------------------------------------------------
\* Mutant: an on-time frame is not counted towards the recovery.
WatchdogNeverClears(n) ==
  IF n = 0 THEN misses' = 0 /\ UNCHANGED <<tripped, clear, holders>>
  ELSE /\ misses' = misses + n
       /\ tripped' = (tripped \/ misses' > Threshold)
       /\ holders' = IF ~tripped /\ tripped' THEN holders \cup {"Watchdog"} ELSE holders
       /\ clear' = 0

\* Watchdog::report_frame, of a frame n budgets late.
ReportFrame(n) ==
  IF n = 0
  THEN /\ misses' = 0
       /\ tripped' = (tripped /\ clear + 1 < ClearAfter)
       /\ clear' = IF tripped' THEN clear + 1 ELSE 0
       /\ holders' = IF tripped /\ ~tripped' THEN holders \ {"Watchdog"} ELSE holders
  ELSE /\ misses' = misses + n
       /\ tripped' = (tripped \/ misses' > Threshold)
       /\ holders' = IF ~tripped /\ tripped' THEN holders \cup {"Watchdog"} ELSE holders
       /\ clear' = 0

\* The ladder.  The counters stop where they no longer tell anything apart.
UpdateRung(isLate) ==
  IF isLate
  THEN LET down == rung = "Nominal" /\ late + 1 >= Rung1After
           shed == rung = "PreviewHalfRate" /\ lateAtRung1 + 1 >= Rung2After
       IN /\ late' = IF late < Rung1After THEN late + 1 ELSE late
          /\ onTime' = 0
          /\ rung' = IF down THEN "PreviewHalfRate" ELSE IF shed THEN "LoopsShed" ELSE rung
          /\ lateAtRung1' = IF down THEN 0
                            ELSE IF rung = "PreviewHalfRate" THEN lateAtRung1 + 1
                            ELSE lateAtRung1
  ELSE /\ late' = 0
       /\ onTime' = IF onTime < RestoreAfter THEN onTime + 1 ELSE onTime
       /\ rung' = IF onTime + 1 >= RestoreAfter THEN "Nominal" ELSE rung
       /\ lateAtRung1' = IF onTime + 1 >= RestoreAfter THEN 0 ELSE lateAtRung1

\* The end of the tick.  Lateness is the draw's, against the budget, and only
\* with a deadline; a drop is a submission past the next boundary of the clock.
Submit ==
  /\ pc = "submitting" /\ pc' = "reading"
  /\ LET deadline == drawn # None
         missed == IF deadline /\ took > Budget THEN CeilDiv(took - Budget, Budget) ELSE 0
         drops == deadline /\ Running /\ age >= Boundary(drawn.frame + 1)
     IN /\ ReportFrame(missed)
        /\ UpdateRung(missed > 0)
        /\ dropped' = dropped + (IF drops THEN 1 ELSE 0)
        /\ kept' = kept + (IF deadline /\ ~drops THEN 1 ELSE 0)
  /\ took' = 0
  /\ UNCHANGED <<clockVars, aim, left, drawn, cadenceVars, first, before>>

-----------------------------------------------------------------------------
(* The directives, between any two steps of the loop.                      *)

Directive == UNCHANGED <<pc, aim, left, drawn, took, cadenceVars, dropped,
                         ladderVars, watchdogVars, history>>

StartClock ==
  /\ ~Running /\ run < MaxRuns
  /\ run' = run + 1 /\ age' = 0
  /\ UNCHANGED holders /\ Directive

StopClock ==
  /\ Running
  /\ age' = Stopped
  /\ UNCHANGED <<run, holders>> /\ Directive

\* view.fallback, or a View that fails to draw; a take lets go of it.
HoldSlate == holders' = holders \cup {"Held"} /\ UNCHANGED clockVars /\ Directive
TakeSlateDown == holders' = holders \ {"Held"} /\ UNCHANGED clockVars /\ Directive

Loop == ReadClock \/ Aim \/ Sleep \/ Wake \/ Render \/ Submit
Next == Loop \/ StartClock \/ StopClock \/ HoldSlate \/ TakeSlateDown

Spec == Init /\ [][Next]_vars /\ WF_vars(Loop)

-----------------------------------------------------------------------------
\* SPEC 10.2: between two ticks every master frame since the run's first one
\* was submitted in time or is counted dropped, and none is counted twice.
EachFrameAccounted ==
  pc = "reading" /\ drawn # None /\ drawn.run = run /\ Running
    => drawn.frame - first + 1 = kept + dropped - before

\* A stopped show recovers: nothing is late without a clock, so the watchdog
\* lets go of the View and the ladder stands down.
StoppedRecovers ==
  <>[]~Running => <>[]("Watchdog" \notin holders /\ rung = "Nominal")
=============================================================================
