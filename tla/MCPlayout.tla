------------------------------ MODULE MCPlayout -------------------------------
(* The engine's real-time threads in one run, three components of them side  *)
(* by side: the frame loop and its watchdog (FrameLoop), a clip's window and *)
(* its decoder (ClipWindow), and the sound device (DeviceAudio).  They share *)
(* no state in the models; a behaviour is about one of them.                 *)
EXTENDS DeviceAudio

CONSTANTS Second, Rate, Budget, Late, Work, Threshold, ClearAfter,
          RestoreAfter, Rung1After, Rung2After, MaxAge, MaxRuns
CONSTANTS Length, HeadCap, Window, Depth, PerFrame, Buffers, Advance

VARIABLES run, age, pc, aim, left, drawn, took, last, repeated, skipped,
          dropped, rung, late, onTime, lateAtRung1, misses, tripped, clear,
          holders, first, kept, before
VARIABLES file, head, ringed, slots, base, worker, pending, stalledAt, view,
          preview, shown, lastPresented, at, budget, inFlight

VARIABLE part  \* the component this behaviour is about

frameVars == <<run, age, pc, aim, left, drawn, took, last, repeated, skipped,
               dropped, rung, late, onTime, lateAtRung1, misses, tripped,
               clear, holders, first, kept, before>>
clipVars == <<file, head, ringed, slots, base, worker, pending, stalledAt,
              view, preview, shown, lastPresented, at, budget, inFlight>>

Frames == INSTANCE FrameLoop
Clip == INSTANCE ClipWindow

ASSUME FramesConstants == Frames!LoopConstants
ASSUME ClipConstants == Clip!ClipConstants

MCInit ==
  /\ part \in {"device", "frames", "clip"}
  /\ Init /\ Frames!Init /\ Clip!Init
  /\ part # "clip" => file = 0 /\ slots[0] = Clip!None

MCNext ==
  \/ part = "device" /\ Next /\ UNCHANGED <<part, frameVars, clipVars>>
  \/ part = "frames" /\ Frames!Next /\ UNCHANGED <<part, vars, clipVars>>
  \/ part = "clip" /\ Clip!Next /\ UNCHANGED <<part, vars, frameVars>>

MCSpec ==
  /\ MCInit /\ [][MCNext]_<<part, vars, frameVars, clipVars>>
  /\ WF_vars(part = "device" /\ DeviceSteps) /\ WF_vars(part = "device" /\ DriverSteps)
  /\ WF_vars(part = "device" /\ Tick)
  /\ WF_frameVars(part = "frames" /\ Frames!Loop)
  /\ WF_clipVars(part = "clip" /\ Clip!Loop) /\ WF_clipVars(part = "clip" /\ Clip!Thread)
  /\ SF_clipVars(part = "clip" /\ Clip!Reclaim)

\* SPEC 10.2: between two ticks every master frame since the run's first one
\* was submitted in time or is counted dropped, and none is counted twice.
EachFrameAccounted == Frames!EachFrameAccounted

\* A stopped show recovers: nothing is late without a clock, so the watchdog
\* lets go of the View and the ladder stands down.
StoppedRecovers == Frames!StoppedRecovers

\* A window that stays where it is settles, whatever the thread was doing when it
\* came there: it fills, if the file has the frames, and if the file ends early, or
\* is gone, the last thread ends and does not cost another one a frame.
WindowSettles == Clip!WindowSettles
===============================================================================
