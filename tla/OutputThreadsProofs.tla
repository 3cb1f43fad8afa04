-------------------------- MODULE OutputThreadsProofs --------------------------
(***************************************************************************)
(* The proofs about the two threads that end late: a take's (RecordTake)   *)
(* and a stream's publisher (Publisher).                                   *)
(***************************************************************************)
EXTENDS MCOutputThreads, SequenceTheorems, FiniteSetTheorems, TLAPS

(***************************************************************************)
(* What RecordTake promises, proved for any number of takes.  The argument *)
(* follows one take through its owners: the session, in which its thread   *)
(* has been told nothing; a stop that waits for it, in which it has been   *)
(* told to stop and nothing else; and on its own, told to end.  A take     *)
(* that no earlier thread was left to run in has the marker store to       *)
(* itself while it has an owner.                                           *)
(***************************************************************************)

\* In the session: its thread runs or has failed, and was told nothing.
SessionInv ==
  session # 0 =>
    /\ state = "recording" /\ handler.take = 0
    /\ thread[session] \in {"running", "failed"}
    /\ control[session] = <<>>
    /\ session \in alone => markers = chapters

\* Waited for: it was told to stop and no more.  What it writes are the
\* chapters it is owed, if the store is its own.
HandlerInv ==
  handler.take # 0 =>
    /\ control[handler.take] \in {<<>>, <<"stop">>}
    /\ thread[handler.take] = "ok" => file[handler.take] = "finished"
    /\ handler.take \in alone =>
         /\ thread[handler.take] = "running" => markers = owed[handler.take]
         /\ file[handler.take] = "finished" =>
              sidecar[handler.take] = owed[handler.take]

\* No other thread is alive while a take of `alone` has an owner.
AloneInv ==
  \A t \in alone : session = t \/ handler.take = t =>
    \A u \in Take : u # t => ~Alive(u)

\* A take not yet started has left nothing behind.
UnbornInv ==
  \A t \in Take : t > takes =>
    /\ thread[t] = "unborn" /\ file[t] = "none" /\ control[t] = <<>>
    /\ t \notin alone

\* A finished file stays as it is: its thread encodes no more.
FileInv ==
  \A t \in Take : file[t] = "finished" =>
    thread[t] \in {"clearing", "ok"} /\ sidecar[t] # NoSidecar

TakeInv ==
  /\ SessionInv /\ HandlerInv /\ AloneInv /\ UnbornInv /\ FileInv
  /\ AckedIsFinished /\ ChaptersKept /\ NoOrphanTake

\* Who records has started a take.
StateInv == state = "recording" => takes # 0

IInv == TypeOK /\ StateInv /\ TakeInv

-----------------------------------------------------------------------------
(* The frame: steps that move no take.                                     *)

LEMMA Begins == ASSUME Init PROVE IInv
<1>1. TypeOK
  <2>1. /\ NoSidecar \in Seq(0..MaxTake)
        /\ <<>> \in Seq(Take) /\ Len(<<>>) = 0
        /\ <<>> \in Seq({"stop", "abandon"})
        /\ 0 \in 0..QueueBound /\ 0 \in 0..MaxTake /\ 0 \in 0..0 /\ 0 =< MaxMarker
    BY MaxTakeType, MaxMarkerType, QueueBoundType DEF NoSidecar
  <2>2. /\ thread \in [Take -> {"unborn", "running", "clearing", "ok", "failed"}]
        /\ file \in [Take -> {"none", "delta", "keyframe", "finished"}]
        /\ owed \in [Take -> Seq(Take)] /\ control \in [Take -> Seq({"stop", "abandon"})]
        /\ sidecar \in [Take -> Seq(0..MaxTake)] /\ queue \in [Take -> 0..QueueBound]
    BY <2>1 DEF Init
  <2> QED
    BY <2>1, <2>2 DEF Init, TypeOK, Ready, Between
<1>2. TakeInv
  BY DEF Init, TakeInv, SessionInv, HandlerInv, AloneInv, UnbornInv, FileInv,
         AckedIsFinished, ChaptersKept, NoOrphanTake, Take, Ready
<1>3. StateInv
  BY DEF Init, StateInv
<1> QED
  BY <1>1, <1>2, <1>3 DEF IInv

LEMMA OwnersAreTakes ==
  ASSUME TypeOK
  PROVE  /\ session # 0 => session \in Take
         /\ handler.take # 0 => handler.take \in Take
         /\ tick.take # 0 => tick.take \in Take
         /\ takes \in Nat
<1>1. takes \in 0..MaxTake /\ session \in 0..takes
  BY DEF TypeOK
<1>2. handler.take = 0 \/ handler.take \in 0..takes
  BY DEF TypeOK, Ready
<1>3. tick.take = 0 \/ tick.take \in 0..takes
  BY DEF TypeOK, Between
<1> QED
  BY <1>1, <1>2, <1>3, MaxTakeType DEF Take

\* A step of the directives or the loop that leaves takes, files and threads
\* alone, and the store to a take being ended.
LEMMA NoTakeMoves ==
  ASSUME TakeInv,
         UNCHANGED <<state, session, takes, thread, control, file, sidecar, owed,
                     alone, acked>>,
         handler'.take = handler.take,
         session # 0 /\ markers = chapters => markers' = chapters',
         handler.take # 0 => markers' = markers
  PROVE  TakeInv'
<1>1. SessionInv'
  BY DEF TakeInv, SessionInv
<1>2. HandlerInv'
  BY DEF TakeInv, HandlerInv
<1>3. AloneInv'
  BY DEF TakeInv, AloneInv, Alive
<1>4. UnbornInv' /\ FileInv'
  BY DEF TakeInv, UnbornInv, FileInv
<1>5. AckedIsFinished' /\ ChaptersKept'
  BY DEF TakeInv, AckedIsFinished, ChaptersKept
<1>6. NoOrphanTake'
  BY DEF TakeInv, NoOrphanTake
<1> QED
  BY <1>1, <1>2, <1>3, <1>4, <1>5, <1>6 DEF TakeInv

\* A thread that is alive is told something; nobody else hears of it.
LEMMA Told ==
  ASSUME TypeOK, NEW t \in Take, NEW message \in {"stop", "abandon"}, Tell(t, message)
  PROVE  /\ control' \in [Take -> Seq({"stop", "abandon"})]
         /\ \A u \in Take : u # t => control'[u] = control[u]
         /\ ~Alive(t) => control'[t] = control[t]
         /\ Alive(t) => control'[t] = Append(control[t], message)
         /\ Alive(t) => control'[t] # <<>>
<1>1. control \in [Take -> Seq({"stop", "abandon"})] /\ control[t] \in Seq({"stop", "abandon"})
  BY DEF TypeOK
<1>2. Append(control[t], message) \in Seq({"stop", "abandon"})
  BY <1>1
<1>3. Append(control[t], message) # <<>>
  BY <1>1, AppendProperties
<1>4. CASE Alive(t)
  <2>1. control' = [control EXCEPT ![t] = Append(control[t], message)]
    BY <1>4 DEF Tell
  <2>2. control' \in [Take -> Seq({"stop", "abandon"})]
    BY <1>1, <1>2, <2>1
  <2>3. /\ control'[t] = Append(control[t], message)
        /\ \A u \in Take : u # t => control'[u] = control[u]
    BY <1>1, <2>1
  <2> QED
    BY <1>3, <1>4, <2>2, <2>3
<1>5. CASE ~Alive(t)
  BY <1>1, <1>5 DEF Tell
<1> QED
  BY <1>4, <1>5

-----------------------------------------------------------------------------
(* The directives.                                                         *)

\* What a take needs of a step that neither begins nor ends one.
LEMMA DirectiveKeeps ==
  ASSUME IInv,
         ShowStart \/ ShowLoad \/ RecordStartRefused \/ MarkerAdd \/ ShowStopQuiesces
  PROVE  TakeInv'
<1>1. CASE ShowStart
  BY <1>1, NoTakeMoves DEF IInv, ShowStart, threadVars, historyVars
<1>2. CASE ShowLoad
  BY <1>2, NoTakeMoves DEF IInv, ShowLoad, OnMain, Ready, Emptied, stateVars, threadVars
<1>3. CASE RecordStartRefused
  BY <1>3, NoTakeMoves
  DEF IInv, RecordStartRefused, OnMain, Ready, Emptied, stateVars, threadVars
<1>4. CASE MarkerAdd
  BY <1>4, NoTakeMoves DEF IInv, MarkerAdd, OnMain, Ready, stateVars, threadVars
<1>5. CASE ShowStopQuiesces
  BY <1>5, NoTakeMoves
  DEF IInv, ShowStopQuiesces, OnMain, Ready, stateVars, threadVars, historyVars
<1> QED
  BY <1>1, <1>2, <1>3, <1>4, <1>5

LEMMA RecordStartKeeps == ASSUME IInv, RecordStart PROVE TakeInv'
<1> DEFINE n == takes + 1
<1>0. /\ session = 0 /\ handler = Ready /\ handler.take = 0 /\ n \in Take
      /\ takes \in Nat
  BY MaxTakeType DEF IInv, TypeOK, TakeInv, SessionInv, RecordStart, OnMain, Ready, Take
<1>1. /\ takes' = n /\ session' = n /\ state' = "recording"
      /\ thread' = [thread EXCEPT ![n] = "running"]
      /\ alone' = IF \E t \in Take : Alive(t) THEN alone ELSE alone \union {n}
      /\ markers' = <<>> /\ chapters' = <<>>
      /\ UNCHANGED <<handler, control, file, sidecar, owed, acked>>
  BY DEF RecordStart, Emptied
<1>2. thread \in [Take -> {"unborn", "running", "clearing", "ok", "failed"}]
      /\ acked \subseteq Take
  BY DEF IInv, TypeOK
<1>3. thread[n] = "unborn" /\ file[n] = "none" /\ control[n] = <<>> /\ n \notin alone
  BY <1>0 DEF IInv, TakeInv, UnbornInv
<1>4. /\ thread'[n] = "running"
      /\ \A u \in Take : u # n => thread'[u] = thread[u]
  BY <1>0, <1>1, <1>2
<1> HIDE DEF n
<1>a. n # 0
  BY <1>0 DEF Take
<1>5. SessionInv'
  BY <1>0, <1>1, <1>3, <1>4 DEF SessionInv
<1>6. HandlerInv'
  BY <1>0, <1>1 DEF HandlerInv
<1>7. AloneInv'
  <2> SUFFICES ASSUME NEW t \in alone', session' = t \/ handler'.take = t,
                      NEW u \in Take, u # t
               PROVE  ~Alive(u)'
    BY DEF AloneInv
  <2>1. t # 0
    BY <1>a, <1>1 DEF IInv, TypeOK, Take
  <2>2. t = n /\ t \notin alone
    BY <1>0, <1>1, <1>3, <2>1
  <2>3. ~Alive(u)
    BY <1>1, <2>2
  <2> QED
    BY <1>4, <2>2, <2>3 DEF Alive
<1>8. UnbornInv'
  <2> SUFFICES ASSUME NEW t \in Take, t > takes'
               PROVE  /\ thread'[t] = "unborn" /\ file'[t] = "none" /\ control'[t] = <<>>
                      /\ t \notin alone'
    BY DEF UnbornInv
  <2>1. t > takes /\ t # n
    BY <1>0, <1>1 DEF n, Take
  <2> QED
    BY <1>1, <1>4, <2>1 DEF IInv, TakeInv, UnbornInv
<1>9. FileInv'
  BY <1>1, <1>3, <1>4 DEF IInv, TakeInv, FileInv
<1>10. AckedIsFinished'
  BY <1>1 DEF IInv, TakeInv, AckedIsFinished
<1>11. ChaptersKept'
  BY <1>1, <1>3, <1>2 DEF IInv, TakeInv, ChaptersKept, AckedIsFinished
<1>12. NoOrphanTake'
  BY <1>0, <1>1, <1>4 DEF IInv, TakeInv, NoOrphanTake, Take
<1> QED
  BY <1>5, <1>6, <1>7, <1>8, <1>9, <1>10, <1>11, <1>12 DEF TakeInv

\* A session is taken from the state by a stop that waits for its thread.
LEMMA TakeSessionKeeps ==
  ASSUME IInv, NEW kind \in {"stop", "quiesce"}, session # 0, TakeSession(kind),
         UNCHANGED <<thread, file, sidecar>>
  PROVE  TakeInv'
<1>0. /\ session' = 0 /\ handler'.take = session /\ Tell(session, "stop")
      /\ owed' = [owed EXCEPT ![session] = chapters]
      /\ UNCHANGED <<state, takes, markers, alone, acked>>
  BY DEF TakeSession
<1>1. /\ session \in Take /\ handler.take = 0 /\ takes \in Nat /\ session =< takes
      /\ thread[session] \in {"running", "failed"} /\ control[session] = <<>>
      /\ session \in alone => markers = chapters
      /\ owed \in [Take -> Seq(Take)]
  BY MaxTakeType DEF IInv, TypeOK, TakeInv, SessionInv, Take
<1>2. /\ \A u \in Take : u # session => control'[u] = control[u]
      /\ control'[session] \in {<<>>, <<"stop">>}
  <2>1. /\ \A u \in Take : u # session => control'[u] = control[u]
        /\ ~Alive(session) => control'[session] = control[session]
        /\ Alive(session) => control'[session] = Append(control[session], "stop")
    BY <1>0, <1>1, Told DEF IInv
  <2>2. Append(<<>>, "stop") = <<"stop">>
    OBVIOUS
  <2> QED
    BY <1>1, <2>1, <2>2
<1>3. owed'[session] = chapters /\ \A u \in Take : u # session => owed'[u] = owed[u]
  BY <1>0, <1>1
<1>4. file[session] # "finished"
  BY <1>1 DEF IInv, TakeInv, FileInv
<1>5. SessionInv'
  BY <1>0 DEF SessionInv
<1>6. HandlerInv'
  BY <1>0, <1>1, <1>2, <1>3, <1>4 DEF HandlerInv
<1>7. AloneInv'
  <2> SUFFICES ASSUME NEW t \in alone, session' = t \/ handler'.take = t,
                      NEW u \in Take, u # t
               PROVE  ~Alive(u)'
    BY <1>0 DEF AloneInv
  <2>1. t = session
    BY <1>0, <1>1 DEF IInv, TypeOK, Take
  <2> QED
    BY <2>1 DEF IInv, TakeInv, AloneInv, Alive
<1>8. UnbornInv'
  <2> SUFFICES ASSUME NEW t \in Take, t > takes
               PROVE  /\ thread[t] = "unborn" /\ file[t] = "none" /\ control'[t] = <<>>
                      /\ t \notin alone
    BY <1>0 DEF UnbornInv
  <2>1. t # session
    BY <1>1 DEF Take
  <2> QED
    BY <1>2, <2>1 DEF IInv, TakeInv, UnbornInv
<1>9. FileInv' /\ AckedIsFinished'
  BY <1>0 DEF IInv, TakeInv, FileInv, AckedIsFinished
<1>10. ChaptersKept'
  <2> SUFFICES ASSUME NEW t \in acked \intersect alone PROVE sidecar[t] = owed'[t]
    BY <1>0 DEF ChaptersKept
  <2>1. file[t] = "finished" /\ t \in Take /\ sidecar[t] = owed[t]
    BY DEF IInv, TypeOK, TakeInv, AckedIsFinished, ChaptersKept
  <2> QED
    BY <1>3, <1>4, <2>1
<1>11. NoOrphanTake'
  BY <1>0, <1>1, <1>2 DEF IInv, TakeInv, NoOrphanTake, Take
<1> QED
  BY <1>5, <1>6, <1>7, <1>8, <1>9, <1>10, <1>11 DEF TakeInv

\* A session given up, its thread told to abandon the take.
LEMMA SessionGivenUp ==
  ASSUME IInv, session # 0, session' = 0, Tell(session, "abandon"),
         UNCHANGED <<takes, handler, thread, file, sidecar, owed, alone, acked>>
  PROVE  TakeInv'
<1>1. /\ session \in Take /\ handler.take = 0 /\ takes \in Nat /\ session =< takes
      /\ thread[session] \in {"running", "failed"}
  BY MaxTakeType DEF IInv, TypeOK, TakeInv, SessionInv, Take
<1>2. /\ \A u \in Take : u # session => control'[u] = control[u]
      /\ Alive(session) => control'[session] # <<>>
  BY <1>1, Told DEF IInv
<1>3. SessionInv' /\ HandlerInv'
  BY <1>1 DEF SessionInv, HandlerInv
<1>4. AloneInv'
  BY <1>1 DEF IInv, TakeInv, AloneInv, Alive, TypeOK, Take
<1>5. UnbornInv'
  <2> SUFFICES ASSUME NEW t \in Take, t > takes
               PROVE  /\ thread[t] = "unborn" /\ file[t] = "none" /\ control'[t] = <<>>
                      /\ t \notin alone
    BY DEF UnbornInv
  <2>1. t # session
    BY <1>1 DEF Take
  <2> QED
    BY <1>2, <2>1 DEF IInv, TakeInv, UnbornInv
<1>6. FileInv' /\ AckedIsFinished' /\ ChaptersKept'
  BY DEF IInv, TakeInv, FileInv, AckedIsFinished, ChaptersKept
<1>7. NoOrphanTake'
  BY <1>1, <1>2 DEF IInv, TakeInv, NoOrphanTake, Take, Alive
<1> QED
  BY <1>3, <1>4, <1>5, <1>6, <1>7 DEF TakeInv

\* With no session and nobody waited for, the state may turn idle.
LEMMA TurnsIdle ==
  ASSUME IInv, session = 0, handler.take = 0,
         UNCHANGED <<session, takes, thread, control, file, sidecar, owed, alone, acked>>,
         handler'.take = 0
  PROVE  TakeInv'
<1>1. SessionInv' /\ HandlerInv'
  BY DEF SessionInv, HandlerInv
<1>2. AloneInv' /\ UnbornInv' /\ FileInv'
  BY DEF IInv, TakeInv, AloneInv, Alive, UnbornInv, FileInv
<1>3. AckedIsFinished' /\ ChaptersKept' /\ NoOrphanTake'
  BY DEF IInv, TakeInv, AckedIsFinished, ChaptersKept, NoOrphanTake
<1> QED
  BY <1>1, <1>2, <1>3 DEF TakeInv

LEMMA RecordStopKeeps == ASSUME IInv, RecordStop PROVE TakeInv'
<1>0. handler.take = 0 /\ UNCHANGED <<thread, file, sidecar>>
  BY DEF RecordStop, OnMain, Ready
<1>1. CASE session # 0 /\ TakeSession("stop")
  BY <1>0, <1>1, TakeSessionKeeps
<1>2. CASE session = 0 /\ UNCHANGED <<session, takes, handler, control, historyVars>>
  BY <1>0, <1>2, TurnsIdle DEF historyVars
<1> QED
  BY <1>1, <1>2 DEF RecordStop

LEMMA ShowStopKeeps == ASSUME IInv, ShowStop PROVE TakeInv'
<1>1. session = 0
  BY DEF IInv, TakeInv, SessionInv, ShowStop
<1>2. /\ handler.take = 0
      /\ UNCHANGED <<session, takes, handler, threadVars, historyVars>>
  BY DEF ShowStop, OnMain, Ready
<1> QED
  BY <1>1, <1>2, TurnsIdle DEF threadVars, historyVars

LEMMA ShowStopForcedKeeps == ASSUME IInv, ShowStopForced PROVE TakeInv'
BY SessionGivenUp DEF ShowStopForced

LEMMA QuiesceKeeps == ASSUME IInv, Quiesce PROVE TakeInv'
<1>0. handler.take = 0 /\ UNCHANGED <<thread, file, sidecar>>
  BY DEF Quiesce
<1>1. CASE session # 0 /\ TakeSession("quiesce")
  BY <1>0, <1>1, TakeSessionKeeps
<1>2. CASE session = 0 /\ handler' = Ready
           /\ UNCHANGED <<session, takes, control, owed, alone, acked>>
  BY <1>0, <1>2, TurnsIdle DEF Ready
<1> QED
  BY <1>1, <1>2 DEF Quiesce

\* An acknowledged take is the one waited for, finished with what it is owed.
LEMMA ReportedKeeps == ASSUME IInv, Reported PROVE TakeInv'
<1> DEFINE t == handler.take
<1>0. /\ t # 0 /\ thread[t] \in {"ok", "failed"} /\ handler'.take = 0
      /\ acked' = IF thread[t] = "ok" THEN acked \union {t} ELSE acked
      /\ UNCHANGED <<session, takes, thread, control, file, sidecar, owed, alone>>
  BY DEF Reported, Ended, Ready, threadVars
<1>1. t \in Take /\ session = 0
  BY <1>0, MaxTakeType DEF IInv, TypeOK, Ready, TakeInv, SessionInv, Take
<1>2. /\ thread[t] = "ok" => file[t] = "finished"
      /\ t \in alone /\ file[t] = "finished" => sidecar[t] = owed[t]
  BY <1>0 DEF IInv, TakeInv, HandlerInv
<1>3. file[t] = "finished" => sidecar[t] # NoSidecar
  BY <1>1 DEF IInv, TakeInv, FileInv
<1>4. thread[t] # "running"
  BY <1>0
<1> HIDE DEF t
<1>5. SessionInv' /\ HandlerInv'
  BY <1>0, <1>1 DEF SessionInv, HandlerInv
<1>6. AloneInv' /\ UnbornInv' /\ FileInv'
  BY <1>0, <1>1 DEF IInv, TakeInv, AloneInv, Alive, UnbornInv, FileInv, TypeOK, Take
<1>7. AckedIsFinished'
  BY <1>0, <1>2, <1>3 DEF IInv, TakeInv, AckedIsFinished
<1>8. ChaptersKept'
  BY <1>0, <1>2 DEF IInv, TakeInv, ChaptersKept
<1>9. NoOrphanTake'
  BY <1>0, <1>1, <1>4 DEF IInv, TakeInv, NoOrphanTake, Take, t
<1> QED
  BY <1>5, <1>6, <1>7, <1>8, <1>9 DEF TakeInv

\* A take left to itself has been told to give up, if it is there to hear it.
LEMMA TimedOutKeeps == ASSUME IInv, TimedOut PROVE TakeInv'
<1> DEFINE t == handler.take
<1>0. /\ t # 0 /\ handler'.take = 0 /\ Tell(t, "abandon")
      /\ UNCHANGED <<session, takes, thread, file, sidecar, owed, alone, acked>>
  BY DEF TimedOut, Ended, Ready, historyVars
<1>1. /\ t \in Take /\ session = 0 /\ takes \in Nat /\ t =< takes
  BY <1>0, MaxTakeType DEF IInv, TypeOK, Ready, TakeInv, SessionInv, Take
<1>2. /\ \A u \in Take : u # t => control'[u] = control[u]
      /\ Alive(t) => control'[t] # <<>>
  BY <1>0, <1>1, Told DEF IInv
<1>3. SessionInv' /\ HandlerInv'
  BY <1>0, <1>1 DEF SessionInv, HandlerInv
<1>4. AloneInv'
  <2>1. \A u \in alone : u # 0
    BY DEF IInv, TypeOK, Take
  <2> QED
    BY <1>0, <1>1, <2>1 DEF AloneInv
<1>5. UnbornInv'
  <2> SUFFICES ASSUME NEW u \in Take, u > takes
               PROVE  /\ thread[u] = "unborn" /\ file[u] = "none" /\ control'[u] = <<>>
                      /\ u \notin alone
    BY <1>0 DEF UnbornInv
  <2>1. u # t
    BY <1>1 DEF Take
  <2> QED
    BY <1>2, <2>1 DEF IInv, TakeInv, UnbornInv
<1>6. FileInv' /\ AckedIsFinished' /\ ChaptersKept'
  BY <1>0 DEF IInv, TakeInv, FileInv, AckedIsFinished, ChaptersKept
<1>7. NoOrphanTake'
  BY <1>0, <1>1, <1>2 DEF IInv, TakeInv, NoOrphanTake, Take, Alive
<1> QED
  BY <1>3, <1>4, <1>5, <1>6, <1>7 DEF TakeInv

-----------------------------------------------------------------------------
(* The render loop.                                                        *)

\* Only a lost chain touches a take: it gives the session up.
LEMMA LoopKeeps == ASSUME IInv, Loop PROVE TakeInv'
<1>1. CASE TickBegins \/ TickEnds \/ ReadBack
  BY <1>1, NoTakeMoves DEF IInv, TickBegins, TickEnds, ReadBack, stateVars, historyVars, threadVars
<1>2. CASE TickDraws
  <2>0. UNCHANGED <<markers, handler, thread, file, sidecar, historyVars>>
    BY <1>2 DEF TickDraws
  <2>1. CASE UNCHANGED <<stateVars, control>>
    BY <2>0, <2>1, NoTakeMoves DEF IInv, stateVars, historyVars
  <2>2. CASE ChainLost /\ session # 0
    BY <2>0, <2>2, SessionGivenUp DEF ChainLost, historyVars
  <2>3. CASE ChainLost /\ session = 0
    <3>1. /\ session' = session /\ state' = "idle"
          /\ UNCHANGED <<takes, control>>
      BY <2>3 DEF ChainLost
    <3>2. SessionInv'
      BY <2>3, <3>1 DEF SessionInv
    <3>3. HandlerInv' /\ AloneInv' /\ UnbornInv' /\ FileInv'
      BY <2>0, <3>1 DEF IInv, TakeInv, HandlerInv, AloneInv, Alive, UnbornInv, FileInv,
                        historyVars
    <3>4. AckedIsFinished' /\ ChaptersKept' /\ NoOrphanTake'
      BY <2>0, <3>1 DEF IInv, TakeInv, AckedIsFinished, ChaptersKept, NoOrphanTake,
                        historyVars
    <3> QED
      BY <3>2, <3>3, <3>4 DEF TakeInv
  <2> QED
    BY <1>2, <2>1, <2>2, <2>3 DEF TickDraws
<1> QED
  BY <1>1, <1>2 DEF Loop

-----------------------------------------------------------------------------
(* A record thread.                                                        *)

\* A thread reports and is gone.  If it emptied the store, it was no session's;
\* if it was waited for and reports success, its file is finished.
LEMMA ExitKeeps ==
  ASSUME IInv, NEW t \in Take, NEW report \in {"ok", "failed"}, Exits(t, report), Alive(t),
         UNCHANGED <<state, session, takes, handler, file, sidecar, chapters, owed,
                     alone, acked>>,
         markers' = markers \/ session # t,
         report = "ok" => session # t /\ (handler.take # t \/ file[t] = "finished"),
         report = "failed" => file[t] # "finished"
  PROVE  TakeInv'
<1>1. /\ thread'[t] = report /\ control'[t] = <<>>
      /\ \A u \in Take : u # t => thread'[u] = thread[u] /\ control'[u] = control[u]
  BY DEF Exits, IInv, TypeOK
<1>2. thread[t] \in {"running", "clearing"}
  BY DEF Alive
<1>3. /\ session # 0 => session \in Take
      /\ handler.take # 0 => handler.take \in Take
      /\ takes \in Nat
  BY OwnersAreTakes DEF IInv
<1>4. SessionInv'
  <2> SUFFICES ASSUME session # 0
               PROVE  /\ state = "recording" /\ handler.take = 0
                      /\ thread'[session] \in {"running", "failed"}
                      /\ control'[session] = <<>>
                      /\ session \in alone => markers' = chapters
    BY DEF SessionInv
  <2>1. /\ state = "recording" /\ handler.take = 0
        /\ thread[session] \in {"running", "failed"} /\ control[session] = <<>>
        /\ session \in alone => markers = chapters
    BY DEF IInv, TakeInv, SessionInv
  <2>2. session \in alone /\ session # t => FALSE
    BY <1>3 DEF IInv, TakeInv, AloneInv
  <2> QED
    BY <1>1, <1>3, <2>1, <2>2
<1>5. HandlerInv'
  <2> DEFINE h == handler.take
  <2> SUFFICES ASSUME h # 0
               PROVE  /\ control'[h] \in {<<>>, <<"stop">>}
                      /\ thread'[h] = "ok" => file[h] = "finished"
                      /\ h \in alone =>
                           /\ thread'[h] = "running" => markers' = owed[h]
                           /\ file[h] = "finished" => sidecar[h] = owed[h]
    BY DEF HandlerInv
  <2>1. /\ control[h] \in {<<>>, <<"stop">>}
        /\ thread[h] = "ok" => file[h] = "finished"
        /\ h \in alone /\ file[h] = "finished" => sidecar[h] = owed[h]
    BY DEF IInv, TakeInv, HandlerInv
  <2>2. h \in alone => h = t
    BY <1>3 DEF IInv, TakeInv, AloneInv
  <2> QED
    BY <1>1, <1>3, <2>1, <2>2
<1>6. AloneInv'
  BY <1>1, <1>2 DEF IInv, TakeInv, AloneInv, Alive
<1>7. UnbornInv'
  BY <1>1, <1>2, <1>3 DEF IInv, TakeInv, UnbornInv
<1>8. FileInv'
  BY <1>1 DEF IInv, TakeInv, FileInv
<1>9. AckedIsFinished' /\ ChaptersKept'
  BY DEF IInv, TakeInv, AckedIsFinished, ChaptersKept
<1>10. NoOrphanTake'
  BY <1>1 DEF IInv, TakeInv, NoOrphanTake
<1> QED
  BY <1>4, <1>5, <1>6, <1>7, <1>8, <1>9, <1>10 DEF TakeInv

\* A thread that is told to abandon its take is nobody's any more.
LEMMA AbandonedIsNobodys ==
  ASSUME IInv, NEW t \in Take, control[t] # <<>>, Head(control[t]) = "abandon"
  PROVE  session # t /\ handler.take # t
<1>1. t # 0
  BY DEF Take
<1>2. session # t
  BY <1>1 DEF IInv, TakeInv, SessionInv
<1>3. control[t] # <<"stop">>
  <2>1. Head(<<"stop">>) = "stop"
    OBVIOUS
  <2> QED
    BY <2>1
<1>4. handler.take # t
  BY <1>1, <1>3 DEF IInv, TakeInv, HandlerInv
<1> QED
  BY <1>2, <1>4

\* What the thread writes while it runs is not a finished file's.
LEMMA EncodeKeeps == ASSUME IInv, NEW t \in Take, Encode(t) PROVE TakeInv'
<1>0. /\ thread[t] = "running" /\ file[t] # "finished"
      /\ UNCHANGED <<state, session, takes, markers, handler, sidecar, chapters, owed,
                     alone, acked>>
  BY DEF Encode, stateVars, historyVars, IInv, TakeInv, FileInv
<1>1. CASE Exits(t, "failed") /\ UNCHANGED file
  BY <1>0, <1>1, ExitKeeps DEF Alive
<1>2. CASE /\ \E units \in {"none", "delta", "keyframe"} :
                file' = [file EXCEPT ![t] =
                  IF units = "none" \/ @ = "keyframe" THEN @ ELSE units]
           /\ UNCHANGED <<thread, control>>
  <2>1. /\ file'[t] # "finished"
        /\ \A u \in Take : u # t => file'[u] = file[u]
    BY <1>0, <1>2 DEF IInv, TypeOK
  <2>2. SessionInv' /\ AloneInv' /\ NoOrphanTake'
    BY <1>0, <1>2 DEF IInv, TakeInv, SessionInv, AloneInv, Alive, NoOrphanTake
  <2>3. HandlerInv'
    <3>1. handler.take # 0 => handler.take \in Take
      BY OwnersAreTakes DEF IInv
    <3> QED
      BY <1>0, <1>2, <2>1, <3>1 DEF IInv, TakeInv, HandlerInv
  <2>4. UnbornInv' /\ FileInv'
    BY <1>0, <1>2, <2>1 DEF IInv, TakeInv, UnbornInv, FileInv
  <2>5. AckedIsFinished' /\ ChaptersKept'
    BY <1>0, <2>1 DEF IInv, TypeOK, TakeInv, AckedIsFinished, ChaptersKept
  <2> QED
    BY <2>2, <2>3, <2>4, <2>5 DEF TakeInv
<1> QED
  BY <1>1, <1>2 DEF Encode

\* A thread that reads its stop is no session's.  What it finishes holds the
\* store's markers.
LEMMA ReadStopKeeps == ASSUME IInv, NEW t \in Take, ReadStop(t) PROVE TakeInv'
<1>0. /\ thread[t] = "running" /\ file[t] # "finished" /\ t # 0 /\ control[t] # <<>>
      /\ UNCHANGED <<state, session, takes, markers, handler, chapters, owed, alone, acked>>
  BY DEF ReadStop, stateVars, historyVars, IInv, TakeInv, FileInv, Take
<1>1. session # t /\ t \notin acked
  BY <1>0 DEF IInv, TakeInv, SessionInv, AckedIsFinished
<1>2. CASE Exits(t, "failed") /\ UNCHANGED <<file, sidecar>>
  BY <1>0, <1>2, ExitKeeps DEF Alive
<1>3. CASE /\ thread' = [thread EXCEPT ![t] = "clearing"] /\ UNCHANGED control
           /\ \/ /\ file' = [file EXCEPT ![t] = "finished"]
                 /\ sidecar' = [sidecar EXCEPT ![t] = markers]
              \/ UNCHANGED <<file, sidecar>>
  <2>1. /\ thread'[t] = "clearing"
        /\ \A u \in Take : u # t =>
             thread'[u] = thread[u] /\ file'[u] = file[u] /\ sidecar'[u] = sidecar[u]
        /\ file'[t] = "finished" => sidecar'[t] = markers
    BY <1>0, <1>3 DEF IInv, TypeOK
  <2>2. markers # NoSidecar
    <3>1. markers \in Seq(Take) /\ NoSidecar[1] = 0 /\ Len(NoSidecar) = 1
      BY DEF IInv, TypeOK, NoSidecar
    <3>2. Len(markers) = 1 => markers[1] \in Take
      BY <3>1
    <3>3. 0 \notin Take
      BY DEF Take
    <3> QED
      BY <3>1, <3>2, <3>3
  <2>3. SessionInv'
    <3>1. session # 0 => session \in Take
      BY MaxTakeType DEF IInv, TypeOK, Take
    <3> QED
      BY <1>0, <1>1, <1>3, <2>1, <3>1 DEF IInv, TakeInv, SessionInv
  <2>4. HandlerInv'
    <3>1. handler.take # 0 => handler.take \in Take
      BY OwnersAreTakes DEF IInv
    <3>2. CASE handler.take = t
      <4>1. /\ control[t] \in {<<>>, <<"stop">>}
            /\ t \in alone => markers = owed[t]
        BY <1>0, <3>2 DEF IInv, TakeInv, HandlerInv
      <4> QED
        BY <1>0, <1>3, <2>1, <3>2, <4>1 DEF HandlerInv
    <3>3. CASE handler.take # t
      BY <1>0, <1>3, <2>1, <3>1, <3>3 DEF IInv, TakeInv, HandlerInv
    <3> QED
      BY <3>2, <3>3
  <2>5. AloneInv'
    BY <1>0, <2>1 DEF IInv, TakeInv, AloneInv, Alive
  <2>6. UnbornInv'
    BY <1>0, <1>3, <2>1 DEF IInv, TakeInv, UnbornInv
  <2>7. FileInv'
    BY <2>1, <2>2 DEF IInv, TakeInv, FileInv
  <2>8. AckedIsFinished' /\ ChaptersKept'
    BY <1>0, <1>1, <2>1 DEF IInv, TypeOK, TakeInv, AckedIsFinished, ChaptersKept
  <2>9. NoOrphanTake'
    BY <1>0, <1>3, <2>1 DEF IInv, TakeInv, NoOrphanTake
  <2> QED
    BY <2>3, <2>4, <2>5, <2>6, <2>7, <2>8, <2>9 DEF TakeInv
<1> QED
  BY <1>2, <1>3 DEF ReadStop

LEMMA ThreadKeeps == ASSUME IInv, NEW t \in Take, Thread(t) PROVE TakeInv'
<1>1. CASE ClearMarkers(t)
  <2>1. /\ thread[t] = "clearing"
        /\ Exits(t, IF file[t] = "finished" THEN "ok" ELSE "failed")
        /\ UNCHANGED <<state, session, takes, handler, file, sidecar, chapters, owed,
                       alone, acked>>
    BY <1>1 DEF ClearMarkers, stateVars, historyVars
  <2>2. session # t
    BY <2>1 DEF IInv, TakeInv, SessionInv, Take
  <2>3. CASE file[t] = "finished"
    BY <2>1, <2>2, <2>3, ExitKeeps DEF Alive
  <2>4. CASE file[t] # "finished"
    BY <2>1, <2>2, <2>4, ExitKeeps DEF Alive
  <2> QED
    BY <2>3, <2>4
<1>2. CASE ReadAbandon(t)
  <2>1. /\ thread[t] = "running" /\ Exits(t, "ok")
        /\ control[t] # <<>> /\ Head(control[t]) = "abandon"
        /\ UNCHANGED <<state, session, takes, handler, file, sidecar, chapters, owed,
                       alone, acked>>
    BY <1>2 DEF ReadAbandon, stateVars, historyVars
  <2>2. session # t /\ handler.take # t
    BY <2>1, AbandonedIsNobodys
  <2> QED
    BY <2>1, <2>2, ExitKeeps DEF Alive
<1>3. CASE FramesGone(t)
  <2>1. /\ thread[t] = "running" /\ Exits(t, "failed")
        /\ UNCHANGED <<state, session, takes, markers, handler, file, sidecar, chapters,
                       owed, alone, acked>>
    BY <1>3 DEF FramesGone, stateVars, historyVars
  <2>2. file[t] # "finished"
    BY <2>1 DEF IInv, TakeInv, FileInv
  <2> QED
    BY <2>1, <2>2, ExitKeeps DEF Alive
<1> QED
  BY <1>1, <1>2, <1>3, EncodeKeeps, ReadStopKeeps DEF Thread

-----------------------------------------------------------------------------
(* Types.                                                                  *)

ChannelsType ==
  /\ thread \in [Take -> {"unborn", "running", "clearing", "ok", "failed"}]
  /\ queue \in [Take -> 0..QueueBound]
  /\ control \in [Take -> Seq({"stop", "abandon"})]

LEMMA MarkersMadeFit ==
  ASSUME NEW s \in Seq(Take), Len(s) =< MaxMarker, NEW t \in Take
  PROVE  /\ Append(s, t) \in Seq(Take)
         /\ Len(s) < MaxMarker => Len(Append(s, t)) =< MaxMarker
         /\ Len(s) >= MaxMarker => /\ Append(Tail(s), t) \in Seq(Take)
                                   /\ Len(Append(Tail(s), t)) =< MaxMarker
<1>1. Len(s) \in Nat /\ MaxMarker \in Nat /\ MaxMarker > 0
  BY MaxMarkerType
<1>2. Append(s, t) \in Seq(Take) /\ Len(Append(s, t)) = Len(s) + 1
  OBVIOUS
<1>3. ASSUME Len(s) >= MaxMarker
      PROVE  Append(Tail(s), t) \in Seq(Take) /\ Len(Append(Tail(s), t)) = Len(s)
  <2>1. s # <<>>
    <3>1. Len(<<>>) = 0
      OBVIOUS
    <3> QED
      BY <1>1, <1>3, <3>1
  <2>2. Tail(s) \in Seq(Take) /\ Len(Tail(s)) = Len(s) - 1
    BY <2>1, HeadTailProperties
  <2> QED
    BY <1>1, <2>2
<1> QED
  BY <1>1, <1>2, <1>3

LEMMA DirectiveTypes ==
  ASSUME TypeOK, StateInv,
         ShowStart \/ ShowLoad \/ RecordStartRefused \/ MarkerAdd \/ ShowStop
           \/ ShowStopQuiesces
  PROVE  TypeOK'
<1>0. <<>> \in Seq(Take) /\ Len(<<>>) =< MaxMarker
  BY MaxMarkerType
<1>1. CASE ShowStart
  BY <1>1 DEF ShowStart, TypeOK, threadVars, historyVars
<1>2. CASE ShowLoad
  BY <1>0, <1>2 DEF ShowLoad, Emptied, TypeOK, stateVars, threadVars
<1>3. CASE RecordStartRefused
  BY <1>0, <1>3 DEF RecordStartRefused, Emptied, TypeOK, stateVars, threadVars
<1>4. CASE MarkerAdd
  <2>1. takes \in Take
    BY <1>4, OwnersAreTakes, MaxTakeType DEF MarkerAdd, StateInv, TypeOK, Take
  <2>2. /\ markers \in Seq(Take) /\ Len(markers) =< MaxMarker /\ Len(markers) \in Nat
        /\ chapters \in Seq(Take) /\ Len(chapters) =< MaxMarker /\ Len(chapters) \in Nat
        /\ MaxMarker \in Nat
    BY MaxMarkerType DEF TypeOK
  <2>3. markers' \in Seq(Take) /\ Len(markers') =< MaxMarker
    <3>1. markers' = IF Len(markers) >= MaxMarker THEN Append(Tail(markers), takes)
                     ELSE Append(markers, takes)
      BY <1>4 DEF MarkerAdd
    <3> QED
      BY <2>1, <2>2, <3>1, MarkersMadeFit
  <2>4. chapters' \in Seq(Take) /\ Len(chapters') =< MaxMarker
    <3>1. chapters' = IF Len(chapters) >= MaxMarker THEN Append(Tail(chapters), takes)
                      ELSE Append(chapters, takes)
      BY <1>4 DEF MarkerAdd
    <3> QED
      BY <2>1, <2>2, <3>1, MarkersMadeFit
  <2> QED
    BY <1>4, <2>3, <2>4 DEF MarkerAdd, TypeOK, stateVars, threadVars
<1>5. CASE ShowStop
  BY <1>5, OwnersAreTakes DEF ShowStop, TypeOK, threadVars, historyVars
<1>6. CASE ShowStopQuiesces
  BY <1>6, OwnersAreTakes DEF ShowStopQuiesces, TypeOK, stateVars, threadVars, historyVars
<1> QED
  BY <1>1, <1>2, <1>3, <1>4, <1>5, <1>6

LEMMA RecordStartTypes == ASSUME TypeOK, RecordStart PROVE TypeOK'
<1> DEFINE n == takes + 1
<1>0. /\ n \in Take /\ n \in 0..MaxTake /\ n \in 0..n /\ takes \in Nat /\ n \in Nat
      /\ handler = Ready
  BY MaxTakeType DEF RecordStart, OnMain, TypeOK, Take
<1>1. /\ takes' = n /\ session' = n /\ state' = "recording" /\ tap' = n
      /\ selection' \in Path
      /\ thread' = [thread EXCEPT ![n] = "running"]
      /\ markers' = <<>> /\ chapters' = <<>>
      /\ UNCHANGED <<running, handler, tick, queue, control, file, sidecar, owed, acked>>
  BY DEF RecordStart, Emptied
<1>2. <<>> \in Seq(Take) /\ Len(<<>>) =< MaxMarker
  BY MaxMarkerType
<1>3. alone' \subseteq Take
  BY <1>0 DEF RecordStart, TypeOK
<1>4. 0..takes \subseteq 0..n
  BY <1>0
<1> HIDE DEF n
<1>5. thread' \in [Take -> {"unborn", "running", "clearing", "ok", "failed"}]
  BY <1>0, <1>1 DEF TypeOK
<1>6. tick' \in {Between} \union
         [at : {"begun", "drawn", "readback"}, take : 0..takes',
          loan : {"none", "surface", "dry", "cpu"}]
  BY <1>1, <1>4 DEF TypeOK
<1> QED
  BY <1>0, <1>1, <1>2, <1>3, <1>5, <1>6 DEF TypeOK

LEMMA TakeSessionTypes ==
  ASSUME TypeOK, NEW kind \in {"stop", "quiesce"}, session # 0, TakeSession(kind),
         UNCHANGED <<tick, thread, queue, file, sidecar>>
  PROVE  TypeOK'
<1>1. session \in Take /\ session \in 0..takes /\ 0 \in 0..takes
  BY OwnersAreTakes DEF TypeOK
<1>2. /\ tap' = 0 /\ session' = 0 /\ handler' = [kind |-> kind, take |-> session]
      /\ Tell(session, "stop") /\ owed' = [owed EXCEPT ![session] = chapters]
      /\ UNCHANGED <<running, state, selection, takes, markers, chapters, alone, acked>>
  BY DEF TakeSession
<1>3. control' \in [Take -> Seq({"stop", "abandon"})]
  BY <1>1, <1>2, Told
<1>4. owed' \in [Take -> Seq(Take)]
  BY <1>1, <1>2 DEF TypeOK
<1> QED
  BY <1>1, <1>2, <1>3, <1>4 DEF TypeOK

LEMMA StopTypes ==
  ASSUME TypeOK, RecordStop \/ ShowStopForced \/ Quiesce
  PROVE  TypeOK'
<1>0. 0 \in 0..takes
  BY OwnersAreTakes
<1>1. CASE RecordStop
  <2>1. CASE session # 0 /\ TakeSession("stop")
    BY <1>1, <2>1, TakeSessionTypes DEF RecordStop
  <2>2. CASE ~(session # 0 /\ TakeSession("stop"))
    BY <1>0, <1>1, <2>2 DEF RecordStop, TypeOK, historyVars
  <2> QED
    BY <2>1, <2>2
<1>2. CASE ShowStopForced
  <2>1. control' \in [Take -> Seq({"stop", "abandon"})]
    BY <1>2, OwnersAreTakes, Told DEF ShowStopForced
  <2>2. <<>> \in Seq(Take) /\ Len(<<>>) =< MaxMarker
    BY MaxMarkerType
  <2> QED
    BY <1>0, <1>2, <2>1, <2>2 DEF ShowStopForced, Emptied, TypeOK
<1>3. CASE Quiesce
  <2>1. CASE session # 0 /\ TakeSession("quiesce")
    BY <1>3, <2>1, TakeSessionTypes DEF Quiesce
  <2>2. CASE ~(session # 0 /\ TakeSession("quiesce"))
    <3>1. <<>> \in Seq(Take) /\ Len(<<>>) =< MaxMarker
      BY MaxMarkerType
    <3> QED
      BY <1>0, <1>3, <2>2, <3>1 DEF Quiesce, Emptied, TypeOK
  <2> QED
    BY <2>1, <2>2
<1> QED
  BY <1>1, <1>2, <1>3

LEMMA WaitTypes == ASSUME TypeOK, Reported \/ TimedOut PROVE TypeOK'
<1>1. handler' = Ready /\ state' = "idle" /\ running' \in BOOLEAN
  BY DEF Reported, TimedOut, Ended, TypeOK
<1>2. CASE Reported
  <2>1. acked' \subseteq Take
    BY <1>2, OwnersAreTakes DEF Reported, TypeOK
  <2>2. <<>> \in Seq(Take) /\ Len(<<>>) =< MaxMarker
    BY MaxMarkerType
  <2> QED
    BY <1>1, <1>2, <2>1, <2>2 DEF Reported, Emptied, TypeOK, threadVars
<1>3. CASE TimedOut
  <2>1. control' \in [Take -> Seq({"stop", "abandon"})]
    BY <1>3, OwnersAreTakes, Told DEF TimedOut
  <2> QED
    BY <1>1, <1>3, <2>1 DEF TimedOut, TypeOK, historyVars
<1> QED
  BY <1>2, <1>3

LEMMA LoopTypes == ASSUME TypeOK, Loop PROVE TypeOK'
<1>0. 0 \in 0..takes
  BY OwnersAreTakes
<1>1. CASE TickBegins
  BY <1>1 DEF TickBegins, TypeOK, stateVars, threadVars, historyVars
<1>2. CASE TickDraws
  <2>1. tick' \in [at : {"drawn"}, take : 0..takes, loan : {"surface", "dry", "cpu"}]
    <3>1. tick.at = "begun"
      BY <1>2 DEF TickDraws
    <3>2. tick \in [at : {"begun", "drawn", "readback"}, take : 0..takes,
                    loan : {"none", "surface", "dry", "cpu"}]
      BY <3>1 DEF TypeOK, Between
    <3>3. PICK l \in {"surface", "dry", "cpu"} :
            tick' = [tick EXCEPT !.at = "drawn", !.loan = l]
      BY <1>2 DEF TickDraws, ChainLost
    <3> QED
      BY <3>2, <3>3
  <2>2. control' \in [Take -> Seq({"stop", "abandon"})]
    BY <1>2, OwnersAreTakes, Told DEF TickDraws, ChainLost, TypeOK, stateVars
  <2>3. /\ state' \in {"idle", "recording"} /\ session' \in 0..takes /\ tap' \in 0..takes
        /\ UNCHANGED <<running, selection, takes>>
    BY <1>0, <1>2 DEF TickDraws, ChainLost, TypeOK, stateVars
  <2> QED
    BY <1>2, <2>1, <2>2, <2>3 DEF TickDraws, TypeOK, historyVars
<1>3. CASE TickEnds \/ ReadBack
  <2>1. tick' \in {Between} \union
         [at : {"begun", "drawn", "readback"}, take : 0..takes,
          loan : {"none", "surface", "dry", "cpu"}]
    BY <1>3 DEF TickEnds, ReadBack, TypeOK, Between
  <2>2. ASSUME NEW t \in Take, Sent(t) PROVE queue' \in [Take -> 0..QueueBound]
    BY <2>2, QueueBoundType DEF Sent, TypeOK
  <2>3. queue' \in [Take -> 0..QueueBound]
    <3>1. tick.take # 0 => tick.take \in Take
      BY OwnersAreTakes
    <3>2. UNCHANGED queue \/ (tick.take # 0 /\ Sent(tick.take)) \/ tick.at = "readback"
      BY <1>3 DEF TickEnds, ReadBack
    <3>3. tick.at = "readback" => UNCHANGED queue \/ Sent(tick.take)
      BY <1>3 DEF TickEnds, ReadBack
    <3>4. ASSUME tick.take = 0, Sent(tick.take) PROVE queue' \in [Take -> 0..QueueBound]
      <4>1. 0 \notin Take /\ queue \in [Take -> 0..QueueBound]
        BY DEF Take, TypeOK
      <4>2. queue' = queue \/ queue' = [queue EXCEPT ![0] = @ + 1]
        BY <3>4 DEF Sent
      <4> QED
        BY <4>1, <4>2
    <3> QED
      BY <2>2, <3>1, <3>2, <3>3, <3>4 DEF TypeOK
  <2> QED
    BY <1>3, <2>1, <2>3 DEF TickEnds, ReadBack, TypeOK, stateVars, historyVars
<1> QED
  BY <1>1, <1>2, <1>3 DEF Loop

LEMMA ThreadTypes == ASSUME TypeOK, NEW t \in Take, Thread(t) PROVE TypeOK'
<1>1. ASSUME NEW report \in {"ok", "failed"}, Exits(t, report)
      PROVE  ChannelsType'
  BY <1>1, QueueBoundType DEF ChannelsType, Exits, TypeOK
<1>2. CASE Encode(t)
  <2>1. ChannelsType'
    <3>1. CASE Exits(t, "failed")
      BY <1>1, <3>1
    <3>2. CASE queue' = [queue EXCEPT ![t] = @ - 1] /\ UNCHANGED <<thread, control>>
      <4>1. queue[t] - 1 \in 0..QueueBound
        BY <1>2, QueueBoundType DEF Encode, TypeOK
      <4> QED
        BY <3>2, <4>1 DEF ChannelsType, TypeOK
    <3> QED
      BY <1>2, <3>1, <3>2 DEF Encode
  <2>2. file' \in [Take -> {"none", "delta", "keyframe", "finished"}]
    BY <1>2 DEF Encode, TypeOK
  <2> QED
    BY <1>2, <2>1, <2>2 DEF Encode, ChannelsType, TypeOK, stateVars, historyVars
<1>3. CASE ReadStop(t)
  <2>1. ChannelsType'
    BY <1>1, <1>3 DEF ReadStop, ChannelsType, TypeOK
  <2>2. /\ file' \in [Take -> {"none", "delta", "keyframe", "finished"}]
        /\ sidecar' \in [Take -> Seq(0..MaxTake)]
    <3>1. markers \in Seq(0..MaxTake)
      <4>1. Take \subseteq 0..MaxTake
        BY MaxTakeType DEF Take
      <4>2. markers \in Seq(Take)
        BY DEF TypeOK
      <4> QED
        BY <4>1, <4>2, SeqMonotonic
    <3>2. /\ file \in [Take -> {"none", "delta", "keyframe", "finished"}]
          /\ sidecar \in [Take -> Seq(0..MaxTake)]
      BY DEF TypeOK
    <3>3. /\ file' = file \/ file' = [file EXCEPT ![t] = "finished"]
          /\ sidecar' = sidecar \/ sidecar' = [sidecar EXCEPT ![t] = markers]
      BY <1>3 DEF ReadStop
    <3> QED
      BY <3>1, <3>2, <3>3
  <2> QED
    BY <1>3, <2>1, <2>2 DEF ReadStop, ChannelsType, TypeOK, stateVars, historyVars
<1>4. CASE ClearMarkers(t) \/ ReadAbandon(t) \/ FramesGone(t)
  <2>1. ChannelsType'
    BY <1>1, <1>4 DEF ClearMarkers, ReadAbandon, FramesGone
  <2>2. markers' \in Seq(Take) /\ Len(markers') =< MaxMarker
    <3>1. markers' = <<>> \/ markers' = markers
      BY <1>4 DEF ClearMarkers, ReadAbandon, FramesGone
    <3>2. <<>> \in Seq(Take) /\ Len(<<>>) =< MaxMarker
      BY MaxMarkerType
    <3> QED
      BY <3>1, <3>2 DEF TypeOK
  <2> QED
    BY <1>4, <2>1, <2>2
    DEF ClearMarkers, ReadAbandon, FramesGone, ChannelsType, TypeOK, stateVars, historyVars
<1> QED
  BY <1>2, <1>3, <1>4 DEF Thread

LEMMA TypesKept == ASSUME TypeOK, StateInv, [Next]_vars PROVE TypeOK' /\ StateInv'
<1>1. TypeOK'
  <2>1. CASE UNCHANGED vars
    BY <2>1 DEF TypeOK, vars, stateVars, threadVars, historyVars
  <2>2. CASE Next
    BY <2>2, DirectiveTypes, RecordStartTypes, StopTypes, WaitTypes, LoopTypes, ThreadTypes
    DEF Next, Handler
  <2> QED
    BY <2>1, <2>2
<1>2. state' = "idle" \/ takes' = takes + 1 \/ UNCHANGED <<state, takes>>
  BY DEF Next, ShowStart, ShowLoad, RecordStartRefused, RecordStart, MarkerAdd, RecordStop,
         TakeSession, ShowStop, ShowStopForced, ShowStopQuiesces, Handler, Quiesce, Reported,
         TimedOut, Ended, Loop, TickBegins, TickDraws, ChainLost, TickEnds, ReadBack, Thread,
         Encode, ReadStop, ClearMarkers, ReadAbandon, FramesGone, vars, stateVars
<1> QED
  BY <1>1, <1>2, OwnersAreTakes DEF StateInv

-----------------------------------------------------------------------------
\* One step keeps the takes' invariant.
LEMMA TakeInvKept == ASSUME IInv, [Next]_vars PROVE TakeInv'
<1>1. CASE UNCHANGED vars
  BY <1>1, NoTakeMoves DEF IInv, vars, stateVars, threadVars, historyVars
<1>2. CASE Next
  BY <1>2, DirectiveKeeps, RecordStartKeeps, RecordStopKeeps, ShowStopKeeps,
     ShowStopForcedKeeps, QuiesceKeeps, ReportedKeeps, TimedOutKeeps, LoopKeeps, ThreadKeeps
  DEF Next, Handler
<1> QED
  BY <1>1, <1>2

\* A take's owner, thread and file agree, whatever the handler, the render loop
\* and the record threads do, and in whatever order: the invariant is inductive
\* (directive.rs, on_record_stop; record/session.rs; record/thread.rs).
THEOREM Invariant == Spec => []IInv
<1>1. Init => IInv
  BY Begins
<1>2. IInv /\ [Next]_vars => IInv'
  BY TypesKept, TakeInvKept DEF IInv
<1> QED
  BY <1>1, <1>2, PTL DEF Spec

\* The types, for any number of takes.
THEOREM TypeCorrect == Spec => []TypeOK
<1>1. IInv => TypeOK
  BY DEF IInv
<1> QED
  BY <1>1, Invariant, PTL

\* A stop is acknowledged only for a take whose file and sidecar are complete,
\* whatever late threads do afterwards.
THEOREM AcknowledgedIsFinished == Spec => []AckedIsFinished
<1>1. IInv => AckedIsFinished
  BY DEF IInv, TakeInv
<1> QED
  BY <1>1, Invariant, PTL

\* No chapter of an acknowledged take is lost, where no earlier take's thread
\* was left to run.
THEOREM ChaptersAreKept == Spec => []ChaptersKept
<1>1. IInv => ChaptersKept
  BY DEF IInv, TakeInv
<1> QED
  BY <1>1, Invariant, PTL

\* Every thread that runs is the session's, is waited for, or has been told to
\* end.
THEOREM NoTakeIsOrphaned == Spec => []NoOrphanTake
<1>1. IInv => NoOrphanTake
  BY DEF IInv, TakeInv
<1> QED
  BY <1>1, Invariant, PTL

-----------------------------------------------------------------------------
(***************************************************************************)
(* A peer gets a track's header before its first unit, for all bounds: of  *)
(* the queue, of the messages and of the connections.  The argument: from  *)
(* the moment a connection has been told the cached headers, what is       *)
(* written to it, in the task's hand, queued and being offered is one line *)
(* of messages, and in that line every unit stands behind its track's      *)
(* header, unless that header was shed.                                    *)
(***************************************************************************)

Header(t) == [track |-> t, header |-> TRUE]

\* What the task has in hand, and what the thread is offering.
Carries == task.at \in {"took", "writing"}
Offering == feeder.at = "try"
Hand == IF Carries THEN {task.message} ELSE {}
Offered == IF Offering THEN {feeder.message} ELSE {}

\* The connection has been told the headers, and is still up.
Reached == Carries \/ task.at \in {"check", "up", "top", "live"}

\* What the thread knows of: every track it has started is cached, and only
\* those are on their way.
KnownInv ==
  /\ cached = started /\ IsFiniteSet(started)
  /\ \A i \in DOMAIN channel : channel[i].track \in started
  /\ \A m \in Offered : m \in Stream!Message /\ m.track \in started
  /\ Hand \subseteq Stream!Message
  /\ buffered + (IF feeder.at \in {"try", "credit"} THEN 1 ELSE 0) =< sent

\* In the line of messages that are written (w), in hand (h), queued (q) and
\* offered (o), a unit stands behind its track's header, and so will the next.
In(q, t) == \E i \in DOMAIN q : q[i] = Header(t)
Behind(m, w) == m.header \/ m.track \in shed \/ In(w, m.track)
Lined(w, h, q, o) ==
  /\ \A m \in h : Behind(m, w)
  /\ \A i \in DOMAIN q :
       \/ Behind(q[i], w) \/ Header(q[i].track) \in h
       \/ \E j \in 1..i - 1 : q[j] = Header(q[i].track)
  /\ \A m \in o : Behind(m, w) \/ Header(m.track) \in h \/ In(q, m.track)
  /\ \A t \in started :
       \/ t \in shed \/ In(w, t) \/ Header(t) \in h \/ In(q, t) \/ Header(t) \in o

LinkInv ==
  /\ Stream!TypeOK /\ KnownInv
  /\ HeaderFirst
  /\ Reached => Lined(wire, Hand, channel, Offered)

-----------------------------------------------------------------------------
(* The types, part by part.                                                *)

Idle == {"handshake", "connect", "create", "publish", "redial", "mark", "dial",
         "clean", "replay", "pause", "ended"}
Places == Idle \cup {"check", "up", "top", "live", "took", "writing"}

FeedTyped ==
  /\ feeder \in [at : {"free", "try", "credit", "gone"},
                 message : Stream!Message \cup {Stream!None}]
  /\ sent \in 0..MaxSent
  /\ started \subseteq Track /\ cached \subseteq Track /\ shed \subseteq Track
PipeTyped ==
  /\ channel \in Seq(Stream!Message) /\ Len(channel) =< ChannelBound
  /\ buffered \in 0..MaxSent /\ wire \in Seq(Stream!Message) /\ dials \in 0..MaxDials
TaskTyped ==
  task \in [at : Places, message : Stream!Message \cup {Stream!None}, woken : BOOLEAN]
EndTyped ==
  /\ phase \in {"live", "reconnecting", "closed"} /\ closed \in BOOLEAN
  /\ handle \in [at : {"open", "thread", "signal", "flag", "notify", "wait",
                       "ended", "dropped"},
                 waits : BOOLEAN, ok : BOOLEAN]

LEMMA TypeParts == Stream!TypeOK <=> FeedTyped /\ PipeTyped /\ TaskTyped /\ EndTyped
<1>1. Places = Stream!Stage \cup {"redial", "mark", "dial", "clean", "replay",
                 "check", "up", "top", "live", "took", "writing", "pause", "ended"}
  BY DEF Places, Idle, Stream!Stage
<1>. HIDE DEF Places
<1>. QED
  BY <1>1, Zenon DEF Stream!TypeOK, FeedTyped, PipeTyped, TaskTyped, EndTyped

LEMMA TypeJoined ==
  ASSUME FeedTyped', PipeTyped', TaskTyped', EndTyped'
  PROVE  Stream!TypeOK'
<1>1. Places = Stream!Stage \cup {"redial", "mark", "dial", "clean", "replay",
                 "check", "up", "top", "live", "took", "writing", "pause", "ended"}
  BY DEF Places, Idle, Stream!Stage
<1>. HIDE DEF Places
<1>. QED
  BY <1>1, Zenon DEF Stream!TypeOK, FeedTyped, PipeTyped, TaskTyped, EndTyped

LEMMA Bounds == ChannelBound \in Nat /\ MaxSent \in Nat /\ MaxDials \in Nat
                /\ ChannelBound >= 1 /\ MaxDials >= 1
  BY StreamConstants DEF Stream!PublisherConstants

\* The same set of messages, as the module and its instance write it.
LEMMA MessageType ==
  /\ Stream!Message = [track : Track, header : BOOLEAN]
  /\ \A m \in Stream!Message : m.track \in Track /\ m.header \in BOOLEAN
  /\ \A t \in Track : Header(t) \in Stream!Message
  /\ \A m \in Stream!Message : m.header => m = Header(m.track)
  BY DEF Stream!Message, Header

LEMMA LessStill == \A a, b, c, d \in Nat : a =< b /\ b + d =< c => a + d =< c
  OBVIOUS

-----------------------------------------------------------------------------
(* Steps that move no message along.                                       *)

\* The task goes where no connection is up.
LEMMA SettlesKeeps ==
  ASSUME LinkInv, UNCHANGED <<feeder, sent, started, cached, shed>>,
         NEW a \in Idle,
         task' = [at |-> a, message |-> Stream!None, woken |-> FALSE],
         channel' = channel \/ channel' = <<>>, buffered' \in 0..buffered,
         wire' = wire \/ wire' = <<>>, dials' \in 0..MaxDials, EndTyped'
  PROVE  LinkInv'
<1>. USE DEF LinkInv
<1>1. /\ feeder' = feeder /\ sent' = sent /\ started' = started /\ cached' = cached
      /\ shed' = shed /\ task'.at = a
  OBVIOUS
<1>2. Stream!TypeOK'
  <2>1. FeedTyped'
    BY <1>1, TypeParts DEF FeedTyped
  <2>2. PipeTyped'
    <3>1. /\ channel' \in Seq(Stream!Message) /\ wire' \in Seq(Stream!Message)
          /\ Len(channel') =< ChannelBound
      <4>1. <<>> \in Seq(Stream!Message) /\ Len(<<>>) = 0
        BY EmptySeq
      <4>2. /\ channel \in Seq(Stream!Message) /\ wire \in Seq(Stream!Message)
            /\ Len(channel) =< ChannelBound
        BY TypeParts DEF PipeTyped
      <4>3. Len(channel') =< ChannelBound
        BY <4>1, <4>2, Bounds
      <4>. QED  BY <4>1, <4>2, <4>3, Zenon
    <3>2. buffered' \in 0..MaxSent
      BY Bounds, TypeParts DEF PipeTyped
    <3>. QED  BY <3>1, <3>2 DEF PipeTyped
  <2>3. TaskTyped'
    BY DEF TaskTyped, Places
  <2>. QED  BY <2>1, <2>2, <2>3, TypeJoined
<1>3. ~Carries' /\ ~Reached'
  BY <1>1 DEF Carries, Reached, Idle
<1>4. KnownInv'
  <2>1. \A i \in DOMAIN channel' : channel'[i].track \in started
    BY EmptySeq DEF KnownInv
  <2>2. buffered' + (IF feeder.at \in {"try", "credit"} THEN 1 ELSE 0) =< sent
    <3>1. buffered \in Nat /\ sent \in Nat
      BY Bounds, TypeParts DEF PipeTyped, FeedTyped
    <3>2. buffered + (IF feeder.at \in {"try", "credit"} THEN 1 ELSE 0) =< sent
      BY DEF KnownInv
    <3>3. buffered' \in Nat /\ buffered' =< buffered
      BY <3>1
    <3>. DEFINE tendered == IF feeder.at \in {"try", "credit"} THEN 1 ELSE 0
    <3>4. tendered \in Nat
      OBVIOUS
    <3>. HIDE DEF tendered
    <3>5. buffered + tendered =< sent
      BY <3>2 DEF tendered
    <3>6. buffered' + tendered =< sent
      BY <3>1, <3>3, <3>4, <3>5, LessStill, Zenon
    <3>. QED  BY <3>6 DEF tendered
  <2>3. Offered' = Offered /\ Hand' = {}
    BY <1>1, <1>3 DEF Offered, Offering, Hand
  <2>. QED  BY <1>1, <2>1, <2>2, <2>3 DEF KnownInv
<1>5. HeaderFirst'
  BY EmptySeq DEF HeaderFirst, Stream!HeaderFirst
<1>. QED  BY <1>2, <1>3, <1>4, <1>5

\* Nothing is written, taken or offered.
LEMMA StandsKeeps ==
  ASSUME LinkInv, UNCHANGED <<sent, started, cached, shed, channel, wire, dials>>,
         FeedTyped', TaskTyped', EndTyped', buffered' \in 0..MaxSent,
         buffered' + (IF feeder'.at \in {"try", "credit"} THEN 1 ELSE 0) =< sent,
         Offered' = Offered, Hand' = Hand, Reached' => Reached
  PROVE  LinkInv'
<1>. USE DEF LinkInv
<1>1. /\ sent' = sent /\ started' = started /\ cached' = cached
      /\ shed' = shed /\ channel' = channel /\ wire' = wire /\ dials' = dials
  OBVIOUS
<1>2. Stream!TypeOK'
  <2>1. PipeTyped'
    BY <1>1, TypeParts DEF PipeTyped
  <2>. QED  BY <2>1, TypeJoined
<1>3. KnownInv'
  BY <1>1, Zenon DEF KnownInv
<1>4. HeaderFirst'
  BY <1>1 DEF HeaderFirst, Stream!HeaderFirst
<1>5. \A w, h, q, o : Lined(w, h, q, o) => Lined(w, h, q, o)'
  <2>1. \A m, w : Behind(m, w) <=> Behind(m, w)'
    BY <1>1 DEF Behind
  <2>. QED  BY <1>1, <2>1 DEF Lined
<1>6. Reached' => Lined(wire, Hand, channel, Offered)'
  BY <1>1, <1>5, Zenon
<1>. QED  BY <1>2, <1>3, <1>4, <1>6

LEMMA KeepsMeans ==
  ASSUME Stream!Keeps
  PROVE  /\ feeder' = feeder /\ sent' = sent /\ started' = started /\ cached' = cached
         /\ shed' = shed /\ closed' = closed /\ handle' = handle
  BY DEF Stream!Keeps, Stream!threadVars

LEMMA BufferedTyped ==
  ASSUME LinkInv
  PROVE  /\ buffered \in Nat /\ buffered \in 0..buffered /\ buffered \in 0..MaxSent
         /\ buffered + (IF feeder.at \in {"try", "credit"} THEN 1 ELSE 0) =< sent
         /\ dials \in 0..MaxDials
         /\ \A n \in Nat : Stream!Debited(n) \in 0..buffered
<1>1. buffered \in 0..MaxSent /\ MaxSent \in Nat /\ dials \in 0..MaxDials
  BY Bounds, TypeParts DEF LinkInv, PipeTyped
<1>2. \A n \in Nat : Stream!Debited(n) \in 0..buffered
  BY <1>1 DEF Stream!Debited
<1>. QED  BY <1>1, <1>2 DEF LinkInv, KnownInv

\* The task ends, wherever it was.
LEMMA EndKeeps ==
  ASSUME LinkInv, Stream!End, Stream!Keeps
  PROVE  LinkInv'
<1>1. /\ task' = [at |-> "ended", message |-> Stream!None, woken |-> FALSE]
      /\ phase' = "closed" /\ channel' = <<>> /\ buffered' = buffered /\ dials' = dials
      /\ wire' = wire
  BY DEF Stream!End, Stream!Goes
<1>2. "ended" \in Idle
  BY DEF Idle
<1>3. EndTyped'
  BY <1>1, KeepsMeans, TypeParts DEF LinkInv, EndTyped
<1>. QED  BY <1>1, <1>2, <1>3, KeepsMeans, BufferedTyped, SettlesKeeps

\* The task goes on without a connection.
LEMMA WaitsKeeps ==
  ASSUME LinkInv, Stream!Keeps, NEW a \in Idle, Stream!Goes(a),
         UNCHANGED channel, buffered' \in 0..buffered, wire' = wire \/ wire' = <<>>,
         dials' \in 0..MaxDials, phase' \in {phase, "reconnecting"}
  PROVE  LinkInv'
<1>1. task' = [at |-> a, message |-> Stream!None, woken |-> FALSE]
  BY DEF Stream!Goes
<1>2. EndTyped'
  BY <1>1, KeepsMeans, TypeParts DEF LinkInv, EndTyped
<1>. QED  BY <1>1, <1>2, KeepsMeans, SettlesKeeps

LEMMA DialsKeep ==
  LinkInv /\ (Stream!Redial \/ Stream!Mark \/ Stream!Dial \/ Stream!Answered
              \/ Stream!GivenUp) => LinkInv'
<1>. SUFFICES ASSUME LinkInv,
                     \/ Stream!Redial \/ Stream!Mark \/ Stream!Dial \/ Stream!Answered
                     \/ Stream!GivenUp
     PROVE  LinkInv'
  OBVIOUS
<1>0. {"mark", "dial", "handshake", "connect", "create", "publish", "clean", "pause"}
        \subseteq Idle
  BY DEF Idle
<1>1. CASE Stream!Redial
  <2>1. Stream!Keeps
    BY <1>1 DEF Stream!Redial
  <2>2. CASE closed /\ Stream!End
    BY <2>1, <2>2, EndKeeps
  <2>3. CASE /\ Stream!Goes("mark")
             /\ UNCHANGED <<channel, buffered, dials, wire, phase>>
    BY <1>0, <2>1, <2>3, BufferedTyped, WaitsKeeps
  <2>. QED  BY <1>1, <2>2, <2>3 DEF Stream!Redial
<1>2. CASE Stream!Mark
  BY <1>0, <1>2, BufferedTyped, WaitsKeeps DEF Stream!Mark
<1>3. CASE Stream!Dial
  <2>1. Stream!Keeps /\ UNCHANGED <<channel, buffered, phase>>
    BY <1>3 DEF Stream!Dial
  <2>2. CASE dials < MaxDials /\ dials' = dials + 1 /\ wire' = <<>>
             /\ Stream!Goes("handshake")
    <3>1. dials' \in 0..MaxDials
      <4>1. dials \in 0..MaxDials /\ MaxDials \in Nat
        BY BufferedTyped, Bounds
      <4>. QED  BY <2>2, <4>1
    <3>. QED  BY <1>0, <2>1, <2>2, <3>1, BufferedTyped, WaitsKeeps
  <2>3. CASE Stream!Goes("pause") /\ UNCHANGED <<dials, wire>>
    BY <1>0, <2>1, <2>3, BufferedTyped, WaitsKeeps
  <2>. QED  BY <1>3, <2>2, <2>3 DEF Stream!Dial
<1>4. CASE Stream!Answered
  <2>. DEFINE next == CASE task.at = "handshake" -> "connect" [] task.at = "connect" -> "create"
                        [] task.at = "create" -> "publish" [] task.at = "publish" -> "clean"
  <2>1. next \in Idle
    BY <1>0, <1>4 DEF Stream!Answered, Stream!Stage
  <2>2. Stream!Goes(next) /\ Stream!Keeps
        /\ UNCHANGED <<channel, buffered, dials, wire, phase>>
    BY <1>4 DEF Stream!Answered
  <2>. HIDE DEF next
  <2>3. PICK a \in Idle : a = next
    BY <2>1
  <2>. QED  BY <2>1, <2>2, BufferedTyped, WaitsKeeps DEF Stream!Goes
<1>5. CASE Stream!GivenUp
  BY <1>0, <1>5, BufferedTyped, WaitsKeeps DEF Stream!GivenUp
<1>. QED  BY <1>1, <1>2, <1>3, <1>4, <1>5

\* The queue is emptied, or the connection or the task ends.
LEMMA EndingsKeep ==
  LinkInv /\ (Stream!Clean \/ Stream!LiveStops \/ Stream!Hangup \/ Stream!WriteStops
              \/ Stream!Pause) => LinkInv'
<1>. SUFFICES ASSUME LinkInv,
                     \/ Stream!Clean \/ Stream!LiveStops \/ Stream!Hangup
                     \/ Stream!WriteStops \/ Stream!Pause
     PROVE  LinkInv'
  OBVIOUS
<1>0. {"replay", "redial", "pause", "ended"} \subseteq Idle
  BY DEF Idle
<1>1. CASE Stream!Clean
  <2>1. /\ Stream!Keeps /\ channel' = <<>> /\ buffered' = Stream!Debited(Len(channel))
        /\ task' = [at |-> "replay", message |-> Stream!None, woken |-> FALSE]
        /\ UNCHANGED <<dials, wire, phase>>
    BY <1>1 DEF Stream!Clean, Stream!Goes
  <2>2. Len(channel) \in Nat
    BY TypeParts, LenProperties DEF LinkInv, PipeTyped
  <2>3. EndTyped'
    BY <2>1, KeepsMeans, TypeParts DEF LinkInv, EndTyped
  <2>. QED  BY <1>0, <2>1, <2>2, <2>3, KeepsMeans, BufferedTyped, SettlesKeeps
<1>2. CASE Stream!LiveStops
  BY <1>2, EndKeeps DEF Stream!LiveStops
<1>3. CASE Stream!Hangup
  <2>1. Stream!Keeps
    BY <1>3 DEF Stream!Hangup
  <2>2. CASE closed
    BY <1>3, <2>2, EndKeeps DEF Stream!Hangup
  <2>3. CASE ~closed
    <3>1. Stream!Goes("pause") /\ UNCHANGED <<channel, buffered, dials, wire, phase>>
      BY <1>3, <2>3 DEF Stream!Hangup
    <3>. QED  BY <1>0, <2>1, <3>1, BufferedTyped, WaitsKeeps
  <2>. QED  BY <2>2, <2>3
<1>4. CASE Stream!WriteStops
  <2>1. /\ Stream!Keeps /\ channel' = <<>> /\ buffered' = Stream!Debited(1)
        /\ task' = [at |-> "ended", message |-> Stream!None, woken |-> FALSE]
        /\ UNCHANGED <<dials, wire>> /\ phase' = "closed"
    BY <1>4 DEF Stream!WriteStops, Stream!Goes
  <2>2. EndTyped'
    BY <2>1, KeepsMeans, TypeParts DEF LinkInv, EndTyped
  <2>. QED  BY <1>0, <2>1, <2>2, KeepsMeans, BufferedTyped, SettlesKeeps
<1>5. CASE Stream!Pause
  <2>1. Stream!Keeps
    BY <1>5 DEF Stream!Pause
  <2>2. CASE closed
    BY <1>5, <2>2, EndKeeps DEF Stream!Pause
  <2>3. CASE ~closed
    <3>1. Stream!Goes("redial") /\ UNCHANGED <<channel, buffered, dials, wire, phase>>
      BY <1>5, <2>3 DEF Stream!Pause
    <3>. QED  BY <1>0, <2>1, <3>1, BufferedTyped, WaitsKeeps
  <2>. QED  BY <2>2, <2>3
<1>. QED  BY <1>1, <1>2, <1>3, <1>4, <1>5

\* The connection is up, and the task looks about.
LEMMA LooksKeep ==
  LinkInv /\ (Stream!Check \/ Stream!Up \/ Stream!Top \/ Stream!StartWrite) => LinkInv'
<1>. SUFFICES ASSUME LinkInv,
                     Stream!Check \/ Stream!Up \/ Stream!Top \/ Stream!StartWrite
     PROVE  LinkInv'
  OBVIOUS
<1>1. /\ Stream!Keeps /\ UNCHANGED <<channel, buffered, dials, wire>>
      /\ phase' \in {phase, "live"}
  BY DEF Stream!Check, Stream!Up, Stream!Top, Stream!StartWrite
<1>2. task \in [at : Places, message : Stream!Message \cup {Stream!None}, woken : BOOLEAN]
  BY TypeParts DEF LinkInv, TaskTyped
<1>3. TaskTyped' /\ Reached /\ Hand' = Hand
  <2>1. CASE Stream!Check \/ Stream!Up \/ Stream!Top
    <3>1. \E a \in {"up", "top", "live"} :
            task' = [at |-> a, message |-> Stream!None, woken |-> FALSE]
      BY <2>1 DEF Stream!Check, Stream!Up, Stream!Top, Stream!Goes
    <3>2. task.at \in {"check", "up", "top"}
      BY <2>1 DEF Stream!Check, Stream!Up, Stream!Top
    <3>3. TaskTyped'
      BY <3>1 DEF TaskTyped, Places
    <3>4. ~Carries /\ ~Carries' /\ Reached
      BY <3>1, <3>2 DEF Carries, Reached
    <3>. QED  BY <3>3, <3>4 DEF Hand
  <2>2. CASE Stream!StartWrite
    <3>1. task.at = "took" /\ task' = [task EXCEPT !.at = "writing"]
      BY <2>2 DEF Stream!StartWrite
    <3>2. task'.at = "writing" /\ task'.message = task.message
      BY <1>2, <3>1
    <3>3. TaskTyped'
      BY <1>2, <3>1 DEF TaskTyped, Places
    <3>4. Carries /\ Carries' /\ Reached
      BY <3>1, <3>2 DEF Carries, Reached
    <3>. QED  BY <3>2, <3>3, <3>4 DEF Hand
  <2>. QED  BY <2>1, <2>2
<1>4. FeedTyped' /\ EndTyped'
  BY <1>1, KeepsMeans, TypeParts DEF LinkInv, FeedTyped, EndTyped
<1>5. Offered' = Offered
  BY <1>1, KeepsMeans DEF Offered, Offering
<1>. QED  BY <1>1, <1>3, <1>4, <1>5, KeepsMeans, BufferedTyped, StandsKeeps

-----------------------------------------------------------------------------
(* The line of messages.                                                   *)

\* A sequence of a finite set holds all of it.
LEMMA CardinalitySame == \A S : Stream!Cardinality(S) = Cardinality(S)
  BY Zenon DEF Stream!Cardinality, Cardinality

LEMMA AllListed ==
  ASSUME NEW S, IsFiniteSet(S)
  PROVE  \E n \in Nat :
           /\ Stream!SetToSeq(S) \in [1..n -> S]
           /\ \A x \in S : \E i \in 1..n : Stream!SetToSeq(S)[i] = x
<1>. DEFINE n == Cardinality(S)
            List(f) == f \in [1..n -> S] /\ Stream!IsInjective(f)
<1>1. n \in Nat /\ ExistsBijection(1..n, S)
  BY FS_CardinalityType
<1>2. \E f : List(f)
  BY <1>1, Zenon DEF ExistsBijection, Bijection, Injection, Stream!IsInjective, IsInjective
<1>3. Stream!SetToSeq(S) = CHOOSE f \in [1..n -> S] : Stream!IsInjective(f)
  BY CardinalitySame, Zenon DEF Stream!SetToSeq
<1>4. List(Stream!SetToSeq(S))
  BY <1>2, <1>3, Zenon
<1>. DEFINE q == Stream!SetToSeq(S)
<1>. HIDE DEF q
<1>5. q \in Injection(1..n, S)
  BY <1>4, Zenon DEF Injection, Stream!IsInjective, IsInjective, q
<1>. HIDE DEF n
<1>6. IsFiniteSet(1..n) /\ Cardinality(1..n) = n
  BY <1>1, FS_Interval
<1>7. q \in Surjection(1..n, S)
  BY <1>5, <1>6, FS_Injection DEF n
<1>8. \A x \in S : \E i \in 1..n : q[i] = x
  BY <1>7, Zenon DEF Surjection
<1>. QED  BY <1>1, <1>4, <1>8 DEF q

\* The head of the queue is taken in hand.
LEMMA LineTaken ==
  ASSUME NEW w, NEW q \in Seq(Stream!Message), NEW o, q # <<>>, Lined(w, {}, q, o)
  PROVE  Lined(w, {Head(q)}, Tail(q), o)
<1>1. /\ Tail(q) \in Seq(Stream!Message) /\ Len(Tail(q)) = Len(q) - 1 /\ Head(q) = q[1]
      /\ \A i \in 1..Len(q) - 1 : Tail(q)[i] = q[i + 1]
      /\ Len(q) \in Nat /\ Len(q) >= 1 /\ DOMAIN q = 1..Len(q)
      /\ DOMAIN Tail(q) = 1..Len(q) - 1
  BY HeadTailProperties, LenProperties, EmptySeq
<1>. DEFINE n == Len(q)
            r == Tail(q)
<1>. HIDE DEF n, r
<1>2. n \in Nat /\ n >= 1 /\ DOMAIN q = 1..n /\ DOMAIN r = 1..n - 1
      /\ \A i \in 1..n - 1 : r[i] = q[i + 1]
  BY <1>1 DEF n, r
<1>3. ASSUME NEW t, In(q, t)
      PROVE  Header(t) \in {q[1]} \/ In(r, t)
  <2>1. PICK j \in 1..n : q[j] = Header(t)
    BY <1>2, <1>3 DEF In
  <2>2. CASE j = 1
    BY <2>1, <2>2
  <2>3. CASE j # 1
    <3>1. j - 1 \in 1..n - 1 /\ (j - 1) + 1 = j
      BY <1>2, <2>3
    <3>2. r[j - 1] = Header(t)
      BY <1>2, <2>1, <3>1
    <3>. QED  BY <1>2, <3>1, <3>2 DEF In
  <2>. QED  BY <2>2, <2>3
<1>4. Behind(q[1], w)
  <2>1. 1 \in DOMAIN q /\ ~\E j \in 1..1 - 1 : q[j] = Header(q[1].track)
    BY <1>2
  <2>. QED  BY <2>1, Zenon DEF Lined
<1>5. ASSUME NEW i \in DOMAIN r
      PROVE  \/ Behind(r[i], w) \/ Header(r[i].track) \in {q[1]}
             \/ \E j \in 1..i - 1 : r[j] = Header(r[i].track)
  <2>1. i + 1 \in DOMAIN q /\ r[i] = q[i + 1] /\ i \in 1..n - 1
    BY <1>2
  <2>2. Behind(r[i], w) \/ \E j \in 1..(i + 1) - 1 : q[j] = Header(r[i].track)
    BY <2>1, Zenon DEF Lined
  <2>3. ASSUME NEW j \in 1..(i + 1) - 1, q[j] = Header(r[i].track)
        PROVE  Header(r[i].track) \in {q[1]} \/ \E k \in 1..i - 1 : r[k] = Header(r[i].track)
    <3>1. CASE j = 1
      BY <2>3, <3>1
    <3>2. CASE j # 1
      <4>1. j - 1 \in 1..n - 1 /\ j - 1 \in 1..i - 1 /\ (j - 1) + 1 = j
        BY <1>2, <2>1, <3>2
      <4>2. r[j - 1] = Header(r[i].track)
        BY <1>2, <2>3, <4>1
      <4>. QED  BY <4>1, <4>2
    <3>. QED  BY <3>1, <3>2
  <2>. QED  BY <2>2, <2>3
<1>6. \A m \in o : Behind(m, w) \/ Header(m.track) \in {q[1]} \/ In(r, m.track)
  BY <1>3, Zenon DEF Lined
<1>7. \A t \in started :
        \/ t \in shed \/ In(w, t) \/ Header(t) \in {q[1]} \/ In(r, t) \/ Header(t) \in o
  BY <1>3, Zenon DEF Lined
<1>8. Lined(w, {q[1]}, r, o)
  BY <1>4, <1>5, <1>6, <1>7, Zenon DEF Lined
<1>. QED  BY <1>1, <1>8 DEF r

LEMMA AppendIs ==
  ASSUME NEW S, NEW q \in Seq(S), NEW m \in S
  PROVE  /\ Append(q, m) \in Seq(S) /\ Len(q) \in Nat
         /\ Len(Append(q, m)) = Len(q) + 1
         /\ DOMAIN q = 1..Len(q) /\ DOMAIN Append(q, m) = 1..Len(q) + 1
         /\ \A i \in 1..Len(q) : Append(q, m)[i] = q[i]
         /\ Append(q, m)[Len(q) + 1] = m
  BY AppendProperties, LenProperties

LEMMA InAppended ==
  ASSUME NEW q \in Seq(Stream!Message), NEW m \in Stream!Message, NEW t,
         In(q, t) \/ Header(t) = m
  PROVE  In(Append(q, m), t)
<1>. DEFINE r == Append(q, m)
            n == Len(q)
<1>1. /\ n \in Nat /\ DOMAIN q = 1..n /\ DOMAIN r = 1..n + 1
      /\ (\A i \in 1..n : r[i] = q[i]) /\ r[n + 1] = m
  BY AppendIs
<1>. HIDE DEF r, n
<1>2. CASE In(q, t)
  <2>1. PICK j \in 1..n : q[j] = Header(t)
    BY <1>1, <1>2 DEF In
  <2>2. j \in 1..n + 1 /\ r[j] = Header(t)
    BY <1>1, <2>1
  <2>3. In(r, t)
    BY <1>1, <2>2 DEF In
  <2>. QED  BY <2>3 DEF r
<1>3. CASE Header(t) = m
  <2>1. n + 1 \in 1..n + 1 /\ r[n + 1] = Header(t)
    BY <1>1, <1>3
  <2>2. In(r, t)
    BY <1>1, <2>1 DEF In
  <2>. QED  BY <2>2 DEF r
<1>. QED  BY <1>2, <1>3

\* What was in hand is written.
LEMMA LineWritten ==
  ASSUME NEW w \in Seq(Stream!Message), NEW m \in Stream!Message, NEW q, NEW o,
         Lined(w, {m}, q, o)
  PROVE  Lined(Append(w, m), {}, q, o)
<1>. DEFINE v == Append(w, m)
<1>1. \A t : In(w, t) \/ Header(t) \in {m} => In(v, t)
  BY InAppended
<1>. HIDE DEF v
<1>2. \A x : Behind(x, w) => Behind(x, v)
  BY <1>1 DEF Behind
<1>3. \A x : Header(x.track) \in {m} => Behind(x, v)
  BY <1>1 DEF Behind
<1>4. Lined(v, {}, q, o)
  BY <1>1, <1>2, <1>3 DEF Lined
<1>. QED  BY <1>4 DEF v

\* What was offered is queued.
LEMMA LineQueued ==
  ASSUME NEW w, NEW h, NEW q \in Seq(Stream!Message), NEW m \in Stream!Message,
         Lined(w, h, q, {m})
  PROVE  Lined(w, h, Append(q, m), {})
<1>. DEFINE r == Append(q, m)
            n == Len(q)
<1>1. /\ n \in Nat /\ DOMAIN q = 1..n /\ DOMAIN r = 1..n + 1
      /\ (\A i \in 1..n : r[i] = q[i]) /\ r[n + 1] = m
  BY AppendIs
<1>2. \A t : In(q, t) \/ Header(t) = m => In(r, t)
  BY InAppended
<1>. HIDE DEF r, n
<1>3. ASSUME NEW i \in DOMAIN r
      PROVE  \/ Behind(r[i], w) \/ Header(r[i].track) \in h
             \/ \E j \in 1..i - 1 : r[j] = Header(r[i].track)
  <2>1. CASE i \in 1..n
    <3>1. i \in DOMAIN q /\ r[i] = q[i]
      BY <1>1, <2>1
    <3>2. \/ Behind(r[i], w) \/ Header(r[i].track) \in h
          \/ \E j \in 1..i - 1 : q[j] = Header(r[i].track)
      BY <3>1, Zenon DEF Lined
    <3>3. \A j \in 1..i - 1 : r[j] = q[j]
      BY <1>1, <2>1
    <3>. QED  BY <3>2, <3>3
  <2>2. CASE i = n + 1
    <3>1. r[i] = m /\ 1..i - 1 = DOMAIN q
      BY <1>1, <2>2
    <3>2. Behind(m, w) \/ Header(m.track) \in h \/ In(q, m.track)
      BY Zenon DEF Lined
    <3>3. \A j \in DOMAIN q : r[j] = q[j]
      BY <1>1
    <3>. QED  BY <3>1, <3>2, <3>3 DEF In
  <2>. QED  BY <1>1, <2>1, <2>2
<1>4. \A t \in started :
        t \in shed \/ In(w, t) \/ Header(t) \in h \/ In(r, t) \/ Header(t) \in {}
  BY <1>2 DEF Lined
<1>5. \A x \in h : Behind(x, w)
  BY DEF Lined
<1>6. Lined(w, h, r, {})
  BY <1>3, <1>4, <1>5, Zenon DEF Lined
<1>. QED  BY <1>6 DEF r

-----------------------------------------------------------------------------
(* The task's steps that move a message.                                   *)

\* What a step of the task needs to leave the invariant true.
LEMMA TaskSteps ==
  ASSUME LinkInv, Stream!Keeps,
         channel' \in Seq(Stream!Message), Len(channel') =< ChannelBound,
         \A i \in DOMAIN channel' : channel'[i].track \in started,
         wire' \in Seq(Stream!Message), buffered' \in 0..buffered, dials' = dials,
         phase' = phase, TaskTyped', Hand' \subseteq Stream!Message, HeaderFirst',
         Reached' => Lined(wire', Hand', channel', Offered)
  PROVE  LinkInv'
<1>. USE DEF LinkInv
<1>1. /\ feeder' = feeder /\ sent' = sent /\ started' = started /\ cached' = cached
      /\ shed' = shed /\ closed' = closed /\ handle' = handle
  BY KeepsMeans
<1>2. FeedTyped' /\ EndTyped'
  BY <1>1, TypeParts DEF FeedTyped, EndTyped
<1>3. PipeTyped'
  <2>1. buffered' \in 0..MaxSent
    BY Bounds, TypeParts DEF PipeTyped
  <2>2. dials' \in 0..MaxDials
    BY BufferedTyped
  <2>. QED  BY <2>1, <2>2 DEF PipeTyped
<1>4. Offered' = Offered
  BY <1>1 DEF Offered, Offering
<1>5. KnownInv'
  <2>1. buffered' + (IF feeder.at \in {"try", "credit"} THEN 1 ELSE 0) =< sent
    <3>. DEFINE tendered == IF feeder.at \in {"try", "credit"} THEN 1 ELSE 0
    <3>1. buffered \in Nat /\ sent \in Nat /\ tendered \in Nat
      BY Bounds, TypeParts DEF PipeTyped, FeedTyped
    <3>2. buffered + tendered =< sent
      BY BufferedTyped
    <3>. HIDE DEF tendered
    <3>3. buffered' \in Nat /\ buffered' =< buffered
      BY <3>1
    <3>4. buffered' + tendered =< sent
      BY <3>1, <3>2, <3>3, LessStill, Zenon
    <3>. QED  BY <3>4 DEF tendered
  <2>. QED  BY <1>1, <1>4, <2>1 DEF KnownInv
<1>6. ASSUME NEW w, NEW h, NEW q, NEW o, Lined(w, h, q, o)
      PROVE  Lined(w, h, q, o)'
  <2>1. \A m, v : Behind(m, v) <=> Behind(m, v)'
    BY <1>1 DEF Behind
  <2>. QED  BY <1>1, <1>6, <2>1 DEF Lined
<1>7. Reached' => Lined(wire, Hand, channel, Offered)'
  <2>. SUFFICES ASSUME Reached'
                PROVE  Lined(wire, Hand, channel, Offered)'
    OBVIOUS
  <2>1. PICK w, h, q, o : w = wire' /\ h = Hand' /\ q = channel' /\ o = Offered
    OBVIOUS
  <2>2. Lined(w, h, q, o)'
    BY <1>6, <2>1
  <2>3. w = wire' /\ h = Hand' /\ q = channel' /\ o = Offered'
    BY <1>4, <2>1
  <2>4. \A m, v : Behind(m, v) <=> Behind(m, v)'
    BY <1>1 DEF Behind
  <2>. QED  BY <1>1, <2>2, <2>3, <2>4 DEF Lined
<1>. QED  BY <1>2, <1>3, <1>5, <1>7, TypeJoined

\* Every cached header is told; then the line is behind them.
LEMMA ReplayKeeps == LinkInv /\ Stream!Replay => LinkInv'
<1>. SUFFICES ASSUME LinkInv, Stream!Replay
     PROVE  LinkInv'
  OBVIOUS
<1>1. /\ task.at = "replay" /\ Stream!Keeps
      /\ UNCHANGED <<channel, buffered, dials, phase>>
  BY DEF Stream!Replay
<1>2. CASE Stream!Goes("pause") /\ UNCHANGED wire
  <2>1. "pause" \in Idle
    BY DEF Idle
  <2>. QED  BY <1>1, <1>2, <2>1, BufferedTyped, WaitsKeeps
<1>3. CASE /\ wire' = [i \in DOMAIN Stream!SetToSeq(cached) |->
                         [track |-> Stream!SetToSeq(cached)[i], header |-> TRUE]]
           /\ Stream!Goes("check")
  <2>. DEFINE L == Stream!SetToSeq(cached)
  <2>1. cached = started /\ IsFiniteSet(cached) /\ cached \subseteq Track
    BY TypeParts DEF LinkInv, KnownInv, FeedTyped
  <2>2. PICK n \in Nat : L \in [1..n -> cached] /\ \A x \in cached : \E i \in 1..n : L[i] = x
    BY <2>1, AllListed
  <2>3. wire' = [i \in DOMAIN L |-> Header(L[i])]
    BY <1>3 DEF Header
  <2>. HIDE DEF L
  <2>4. /\ DOMAIN wire' = 1..n /\ \A i \in 1..n : wire'[i] = Header(L[i])
        /\ \A i \in 1..n : L[i] \in Track
    BY <2>1, <2>2, <2>3
  <2>5. wire' \in Seq(Stream!Message)
    <3>1. wire' = [i \in 1..n |-> Header(L[i])]
      BY <2>2, <2>3
    <3>2. \A i \in 1..n : Header(L[i]) \in Stream!Message
      BY <2>4, MessageType
    <3>. QED  BY <3>1, <3>2
  <2>6. HeaderFirst'
    BY <2>4 DEF HeaderFirst, Stream!HeaderFirst, Header
  <2>7. \A t \in started : In(wire', t)
    BY <2>1, <2>2, <2>4 DEF In
  <2>8. task' = [at |-> "check", message |-> Stream!None, woken |-> FALSE]
    BY <1>3 DEF Stream!Goes
  <2>9. TaskTyped' /\ Hand' = {}
    BY <2>8 DEF TaskTyped, Places, Hand, Carries
  <2>10. Lined(wire', {}, channel, Offered)
    <3>1. \A m : m.track \in started => Behind(m, wire')
      BY <2>7 DEF Behind
    <3>2. \A i \in DOMAIN channel : Behind(channel[i], wire')
      BY <3>1 DEF LinkInv, KnownInv
    <3>3. \A m \in Offered : Behind(m, wire')
      BY <3>1 DEF LinkInv, KnownInv
    <3>. QED  BY <2>7, <3>2, <3>3 DEF Lined
  <2>11. /\ channel' = channel /\ channel \in Seq(Stream!Message)
         /\ Len(channel) =< ChannelBound
         /\ \A i \in DOMAIN channel : channel[i].track \in started
    BY <1>1, TypeParts DEF LinkInv, PipeTyped, KnownInv
  <2>12. Lined(wire', Hand', channel', Offered)
    BY <2>9, <2>10, <2>11
  <2>. QED  BY <1>1, <2>5, <2>6, <2>9, <2>11, <2>12, BufferedTyped, TaskSteps
<1>. QED  BY <1>2, <1>3 DEF Stream!Replay

LEMMA TakeMessageKeeps == LinkInv /\ Stream!TakeMessage => LinkInv'
<1>. SUFFICES ASSUME LinkInv, Stream!TakeMessage
     PROVE  LinkInv'
  OBVIOUS
<1>1. /\ task.at = "live" /\ channel # <<>> /\ channel' = Tail(channel) /\ Stream!Keeps
      /\ task' = [at |-> "took", message |-> Head(channel), woken |-> FALSE]
      /\ UNCHANGED <<buffered, dials, wire, phase>>
  BY DEF Stream!TakeMessage
<1>2. /\ channel \in Seq(Stream!Message) /\ Len(channel) =< ChannelBound
      /\ wire \in Seq(Stream!Message)
      /\ \A i \in DOMAIN channel : channel[i].track \in started
  BY TypeParts DEF LinkInv, PipeTyped, KnownInv
<1>3. /\ Tail(channel) \in Seq(Stream!Message) /\ Head(channel) \in Stream!Message
      /\ Len(Tail(channel)) = Len(channel) - 1 /\ Len(channel) \in Nat
      /\ Len(channel) >= 1 /\ DOMAIN Tail(channel) = 1..Len(channel) - 1
      /\ DOMAIN channel = 1..Len(channel)
      /\ \A i \in 1..Len(channel) - 1 : Tail(channel)[i] = channel[i + 1]
  BY <1>1, <1>2, HeadTailProperties, LenProperties, EmptySeq
<1>4. channel' \in Seq(Stream!Message) /\ Len(channel') =< ChannelBound
  BY <1>1, <1>2, <1>3, Bounds
<1>5. \A i \in DOMAIN channel' : channel'[i].track \in started
  <2>1. \A i \in 1..Len(channel) - 1 : i + 1 \in DOMAIN channel
    BY <1>3
  <2>. QED  BY <1>1, <1>2, <1>3, <2>1
<1>6. TaskTyped' /\ Hand' = {Head(channel)}
  BY <1>1, <1>3 DEF TaskTyped, Places, Hand, Carries
<1>7. Hand = {} /\ Reached
  BY <1>1 DEF Hand, Carries, Reached
<1>8. Lined(wire, {Head(channel)}, Tail(channel), Offered)
  <2>1. Lined(wire, {}, channel, Offered)
    BY <1>7 DEF LinkInv
  <2>. QED  BY <1>1, <1>2, <2>1, LineTaken
<1>9. Lined(wire', Hand', channel', Offered)
  BY <1>1, <1>6, <1>8
<1>10. HeaderFirst'
  <2>1. wire' = wire /\ shed' = shed
    BY <1>1, KeepsMeans
  <2>. QED  BY <2>1 DEF LinkInv, HeaderFirst, Stream!HeaderFirst
<1>11. Hand' \subseteq Stream!Message
  BY <1>3, <1>6
<1>. QED  BY <1>1, <1>2, <1>4, <1>5, <1>6, <1>9, <1>10, <1>11, BufferedTyped, TaskSteps

\* A message written stands behind its header.
LEMMA WriteKeeps == LinkInv /\ Stream!Write => LinkInv'
<1>. SUFFICES ASSUME LinkInv, Stream!Write
     PROVE  LinkInv'
  OBVIOUS
<1>1. /\ task.at = "writing" /\ buffered' = Stream!Debited(1) /\ Stream!Keeps
      /\ UNCHANGED <<channel, dials, phase>>
  BY DEF Stream!Write
<1>2. buffered' \in 0..buffered /\ dials' \in 0..MaxDials
  BY <1>1, BufferedTyped
<1>3. CASE UNCHANGED wire /\ Stream!Goes("pause")
  <2>1. "pause" \in Idle
    BY DEF Idle
  <2>. QED  BY <1>1, <1>2, <1>3, <2>1, WaitsKeeps
<1>4. CASE wire' = Append(wire, task.message) /\ Stream!Goes("top")
  <2>. DEFINE m == task.message
              n == Len(wire)
  <2>1. /\ channel \in Seq(Stream!Message) /\ Len(channel) =< ChannelBound
        /\ wire \in Seq(Stream!Message)
        /\ \A i \in DOMAIN channel : channel[i].track \in started
    BY TypeParts DEF LinkInv, PipeTyped, KnownInv
  <2>2. Carries /\ Reached /\ Hand = {m}
    BY <1>1 DEF Carries, Reached, Hand
  <2>3. m \in Stream!Message
    BY <2>2 DEF LinkInv, KnownInv
  <2>4. Lined(wire, {m}, channel, Offered)
    BY <2>2 DEF LinkInv
  <2>5. task' = [at |-> "top", message |-> Stream!None, woken |-> FALSE]
    BY <1>4 DEF Stream!Goes
  <2>6. TaskTyped' /\ Hand' = {}
    BY <2>5 DEF TaskTyped, Places, Hand, Carries
  <2>. HIDE DEF m
  <2>7. wire' = Append(wire, m)
    BY <1>4 DEF m
  <2>8. Lined(wire', Hand', channel', Offered)
    <3>1. Lined(Append(wire, m), {}, channel, Offered)
      BY <2>1, <2>3, <2>4, LineWritten
    <3>. QED  BY <1>1, <2>6, <2>7, <3>1
  <2>9. /\ wire' \in Seq(Stream!Message) /\ n \in Nat /\ DOMAIN wire = 1..n
        /\ DOMAIN wire' = 1..n + 1 /\ (\A i \in 1..n : wire'[i] = wire[i])
        /\ wire'[n + 1] = m
    BY <2>1, <2>3, <2>7, AppendIs
  <2>. HIDE DEF n
  <2>10. HeaderFirst'
    <3>1. Behind(m, wire)
      BY <2>4 DEF Lined
    <3>2. ASSUME NEW i \in 1..n
          PROVE  wire'[i].header \/ wire'[i].track \in shed
                   \/ \E j \in 1..i - 1 : wire'[j] = [wire'[i] EXCEPT !.header = TRUE]
      <4>1. wire[i].header \/ wire[i].track \in shed
              \/ \E j \in 1..i - 1 : wire[j] = [wire[i] EXCEPT !.header = TRUE]
        BY <2>9 DEF LinkInv, HeaderFirst, Stream!HeaderFirst
      <4>2. \A j \in 1..i - 1 : j \in 1..n
        BY <2>9
      <4>. QED  BY <2>9, <4>1, <4>2
    <3>3. wire'[n + 1].header \/ wire'[n + 1].track \in shed
            \/ \E j \in 1..(n + 1) - 1 : wire'[j] = [wire'[n + 1] EXCEPT !.header = TRUE]
      <4>1. [m EXCEPT !.header = TRUE] = Header(m.track)
        BY <2>3, MessageType DEF Header
      <4>2. In(wire, m.track) => \E j \in 1..n : wire'[j] = Header(m.track)
        BY <2>9 DEF In
      <4>3. (n + 1) - 1 = n
        BY <2>9
      <4>. QED  BY <2>9, <3>1, <4>1, <4>2, <4>3 DEF Behind
    <3>4. \A i \in 1..n + 1 : i \in 1..n \/ i = n + 1
      BY <2>9
    <3>5. shed' = shed
      BY <1>1, KeepsMeans
    <3>. QED  BY <2>9, <3>2, <3>3, <3>4, <3>5 DEF HeaderFirst, Stream!HeaderFirst
  <2>. QED  BY <1>1, <1>2, <2>1, <2>6, <2>8, <2>9, <2>10, TaskSteps
<1>. QED  BY <1>3, <1>4 DEF Stream!Write

-----------------------------------------------------------------------------
(* The stream thread's steps.                                              *)

LEMMA OfferKeeps == LinkInv /\ Stream!Offer => LinkInv'
<1>. SUFFICES ASSUME LinkInv, Stream!Offer
     PROVE  LinkInv'
  OBVIOUS
<1>1. PICK t \in Track :
        /\ feeder' = [at |-> "try", message |-> [track |-> t, header |-> t \notin started]]
        /\ started' = started \cup {t}
        /\ cached' = IF t \in started THEN cached ELSE cached \cup {t}
  BY DEF Stream!Offer
<1>2. /\ feeder.at = "free" /\ sent < MaxSent /\ sent' = sent + 1
      /\ shed' = shed /\ channel' = channel /\ buffered' = buffered /\ task' = task
      /\ dials' = dials /\ wire' = wire /\ phase' = phase /\ closed' = closed
      /\ handle' = handle
  BY DEF Stream!Offer, Stream!taskVars
<1>a. PICK m : m = [track |-> t, header |-> t \notin started]
  OBVIOUS
<1>3. m \in Stream!Message /\ m.track = t /\ (~m.header => t \in started)
      /\ (t \notin started => Header(t) = m)
  BY <1>a DEF Stream!Message, Header
<1>4. feeder' = [at |-> "try", message |-> m]
  BY <1>1, <1>a
<1>5. Offered = {} /\ Offered' = {m} /\ Hand' = Hand /\ (Reached' <=> Reached)
  BY <1>2, <1>4 DEF Offered, Offering, Hand, Reached, Carries
<1>6. Stream!TypeOK'
  <2>1. sent' \in 0..MaxSent
    <3>1. sent \in 0..MaxSent /\ MaxSent \in Nat
      BY Bounds, TypeParts DEF LinkInv, FeedTyped
    <3>. QED  BY <1>2, <3>1
  <2>2. FeedTyped'
    BY <1>1, <1>2, <1>3, <1>4, <2>1, TypeParts DEF LinkInv, FeedTyped
  <2>3. PipeTyped' /\ TaskTyped' /\ EndTyped'
    BY <1>2, TypeParts DEF LinkInv, PipeTyped, TaskTyped, EndTyped
  <2>. QED  BY <2>2, <2>3, TypeJoined
<1>7. KnownInv'
  <2>1. cached = started /\ IsFiniteSet(started)
        /\ \A i \in DOMAIN channel : channel[i].track \in started
    BY DEF LinkInv, KnownInv
  <2>2. cached' = started' /\ IsFiniteSet(started')
    BY <1>1, <2>1, FS_AddElement
  <2>3. \A i \in DOMAIN channel' : channel'[i].track \in started'
    BY <1>1, <1>2, <2>1
  <2>4. \A x \in Offered' : x \in Stream!Message /\ x.track \in started'
    BY <1>1, <1>3, <1>5
  <2>5. Hand' \subseteq Stream!Message
    BY <1>5 DEF LinkInv, KnownInv
  <2>6. buffered' + (IF feeder'.at \in {"try", "credit"} THEN 1 ELSE 0) =< sent'
    <3>1. buffered \in Nat /\ sent \in Nat
      BY Bounds, BufferedTyped, TypeParts DEF LinkInv, FeedTyped
    <3>2. buffered + 0 =< sent
      BY <1>2, BufferedTyped
    <3>3. buffered + 1 =< sent + 1
      BY <3>1, <3>2
    <3>4. feeder'.at = "try"
      BY <1>4
    <3>. QED  BY <1>2, <3>3, <3>4
  <2>. QED  BY <2>2, <2>3, <2>4, <2>5, <2>6 DEF KnownInv
<1>8. HeaderFirst'
  BY <1>2 DEF LinkInv, HeaderFirst, Stream!HeaderFirst
<1>9. Reached' => Lined(wire, Hand, channel, Offered)'
  <2>. SUFFICES ASSUME Reached
                PROVE  Lined(wire, Hand, channel, Offered)'
    BY <1>5
  <2>1. PICK w, h, q : w = wire /\ h = Hand /\ q = channel
    OBVIOUS
  <2>2. Lined(w, h, q, {})
    BY <1>5, <2>1 DEF LinkInv
  <2>3. w = wire' /\ h = Hand' /\ q = channel'
    BY <1>2, <1>5, <2>1
  <2>4. \A x, v : Behind(x, v) <=> Behind(x, v)'
    BY <1>2 DEF Behind
  <2>5. Behind(m, w)' \/ Header(m.track) \in h \/ In(q, m.track)
    <3>1. CASE m.header
      BY <3>1, Zenon DEF Behind
    <3>2. CASE ~m.header
      <4>1. t \in started
        BY <1>3, <3>2
      <4>2. t \in shed \/ In(w, t) \/ Header(t) \in h \/ In(q, t)
        BY <2>2, <4>1 DEF Lined
      <4>. QED  BY <1>2, <1>3, <4>2 DEF Behind
    <3>. QED  BY <3>1, <3>2
  <2>6. \A x \in started \cup {t} :
          \/ x \in shed \/ In(w, x) \/ Header(x) \in h \/ In(q, x) \/ Header(x) \in {m}
    <3>1. \A x \in started :
            \/ x \in shed \/ In(w, x) \/ Header(x) \in h \/ In(q, x)
      BY <2>2 DEF Lined
    <3>2. t \in started \/ Header(t) \in {m}
      BY <1>3
    <3>. QED  BY <3>1, <3>2
  <2>7. \A x \in h : Behind(x, w)'
    BY <2>2, <2>4 DEF Lined
  <2>8. \A i \in DOMAIN q :
          \/ Behind(q[i], w)' \/ Header(q[i].track) \in h
          \/ \E j \in 1..i - 1 : q[j] = Header(q[i].track)
    BY <2>2, <2>4, Zenon DEF Lined
  <2>9. /\ shed' = shed /\ started' = started \cup {t} /\ Offered' = {m}
    BY <1>1, <1>2, <1>5
  <2>10. Lined(w, h, q, {m})'
    BY <2>5, <2>6, <2>7, <2>8, <2>9 DEF Lined
  <2>11. Lined(w, h, q, Offered)'
    BY <2>9, <2>10 DEF Lined
  <2>. QED  BY <2>3, <2>4, <2>11 DEF Lined
<1>. QED  BY <1>6, <1>7, <1>8, <1>9 DEF LinkInv

\* A shed header excuses its track; what was offered was only that.
LEMMA LineShed ==
  ASSUME NEW w, NEW h, NEW q, NEW m \in Stream!Message, Lined(w, h, q, {m}),
         started' = started,
         shed' = IF m.header THEN shed \cup {m.track} ELSE shed
  PROVE  Lined(w, h, q, {})'
<1>1. \A x, v : Behind(x, v) => Behind(x, v)'
  BY DEF Behind
<1>2. \A x \in h : Behind(x, w)'
  BY <1>1 DEF Lined
<1>3. \A i \in DOMAIN q :
        \/ Behind(q[i], w)' \/ Header(q[i].track) \in h
        \/ \E j \in 1..i - 1 : q[j] = Header(q[i].track)
  BY <1>1, Zenon DEF Lined
<1>4. \A t \in started :
        t \in shed' \/ In(w, t) \/ Header(t) \in h \/ In(q, t) \/ Header(t) \in {}
  <2>. SUFFICES ASSUME NEW t \in started
                PROVE  t \in shed' \/ In(w, t) \/ Header(t) \in h \/ In(q, t)
    OBVIOUS
  <2>1. t \in shed \/ In(w, t) \/ Header(t) \in h \/ In(q, t) \/ Header(t) \in {m}
    BY DEF Lined
  <2>2. CASE Header(t) \in {m}
    <3>1. m.header /\ m.track = t
      BY <2>2 DEF Header
    <3>. QED  BY <3>1
  <2>. QED  BY <2>1, <2>2
<1>. QED  BY <1>2, <1>3, <1>4 DEF Lined

LEMMA TrySendKeeps == LinkInv /\ Stream!TrySend => LinkInv'
<1>. SUFFICES ASSUME LinkInv, Stream!TrySend
     PROVE  LinkInv'
  OBVIOUS
<1>. DEFINE m == feeder.message
            full == Len(channel) = ChannelBound
            taken == task.at # "ended" /\ ~full
<1>1. /\ feeder.at = "try"
      /\ channel' = IF taken THEN Append(channel, m) ELSE channel
      /\ feeder' = [feeder EXCEPT !.at = IF taken THEN "credit" ELSE "free"]
      /\ shed' = IF full /\ m.header THEN shed \cup {m.track} ELSE shed
      /\ sent' = sent /\ started' = started /\ cached' = cached
      /\ buffered' = buffered /\ task' = task /\ dials' = dials /\ wire' = wire
      /\ phase' = phase /\ closed' = closed /\ handle' = handle
  BY DEF Stream!TrySend, Stream!taskVars
<1>2. Offered = {m}
  BY <1>1 DEF Offered, Offering
<1>3. /\ m \in Stream!Message /\ m.track \in started /\ started \subseteq Track
      /\ shed \subseteq Track
  BY <1>2, TypeParts DEF LinkInv, KnownInv, FeedTyped
<1>4. /\ channel \in Seq(Stream!Message) /\ Len(channel) =< ChannelBound
      /\ Len(channel) \in Nat
  BY TypeParts, LenProperties DEF LinkInv, PipeTyped
<1>5. /\ feeder'.at = IF taken THEN "credit" ELSE "free"
      /\ feeder' \in [at : {"free", "try", "credit", "gone"},
                      message : Stream!Message \cup {Stream!None}]
  <2>1. feeder \in [at : {"free", "try", "credit", "gone"},
                    message : Stream!Message \cup {Stream!None}]
    BY TypeParts DEF LinkInv, FeedTyped
  <2>. QED  BY <1>1, <2>1
<1>6. Offered' = {} /\ Hand' = Hand /\ (Reached' <=> Reached)
  BY <1>1, <1>5 DEF Offered, Offering, Hand, Reached, Carries
<1>. HIDE DEF m
<1>7. Stream!TypeOK'
  <2>1. FeedTyped'
    BY <1>1, <1>3, <1>5, TypeParts DEF LinkInv, FeedTyped
  <2>2. channel' \in Seq(Stream!Message) /\ Len(channel') =< ChannelBound
    <3>1. CASE taken
      <4>1. Append(channel, m) \in Seq(Stream!Message)
            /\ Len(Append(channel, m)) = Len(channel) + 1
        BY <1>3, <1>4, AppendIs
      <4>2. Len(channel) # ChannelBound /\ channel' = Append(channel, m)
        BY <1>1, <3>1
      <4>. QED  BY <1>4, <4>1, <4>2, Bounds
    <3>2. CASE ~taken
      BY <1>1, <1>4, <3>2
    <3>. QED  BY <3>1, <3>2
  <2>3. PipeTyped' /\ TaskTyped' /\ EndTyped'
    BY <1>1, <2>2, TypeParts DEF LinkInv, PipeTyped, TaskTyped, EndTyped
  <2>. QED  BY <2>1, <2>3, TypeJoined
<1>8. KnownInv'
  <2>1. \A i \in DOMAIN channel : channel[i].track \in started
    BY DEF LinkInv, KnownInv
  <2>2. \A i \in DOMAIN channel' : channel'[i].track \in started
    <3>1. CASE taken
      <4>1. /\ DOMAIN channel = 1..Len(channel)
            /\ DOMAIN Append(channel, m) = 1..Len(channel) + 1
            /\ \A i \in 1..Len(channel) : Append(channel, m)[i] = channel[i]
            /\ Append(channel, m)[Len(channel) + 1] = m
        BY <1>3, <1>4, AppendIs
      <4>2. channel' = Append(channel, m)
        BY <1>1, <3>1
      <4>3. \A i \in 1..Len(channel) + 1 : i \in 1..Len(channel) \/ i = Len(channel) + 1
        BY <1>4
      <4>. QED  BY <1>3, <2>1, <4>1, <4>2, <4>3, Zenon
    <3>2. CASE ~taken
      BY <1>1, <2>1, <3>2
    <3>. QED  BY <3>1, <3>2
  <2>3. buffered' + (IF feeder'.at \in {"try", "credit"} THEN 1 ELSE 0) =< sent'
    <3>1. buffered \in Nat /\ sent \in Nat
      BY Bounds, BufferedTyped, TypeParts DEF LinkInv, FeedTyped
    <3>2. buffered + 1 =< sent
      BY <1>1, BufferedTyped
    <3>3. buffered + 0 =< sent
      BY <3>1, <3>2
    <3>. QED  BY <1>1, <1>5, <3>2, <3>3
  <2>. QED  BY <1>1, <1>6, <2>2, <2>3 DEF LinkInv, KnownInv
<1>9. HeaderFirst'
  <2>1. wire' = wire /\ shed \subseteq shed'
    BY <1>1
  <2>. QED  BY <2>1 DEF LinkInv, HeaderFirst, Stream!HeaderFirst
<1>10. Reached' => Lined(wire, Hand, channel, Offered)'
  <2>. SUFFICES ASSUME Reached
                PROVE  Lined(wire, Hand, channel, Offered)'
    BY <1>6
  <2>0. task.at # "ended"
    BY DEF Reached, Carries
  <2>1. PICK w, h, q, r : w = wire /\ h = Hand /\ q = channel /\ r = channel'
    OBVIOUS
  <2>2. Lined(w, h, q, {m})
    BY <1>2, <2>1 DEF LinkInv
  <2>3. w = wire' /\ h = Hand'
    BY <1>1, <1>6, <2>1
  <2>4. Lined(w, h, r, {})'
    <3>1. CASE taken
      <4>1. r = Append(q, m) /\ q \in Seq(Stream!Message)
        BY <1>1, <1>4, <2>1, <3>1
      <4>2. Lined(w, h, r, {})
        BY <1>3, <2>2, <4>1, LineQueued
      <4>3. shed' = shed /\ started' = started
        BY <1>1, <3>1
      <4>. QED  BY <4>2, <4>3 DEF Lined, Behind
    <3>2. CASE ~taken
      <4>1. r = q /\ started' = started
            /\ shed' = IF m.header THEN shed \cup {m.track} ELSE shed
        BY <1>1, <2>0, <2>1, <3>2
      <4>2. Lined(w, h, q, {})'
        BY <1>3, <2>2, <4>1, LineShed
      <4>. QED  BY <4>1, <4>2
    <3>. QED  BY <3>1, <3>2
  <2>. QED  BY <1>6, <2>1, <2>3, <2>4 DEF Lined, Behind
<1>. QED  BY <1>7, <1>8, <1>9, <1>10 DEF LinkInv

\* What the thread accounts for, or that it goes.
LEMMA FeederKeeps == LinkInv /\ (Stream!Credit \/ Stream!ThreadExits) => LinkInv'
<1>. SUFFICES ASSUME LinkInv, Stream!Credit \/ Stream!ThreadExits
     PROVE  LinkInv'
  OBVIOUS
<1>1. /\ sent' = sent /\ started' = started /\ cached' = cached /\ shed' = shed
      /\ channel' = channel /\ task' = task /\ dials' = dials /\ wire' = wire
      /\ phase' = phase /\ closed' = closed /\ handle' = handle
      /\ feeder.at \in {"free", "credit"}
      /\ \E a \in {"free", "gone"} : feeder' = [at |-> a, message |-> Stream!None]
      /\ buffered' \in {buffered, buffered + 1}
      /\ feeder.at = "free" => buffered' = buffered
  BY DEF Stream!Credit, Stream!ThreadExits, Stream!taskVars
<1>2. feeder'.at \in {"free", "gone"}
      /\ feeder' \in [at : {"free", "try", "credit", "gone"},
                      message : Stream!Message \cup {Stream!None}]
  BY <1>1
<1>3. FeedTyped' /\ TaskTyped' /\ EndTyped'
  BY <1>1, <1>2, TypeParts DEF LinkInv, FeedTyped, TaskTyped, EndTyped
<1>4. /\ buffered' \in 0..MaxSent
      /\ buffered' + (IF feeder'.at \in {"try", "credit"} THEN 1 ELSE 0) =< sent
  <2>1. buffered \in Nat /\ sent \in 0..MaxSent /\ MaxSent \in Nat
    BY Bounds, BufferedTyped, TypeParts DEF LinkInv, FeedTyped
  <2>2. buffered' \in Nat /\ buffered' =< sent
    <3>1. CASE feeder.at = "free"
      <4>1. buffered + 0 =< sent
        BY <3>1, BufferedTyped
      <4>. QED  BY <1>1, <2>1, <3>1, <4>1
    <3>2. CASE feeder.at = "credit"
      <4>1. buffered + 1 =< sent
        BY <3>2, BufferedTyped
      <4>. QED  BY <1>1, <2>1, <4>1
    <3>. QED  BY <1>1, <3>1, <3>2
  <2>3. PICK b \in Nat : b = buffered' /\ b =< sent
    BY <2>2
  <2>4. sent \in Nat /\ sent =< MaxSent
    BY <2>1
  <2>5. b \in 0..MaxSent
    BY <2>1, <2>3, <2>4
  <2>6. b + 0 =< sent
    BY <2>3
  <2>7. feeder'.at \notin {"try", "credit"}
    BY <1>2
  <2>. QED  BY <2>3, <2>5, <2>6, <2>7
<1>5. Offered' = Offered /\ Hand' = Hand /\ (Reached' => Reached)
  BY <1>1, <1>2 DEF Offered, Offering, Hand, Reached, Carries
<1>. QED  BY <1>1, <1>3, <1>4, <1>5, StandsKeeps

-----------------------------------------------------------------------------
(* The stop's steps.                                                       *)

LEMMA StopKeeps ==
  LinkInv /\ (Stream!Stop \/ Stream!ThreadAwaited \/ Stream!Signal \/ Stream!Notify
              \/ Stream!Awaited \/ Stream!DropHandle) => LinkInv'
<1>. SUFFICES ASSUME LinkInv,
                     \/ Stream!Stop \/ Stream!ThreadAwaited \/ Stream!Signal
                     \/ Stream!Notify \/ Stream!Awaited \/ Stream!DropHandle
     PROVE  LinkInv'
  OBVIOUS
<1>1. /\ feeder' = feeder /\ sent' = sent /\ started' = started /\ cached' = cached
      /\ shed' = shed /\ channel' = channel /\ buffered' = buffered /\ dials' = dials
      /\ wire' = wire
      /\ phase' \in {phase, "closed"} /\ closed' \in {closed, TRUE}
      /\ task' = task \/ task' = [task EXCEPT !.woken = TRUE]
  BY DEF Stream!Stop, Stream!ThreadAwaited, Stream!Signal, Stream!Notify,
         Stream!Awaited, Stream!DropHandle, Stream!Notified, Stream!others,
         Stream!threadVars
<1>2. handle \in [at : {"open", "thread", "signal", "flag", "notify", "wait",
                       "ended", "dropped"},
                 waits : BOOLEAN, ok : BOOLEAN]
  BY TypeParts DEF LinkInv, EndTyped
<1>3. handle' \in [at : {"open", "thread", "signal", "flag", "notify", "wait",
                       "ended", "dropped"},
                 waits : BOOLEAN, ok : BOOLEAN]
  <2>1. CASE Stream!Stop
    <3>1. \/ handle' = [at |-> "thread", waits |-> TRUE, ok |-> TRUE]
          \/ handle' = [at |-> "signal", waits |-> FALSE, ok |-> FALSE]
      BY <2>1 DEF Stream!Stop
    <3>2. CASE handle' = [at |-> "thread", waits |-> TRUE, ok |-> TRUE]
      BY <3>2
    <3>3. CASE handle' = [at |-> "signal", waits |-> FALSE, ok |-> FALSE]
      BY <3>3
    <3>. QED  BY <3>1, <3>2, <3>3
  <2>2. CASE Stream!ThreadAwaited
    BY <1>2, <2>2 DEF Stream!ThreadAwaited
  <2>3. CASE Stream!Signal
    BY <1>2, <2>3 DEF Stream!Signal
  <2>4. CASE Stream!Notify
    BY <1>2, <2>4 DEF Stream!Notify
  <2>5. CASE Stream!Awaited
    BY <1>2, <2>5 DEF Stream!Awaited
  <2>6. CASE Stream!DropHandle
    BY <1>2, <2>6 DEF Stream!DropHandle
  <2>. QED  BY <2>1, <2>2, <2>3, <2>4, <2>5, <2>6
<1>4. task \in [at : Places, message : Stream!Message \cup {Stream!None}, woken : BOOLEAN]
  BY TypeParts DEF LinkInv, TaskTyped
<1>5. TaskTyped' /\ task'.at = task.at /\ task'.message = task.message
  <2>. HIDE DEF Places
  <2>. QED  BY <1>1, <1>4 DEF TaskTyped
<1>6. FeedTyped' /\ EndTyped'
  BY <1>1, <1>3, TypeParts DEF LinkInv, FeedTyped, EndTyped
<1>7. Offered' = Offered /\ Hand' = Hand /\ (Reached' => Reached)
  BY <1>1, <1>5 DEF Offered, Offering, Hand, Reached, Carries
<1>. QED  BY <1>1, <1>5, <1>6, <1>7, BufferedTyped, StandsKeeps

-----------------------------------------------------------------------------
(* The invariant.                                                          *)

LEMMA IdleKeeps == LinkInv /\ UNCHANGED streamVars => LinkInv'
<1>. SUFFICES ASSUME LinkInv, UNCHANGED streamVars
     PROVE  LinkInv'
  OBVIOUS
<1>1. /\ feeder' = feeder /\ sent' = sent /\ started' = started /\ cached' = cached
      /\ shed' = shed /\ channel' = channel /\ buffered' = buffered /\ task' = task
      /\ dials' = dials /\ wire' = wire /\ phase' = phase /\ closed' = closed
      /\ handle' = handle
  BY DEF streamVars
<1>2. FeedTyped' /\ TaskTyped' /\ EndTyped'
  BY <1>1, TypeParts DEF LinkInv, FeedTyped, TaskTyped, EndTyped
<1>3. Offered' = Offered /\ Hand' = Hand /\ (Reached' => Reached)
  BY <1>1 DEF Offered, Offering, Hand, Reached, Carries
<1>. QED  BY <1>1, <1>2, <1>3, BufferedTyped, StandsKeeps

LEMMA LinkInit == Stream!Init => LinkInv
<1>. SUFFICES ASSUME Stream!Init
     PROVE  LinkInv
  OBVIOUS
<1>1. /\ feeder = [at |-> "free", message |-> Stream!None] /\ sent = 0
      /\ started = {} /\ cached = {} /\ shed = {} /\ channel = <<>> /\ buffered = 0
      /\ task = [at |-> "redial", message |-> Stream!None, woken |-> FALSE]
      /\ dials = 0 /\ wire = <<>> /\ phase = "reconnecting" /\ closed = FALSE
      /\ handle = [at |-> "open", waits |-> FALSE, ok |-> TRUE]
  BY DEF Stream!Init
<1>2. 0 \in 0..MaxSent /\ 0 \in 0..MaxDials /\ Len(<<>>) =< ChannelBound
      /\ <<>> \in Seq(Stream!Message)
  BY Bounds, EmptySeq
<1>3. Stream!TypeOK
  BY <1>1, <1>2, TypeParts DEF FeedTyped, PipeTyped, TaskTyped, EndTyped, Places, Idle
<1>4. Hand = {} /\ Offered = {} /\ ~Reached
  BY <1>1 DEF Hand, Offered, Offering, Reached, Carries
<1>5. DOMAIN channel = {} /\ DOMAIN wire = {}
  BY <1>1, EmptySeq
<1>6. KnownInv
  BY <1>1, <1>4, <1>5, FS_EmptySet DEF KnownInv
<1>7. HeaderFirst
  BY <1>5 DEF HeaderFirst, Stream!HeaderFirst
<1>. QED  BY <1>3, <1>4, <1>6, <1>7 DEF LinkInv

LEMMA LinkNext == LinkInv /\ (Stream!Next \/ UNCHANGED streamVars) => LinkInv'
<1>. SUFFICES ASSUME LinkInv, Stream!Next \/ UNCHANGED streamVars
     PROVE  LinkInv'
  OBVIOUS
<1>1. CASE Stream!ThreadNext
  BY <1>1, OfferKeeps, TrySendKeeps, FeederKeeps DEF Stream!ThreadNext
<1>2. CASE Stream!Runs
  BY <1>2, DialsKeep, EndingsKeep, LooksKeep, ReplayKeeps DEF Stream!Runs
<1>3. CASE \/ Stream!Answered \/ Stream!GivenUp \/ Stream!Hangup \/ Stream!TakeMessage
           \/ Stream!Write
  BY <1>3, DialsKeep, EndingsKeep, TakeMessageKeeps, WriteKeeps
<1>4. CASE Stream!Stop \/ Stream!Ends
  BY <1>4, StopKeeps DEF Stream!Ends
<1>5. CASE UNCHANGED streamVars
  BY <1>5, IdleKeeps
<1>. QED  BY <1>1, <1>2, <1>3, <1>4, <1>5 DEF Stream!Next

\* Whatever the bounds and the tracks: what is told, held, queued and offered
\* is a line in which no unit stands before its header (rtmp.rs, SeqCache).
THEOREM LinkInvariant == MCSpec => []LinkInv
<1>1. MCInit => LinkInv
  BY LinkInit DEF MCInit
<1>2. LinkInv /\ [MCNext]_<<part, vars, streamVars>> => LinkInv'
  BY LinkNext DEF MCNext
<1>. QED  BY <1>1, <1>2, PTL DEF MCSpec

\* The variables of the publisher keep their types (rtmp.rs).
THEOREM LinkTypeCorrect == MCSpec => []Stream!TypeOK
<1>1. LinkInv => Stream!TypeOK
  BY DEF LinkInv
<1>. QED  BY <1>1, LinkInvariant, PTL

\* On every connection, a peer gets a track's header before its first unit,
\* unless the header was shed (rtmp.rs, SeqCache).
THEOREM HeadersComeFirst == MCSpec => []HeaderFirst
<1>1. LinkInv => HeaderFirst
  BY DEF LinkInv
<1>. QED  BY <1>1, LinkInvariant, PTL
================================================================================
