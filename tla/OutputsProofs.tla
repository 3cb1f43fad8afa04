---------------------------- MODULE OutputsProofs ----------------------------
(***************************************************************************)
(* Type correctness of the outputs, and that the alerts stay current:      *)
(* whatever is refused, lost, late or restarted, an alert is up only while *)
(* what it says holds.                                                     *)
(***************************************************************************)
EXTENDS Outputs, SequenceTheorems, TLAPS

\* The type invariant, part by part.
BeliefTyped ==
  /\ version \in Nat
  /\ show \in {"UNLOADED", "LOADED", "RUNNING", "STOPPED"}
  /\ record \in {"idle", "recording"}
  /\ stream \in {"idle", "live", "held"}
ClaimTyped ==
  pending \in [Output -> [command : OutputCommand \union {"none"},
                          version : 0..version, processed : BOOLEAN,
                          expired : BOOLEAN]]
StopTyped ==
  /\ showStopPending \in 0..version
  /\ heldStop \in 0..version
  /\ waiting \subseteq 1..version
HeardTyped ==
  /\ report \in Report
  /\ hearing \in {"fresh", "grace", "silent"}
  /\ postdates \in BOOLEAN
  /\ alerts \subseteq Alert
SessionTyped ==
  resyncs \in [Conn -> SUBSET Nat] /\ lastApplied \in [Conn -> Int]
ChannelTyped == hole \in BOOLEAN /\ down \in Seq(DownFrame)
UpTyped == up \in [Conn -> Seq(UpFrame)]
ConnTyped == conns \in 0..MaxConn /\ conn \in 0..conns
OutputTyped ==
  /\ running \in BOOLEAN
  /\ recording \in BOOLEAN
  /\ streaming \in BOOLEAN
  /\ closing \in DownFrame \union {NoFrame}
OutTyped == outgoing \in Seq(UpFrame)
HistoryTyped == done \in 0..version /\ taken \subseteq Output /\ stopped \in Nat

SignalTyped == ClaimTyped /\ StopTyped /\ HeardTyped
EngineTyped == ConnTyped /\ OutputTyped /\ OutTyped /\ HistoryTyped

\* The parts make up the invariant, before a step and after it.
LEMMA TypeParts ==
  TypeOK <=> /\ BeliefTyped /\ SignalTyped /\ SessionTyped
             /\ ChannelTyped /\ UpTyped /\ EngineTyped
  BY DEF TypeOK, BeliefTyped, SignalTyped, ClaimTyped, StopTyped, HeardTyped,
         SessionTyped, ChannelTyped, UpTyped, EngineTyped, ConnTyped,
         OutputTyped, OutTyped, HistoryTyped

\* After a step they do so whatever they were before it.
LEMMA TypeJoined ==
  ASSUME BeliefTyped', SignalTyped', SessionTyped', ChannelTyped', UpTyped',
         EngineTyped'
  PROVE  TypeOK'
  BY DEF TypeOK, BeliefTyped, SignalTyped, ClaimTyped, StopTyped, HeardTyped,
         SessionTyped, ChannelTyped, UpTyped, EngineTyped, ConnTyped,
         OutputTyped, OutTyped, HistoryTyped

\* The version only grows, and what is bounded by it stays bounded.
Grown == version' \in Nat /\ version <= version'

\* The ranges of versions only widen.
LEMMA Bounded ==
  ASSUME version \in Nat, Grown
  PROVE  0..version \subseteq 0..version' /\ 1..version \subseteq 1..version'
  BY DEF Grown

\* What a step leaves alone keeps its type.
LEMMA ClaimKept ==
  ASSUME TypeOK, Grown, UNCHANGED pending PROVE ClaimTyped'
<1>1. 0..version \subseteq 0..version'
  BY Bounded DEF TypeOK
<1>2. pending \in [Output -> [command : OutputCommand \union {"none"},
                              version : 0..version, processed : BOOLEAN,
                              expired : BOOLEAN]]
  BY DEF TypeOK
<1> QED BY <1>1, <1>2 DEF ClaimTyped

\* So do the versions the stops are remembered by.
LEMMA StopKept ==
  ASSUME TypeOK, Grown, UNCHANGED <<showStopPending, heldStop, waiting>>
  PROVE  StopTyped'
  BY Bounded DEF TypeOK, StopTyped

\* And the history.
LEMMA HistoryKept ==
  ASSUME TypeOK, Grown, UNCHANGED <<done, stopped>>, taken' \subseteq Output
  PROVE  HistoryTyped'
  BY Bounded DEF TypeOK, HistoryTyped

\* The engine, with no command of its own carried out.
LEMMA EngineKept ==
  ASSUME TypeOK, Grown, UNCHANGED <<connVars, outputVars, outgoing, done, stopped>>,
         taken' \subseteq Output
  PROVE  EngineTyped'
<1>1. ConnTyped' /\ OutputTyped' /\ OutTyped'
  BY DEF TypeOK, ConnTyped, OutputTyped, OutTyped, connVars, outputVars
<1> QED BY <1>1, HistoryKept DEF EngineTyped

\* The sessions.
LEMMA SessionKept ==
  ASSUME TypeOK, UNCHANGED sessionVars PROVE SessionTyped'
  BY DEF TypeOK, SessionTyped, sessionVars

\* The channel down.
LEMMA ChannelKept ==
  ASSUME TypeOK, UNCHANGED channelVars PROVE ChannelTyped'
  BY DEF TypeOK, ChannelTyped, channelVars

\* The engine's side of a step of the control plane's own.
LEMMA FarSideKept ==
  ASSUME TypeOK, Grown, UNCHANGED <<sessionVars, channelVars, up, engineVars>>
  PROVE  SessionTyped' /\ ChannelTyped' /\ UpTyped' /\ EngineTyped'
<1>1. SessionTyped' /\ ChannelTyped' /\ UpTyped'
  BY SessionKept, ChannelKept DEF TypeOK, UpTyped
<1>2. EngineTyped'
  BY EngineKept DEF TypeOK, engineVars, historyVars
<1> QED BY <1>1, <1>2

\* The control plane's side of a step of the engine's.
LEMMA NearSideKept ==
  ASSUME TypeOK, UNCHANGED <<beliefVars, signalVars>>
  PROVE  BeliefTyped' /\ SignalTyped' /\ Grown
<1>1. BeliefTyped' /\ Grown
  BY DEF TypeOK, BeliefTyped, beliefVars, Grown
<1>2. ClaimTyped' /\ StopTyped'
  BY <1>1, ClaimKept, StopKept DEF signalVars
<1>3. HeardTyped'
  BY DEF TypeOK, HeardTyped, signalVars
<1> QED BY <1>1, <1>2, <1>3 DEF SignalTyped

-----------------------------------------------------------------------------
(* The control plane's half                                                *)

\* Sending keeps what is on its way a sequence of frames.
LEMMA SendTyped ==
  ASSUME TypeOK, NEW frame \in DownFrame, Send(frame)
  PROVE  ChannelTyped'
<1>1. down \in Seq(DownFrame) /\ hole \in BOOLEAN
  BY DEF TypeOK
<1>2. Append(down, frame) \in Seq(DownFrame)
  BY <1>1, AppendProperties
<1>3. down' \in Seq(DownFrame)
  BY <1>1, <1>2, Zenon DEF Send, channelVars
<1>4. hole' \in BOOLEAN
  BY <1>1, Zenon DEF Send, channelVars
<1> QED BY <1>3, <1>4 DEF ChannelTyped

\* An accepted command grows the version and keeps the rest of the system.
LEMMA AcceptTyped ==
  ASSUME TypeOK, NEW command \in Command, NEW mode \in Mode,
         Accept(command, mode), taken' \subseteq Output
  PROVE  /\ Grown /\ version' = version + 1
         /\ SessionTyped' /\ ChannelTyped' /\ UpTyped' /\ EngineTyped'
<1>1. version \in Nat /\ version' = version + 1 /\ Grown
  BY DEF TypeOK, Accept, Grown
<1>2. SessionTyped' /\ UpTyped' /\ EngineTyped'
  BY <1>1, SessionKept, EngineKept DEF TypeOK, Accept, UpTyped
<1>3. ChannelTyped'
  <2> DEFINE frame == [command |-> command, sv |-> version + 1, gap |-> hole,
                       mode |-> mode, running |-> show' = "RUNNING"]
  <2>1. frame \in DownFrame
    <3>1. hole \in BOOLEAN /\ (show' = "RUNNING") \in BOOLEAN
      BY Zenon DEF TypeOK
    <3> QED BY <1>1, <3>1 DEF DownFrame
  <2>2. Send(frame)
    BY DEF Accept
  <2> QED BY <2>1, <2>2, SendTyped
<1> QED BY <1>1, <1>2, <1>3

\* A claim is made at the version its command is accepted at.
LEMMA ClaimMade ==
  ASSUME TypeOK, NEW o \in Output, NEW command \in OutputCommand,
         ClaimOutput(o, command), Grown, version' = version + 1
  PROVE  SignalTyped' /\ taken' \subseteq Output
<1>1. Claim(command, version + 1) \in
        [command : OutputCommand \union {"none"}, version : 0..version',
         processed : BOOLEAN, expired : BOOLEAN]
  <2>1. FALSE \in BOOLEAN
    BY Zenon
  <2> QED BY <2>1 DEF TypeOK, Claim, Grown
<1>2. pending \in [Output -> [command : OutputCommand \union {"none"},
                              version : 0..version', processed : BOOLEAN,
                              expired : BOOLEAN]]
  <2>1. 0..version \subseteq 0..version'
    BY Bounded DEF TypeOK
  <2> QED BY <2>1 DEF TypeOK
<1>3. ClaimTyped'
  <2>1. pending' = [pending EXCEPT ![o] = Claim(command, version + 1)]
    BY DEF ClaimOutput
  <2> HIDE DEF Claim
  <2> QED BY <1>1, <1>2, <2>1 DEF ClaimTyped
<1>4. StopTyped'
  BY StopKept DEF ClaimOutput
<1>5. HeardTyped' /\ taken' \subseteq Output
  BY DEF TypeOK, ClaimOutput, HeardTyped
<1> QED BY <1>3, <1>4, <1>5 DEF SignalTyped

\* The output commands.
OutputAsked == RecordStart \/ RecordStop \/ StreamStart \/ StreamStop

\* Each is a claim and an accepted command.
LEMMA OutputAskedTyped == ASSUME TypeOK, OutputAsked PROVE TypeOK'
<1>1. PICK o \in Output, command \in OutputCommand :
        ClaimOutput(o, command) /\ Accept(command, "plain")
  BY Zenon
     DEF OutputAsked, RecordStart, RecordStop, StreamStart, StreamStop, Output,
         OutputCommand, StartCommand, StopCommand
<1>2. command \in Command /\ "plain" \in Mode
  BY DEF Command, Mode
<1>3. taken' \subseteq Output
  BY <1>1 DEF ClaimOutput, TypeOK
<1>4. Grown /\ version' = version + 1
      /\ SessionTyped' /\ ChannelTyped' /\ UpTyped' /\ EngineTyped'
  BY <1>1, <1>2, <1>3, AcceptTyped
<1>5. SignalTyped'
  BY <1>1, <1>4, ClaimMade
<1>6. BeliefTyped'
  BY <1>4 DEF Grown, BeliefTyped, TypeOK, OutputAsked, RecordStart, RecordStop,
     StreamStart, StreamStop
<1> QED BY <1>4, <1>5, <1>6, TypeJoined

\* The lifecycle commands but for show.stop.
LEMMA LifecycleTyped ==
  ASSUME TypeOK, NEW command \in {"show.load", "show.unload"},
         NEW next \in {"LOADED", "UNLOADED"}, Lifecycle(command, next)
  PROVE  TypeOK'
<1>1. command \in Command /\ "plain" \in Mode /\ taken' \subseteq Output
  BY DEF Command, Mode, Lifecycle, TypeOK
<1>2. Grown /\ version' = version + 1
      /\ SessionTyped' /\ ChannelTyped' /\ UpTyped' /\ EngineTyped'
  BY <1>1, AcceptTyped DEF Lifecycle
<1>3. BeliefTyped'
  BY <1>2 DEF Lifecycle, TypeOK, BeliefTyped, Grown
<1>4. ClaimTyped'
  BY <1>2, ClaimKept DEF Lifecycle
<1>5. StopTyped'
  <2>1. 0..version \subseteq 0..version' /\ 1..version \subseteq 1..version'
        /\ 0 \in 0..version'
    BY <1>2, Bounded DEF TypeOK, Grown
  <2> QED BY <2>1 DEF Lifecycle, TypeOK, StopTyped
<1>6. HeardTyped'
  BY DEF Lifecycle, TypeOK, HeardTyped
<1> QED BY <1>2, <1>3, <1>4, <1>5, <1>6, TypeJoined DEF SignalTyped

\* show.start, and a command that is only forwarded.
LEMMA ForwardTyped ==
  ASSUME TypeOK, ShowStart \/ Forward PROVE TypeOK'
<1>1. /\ \E command \in Command : Accept(command, "plain")
      /\ UNCHANGED <<signalVars, taken>>
  BY Zenon DEF ShowStart, Forward, Command
<1>2. "plain" \in Mode /\ taken' \subseteq Output
  BY <1>1 DEF Mode, TypeOK
<1>3. Grown /\ version' = version + 1
      /\ SessionTyped' /\ ChannelTyped' /\ UpTyped' /\ EngineTyped'
  BY <1>1, <1>2, AcceptTyped
<1>4. BeliefTyped'
  BY <1>3 DEF ShowStart, Forward, TypeOK, BeliefTyped, Grown
<1>5. SignalTyped'
  BY <1>1, <1>3, ClaimKept, StopKept
     DEF signalVars, TypeOK, HeardTyped, SignalTyped
<1> QED BY <1>3, <1>4, <1>5, TypeJoined

\* Giving up on a stop of this version.
LEMMA GiveUpTyped ==
  ASSUME TypeOK, Grown, NEW v \in 1..version', GiveUp(v)
  PROVE  /\ stream' \in {"idle", "live", "held"}
         /\ showStopPending' \in 0..version' /\ heldStop' \in 0..version'
         /\ postdates' \in BOOLEAN /\ alerts' \subseteq Alert
<1>1. v \in 0..version' /\ 0 \in 0..version' /\ 0..version \subseteq 0..version'
  BY Bounded DEF TypeOK, Grown
<1>2. postdates' \in BOOLEAN
  BY Zenon DEF GiveUp, TypeOK
<1> QED BY <1>1, <1>2 DEF GiveUp, TypeOK, Alert

\* show.stop.
LEMMA ShowStopTyped ==
  ASSUME TypeOK, NEW mode \in Mode, ShowStop(mode) PROVE TypeOK'
<1>1. taken' \subseteq Output /\ "show.stop" \in Command
  BY DEF ShowStop, TypeOK, Command
<1>2. Grown /\ version' = version + 1
      /\ SessionTyped' /\ ChannelTyped' /\ UpTyped' /\ EngineTyped'
  BY <1>1, AcceptTyped DEF ShowStop
<1>3. version + 1 \in 1..version' /\ 1..version \subseteq 1..version'
      /\ 0..version \subseteq 0..version' /\ version + 1 \in 0..version'
  BY <1>2, Bounded DEF TypeOK
<1>4. /\ stream' \in {"idle", "live", "held"} /\ postdates' \in BOOLEAN
      /\ alerts' \subseteq Alert /\ StopTyped'
  <2>1. CASE OutputsActive /\ conn = 0
    <3>1. GiveUp(version + 1) /\ UNCHANGED waiting
      BY <2>1 DEF ShowStop
    <3>2. waiting' \subseteq 1..version'
      BY <1>3, <3>1 DEF TypeOK
    <3> QED BY <1>2, <1>3, <3>1, <3>2, GiveUpTyped DEF StopTyped
  <2>2. CASE ~(OutputsActive /\ conn = 0)
    <3>1. /\ showStopPending' = version + 1
          /\ waiting' \subseteq waiting \union {version + 1}
          /\ UNCHANGED <<stream, heldStop, postdates, alerts>>
      BY <2>2 DEF ShowStop
    <3> QED BY <1>3, <3>1 DEF TypeOK, StopTyped
  <2> QED BY <2>1, <2>2
<1>5. ClaimTyped'
  BY <1>2, ClaimKept DEF ShowStop
<1>6. HeardTyped'
  BY <1>4 DEF ShowStop, TypeOK, HeardTyped
<1>7. BeliefTyped'
  BY <1>2, <1>4 DEF ShowStop, TypeOK, BeliefTyped, Grown
<1> QED BY <1>2, <1>4, <1>5, <1>6, <1>7, TypeJoined DEF SignalTyped

-----------------------------------------------------------------------------
(* The control plane's ears and clocks                                     *)

\* What the control plane hears is a frame of the engine's.
LEMMA FrameHeard ==
  ASSUME TypeOK, NEW c \in Conn, up[c] # <<>>
  PROVE  /\ Head(up[c]) \in UpFrame
         /\ [up EXCEPT ![c] = Tail(@)] \in [Conn -> Seq(UpFrame)]
<1>1. up \in [Conn -> Seq(UpFrame)]
  BY DEF TypeOK
<1>2. Head(up[c]) \in UpFrame /\ Tail(up[c]) \in Seq(UpFrame)
  BY <1>1, HeadTailProperties
<1> QED BY <1>1, <1>2

\* A claim that is settled keeps its type.
LEMMA ClaimSettled ==
  ASSUME TypeOK, Grown, NEW settled, pending' = [o \in Output |->
           IF o \in settled THEN [pending[o] EXCEPT !.processed = TRUE]
           ELSE pending[o]]
  PROVE  ClaimTyped'
<1> DEFINE Kind == [command : OutputCommand \union {"none"},
                    version : 0..version', processed : BOOLEAN,
                    expired : BOOLEAN]
<1>1. 0..version \subseteq 0..version' /\ TRUE \in BOOLEAN
  BY Bounded, Zenon DEF TypeOK
<1>2. \A o \in Output : pending[o] \in Kind
  BY <1>1 DEF TypeOK
<1>3. \A o \in Output : [pending[o] EXCEPT !.processed = TRUE] \in Kind
  BY <1>1, <1>2
<1> HIDE DEF Kind
<1>4. pending' \in [Output -> Kind]
  BY <1>2, <1>3
<1> QED BY <1>4 DEF Kind, ClaimTyped

\* An acknowledgement of a command's.
LEMMA CommandAckedTyped ==
  ASSUME TypeOK, Grown, NEW v \in Nat, CommandAcked(v)
  PROVE  /\ record' \in {"idle", "recording"}
         /\ stream' \in {"idle", "live", "held"}
         /\ ClaimTyped' /\ StopTyped'
         /\ postdates' \in BOOLEAN /\ alerts' \subseteq Alert
<1>1. ClaimTyped'
  BY ClaimSettled DEF CommandAcked
<1>2. StopTyped'
  <2>1. 0 \in 0..version' /\ 0..version \subseteq 0..version'
        /\ 1..version \subseteq 1..version'
    BY Bounded DEF Grown, TypeOK
  <2> QED BY <2>1 DEF CommandAcked, TypeOK, StopTyped
<1>3. postdates' \in BOOLEAN
  BY Zenon DEF CommandAcked
<1>4. alerts' \subseteq Alert
  BY DEF CommandAcked, TypeOK
<1>5. record' \in {"idle", "recording"} /\ stream' \in {"idle", "live", "held"}
  BY DEF CommandAcked, TypeOK
<1> QED BY <1>1, <1>2, <1>3, <1>4, <1>5

\* An acknowledgement is ignored, a resync's, or a command's.
LEMMA ReceiveAckTyped ==
  ASSUME TypeOK, NEW c \in Conn, ReceiveAck(c) PROVE TypeOK'
<1> DEFINE v == Head(up[c]).sv
<1>1. v \in Nat /\ UpTyped'
  BY FrameHeard DEF ReceiveAck, UpTyped, UpFrame, ResyncRequest, Report
<1>2. Grown
  BY DEF TypeOK, ReceiveAck, Grown
<1>3. EngineTyped' /\ ChannelTyped'
  BY <1>2, EngineKept, ChannelKept DEF ReceiveAck, TypeOK, engineVars, historyVars
<1>4. SessionTyped'
  BY <1>1 DEF ReceiveAck, TypeOK, SessionTyped
<1>5. /\ record' \in {"idle", "recording"}
      /\ stream' \in {"idle", "live", "held"}
      /\ ClaimTyped' /\ StopTyped'
      /\ postdates' \in BOOLEAN /\ alerts' \subseteq Alert
  <2>1. CASE AckIgnored \/ ResyncAcked
    <3>1. postdates' \in BOOLEAN
      BY <2>1, Zenon DEF AckIgnored, ResyncAcked, TypeOK
    <3> QED BY <1>2, <2>1, <3>1, ClaimKept, StopKept
            DEF AckIgnored, ResyncAcked, TypeOK
  <2>2. CASE CommandAcked(v)
    BY <1>1, <1>2, <2>2, CommandAckedTyped
  <2> QED BY <2>1, <2>2 DEF ReceiveAck
<1>6. BeliefTyped' /\ HeardTyped'
  BY <1>5 DEF ReceiveAck, TypeOK, BeliefTyped, HeardTyped
<1> QED BY <1>1, <1>3, <1>4, <1>5, <1>6, TypeJoined DEF SignalTyped

\* A report replaces the last.
LEMMA ReceiveReportTyped ==
  ASSUME TypeOK, NEW c \in Conn, ReceiveReport(c) PROVE TypeOK'
<1>1. Head(up[c]) \in Report /\ UpTyped'
  BY FrameHeard DEF ReceiveReport, UpTyped, UpFrame, ResyncRequest
<1>2. BeliefTyped' /\ Grown
  BY DEF TypeOK, ReceiveReport, beliefVars, BeliefTyped, Grown
<1>3. EngineTyped' /\ ChannelTyped' /\ SessionTyped'
  BY <1>2, EngineKept, ChannelKept, SessionKept
     DEF ReceiveReport, TypeOK, engineVars, historyVars
<1>4. ClaimTyped' /\ StopTyped'
  BY <1>2, ClaimKept, StopKept DEF ReceiveReport
<1>5. HeardTyped'
  <2>1. postdates' \in BOOLEAN
    BY Zenon DEF ReceiveReport
  <2> QED BY <1>1, <2>1 DEF ReceiveReport, TypeOK, HeardTyped
<1> QED BY <1>1, <1>2, <1>3, <1>4, <1>5, TypeJoined DEF SignalTyped

\* The snapshot a resync carries is a frame.
LEMMA ResyncTyped == ASSUME TypeOK PROVE Resync \in DownFrame
<1>1. FALSE \in BOOLEAN /\ (show = "RUNNING") \in BOOLEAN
  BY Zenon
<1> QED BY <1>1 DEF Resync, DownFrame, TypeOK, Command, Mode

\* A resync is remembered by its version.
LEMMA ReceiveRequestTyped ==
  ASSUME TypeOK, NEW c \in Conn, ReceiveRequest(c) PROVE TypeOK'
<1>1. UpTyped'
  BY FrameHeard DEF ReceiveRequest, UpTyped
<1>2. BeliefTyped' /\ SignalTyped' /\ Grown
  BY NearSideKept DEF ReceiveRequest
<1>3. ChannelTyped'
  BY ResyncTyped, SendTyped, ChannelKept DEF ReceiveRequest
<1>4. EngineTyped'
  BY <1>2, EngineKept DEF ReceiveRequest, TypeOK, engineVars, historyVars
<1>5. SessionTyped'
  BY DEF ReceiveRequest, TypeOK, SessionTyped
<1> QED BY <1>1, <1>2, <1>3, <1>4, <1>5, TypeJoined

\* A claim that expires is still one.
LEMMA WindowElapsedTyped ==
  ASSUME TypeOK, NEW o \in Output, WindowElapsed(o) PROVE TypeOK'
<1>1. BeliefTyped' /\ Grown
  BY DEF WindowElapsed, TypeOK, beliefVars, BeliefTyped, Grown
<1>2. ClaimTyped'
  <2>1. TRUE \in BOOLEAN /\ UNCHANGED version
    BY Zenon DEF WindowElapsed, beliefVars
  <2> QED BY <2>1 DEF WindowElapsed, TypeOK, ClaimTyped
<1>3. StopTyped'
  BY <1>1, StopKept DEF WindowElapsed
<1>4. HeardTyped'
  <2>1. postdates' \in BOOLEAN
    BY Zenon DEF WindowElapsed
  <2> QED BY <2>1 DEF WindowElapsed, TypeOK, HeardTyped, Alert, Output
<1> QED BY <1>1, <1>2, <1>3, <1>4, FarSideKept, TypeJoined
        DEF WindowElapsed, SignalTyped

\* A stop in motion is forgotten.
LEMMA ShowStopLapsesTyped == ASSUME TypeOK, ShowStopLapses PROVE TypeOK'
<1>1. BeliefTyped' /\ Grown
  BY DEF ShowStopLapses, TypeOK, beliefVars, BeliefTyped, Grown
<1>2. ClaimTyped'
  BY <1>1, ClaimKept DEF ShowStopLapses
<1>3. StopTyped' /\ HeardTyped'
  BY DEF ShowStopLapses, TypeOK, beliefVars, StopTyped, HeardTyped
<1> QED BY <1>1, <1>2, <1>3, FarSideKept, TypeJoined
        DEF ShowStopLapses, SignalTyped

\* A stop that was waited for is held.
LEMMA GraceExpiresTyped ==
  ASSUME TypeOK, NEW v \in 1..version, GraceExpires(v) PROVE TypeOK'
<1>1. Grown /\ version' = version
  BY DEF GraceExpires, TypeOK, Grown
<1>2. /\ stream' \in {"idle", "live", "held"}
      /\ showStopPending' \in 0..version' /\ heldStop' \in 0..version'
      /\ postdates' \in BOOLEAN /\ alerts' \subseteq Alert
  BY <1>1, GiveUpTyped DEF GraceExpires
<1>3. BeliefTyped' /\ StopTyped' /\ HeardTyped'
  BY <1>1, <1>2 DEF GraceExpires, TypeOK, BeliefTyped, StopTyped, HeardTyped
<1>4. ClaimTyped'
  BY <1>1, ClaimKept DEF GraceExpires
<1> QED BY <1>1, <1>3, <1>4, FarSideKept, TypeJoined
        DEF GraceExpires, SignalTyped

\* Time passes.
LEMMA AgeTyped == ASSUME TypeOK, Age PROVE TypeOK'
<1>1. BeliefTyped' /\ Grown
  BY DEF Age, TypeOK, beliefVars, BeliefTyped, Grown
<1>2. ClaimTyped' /\ StopTyped'
  BY <1>1, ClaimKept, StopKept DEF Age
<1>3. HeardTyped'
  <2>1. hearing' \in {"fresh", "grace", "silent"}
    BY DEF Age, TypeOK
  <2> QED BY <2>1 DEF Age, TypeOK, HeardTyped
<1> QED BY <1>1, <1>2, <1>3, FarSideKept, TypeJoined DEF Age, SignalTyped

\* The evaluator.
LEMMA EvaluateTyped == ASSUME TypeOK, Evaluate PROVE TypeOK'
<1>1. version' \in Nat /\ version <= version'
  BY DEF Evaluate, EngineSilent, Judge, TypeOK
<1>2. stream' \in {"idle", "live", "held"} /\ alerts' \subseteq Alert
  BY DEF Evaluate, EngineSilent, Judge, Reported, TypeOK, Alert
<1>3. BeliefTyped' /\ HeardTyped' /\ Grown
  BY <1>1, <1>2 DEF Evaluate, TypeOK, BeliefTyped, HeardTyped, Grown
<1>4. ClaimTyped' /\ StopTyped'
  BY <1>3, ClaimKept, StopKept DEF Evaluate
<1> QED BY <1>3, <1>4, FarSideKept, TypeJoined DEF Evaluate, SignalTyped

-----------------------------------------------------------------------------
(* The engine's half: connections                                          *)

\* A new connection starts with a resync.
LEMMA ConnectTyped == ASSUME TypeOK, Connect PROVE TypeOK'
<1>1. conns + 1 \in Conn
  BY MaxConnType DEF Connect, TypeOK, Conn
<1>2. down' \in Seq(DownFrame)
  <2>1. down' = <<Resync>> /\ Resync \in DownFrame
    BY ResyncTyped DEF Connect
  <2> HIDE DEF Resync, DownFrame
  <2> QED BY <2>1
<1>3. ChannelTyped'
  <2>1. hole' \in BOOLEAN
    BY Zenon DEF Connect
  <2> QED BY <1>2, <2>1 DEF ChannelTyped
<1>4. BeliefTyped' /\ Grown /\ version' = version
  BY DEF Connect, TypeOK, beliefVars, BeliefTyped, Grown
<1>5. ClaimTyped' /\ StopTyped'
  BY <1>4, ClaimKept, StopKept DEF Connect
<1>6. HeardTyped'
  <2>1. postdates' \in BOOLEAN
    BY Zenon DEF Connect
  <2> QED BY <2>1 DEF Connect, TypeOK, HeardTyped
<1>7. SessionTyped' /\ UpTyped'
  BY <1>1 DEF Connect, TypeOK, SessionTyped, UpTyped
<1>8. HistoryTyped'
  <2>1. pending["stream"].version \in 0..version
    BY DEF TypeOK, Output
  <2> QED BY <1>4, <2>1 DEF Connect, TypeOK, HistoryTyped
<1>9. EngineTyped'
  BY <1>1, <1>8, MaxConnType
     DEF Connect, TypeOK, EngineTyped, ConnTyped, OutputTyped, OutTyped,
         outputVars, Conn
<1> QED BY <1>3, <1>4, <1>5, <1>6, <1>7, <1>9, TypeJoined DEF SignalTyped

\* A connection that goes leaves some prefix of what was on its way up.
LEMMA DropTyped ==
  ASSUME TypeOK, Drop
  PROVE  ChannelTyped' /\ UpTyped' /\ conn' = 0
<1>1. PICK n \in 0..Len(up[conn]) :
        up' = [up EXCEPT ![conn] = SubSeq(up[conn], 1, n)]
  BY DEF Drop
<1>2. conn \in Conn /\ up \in [Conn -> Seq(UpFrame)]
  BY MaxConnType DEF Drop, TypeOK, Conn
<1>3. SubSeq(up[conn], 1, n) \in Seq(UpFrame)
  BY <1>2, SubSeqProperties
<1>4. UpTyped'
  BY <1>1, <1>2, <1>3, Zenon DEF UpTyped
<1>5. ChannelTyped'
  <2>1. hole' \in BOOLEAN
    BY Zenon DEF Drop
  <2> QED BY <2>1 DEF Drop, ChannelTyped
<1> QED BY <1>4, <1>5 DEF Drop

\* The connection goes and the engine stays.
LEMMA DisconnectTyped == ASSUME TypeOK, Disconnect PROVE TypeOK'
<1>1. ChannelTyped' /\ UpTyped' /\ conn' = 0
  BY DropTyped DEF Disconnect
<1>2. BeliefTyped' /\ SignalTyped' /\ Grown /\ SessionTyped'
  BY NearSideKept, SessionKept DEF Disconnect
<1>3. HistoryTyped'
  BY <1>2, HistoryKept DEF Disconnect, TypeOK, historyVars
<1>4. EngineTyped'
  BY <1>1, <1>3 DEF Disconnect, TypeOK, EngineTyped, ConnTyped, OutputTyped,
     OutTyped, outputVars
<1> QED BY <1>1, <1>2, <1>4, TypeJoined

\* The connection and the engine's outputs go.
LEMMA RestartTyped == ASSUME TypeOK, Restart PROVE TypeOK'
<1>1. ChannelTyped' /\ UpTyped' /\ conn' = 0
  BY DropTyped DEF Restart
<1>2. BeliefTyped' /\ SignalTyped' /\ Grown /\ SessionTyped'
  BY NearSideKept, SessionKept DEF Restart
<1>3. HistoryTyped'
  BY <1>2, HistoryKept DEF Restart, TypeOK, historyVars
<1>4. running' \in BOOLEAN /\ recording' \in BOOLEAN /\ streaming' \in BOOLEAN
  BY Zenon DEF Restart
<1>5. EngineTyped'
  BY <1>1, <1>3, <1>4 DEF Restart, TypeOK, EngineTyped, ConnTyped,
     OutputTyped, OutTyped
<1> QED BY <1>1, <1>2, <1>5, TypeJoined

\* A step that only moves what is on its way up.
LEMMA UpMoved ==
  ASSUME TypeOK, UpTyped', outgoing' \in Seq(UpFrame),
         UNCHANGED <<beliefVars, signalVars, sessionVars, channelVars, connVars,
                     outputVars, historyVars>>
  PROVE  TypeOK'
<1>1. BeliefTyped' /\ SignalTyped' /\ Grown /\ SessionTyped' /\ ChannelTyped'
  BY NearSideKept, SessionKept, ChannelKept
<1>2. HistoryTyped'
  BY <1>1, HistoryKept DEF TypeOK, historyVars
<1>3. EngineTyped'
  BY <1>2 DEF TypeOK, EngineTyped, ConnTyped, OutputTyped, OutTyped,
     connVars, outputVars
<1> QED BY <1>1, <1>3, TypeJoined

\* The queue goes up.
LEMMA PumpTyped == ASSUME TypeOK, Pump PROVE TypeOK'
<1>1. conn \in Conn /\ up \in [Conn -> Seq(UpFrame)] /\ outgoing \in Seq(UpFrame)
  BY MaxConnType DEF Pump, TypeOK, Conn
<1>2. up[conn] \o outgoing \in Seq(UpFrame)
  BY <1>1, ConcatProperties
<1>3. UpTyped' /\ outgoing' \in Seq(UpFrame)
  BY <1>1, <1>2 DEF Pump, UpTyped
<1> QED BY <1>3, UpMoved DEF Pump

\* A report goes up.
LEMMA SendReportTyped == ASSUME TypeOK, SendReport PROVE TypeOK'
<1> DEFINE frame == [kind |-> "report", streaming |-> streaming, done |-> done,
                     conn |-> conn]
<1>1. conn \in Conn /\ up \in [Conn -> Seq(UpFrame)] /\ outgoing \in Seq(UpFrame)
  BY MaxConnType DEF SendReport, TypeOK, Conn
<1>2. frame \in UpFrame
  BY MaxConnType DEF TypeOK, Report, UpFrame
<1>3. Append(up[conn], frame) \in Seq(UpFrame)
  BY <1>1, <1>2, AppendProperties
<1>4. up' = [up EXCEPT ![conn] = Append(up[conn], frame)]
  BY DEF SendReport
<1>5. UpTyped'
  <2> HIDE DEF frame
  <2> QED BY <1>1, <1>3, <1>4, Zenon DEF UpTyped
<1> QED BY <1>1, <1>5, UpMoved DEF SendReport

-----------------------------------------------------------------------------
(* The engine's half: applying                                             *)

\* What a frame that is read leaves to be typed.
ReadTyped == OutputTyped' /\ outgoing' \in Seq(UpFrame) /\ HistoryTyped'

\* Reading takes a frame off the channel and touches nothing else there.
LEMMA FrameRead ==
  ASSUME TypeOK, NEW f \in Arriving, Read(f), ReadTyped
  PROVE  TypeOK'
<1>1. ChannelTyped'
  <2>1. down # <<>> /\ down \in Seq(DownFrame) /\ hole \in BOOLEAN
    BY DEF TypeOK, Arriving
  <2>2. Tail(down) \in Seq(DownFrame)
    BY <2>1, HeadTailProperties
  <2>3. hole' \in BOOLEAN
    BY <2>1, Zenon DEF Read
  <2> QED BY <2>2, <2>3 DEF Read, ChannelTyped
<1>2. BeliefTyped' /\ SignalTyped' /\ SessionTyped'
  BY NearSideKept, SessionKept DEF Read
<1>3. UpTyped' /\ ConnTyped'
  BY DEF TypeOK, Read, UpTyped, ConnTyped, connVars
<1> QED BY <1>1, <1>2, <1>3, TypeJoined DEF ReadTyped, EngineTyped, OutTyped

\* The frame that arrives is one.
LEMMA ArrivingTyped ==
  ASSUME TypeOK, NEW f \in Arriving
  PROVE  f \in DownFrame /\ conn \in Conn
<1>1. down # <<>> /\ down \in Seq(DownFrame) /\ f = Head(down) /\ conn # 0
  BY DEF TypeOK, Arriving
<1>2. f \in DownFrame
  BY <1>1, HeadTailProperties
<1> QED BY <1>1, <1>2, MaxConnType DEF TypeOK, Conn

\* Applied or refused, a frame leaves the queue and the history typed.
LEMMA OverTyped ==
  ASSUME TypeOK, NEW f \in DownFrame, Over(f), UNCHANGED beliefVars
  PROVE  done' \in 0..version'
<1>1. pending["stream"].version \in 0..version /\ done \in 0..version
  BY DEF TypeOK, Output
<1> QED BY <1>1 DEF Over, beliefVars

\* An acknowledgement is a frame.
LEMMA AppliedTyped ==
  ASSUME TypeOK, NEW f \in DownFrame, UNCHANGED beliefVars,
         Applied(f) \/ RefusedBy(f)
  PROVE  outgoing' \in Seq(UpFrame) /\ done' \in 0..version'
<1>1. Ack(f.sv) \in UpFrame
  BY DEF Ack, UpFrame, DownFrame
<1>2. outgoing \in Seq(UpFrame)
  BY DEF TypeOK
<1>3. Append(outgoing, Ack(f.sv)) \in Seq(UpFrame)
  BY <1>1, <1>2, AppendProperties
<1> QED BY <1>2, <1>3, OverTyped DEF Applied, RefusedBy

\* A frame taken to its handler.
LEMMA TakeTyped ==
  ASSUME TypeOK, NEW f \in DownFrame, Take(f) PROVE taken' \subseteq Output
  BY DEF TypeOK, Take

\* Each way of reading a frame, in the order of the model.
LEMMA ReadResyncTyped == ASSUME TypeOK, ReadResync PROVE TypeOK'
<1>1. PICK f \in Arriving :
        /\ Read(f) /\ running' = f.running /\ Applied(f)
        /\ UNCHANGED <<recording, streaming, closing, taken, stopped>>
  BY DEF ReadResync
<1>2. f \in DownFrame /\ f.running \in BOOLEAN
  BY ArrivingTyped DEF DownFrame
<1>3. outgoing' \in Seq(UpFrame) /\ done' \in 0..version'
  BY <1>1, <1>2, AppliedTyped DEF Read
<1>4. ReadTyped
  BY <1>1, <1>2, <1>3 DEF TypeOK, ReadTyped, OutputTyped, HistoryTyped
<1> QED BY <1>1, <1>4, FrameRead

\* A frame past a hole.
LEMMA ReadGapTyped == ASSUME TypeOK, ReadGap PROVE TypeOK'
<1>1. PICK f \in Arriving :
        /\ Read(f) /\ Over(f) /\ outgoing' = Append(outgoing, ResyncRequest)
        /\ UNCHANGED <<outputVars, taken, stopped>>
  BY DEF ReadGap
<1>2. f \in DownFrame
  BY ArrivingTyped
<1>3. outgoing' \in Seq(UpFrame)
  <2>1. ResyncRequest \in UpFrame /\ outgoing \in Seq(UpFrame)
    BY DEF UpFrame, TypeOK
  <2> QED BY <1>1, <2>1, AppendProperties
<1>4. done' \in 0..version'
  BY <1>1, <1>2, OverTyped DEF Read
<1>5. ReadTyped
  BY <1>1, <1>3, <1>4 DEF TypeOK, ReadTyped, OutputTyped, HistoryTyped, outputVars
<1> QED BY <1>1, <1>5, FrameRead

\* A command about none of the outputs.
LEMMA ApplyOtherTyped == ASSUME TypeOK, ApplyOther PROVE TypeOK'
<1>1. PICK f \in Arriving :
        /\ Read(f) /\ running' = (running \/ f.command = "show.start")
        /\ Applied(f)
        /\ UNCHANGED <<recording, streaming, closing, taken, stopped>>
  BY DEF ApplyOther, Accepted
<1>2. f \in DownFrame
  BY ArrivingTyped
<1>3. running' \in BOOLEAN
  BY <1>1, Zenon
<1>4. outgoing' \in Seq(UpFrame) /\ done' \in 0..version'
  BY <1>1, <1>2, AppliedTyped DEF Read
<1>5. ReadTyped
  BY <1>1, <1>3, <1>4 DEF TypeOK, ReadTyped, OutputTyped, HistoryTyped
<1> QED BY <1>1, <1>5, FrameRead

\* An output starts.
LEMMA ApplyStartTyped == ASSUME TypeOK, ApplyStart PROVE TypeOK'
<1>1. PICK f \in Arriving :
        /\ Read(f) /\ Applied(f) /\ Take(f)
        /\ \/ recording' = TRUE /\ UNCHANGED streaming
           \/ streaming' = TRUE /\ UNCHANGED recording
        /\ UNCHANGED <<running, closing, stopped>>
  BY DEF ApplyStart, Accepted
<1>2. f \in DownFrame
  BY ArrivingTyped
<1>3. recording' \in BOOLEAN /\ streaming' \in BOOLEAN
  BY <1>1, Zenon DEF TypeOK
<1>4. outgoing' \in Seq(UpFrame) /\ done' \in 0..version' /\ taken' \subseteq Output
  BY <1>1, <1>2, AppliedTyped, TakeTyped DEF Read
<1>5. ReadTyped
  BY <1>1, <1>3, <1>4 DEF TypeOK, ReadTyped, OutputTyped, HistoryTyped
<1> QED BY <1>1, <1>5, FrameRead

\* A stop takes the session and closes it.
LEMMA BeginClosingTyped == ASSUME TypeOK, BeginClosing PROVE TypeOK'
<1>1. PICK f \in Arriving :
        /\ Read(f) /\ Take(f) /\ closing' = f
        /\ recording' = (recording /\ f.command = "stream.stop")
        /\ streaming' = (streaming /\ f.command = "record.stop")
        /\ UNCHANGED <<running, outgoing, done, stopped>>
  BY DEF BeginClosing, Accepted
<1>2. f \in DownFrame
  BY ArrivingTyped
<1>3. recording' \in BOOLEAN /\ streaming' \in BOOLEAN
  BY <1>1, Zenon
<1>4. taken' \subseteq Output /\ UNCHANGED version
  BY <1>1, <1>2, TakeTyped DEF Read, beliefVars
<1>5. ReadTyped
  BY <1>1, <1>2, <1>3, <1>4 DEF TypeOK, ReadTyped, OutputTyped, HistoryTyped
<1> QED BY <1>1, <1>5, FrameRead

\* A stop with nothing to close.
LEMMA StopAtOnceTyped == ASSUME TypeOK, StopAtOnce PROVE TypeOK'
<1>1. PICK f \in Arriving :
        /\ Read(f) /\ Applied(f) /\ stopped' = f.sv
        /\ running' = FALSE /\ recording' = FALSE /\ streaming' = FALSE
        /\ UNCHANGED <<closing, taken>>
  BY DEF StopAtOnce, Accepted
<1>2. f \in DownFrame /\ f.sv \in Nat
  BY ArrivingTyped DEF DownFrame
<1>3. running' \in BOOLEAN /\ recording' \in BOOLEAN /\ streaming' \in BOOLEAN
  BY <1>1, Zenon
<1>4. outgoing' \in Seq(UpFrame) /\ done' \in 0..version'
  BY <1>1, <1>2, AppliedTyped DEF Read
<1>5. ReadTyped
  BY <1>1, <1>2, <1>3, <1>4 DEF TypeOK, ReadTyped, OutputTyped, HistoryTyped
<1> QED BY <1>1, <1>5, FrameRead

\* A refused command.
LEMMA RefuseTyped == ASSUME TypeOK, Refuse PROVE TypeOK'
<1>1. PICK f \in Arriving :
        Read(f) /\ RefusedBy(f) /\ Take(f) /\ UNCHANGED <<outputVars, stopped>>
  BY DEF Refuse, Accepted
<1>2. f \in DownFrame
  BY ArrivingTyped
<1>3. outgoing' \in Seq(UpFrame) /\ done' \in 0..version' /\ taken' \subseteq Output
  BY <1>1, <1>2, AppliedTyped, TakeTyped DEF Read
<1>4. ReadTyped
  BY <1>1, <1>3 DEF TypeOK, ReadTyped, OutputTyped, HistoryTyped, outputVars
<1> QED BY <1>1, <1>4, FrameRead

\* The stop's close comes to an end, one way or the other.
LEMMA FinishClosingTyped == ASSUME TypeOK, FinishClosing PROVE TypeOK'
<1>1. closing \in DownFrame /\ closing.sv \in Nat
  BY DEF FinishClosing, TypeOK, DownFrame
<1>2. BeliefTyped' /\ SignalTyped' /\ SessionTyped' /\ ChannelTyped' /\ UpTyped'
  BY NearSideKept, SessionKept, ChannelKept DEF FinishClosing, TypeOK, UpTyped
<1>3. outgoing' \in Seq(UpFrame) /\ done' \in 0..version'
  BY <1>1, AppliedTyped DEF FinishClosing
<1>4. running' \in BOOLEAN
  BY Zenon DEF FinishClosing, TypeOK
<1>5. stopped' \in Nat
  BY <1>1 DEF FinishClosing, TypeOK
<1>6. EngineTyped'
  BY <1>3, <1>4, <1>5 DEF FinishClosing, TypeOK, EngineTyped, ConnTyped,
     OutputTyped, OutTyped, HistoryTyped, connVars
<1> QED BY <1>2, <1>6, TypeJoined

\* A take that ends on its own.
LEMMA ChainLossTyped == ASSUME TypeOK, ChainLoss PROVE TypeOK'
<1>1. BeliefTyped' /\ SignalTyped' /\ SessionTyped' /\ ChannelTyped' /\ UpTyped'
  BY NearSideKept, SessionKept, ChannelKept DEF ChainLoss, TypeOK, UpTyped
<1>2. recording' \in BOOLEAN /\ UNCHANGED version
  BY Zenon DEF ChainLoss, beliefVars
<1>3. EngineTyped'
  BY <1>2 DEF ChainLoss, TypeOK, EngineTyped, ConnTyped, OutputTyped,
     OutTyped, HistoryTyped, connVars, historyVars
<1> QED BY <1>1, <1>3, TypeJoined

-----------------------------------------------------------------------------
(* Type correctness                                                        *)

\* The initial state is typed.
LEMMA TypeInit == Init => TypeOK
<1> SUFFICES ASSUME Init PROVE TypeOK
  OBVIOUS
<1>1. /\ FALSE \in BOOLEAN
      /\ hole \in BOOLEAN /\ postdates \in BOOLEAN
      /\ running \in BOOLEAN /\ recording \in BOOLEAN /\ streaming \in BOOLEAN
  BY Zenon DEF Init
<1>2. ClaimTyped
  <2>1. TRUE \in BOOLEAN
    BY Zenon
  <2> QED BY <1>1, <2>1 DEF Init, NoClaim, ClaimTyped
<1>3. HeardTyped
  BY <1>1, MaxConnType DEF Init, HeardTyped, NoReport, Report
<1>4. BeliefTyped /\ StopTyped /\ SessionTyped
  BY DEF Init, BeliefTyped, StopTyped, SessionTyped
<1>5. ChannelTyped /\ UpTyped /\ ConnTyped /\ OutTyped
  BY <1>1, MaxConnType DEF Init, ChannelTyped, UpTyped, ConnTyped, OutTyped
<1>6. OutputTyped /\ HistoryTyped
  BY <1>1 DEF Init, OutputTyped, HistoryTyped
<1> QED
  BY <1>2, <1>3, <1>4, <1>5, <1>6, TypeParts DEF SignalTyped, EngineTyped

\* Every step keeps the types.
LEMMA TypeStep == TypeOK /\ [Next]_vars => TypeOK'
<1> SUFFICES ASSUME TypeOK, [Next]_vars PROVE TypeOK'
  OBVIOUS
<1>1. CASE OutputAsked
  BY <1>1, OutputAskedTyped
<1>2. CASE ShowLoad \/ ShowUnload
  BY <1>2, LifecycleTyped DEF ShowLoad, ShowUnload
<1>3. CASE ShowStart \/ Forward
  BY <1>3, ForwardTyped
<1>4. CASE \E mode \in Mode : ShowStop(mode)
  BY <1>4, ShowStopTyped
<1>5. CASE \E c \in Conn : Receive(c)
  BY <1>5, ReceiveAckTyped, ReceiveReportTyped, ReceiveRequestTyped DEF Receive
<1>6. CASE \/ \E o \in Output : WindowElapsed(o)
           \/ ShowStopLapses
           \/ \E v \in 1..version : GraceExpires(v)
  BY <1>6, WindowElapsedTyped, ShowStopLapsesTyped, GraceExpiresTyped
<1>7. CASE Age \/ Evaluate
  BY <1>7, AgeTyped, EvaluateTyped
<1>8. CASE Connect \/ Disconnect \/ Restart \/ Pump \/ SendReport
  BY <1>8, ConnectTyped, DisconnectTyped, RestartTyped, PumpTyped,
     SendReportTyped
<1>9. CASE ReadNext
  BY <1>9, ReadResyncTyped, ReadGapTyped, ApplyOtherTyped, ApplyStartTyped,
     BeginClosingTyped, StopAtOnceTyped, RefuseTyped DEF ReadNext
<1>10. CASE FinishClosing \/ ChainLoss
  BY <1>10, FinishClosingTyped, ChainLossTyped
<1>11. CASE UNCHANGED vars
  <2>1. BeliefTyped' /\ SignalTyped' /\ Grown
    BY <1>11, NearSideKept DEF vars
  <2> QED BY <1>11, <2>1, FarSideKept, TypeJoined DEF vars
<1> QED
  BY <1>1, <1>2, <1>3, <1>4, <1>5, <1>6, <1>7, <1>8, <1>9, <1>10, <1>11
     DEF Next, OutputAsked, Receive, ReadNext

\* The control plane's belief and signals, the channel and the engine's
\* outputs always have their types; in particular no claim, held stop or wait
\* is ever ahead of the state version (alerts.ts, server.ts, directive.rs).
THEOREM TypeCorrect == Spec => []TypeOK
BY TypeInit, TypeStep, PTL DEF Spec

-----------------------------------------------------------------------------
(* The alerts are current                                                  *)

\* AlertsCurrent, part by part.
ExpiredOnly ==
  \A o \in Output \intersect alerts : ClaimOpen(o) /\ pending[o].expired
HeldExactly == "held" \in alerts <=> heldStop # 0
SilenceSpeaksAlone ==
  "notReporting" \in alerts =>
     alerts \intersect {"stream", "record", "divergence"} = {}

\* Its parts make it up.
LEMMA CurrentParts ==
  AlertsCurrent <=> ExpiredOnly /\ HeldExactly /\ SilenceSpeaksAlone
  BY Zenon DEF AlertsCurrent, ExpiredOnly, HeldExactly, SilenceSpeaksAlone

\* A step that touches neither the alerts nor what they are about.
LEMMA CurrentKept ==
  AlertsCurrent /\ UNCHANGED <<alerts, pending, heldStop>> => AlertsCurrent'
  BY DEF AlertsCurrent, ClaimOpen

\* A new claim takes its output's alert down with the claim it replaces.
LEMMA ClaimCurrent ==
  ASSUME TypeOK, AlertsCurrent, NEW o \in Output, NEW command,
         ClaimOutput(o, command)
  PROVE  AlertsCurrent'
<1>1. /\ alerts' \subseteq alerts \ {o}
      /\ ("held" \in alerts' <=> "held" \in alerts)
      /\ \A p \in Output \ {o} : pending'[p] = pending[p]
      /\ UNCHANGED heldStop
  BY DEF ClaimOutput, Output, TypeOK
<1> QED BY <1>1 DEF AlertsCurrent, ClaimOpen

\* Giving up on a stop holds its version and raises the alert for it.
LEMMA GiveUpCurrent ==
  ASSUME AlertsCurrent, NEW v \in Nat \ {0}, GiveUp(v), UNCHANGED pending
  PROVE  AlertsCurrent'
<1>1. CASE OutputsActive
  <2>1. alerts' = alerts \union {"held"} /\ heldStop' # 0
    BY <1>1 DEF GiveUp
  <2> QED BY <2>1 DEF AlertsCurrent, ClaimOpen, Output
<1>2. CASE ~OutputsActive
  BY <1>2, CurrentKept DEF GiveUp
<1> QED BY <1>1, <1>2

\* An acknowledgement takes down the alerts of the claims it settles, and the
\* held alert with the stop it witnesses.
LEMMA AckCurrent ==
  ASSUME TypeOK, AlertsCurrent, NEW v, CommandAcked(v)
  PROVE  AlertsCurrent'
<1> DEFINE processed == {o \in Output : Processes(o, v)}
           clears == heldStop # 0 /\ Witnessed(v)
<1>1. /\ alerts' = alerts \ (processed \union (IF clears THEN {"held"} ELSE {}))
      /\ heldStop' = IF clears THEN 0 ELSE heldStop
      /\ \A o \in Output \ processed : pending'[o] = pending[o]
  BY DEF CommandAcked
<1>2. "held" \notin processed
  BY DEF Output
<1> HIDE DEF processed, clears
<1>3. \A o \in Output \intersect alerts' :
        o \in alerts /\ pending'[o] = pending[o]
  BY <1>1
<1>4. "held" \in alerts' <=> heldStop' # 0
  BY <1>1, <1>2 DEF AlertsCurrent
<1>5. alerts' \subseteq alerts
  BY <1>1
<1> QED BY <1>3, <1>4, <1>5 DEF AlertsCurrent, ClaimOpen

\* A window that runs out doubts an unacknowledged claim, unless the engine's
\* silence speaks for it.
LEMMA WindowCurrent ==
  ASSUME TypeOK, AlertsCurrent, NEW o \in Output, WindowElapsed(o)
  PROVE  AlertsCurrent'
<1>1. /\ ClaimLive(o) /\ UNCHANGED heldStop
      /\ pending' = [pending EXCEPT ![o].expired = TRUE]
      /\ alerts' = IF "notReporting" \in alerts THEN alerts
                   ELSE alerts \union {o}
  BY DEF WindowElapsed
<1>2. \A p \in Output : /\ pending'[p].processed = pending[p].processed
                        /\ p # o => pending'[p].expired = pending[p].expired
  BY <1>1 DEF TypeOK
<1>3. pending'[o].expired /\ ~pending'[o].processed
  BY <1>1, Zenon DEF TypeOK, ClaimLive
<1>4. ExpiredOnly'
  BY <1>1, <1>2, <1>3 DEF ExpiredOnly, AlertsCurrent, ClaimOpen
<1>5. HeldExactly' /\ SilenceSpeaksAlone'
  BY <1>1 DEF HeldExactly, SilenceSpeaksAlone, AlertsCurrent, Output
<1> QED BY <1>4, <1>5 DEF AlertsCurrent, ExpiredOnly, HeldExactly,
        SilenceSpeaksAlone

\* The evaluator lets "the engine is not reporting" speak alone.
LEMMA EvaluateCurrent ==
  ASSUME TypeOK, AlertsCurrent, Evaluate PROVE AlertsCurrent'
<1>1. CASE EngineSilent
  <2>1. alerts' = (alerts \ {"stream", "record", "divergence"})
                    \union {"notReporting"}
        /\ UNCHANGED <<pending, heldStop>>
    BY <1>1 DEF Evaluate, EngineSilent
  <2> QED BY <2>1 DEF AlertsCurrent, Output
<1>2. CASE Judge
  <2>1. /\ alerts' \subseteq (alerts \ {"notReporting"}) \union {"divergence"}
        /\ ("held" \in alerts' <=> "held" \in alerts)
        /\ UNCHANGED <<pending, heldStop>>
    BY <1>2 DEF Evaluate, Judge
  <2> QED BY <2>1 DEF AlertsCurrent, ClaimOpen, Output
<1> QED BY <1>1, <1>2 DEF Evaluate

\* Every step keeps the alerts current.
LEMMA CurrentStep == TypeOK /\ AlertsCurrent /\ [Next]_vars => AlertsCurrent'
<1> SUFFICES ASSUME TypeOK, AlertsCurrent, [Next]_vars PROVE AlertsCurrent'
  OBVIOUS
<1>1. CASE OutputAsked
  <2>1. \E o \in Output, command \in OutputCommand : ClaimOutput(o, command)
    BY <1>1, Zenon
       DEF OutputAsked, RecordStart, RecordStop, StreamStart, StreamStop,
           Output, OutputCommand, StartCommand, StopCommand
  <2> QED BY <2>1, ClaimCurrent
<1>2. CASE ShowLoad \/ ShowUnload
  <2>1. heldStop' = 0 /\ alerts' = alerts \ {"held"} /\ UNCHANGED pending
    BY <1>2 DEF ShowLoad, ShowUnload, Lifecycle
  <2> QED BY <2>1 DEF AlertsCurrent, ClaimOpen
<1>3. CASE \E mode \in Mode : ShowStop(mode)
  <2>1. version + 1 \in Nat \ {0}
    BY DEF TypeOK
  <2>2. UNCHANGED pending /\ (GiveUp(version + 1) \/ UNCHANGED <<heldStop, alerts>>)
    BY <1>3 DEF ShowStop
  <2> QED BY <2>1, <2>2, GiveUpCurrent, CurrentKept
<1>4. CASE \E c \in Conn : ReceiveAck(c)
  <2>1. \/ AckIgnored \/ ResyncAcked
        \/ \E v : CommandAcked(v)
    BY <1>4 DEF ReceiveAck
  <2> QED BY <2>1, AckCurrent, CurrentKept DEF AckIgnored, ResyncAcked
<1>5. CASE \E o \in Output : WindowElapsed(o)
  BY <1>5, WindowCurrent
<1>6. CASE \E v \in 1..version : GraceExpires(v)
  <2>1. PICK v \in 1..version : GraceExpires(v)
    BY <1>6
  <2>2. v \in Nat \ {0} /\ GiveUp(v) /\ UNCHANGED pending
    BY <2>1 DEF TypeOK, GraceExpires
  <2> QED BY <2>2, GiveUpCurrent
<1>7. CASE Evaluate
  BY <1>7, EvaluateCurrent
<1>8. CASE ShowStart \/ Forward \/ ShowStopLapses \/ Age \/ Connect
  BY <1>8, CurrentKept
     DEF ShowStart, Forward, signalVars, ShowStopLapses, Age, Connect
<1>9. CASE \E c \in Conn : ReceiveReport(c) \/ ReceiveRequest(c)
  BY <1>9, CurrentKept DEF ReceiveReport, ReceiveRequest, signalVars
<1>10. CASE Disconnect \/ Restart \/ Pump \/ SendReport
  BY <1>10, CurrentKept DEF Disconnect, Restart, Pump, SendReport, signalVars
<1>11. CASE ReadNext \/ FinishClosing \/ ChainLoss
  <2>1. UNCHANGED signalVars
    BY <1>11 DEF ReadNext, ReadResync, ReadGap, ApplyOther, ApplyStart,
       BeginClosing, StopAtOnce, Refuse, FinishClosing, ChainLoss, Accepted, Read
  <2> QED BY <2>1, CurrentKept DEF signalVars
<1>12. CASE UNCHANGED vars
  BY <1>12, CurrentKept DEF vars, signalVars
<1> QED
  BY <1>1, <1>2, <1>3, <1>4, <1>5, <1>6, <1>7, <1>8, <1>9, <1>10, <1>11, <1>12
     DEF Next, OutputAsked, ReadNext

\* For any commands, versions and connections the alert lane is current: an
\* unacknowledged alert stands for a claim still unprocessed, the held alert
\* for a stop still unwitnessed, and silence speaks alone (alerts.ts 215-367).
THEOREM AlertsAlwaysCurrent == Spec => []AlertsCurrent
<1>1. Init => AlertsCurrent
  BY DEF Init, AlertsCurrent
<1> QED BY <1>1, TypeInit, TypeStep, CurrentStep, PTL DEF Spec

-----------------------------------------------------------------------------
(***************************************************************************)
(* What the control plane takes as evidence.  The held alert goes only     *)
(* with a stop the engine carried out; a correction rests on a report that *)
(* the engine built with the newest stream command behind it.  Both follow *)
(* from what the frames on their way can still say, whatever connection    *)
(* they were sent on.                                                      *)
(***************************************************************************)

(* Sequences                                                               *)

\* R relates every element to every later one.
Pairwise(s, R) ==
  \A i, j \in DOMAIN s : i < j => <<s[i], s[j]>> \in R

\* What a sequence is over may be widened.
LEMMA Widened ==
  ASSUME NEW S, NEW T, NEW s \in Seq(S), \A x \in S : x \in T
  PROVE  s \in Seq(T)
  BY SeqMonotonic

\* The first element off, the rest is still related, and follows it.
LEMMA PairTail ==
  ASSUME NEW S, NEW s \in Seq(S), s # <<>>, NEW R, Pairwise(s, R)
  PROVE  /\ Pairwise(Tail(s), R)
         /\ \A j \in DOMAIN Tail(s) : <<Head(s), Tail(s)[j]>> \in R
<1> DEFINE t == Tail(s)  n == Len(s) - 1
<1>1. /\ n \in Nat /\ DOMAIN s = 1..(n + 1) /\ DOMAIN t = 1..n /\ Head(s) = s[1]
      /\ \A j \in 1..n : t[j] = s[j + 1]
  <2>1. Len(s) \in Nat \ {0} /\ DOMAIN s = 1..Len(s)
    BY EmptySeq, LenProperties
  <2>2. /\ t \in Seq(S) /\ Len(t) = n
        /\ \A j \in 1..Len(t) : t[j] = s[j + 1]
    BY HeadTailProperties
  <2>3. DOMAIN t = 1..Len(t)
    BY <2>2, LenProperties
  <2>4. Head(s) = s[1]
    OBVIOUS
  <2> HIDE DEF t
  <2> QED BY <2>1, <2>2, <2>3, <2>4 DEF n
<1> HIDE DEF t, n
<1>2. ASSUME NEW i \in 1..n, NEW j \in 1..n, i < j
      PROVE  <<t[i], t[j]>> \in R
  <2>1. i + 1 \in DOMAIN s /\ j + 1 \in DOMAIN s /\ i + 1 < j + 1
    BY <1>1, <1>2
  <2>2. <<s[i + 1], s[j + 1]>> \in R
    BY <2>1 DEF Pairwise
  <2> QED BY <1>1, <2>2
<1>3. \A j \in 1..n : <<s[1], s[j + 1]>> \in R
  BY <1>1 DEF Pairwise
<1>4. \A j \in DOMAIN t : <<Head(s), t[j]>> \in R
  BY <1>1, <1>3
<1>5. \A i, j \in DOMAIN t : i < j => <<t[i], t[j]>> \in R
  BY <1>1, <1>2
<1>6. Pairwise(t, R)
  BY <1>5 DEF Pairwise
<1> QED BY <1>4, <1>6 DEF t

\* One more element, to which all the others are related.
LEMMA PairAppend ==
  ASSUME NEW S, NEW s \in Seq(S), NEW e \in S, NEW R, Pairwise(s, R),
         \A i \in DOMAIN s : <<s[i], e>> \in R
  PROVE  Pairwise(Append(s, e), R)
<1>1. /\ Len(s) \in Nat /\ DOMAIN s = 1..Len(s)
      /\ DOMAIN Append(s, e) = 1..(Len(s) + 1)
      /\ Append(s, e)[Len(s) + 1] = e
      /\ \A i \in 1..Len(s) : Append(s, e)[i] = s[i]
  BY AppendProperties, LenProperties
<1> QED BY <1>1 DEF Pairwise

\* One sequence behind another.
LEMMA PairConcat ==
  ASSUME NEW S, NEW s \in Seq(S), NEW t \in Seq(S), NEW R,
         Pairwise(s, R), Pairwise(t, R),
         \A i \in DOMAIN s, j \in DOMAIN t : <<s[i], t[j]>> \in R
  PROVE  Pairwise(s \o t, R)
<1>1. /\ Len(s) \in Nat /\ DOMAIN s = 1..Len(s)
      /\ Len(t) \in Nat /\ DOMAIN t = 1..Len(t)
      /\ DOMAIN (s \o t) = 1..(Len(s) + Len(t))
      /\ \A i \in 1..(Len(s) + Len(t)) :
           (s \o t)[i] = IF i <= Len(s) THEN s[i] ELSE t[i - Len(s)]
  BY ConcatProperties, LenProperties
<1> QED BY <1>1 DEF Pairwise

\* A prefix.
LEMMA PairPrefix ==
  ASSUME NEW S, NEW s \in Seq(S), NEW n \in 0..Len(s), NEW R, Pairwise(s, R)
  PROVE  /\ SubSeq(s, 1, n) \in Seq(S)
         /\ Pairwise(SubSeq(s, 1, n), R)
         /\ \A i \in DOMAIN SubSeq(s, 1, n) :
              i \in DOMAIN s /\ SubSeq(s, 1, n)[i] = s[i]
<1>1. /\ Len(s) \in Nat /\ DOMAIN s = 1..Len(s)
      /\ SubSeq(s, 1, n) \in Seq(S) /\ DOMAIN SubSeq(s, 1, n) = 1..n
      /\ \A i \in 1..n : SubSeq(s, 1, n)[i] = s[i]
  BY SubSeqProperties, LenProperties
<1> QED BY <1>1 DEF Pairwise

-----------------------------------------------------------------------------
(* The held alert: what an acknowledgement can be of                       *)

\* The version of a stop the control plane still remembers.
IsStop(v) ==
  \/ v \in waiting
  \/ heldStop # 0 /\ v = heldStop
  \/ \E o \in Output : pending[o].command \in StopCommand /\ pending[o].version = v

\* A resync at this version went out on one of the first c connections.
Resynced(c, v) == \E b \in 1..c : v \in resyncs[b]

\* A frame on its way down: not behind what the engine has carried out, a
\* resync that is remembered, or a directive that is a stop if its version is.
TrueFrame ==
  {f \in DownFrame :
     /\ stopped <= f.sv /\ f.sv <= version
     /\ closing # NoFrame => closing.sv <= f.sv
     /\ IF f.command = "resync" THEN Resynced(conns, f.sv)
        ELSE IsStop(f.sv) => f.command \in StopCommand \union {"show.stop"}}

InOrder == {p \in DownFrame \X DownFrame : p[1].sv <= p[2].sv}

\* A frame the engine sent: the acknowledgement of a stop says that the
\* engine carried it out, or is a resync's.
TrueAck(c) ==
  {f \in UpFrame :
     f.kind = "ack" =>
       /\ f.sv <= version
       /\ IsStop(f.sv) => f.sv <= stopped \/ Resynced(c, f.sv)}

\* The connection is the newest, and nothing was sent on later ones.
ConnInv ==
  /\ conn \in {0, conns}
  /\ conn = 0 => down = <<>>
  /\ \A c \in Conn : c > conns => up[c] = <<>>

StopInv ==
  /\ ConnInv
  /\ stopped <= version
  /\ closing # NoFrame => stopped <= closing.sv /\ closing.sv <= version
  /\ down \in Seq(TrueFrame) /\ Pairwise(down, InOrder)
  /\ outgoing \in Seq(TrueAck(conns))
  /\ \A c \in 1..conns : up[c] \in Seq(TrueAck(c))

\* No version turns into a stop's after the fact.
StopsFixed == \A v \in 0..version : IsStop(v)' => IsStop(v)

\* What a step may do with the evidence and leave it true.
Carries ==
  /\ Grown /\ StopsFixed
  /\ conns <= conns' /\ stopped <= stopped'
  /\ \A b \in 1..conns : resyncs[b] \subseteq resyncs'[b]

\* An acknowledgement that is true stays true.
LEMMA AckCarried ==
  ASSUME TypeOK, TypeOK', Carries
  PROVE  /\ \A c \in 1..conns : \A f \in TrueAck(c) : f \in TrueAck(c)'
         /\ \A f \in TrueAck(conns) : f \in TrueAck(conns)'
<1>1. version \in Nat /\ version' \in Nat /\ version <= version'
      /\ stopped \in Nat /\ stopped' \in Nat /\ stopped <= stopped'
      /\ conns \in Nat /\ conns' \in Nat /\ conns <= conns'
  BY MaxConnType DEF TypeOK, Carries, Grown
<1>2. \A f \in UpFrame : f.kind = "ack" => f.sv \in Nat
  BY DEF UpFrame, ResyncRequest, Report
<1>3. \A v \in Nat : v <= version /\ IsStop(v)' => IsStop(v)
  BY <1>1 DEF Carries, StopsFixed
<1>4. \A b \in 1..conns : resyncs[b] \subseteq resyncs'[b]
  BY DEF Carries
<1>5. \A c \in 1..conns : \A v : Resynced(c, v) => Resynced(c, v)'
  BY <1>1, <1>4 DEF Resynced
<1>6. \A v : Resynced(conns, v) => Resynced(conns, v)'
  BY <1>1, <1>4 DEF Resynced
<1> HIDE DEF IsStop, Resynced, UpFrame
<1>7. \A c \in 1..conns : \A f \in TrueAck(c) : f \in TrueAck(c)'
  BY <1>1, <1>2, <1>3, <1>5 DEF TrueAck
<1>8. \A f \in TrueAck(conns) : f \in TrueAck(conns)'
  BY <1>1, <1>2, <1>3, <1>6 DEF TrueAck
<1> QED BY <1>7, <1>8

\* A frame on its way down stays true while the engine is not past it.
LEMMA FrameCarried ==
  ASSUME TypeOK, TypeOK', Carries, NEW f \in TrueFrame, stopped' <= f.sv,
         closing' # NoFrame => closing'.sv <= f.sv
  PROVE  f \in TrueFrame'
<1>1. version \in Nat /\ version' \in Nat /\ version <= version'
      /\ conns \in Nat /\ conns' \in Nat /\ conns <= conns' /\ f.sv \in Nat
  BY MaxConnType DEF TypeOK, Carries, Grown, TrueFrame, DownFrame
<1>2. f.sv <= version /\ (IsStop(f.sv)' => IsStop(f.sv))
  BY <1>1 DEF TrueFrame, Carries, StopsFixed
<1>3. Resynced(conns, f.sv) => Resynced(conns, f.sv)'
  BY <1>1 DEF Resynced, Carries
<1> QED BY <1>1, <1>2, <1>3 DEF TrueFrame

-----------------------------------------------------------------------------
(* The held alert: steps that keep the evidence                            *)

\* What the engine sent stays true.
LEMMA UpCarried ==
  ASSUME TypeOK, TypeOK', Carries, NEW c \in 1..conns, NEW s \in Seq(TrueAck(c))
  PROVE  s \in Seq(TrueAck(c)')
<1> \A f \in TrueAck(c) : f \in TrueAck(c)'
  BY AckCarried
<1> QED BY Widened

\* So does what the engine has queued, on whichever connection it will go.
LEMMA OutCarried ==
  ASSUME TypeOK, TypeOK', Carries, NEW s \in Seq(TrueAck(conns))
  PROVE  s \in Seq(TrueAck(conns)')
<1> \A f \in TrueAck(conns) : f \in TrueAck(conns)'
  BY AckCarried
<1> QED BY Widened

\* And what is on its way down, while the engine carries out no stop.
LEMMA DownCarried ==
  ASSUME TypeOK, TypeOK', StopInv, Carries, UNCHANGED <<stopped, closing>>
  PROVE  down \in Seq(TrueFrame')
<1>1. \A f \in TrueFrame : f \in TrueFrame'
  <2> TAKE f \in TrueFrame
  <2>1. stopped' <= f.sv /\ (closing' # NoFrame => closing'.sv <= f.sv)
    BY DEF TrueFrame
  <2> QED BY <2>1, FrameCarried
<1>2. down \in Seq(TrueFrame)
  BY DEF StopInv
<1> QED BY <1>1, <1>2, Widened

\* The bounds on the stops.
StopBounds ==
  /\ stopped <= version
  /\ closing # NoFrame => stopped <= closing.sv /\ closing.sv <= version

\* They hold on while the engine carries out no stop.
LEMMA BoundsKept ==
  ASSUME TypeOK, TypeOK', StopInv, Grown, UNCHANGED <<stopped, closing>>
  PROVE  StopBounds'
<1>1. closing # NoFrame => closing.sv \in Nat
  BY DEF TypeOK, DownFrame
<1>2. version \in Nat /\ version' \in Nat /\ stopped \in Nat
  BY DEF TypeOK
<1> QED BY <1>1, <1>2 DEF StopInv, StopBounds, Grown

\* A step that leaves the engine alone and what is on its way down.
LEMMA NearStep ==
  ASSUME TypeOK, TypeOK', StopInv, Carries,
         UNCHANGED <<down, connVars, closing, outgoing, stopped>>,
         \A c \in Conn : up'[c] \in Seq(UpFrame),
         \A c \in 1..conns : up'[c] \in Seq(TrueAck(c)),
         \A c \in Conn : c > conns => up'[c] = <<>>
  PROVE  StopInv'
<1>1. conns' = conns /\ conn' = conn
  BY DEF connVars
<1>2. ConnInv'
  BY <1>1 DEF StopInv, ConnInv
<1>3. StopBounds'
  BY BoundsKept DEF Carries
<1>4. down' \in Seq(TrueFrame)' /\ Pairwise(down, InOrder)'
  BY DownCarried DEF StopInv, Pairwise, InOrder
<1>5. outgoing' \in Seq(TrueAck(conns))'
  BY OutCarried DEF StopInv
<1>6. \A c \in 1..conns : up'[c] \in Seq(TrueAck(c)')
  BY UpCarried
<1>7. \A c \in 1..conns' : up'[c] \in Seq(TrueAck(c))'
  BY <1>1, <1>6
<1> HIDE DEF TrueFrame, TrueAck, InOrder, Pairwise, ConnInv
<1> QED BY <1>2, <1>3, <1>4, <1>5, <1>7 DEF StopInv, StopBounds

\* A step that leaves the versions of the stops alone.
LEMMA StopsKept ==
  ASSUME UNCHANGED <<waiting, heldStop, pending>>
  PROVE  StopsFixed
  BY DEF StopsFixed, IsStop

\* What was sent is untouched when nothing of the channel up is.
LEMMA UpUntouched ==
  ASSUME TypeOK, StopInv, UNCHANGED up
  PROVE  /\ \A c \in Conn : up'[c] \in Seq(UpFrame)
         /\ \A c \in 1..conns : up'[c] \in Seq(TrueAck(c))
         /\ \A c \in Conn : c > conns => up'[c] = <<>>
  BY DEF TypeOK, StopInv, ConnInv

\* A frame sent behind the others.
LEMMA DownGrows ==
  ASSUME TypeOK, TypeOK', StopInv, Carries, UNCHANGED <<stopped, closing, connVars>>,
         NEW frame \in TrueFrame', version <= frame.sv, Send(frame)
  PROVE  down' \in Seq(TrueFrame') /\ Pairwise(down', InOrder)
         /\ (conn' = 0 => down' = <<>>)
<1>1. down \in Seq(TrueFrame') /\ Pairwise(down, InOrder)
  BY DownCarried DEF StopInv
<1>2. \A i \in DOMAIN down : <<down[i], frame>> \in InOrder
  <2> TAKE i \in DOMAIN down
  <2>1. down[i] \in TrueFrame
    BY ElementOfSeq, LenProperties DEF StopInv
  <2>2. down[i] \in DownFrame /\ down[i].sv \in Nat /\ down[i].sv <= version
    BY <2>1 DEF TrueFrame, DownFrame
  <2>3. frame \in DownFrame /\ frame.sv \in Nat
    BY DEF TrueFrame, DownFrame
  <2>4. version \in Nat
    BY DEF TypeOK
  <2>5. down[i].sv <= frame.sv
    <3> HIDE DEF DownFrame, TrueFrame, InOrder
    <3> QED BY <2>2, <2>3, <2>4
  <2> HIDE DEF DownFrame
  <2> QED BY <2>2, <2>3, <2>5 DEF InOrder
<1> HIDE DEF TrueFrame, InOrder
<1>3. Append(down, frame) \in Seq(TrueFrame') /\ Pairwise(Append(down, frame), InOrder)
  BY <1>1, <1>2, PairAppend, AppendProperties
<1>4. conn' = 0 => down' = <<>>
  BY DEF Send, StopInv, ConnInv, connVars, channelVars
<1>5. down' \in {down, Append(down, frame)}
  BY DEF Send, channelVars
<1> QED BY <1>1, <1>3, <1>4, <1>5

\* An accepted command keeps the evidence, if no older version becomes a
\* stop's by it and its own only when it is one.
LEMMA AcceptKeeps ==
  ASSUME TypeOK, TypeOK', StopInv, StopsFixed, Grown,
         NEW command \in Command \ {"resync"}, NEW mode \in Mode,
         Accept(command, mode),
         IsStop(version)' => command \in StopCommand \union {"show.stop"}
  PROVE  StopInv'
<1> DEFINE frame == [command |-> command, sv |-> version + 1, gap |-> hole,
                     mode |-> mode, running |-> show' = "RUNNING"]
<1>1. /\ version \in Nat /\ version' = version + 1
      /\ UNCHANGED <<resyncs, up, connVars, closing, outgoing, stopped>>
      /\ Send(frame)
  BY DEF Accept, TypeOK, sessionVars, outputVars
<1>2. Carries
  BY <1>1 DEF Carries, connVars, TypeOK
<1>3. StopBounds'
  BY <1>1, BoundsKept
<1>4. frame \in DownFrame
  <2>1. hole \in BOOLEAN /\ (show' = "RUNNING") \in BOOLEAN
    BY Zenon DEF TypeOK
  <2> QED BY <1>1, <2>1 DEF DownFrame
<1>5. frame \in TrueFrame'
  <2>1. stopped' <= frame.sv /\ frame.sv <= version'
    BY <1>1, <1>3 DEF StopBounds
  <2>2. closing' # NoFrame => closing'.sv <= frame.sv
    BY <1>1, <1>3 DEF StopBounds
  <2>3. frame.command # "resync"
    OBVIOUS
  <2>4. \A v : v = version + 1 /\ IsStop(v)'
                 => command \in StopCommand \union {"show.stop"}
    BY <1>1 DEF IsStop
  <2>5. frame.sv = version + 1 /\ frame.command = command
    OBVIOUS
  <2> HIDE DEF frame, DownFrame, IsStop
  <2> QED BY <1>4, <2>1, <2>2, <2>3, <2>4, <2>5 DEF TrueFrame
<1>6. version <= frame.sv
  BY <1>1
<1> HIDE DEF frame
<1>7. /\ down' \in Seq(TrueFrame') /\ Pairwise(down', InOrder)
      /\ (conn' = 0 => down' = <<>>)
  BY <1>1, <1>2, <1>5, <1>6, DownGrows
<1>8. outgoing' \in Seq(TrueAck(conns)')
  BY <1>1, <1>2, OutCarried DEF StopInv
<1>9. \A c \in 1..conns : up'[c] \in Seq(TrueAck(c)')
  BY <1>1, <1>2, UpUntouched, UpCarried
<1>10. ConnInv'
  BY <1>1, <1>7, UpUntouched DEF StopInv, ConnInv, connVars
<1>11. conns' = conns
  BY <1>1 DEF connVars
<1> HIDE DEF TrueFrame, TrueAck, InOrder, Pairwise, ConnInv
<1> QED BY <1>3, <1>7, <1>8, <1>9, <1>10, <1>11 DEF StopInv, StopBounds, Pairwise, InOrder

\* What a stop is remembered by never lies ahead of the version.
LEMMA StopBehind ==
  ASSUME TypeOK, NEW v, IsStop(v) PROVE v \in 0..version
<1>1. \A o \in Output : pending[o].version \in 0..version
  BY DEF TypeOK
<1>2. version \in Nat /\ waiting \subseteq 1..version /\ heldStop \in 0..version
  BY DEF TypeOK
<1>3. 1..version \subseteq 0..version
  BY <1>2
<1> QED BY <1>1, <1>2, <1>3, Zenon DEF IsStop

\* A command that claims an output.
LEMMA ClaimKeeps ==
  ASSUME TypeOK, TypeOK', StopInv, Grown, NEW o \in Output,
         NEW command \in OutputCommand, ClaimOutput(o, command),
         Accept(command, "plain")
  PROVE  StopInv'
<1>1. version \in Nat /\ version' = version + 1
  BY DEF Accept, TypeOK
<1>2. /\ \A p \in Output \ {o} : pending'[p] = pending[p]
      /\ pending'[o].command = command /\ pending'[o].version = version + 1
      /\ UNCHANGED <<waiting, heldStop>>
  BY DEF ClaimOutput, TypeOK, Claim
<1>3. StopsFixed
  <2> SUFFICES ASSUME NEW v \in 0..version, IsStop(v)' PROVE IsStop(v)
    BY DEF StopsFixed
  <2>1. v # version + 1
    BY <1>1
  <2> QED BY <1>2, <2>1 DEF IsStop
<1>4. IsStop(version)' => command \in StopCommand
  <2>1. ~IsStop(version + 1)
    BY <1>1, StopBehind
  <2> QED BY <1>1, <1>2, <2>1 DEF IsStop
<1>5. command \in Command \ {"resync"} /\ "plain" \in Mode
  BY DEF Command, OutputCommand, StartCommand, StopCommand, Mode
<1> QED BY <1>3, <1>4, <1>5, AcceptKeeps

\* The output commands.
LEMMA OutputAskedKeeps ==
  ASSUME TypeOK, TypeOK', StopInv, Grown, OutputAsked PROVE StopInv'
<1>1. PICK o \in Output, command \in OutputCommand :
        ClaimOutput(o, command) /\ Accept(command, "plain")
  BY Zenon
     DEF OutputAsked, RecordStart, RecordStop, StreamStart, StreamStop, Output,
         OutputCommand, StartCommand, StopCommand
<1> QED BY <1>1, ClaimKeeps

\* A command about the show that stops nothing.
LEMMA OtherAskedKeeps ==
  ASSUME TypeOK, TypeOK', StopInv, Grown,
         ShowLoad \/ ShowUnload \/ ShowStart \/ Forward
  PROVE  StopInv'
<1>1. PICK command \in {"show.load", "show.unload", "show.start", "other"} :
        Accept(command, "plain")
  BY Zenon DEF ShowLoad, ShowUnload, Lifecycle, ShowStart, Forward
<1>2. UNCHANGED <<waiting, pending>> /\ heldStop' \in {0, heldStop}
  BY DEF ShowLoad, ShowUnload, Lifecycle, ShowStart, Forward, signalVars
<1>3. \A v : IsStop(v)' => IsStop(v)
  BY <1>2 DEF IsStop
<1>4. version \in Nat /\ version' = version + 1
  BY <1>1 DEF Accept, TypeOK
<1>5. ~IsStop(version + 1)
  BY <1>4, StopBehind
<1>6. StopsFixed /\ ~IsStop(version)'
  BY <1>3, <1>4, <1>5 DEF StopsFixed, IsStop
<1>7. command \in Command \ {"resync"} /\ "plain" \in Mode
  BY DEF Command, OutputCommand, StartCommand, StopCommand, Mode
<1> QED BY <1>1, <1>6, <1>7, AcceptKeeps

\* show.stop may be remembered only by the version it is accepted at.
LEMMA ShowStopKeeps ==
  ASSUME TypeOK, TypeOK', StopInv, Grown, NEW mode \in Mode, ShowStop(mode)
  PROVE  StopInv'
<1>1. version \in Nat /\ version' = version + 1
  BY DEF ShowStop, Accept, TypeOK
<1>2. /\ UNCHANGED pending /\ waiting' \subseteq waiting \union {version + 1}
      /\ heldStop' \in {heldStop, version + 1}
  BY DEF ShowStop, GiveUp
<1>3. StopsFixed
  BY <1>1, <1>2 DEF StopsFixed, IsStop
<1>4. "show.stop" \in Command \ {"resync"}
  BY DEF Command, OutputCommand, StartCommand, StopCommand
<1> QED BY <1>3, <1>4, AcceptKeeps DEF ShowStop

\* The control plane's windows, waits and evaluator.
LEMMA TimeKeeps ==
  ASSUME TypeOK, TypeOK', StopInv, Grown,
         \/ \E o \in Output : WindowElapsed(o)
         \/ ShowStopLapses
         \/ \E v \in 1..version : GraceExpires(v)
         \/ Age \/ Evaluate \/ ChainLoss \/ UNCHANGED vars
  PROVE  StopInv'
<1>1. UNCHANGED <<down, up, connVars, closing, outgoing, stopped, resyncs>>
  BY DEF WindowElapsed, ShowStopLapses, GraceExpires, Age, Evaluate, ChainLoss,
         vars, sessionVars, channelVars, engineVars, outputVars, historyVars
<1>2. StopsFixed
  <2>1. CASE \E o \in Output : WindowElapsed(o)
    <3>1. /\ UNCHANGED <<waiting, heldStop>>
          /\ \A o \in Output : /\ pending'[o].command = pending[o].command
                               /\ pending'[o].version = pending[o].version
      <4>1. PICK o \in Output : WindowElapsed(o)
        BY <2>1
      <4>2. /\ DOMAIN pending = Output
            /\ \A p \in Output : {"command", "version"} \subseteq DOMAIN pending[p]
        BY DEF TypeOK
      <4> QED BY <4>1, <4>2 DEF WindowElapsed
    <3> QED BY <3>1 DEF StopsFixed, IsStop
  <2>2. CASE \E v \in 1..version : GraceExpires(v)
    <3>1. /\ UNCHANGED pending /\ waiting' \subseteq waiting
          /\ heldStop' = heldStop \/ heldStop' \in waiting
      BY <2>2 DEF GraceExpires, GiveUp
    <3> QED BY <3>1 DEF StopsFixed, IsStop
  <2>3. CASE ShowStopLapses \/ Age \/ Evaluate \/ ChainLoss \/ UNCHANGED vars
    BY <2>3, StopsKept
       DEF ShowStopLapses, Age, Evaluate, ChainLoss, vars, signalVars
  <2> QED BY <2>1, <2>2, <2>3
<1>3. Carries
  BY <1>1, <1>2 DEF Carries, connVars, TypeOK
<1> QED BY <1>1, <1>3, UpUntouched, NearStep

-----------------------------------------------------------------------------
(* The held alert: what comes up                                           *)

\* The rest of what is on its way up, once its first frame was received.
LEMMA Received ==
  ASSUME TypeOK, StopInv, NEW c \in Conn, up[c] # <<>>,
         up' = [up EXCEPT ![c] = Tail(@)]
  PROVE  /\ c \in 1..conns /\ Head(up[c]) \in TrueAck(c)
         /\ \A b \in Conn : up'[b] \in Seq(UpFrame)
         /\ \A b \in 1..conns : up'[b] \in Seq(TrueAck(b))
         /\ \A b \in Conn : b > conns => up'[b] = <<>>
<1>1. c \in 1..conns
  BY MaxConnType DEF TypeOK, StopInv, ConnInv, Conn
<1>2. up[c] \in Seq(TrueAck(c)) /\ up \in [Conn -> Seq(UpFrame)]
  BY <1>1 DEF StopInv, TypeOK
<1> HIDE DEF TrueAck, UpFrame
<1>3. /\ Head(up[c]) \in TrueAck(c) /\ Tail(up[c]) \in Seq(TrueAck(c))
      /\ Tail(up[c]) \in Seq(UpFrame)
  BY <1>2, HeadTailProperties
<1>4. \A b \in Conn : up'[b] = IF b = c THEN Tail(up[c]) ELSE up[b]
  BY <1>2
<1>5. 1..conns \subseteq Conn
  BY MaxConnType DEF TypeOK, Conn
<1> QED BY <1>1, <1>2, <1>3, <1>4, <1>5 DEF StopInv, ConnInv

\* An acknowledgement forgets stops and remembers none.
LEMMA ReceiveAckKeeps ==
  ASSUME TypeOK, TypeOK', StopInv, Grown, NEW c \in Conn, ReceiveAck(c)
  PROVE  StopInv'
<1>1. UNCHANGED <<down, connVars, closing, outgoing, stopped, resyncs>>
  BY DEF ReceiveAck, channelVars, engineVars, outputVars, historyVars
<1>2. StopsFixed
  <2>1. CASE AckIgnored \/ ResyncAcked
    BY <2>1, StopsKept DEF AckIgnored, ResyncAcked
  <2>2. CASE CommandAcked(Head(up[c]).sv)
    <3>1. /\ waiting' \subseteq waiting /\ heldStop' \in {0, heldStop}
          /\ \A o \in Output : /\ pending'[o].command = pending[o].command
                               /\ pending'[o].version = pending[o].version
      BY <2>2 DEF CommandAcked, TypeOK
    <3> QED BY <3>1 DEF StopsFixed, IsStop
  <2> QED BY <2>1, <2>2 DEF ReceiveAck
<1>3. Carries
  BY <1>1, <1>2 DEF Carries, connVars, TypeOK
<1> QED BY <1>1, <1>3, Received, NearStep DEF ReceiveAck

\* A report is about no stop.
LEMMA ReceiveReportKeeps ==
  ASSUME TypeOK, TypeOK', StopInv, Grown, NEW c \in Conn, ReceiveReport(c)
  PROVE  StopInv'
<1>1. UNCHANGED <<down, connVars, closing, outgoing, stopped, resyncs>>
  BY DEF ReceiveReport, sessionVars, channelVars, engineVars, outputVars,
         historyVars
<1>2. Carries
  BY <1>1, StopsKept DEF ReceiveReport, Carries, connVars, TypeOK
<1> QED BY <1>1, <1>2, Received, NearStep DEF ReceiveReport

\* A requested resync is remembered before it is sent.
LEMMA ReceiveRequestKeeps ==
  ASSUME TypeOK, TypeOK', StopInv, Grown, NEW c \in Conn, ReceiveRequest(c)
  PROVE  StopInv'
<1>1. /\ UNCHANGED <<connVars, closing, outgoing, stopped, version>>
      /\ UNCHANGED <<waiting, heldStop, pending>>
  BY DEF ReceiveRequest, beliefVars, signalVars, engineVars, outputVars,
         historyVars
<1>2. /\ c \in 1..conns
      /\ \A b \in Conn : up'[b] \in Seq(UpFrame)
      /\ \A b \in 1..conns : up'[b] \in Seq(TrueAck(b))
      /\ \A b \in Conn : b > conns => up'[b] = <<>>
  BY Received DEF ReceiveRequest
<1>3. /\ conns' = conns /\ 1..conns \subseteq Conn
      /\ \A b \in Conn : resyncs[b] \subseteq resyncs'[b]
      /\ version \in resyncs'[c]
  BY <1>1, MaxConnType DEF ReceiveRequest, TypeOK, connVars, Conn
<1>4. Carries
  BY <1>1, <1>3, StopsKept DEF Carries, TypeOK
<1>5. CASE UNCHANGED channelVars
  BY <1>1, <1>2, <1>4, <1>5, NearStep DEF channelVars
<1>6. CASE Send(Resync)
  <2>1. StopBounds'
    BY <1>1, BoundsKept
  <2>2. Resync \in DownFrame
    BY ResyncTyped
  <2>3. Resynced(conns, version)'
    BY <1>1, <1>2, <1>3 DEF Resynced
  <2>4. Resync \in TrueFrame'
    <3>1. Resync.sv = version /\ Resync.command = "resync"
      BY DEF Resync
    <3>2. \A v : v = version => Resynced(conns, v)'
      BY <1>1, <2>3 DEF Resynced
    <3>3. version \in Nat
      BY DEF TypeOK
    <3> HIDE DEF Resync, DownFrame, Resynced
    <3> QED BY <1>1, <2>1, <2>2, <3>1, <3>2, <3>3 DEF TrueFrame, StopBounds
  <2>5. version <= Resync.sv
    BY DEF Resync, TypeOK
  <2> HIDE DEF Resync
  <2>6. /\ down' \in Seq(TrueFrame') /\ Pairwise(down', InOrder)
        /\ (conn' = 0 => down' = <<>>)
    BY <1>1, <1>4, <1>6, <2>4, <2>5, DownGrows
  <2>7. outgoing' \in Seq(TrueAck(conns)')
    BY <1>1, <1>4, OutCarried DEF StopInv
  <2>8. \A b \in 1..conns : up'[b] \in Seq(TrueAck(b)')
    BY <1>2, <1>4, UpCarried
  <2>9. ConnInv'
    BY <1>1, <1>2, <1>3, <2>6 DEF StopInv, ConnInv, connVars
  <2> HIDE DEF TrueFrame, TrueAck, ConnInv
  <2> QED BY <1>3, <2>1, <2>6, <2>7, <2>8, <2>9
          DEF StopInv, StopBounds, Pairwise, InOrder
<1> QED BY <1>5, <1>6 DEF ReceiveRequest

-----------------------------------------------------------------------------
(* The held alert: the engine's connections                                *)

\* A connection starts with a resync and nothing sent before it.
LEMMA ConnectKeeps ==
  ASSUME TypeOK, TypeOK', StopInv, Grown, Connect PROVE StopInv'
<1>1. /\ UNCHANGED <<version, closing, outgoing, stopped, up>>
      /\ UNCHANGED <<waiting, heldStop, pending>>
      /\ conns' = conns + 1 /\ conn' = conns + 1 /\ closing = NoFrame
      /\ down' = <<Resync>>
      /\ resyncs' = [resyncs EXCEPT ![conns + 1] = {version}]
  BY DEF Connect, beliefVars, outputVars
<1>2. conns \in Nat /\ conns + 1 \in Conn /\ version \in Nat
      /\ 1..conns \subseteq Conn
  BY MaxConnType DEF Connect, TypeOK, Conn
<1>3. /\ version \in resyncs'[conns + 1]
      /\ \A b \in 1..conns : resyncs[b] \subseteq resyncs'[b]
  BY <1>1, <1>2 DEF TypeOK
<1>4. Carries
  BY <1>1, <1>2, <1>3, StopsKept DEF Carries, TypeOK
<1>5. StopBounds'
  BY <1>1, BoundsKept
<1>6. Resync \in TrueFrame'
  <2>1. Resync.sv = version /\ Resync.command = "resync" /\ Resync \in DownFrame
    BY ResyncTyped DEF Resync
  <2>2. \A v : v = version => Resynced(conns, v)'
    BY <1>1, <1>2, <1>3 DEF Resynced
  <2> HIDE DEF Resync, DownFrame, Resynced
  <2> QED BY <1>1, <1>2, <1>5, <2>1, <2>2 DEF TrueFrame, StopBounds
<1>7. down' \in Seq(TrueFrame') /\ Pairwise(down', InOrder)
  <2> HIDE DEF Resync, TrueFrame, InOrder
  <2> QED BY <1>1, <1>6 DEF Pairwise
<1>8. outgoing' \in Seq(TrueAck(conns)')
  BY <1>1, <1>4, OutCarried DEF StopInv
<1>9. \A c \in 1..conns' : up'[c] \in Seq(TrueAck(c)')
  <2>1. \A c \in 1..conns : up'[c] \in Seq(TrueAck(c)')
    BY <1>1, <1>4, UpUntouched, UpCarried
  <2>2. up'[conns + 1] = <<>>
    BY <1>1, <1>2 DEF StopInv, ConnInv
  <2>3. \A c \in 1..conns' : c \in 1..conns \/ c = conns + 1
    BY <1>1, <1>2
  <2> TAKE c \in 1..conns'
  <2>4. CASE c \in 1..conns
    BY <2>1, <2>4
  <2>5. CASE c = conns + 1
    <3>1. up'[c] = <<>>
      BY <2>2, <2>5
    <3> HIDE DEF TrueAck
    <3> QED BY <3>1
  <2> QED BY <2>3, <2>4, <2>5
<1>10. ConnInv'
  BY <1>1, <1>2, MaxConnType DEF StopInv, ConnInv, Conn
<1> HIDE DEF TrueFrame, TrueAck, ConnInv
<1> QED BY <1>5, <1>7, <1>8, <1>9, <1>10 DEF StopInv, StopBounds, Pairwise, InOrder

\* The connection goes, and with it the frames on their way down; of those on
\* their way up a prefix is left.
LEMMA DropKeeps ==
  ASSUME TypeOK, TypeOK', StopInv, Grown, Drop,
         UNCHANGED <<version, conns, resyncs, stopped>>,
         UNCHANGED <<waiting, heldStop, pending>>,
         closing' \in {closing, NoFrame}, outgoing' = outgoing \/ outgoing' = <<>>
  PROVE  StopInv'
<1>1. conn' = 0 /\ down' = <<>> /\ conn # 0 /\ conn = conns /\ conns \in Conn
  BY MaxConnType DEF Drop, StopInv, ConnInv, TypeOK, Conn
<1>2. PICK n \in 0..Len(up[conns]) :
        up' = [up EXCEPT ![conns] = SubSeq(up[conns], 1, n)]
  BY <1>1 DEF Drop
<1>3. Carries
  BY StopsKept DEF Carries, TypeOK
<1>4. StopBounds'
  BY BoundsKept DEF StopInv, StopBounds
<1>5. down' \in Seq(TrueFrame') /\ Pairwise(down', InOrder)
  BY <1>1 DEF Pairwise
<1>6. outgoing' \in Seq(TrueAck(conns)')
  <2> DEFINE S == TrueAck(conns)'
  <2>1. outgoing \in Seq(S)
    BY <1>3, OutCarried DEF StopInv
  <2> HIDE DEF S
  <2>2. <<>> \in Seq(S)
    OBVIOUS
  <2>3. outgoing' \in Seq(S)
    BY <2>1, <2>2, Zenon
  <2> QED BY <2>3 DEF S
<1>7. \A c \in 1..conns : up'[c] \in Seq(TrueAck(c)')
  <2>1. up[conns] \in Seq(TrueAck(conns)) /\ up \in [Conn -> Seq(UpFrame)]
    BY <1>1 DEF StopInv, TypeOK, Conn
  <2>2. SubSeq(up[conns], 1, n) \in Seq(TrueAck(conns))
    BY <2>1, SubSeqProperties
  <2>3. 1..conns \subseteq Conn
    BY MaxConnType, <1>1 DEF Conn
  <2>4. \A c \in 1..conns : up'[c] \in Seq(TrueAck(c))
    <3>1. TAKE c \in 1..conns
    <3>2. CASE c = conns
      BY <1>1, <1>2, <2>1, <2>2, <3>2
    <3>3. CASE c # conns
      BY <1>2, <2>1, <2>3, <3>3 DEF StopInv
    <3> QED BY <3>2, <3>3
  <2> QED BY <1>3, <2>4, UpCarried
<1>8. ConnInv'
  BY <1>1, <1>2 DEF StopInv, ConnInv, TypeOK
<1> HIDE DEF TrueFrame, TrueAck, ConnInv
<1> QED BY <1>4, <1>5, <1>6, <1>7, <1>8 DEF StopInv, StopBounds, Pairwise, InOrder

\* The two ways a connection goes.
LEMMA DropsKeep ==
  ASSUME TypeOK, TypeOK', StopInv, Grown, Disconnect \/ Restart PROVE StopInv'
<1>1. /\ Drop /\ UNCHANGED <<version, conns, resyncs, stopped>>
      /\ UNCHANGED <<waiting, heldStop, pending>>
      /\ closing' \in {closing, NoFrame} /\ (outgoing' = outgoing \/ outgoing' = <<>>)
  BY DEF Disconnect, Restart, beliefVars, signalVars, sessionVars, outputVars,
         historyVars
<1> QED BY <1>1, DropKeeps

\* Whatever is put on the way up is one of the connection's true frames.
LEMMA SentUp ==
  ASSUME TypeOK, TypeOK', StopInv, Grown, conn # 0,
         UNCHANGED <<beliefVars, signalVars, sessionVars, channelVars, connVars,
                     outputVars, historyVars>>,
         outgoing' = outgoing \/ outgoing' = <<>>, NEW more \in Seq(TrueAck(conns)),
         up' = [up EXCEPT ![conn] = @ \o more]
  PROVE  StopInv'
<1>1. conn = conns /\ conns \in Conn /\ 1..conns \subseteq Conn
  BY MaxConnType DEF StopInv, ConnInv, TypeOK, Conn
<1>2. UNCHANGED <<version, down, conns, conn, closing, stopped, resyncs>>
      /\ UNCHANGED <<waiting, heldStop, pending>>
  BY DEF beliefVars, signalVars, sessionVars, channelVars, connVars,
         outputVars, historyVars
<1>3. Carries
  BY <1>2, StopsKept DEF Carries, TypeOK
<1>4. StopBounds'
  BY <1>2, BoundsKept
<1>5. down' \in Seq(TrueFrame') /\ Pairwise(down', InOrder)
  BY <1>2, <1>3, DownCarried DEF StopInv
<1>6. outgoing' \in Seq(TrueAck(conns)')
  <2> DEFINE S == TrueAck(conns)'
  <2>1. outgoing \in Seq(S)
    BY <1>3, OutCarried DEF StopInv
  <2> HIDE DEF S
  <2>2. <<>> \in Seq(S)
    OBVIOUS
  <2>3. outgoing' \in Seq(S)
    BY <2>1, <2>2, Zenon
  <2> QED BY <2>3 DEF S
<1>7. \A c \in 1..conns : up'[c] \in Seq(TrueAck(c)')
  <2>1. up[conns] \in Seq(TrueAck(conns)) /\ up \in [Conn -> Seq(UpFrame)]
    BY <1>1 DEF StopInv, TypeOK, Conn
  <2> HIDE DEF TrueAck
  <2>2. up[conns] \o more \in Seq(TrueAck(conns))
    BY <2>1, ConcatProperties
  <2>3. \A c \in 1..conns : up'[c] \in Seq(TrueAck(c))
    <3>1. TAKE c \in 1..conns
    <3>2. CASE c = conns
      BY <1>1, <2>1, <2>2, <3>2
    <3>3. CASE c # conns
      BY <1>1, <2>1, <3>3 DEF StopInv
    <3> QED BY <3>2, <3>3
  <2> QED BY <1>3, <2>3, UpCarried
<1>8. ConnInv'
  BY <1>1, <1>2 DEF StopInv, ConnInv, TypeOK
<1> HIDE DEF TrueFrame, TrueAck, ConnInv
<1> QED BY <1>2, <1>4, <1>5, <1>6, <1>7, <1>8 DEF StopInv, StopBounds, Pairwise, InOrder

\* The queue goes up as it is.
LEMMA PumpKeeps ==
  ASSUME TypeOK, TypeOK', StopInv, Grown, Pump PROVE StopInv'
<1>1. outgoing \in Seq(TrueAck(conns))
  BY DEF StopInv
<1> HIDE DEF TrueAck
<1> QED BY <1>1, SentUp DEF Pump

\* A report acknowledges nothing.
LEMMA SendReportKeeps ==
  ASSUME TypeOK, TypeOK', StopInv, Grown, SendReport PROVE StopInv'
<1> DEFINE frame == [kind |-> "report", streaming |-> streaming, done |-> done,
                     conn |-> conn]
<1>1. frame \in TrueAck(conns)
  <2>1. frame \in UpFrame /\ frame.kind # "ack"
    BY MaxConnType DEF TypeOK, Report, UpFrame
  <2> HIDE DEF frame, UpFrame
  <2> QED BY <2>1 DEF TrueAck
<1>2. up[conn] \in Seq(UpFrame) /\ frame \in UpFrame
      /\ up' = [up EXCEPT ![conn] = Append(up[conn], frame)]
  BY <1>1, MaxConnType DEF SendReport, TypeOK, Conn, TrueAck
<1>3. <<frame>> \in Seq(TrueAck(conns))
  BY <1>1
<1>4. Append(up[conn], frame) = up[conn] \o <<frame>>
  <2> HIDE DEF frame
  <2> QED BY <1>2, AppendIsConcat
<1>5. up' = [up EXCEPT ![conn] = up[conn] \o <<frame>>]
  BY <1>2, <1>4
<1> HIDE DEF frame, TrueAck
<1> QED BY <1>3, <1>5, SentUp DEF SendReport

-----------------------------------------------------------------------------
(* The held alert: what the engine carries out                             *)

\* The engine queues a true frame, or none.
Queued ==
  UNCHANGED outgoing \/ \E f \in TrueAck(conns)' : outgoing' = Append(outgoing, f)

\* A step of the engine's that queues a true frame, or none, and
\* is past nothing that is still on its way down.
LEMMA EngineStep ==
  ASSUME TypeOK, TypeOK', StopInv, Carries,
         UNCHANGED <<version, connVars, up>>,
         Queued, StopBounds', conn' = 0 => down' = <<>>,
         down' \in Seq(TrueFrame), Pairwise(down', InOrder),
         \A i \in DOMAIN down' :
           /\ stopped' <= down'[i].sv
           /\ closing' # NoFrame => closing'.sv <= down'[i].sv
  PROVE  StopInv'
<1>1. UNCHANGED <<conns, conn>>
  BY DEF connVars
<1>2. down' \in Seq(TrueFrame')
  <2>1. \A i \in DOMAIN down' : down'[i] \in TrueFrame'
    <3> TAKE i \in DOMAIN down'
    <3>1. down'[i] \in TrueFrame
      BY ElementOfSeq, LenProperties
    <3> QED BY <3>1, FrameCarried
  <2>2. /\ Len(down') \in Nat /\ DOMAIN down' = 1..Len(down')
        /\ down' = [i \in 1..Len(down') |-> down'[i]]
    BY LenProperties
  <2> DEFINE S == TrueFrame'  d == down'
  <2>3. d \in [1..Len(d) -> S] /\ Len(d) \in Nat
    BY <2>1, <2>2
  <2> HIDE DEF S, d
  <2>4. d \in Seq(S)
    BY <2>3, SeqDef
  <2> QED BY <2>4 DEF S, d
<1>3. outgoing' \in Seq(TrueAck(conns)')
  <2> DEFINE S == TrueAck(conns)'
  <2>1. outgoing \in Seq(S)
    BY OutCarried DEF StopInv
  <2>2. CASE UNCHANGED outgoing
    BY <2>1, <2>2, Zenon
  <2>3. CASE \E f \in S : outgoing' = Append(outgoing, f)
    <3>1. PICK f \in S : outgoing' = Append(outgoing, f)
      BY <2>3, Zenon
    <3> HIDE DEF S
    <3>2. Append(outgoing, f) \in Seq(S)
      BY <2>1, <3>1, AppendProperties
    <3> QED BY <3>1, <3>2, Zenon DEF S
  <2> QED BY <2>2, <2>3, Zenon DEF Queued
<1>4. \A c \in 1..conns : up'[c] \in Seq(TrueAck(c)')
  BY UpUntouched, UpCarried
<1>5. ConnInv'
  BY <1>1 DEF StopInv, ConnInv
<1> HIDE DEF TrueFrame, TrueAck, ConnInv
<1> QED BY <1>1, <1>2, <1>3, <1>4, <1>5 DEF StopInv, StopBounds, Pairwise, InOrder

\* The frame that is read is true, and what is behind it is no older.
LEMMA ReadFrame ==
  ASSUME TypeOK, StopInv, NEW f \in Arriving, Read(f)
  PROVE  /\ f \in TrueFrame /\ f.sv \in Nat /\ closing = NoFrame
         /\ stopped <= f.sv /\ f.sv <= version
         /\ down' \in Seq(TrueFrame) /\ Pairwise(down', InOrder)
         /\ \A i \in DOMAIN down' : f.sv <= down'[i].sv
         /\ conn' # 0
<1>1. down # <<>> /\ f = Head(down) /\ closing = NoFrame /\ conn # 0
      /\ down' = Tail(down) /\ UNCHANGED conn
  BY DEF Arriving, Read, connVars
<1>2. down \in Seq(TrueFrame) /\ Pairwise(down, InOrder)
  BY DEF StopInv
<1> HIDE DEF TrueFrame, InOrder
<1>3. f \in TrueFrame /\ down' \in Seq(TrueFrame)
  BY <1>1, <1>2, HeadTailProperties
<1>4. Pairwise(down', InOrder) /\ \A i \in DOMAIN down' : <<f, down'[i]>> \in InOrder
  BY <1>1, <1>2, PairTail
<1>5. \A i \in DOMAIN down' : f.sv <= down'[i].sv
  BY <1>4 DEF InOrder
<1>6. f.sv \in Nat /\ stopped <= f.sv /\ f.sv <= version
  BY <1>3 DEF TrueFrame, DownFrame
<1> QED BY <1>1, <1>3, <1>4, <1>5, <1>6

\* A step that reads a frame: it closes for that frame or for none, carries
\* out that stop or none, and queues a true frame or none.
LEMMA ReadStep ==
  ASSUME TypeOK, TypeOK', StopInv, NEW f \in Arriving, Read(f),
         UNCHANGED stopped \/ stopped' = f.sv,
         UNCHANGED closing \/ closing' = f, Queued
  PROVE  StopInv'
<1>1. /\ f \in TrueFrame /\ f.sv \in Nat /\ closing = NoFrame
      /\ stopped <= f.sv /\ f.sv <= version
      /\ down' \in Seq(TrueFrame) /\ Pairwise(down', InOrder)
      /\ \A i \in DOMAIN down' : f.sv <= down'[i].sv
      /\ conn' # 0
  BY ReadFrame
<1>2. /\ UNCHANGED <<version, connVars, conns, up, resyncs>>
      /\ UNCHANGED <<waiting, heldStop, pending>>
  BY DEF Read, beliefVars, signalVars, sessionVars, connVars
<1>3. stopped \in Nat /\ version \in Nat
  BY DEF TypeOK
<1>4. stopped <= stopped' /\ stopped' <= f.sv
  BY <1>1, <1>3
<1>5. Carries
  BY <1>2, <1>3, <1>4, StopsKept DEF Carries, Grown, TypeOK
<1>6. StopBounds'
  BY <1>1, <1>2, <1>3, <1>4 DEF StopBounds
<1>7. \A i \in DOMAIN down' :
        /\ stopped' <= down'[i].sv
        /\ closing' # NoFrame => closing'.sv <= down'[i].sv
  <2> TAKE i \in DOMAIN down'
  <2>1. down'[i] \in TrueFrame
    BY <1>1, ElementOfSeq, LenProperties
  <2>2. down'[i].sv \in Nat /\ f.sv <= down'[i].sv
    BY <1>1, <2>1 DEF TrueFrame, DownFrame
  <2>3. stopped' <= down'[i].sv
    BY <1>1, <1>3, <1>4, <2>2
  <2>4. closing' # NoFrame => closing' = f
    BY <1>1
  <2> QED BY <2>2, <2>3, <2>4
<1> HIDE DEF TrueFrame, InOrder, Pairwise
<1> QED BY <1>1, <1>2, <1>5, <1>6, <1>7, EngineStep

\* What may be queued for a frame: a resync's acknowledgement, a command's
\* that stops nothing, and a stop's that was carried out.
LEMMA AckQueued ==
  ASSUME TypeOK, TypeOK', StopInv, Grown, NEW f \in DownFrame,
         UNCHANGED <<version, waiting, heldStop, pending, conns, resyncs>>,
         f.sv <= version, outgoing' = Append(outgoing, Ack(f.sv)),
         IsStop(f.sv) => f.sv <= stopped' \/ Resynced(conns, f.sv)
  PROVE  Queued
<1>1. Ack(f.sv) \in UpFrame /\ Ack(f.sv).sv = f.sv
  BY DEF Ack, UpFrame, DownFrame
<1>2. f.sv <= version'
  BY DEF TypeOK
<1>3. \A v : v = f.sv => (IsStop(v)' => v <= stopped' \/ Resynced(conns, v)')
  BY DEF IsStop, Resynced
<1> DEFINE a == Ack(f.sv)
<1> HIDE DEF a, UpFrame, IsStop, Resynced
<1>5. a \in UpFrame /\ a.sv = f.sv
  BY <1>1 DEF a
<1>6. a \in TrueAck(conns)'
  BY <1>2, <1>3, <1>5 DEF TrueAck
<1>7. outgoing' = Append(outgoing, a)
  BY DEF a
<1> QED BY <1>6, <1>7, Zenon DEF Queued

\* Reading a frame keeps the evidence, whatever the engine makes of it.
LEMMA ReadsKeep ==
  ASSUME TypeOK, TypeOK', StopInv, Grown, ReadNext PROVE StopInv'
<1>1. ASSUME NEW f \in Arriving, Read(f)
      PROVE  /\ f \in TrueFrame /\ f \in DownFrame /\ f.sv <= version
             /\ UNCHANGED <<version, waiting, heldStop, pending, conns, resyncs>>
             /\ ResyncRequest \in TrueAck(conns)'
  <2>1. f \in TrueFrame /\ f.sv <= version
    BY <1>1, ReadFrame
  <2>2. UNCHANGED <<version, waiting, heldStop, pending, conns, resyncs>>
    BY <1>1 DEF Read, beliefVars, signalVars, sessionVars, connVars
  <2>3. ResyncRequest \in UpFrame /\ ResyncRequest.kind # "ack"
    BY DEF ResyncRequest, UpFrame
  <2>4. ResyncRequest \in TrueAck(conns)'
    <3> HIDE DEF UpFrame, ResyncRequest
    <3> QED BY <2>3 DEF TrueAck
  <2> QED BY <2>1, <2>2, <2>4 DEF TrueFrame
<1>2. CASE ReadResync
  <2>1. PICK f \in Arriving :
          Read(f) /\ f.command = "resync" /\ Applied(f) /\ UNCHANGED <<closing, stopped>>
    BY <1>2 DEF ReadResync
  <2>2. Resynced(conns, f.sv)
    BY <1>1, <2>1 DEF TrueFrame
  <2>3. Queued
    BY <1>1, <2>1, <2>2, AckQueued DEF Applied
  <2> QED BY <2>1, <2>3, ReadStep
<1>3. CASE ReadGap
  <2>1. PICK f \in Arriving :
          Read(f) /\ outgoing' = Append(outgoing, ResyncRequest)
          /\ UNCHANGED <<closing, stopped>>
    BY <1>3 DEF ReadGap, outputVars
  <2>2. ResyncRequest \in TrueAck(conns)'
    BY <1>1, <2>1
  <2>3. Queued
    BY <2>1, <2>2, Zenon DEF Queued
  <2> QED BY <2>1, <2>3, ReadStep
<1>4. CASE ApplyOther \/ ApplyStart
  <2>1. PICK f \in Arriving :
          Read(f) /\ f.command \notin StopCommand \union {"show.stop", "resync"}
          /\ Applied(f) /\ UNCHANGED <<closing, stopped>>
    BY <1>4 DEF ApplyOther, ApplyStart, Accepted, OutputCommand, StopCommand
  <2>2. ~IsStop(f.sv)
    BY <1>1, <2>1 DEF TrueFrame
  <2>3. Queued
    BY <1>1, <2>1, <2>2, AckQueued DEF Applied
  <2> QED BY <2>1, <2>3, ReadStep
<1>5. CASE BeginClosing \/ Refuse
  <2>1. PICK f \in Arriving :
          Read(f) /\ (UNCHANGED closing \/ closing' = f)
          /\ UNCHANGED <<outgoing, stopped>>
    BY <1>5 DEF BeginClosing, Refuse, Accepted, RefusedBy, outputVars
  <2> QED BY <2>1, ReadStep DEF Queued
<1>6. CASE StopAtOnce
  <2>1. PICK f \in Arriving :
          Read(f) /\ Applied(f) /\ UNCHANGED closing /\ stopped' = f.sv
    BY <1>6 DEF StopAtOnce, Accepted
  <2>2. f.sv <= stopped'
    BY <2>1, ReadFrame
  <2>3. Queued
    BY <1>1, <2>1, <2>2, AckQueued DEF Applied
  <2> QED BY <2>1, <2>3, ReadStep
<1> QED BY <1>2, <1>3, <1>4, <1>5, <1>6 DEF ReadNext

\* A stop whose close succeeded was carried out; nothing older is still to
\* come.
LEMMA FinishKeeps ==
  ASSUME TypeOK, TypeOK', StopInv, Grown, FinishClosing PROVE StopInv'
<1>1. /\ closing \in DownFrame /\ closing.sv \in Nat
      /\ stopped <= closing.sv /\ closing.sv <= version
      /\ stopped \in Nat /\ version \in Nat
  BY DEF FinishClosing, TypeOK, StopInv, DownFrame
<1>2. /\ UNCHANGED <<version, connVars, conns, conn, up, resyncs, down>>
      /\ UNCHANGED <<waiting, heldStop, pending>>
      /\ closing' = NoFrame
      /\ \/ Applied(closing) /\ stopped' = closing.sv
         \/ UNCHANGED <<outgoing, stopped>>
  BY DEF FinishClosing, RefusedBy, beliefVars, signalVars, sessionVars,
         channelVars, connVars
<1>3. Queued
  <2>1. CASE Applied(closing) /\ stopped' = closing.sv
    <3>1. closing.sv <= stopped'
      BY <1>1, <2>1
    <3> QED BY <1>1, <1>2, <2>1, <3>1, AckQueued DEF Applied
  <2>2. CASE UNCHANGED outgoing
    BY <2>2 DEF Queued
  <2> QED BY <1>2, <2>1, <2>2
<1>4. Carries
  BY <1>1, <1>2, StopsKept DEF Carries, Grown, TypeOK
<1>5. StopBounds'
  BY <1>1, <1>2 DEF StopBounds
<1>6. down' \in Seq(TrueFrame) /\ Pairwise(down', InOrder) /\ (conn' = 0 => down' = <<>>)
  BY <1>2 DEF StopInv, ConnInv
<1>7. \A i \in DOMAIN down' : stopped' <= down'[i].sv
  <2> TAKE i \in DOMAIN down'
  <2>1. down'[i] \in TrueFrame
    BY <1>6, ElementOfSeq, LenProperties
  <2>2. down'[i].sv \in Nat /\ closing.sv <= down'[i].sv
    BY <2>1 DEF TrueFrame, DownFrame, FinishClosing
  <2> QED BY <1>1, <1>2, <2>2
<1> HIDE DEF TrueFrame, InOrder, Pairwise
<1> QED BY <1>2, <1>3, <1>4, <1>5, <1>6, <1>7, EngineStep

-----------------------------------------------------------------------------
(* The held alert: what takes it down                                      *)

\* No step takes the version back.
LEMMA AlwaysGrown ==
  ASSUME TypeOK, TypeOK', [Next]_vars PROVE Grown
<1>1. version \in Nat /\ version' \in Nat
  BY DEF TypeOK
<1>2. version' = version \/ version' = version + 1
  <2>1. CASE OutputAsked \/ ShowLoad \/ ShowUnload \/ ShowStart \/ Forward
             \/ \E mode \in Mode : ShowStop(mode)
    BY <2>1 DEF OutputAsked, RecordStart, RecordStop, StreamStart, StreamStop,
       ShowLoad, ShowUnload, Lifecycle, ShowStart, Forward, ShowStop, Accept
  <2>2. CASE \E c \in Conn : Receive(c)
    BY <2>2 DEF Receive, ReceiveAck, ReceiveReport, ReceiveRequest, beliefVars
  <2>3. CASE \/ \E o \in Output : WindowElapsed(o)
             \/ ShowStopLapses
             \/ \E v \in 1..version : GraceExpires(v)
             \/ Age \/ Evaluate
    BY <2>3 DEF WindowElapsed, ShowStopLapses, GraceExpires, Age, Evaluate,
       EngineSilent, Judge, beliefVars
  <2>4. CASE Connect \/ Disconnect \/ Restart \/ Pump \/ SendReport
    BY <2>4 DEF Connect, Disconnect, Restart, Pump, SendReport, beliefVars
  <2>5. CASE ReadNext \/ FinishClosing \/ ChainLoss \/ UNCHANGED vars
    BY <2>5 DEF ReadNext, ReadResync, ReadGap, ApplyOther, ApplyStart,
       BeginClosing, StopAtOnce, Refuse, FinishClosing, ChainLoss, Accepted,
       Read, vars, beliefVars
  <2> QED BY <2>1, <2>2, <2>3, <2>4, <2>5
          DEF Next, OutputAsked, Receive, ReadNext
<1> QED BY <1>1, <1>2 DEF Grown

\* Nothing was sent and nothing stopped at the start.
LEMMA StopInit == Init => StopInv
<1> SUFFICES ASSUME Init PROVE StopInv
  OBVIOUS
<1>1. /\ stopped = 0 /\ closing = NoFrame /\ down = <<>> /\ outgoing = <<>>
      /\ conns = 0 /\ conn = 0 /\ \A c \in Conn : up[c] = <<>>
      /\ stopped <= version
  BY DEF Init
<1> HIDE DEF TrueFrame, TrueAck, InOrder
<1> QED BY <1>1 DEF StopInv, ConnInv, Pairwise

\* Every step keeps the evidence about the stops.
LEMMA StopStep ==
  TypeOK /\ StopInv /\ [Next]_vars => StopInv'
<1> SUFFICES ASSUME TypeOK, StopInv, [Next]_vars PROVE StopInv'
  OBVIOUS
<1>1. TypeOK' /\ Grown
  BY TypeStep, AlwaysGrown
<1>2. CASE OutputAsked
  BY <1>1, <1>2, OutputAskedKeeps
<1>3. CASE ShowLoad \/ ShowUnload \/ ShowStart \/ Forward
  BY <1>1, <1>3, OtherAskedKeeps
<1>4. CASE \E mode \in Mode : ShowStop(mode)
  BY <1>1, <1>4, ShowStopKeeps
<1>5. CASE \E c \in Conn : Receive(c)
  BY <1>1, <1>5, ReceiveAckKeeps, ReceiveReportKeeps, ReceiveRequestKeeps
     DEF Receive
<1>6. CASE \/ \E o \in Output : WindowElapsed(o)
           \/ ShowStopLapses
           \/ \E v \in 1..version : GraceExpires(v)
           \/ Age \/ Evaluate \/ ChainLoss \/ UNCHANGED vars
  BY <1>1, <1>6, TimeKeeps
<1>7. CASE Connect \/ Disconnect \/ Restart \/ Pump \/ SendReport
  BY <1>1, <1>7, ConnectKeeps, DropsKeep, PumpKeeps, SendReportKeeps
<1>8. CASE ReadNext \/ FinishClosing
  BY <1>1, <1>8, ReadsKeep, FinishKeeps
<1> HIDE DEF StopInv
<1> QED
  BY <1>2, <1>3, <1>4, <1>5, <1>6, <1>7, <1>8
     DEF Next, OutputAsked, Receive, ReadNext

\* Only the show's lifecycle and an acknowledgement that witnesses the stop
\* take the held alert down.
LEMMA HeldEnds ==
  ASSUME TypeOK, [Next]_vars, "held" \in alerts, "held" \notin alerts'
  PROVE  \/ ShowLoad \/ ShowUnload
         \/ \E c \in Conn : /\ up[c] # <<>> /\ Head(up[c]).kind = "ack"
                            /\ OwnAck(c, Head(up[c]).sv)
                            /\ heldStop # 0 /\ Witnessed(Head(up[c]).sv)
<1>1. CASE OutputAsked
  BY <1>1 DEF OutputAsked, RecordStart, RecordStop, StreamStart, StreamStop,
     ClaimOutput
<1>2. CASE ShowStart \/ Forward \/ ShowStopLapses \/ Age \/ Connect
  BY <1>2 DEF ShowStart, Forward, ShowStopLapses, Age, Connect, signalVars
<1>3. CASE \/ \E mode \in Mode : ShowStop(mode)
           \/ \E v \in 1..version : GraceExpires(v)
  BY <1>3 DEF ShowStop, GraceExpires, GiveUp
<1>4. CASE \E c \in Conn : ReceiveAck(c)
  <2>1. PICK c \in Conn : ReceiveAck(c)
    BY <1>4
  <2> DEFINE v == Head(up[c]).sv
  <2>2. OwnAck(c, v) /\ CommandAcked(v)
    BY <2>1 DEF ReceiveAck, AckIgnored, ResyncAcked
  <2>3. heldStop # 0 /\ Witnessed(v)
    BY <2>2 DEF CommandAcked, Output
  <2> QED BY <2>1, <2>2, <2>3 DEF ReceiveAck
<1>5. CASE \E c \in Conn : ReceiveReport(c) \/ ReceiveRequest(c)
  BY <1>5 DEF ReceiveReport, ReceiveRequest, signalVars
<1>6. CASE \E o \in Output : WindowElapsed(o)
  BY <1>6 DEF WindowElapsed
<1>7. CASE Evaluate
  BY <1>7 DEF Evaluate, EngineSilent, Judge
<1>8. CASE Disconnect \/ Restart \/ Pump \/ SendReport
  BY <1>8 DEF Disconnect, Restart, Pump, SendReport, signalVars
<1>9. CASE ReadNext \/ FinishClosing \/ ChainLoss \/ UNCHANGED vars
  BY <1>9 DEF ReadNext, ReadResync, ReadGap, ApplyOther, ApplyStart,
     BeginClosing, StopAtOnce, Refuse, FinishClosing, ChainLoss, Accepted,
     Read, vars, signalVars
<1> QED
  BY <1>1, <1>2, <1>3, <1>4, <1>5, <1>6, <1>7, <1>8, <1>9
     DEF Next, OutputAsked, ReadNext

\* An acknowledgement that witnesses the stop is of a stop no older that was
\* carried out, or a resync's of an earlier connection.
LEMMA WitnessTrue ==
  ASSUME TypeOK, StopInv, NEW c \in Conn, up[c] # <<>>,
         Head(up[c]).kind = "ack", OwnAck(c, Head(up[c]).sv),
         heldStop # 0, Witnessed(Head(up[c]).sv)
  PROVE  stopped >= heldStop \/ \E v \in heldStop..version : CarriedResync(v)
<1> DEFINE f == Head(up[c])  v == f.sv
<1>1. c \in 1..conns /\ c \in Nat
  BY MaxConnType DEF StopInv, ConnInv, TypeOK, Conn
<1>2. f \in TrueAck(c)
  <2>1. up[c] \in Seq(TrueAck(c))
    BY <1>1 DEF StopInv
  <2> HIDE DEF TrueAck
  <2> QED BY <2>1, HeadTailProperties
<1>3. f = Ack(v) /\ v \in Nat
  BY <1>2 DEF TrueAck, UpFrame, ResyncRequest, Report, Ack
<1>4. heldStop \in Nat /\ stopped \in Nat /\ version \in Nat
  BY DEF TypeOK
<1>5. v <= version /\ (IsStop(v) => v <= stopped \/ Resynced(c, v))
  BY <1>2 DEF TrueAck
<1>6. IsStop(v) /\ v >= heldStop
  BY <1>3, <1>4 DEF Witnessed, IsStop
<1>7. CASE v <= stopped
  BY <1>3, <1>4, <1>6, <1>7
<1>8. CASE Resynced(c, v)
  <2>1. \E b \in 1..(c - 1) : v \in resyncs[b]
    BY <1>1, <1>8 DEF Resynced, OwnAck
  <2>2. CarriedResync(v)
    BY <1>3, <2>1 DEF CarriedResync
  <2>3. v \in heldStop..version
    BY <1>3, <1>4, <1>5, <1>6
  <2> HIDE DEF v
  <2> QED BY <2>2, <2>3
<1> QED BY <1>5, <1>6, <1>7, <1>8

\* For any commands, versions and connections the held alert stands until the
\* show is loaded or unloaded or the engine has carried out a stop no older
\* than the held one, save for a resync's acknowledgement that was queued on
\* one connection and heard on a later one (alerts.ts 274-298, server.ts 284).
THEOREM HeldAlertStands == Spec => HeldAlertIsWitnessed
<1>1. TypeOK /\ StopInv /\ [Next]_vars
        => [("held" \in alerts /\ "held" \notin alerts') =>
              \/ ShowLoad \/ ShowUnload
              \/ stopped >= heldStop
              \/ \E v \in heldStop..version : CarriedResync(v)]_vars
  BY HeldEnds, WitnessTrue
<1> QED BY <1>1, TypeInit, TypeStep, StopInit, StopStep, PTL
        DEF Spec, HeldAlertIsWitnessed

-----------------------------------------------------------------------------
(* Corrections: what a report can be of                                    *)

Frames(s) == {s[i] : i \in DOMAIN s}

\* A version this new has the newest stream command behind it.
Newest(v) == v >= pending["stream"].version

\* An acknowledgement this new is only sent by an engine that is past the
\* newest stream command.
Settles(f) == f.kind = "ack" /\ Newest(f.sv) => Newest(done)

\* A report was built behind the newest stream command.
Evident(f) == f.kind = "report" => Newest(f.done)

\* A report sent behind such an acknowledgement was.
Follows ==
  {p \in UpFrame \X UpFrame :
     p[1].kind = "ack" /\ Newest(p[1].sv) => Evident(p[2])}

Processed == pending["stream"].processed

\* A claim that is processed has the engine behind it, and so do the reports
\* still to come and the one that rules.
Proven ==
  /\ Newest(done)
  /\ conns # 0 => \A f \in Frames(up[conns]) : Evident(f)
  /\ postdates /\ report.conn = conns => Newest(report.done)

ReportInv ==
  /\ report.conn <= conns
  /\ \A f \in Frames(outgoing) : f.kind # "report" /\ Settles(f)
  /\ \A c \in 1..conns : \A f \in Frames(up[c]) :
       Settles(f) /\ (f.kind = "report" => f.conn = c)
  /\ \A c \in 1..conns : Pairwise(up[c], Follows)
  /\ \A c, d \in 1..conns : c < d =>
       \A f \in Frames(up[c]), g \in Frames(up[d]) : <<f, g>> \in Follows
  /\ Processed => Proven

\* The frames of a sequence, of its parts and of what it grows into.
LEMMA FramesTyped ==
  ASSUME NEW S, NEW s \in Seq(S) PROVE Frames(s) \subseteq S
  BY ElementOfSeq, LenProperties DEF Frames

\* All but the first.
LEMMA FramesTail ==
  ASSUME NEW S, NEW s \in Seq(S), s # <<>>
  PROVE  Frames(Tail(s)) \subseteq Frames(s) /\ Head(s) \in Frames(s)
<1>1. /\ Len(s) \in Nat /\ Len(s) >= 1 /\ DOMAIN s = 1..Len(s)
      /\ DOMAIN Tail(s) = 1..(Len(s) - 1) /\ Head(s) = s[1]
      /\ \A i \in 1..(Len(s) - 1) : Tail(s)[i] = s[i + 1]
  BY HeadTailProperties, EmptySeq, LenProperties
<1> QED BY <1>1 DEF Frames

\* A prefix's.
LEMMA FramesPrefix ==
  ASSUME NEW S, NEW s \in Seq(S), NEW n \in 0..Len(s)
  PROVE  Frames(SubSeq(s, 1, n)) \subseteq Frames(s)
<1>1. /\ Len(s) \in Nat /\ DOMAIN s = 1..Len(s) /\ DOMAIN SubSeq(s, 1, n) = 1..n
      /\ \A i \in 1..n : SubSeq(s, 1, n)[i] = s[i]
  BY SubSeqProperties, LenProperties
<1> QED BY <1>1 DEF Frames

\* Two sequences', one behind the other.
LEMMA FramesConcat ==
  ASSUME NEW S, NEW s \in Seq(S), NEW t \in Seq(S)
  PROVE  Frames(s \o t) \subseteq Frames(s) \union Frames(t)
<1>1. /\ Len(s) \in Nat /\ DOMAIN s = 1..Len(s)
      /\ Len(t) \in Nat /\ DOMAIN t = 1..Len(t)
      /\ DOMAIN (s \o t) = 1..(Len(s) + Len(t))
      /\ \A i \in 1..(Len(s) + Len(t)) :
           (s \o t)[i] = IF i <= Len(s) THEN s[i] ELSE t[i - Len(s)]
  BY ConcatProperties, LenProperties
<1> QED BY <1>1 DEF Frames

\* One more.
LEMMA FramesAppend ==
  ASSUME NEW S, NEW s \in Seq(S), NEW e \in S
  PROVE  Frames(Append(s, e)) \subseteq Frames(s) \union {e}
<1>1. /\ Len(s) \in Nat /\ DOMAIN s = 1..Len(s)
      /\ DOMAIN Append(s, e) = 1..(Len(s) + 1)
      /\ Append(s, e)[Len(s) + 1] = e
      /\ \A i \in 1..Len(s) : Append(s, e)[i] = s[i]
  BY AppendProperties, LenProperties
<1> QED BY <1>1 DEF Frames

\* The channel up, as the steps need it.
LEMMA UpFrames ==
  ASSUME TypeOK
  PROVE  /\ conns \in 0..MaxConn /\ 1..conns \subseteq Conn
         /\ \A c \in Conn : /\ up[c] \in Seq(UpFrame)
                            /\ Frames(up[c]) \subseteq UpFrame
         /\ outgoing \in Seq(UpFrame) /\ Frames(outgoing) \subseteq UpFrame
<1>1. /\ conns \in 0..MaxConn /\ \A c \in Conn : up[c] \in Seq(UpFrame)
      /\ outgoing \in Seq(UpFrame)
  BY DEF TypeOK
<1>2. 1..conns \subseteq Conn
  BY <1>1, MaxConnType DEF Conn
<1> QED BY <1>1, <1>2, FramesTyped

\* The newest stream command is the same.
SameClaim == pending'["stream"].version = pending["stream"].version

\* A step that sends no report up and no frame of the queue.
LEMMA ReportStep ==
  ASSUME TypeOK, TypeOK', ReportInv, UNCHANGED conns, SameClaim,
         Newest(done) => Newest(done'), report'.conn <= conns,
         \A f \in Frames(outgoing') :
           /\ f.kind # "report"
           /\ f.kind = "ack" /\ Newest(f.sv) => Newest(done'),
         \A c \in 1..conns : Frames(up'[c]) \subseteq Frames(up[c]),
         \A c \in 1..conns : Pairwise(up'[c], Follows),
         Processed' =>
           /\ Newest(done')
           /\ conns # 0 => \A f \in Frames(up'[conns]) : Evident(f)
           /\ postdates' /\ report'.conn = conns => Newest(report'.done)
  PROVE  ReportInv'
<1>1. conns' = conns /\ \A v : Newest(v)' <=> Newest(v)
  BY DEF Newest, SameClaim
<1>2. Follows' = Follows /\ \A f : Evident(f)' <=> Evident(f)
  BY <1>1 DEF Follows, Evident, Newest, SameClaim
<1>3. \A f : Settles(f) => (f.kind = "ack" /\ Newest(f.sv) => Newest(done'))
  BY DEF Settles
<1>4. \A f : (f.kind = "ack" /\ Newest(f.sv) => Newest(done')) => Settles(f)'
  BY DEF Settles, Newest, SameClaim
<1>5. \A f \in Frames(outgoing') : f.kind # "report" /\ Settles(f)'
  BY <1>4
<1>6. \A c \in 1..conns : \A f \in Frames(up'[c]) :
        Settles(f)' /\ (f.kind = "report" => f.conn = c)
  BY <1>3, <1>4 DEF ReportInv
<1>7. \A c \in 1..conns : Pairwise(up'[c], Follows')
  BY <1>2
<1>8. \A c, d \in 1..conns : c < d =>
        \A f \in Frames(up'[c]), g \in Frames(up'[d]) : <<f, g>> \in Follows'
  BY <1>2 DEF ReportInv
<1>9. Processed' => Proven'
  BY <1>1, <1>2 DEF Proven, Newest, SameClaim
<1> HIDE DEF Follows, Settles, Processed, Proven
<1> QED BY <1>1, <1>5, <1>6, <1>7, <1>8, <1>9 DEF ReportInv, Frames, Pairwise

\* A step that tells the correction nothing new.
LEMMA QuietStep ==
  ASSUME TypeOK, TypeOK', ReportInv, SameClaim,
         UNCHANGED <<up, outgoing, conns, done, report>>,
         Processed' => Processed, postdates' => postdates
  PROVE  ReportInv'
<1>1. \A f \in Frames(outgoing') :
        /\ f.kind # "report"
        /\ f.kind = "ack" /\ Newest(f.sv) => Newest(done')
  BY DEF ReportInv, Settles
<1>2. /\ report'.conn <= conns
      /\ \A c \in 1..conns : Frames(up'[c]) \subseteq Frames(up[c])
      /\ \A c \in 1..conns : Pairwise(up'[c], Follows)
  BY DEF ReportInv
<1>3. Processed' =>
        /\ Newest(done')
        /\ conns # 0 => \A f \in Frames(up'[conns]) : Evident(f)
        /\ postdates' /\ report'.conn = conns => Newest(report'.done)
  BY DEF ReportInv, Proven
<1>4. Newest(done) => Newest(done')
  OBVIOUS
<1> HIDE DEF Processed, Newest, Follows, Evident, SameClaim
<1> QED BY <1>1, <1>2, <1>3, <1>4, ReportStep

\* A new stream command is ahead of everything that was sent.
LEMMA NewClaim ==
  ASSUME TypeOK, TypeOK', StopInv, ReportInv,
         UNCHANGED <<up, outgoing, conns, report>>, version' = version + 1,
         pending'["stream"].version = version + 1, ~Processed'
  PROVE  ReportInv'
<1>1. version \in Nat
  BY DEF TypeOK
<1>2. /\ \A f \in Frames(outgoing) : f.kind = "ack" => f.sv \in Nat /\ f.sv <= version
      /\ \A c \in 1..conns : \A f \in Frames(up[c]) :
           f.kind = "ack" => f.sv \in Nat /\ f.sv <= version
  <2>1. \A c : \A f \in TrueAck(c) : f.kind = "ack" => f.sv \in Nat /\ f.sv <= version
    BY DEF TrueAck, UpFrame, ResyncRequest, Report
  <2>2. /\ Frames(outgoing) \subseteq TrueAck(conns)
        /\ \A c \in 1..conns : Frames(up[c]) \subseteq TrueAck(c)
    BY FramesTyped DEF StopInv
  <2> QED BY <2>1, <2>2
<1>3. \A v \in Nat : v <= version => ~Newest(v)'
  BY <1>1 DEF Newest
<1>4. /\ \A f \in Frames(outgoing) : f.kind = "ack" => ~Newest(f.sv)'
      /\ \A c \in 1..conns : \A f \in Frames(up[c]) : f.kind = "ack" => ~Newest(f.sv)'
  <2> HIDE DEF Newest
  <2> QED BY <1>2, <1>3
<1>5. \A f : ~(f.kind = "ack" /\ Newest(f.sv)') => Settles(f)'
  BY DEF Settles, Newest
<1>6. \A f, g \in UpFrame :
        ~(f.kind = "ack" /\ Newest(f.sv)') => <<f, g>> \in Follows'
  BY DEF Follows, Newest
<1> HIDE DEF Newest, Settles, Follows
<1>7. \A f \in Frames(outgoing') : f.kind # "report" /\ Settles(f)'
  BY <1>4, <1>5 DEF ReportInv
<1>8. \A c \in 1..conns : \A f \in Frames(up'[c]) :
        Settles(f)' /\ (f.kind = "report" => f.conn = c)
  BY <1>4, <1>5 DEF ReportInv
<1>9. \A c \in 1..conns : Frames(up[c]) \subseteq UpFrame
  BY UpFrames
<1>10. \A c, d \in 1..conns :
         \A f \in Frames(up'[c]), g \in Frames(up'[d]) : <<f, g>> \in Follows'
  BY <1>4, <1>6, <1>9
<1>11. \A c \in 1..conns : Pairwise(up'[c], Follows')
  BY <1>10 DEF Pairwise, Frames
<1>12. report'.conn <= conns
  BY DEF ReportInv
<1> HIDE DEF Processed, Proven
<1> QED BY <1>7, <1>8, <1>10, <1>11, <1>12 DEF ReportInv, Frames, Pairwise

\* The operators' commands.
LEMMA AskedProven ==
  ASSUME TypeOK, TypeOK', StopInv, ReportInv,
         \/ OutputAsked \/ ShowLoad \/ ShowUnload \/ ShowStart \/ Forward
         \/ \E mode \in Mode : ShowStop(mode)
  PROVE  ReportInv'
<1>1. UNCHANGED <<up, outgoing, conns, done>> /\ version' = version + 1
  BY DEF OutputAsked, RecordStart, RecordStop, StreamStart, StreamStop,
     ShowLoad, ShowUnload, Lifecycle, ShowStart, Forward, ShowStop, Accept,
     connVars
<1>2. CASE StreamStart \/ StreamStop
  <2>1. PICK command \in OutputCommand : ClaimOutput("stream", command)
    BY <1>2, Zenon DEF StreamStart, StreamStop, OutputCommand, StartCommand,
       StopCommand
  <2>2. /\ pending'["stream"] = Claim(command, version + 1)
        /\ UNCHANGED report
    BY <2>1 DEF ClaimOutput, TypeOK, Output
  <2>3. pending'["stream"].version = version + 1 /\ ~Processed'
    BY <2>2 DEF Claim, Processed
  <2> QED BY <1>1, <2>2, <2>3, NewClaim
<1>3. CASE RecordStart \/ RecordStop
  <2>1. PICK command \in OutputCommand : ClaimOutput("record", command)
    BY <1>3, Zenon DEF RecordStart, RecordStop, OutputCommand, StartCommand,
       StopCommand
  <2>2. /\ pending'["stream"] = pending["stream"]
        /\ UNCHANGED <<report, postdates>>
    BY <2>1 DEF ClaimOutput, TypeOK, Output
  <2> QED BY <1>1, <2>2, QuietStep DEF SameClaim, Processed
<1>4. CASE ShowLoad \/ ShowUnload \/ ShowStart \/ Forward
           \/ \E mode \in Mode : ShowStop(mode)
  <2>1. UNCHANGED <<pending, report>> /\ (postdates' => postdates)
    BY <1>4 DEF ShowLoad, ShowUnload, Lifecycle, ShowStart, Forward, ShowStop,
       GiveUp, signalVars
  <2> QED BY <1>1, <2>1, QuietStep DEF SameClaim, Processed
<1> QED BY <1>2, <1>3, <1>4 DEF OutputAsked

\* Windows, waits and the evaluator.
LEMMA TimeProven ==
  ASSUME TypeOK, TypeOK', ReportInv,
         \/ \E o \in Output : WindowElapsed(o)
         \/ ShowStopLapses
         \/ \E v \in 1..version : GraceExpires(v)
         \/ Age \/ Evaluate \/ ChainLoss \/ UNCHANGED vars
  PROVE  ReportInv'
<1>1. UNCHANGED <<up, outgoing, conns, done, report>>
  BY DEF WindowElapsed, ShowStopLapses, GraceExpires, Age, Evaluate, ChainLoss,
         vars, signalVars, engineVars, connVars, historyVars
<1>2. SameClaim /\ (Processed' => Processed)
  <2>1. CASE \E o \in Output : WindowElapsed(o)
    <3>1. PICK o \in Output : pending' = [pending EXCEPT ![o].expired = TRUE]
      BY <2>1 DEF WindowElapsed
    <3>2. pending \in [Output -> [command : OutputCommand \union {"none"},
                                  version : 0..version, processed : BOOLEAN,
                                  expired : BOOLEAN]]
      BY DEF TypeOK
    <3>3. /\ pending'["stream"].version = pending["stream"].version
          /\ pending'["stream"].processed = pending["stream"].processed
      BY <3>1, <3>2 DEF Output
    <3> QED BY <3>3 DEF SameClaim, Processed
  <2>2. CASE UNCHANGED pending
    BY <2>2 DEF SameClaim, Processed
  <2> QED BY <2>1, <2>2 DEF ShowStopLapses, GraceExpires, Age, Evaluate,
          ChainLoss, vars, signalVars
<1>3. postdates' => postdates
  BY DEF WindowElapsed, ShowStopLapses, GraceExpires, GiveUp, Age, Evaluate,
         ChainLoss, vars, signalVars
<1> QED BY <1>1, <1>2, <1>3, QuietStep

\* The first frame off, the rest of what comes up is still related.
LEMMA RestProven ==
  ASSUME TypeOK, StopInv, ReportInv, NEW c \in Conn, up[c] # <<>>,
         up' = [up EXCEPT ![c] = Tail(@)]
  PROVE  /\ c \in 1..conns /\ Head(up[c]) \in UpFrame
         /\ Head(up[c]) \in Frames(up[c])
         /\ \A b \in 1..conns : Frames(up'[b]) \subseteq Frames(up[b])
         /\ \A b \in 1..conns : Pairwise(up'[b], Follows)
         /\ \A g \in Frames(up'[c]) : <<Head(up[c]), g>> \in Follows
<1>1. c \in 1..conns
  BY MaxConnType DEF TypeOK, StopInv, ConnInv, Conn
<1>2. up[c] \in Seq(UpFrame) /\ Pairwise(up[c], Follows) /\ 1..conns \subseteq Conn
  BY <1>1, UpFrames DEF ReportInv
<1> HIDE DEF Follows, UpFrame
<1>3. /\ Frames(Tail(up[c])) \subseteq Frames(up[c])
      /\ Head(up[c]) \in Frames(up[c]) /\ Head(up[c]) \in UpFrame
  BY <1>2, FramesTail, HeadTailProperties
<1>4. /\ Pairwise(Tail(up[c]), Follows)
      /\ \A g \in Frames(Tail(up[c])) : <<Head(up[c]), g>> \in Follows
  BY <1>2, PairTail DEF Frames
<1>5. up \in [Conn -> Seq(UpFrame)]
  BY DEF TypeOK
<1>6. \A b \in 1..conns : up'[b] = IF b = c THEN Tail(up[c]) ELSE up[b]
  BY <1>2, <1>5
<1> QED BY <1>1, <1>3, <1>4, <1>6 DEF ReportInv

\* Nothing of the queue or of what is behind the engine moves.
LEMMA QueueProven ==
  ASSUME ReportInv, UNCHANGED <<outgoing, done>>
  PROVE  /\ Newest(done) => Newest(done')
         /\ \A f \in Frames(outgoing') :
              /\ f.kind # "report"
              /\ f.kind = "ack" /\ Newest(f.sv) => Newest(done')
  BY DEF ReportInv, Settles

\* A claim is processed by an acknowledgement that has the engine behind it,
\* and the reports behind that acknowledgement.
LEMMA ReceiveAckProven ==
  ASSUME TypeOK, TypeOK', StopInv, ReportInv, NEW c \in Conn, ReceiveAck(c)
  PROVE  ReportInv'
<1> DEFINE f == Head(up[c])  v == f.sv
<1>1. /\ c \in 1..conns /\ f \in UpFrame /\ f \in Frames(up[c])
      /\ \A b \in 1..conns : Frames(up'[b]) \subseteq Frames(up[b])
      /\ \A b \in 1..conns : Pairwise(up'[b], Follows)
      /\ \A g \in Frames(up'[c]) : <<f, g>> \in Follows
  BY RestProven DEF ReceiveAck
<1>2. UNCHANGED <<outgoing, conns, done, report>> /\ f.kind = "ack"
  BY DEF ReceiveAck, engineVars, connVars, historyVars
<1>3. conns # 0 /\ conns \in 1..conns /\ conns' = conns /\ report'.conn <= conns
  BY <1>1, <1>2 DEF ReportInv, TypeOK
<1>4. /\ Newest(done) => Newest(done')
      /\ \A g \in Frames(outgoing') :
           /\ g.kind # "report"
           /\ g.kind = "ack" /\ Newest(g.sv) => Newest(done')
  BY <1>2, QueueProven
<1>5. CASE (Processed' => Processed) /\ (postdates' => postdates) /\ SameClaim
  <2>1. Processed' =>
          /\ Newest(done')
          /\ conns # 0 => \A g \in Frames(up'[conns]) : Evident(g)
          /\ postdates' /\ report'.conn = conns => Newest(report'.done)
    BY <1>1, <1>2, <1>3, <1>5 DEF ReportInv, Proven
  <2> HIDE DEF Processed, Newest, Follows, Evident, SameClaim, f
  <2> QED BY <1>1, <1>3, <1>4, <1>5, <2>1, ReportStep
<1>6. CASE CommandAcked(v) /\ Processes("stream", v)
  <2>1. /\ ~postdates' /\ SameClaim
    BY <1>6 DEF CommandAcked, TypeOK, Output, SameClaim
  <2>2. Newest(v)
    <3>1. v \in Nat
      BY <1>1, <1>2 DEF UpFrame, Report, ResyncRequest
    <3>2. pending["stream"].version \in 0..version /\ version \in Nat
      BY DEF TypeOK, Output
    <3> QED BY <1>6, <3>1, <3>2 DEF Processes, Newest
  <2>3. Newest(done)
    BY <1>1, <1>2, <2>2 DEF ReportInv, Settles
  <2>4. \A g \in Frames(up'[conns]) : Evident(g)
    <3>1. \A g \in Frames(up'[conns]) : <<f, g>> \in Follows
      <4>1. CASE c = conns
        BY <1>1, <4>1
      <4>2. CASE c # conns
        <5>1. c < conns
          BY <1>1, <4>2 DEF TypeOK
        <5> QED BY <1>1, <1>3, <5>1 DEF ReportInv
      <4> QED BY <4>1, <4>2
    <3> QED BY <1>2, <2>2, <3>1 DEF Follows
  <2>5. Processed' =>
          /\ Newest(done')
          /\ conns # 0 => \A g \in Frames(up'[conns]) : Evident(g)
          /\ postdates' /\ report'.conn = conns => Newest(report'.done)
    BY <1>2, <2>1, <2>3, <2>4
  <2> HIDE DEF Processed, Newest, Follows, Evident, SameClaim, f
  <2> QED BY <1>1, <1>3, <1>4, <2>1, <2>5, ReportStep
<1>7. \/ (Processed' => Processed) /\ (postdates' => postdates) /\ SameClaim
      \/ CommandAcked(v) /\ Processes("stream", v)
  <2>1. CASE AckIgnored \/ ResyncAcked
    BY <2>1 DEF AckIgnored, ResyncAcked, SameClaim, Processed
  <2>2. CASE CommandAcked(v) /\ ~Processes("stream", v)
    BY <2>2 DEF CommandAcked, Output, SameClaim, Processed
  <2> QED BY <2>1, <2>2 DEF ReceiveAck
<1> QED BY <1>5, <1>6, <1>7

\* A report of the newest connection, heard once the claim was processed, is
\* one of those behind the acknowledgement.
LEMMA ReceiveReportProven ==
  ASSUME TypeOK, TypeOK', StopInv, ReportInv, NEW c \in Conn, ReceiveReport(c)
  PROVE  ReportInv'
<1> DEFINE f == Head(up[c])
<1>1. /\ c \in 1..conns /\ f \in Frames(up[c])
      /\ \A b \in 1..conns : Frames(up'[b]) \subseteq Frames(up[b])
      /\ \A b \in 1..conns : Pairwise(up'[b], Follows)
  BY RestProven DEF ReceiveReport
<1>2. /\ UNCHANGED <<outgoing, conns, done, pending>>
      /\ f.kind = "report" /\ report' = f
  BY DEF ReceiveReport, engineVars, connVars, historyVars
<1>3. conns # 0 /\ conns \in 1..conns /\ f.conn = c /\ f.conn <= conns
  BY <1>1, <1>2 DEF ReportInv, TypeOK
<1>4. /\ Newest(done) => Newest(done')
      /\ \A g \in Frames(outgoing') :
           /\ g.kind # "report"
           /\ g.kind = "ack" /\ Newest(g.sv) => Newest(done')
  BY <1>2, QueueProven
<1>5. SameClaim /\ (Processed' => Processed) /\ report'.conn <= conns
  BY <1>2, <1>3 DEF SameClaim, Processed
<1>6. Processed' =>
        /\ Newest(done')
        /\ conns # 0 => \A g \in Frames(up'[conns]) : Evident(g)
        /\ postdates' /\ report'.conn = conns => Newest(report'.done)
  BY <1>1, <1>2, <1>3, <1>5 DEF ReportInv, Proven, Evident
<1> HIDE DEF Processed, Newest, Follows, Evident, SameClaim, f
<1> QED BY <1>1, <1>2, <1>4, <1>5, <1>6, ReportStep

\* A request for a resync says nothing about the stream.
LEMMA ReceiveRequestProven ==
  ASSUME TypeOK, TypeOK', StopInv, ReportInv, NEW c \in Conn, ReceiveRequest(c)
  PROVE  ReportInv'
<1>1. /\ c \in 1..conns
      /\ \A b \in 1..conns : Frames(up'[b]) \subseteq Frames(up[b])
      /\ \A b \in 1..conns : Pairwise(up'[b], Follows)
  BY RestProven DEF ReceiveRequest
<1>2. UNCHANGED <<outgoing, conns, done, pending, report, postdates>>
  BY DEF ReceiveRequest, signalVars, engineVars, connVars, historyVars
<1>3. conns # 0 /\ conns \in 1..conns
  BY <1>1 DEF TypeOK
<1>4. /\ Newest(done) => Newest(done')
      /\ \A g \in Frames(outgoing') :
           /\ g.kind # "report"
           /\ g.kind = "ack" /\ Newest(g.sv) => Newest(done')
  BY <1>2, QueueProven
<1>5. SameClaim /\ (Processed' => Processed) /\ report'.conn <= conns
  BY <1>2 DEF SameClaim, Processed, ReportInv
<1>6. Processed' =>
        /\ Newest(done')
        /\ conns # 0 => \A g \in Frames(up'[conns]) : Evident(g)
        /\ postdates' /\ report'.conn = conns => Newest(report'.done)
  BY <1>1, <1>2, <1>3, <1>5 DEF ReportInv, Proven
<1> HIDE DEF Processed, Newest, Follows, Evident, SameClaim
<1> QED BY <1>1, <1>2, <1>4, <1>5, <1>6, ReportStep

\* A new connection starts with the newest stream command behind it and no
\* report of its own.
LEMMA ConnectProven ==
  ASSUME TypeOK, TypeOK', StopInv, ReportInv, Connect PROVE ReportInv'
<1>1. /\ UNCHANGED <<up, outgoing, pending, report>> /\ ~postdates'
      /\ conns' = conns + 1 /\ done' = pending["stream"].version
  BY DEF Connect
<1>2. conns \in Nat /\ conns + 1 \in Conn /\ up[conns + 1] = <<>>
      /\ report.conn \in Nat
  BY MaxConnType DEF Connect, TypeOK, Conn, StopInv, ConnInv, Report
<1>3. pending["stream"].version \in 0..version /\ version \in Nat
  BY DEF TypeOK, Output
<1>4. Newest(done)'
  BY <1>1, <1>3 DEF Newest
<1>5. Frames(<<>>) = {} /\ Pairwise(<<>>, Follows)
  BY DEF Frames, Pairwise
<1>6. Follows' = Follows
  BY <1>1 DEF Follows, Evident, Newest
<1>7. \A f : Settles(f)'
  BY <1>4 DEF Settles, Newest
<1> HIDE DEF Newest, Settles, Follows
<1>8. \A f \in Frames(outgoing') : f.kind # "report" /\ Settles(f)'
  BY <1>1, <1>7 DEF ReportInv
<1>9. \A c \in 1..conns' : c \in 1..conns \/ (c = conns + 1 /\ up'[c] = <<>>)
  BY <1>1, <1>2
<1>10. \A c \in 1..conns' : \A f \in Frames(up'[c]) :
         Settles(f)' /\ (f.kind = "report" => f.conn = c)
  BY <1>1, <1>5, <1>7, <1>9 DEF ReportInv
<1>11. \A c \in 1..conns' : Pairwise(up'[c], Follows')
  BY <1>1, <1>5, <1>6, <1>9 DEF ReportInv
<1>12. \A c, d \in 1..conns' : c < d =>
         \A f \in Frames(up'[c]), g \in Frames(up'[d]) : <<f, g>> \in Follows'
  BY <1>1, <1>5, <1>6, <1>9 DEF ReportInv
<1>13. report'.conn <= conns'
  BY <1>1, <1>2 DEF ReportInv
<1>14. Proven'
  BY <1>1, <1>2, <1>4, <1>5 DEF Proven
<1> HIDE DEF Processed, Proven
<1> QED BY <1>8, <1>10, <1>11, <1>12, <1>13, <1>14 DEF ReportInv, Frames, Pairwise

\* What a connection that goes leaves is part of what was there.
LEMMA DropsProven ==
  ASSUME TypeOK, TypeOK', StopInv, ReportInv, Disconnect \/ Restart
  PROVE  ReportInv'
<1>1. /\ Drop /\ UNCHANGED <<conns, done, pending, report, postdates>>
      /\ outgoing' = outgoing \/ outgoing' = <<>>
  BY DEF Disconnect, Restart, signalVars, historyVars
<1>2. conn = conns /\ conns \in 1..conns /\ conns # 0 /\ 1..conns \subseteq Conn
  <2>1. conns \in Nat /\ conn # 0
    BY <1>1, MaxConnType DEF TypeOK, Drop
  <2> QED BY <2>1, UpFrames DEF StopInv, ConnInv
<1>3. PICK n \in 0..Len(up[conns]) :
        up' = [up EXCEPT ![conns] = SubSeq(up[conns], 1, n)]
  BY <1>1, <1>2 DEF Drop
<1>4. up[conns] \in Seq(UpFrame) /\ Pairwise(up[conns], Follows)
  BY <1>2, UpFrames DEF ReportInv
<1>5. /\ Frames(SubSeq(up[conns], 1, n)) \subseteq Frames(up[conns])
      /\ Pairwise(SubSeq(up[conns], 1, n), Follows)
  <2> HIDE DEF Follows, UpFrame
  <2> QED BY <1>4, FramesPrefix, PairPrefix
<1>6. up \in [Conn -> Seq(UpFrame)]
  BY DEF TypeOK
<1>7. \A b \in 1..conns :
        up'[b] = IF b = conns THEN SubSeq(up[conns], 1, n) ELSE up[b]
  <2> HIDE DEF UpFrame
  <2> QED BY <1>2, <1>3, <1>6
<1>8. /\ \A b \in 1..conns : Frames(up'[b]) \subseteq Frames(up[b])
      /\ \A b \in 1..conns : Pairwise(up'[b], Follows)
  BY <1>5, <1>7 DEF ReportInv
<1>9. /\ Newest(done) => Newest(done')
      /\ \A g \in Frames(outgoing') :
           /\ g.kind # "report"
           /\ g.kind = "ack" /\ Newest(g.sv) => Newest(done')
  <2>1. Frames(<<>>) = {}
    BY DEF Frames
  <2>2. Newest(done) => Newest(done')
    BY <1>1
  <2>3. Frames(outgoing') \subseteq Frames(outgoing)
    BY <1>1, <2>1
  <2> QED BY <2>2, <2>3 DEF ReportInv, Settles
<1>10. SameClaim /\ (Processed' => Processed) /\ report'.conn <= conns
  BY <1>1 DEF SameClaim, Processed, ReportInv
<1>11. Processed' =>
         /\ Newest(done')
         /\ conns # 0 => \A g \in Frames(up'[conns]) : Evident(g)
         /\ postdates' /\ report'.conn = conns => Newest(report'.done)
  BY <1>1, <1>2, <1>8, <1>10 DEF ReportInv, Proven
<1> HIDE DEF Processed, Newest, Follows, Evident, SameClaim
<1> QED BY <1>1, <1>8, <1>9, <1>10, <1>11, ReportStep

\* What the engine puts on its way up is a settled acknowledgement, or a
\* report of how far it is.
LEMMA SentProven ==
  ASSUME TypeOK, TypeOK', StopInv, ReportInv, conn # 0,
         UNCHANGED <<conns, done, pending, report, postdates>>,
         outgoing' = outgoing \/ outgoing' = <<>>, NEW more \in Seq(UpFrame),
         up' = [up EXCEPT ![conn] = @ \o more], Pairwise(more, Follows),
         \A f \in Frames(more) : /\ Settles(f)
                                 /\ f.kind = "report" => f.conn = conn
                                 /\ f.kind = "report" => f.done = done
  PROVE  ReportInv'
<1>1. conn = conns /\ conns \in 1..conns /\ conns # 0 /\ 1..conns \subseteq Conn
  <2>1. conn \in {0, conns} /\ conns \in 0..MaxConn /\ 1..conns \subseteq Conn
    BY UpFrames DEF StopInv, ConnInv
  <2> QED BY <2>1, MaxConnType
<1>2. up[conns] \in Seq(UpFrame) /\ up \in [Conn -> Seq(UpFrame)]
      /\ Pairwise(up[conns], Follows)
      /\ \A c \in 1..conns : Frames(up[c]) \subseteq UpFrame
      /\ Frames(more) \subseteq UpFrame
  BY <1>1, UpFrames, FramesTyped DEF ReportInv, TypeOK
<1> DEFINE n == up[conns] \o more
<1>3. \A b \in 1..conns : up'[b] = IF b = conns THEN n ELSE up[b]
  <2> HIDE DEF UpFrame
  <2> QED BY <1>1, <1>2
<1>4. Frames(n) \subseteq Frames(up[conns]) \union Frames(more)
  <2> HIDE DEF UpFrame
  <2> QED BY <1>2, FramesConcat
<1>5. \A c \in 1..conns : \A f \in Frames(up[c]), g \in Frames(more) :
        <<f, g>> \in Follows
  <2> TAKE c \in 1..conns
  <2> TAKE f \in Frames(up[c]), g \in Frames(more)
  <2>1. Settles(f) /\ f \in UpFrame /\ g \in UpFrame
    BY <1>2 DEF ReportInv
  <2>2. f.kind = "ack" /\ Newest(f.sv) => Evident(g)
    BY <2>1 DEF Settles, Evident
  <2> HIDE DEF Evident, Newest, UpFrame
  <2> QED BY <2>1, <2>2 DEF Follows
<1>6. Pairwise(n, Follows)
  <2>1. \A i \in DOMAIN up[conns], j \in DOMAIN more :
          <<up[conns][i], more[j]>> \in Follows
    <3> HIDE DEF Follows
    <3> QED BY <1>1, <1>5 DEF Frames
  <2> HIDE DEF Follows, UpFrame
  <2> QED BY <1>2, <2>1, PairConcat
<1>7. \A v : Newest(v)' <=> Newest(v)
  BY DEF Newest
<1>8. Follows' = Follows
  BY DEF Follows, Evident, Newest
<1>9. \A f : Settles(f)' <=> Settles(f)
  BY DEF Settles, Newest
<1>10. \A f \in Frames(outgoing') : f.kind # "report" /\ Settles(f)'
  <2>1. Frames(<<>>) = {}
    BY DEF Frames
  <2>2. Frames(outgoing') \subseteq Frames(outgoing)
    BY <2>1
  <2> HIDE DEF Settles
  <2> QED BY <1>9, <2>2 DEF ReportInv
<1> HIDE DEF n, Settles, Follows
<1>11. \A c \in 1..conns : \A f \in Frames(up'[c]) :
         Settles(f)' /\ (f.kind = "report" => f.conn = c)
  BY <1>1, <1>3, <1>4, <1>9 DEF ReportInv
<1>12. \A c \in 1..conns : Pairwise(up'[c], Follows')
  BY <1>3, <1>6, <1>8 DEF ReportInv
<1>13. \A c, d \in 1..conns : c < d =>
         \A f \in Frames(up'[c]), g \in Frames(up'[d]) : <<f, g>> \in Follows'
  <2> TAKE c, d \in 1..conns
  <2> HAVE c < d
  <2>1. c # conns /\ up'[c] = up[c]
    BY <1>1, <1>3 DEF TypeOK
  <2>2. Frames(up'[d]) \subseteq Frames(up[d]) \union Frames(more)
    BY <1>3, <1>4
  <2> QED BY <1>5, <1>8, <2>1, <2>2 DEF ReportInv
<1>14. Processed' => Proven'
  <2>1. Processed => \A f \in Frames(up'[conns]) : Evident(f)
    BY <1>1, <1>3, <1>4 DEF ReportInv, Proven, Evident
  <2> QED BY <2>1 DEF ReportInv, Processed, Proven, Evident, Newest
<1> HIDE DEF Processed, Proven
<1> QED BY <1>10, <1>11, <1>12, <1>13, <1>14 DEF ReportInv, Frames, Pairwise

\* The queue holds settled acknowledgements and no report.
LEMMA PumpProven ==
  ASSUME TypeOK, TypeOK', StopInv, ReportInv, Pump PROVE ReportInv'
<1>1. /\ conn # 0 /\ outgoing' = <<>> /\ outgoing \in Seq(UpFrame)
      /\ up' = [up EXCEPT ![conn] = up[conn] \o outgoing]
      /\ UNCHANGED <<conns, done, pending, report, postdates>>
  BY DEF Pump, TypeOK, connVars, signalVars, historyVars
<1>2. \A f \in Frames(outgoing) : f \in UpFrame /\ f.kind # "report" /\ Settles(f)
  BY UpFrames DEF ReportInv
<1>3. Pairwise(outgoing, Follows)
  <2>1. \A f, g \in Frames(outgoing) : <<f, g>> \in Follows
    <3>1. \A g : g.kind # "report" => Evident(g)
      BY DEF Evident
    <3> HIDE DEF UpFrame, Evident
    <3> QED BY <1>2, <3>1 DEF Follows
  <2> HIDE DEF Follows
  <2> QED BY <2>1 DEF Pairwise, Frames
<1> HIDE DEF UpFrame, Follows, Settles
<1> QED BY <1>1, <1>2, <1>3, SentProven

\* A report says how far the engine is.
LEMMA SendReportProven ==
  ASSUME TypeOK, TypeOK', StopInv, ReportInv, SendReport PROVE ReportInv'
<1> DEFINE frame == [kind |-> "report", streaming |-> streaming, done |-> done,
                     conn |-> conn]
<1>1. /\ conn # 0 /\ conn \in Conn /\ up[conn] \in Seq(UpFrame)
      /\ UNCHANGED <<conns, done, pending, report, postdates, outgoing>>
      /\ up' = [up EXCEPT ![conn] = Append(up[conn], frame)]
  BY MaxConnType DEF SendReport, TypeOK, Conn, connVars, signalVars, historyVars
<1>2. frame \in UpFrame
  BY MaxConnType DEF TypeOK, Report, UpFrame
<1>3. frame.kind = "report" /\ frame.conn = conn /\ frame.done = done
  OBVIOUS
<1> HIDE DEF frame, UpFrame
<1> DEFINE more == <<frame>>
<1>4. Append(up[conn], frame) = up[conn] \o more
  BY <1>1, <1>2, AppendIsConcat
<1>5. more \in Seq(UpFrame) /\ Frames(more) = {frame} /\ Pairwise(more, Follows)
  BY <1>2 DEF Frames, Pairwise
<1>6. \A f \in Frames(more) : /\ Settles(f)
                              /\ f.kind = "report" => f.conn = conn
                              /\ f.kind = "report" => f.done = done
  BY <1>3, <1>5 DEF Settles
<1> HIDE DEF more, Follows, Settles
<1>7. up' = [up EXCEPT ![conn] = up[conn] \o more]
  BY <1>1, <1>4
<1>8. conn # 0 /\ outgoing' = outgoing
      /\ UNCHANGED <<conns, done, pending, report, postdates>>
  BY <1>1
<1> QED BY <1>5, <1>6, <1>7, <1>8, SentProven

\* A frame that is put behind the engine, acknowledged or not.
LEMMA OverProven ==
  ASSUME TypeOK, TypeOK', ReportInv, NEW f \in DownFrame,
         UNCHANGED <<up, conns, pending, report, postdates>>,
         Over(f) \/ UNCHANGED done,
         \/ outgoing' = outgoing
         \/ outgoing' = Append(outgoing, ResyncRequest)
         \/ Over(f) /\ outgoing' = Append(outgoing, Ack(f.sv))
  PROVE  ReportInv'
<1>1. pending["stream"].version \in 0..version /\ done \in 0..version
      /\ version \in Nat /\ f.sv \in Nat
  BY DEF TypeOK, Output, DownFrame
<1>2. /\ Newest(done) => Newest(done')
      /\ Over(f) /\ Newest(f.sv) => Newest(done')
  BY <1>1 DEF Over, Newest
<1>3. \A g \in Frames(outgoing') :
        /\ g.kind # "report"
        /\ g.kind = "ack" /\ Newest(g.sv) => Newest(done')
  <2>1. \A g \in Frames(outgoing) :
          /\ g.kind # "report"
          /\ g.kind = "ack" /\ Newest(g.sv) => Newest(done')
    BY <1>2 DEF ReportInv, Settles
  <2>2. ResyncRequest \in UpFrame /\ ResyncRequest.kind = "resyncRequest"
    BY DEF ResyncRequest, UpFrame
  <2>3. Ack(f.sv) \in UpFrame /\ Ack(f.sv).kind = "ack" /\ Ack(f.sv).sv = f.sv
    BY <1>1 DEF Ack, UpFrame
  <2>4. outgoing \in Seq(UpFrame)
    BY DEF TypeOK
  <2> HIDE DEF UpFrame, Newest, ResyncRequest, Ack
  <2>5. CASE outgoing' = outgoing
    BY <2>1, <2>5
  <2>6. CASE outgoing' = Append(outgoing, ResyncRequest)
    <3>1. Frames(outgoing') \subseteq Frames(outgoing) \union {ResyncRequest}
      BY <2>2, <2>4, <2>6, FramesAppend
    <3> QED BY <2>1, <2>2, <3>1
  <2>7. CASE Over(f) /\ outgoing' = Append(outgoing, Ack(f.sv))
    <3>1. Frames(outgoing') \subseteq Frames(outgoing) \union {Ack(f.sv)}
      BY <2>3, <2>4, <2>7, FramesAppend
    <3> QED BY <1>2, <2>1, <2>3, <2>7, <3>1
  <2> QED BY <2>5, <2>6, <2>7
<1>4. SameClaim /\ (Processed' => Processed) /\ report'.conn <= conns
  BY DEF SameClaim, Processed, ReportInv
<1>5. /\ \A c \in 1..conns : Frames(up'[c]) \subseteq Frames(up[c])
      /\ \A c \in 1..conns : Pairwise(up'[c], Follows)
  BY DEF ReportInv
<1>6. Processed' =>
        /\ Newest(done')
        /\ conns # 0 => \A g \in Frames(up'[conns]) : Evident(g)
        /\ postdates' /\ report'.conn = conns => Newest(report'.done)
  BY <1>2, <1>4 DEF ReportInv, Proven
<1> HIDE DEF Processed, Newest, Follows, Evident, SameClaim
<1> QED BY <1>2, <1>3, <1>4, <1>5, <1>6, ReportStep

\* What is read, and a stop whose close ends.
LEMMA ReadsProven ==
  ASSUME TypeOK, TypeOK', StopInv, ReportInv, ReadNext \/ FinishClosing
  PROVE  ReportInv'
<1>1. CASE ReadNext
  <2>1. PICK f \in Arriving :
          /\ Read(f) /\ (Over(f) \/ UNCHANGED done)
          /\ \/ outgoing' = outgoing
             \/ outgoing' = Append(outgoing, ResyncRequest)
             \/ Over(f) /\ outgoing' = Append(outgoing, Ack(f.sv))
    BY <1>1 DEF ReadNext, ReadResync, ReadGap, ApplyOther, ApplyStart,
       BeginClosing, StopAtOnce, Refuse, Accepted, Applied, RefusedBy
  <2>2. UNCHANGED <<up, conns, pending, report, postdates>>
    BY <2>1 DEF Read, signalVars, connVars
  <2>3. f \in DownFrame
    BY ArrivingTyped
  <2> QED BY <2>1, <2>2, <2>3, OverProven
<1>2. CASE FinishClosing
  <2>1. closing \in DownFrame
    BY <1>2 DEF FinishClosing, TypeOK
  <2>2. UNCHANGED <<up, conns, pending, report, postdates>>
    BY <1>2 DEF FinishClosing, signalVars, connVars
  <2>3. /\ Over(closing)
        /\ outgoing' = outgoing \/ outgoing' = Append(outgoing, Ack(closing.sv))
    BY <1>2 DEF FinishClosing, Applied, RefusedBy
  <2> QED BY <2>1, <2>2, <2>3, OverProven
<1> QED BY <1>1, <1>2

-----------------------------------------------------------------------------
(* Corrections: the theorem                                                *)

\* Nothing was sent at the start, and no stream command given.
LEMMA ReportInit == Init => ReportInv
<1> SUFFICES ASSUME Init PROVE ReportInv
  OBVIOUS
<1>1. /\ outgoing = <<>> /\ conns = 0 /\ done = 0 /\ report.conn = 0
      /\ ~postdates /\ pending["stream"].version = 0
  BY DEF Init, NoReport, NoClaim, Output
<1>2. Frames(<<>>) = {}
  BY DEF Frames
<1>3. Proven
  BY <1>1 DEF Proven, Newest
<1> HIDE DEF Proven, Processed, Follows, Settles
<1> QED BY <1>1, <1>2, <1>3 DEF ReportInv

\* Every step keeps the evidence about the stream.
LEMMA ReportKept ==
  TypeOK /\ StopInv /\ ReportInv /\ [Next]_vars => ReportInv'
<1> SUFFICES ASSUME TypeOK, StopInv, ReportInv, [Next]_vars PROVE ReportInv'
  OBVIOUS
<1>1. TypeOK'
  BY TypeStep
<1>2. CASE \/ OutputAsked \/ ShowLoad \/ ShowUnload \/ ShowStart \/ Forward
           \/ \E mode \in Mode : ShowStop(mode)
  BY <1>1, <1>2, AskedProven
<1>3. CASE \E c \in Conn : Receive(c)
  BY <1>1, <1>3, ReceiveAckProven, ReceiveReportProven, ReceiveRequestProven
     DEF Receive
<1>4. CASE \/ \E o \in Output : WindowElapsed(o)
           \/ ShowStopLapses
           \/ \E v \in 1..version : GraceExpires(v)
           \/ Age \/ Evaluate \/ ChainLoss \/ UNCHANGED vars
  BY <1>1, <1>4, TimeProven
<1>5. CASE Connect \/ Disconnect \/ Restart \/ Pump \/ SendReport
  BY <1>1, <1>5, ConnectProven, DropsProven, PumpProven, SendReportProven
<1>6. CASE ReadNext \/ FinishClosing
  BY <1>1, <1>6, ReadsProven
<1> HIDE DEF ReportInv, StopInv
<1> QED
  BY <1>2, <1>3, <1>4, <1>5, <1>6 DEF Next, OutputAsked, Receive, ReadNext

\* A correction is made with no live claim, on a report that postdates the
\* anchor.
LEMMA Corrected ==
  ASSUME TypeOK, ReportInv, Evaluate, version' # version
  PROVE  \/ report.done >= pending["stream"].version
         \/ pending["stream"].expired
         \/ report.conn < conns
<1>1. postdates /\ ~ClaimLive("stream")
  BY DEF Evaluate, EngineSilent, Judge, Corrects
<1>2. Processed \/ pending["stream"].expired
  BY <1>1 DEF ClaimLive, Processed
<1>3. report.conn = conns \/ report.conn < conns
  BY MaxConnType DEF ReportInv, TypeOK, Report
<1> QED BY <1>1, <1>2, <1>3 DEF ReportInv, Proven, Newest

\* For any commands, versions and connections, a correction of the stream's
\* belief rests on a report the engine built with the newest stream command
\* behind it, unless that command's claim expired or the report is a late one
\* of an earlier connection (alerts.ts 300-367, server.ts 284).
THEOREM CorrectionIsInformed == Spec => CorrectionFollowsCommand
<1>1. TypeOK /\ ReportInv /\ [Next]_vars
        => [(Evaluate /\ version' # version) =>
              \/ report.done >= pending["stream"].version
              \/ pending["stream"].expired
              \/ report.conn < conns]_vars
  BY Corrected
<1> QED BY <1>1, TypeInit, TypeStep, StopInit, StopStep, ReportInit, ReportKept,
           PTL DEF Spec, CorrectionFollowsCommand

=============================================================================
