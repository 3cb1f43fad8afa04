-------------------------- MODULE RenderLinkProofs --------------------------
(***************************************************************************)
(* Theorems about the render channel, for every bound on versions and      *)
(* connections and every session memory.  All of them follow from one      *)
(* inductive invariant: the frames a session has emitted are a numbered,   *)
(* ordered and hole-free record of what was issued (WireInv); the gate's   *)
(* expected sequence number marks how far along that record the engine's   *)
(* state is accounted for (GateInv); and every acknowledgement in flight   *)
(* stems from a directive or from a resync (AckInv).                       *)
(***************************************************************************)
EXTENDS RenderLink, SequenceTheorems, TLAPS

-----------------------------------------------------------------------------
(* Type correctness, and the lemmas about frames and sequences that the    *)
(* other proofs use.                                                       *)


\* A frame built for any session is a DownFrame.
LEMMA FrameType ==
  ASSUME TypeOK, NEW c \in Conn, NEW kind \in {"resync", "directive"},
         NEW sv \in Version, NEW sent \in BOOLEAN
  PROVE  Frame(c, kind, sv, sent) \in DownFrame
<1>1. wire[c] \in Seq(DownFrame)
  BY DEF TypeOK
<1>2. NextSeq(c) \in Nat
  BY <1>1 DEF NextSeq
<1>. QED  BY <1>2 DEF Frame, DownFrame

\* Fanning a directive out keeps every record a sequence of frames.
LEMMA FanOutType ==
  ASSUME TypeOK, NEW sv \in Version, FanOut(sv)
  PROVE  wire' \in [Conn -> Seq(DownFrame)]
<1>1. PICK taken \in SUBSET registered :
        wire' = [c \in Conn |->
                  IF c \in registered
                  THEN Append(wire[c], Frame(c, "directive", sv, c \in taken))
                  ELSE wire[c]]
  BY DEF FanOut
<1>2. ASSUME NEW c \in Conn
      PROVE  Append(wire[c], Frame(c, "directive", sv, c \in taken))
               \in Seq(DownFrame)
  <2>1. (c \in taken) \in BOOLEAN
    OBVIOUS
  <2>2. Frame(c, "directive", sv, c \in taken) \in DownFrame
    BY <2>1, FrameType
  <2>. QED  BY <2>2 DEF TypeOK
<1>3. \A c \in Conn : wire[c] \in Seq(DownFrame)
  BY DEF TypeOK
<1>. QED  BY <1>1, <1>2, <1>3

\* So does a resync, and the session's memory stays a sequence of versions.
LEMMA RememberType ==
  ASSUME TypeOK, NEW c \in Conn
  PROVE  Remember(c, version) \in Seq(Version)
<1>0. resyncs[c] \in Seq(Version) /\ version \in Version
  BY DEF TypeOK
<1>1. Append(resyncs[c], version) \in Seq(Version)
  BY <1>0, AppendProperties
<1>2. Append(resyncs[c], version) # <<>>
  BY <1>0, AppendProperties
<1>3. Tail(Append(resyncs[c], version)) \in Seq(Version)
  BY <1>1, <1>2, HeadTailProperties, Zenon
<1>. QED  BY <1>1, <1>3, Zenon DEF Remember

LEMMA SendResyncType ==
  ASSUME TypeOK, NEW c \in Conn, NEW sent \in BOOLEAN, SendResync(c, sent)
  PROVE  /\ wire' \in [Conn -> Seq(DownFrame)]
         /\ resyncs' \in [Conn -> Seq(Version)]
<1>1. Frame(c, "resync", version, sent) \in DownFrame
  BY FrameType DEF TypeOK
<1>2. Append(wire[c], Frame(c, "resync", version, sent)) \in Seq(DownFrame)
  BY <1>1 DEF TypeOK
<1>3. Remember(c, version) \in Seq(Version)
  BY RememberType
<1>4. /\ wire' = [wire EXCEPT ![c] = Append(wire[c], Frame(c, "resync", version, sent))]
      /\ resyncs' = [resyncs EXCEPT ![c] = Remember(c, version)]
  BY DEF SendResync
<1>5. /\ wire \in [Conn -> Seq(DownFrame)]
      /\ resyncs \in [Conn -> Seq(Version)]
  BY DEF TypeOK
<1>6. wire' \in [Conn -> Seq(DownFrame)]
  BY <1>2, <1>4, <1>5, Zenon
<1>7. resyncs' \in [Conn -> Seq(Version)]
  BY <1>3, <1>4, <1>5, Zenon
<1>. QED  BY <1>6, <1>7

\* Leaving a connection leaves some prefix of what was on its way up.
LEMMA AbandonType ==
  ASSUME TypeOK, conn # 0, Abandon
  PROVE  /\ up' \in [Conn -> Seq(UpFrame)]
         /\ conn' = 0 /\ pos' = 0 /\ expectedSeq' = 0 /\ resynced' = FALSE
<1>1. PICK n \in 0..Len(up[conn]) :
        up' = [up EXCEPT ![conn] = SubSeq(up[conn], 1, n)]
  BY DEF Abandon
<1>2. conn \in Conn /\ up \in [Conn -> Seq(UpFrame)]
  BY MaxConnType DEF TypeOK, Conn
<1>3. SubSeq(up[conn], 1, n) \in Seq(UpFrame)
  BY <1>2, SubSeqProperties
<1>4. up' \in [Conn -> Seq(UpFrame)]
  BY <1>1, <1>2, <1>3, Zenon
<1>. QED  BY <1>4 DEF Abandon

\* The frame that arrives is one of the connection's.
LEMMA ArrivesFrame ==
  ASSUME TypeOK, NEW i \in Nat, Arrives(i)
  PROVE  /\ conn \in Conn
         /\ i \in DOMAIN wire[conn]
         /\ i \in 1..Len(wire[conn])
         /\ i > pos
         /\ wire[conn][i] \in DownFrame
<1>1. conn \in Conn
  BY MaxConnType DEF Arrives, TypeOK, Conn
<1>2. wire[conn] \in Seq(DownFrame)
  BY <1>1 DEF TypeOK
<1>3. i \in 1..Len(wire[conn]) /\ i > pos
  BY <1>2 DEF Arrives, TypeOK
<1>. QED  BY <1>1, <1>2, <1>3

LEMMA InitTypeOK == Init => TypeOK
<1> SUFFICES ASSUME Init PROVE TypeOK
  OBVIOUS
<1>1. /\ resyncs \in [Conn -> Seq(Version)]
      /\ wire \in [Conn -> Seq(DownFrame)]
      /\ up \in [Conn -> Seq(UpFrame)]
      /\ outgoing \in Seq(UpFrame)
  BY DEF Init
<1>2. /\ 0 \in Version
      /\ 0 \in 0..MaxConn
      /\ 0 \in 0..0
      /\ 0 \in Nat
  BY MaxVersionType, MaxConnType DEF Version
<1>3. /\ version \in Version /\ applied \in Version
      /\ conns \in 0..MaxConn /\ conn \in 0..conns
      /\ pos \in Nat /\ expectedSeq \in Nat /\ resynced \in BOOLEAN
  <2>1. /\ version = 0 /\ applied = 0 /\ conns = 0 /\ conn = 0
        /\ pos = 0 /\ expectedSeq = 0 /\ resynced = FALSE
    BY DEF Init
  <2>. QED  BY <1>2, <2>1, Zenon
<1>4. /\ lastApplied \in [Conn -> Version]
      /\ acked \in [Conn -> SUBSET Version]
  BY <1>2 DEF Init
<1>5. /\ issued = {} /\ registered = {} /\ open = {} /\ waiting = {}
      /\ graceful = {} /\ held = {} /\ has = {} /\ failed = {} /\ direct = {}
  BY DEF Init
<1>. QED  BY <1>1, <1>3, <1>4, <1>5 DEF TypeOK

LEMMA NextTypeOK == TypeOK /\ [Next]_vars => TypeOK'
<1> SUFFICES ASSUME TypeOK, [Next]_vars PROVE TypeOK'
  OBVIOUS
<1>. USE DEF cpVars, stopVars, gateVars, replicaVars, engineVars
<1>1. CASE Command
  <2>1. version + 1 \in Version
    BY <1>1, MaxVersionType DEF Command, TypeOK, Version
  <2>2. wire' \in [Conn -> Seq(DownFrame)]
    BY <1>1, <2>1, FanOutType DEF Command
  <2>. QED  BY <1>1, <2>1, <2>2 DEF Command, TypeOK
<1>2. CASE Bump
  BY <1>2, MaxVersionType DEF Bump, TypeOK, Version
<1>3. CASE ShowStop
  <2>1. version + 1 \in Version
    BY <1>3, MaxVersionType DEF ShowStop, TypeOK, Version
  <2>2. wire' \in [Conn -> Seq(DownFrame)]
    BY <1>3, <2>1, FanOutType DEF ShowStop
  <2>. QED  BY <1>3, <2>1, <2>2 DEF ShowStop, TypeOK
<1>4. CASE GraceExpires
  BY <1>4 DEF GraceExpires, TypeOK
<1>5. ASSUME NEW c \in Conn, ReceiveAck(c) PROVE TypeOK'
  <2>1. Head(up[c]) \in UpFrame /\ Tail(up[c]) \in Seq(UpFrame)
    BY <1>5, HeadTailProperties DEF ReceiveAck, TypeOK
  <2>2. Head(up[c]).sv \in Version
    BY <2>1 DEF UpFrame
  <2>. QED  BY <1>5, <2>1, <2>2 DEF ReceiveAck, TypeOK
<1>6. ASSUME NEW c \in Conn, AnswerRequest(c) PROVE TypeOK'
  <2>1. up' \in [Conn -> Seq(UpFrame)]
    BY <1>6, HeadTailProperties DEF AnswerRequest, TypeOK
  <2>2. wire' \in [Conn -> Seq(DownFrame)] /\ resyncs' \in [Conn -> Seq(Version)]
    BY <1>6, SendResyncType, RememberType DEF AnswerRequest, TypeOK
  <2>. QED  BY <1>6, <2>1, <2>2 DEF AnswerRequest, TypeOK
<1>7. ASSUME NEW c \in Conn, RequestTearsDown(c) PROVE TypeOK'
  <2>1. up' \in [Conn -> Seq(UpFrame)]
    BY <1>7, HeadTailProperties DEF RequestTearsDown, TypeOK
  <2>. QED  BY <1>7, <2>1 DEF RequestTearsDown, TypeOK
<1>8. ASSUME NEW c \in Conn, Close(c) PROVE TypeOK'
  <2>1. up' \in [Conn -> Seq(UpFrame)]
    BY <1>8 DEF Close, TypeOK
  <2>. QED  BY <1>8, <2>1 DEF Close, TypeOK
<1>9. CASE Connect
  <2>1. PICK c \in Conn : /\ NewConnection(c)
                          /\ SendResync(c, TRUE)
                          /\ registered' = registered \union {c}
    BY <1>9 DEF Connect
  <2>2. wire' \in [Conn -> Seq(DownFrame)] /\ resyncs' \in [Conn -> Seq(Version)]
    BY <2>1, SendResyncType
  <2>3. conns' \in 0..MaxConn /\ conn' \in 0..conns'
    BY <2>1, MaxConnType DEF NewConnection, TypeOK, Conn
  <2>4. registered' \subseteq open' /\ open' \subseteq Conn
    BY <2>1 DEF NewConnection, TypeOK
  <2>5. /\ pos' = 0 /\ resynced' = FALSE /\ expectedSeq' = 0
        /\ UNCHANGED <<version, issued, lastApplied, acked, stopVars, up,
                       replicaVars, outgoing>>
    BY <2>1 DEF NewConnection
  <2>. QED  BY <2>2, <2>3, <2>4, <2>5 DEF TypeOK
<1>10. CASE HandshakeFails
  <2>1. PICK c \in Conn : /\ NewConnection(c)
                          /\ UNCHANGED registered
                          /\ \/ UNCHANGED <<resyncs, wire>>
                             \/ SendResync(c, FALSE)
    BY <1>10 DEF HandshakeFails
  <2>2. wire' \in [Conn -> Seq(DownFrame)] /\ resyncs' \in [Conn -> Seq(Version)]
    BY <2>1, SendResyncType DEF TypeOK
  <2>3. conns' \in 0..MaxConn /\ conn' \in 0..conns'
    BY <2>1, MaxConnType DEF NewConnection, TypeOK, Conn
  <2>4. registered' \subseteq open' /\ open' \subseteq Conn
    BY <2>1 DEF NewConnection, TypeOK
  <2>5. /\ pos' = 0 /\ resynced' = FALSE /\ expectedSeq' = 0
        /\ UNCHANGED <<version, issued, lastApplied, acked, stopVars, up,
                       replicaVars, outgoing>>
    BY <2>1 DEF NewConnection
  <2>. QED  BY <2>2, <2>3, <2>4, <2>5 DEF TypeOK
<1>11. CASE Leave
  <2>1. conn # 0 /\ Abandon /\ UNCHANGED <<cpVars, wire, conns, replicaVars, outgoing>>
    BY <1>11 DEF Leave
  <2>2. up' \in [Conn -> Seq(UpFrame)] /\ conn' = 0 /\ pos' = 0
        /\ expectedSeq' = 0 /\ resynced' = FALSE
    BY <2>1, AbandonType
  <2>3. conn' \in 0..conns'
    BY <2>1, <2>2, MaxConnType DEF TypeOK
  <2>. QED  BY <2>1, <2>2, <2>3 DEF TypeOK
<1>12. CASE Restart
  <2>1. 0 \in Version
    BY MaxVersionType DEF Version
  <2>2. conn # 0 /\ Abandon /\ applied' = 0 /\ has' = {} /\ failed' = {}
        /\ outgoing' = <<>> /\ UNCHANGED <<cpVars, wire, conns, direct>>
    BY <1>12 DEF Restart
  <2>3. up' \in [Conn -> Seq(UpFrame)] /\ conn' = 0 /\ pos' = 0
        /\ expectedSeq' = 0 /\ resynced' = FALSE
    BY <2>2, AbandonType
  <2>4. conn' \in 0..conns'
    BY <2>2, <2>3, MaxConnType DEF TypeOK
  <2>5. /\ applied' \in Version /\ has' \subseteq Version
        /\ failed' \subseteq Version /\ outgoing' \in Seq(UpFrame)
    BY <2>1, <2>2
  <2>6. UNCHANGED <<cpVars, wire, conns, direct>>
    BY <2>2
  <2>. QED  BY <2>3, <2>4, <2>5, <2>6 DEF TypeOK
<1>13. CASE ApplyResync
  <2>1. PICK i \in 1..(IF conn = 0 THEN 0 ELSE Len(wire[conn])) :
          /\ Arrives(i)
          /\ LET f == wire[conn][i]
             IN /\ f.kind = "resync"
                /\ pos' = i
                /\ resynced' = TRUE
                /\ expectedSeq' = f.seq + 1
                /\ applied' = f.sv
                /\ has' = issued \intersect (1..f.sv)
                /\ failed' = {}
                /\ outgoing' = Append(outgoing, Ack(f.sv))
          /\ UNCHANGED <<cpVars, wire, up, conns, conn, direct>>
    BY <1>13 DEF ApplyResync
  <2>2. i \in Nat /\ wire[conn][i] \in DownFrame
    BY <2>1, ArrivesFrame
  <2>3. /\ wire[conn][i].sv \in Version
        /\ wire[conn][i].seq \in Nat
        /\ Ack(wire[conn][i].sv) \in UpFrame
    BY <2>2 DEF Ack, UpFrame, DownFrame
  <2>4. outgoing' \in Seq(UpFrame)
    BY <2>1, <2>3 DEF TypeOK
  <2>5. /\ expectedSeq' \in Nat /\ resynced' \in BOOLEAN
        /\ applied' \in Version /\ pos' \in Nat
    BY <2>1, <2>2, <2>3
  <2>6. has' \subseteq Version /\ failed' \subseteq Version
    BY <2>1 DEF TypeOK
  <2>7. UNCHANGED <<cpVars, wire, up, conns, conn, direct>>
    BY <2>1
  <2>. QED  BY <2>4, <2>5, <2>6, <2>7 DEF TypeOK
<1>14. CASE RefuseResync
  <2>1. conn # 0 /\ Abandon /\ UNCHANGED <<cpVars, wire, conns, replicaVars, outgoing>>
    BY <1>14 DEF RefuseResync, Arrives
  <2>2. up' \in [Conn -> Seq(UpFrame)] /\ conn' = 0 /\ pos' = 0
        /\ expectedSeq' = 0 /\ resynced' = FALSE
    BY <2>1, AbandonType
  <2>3. conn' \in 0..conns'
    BY <2>1, <2>2, MaxConnType DEF TypeOK
  <2>. QED  BY <2>1, <2>2, <2>3 DEF TypeOK
<1>15. CASE ApplyDirective
  <2>1. PICK i \in 1..(IF conn = 0 THEN 0 ELSE Len(wire[conn])) :
          /\ Arrives(i)
          /\ LET f == wire[conn][i]
             IN /\ f.kind = "directive"
                /\ Classify(f) = "Accept"
                /\ pos' = i
                /\ expectedSeq' = expectedSeq + 1
                /\ applied' = f.sv
                /\ has' = has \union {f.sv}
                /\ direct' = direct \union {f.sv}
                /\ outgoing' = Append(outgoing, Ack(f.sv))
          /\ UNCHANGED <<cpVars, wire, up, conns, conn, resynced, failed>>
    BY <1>15 DEF ApplyDirective
  <2>2. i \in Nat /\ wire[conn][i] \in DownFrame
    BY <2>1, ArrivesFrame
  <2>3. /\ wire[conn][i].sv \in Version
        /\ Ack(wire[conn][i].sv) \in UpFrame
    BY <2>2 DEF Ack, UpFrame, DownFrame
  <2>4. outgoing' \in Seq(UpFrame)
    BY <2>1, <2>3 DEF TypeOK
  <2>. QED  BY <2>1, <2>2, <2>3, <2>4 DEF TypeOK
<1>16. CASE FailDirective
  <2>1. PICK i \in 1..(IF conn = 0 THEN 0 ELSE Len(wire[conn])) :
          /\ Arrives(i)
          /\ pos' = i
          /\ expectedSeq' = expectedSeq + 1
          /\ failed' = failed \union {wire[conn][i].sv}
          /\ UNCHANGED <<cpVars, wire, up, conns, conn, resynced, applied, has,
                         direct, outgoing>>
    BY <1>16 DEF FailDirective
  <2>2. i \in Nat /\ wire[conn][i] \in DownFrame
    BY <2>1, ArrivesFrame
  <2>3. wire[conn][i].sv \in Version
    BY <2>2 DEF DownFrame
  <2>. QED  BY <2>1, <2>2, <2>3 DEF TypeOK
<1>17. CASE TurnAway
  <2>1. PICK i \in 1..(IF conn = 0 THEN 0 ELSE Len(wire[conn])) :
          /\ Arrives(i)
          /\ pos' = i
          /\ outgoing' = IF Classify(wire[conn][i]) = "SeqGap"
                         THEN Append(outgoing, ResyncRequest) ELSE outgoing
          /\ UNCHANGED <<cpVars, wire, up, conns, conn, resynced, expectedSeq,
                         replicaVars>>
    BY <1>17 DEF TurnAway
  <2>2. i \in Nat
    BY <2>1, ArrivesFrame
  <2>3. ResyncRequest \in UpFrame
    BY MaxVersionType DEF ResyncRequest, UpFrame, Version
  <2>4. outgoing' \in Seq(UpFrame)
    BY <2>1, <2>3 DEF TypeOK
  <2>. QED  BY <2>1, <2>2, <2>4 DEF TypeOK
<1>18. CASE Pump
  <2>1. /\ conn # 0
        /\ up' = IF conn \in open
                 THEN [up EXCEPT ![conn] = up[conn] \o outgoing] ELSE up
        /\ outgoing' = <<>>
        /\ UNCHANGED <<cpVars, wire, conns, gateVars, replicaVars>>
    BY <1>18 DEF Pump
  <2>2. conn \in open => up[conn] \o outgoing \in Seq(UpFrame)
    BY ConcatProperties DEF TypeOK
  <2>3. up' \in [Conn -> Seq(UpFrame)]
    BY <2>1, <2>2 DEF TypeOK
  <2>. QED  BY <2>1, <2>3 DEF TypeOK
<1>19. CASE UNCHANGED vars
  BY <1>19 DEF vars, TypeOK
<1>. QED
  BY <1>1, <1>2, <1>3, <1>4, <1>5, <1>6, <1>7, <1>8, <1>9, <1>10, <1>11,
     <1>12, <1>13, <1>14, <1>15, <1>16, <1>17, <1>18, <1>19 DEF Next

\* The state always has its type: every session that is fanned out to has an
\* open socket, and every version, frame and counter is one the system can hold.
THEOREM TypeCorrect == Spec => []TypeOK
  BY InitTypeOK, NextTypeOK, PTL DEF Spec


-----------------------------------------------------------------------------
(* The invariant.                                                          *)

\* Frames are numbered by position, stand at versions that exist, and are in
\* version order, a directive strictly after everything before it.
WireOrdered ==
  \A c \in Conn : \A i \in DOMAIN wire[c] :
    /\ wire[c][i].seq = i - 1
    /\ wire[c][i].sv <= version
    /\ wire[c][i].kind = "directive" => wire[c][i].sv \in issued
    /\ \A j \in 1..(i - 1) :
         /\ wire[c][j].sv <= wire[c][i].sv
         /\ wire[c][i].kind = "directive" => wire[c][j].sv < wire[c][i].sv

\* Between two neighbouring frames nothing was issued but the second's own.
WireDense ==
  \A c \in Conn : \A i \in 1..(Len(wire[c]) - 1) : \A d \in issued :
    wire[c][i].sv < d /\ d <= wire[c][i + 1].sv =>
      /\ d = wire[c][i + 1].sv
      /\ wire[c][i + 1].kind = "directive"

\* A registered session was sent everything issued since its resync.
WireLive ==
  \A c \in registered :
    /\ wire[c] # <<>>
    /\ \A d \in issued : d <= wire[c][Len(wire[c])].sv

\* The first frame of a connection is a resync; if the socket refused it,
\* the session is not registered and no other frame follows.
WireHead ==
  \A c \in Conn : wire[c] # <<>> =>
    /\ wire[c][1].kind = "resync"
    /\ c \in registered \/ Len(wire[c]) > 1 => wire[c][1].sent

\* Connections are used in order, and the engine reads from the newest.
ConnInv ==
  /\ \A c \in Conn : c > conns => wire[c] = <<>> /\ c \notin open
  /\ conn # 0 => conn = conns

WireInv == WireOrdered /\ WireDense /\ WireLive /\ WireHead /\ ConnInv

\* Everything issued above what is applied, up to the last frame taken in
\* sequence, failed.
GateInv ==
  /\ \A d \in issued : 1 <= d /\ d <= version
  /\ failed \subseteq issued
  /\ applied <= version
  /\ conn = 0 => ~resynced
  /\ conn # 0 /\ ~resynced =>
       /\ pos = 0
       /\ wire[conn] # <<>> => applied <= wire[conn][1].sv
  /\ conn # 0 /\ resynced =>
       /\ 1 <= expectedSeq /\ expectedSeq <= pos /\ pos <= Len(wire[conn])
       /\ applied <= wire[conn][expectedSeq].sv
       /\ \A d \in failed : d <= wire[conn][expectedSeq].sv
       /\ \A d \in issued : applied < d /\ d <= wire[conn][expectedSeq].sv
                              => d \in failed

IInv == TypeOK /\ WireInv /\ GateInv /\ ReplicaExact

\* The versions acknowledged in a queue; and those an acknowledgement queued
\* for connection c can stem from: a directive, or a resync sent up to then.
Acks(q) == {q[i].sv : i \in {j \in DOMAIN q : q[j].kind = "ack"}}

Sources(c) == direct \union UNION {ResyncVersions(b) : b \in 1..c}

AckInv ==
  /\ Acks(outgoing) \subseteq Sources(conns)
  /\ \A c \in Conn : Acks(up[c]) \subseteq Sources(c)

\* A session forgets a resync's version only once the version has moved on.
MemoryInv ==
  \A c \in Conn :
    /\ \A i \in DOMAIN resyncs[c] : resyncs[c][i] <= version
    /\ \A v \in ResyncVersions(c) : v \in Elems(resyncs[c]) \/ v < version

-----------------------------------------------------------------------------
(* The wires                                                               *)

\* How a step may extend the records of what was sent: each session in W gets
\* one frame, f[c], standing at the new version.
Extends(W, f) ==
  /\ version <= version'
  /\ issued \subseteq issued'
  /\ \A d \in issued' : d \in issued \/ (d = version' /\ version < d)
  /\ \A c \in Conn \ W : wire'[c] = wire[c]
  /\ \A c \in W :
       /\ wire'[c] = Append(wire[c], f[c])
       /\ f[c].seq = Len(wire[c])
       /\ f[c].sv = version'
       /\ f[c].kind = "directive" => /\ version < version'
                                     /\ version' \in issued'
       /\ f[c].kind = "resync" => issued' = issued
       /\ wire[c] = <<>> => /\ f[c].kind = "resync"
                            /\ c \in registered' => f[c].sent
       /\ c \in registered \/ wire[c] = <<>>
  /\ registered' \subseteq registered \union W
  /\ issued' # issued => registered' \subseteq W

\* An element of a record after the step is an old one or the new one.
ElementAfter(W, f, c) ==
  /\ c \notin W => wire'[c] = wire[c]
  /\ c \in W => /\ Len(wire'[c]) = Len(wire[c]) + 1
                /\ wire'[c][Len(wire[c]) + 1] = f[c]
                /\ wire'[c] # <<>>
                /\ f[c] \in DownFrame
  /\ Len(wire[c]) \in Nat /\ Len(wire'[c]) \in Nat
  /\ wire[c] # <<>> => Len(wire[c]) > 0
  /\ DOMAIN wire'[c] = 1..Len(wire'[c])
  /\ DOMAIN wire[c] = 1..Len(wire[c])
  /\ \A i \in 1..Len(wire[c]) : /\ wire'[c][i] = wire[c][i]
                                /\ wire[c][i] \in DownFrame
                                /\ wire[c][i].sv \in Nat

LEMMA ExtendsElement ==
  ASSUME TypeOK, NEW W \in SUBSET Conn, NEW f \in [W -> DownFrame], Extends(W, f),
         NEW c \in Conn
  PROVE  ElementAfter(W, f, c)
<1>1. wire[c] \in Seq(DownFrame)
  BY DEF TypeOK
<1>2. \A i \in 1..Len(wire[c]) : /\ wire[c][i] \in DownFrame
                                 /\ wire[c][i].sv \in Nat
  <2>1. \A g \in DownFrame : g.sv \in Nat
    BY DEF DownFrame, Version
  <2>. QED  BY <1>1, <2>1
<1>3. CASE c \in W
  <2>1. f[c] \in DownFrame
    BY <1>3
  <2>2. wire'[c] = Append(wire[c], f[c])
    BY <1>3 DEF Extends
  <2>3. wire'[c] # <<>>
    BY <1>1, <2>1, <2>2, AppendProperties
  <2>. QED  BY <1>1, <1>2, <1>3, <2>1, <2>2, <2>3 DEF ElementAfter
<1>4. CASE c \notin W
  <2>1. wire'[c] = wire[c]
    BY <1>4 DEF Extends
  <2>. QED  BY <1>1, <1>2, <1>4, <2>1 DEF ElementAfter
<1>. QED  BY <1>3, <1>4

LEMMA WireOrderedKept ==
  ASSUME TypeOK, WireInv, GateInv, version' \in Nat,
         NEW W \in SUBSET Conn, NEW f \in [W -> DownFrame], Extends(W, f)
  PROVE  WireOrdered'
<1> SUFFICES ASSUME NEW c \in Conn, NEW i \in DOMAIN wire'[c]
             PROVE  /\ wire'[c][i].seq = i - 1
                    /\ wire'[c][i].sv <= version'
                    /\ wire'[c][i].kind = "directive" => wire'[c][i].sv \in issued'
                    /\ \A j \in 1..(i - 1) :
                         /\ wire'[c][j].sv <= wire'[c][i].sv
                         /\ wire'[c][i].kind = "directive"
                              => wire'[c][j].sv < wire'[c][i].sv
  BY DEF WireOrdered
<1>e. ElementAfter(W, f, c)
  BY ExtendsElement
<1>0. /\ version <= version' /\ issued \subseteq issued' /\ version \in Nat
  BY DEF Extends, TypeOK, Version
<1>1. CASE i \in 1..Len(wire[c])
  <2>1. i \in DOMAIN wire[c] /\ wire'[c][i] = wire[c][i]
    BY <1>1, <1>e DEF ElementAfter
  <2>2. \A j \in 1..(i - 1) : wire'[c][j] = wire[c][j]
    BY <1>1, <1>e DEF ElementAfter
  <2>3. /\ wire[c][i].seq = i - 1
        /\ wire[c][i].sv <= version
        /\ wire[c][i].kind = "directive" => wire[c][i].sv \in issued
        /\ \A j \in 1..(i - 1) :
             /\ wire[c][j].sv <= wire[c][i].sv
             /\ wire[c][i].kind = "directive" => wire[c][j].sv < wire[c][i].sv
    BY <2>1 DEF WireInv, WireOrdered
  <2>4. wire[c][i].sv \in Nat
    BY <1>1, <1>e DEF ElementAfter, DownFrame, Version
  <2>. QED  BY <1>0, <2>1, <2>2, <2>3, <2>4
<1>2. CASE i \notin 1..Len(wire[c])
  <2>1. /\ c \in W
        /\ i = Len(wire[c]) + 1
        /\ wire'[c][i] = f[c]
        /\ Len(wire[c]) \in Nat
    BY <1>2, <1>e DEF ElementAfter
  <2>2. /\ f[c].seq = Len(wire[c])
        /\ f[c].sv = version'
        /\ f[c].kind = "directive" => version < version' /\ version' \in issued'
    BY <2>1 DEF Extends
  <2>3. \A j \in 1..(i - 1) : /\ wire'[c][j].sv \in Nat
                              /\ wire'[c][j].sv <= version
    <3>1. \A j \in 1..Len(wire[c]) :
             /\ wire'[c][j] = wire[c][j]
             /\ wire[c][j] \in DownFrame
             /\ wire[c][j].sv <= version
      BY <2>1, <1>e DEF ElementAfter, WireInv, WireOrdered
    <3>2. 1..(i - 1) = 1..Len(wire[c])
      BY <2>1
    <3>3. \A m \in DownFrame : m.sv \in Nat
      BY DEF DownFrame, Version
    <3> HIDE DEF DownFrame
    <3>4. QED  BY <3>1, <3>2, <3>3
  <2>. QED  BY <1>0, <2>1, <2>2, <2>3
<1>. QED  BY <1>1, <1>2

LEMMA WireDenseKept ==
  ASSUME TypeOK, WireInv, GateInv, version' \in Nat,
         NEW W \in SUBSET Conn, NEW f \in [W -> DownFrame], Extends(W, f)
  PROVE  WireDense'
<1> SUFFICES ASSUME NEW c \in Conn, NEW i \in 1..(Len(wire'[c]) - 1), NEW d \in issued',
                    wire'[c][i].sv < d, d <= wire'[c][i + 1].sv
             PROVE  /\ d = wire'[c][i + 1].sv
                    /\ wire'[c][i + 1].kind = "directive"
  BY DEF WireDense
<1>e. ElementAfter(W, f, c)
  BY ExtendsElement
<1>0. /\ version <= version' /\ version \in Nat
      /\ d \in issued \/ (d = version' /\ version < d)
  BY DEF Extends, TypeOK, Version
<1>1. CASE i + 1 \in 1..Len(wire[c])
  <2>1. /\ i \in 1..(Len(wire[c]) - 1)
        /\ i + 1 \in DOMAIN wire[c]
        /\ wire'[c][i] = wire[c][i]
        /\ wire'[c][i + 1] = wire[c][i + 1]
    BY <1>1, <1>e DEF ElementAfter
  <2>2. wire[c][i + 1].sv <= version /\ wire[c][i + 1].sv \in Nat
    BY <1>1, <2>1, <1>e DEF ElementAfter, WireInv, WireOrdered, DownFrame, Version
  <2>3. d \in issued
    BY <1>0, <2>1, <2>2
  <2>. QED  BY <2>1, <2>3 DEF WireInv, WireDense
<1>2. CASE i + 1 \notin 1..Len(wire[c])
  <2>1. /\ c \in W
        /\ i = Len(wire[c])
        /\ wire'[c][i + 1] = f[c]
        /\ wire'[c][i] = wire[c][i]
        /\ wire[c] # <<>>
    BY <1>2, <1>e DEF ElementAfter
  <2>2. /\ c \in registered
        /\ f[c].sv = version'
        /\ f[c].kind = "resync" => issued' = issued
    BY <2>1 DEF Extends
  <2>3. \A e \in issued : e <= wire[c][i].sv
    BY <2>1, <2>2 DEF WireInv, WireLive
  <2>4. wire[c][i].sv \in Nat
    BY <2>1, <1>e DEF ElementAfter, DownFrame, Version
  <2>4a. \A e \in issued : e \in Nat
    BY DEF TypeOK, Version
  <2>5. d \notin issued
    BY <2>1, <2>3, <2>4, <2>4a
  <2>6. d = version' /\ issued' # issued
    BY <1>0, <2>5
  <2>7. f[c] \in DownFrame
    BY <2>1
  <2>. QED  BY <2>1, <2>2, <2>6, <2>7 DEF DownFrame
<1>. QED  BY <1>1, <1>2

LEMMA WireLiveKept ==
  ASSUME TypeOK, WireInv, GateInv, version' \in Nat,
         NEW W \in SUBSET Conn, NEW f \in [W -> DownFrame], Extends(W, f)
  PROVE  WireLive' /\ WireHead'
<1>0. /\ registered' \subseteq registered \union W
      /\ issued' # issued => registered' \subseteq W
      /\ version <= version' /\ version \in Nat
      /\ \A d \in issued' : d \in issued \/ d = version'
      /\ registered \subseteq Conn
      /\ \A d \in issued : d \in Nat /\ d <= version
  BY DEF Extends, TypeOK, Version, GateInv
<1>1. WireLive'
  <2> SUFFICES ASSUME NEW c \in registered'
               PROVE  /\ wire'[c] # <<>>
                      /\ \A d \in issued' : d <= wire'[c][Len(wire'[c])].sv
    BY DEF WireLive
  <2>e. ElementAfter(W, f, c)
    BY ExtendsElement, <1>0
  <2>1. CASE c \in W
    <3>1. /\ wire'[c] # <<>>
          /\ wire'[c][Len(wire'[c])] = f[c]
      BY <2>1, <2>e DEF ElementAfter
    <3>2. f[c].sv = version'
      BY <2>1 DEF Extends
    <3>3. \A d \in issued' : d <= version'
      BY <1>0
    <3>. QED  BY <3>1, <3>2, <3>3
  <2>2. CASE c \notin W
    <3>1. c \in registered /\ c \in Conn /\ issued' = issued
      BY <1>0, <2>2
    <3>2. wire'[c] = wire[c]
      BY <2>2, <3>1, <2>e DEF ElementAfter
    <3>. QED  BY <3>1, <3>2 DEF WireInv, WireLive
  <2>. QED  BY <2>1, <2>2
<1>2. WireHead'
  <2> SUFFICES ASSUME NEW c \in Conn, wire'[c] # <<>>
               PROVE  /\ wire'[c][1].kind = "resync"
                      /\ c \in registered' \/ Len(wire'[c]) > 1 => wire'[c][1].sent
    BY DEF WireHead
  <2>e. ElementAfter(W, f, c)
    BY ExtendsElement
  <2>1. CASE wire[c] # <<>>
    <3>1. wire[c] \in Seq(DownFrame)
      BY DEF TypeOK
    <3>2. 1 \in 1..Len(wire[c])
      BY <2>1, <3>1, EmptySeq, LenProperties
    <3>3. wire'[c][1] = wire[c][1]
      BY <3>2, <2>e DEF ElementAfter
    <3>4. c \in W => c \in registered
      BY <2>1 DEF Extends
    <3>5. c \notin W => wire'[c] = wire[c] /\ (c \in registered' => c \in registered)
      BY <1>0, <2>e DEF ElementAfter
    <3>. QED  BY <2>1, <3>3, <3>4, <3>5 DEF WireInv, WireHead
  <2>2. CASE wire[c] = <<>>
    <3>1. c \in W
      BY <2>2, <2>e DEF ElementAfter
    <3>2. Len(wire[c]) = 0
      BY <2>2
    <3>3. Len(wire'[c]) = 1 /\ wire'[c][1] = f[c]
      BY <3>1, <3>2, <2>e DEF ElementAfter
    <3>4. f[c].kind = "resync" /\ (c \in registered' => f[c].sent)
      BY <2>2, <3>1 DEF Extends
    <3>. QED  BY <3>3, <3>4
  <2>. QED  BY <2>1, <2>2
<1>. QED  BY <1>1, <1>2

\* A step that leaves the engine alone leaves it accounted for: what is issued
\* now is above everything it was sent.
LEMMA GateKept ==
  ASSUME TypeOK, WireInv, GateInv, ReplicaExact, version' \in Nat,
         NEW W \in SUBSET Conn, NEW f \in [W -> DownFrame], Extends(W, f),
         conn \in W => wire[conn] # <<>>,
         UNCHANGED <<conn, pos, resynced, expectedSeq, applied, has, failed>>
  PROVE  GateInv' /\ ReplicaExact'
<1>1. /\ version <= version' /\ version \in Nat
      /\ issued \subseteq issued'
      /\ \A d \in issued' : d \in issued \/ (d = version' /\ version < d)
      /\ applied \in Nat /\ applied <= version
      /\ \A d \in issued : d \in Nat /\ 1 <= d /\ d <= version
      /\ failed \subseteq issued
  BY DEF Extends, TypeOK, Version, GateInv
<1>2. ReplicaExact'
  BY <1>1 DEF ReplicaExact
<1>3. CASE conn = 0
  <2>1. ~resynced
    BY <1>3 DEF GateInv
  <2>. QED  BY <1>1, <1>2, <1>3, <2>1 DEF GateInv
<1>4. CASE conn # 0
  <2>1. conn \in Conn
    BY <1>4, MaxConnType DEF TypeOK, Conn
  <2>2. ElementAfter(W, f, conn)
    BY <2>1, ExtendsElement
  <2>3. CASE ~resynced
    <3>1. pos = 0 /\ (wire[conn] # <<>> => applied <= wire[conn][1].sv)
      BY <1>4, <2>3 DEF GateInv
    <3>2. wire'[conn] # <<>> => wire[conn] # <<>>
      BY <2>2 DEF ElementAfter
    <3>3. wire[conn] # <<>> => wire'[conn][1] = wire[conn][1]
      BY <2>2 DEF ElementAfter
    <3>. QED  BY <1>1, <1>2, <1>4, <2>3, <3>1, <3>2, <3>3 DEF GateInv
  <2>4. CASE resynced
    <3>1. /\ 1 <= expectedSeq /\ expectedSeq <= pos /\ pos <= Len(wire[conn])
          /\ applied <= wire[conn][expectedSeq].sv
          /\ \A d \in failed : d <= wire[conn][expectedSeq].sv
          /\ \A d \in issued : applied < d /\ d <= wire[conn][expectedSeq].sv
                                 => d \in failed
      BY <1>4, <2>4 DEF GateInv
    <3>2. expectedSeq \in Nat /\ pos \in Nat /\ Len(wire[conn]) \in Nat
          /\ Len(wire[conn]) <= Len(wire'[conn]) /\ Len(wire'[conn]) \in Nat
      BY <2>2 DEF ElementAfter, TypeOK
    <3>3. expectedSeq \in 1..Len(wire[conn])
      BY <3>1, <3>2
    <3>4. /\ wire'[conn][expectedSeq] = wire[conn][expectedSeq]
          /\ wire[conn][expectedSeq].sv \in Nat
      BY <2>2, <3>3 DEF ElementAfter
    <3>5. wire[conn][expectedSeq].sv <= version
      BY <2>1, <2>2, <3>3 DEF WireInv, WireOrdered, ElementAfter
    <3>6. /\ 1 <= expectedSeq' /\ expectedSeq' <= pos' /\ pos' <= Len(wire'[conn'])
          /\ applied' <= wire'[conn'][expectedSeq'].sv
          /\ \A d \in failed' : d <= wire'[conn'][expectedSeq'].sv
      BY <3>1, <3>2, <3>4
    <3>7. \A d \in issued' : applied' < d /\ d <= wire'[conn'][expectedSeq'].sv
                               => d \in failed'
      BY <1>1, <3>1, <3>4, <3>5
    <3>. QED  BY <1>1, <1>2, <1>4, <2>4, <3>6, <3>7 DEF GateInv
  <2>. QED  BY <2>3, <2>4
<1>. QED  BY <1>3, <1>4

\* The records, and the control plane's part of the connections, are untouched.
LEMMA WireUnchanged ==
  ASSUME TypeOK, WireInv, UNCHANGED <<version, issued, wire, conns>>,
         registered' \subseteq registered, open' \subseteq open,
         conn' \in {0, conn}
  PROVE  WireInv'
<1>1. WireOrdered' /\ WireDense'
  BY DEF WireInv, WireOrdered, WireDense
<1>2. WireLive'
  BY DEF WireInv, WireLive
<1>3. WireHead'
  BY DEF WireInv, WireHead
<1>4. ConnInv'
  BY DEF WireInv, ConnInv
<1>. QED  BY <1>1, <1>2, <1>3, <1>4 DEF WireInv

\* Once no connection is read, nothing of the gate matters.
LEMMA GateAbandoned ==
  ASSUME TypeOK, GateInv, ReplicaExact, conn' = 0, resynced' = FALSE,
         UNCHANGED <<version, issued>>,
         UNCHANGED <<applied, has, failed>> \/ (applied' = 0 /\ has' = {} /\ failed' = {})
  PROVE  GateInv' /\ ReplicaExact'
<1>1. CASE UNCHANGED <<applied, has, failed>>
  BY <1>1 DEF GateInv, ReplicaExact
<1>2. CASE applied' = 0 /\ has' = {} /\ failed' = {}
  BY <1>2 DEF GateInv, ReplicaExact, TypeOK, Version
<1>. QED  BY <1>1, <1>2

-----------------------------------------------------------------------------
(* The frame that arrives                                                  *)

\* The frame the engine is about to read never stands behind what is applied,
\* and one that comes before any resync was taken is a resync.
LEMMA Arriving ==
  ASSUME TypeOK, WireInv, GateInv, NEW i \in Nat, Arrives(i)
  PROVE  /\ conn # 0 /\ conn \in Conn
         /\ i \in 1..Len(wire[conn]) /\ i > pos
         /\ wire[conn][i] \in DownFrame
         /\ wire[conn][i].sv \in Nat
         /\ wire[conn][i].sv <= version
         /\ wire[conn][i].seq = i - 1
         /\ wire[conn][i].kind = "directive" => wire[conn][i].sv \in issued
         /\ applied <= wire[conn][i].sv
         /\ ~resynced => wire[conn][i].kind = "resync"
         /\ resynced =>
              /\ expectedSeq \in 1..(i - 1)
              /\ wire[conn][expectedSeq].sv \in Nat
              /\ applied <= wire[conn][expectedSeq].sv
              /\ wire[conn][expectedSeq].sv <= wire[conn][i].sv
              /\ wire[conn][i].kind = "directive"
                   => wire[conn][expectedSeq].sv < wire[conn][i].sv
<1>1. /\ conn # 0 /\ conn \in Conn
      /\ i \in 1..Len(wire[conn]) /\ i \in DOMAIN wire[conn] /\ i > pos
      /\ wire[conn][i] \in DownFrame
  BY ArrivesFrame DEF Arrives
<1>2. /\ wire[conn][i].seq = i - 1
      /\ wire[conn][i].sv <= version
      /\ wire[conn][i].kind = "directive" => wire[conn][i].sv \in issued
      /\ \A j \in 1..(i - 1) :
           /\ wire[conn][j].sv <= wire[conn][i].sv
           /\ wire[conn][i].kind = "directive"
                => wire[conn][j].sv < wire[conn][i].sv
  BY <1>1 DEF WireInv, WireOrdered
<1>3. \A j \in 1..Len(wire[conn]) : wire[conn][j].sv \in Nat
  <2>1. wire[conn] \in Seq(DownFrame)
    BY <1>1 DEF TypeOK
  <2>2. \A g \in DownFrame : g.sv \in Nat
    BY DEF DownFrame, Version
  <2>. QED  BY <2>1, <2>2
<1>4. applied \in Nat /\ pos \in Nat /\ expectedSeq \in Nat /\ Len(wire[conn]) \in Nat
  BY <1>1 DEF TypeOK, Version
<1>5. CASE resynced
  <2>1. /\ 1 <= expectedSeq /\ expectedSeq <= pos
        /\ applied <= wire[conn][expectedSeq].sv
    BY <1>1, <1>5 DEF GateInv
  <2>2. expectedSeq \in 1..(i - 1) /\ expectedSeq \in 1..Len(wire[conn])
    BY <1>1, <1>4, <2>1
  <2>3. /\ wire[conn][expectedSeq].sv <= wire[conn][i].sv
        /\ wire[conn][i].kind = "directive"
             => wire[conn][expectedSeq].sv < wire[conn][i].sv
    BY <1>2, <2>2
  <2>4. applied <= wire[conn][i].sv
    BY <1>1, <1>3, <1>4, <2>1, <2>2, <2>3
  <2>. QED  BY <1>1, <1>2, <1>3, <1>5, <2>1, <2>2, <2>3, <2>4
<1>6. CASE ~resynced
  <2>1. pos = 0 /\ wire[conn] # <<>>
    BY <1>1, <1>6 DEF GateInv
  <2>2. applied <= wire[conn][1].sv
    BY <1>1, <1>6, <2>1 DEF GateInv
  <2>3. wire[conn][1].kind = "resync"
    BY <1>1, <2>1 DEF WireInv, WireHead
  <2>4. i = 1
    <3>1. Len(wire[conn]) > 1 => wire[conn][1].sent
      BY <1>1, <2>1 DEF WireInv, WireHead
    <3>2. \A j \in (pos + 1)..(i - 1) : ~wire[conn][j].sent
      BY DEF Arrives
    <3>3. i # 1 => 1 \in (pos + 1)..(i - 1) /\ Len(wire[conn]) > 1
      BY <1>1, <1>4, <2>1
    <3>. QED  BY <3>1, <3>2, <3>3
  <2>. QED  BY <1>1, <1>2, <1>3, <1>6, <2>2, <2>3, <2>4
<1>. QED  BY <1>5, <1>6

\* The frame the gate accepts is the one right after the last it took: what is
\* issued between the applied version and it has failed.
LEMMA Accepted ==
  ASSUME TypeOK, WireInv, GateInv, NEW i \in Nat, Arrives(i),
         wire[conn][i].kind = "directive", Classify(wire[conn][i]) = "Accept"
  PROVE  /\ resynced
         /\ i = expectedSeq + 1
         /\ wire[conn][i].sv \in issued
         /\ applied < wire[conn][i].sv
         /\ wire[conn][i].sv \notin failed
         /\ \A d \in failed : d <= wire[conn][i].sv
         /\ \A d \in issued : applied < d /\ d < wire[conn][i].sv => d \in failed
<1>1. /\ resynced
      /\ applied < wire[conn][i].sv
      /\ wire[conn][i].seq = expectedSeq
  <2>1. ~(wire[conn][i].sv <= applied)
    BY DEF Classify
  <2>2. wire[conn][i].sv \in Nat
    BY Arriving
  <2>3. applied \in Nat
    BY DEF TypeOK, Version
  <2>. QED  BY <2>1, <2>2, <2>3 DEF Classify
<1>2. /\ conn \in Conn /\ conn # 0
      /\ i \in 1..Len(wire[conn])
      /\ wire[conn][i].seq = i - 1
      /\ wire[conn][i].sv \in issued /\ wire[conn][i].sv \in Nat
      /\ expectedSeq \in 1..(i - 1)
      /\ wire[conn][expectedSeq].sv \in Nat
      /\ wire[conn][expectedSeq].sv < wire[conn][i].sv
  BY <1>1, Arriving
<1>3. i = expectedSeq + 1
  BY <1>1, <1>2
<1>4. /\ \A d \in failed : d <= wire[conn][expectedSeq].sv
      /\ \A d \in issued : applied < d /\ d <= wire[conn][expectedSeq].sv
                             => d \in failed
  BY <1>1, <1>2 DEF GateInv
<1>5. \A d \in issued : d \in Nat
  BY DEF TypeOK, Version
<1>5a. \A d \in failed : d \in Nat
  BY DEF TypeOK, Version
<1>6. \A d \in issued :
        wire[conn][expectedSeq].sv < d /\ d <= wire[conn][i].sv
          => d = wire[conn][i].sv
  <2>1. Len(wire[conn]) \in Nat
    BY <1>2 DEF TypeOK
  <2>2. expectedSeq \in 1..(Len(wire[conn]) - 1)
    BY <1>2, <1>3, <2>1
  <2>. QED  BY <1>2, <1>3, <2>2 DEF WireInv, WireDense
<1>7. \A d \in issued : applied < d /\ d < wire[conn][i].sv => d \in failed
  BY <1>2, <1>4, <1>5, <1>6
<1>8. wire[conn][i].sv \notin failed /\ \A d \in failed : d <= wire[conn][i].sv
  BY <1>2, <1>4, <1>5a
<1>. QED  BY <1>1, <1>2, <1>3, <1>7, <1>8

-----------------------------------------------------------------------------
(* The inductive invariant                                                 *)

LEMMA InitIInv == Init => IInv
<1> SUFFICES ASSUME Init PROVE IInv
  OBVIOUS
<1>1. TypeOK
  BY InitTypeOK
<1>2. /\ wire = [c \in Conn |-> <<>>] /\ registered = {} /\ open = {}
      /\ conns = 0 /\ conn = 0 /\ issued = {} /\ version = 0 /\ applied = 0
      /\ has = {} /\ failed = {} /\ resynced = FALSE
  BY DEF Init
<1>3. WireInv
  BY <1>2 DEF WireInv, WireOrdered, WireDense, WireLive, WireHead, ConnInv
<1>4. GateInv /\ ReplicaExact
  BY <1>2 DEF GateInv, ReplicaExact
<1>. QED  BY <1>1, <1>3, <1>4 DEF IInv

\* One frame to each registered session, at a fresh version.
LEMMA FanOutStep ==
  ASSUME IInv, TypeOK', version' = version + 1,
         issued' = issued \union {version + 1}, FanOut(version + 1),
         UNCHANGED <<registered, open, engineVars>>
  PROVE  IInv'
<1>. USE DEF engineVars
<1>1. TypeOK /\ WireInv /\ GateInv /\ ReplicaExact
  BY DEF IInv
<1>2. PICK taken \in SUBSET registered :
        wire' = [c \in Conn |->
                  IF c \in registered
                  THEN Append(wire[c], Frame(c, "directive", version + 1, c \in taken))
                  ELSE wire[c]]
  BY DEF FanOut
<1>. DEFINE f == [c \in registered |-> Frame(c, "directive", version + 1, c \in taken)]
<1>3. /\ registered \in SUBSET Conn /\ version \in Nat /\ version + 1 \in Version
      /\ \A d \in issued : d <= version
  BY <1>1 DEF TypeOK, Version, GateInv
<1>4. f \in [registered -> DownFrame]
  <2>1. ASSUME NEW c \in registered
        PROVE  Frame(c, "directive", version + 1, c \in taken) \in DownFrame
    <3>1. (c \in taken) \in BOOLEAN /\ c \in Conn
      BY <1>3
    <3>. QED  BY <1>1, <1>3, <3>1, FrameType
  <2>. QED  BY <2>1
<1>5. Extends(registered, f)
  <2>1. /\ version <= version' /\ issued \subseteq issued'
        /\ \A d \in issued' : d \in issued \/ (d = version' /\ version < d)
        /\ registered' \subseteq registered \union registered
        /\ issued' # issued => registered' \subseteq registered
    BY <1>3
  <2>2. \A c \in Conn \ registered : wire'[c] = wire[c]
    BY <1>2
  <2>3. ASSUME NEW c \in registered
        PROVE  /\ wire'[c] = Append(wire[c], f[c])
               /\ f[c].seq = Len(wire[c])
               /\ f[c].sv = version'
               /\ f[c].kind = "directive"
    BY <1>2, <1>3 DEF Frame, NextSeq
  <2>4. ASSUME NEW c \in registered PROVE wire[c] # <<>>
    BY <1>1 DEF WireInv, WireLive
  <2>5. version < version' /\ version' \in issued'
    BY <1>3
  <2>6. ASSUME NEW c \in registered
        PROVE  /\ wire'[c] = Append(wire[c], f[c])
               /\ f[c].seq = Len(wire[c])
               /\ f[c].sv = version'
               /\ f[c].kind = "directive" => /\ version < version'
                                             /\ version' \in issued'
               /\ f[c].kind = "resync" => issued' = issued
               /\ wire[c] = <<>> => /\ f[c].kind = "resync"
                                    /\ c \in registered' => f[c].sent
               /\ c \in registered \/ wire[c] = <<>>
    BY <2>3, <2>4, <2>5
  <2>. HIDE DEF f
  <2>. QED  BY <2>1, <2>2, <2>6 DEF Extends
<1>. HIDE DEF f
<1>6. version' \in Nat
  BY <1>3
<1>7. WireOrdered' /\ WireDense' /\ WireLive' /\ WireHead'
  BY <1>1, <1>3, <1>4, <1>5, <1>6, WireOrderedKept, WireDenseKept, WireLiveKept
<1>8. ConnInv'
  <2>1. \A c \in Conn : c > conns => c \notin registered
    BY <1>1 DEF WireInv, ConnInv, TypeOK
  <2>2. \A c \in Conn : c > conns => wire'[c] = wire[c]
    BY <1>2, <2>1
  <2>. QED  BY <1>1, <2>2 DEF WireInv, ConnInv
<1>9. conn \in registered => wire[conn] # <<>>
  BY <1>1 DEF WireInv, WireLive
<1>10. GateInv' /\ ReplicaExact'
  BY <1>1, <1>3, <1>4, <1>5, <1>6, <1>9, GateKept
<1>. QED  BY <1>7, <1>8, <1>10 DEF IInv, WireInv

\* One resync, to a registered session or as the first frame of a connection.
LEMMA ResyncExtends ==
  ASSUME IInv, NEW c \in Conn, NEW sent \in BOOLEAN, SendResync(c, sent),
         UNCHANGED <<version, issued>>,
         c \in registered \/ wire[c] = <<>>,
         registered' \subseteq registered \union {c},
         wire[c] = <<>> /\ c \in registered' => sent
  PROVE  \E f \in [{c} -> DownFrame] :
           Extends({c}, f) /\ f[c].sv = version /\ f[c].kind = "resync"
<1>1. TypeOK
  BY DEF IInv
<1>. DEFINE f == [x \in {c} |-> Frame(c, "resync", version, sent)]
<1>2. Frame(c, "resync", version, sent) \in DownFrame
  BY <1>1, FrameType DEF TypeOK
<1>3. f \in [{c} -> DownFrame]
  BY <1>2
<1>4. /\ f[c].seq = Len(wire[c]) /\ f[c].sv = version /\ f[c].kind = "resync"
      /\ f[c].sent = sent
  BY DEF Frame, NextSeq
<1>5. wire' = [wire EXCEPT ![c] = Append(wire[c], f[c])]
  BY DEF SendResync
<1>. HIDE DEF f
<1>6. /\ wire'[c] = Append(wire[c], f[c])
      /\ \A x \in Conn \ {c} : wire'[x] = wire[x]
  BY <1>1, <1>5 DEF TypeOK
<1>7. version <= version'
  BY <1>1 DEF TypeOK, Version
<1>8. \A x \in {c} :
        /\ wire'[x] = Append(wire[x], f[x])
        /\ f[x].seq = Len(wire[x])
        /\ f[x].sv = version'
        /\ f[x].kind = "directive" => /\ version < version'
                                      /\ version' \in issued'
        /\ f[x].kind = "resync" => issued' = issued
        /\ wire[x] = <<>> => /\ f[x].kind = "resync"
                             /\ x \in registered' => f[x].sent
        /\ x \in registered \/ wire[x] = <<>>
  BY <1>4, <1>6
<1>9. Extends({c}, f)
  BY <1>6, <1>7, <1>8 DEF Extends
<1>. QED  BY <1>3, <1>4, <1>9

LEMMA AnswerStep ==
  ASSUME IInv, TypeOK', NEW c \in Conn, AnswerRequest(c)
  PROVE  IInv'
<1>. USE DEF engineVars
<1>1. TypeOK /\ WireInv /\ GateInv /\ ReplicaExact
  BY DEF IInv
<1>2. UNCHANGED <<version, issued, registered, open, engineVars>>
  BY DEF AnswerRequest
<1>3. version' \in Nat
  BY DEF TypeOK, Version
<1>4. CASE c \in registered
  <2>1. PICK sent \in BOOLEAN : SendResync(c, sent)
    BY <1>4 DEF AnswerRequest
  <2>2. wire[c] # <<>>
    BY <1>1, <1>4 DEF WireInv, WireLive
  <2>3. PICK f \in [{c} -> DownFrame] : Extends({c}, f)
    BY <1>2, <1>4, <2>1, <2>2, ResyncExtends
  <2>4. WireOrdered' /\ WireDense' /\ WireLive' /\ WireHead'
    BY <1>1, <1>3, <2>3, WireOrderedKept, WireDenseKept, WireLiveKept
  <2>5. ConnInv'
    <3>1. c \in open /\ conns \in Nat
      BY <1>1, MaxConnType DEF AnswerRequest, TypeOK
    <3>2. ~(c > conns)
      BY <1>1, <3>1 DEF WireInv, ConnInv
    <3>3. \A x \in Conn : x > conns => wire'[x] = wire[x]
      BY <2>3, <3>2 DEF Extends
    <3>. QED  BY <1>1, <1>2, <3>3 DEF WireInv, ConnInv
  <2>6. GateInv' /\ ReplicaExact'
    BY <1>1, <1>2, <1>3, <2>2, <2>3, GateKept
  <2>. QED  BY <2>4, <2>5, <2>6 DEF IInv, WireInv
<1>5. CASE c \notin registered
  <2>1. UNCHANGED wire
    BY <1>5 DEF AnswerRequest
  <2>2. WireInv'
    BY <1>1, <1>2, <2>1, WireUnchanged
  <2>3. GateInv' /\ ReplicaExact'
    BY <1>1, <1>2, <2>1 DEF GateInv, ReplicaExact
  <2>. QED  BY <2>2, <2>3 DEF IInv
<1>. QED  BY <1>4, <1>5

\* A new connection: its record is empty or one resync at the current version.
LEMMA ConnectStep ==
  ASSUME IInv, TypeOK', NEW c \in Conn, NewConnection(c),
         \/ SendResync(c, TRUE) /\ registered' = registered \union {c}
         \/ SendResync(c, FALSE) /\ UNCHANGED registered
         \/ UNCHANGED <<wire, registered>>
  PROVE  IInv'
<1>. USE DEF replicaVars
<1>1. TypeOK /\ WireInv /\ GateInv /\ ReplicaExact
  BY DEF IInv
<1>2. /\ UNCHANGED <<version, issued, applied, has, failed>>
      /\ conn' = c /\ c = conns + 1 /\ conns' = c /\ conn = 0
      /\ pos' = 0 /\ resynced' = FALSE /\ open' = open \union {c}
  BY DEF NewConnection
<1>3. version' \in Nat /\ conns \in Nat /\ c \in Nat
  BY <1>1, MaxConnType DEF TypeOK, Version, Conn
<1>4. wire[c] = <<>> /\ c \notin registered
  BY <1>1, <1>2, <1>3 DEF WireInv, ConnInv, TypeOK
<1>5. ReplicaExact'
  BY <1>1, <1>2 DEF ReplicaExact
<1>6. CASE UNCHANGED <<wire, registered>>
  <2>1. WireOrdered' /\ WireDense' /\ WireLive' /\ WireHead'
    BY <1>1, <1>2, <1>6 DEF WireInv, WireOrdered, WireDense, WireLive, WireHead
  <2>2. ConnInv'
    <3>1. \A x \in Conn : x > conns' => x > conns /\ x # c /\ x \in Nat
      BY <1>2, <1>3 DEF Conn
    <3>. QED  BY <1>1, <1>2, <1>6, <3>1 DEF WireInv, ConnInv
  <2>3. GateInv'
    BY <1>1, <1>2, <1>4, <1>6 DEF GateInv
  <2>. QED  BY <1>5, <2>1, <2>2, <2>3 DEF IInv, WireInv
<1>7. CASE \/ SendResync(c, TRUE) /\ registered' = registered \union {c}
           \/ SendResync(c, FALSE) /\ UNCHANGED registered
  <2>1. PICK sent \in BOOLEAN :
          /\ SendResync(c, sent)
          /\ registered' \subseteq registered \union {c}
          /\ c \in registered' => sent
    BY <1>4, <1>7
  <2>2. PICK f \in [{c} -> DownFrame] : Extends({c}, f) /\ f[c].sv = version
    BY <1>2, <1>4, <2>1, ResyncExtends
  <2>3. WireOrdered' /\ WireDense' /\ WireLive' /\ WireHead'
    BY <1>1, <1>3, <2>2, WireOrderedKept, WireDenseKept, WireLiveKept
  <2>4. ConnInv'
    <3>1. \A x \in Conn : x > conns' => x > conns /\ x # c /\ x \in Nat
      BY <1>2, <1>3 DEF Conn
    <3>2. \A x \in Conn : x > conns' => wire'[x] = wire[x]
      BY <2>2, <3>1 DEF Extends
    <3>. QED  BY <1>1, <1>2, <3>1, <3>2 DEF WireInv, ConnInv
  <2>5. GateInv'
    <3>1. wire'[c] = Append(wire[c], f[c])
      BY <2>2 DEF Extends
    <3>2. wire'[c][1] = f[c]
      BY <1>4, <3>1
    <3>3. applied' <= wire'[c][1].sv
      BY <1>1, <1>2, <2>2, <3>2 DEF GateInv
    <3>. QED  BY <1>1, <1>2, <3>3 DEF GateInv
  <2>. QED  BY <1>5, <2>3, <2>4, <2>5 DEF IInv, WireInv
<1>. QED  BY <1>6, <1>7

\* The engine takes a snapshot: everything up to its version is accounted for.
LEMMA ResyncStep ==
  ASSUME IInv, ApplyResync
  PROVE  WireInv' /\ GateInv' /\ ReplicaExact' /\ applied <= applied'
<1>. USE DEF cpVars
<1>1. TypeOK /\ WireInv /\ GateInv /\ ReplicaExact
  BY DEF IInv
<1>2. PICK i \in 1..(IF conn = 0 THEN 0 ELSE Len(wire[conn])) :
        /\ Arrives(i)
        /\ pos' = i
        /\ resynced' = TRUE
        /\ expectedSeq' = wire[conn][i].seq + 1
        /\ applied' = wire[conn][i].sv
        /\ has' = issued \intersect (1..wire[conn][i].sv)
        /\ failed' = {}
        /\ UNCHANGED <<cpVars, wire, up, conns, conn, direct>>
  BY DEF ApplyResync
<1>3. /\ i \in Nat /\ conn # 0
      /\ i \in 1..Len(wire[conn])
      /\ wire[conn][i].sv \in Nat
      /\ wire[conn][i].sv <= version
      /\ wire[conn][i].seq = i - 1
      /\ applied <= wire[conn][i].sv
  BY <1>1, <1>2, Arriving
<1>4. WireInv'
  BY <1>1, <1>2, WireUnchanged
<1>5. ReplicaExact'
  BY <1>2 DEF ReplicaExact
<1>6. \A d \in issued : d \in Nat
  BY <1>1 DEF TypeOK, Version
<1>7. Len(wire[conn]) \in Nat
  BY <1>1, <1>3, MaxConnType DEF TypeOK, Conn
<1>8. /\ expectedSeq' = i
      /\ 1 <= expectedSeq' /\ expectedSeq' <= pos' /\ pos' <= Len(wire'[conn'])
      /\ applied' <= wire'[conn'][expectedSeq'].sv
  BY <1>2, <1>3, <1>7
<1>9. \A d \in issued' : applied' < d /\ d <= wire'[conn'][expectedSeq'].sv
                           => d \in failed'
  BY <1>2, <1>3, <1>6, <1>8
<1>10. /\ \A d \in issued' : 1 <= d /\ d <= version'
       /\ failed' \subseteq issued'
       /\ applied' <= version'
  BY <1>1, <1>2, <1>3 DEF GateInv
<1>11. GateInv'
  BY <1>2, <1>8, <1>9, <1>10 DEF GateInv
<1>. QED  BY <1>2, <1>3, <1>4, <1>5, <1>11

\* The engine takes the next directive, which it applies or fails to apply.
LEMMA DirectiveStep ==
  ASSUME IInv, NEW i \in Nat, Arrives(i),
         wire[conn][i].kind = "directive", Classify(wire[conn][i]) = "Accept",
         pos' = i, expectedSeq' = expectedSeq + 1,
         \/ /\ applied' = wire[conn][i].sv
            /\ has' = has \union {wire[conn][i].sv}
            /\ failed' = failed
         \/ /\ failed' = failed \union {wire[conn][i].sv}
            /\ UNCHANGED <<applied, has>>,
         UNCHANGED <<cpVars, wire, up, conns, conn, resynced>>
  PROVE  WireInv' /\ GateInv' /\ ReplicaExact' /\ applied <= applied'
<1>. USE DEF cpVars
<1>. DEFINE v == wire[conn][i].sv
<1>1. TypeOK /\ WireInv /\ GateInv /\ ReplicaExact
  BY DEF IInv
<1>2. /\ conn # 0 /\ conn \in Conn
      /\ i \in 1..Len(wire[conn])
      /\ v \in Nat
      /\ v <= version
      /\ Len(wire[conn]) \in Nat
  BY <1>1, Arriving DEF TypeOK
<1>3. /\ resynced
      /\ i = expectedSeq + 1
      /\ v \in issued
      /\ applied < v
      /\ v \notin failed
      /\ \A d \in failed : d <= v
      /\ \A d \in issued : applied < d /\ d < v => d \in failed
  BY <1>1, Accepted
<1>4. /\ applied \in Nat
      /\ \A d \in issued : d \in Nat /\ 1 <= d /\ d <= version
      /\ failed \subseteq issued
      /\ has = (issued \intersect (1..applied)) \ failed
      /\ applied <= version
  BY <1>1 DEF TypeOK, Version, GateInv, ReplicaExact
<1>5. WireInv'
  BY <1>1, WireUnchanged
<1>6. wire'[conn'][expectedSeq'].sv = v /\ expectedSeq' = i
  BY <1>3
<1>. HIDE DEF v
<1>7. /\ 1 <= expectedSeq' /\ expectedSeq' <= pos' /\ pos' <= Len(wire'[conn'])
  BY <1>2, <1>6
<1>8. CASE applied' = v /\ has' = has \union {v} /\ failed' = failed
  <2>1. has' = (issued' \intersect (1..applied')) \ failed'
    BY <1>2, <1>3, <1>4, <1>8
  <2>2. \A d \in issued' : applied' < d /\ d <= v => d \in failed'
    BY <1>2, <1>4, <1>8
  <2>3. GateInv'
    BY <1>2, <1>3, <1>4, <1>6, <1>7, <1>8, <2>2 DEF GateInv
  <2>. QED  BY <1>2, <1>3, <1>4, <1>5, <1>8, <2>1, <2>3 DEF ReplicaExact
<1>9. CASE failed' = failed \union {v} /\ UNCHANGED <<applied, has>>
  <2>1. has' = (issued' \intersect (1..applied')) \ failed'
    BY <1>2, <1>3, <1>4, <1>9
  <2>2. \A d \in issued' : applied' < d /\ d <= v => d \in failed'
    BY <1>2, <1>3, <1>4, <1>9
  <2>3. /\ \A d \in failed' : d <= v
        /\ failed' \subseteq issued'
    BY <1>2, <1>3, <1>4, <1>9
  <2>4. GateInv'
    BY <1>2, <1>3, <1>4, <1>6, <1>7, <1>9, <2>2, <2>3 DEF GateInv
  <2>. QED  BY <1>2, <1>3, <1>4, <1>5, <1>9, <2>1, <2>4 DEF ReplicaExact
<1>. QED  BY <1>8, <1>9 DEF v

\* A frame the gate turns away comes after a resync was taken.
LEMMA TurnAwayStep ==
  ASSUME IInv, TurnAway
  PROVE  WireInv' /\ GateInv' /\ ReplicaExact'
<1>. USE DEF cpVars, replicaVars
<1>1. TypeOK /\ WireInv /\ GateInv /\ ReplicaExact
  BY DEF IInv
<1>2. PICK i \in 1..(IF conn = 0 THEN 0 ELSE Len(wire[conn])) :
        /\ Arrives(i)
        /\ wire[conn][i].kind = "directive"
        /\ pos' = i
        /\ UNCHANGED <<cpVars, wire, up, conns, conn, resynced, expectedSeq,
                       replicaVars>>
  BY DEF TurnAway
<1>3. /\ resynced /\ conn # 0
      /\ i \in 1..Len(wire[conn])
      /\ expectedSeq \in 1..(i - 1)
  BY <1>1, <1>2, Arriving
<1>4. WireInv'
  BY <1>1, <1>2, WireUnchanged
<1>5. ReplicaExact'
  BY <1>1, <1>2 DEF ReplicaExact
<1>6. expectedSeq' <= pos' /\ pos' <= Len(wire'[conn'])
  BY <1>2, <1>3
<1>7. GateInv'
  BY <1>1, <1>2, <1>3, <1>6 DEF GateInv
<1>. QED  BY <1>4, <1>5, <1>7

LEMMA NextIInv == IInv /\ [Next]_vars => IInv'
<1> SUFFICES ASSUME IInv, [Next]_vars PROVE IInv'
  OBVIOUS
<1>. USE DEF cpVars, stopVars, gateVars, replicaVars, engineVars
<1>a. TypeOK /\ WireInv /\ GateInv /\ ReplicaExact
  BY DEF IInv
<1>b. TypeOK'
  BY <1>a, NextTypeOK
<1>1. CASE Command
  BY <1>1, <1>b, FanOutStep DEF Command
<1>2. CASE Bump
  <2>1. /\ version' = version + 1 /\ version \in Nat
        /\ UNCHANGED <<issued, registered, open, wire, engineVars>>
    BY <1>2, <1>a DEF Bump, TypeOK, Version
  <2>. DEFINE f == [x \in {} |-> 0]
  <2>2. Extends({}, f)
    BY <2>1 DEF Extends
  <2>3. f \in [{} -> DownFrame] /\ {} \in SUBSET Conn /\ version' \in Nat
    BY <2>1
  <2>. HIDE DEF f
  <2>4. WireOrdered' /\ WireDense' /\ WireLive' /\ WireHead'
    BY <1>a, <2>2, <2>3, WireOrderedKept, WireDenseKept, WireLiveKept
  <2>5. ConnInv'
    BY <1>a, <2>1 DEF WireInv, ConnInv
  <2>6. conn \in {} => wire[conn] # <<>>
    OBVIOUS
  <2>7. UNCHANGED <<conn, pos, resynced, expectedSeq, applied, has, failed>>
    BY <2>1
  <2>8. GateInv' /\ ReplicaExact'
    BY <1>a, <2>2, <2>3, <2>6, <2>7, GateKept
  <2>. QED  BY <1>b, <2>4, <2>5, <2>8 DEF IInv, WireInv
<1>3. CASE ShowStop
  BY <1>3, <1>b, FanOutStep DEF ShowStop
<1>4. CASE GraceExpires
  <2>1. UNCHANGED <<version, issued, registered, open, wire, engineVars>>
    BY <1>4 DEF GraceExpires
  <2>. QED  BY <1>a, <1>b, <2>1, WireUnchanged DEF IInv, GateInv, ReplicaExact
<1>5. ASSUME NEW c \in Conn, ReceiveAck(c) PROVE IInv'
  <2>1. UNCHANGED <<version, issued, registered, open, wire, engineVars>>
    BY <1>5 DEF ReceiveAck
  <2>. QED  BY <1>a, <1>b, <2>1, WireUnchanged DEF IInv, GateInv, ReplicaExact
<1>6. ASSUME NEW c \in Conn, AnswerRequest(c) PROVE IInv'
  BY <1>6, <1>b, AnswerStep
<1>7. ASSUME NEW c \in Conn, RequestTearsDown(c) PROVE IInv'
  <2>1. /\ UNCHANGED <<version, issued, open, wire, engineVars>>
        /\ registered' \subseteq registered
    BY <1>7 DEF RequestTearsDown
  <2>. QED  BY <1>a, <1>b, <2>1, WireUnchanged DEF IInv, GateInv, ReplicaExact
<1>8. ASSUME NEW c \in Conn, Close(c) PROVE IInv'
  <2>1. /\ UNCHANGED <<version, issued, wire, engineVars>>
        /\ registered' \subseteq registered /\ open' \subseteq open
    BY <1>8 DEF Close
  <2>. QED  BY <1>a, <1>b, <2>1, WireUnchanged DEF IInv, GateInv, ReplicaExact
<1>9. CASE Connect
  BY <1>9, <1>b, ConnectStep DEF Connect
<1>10. CASE HandshakeFails
  BY <1>10, <1>b, ConnectStep DEF HandshakeFails
<1>11. CASE Leave
  <2>1. /\ conn' = 0 /\ resynced' = FALSE
        /\ UNCHANGED <<version, issued, registered, open, wire, conns,
                       applied, has, failed>>
    BY <1>11 DEF Leave, Abandon
  <2>. QED  BY <1>a, <1>b, <2>1, WireUnchanged, GateAbandoned DEF IInv
<1>12. CASE Restart
  <2>1. /\ conn' = 0 /\ resynced' = FALSE
        /\ UNCHANGED <<version, issued, registered, open, wire, conns>>
        /\ applied' = 0 /\ has' = {} /\ failed' = {}
    BY <1>12 DEF Restart, Abandon
  <2>. QED  BY <1>a, <1>b, <2>1, WireUnchanged, GateAbandoned DEF IInv
<1>13. CASE ApplyResync
  BY <1>13, <1>b, ResyncStep DEF IInv
<1>14. CASE RefuseResync
  <2>1. /\ conn' = 0 /\ resynced' = FALSE
        /\ UNCHANGED <<version, issued, registered, open, wire, conns,
                       applied, has, failed>>
    BY <1>14 DEF RefuseResync, Abandon
  <2>. QED  BY <1>a, <1>b, <2>1, WireUnchanged, GateAbandoned DEF IInv
<1>15. CASE ApplyDirective
  BY <1>15, <1>b, DirectiveStep DEF IInv, ApplyDirective
<1>16. CASE FailDirective
  BY <1>16, <1>b, DirectiveStep DEF IInv, FailDirective
<1>17. CASE TurnAway
  BY <1>17, <1>b, TurnAwayStep DEF IInv
<1>18. CASE Pump
  <2>1. UNCHANGED <<version, issued, registered, open, wire, conns, conn, pos,
                    resynced, expectedSeq, applied, has, failed>>
    BY <1>18 DEF Pump
  <2>. QED  BY <1>a, <1>b, <2>1, WireUnchanged DEF IInv, GateInv, ReplicaExact
<1>19. CASE UNCHANGED vars
  BY <1>a, <1>b, <1>19, WireUnchanged DEF IInv, GateInv, ReplicaExact, vars
<1>. QED
  BY <1>1, <1>2, <1>3, <1>4, <1>5, <1>6, <1>7, <1>8, <1>9, <1>10, <1>11,
     <1>12, <1>13, <1>14, <1>15, <1>16, <1>17, <1>18, <1>19 DEF Next

\* The frames sent and the gate's place among them account for everything.
THEOREM Invariant == Spec => []IInv
  BY InitIInv, NextIInv, PTL DEF Spec

\* Whatever sockets refuse, lose or break, the engine holds exactly the
\* commands up to its applied version that it did not report as failed.
THEOREM ReplicaIsExact == Spec => []ReplicaExact
<1>1. IInv => ReplicaExact
  BY DEF IInv
<1>. QED  BY <1>1, Invariant, PTL

\* No directive reaches the gate stale, and none ahead of the resync.
THEOREM NothingIsTurnedAwayUnread == Spec => []NothingTurnedAwayUnread
<1>1. IInv => NothingTurnedAwayUnread
  <2> SUFFICES ASSUME IInv, conn # 0, NEW i \in (pos + 1)..Len(wire[conn]),
                      wire[conn][i].sent
               PROVE  /\ wire[conn][i].kind = "directive" /\ resynced
                           => wire[conn][i].sv > applied
                      /\ ~resynced => \E j \in 1..i :
                           wire[conn][j].kind = "resync" /\ wire[conn][j].sent
    BY DEF NothingTurnedAwayUnread
  <2>1. TypeOK /\ WireInv /\ GateInv
    BY DEF IInv
  <2>2. /\ conn \in Conn /\ wire[conn] \in Seq(DownFrame)
        /\ pos \in Nat /\ expectedSeq \in Nat /\ applied \in Nat
    BY <2>1, MaxConnType DEF TypeOK, Conn, Version
  <2>3. /\ i \in 1..Len(wire[conn]) /\ i \in DOMAIN wire[conn]
        /\ Len(wire[conn]) \in Nat /\ i > pos /\ wire[conn] # <<>>
    BY <2>2
  <2>4. \A j \in 1..Len(wire[conn]) : wire[conn][j].sv \in Nat
    <3>1. \A g \in DownFrame : g.sv \in Nat
      BY DEF DownFrame, Version
    <3>. QED  BY <2>2, <3>1
  <2>5. ASSUME wire[conn][i].kind = "directive", resynced
        PROVE  wire[conn][i].sv > applied
    <3>1. /\ 1 <= expectedSeq /\ expectedSeq <= pos
          /\ applied <= wire[conn][expectedSeq].sv
      BY <2>1, <2>5 DEF GateInv
    <3>2. expectedSeq \in 1..(i - 1) /\ expectedSeq \in 1..Len(wire[conn])
      BY <2>2, <2>3, <3>1
    <3>3. wire[conn][expectedSeq].sv < wire[conn][i].sv
      BY <2>1, <2>2, <2>3, <2>5, <3>2 DEF WireInv, WireOrdered
    <3>. QED  BY <2>2, <2>3, <2>4, <3>1, <3>2, <3>3
  <2>6. \E j \in 1..i : wire[conn][j].kind = "resync" /\ wire[conn][j].sent
    <3>1. /\ wire[conn][1].kind = "resync"
          /\ Len(wire[conn]) > 1 => wire[conn][1].sent
      BY <2>1, <2>2, <2>3 DEF WireInv, WireHead
    <3>2. CASE i = 1
      BY <3>1, <3>2
    <3>3. CASE i # 1
      <4>1. Len(wire[conn]) > 1 /\ 1 \in 1..i
        BY <2>3, <3>3
      <4>. QED  BY <3>1, <4>1
    <3>. QED  BY <3>2, <3>3
  <2>. QED  BY <2>5, <2>6
<1>. QED  BY <1>1, Invariant, PTL

-----------------------------------------------------------------------------
(* What a step may do                                                      *)

\* Every step is a step of the versioned replica, or leaves it where it is.
LEMMA StepRefines ==
  ASSUME IInv, [Next]_vars
  PROVE  [Replica!Next]_(Replica!vars)
<1>. USE DEF cpVars, stopVars, gateVars, replicaVars, engineVars
<1>a. TypeOK /\ WireInv /\ GateInv /\ ReplicaExact
  BY DEF IInv
<1>b. applied \in Nat /\ version \in Nat
  BY <1>a DEF TypeOK, Version
<1>1. CASE Command \/ ShowStop
  <2>1. Replica!Issue
    BY <1>1 DEF Command, ShowStop, Replica!Issue
  <2>. QED  BY <2>1 DEF Replica!Next
<1>2. CASE Bump
  <2>1. Replica!Advance
    BY <1>2 DEF Bump, Replica!Advance
  <2>. QED  BY <2>1 DEF Replica!Next
<1>3. CASE UNCHANGED <<version, issued, applied, has, failed>>
  BY <1>3 DEF Replica!vars
<1>4. CASE Restart
  <2>1. Replica!Reset
    BY <1>4 DEF Restart, Replica!Reset
  <2>. QED  BY <2>1 DEF Replica!Next
<1>5. CASE ApplyResync
  <2>1. PICK i \in 1..(IF conn = 0 THEN 0 ELSE Len(wire[conn])) :
          /\ Arrives(i)
          /\ applied' = wire[conn][i].sv
          /\ has' = issued \intersect (1..wire[conn][i].sv)
          /\ failed' = {}
          /\ UNCHANGED <<version, issued>>
    BY <1>5 DEF ApplyResync
  <2>2. /\ wire[conn][i].sv \in Nat
        /\ applied <= wire[conn][i].sv /\ wire[conn][i].sv <= version
    BY <1>a, <2>1, Arriving
  <2>3. wire[conn][i].sv \in applied..version
    BY <1>b, <2>2
  <2>4. Replica!Snapshot
    BY <2>1, <2>3 DEF Replica!Snapshot
  <2>. QED  BY <2>4 DEF Replica!Next
<1>6. CASE ApplyDirective
  <2>1. PICK i \in 1..(IF conn = 0 THEN 0 ELSE Len(wire[conn])) :
          /\ Arrives(i)
          /\ wire[conn][i].kind = "directive"
          /\ Classify(wire[conn][i]) = "Accept"
          /\ applied' = wire[conn][i].sv
          /\ has' = has \union {wire[conn][i].sv}
          /\ UNCHANGED <<version, issued, failed>>
    BY <1>6 DEF ApplyDirective
  <2>2. /\ wire[conn][i].sv \in issued
        /\ wire[conn][i].sv > applied
        /\ \A d \in issued : applied < d /\ d < wire[conn][i].sv => d \in failed
    <3>1. /\ wire[conn][i].sv \in issued
          /\ applied < wire[conn][i].sv
          /\ \A d \in issued : applied < d /\ d < wire[conn][i].sv => d \in failed
      BY <1>a, <2>1, Accepted
    <3>2. wire[conn][i].sv \in Nat
      BY <1>a, <2>1, Arriving
    <3>. QED  BY <1>b, <3>1, <3>2
  <2>3. Replica!Apply
    BY <2>1, <2>2 DEF Replica!Apply, Replica!NextDirective
  <2>. QED  BY <2>3 DEF Replica!Next
<1>7. CASE FailDirective
  <2>1. PICK i \in 1..(IF conn = 0 THEN 0 ELSE Len(wire[conn])) :
          /\ Arrives(i)
          /\ wire[conn][i].kind = "directive"
          /\ Classify(wire[conn][i]) = "Accept"
          /\ failed' = failed \union {wire[conn][i].sv}
          /\ UNCHANGED <<version, issued, applied, has>>
    BY <1>7 DEF FailDirective
  <2>2. /\ wire[conn][i].sv \in issued
        /\ wire[conn][i].sv > applied
        /\ \A d \in issued : applied < d /\ d < wire[conn][i].sv => d \in failed
    <3>1. /\ wire[conn][i].sv \in issued
          /\ applied < wire[conn][i].sv
          /\ \A d \in issued : applied < d /\ d < wire[conn][i].sv => d \in failed
      BY <1>a, <2>1, Accepted
    <3>2. wire[conn][i].sv \in Nat
      BY <1>a, <2>1, Arriving
    <3>. QED  BY <1>b, <3>1, <3>2
  <2>3. Replica!Fail
    BY <2>1, <2>2 DEF Replica!Fail, Replica!NextDirective
  <2>. QED  BY <2>3 DEF Replica!Next
<1>8. ASSUME NEW c \in Conn,
             ReceiveAck(c) \/ AnswerRequest(c) \/ RequestTearsDown(c) \/ Close(c)
      PROVE  UNCHANGED <<version, issued, applied, has, failed>>
  BY <1>8 DEF ReceiveAck, AnswerRequest, RequestTearsDown, Close
<1>9. CASE Connect \/ HandshakeFails
  BY <1>3, <1>9 DEF Connect, HandshakeFails, NewConnection
<1>10. CASE GraceExpires \/ Leave \/ RefuseResync \/ TurnAway \/ Pump
             \/ UNCHANGED vars
  <2>1. UNCHANGED <<version, issued, applied, has, failed>>
    BY <1>10 DEF GraceExpires, Leave, RefuseResync, TurnAway, Pump, vars
  <2>. QED  BY <1>3, <2>1
<1>. QED
  BY <1>1, <1>2, <1>3, <1>4, <1>5, <1>6, <1>7, <1>8, <1>9, <1>10 DEF Next

\* The channel implements the versioned replica: no command is skipped, no
\* snapshot is older than what the engine stands at, no step goes back.
THEOREM LinkImplementsReplica == Spec => ImplementsReplica
<1>1. Init => Replica!Init
  BY DEF Init, Replica!Init
<1>. QED  BY <1>1, StepRefines, Invariant, PTL DEF Spec, ImplementsReplica, Replica!Spec

\* A running engine's applied version never decreases: only a restart, which
\* starts over at 0, takes it back.
THEOREM EngineNeverRewinds == Spec => NeverRewinds
<1>1. IInv /\ [Next]_vars => [applied' >= applied \/ Restart]_vars
  <2> SUFFICES ASSUME IInv, [Next]_vars
               PROVE  applied' >= applied \/ Restart
    OBVIOUS
  <2>. USE DEF cpVars, stopVars, gateVars, replicaVars, engineVars
  <2>1. applied \in Nat /\ applied' \in Nat
    BY NextTypeOK DEF IInv, TypeOK, Version
  <2>2. CASE ApplyResync
    BY <2>1, <2>2, ResyncStep
  <2>3. CASE ApplyDirective
    <3>1. applied <= applied'
      BY <2>3, DirectiveStep DEF ApplyDirective
    <3>. QED  BY <2>1, <3>1
  <2>4. ASSUME \/ Command \/ Bump \/ ShowStop \/ GraceExpires \/ Connect
               \/ HandshakeFails \/ Leave \/ RefuseResync \/ FailDirective
               \/ TurnAway \/ Pump \/ UNCHANGED vars
               \/ \E c \in Conn : \/ ReceiveAck(c) \/ AnswerRequest(c)
                                  \/ RequestTearsDown(c) \/ Close(c)
        PROVE  applied' = applied
    BY <2>4 DEF Command, Bump, ShowStop, GraceExpires, Connect, HandshakeFails,
         NewConnection, Leave, RefuseResync, FailDirective, TurnAway, Pump, vars,
         ReceiveAck, AnswerRequest, RequestTearsDown, Close
  <2>. QED  BY <2>1, <2>2, <2>3, <2>4 DEF Next
<1>. QED  BY <1>1, Invariant, PTL DEF Spec, NeverRewinds

-----------------------------------------------------------------------------
(* Acknowledgements                                                        *)

\* What a session remembers after a resync: nothing but what it remembered and
\* the current version, and always the current version.
LEMMA RememberElems ==
  ASSUME TypeOK, NEW c \in Conn
  PROVE  /\ Elems(Remember(c, version)) \subseteq Elems(resyncs[c]) \union {version}
         /\ version \in Elems(Remember(c, version))
<1>. DEFINE s == Append(resyncs[c], version)
<1>1. resyncs[c] \in Seq(Version) /\ version \in Version
  BY DEF TypeOK
<1>2. /\ s \in Seq(Version) /\ s # <<>>
      /\ Len(resyncs[c]) \in Nat
      /\ Len(s) = Len(resyncs[c]) + 1
      /\ s[Len(s)] = version
      /\ \A i \in 1..Len(resyncs[c]) : s[i] = resyncs[c][i]
      /\ DOMAIN s = 1..Len(s)
      /\ DOMAIN resyncs[c] = 1..Len(resyncs[c])
  BY <1>1, AppendProperties
<1>. HIDE DEF s
<1>3. Elems(s) \subseteq Elems(resyncs[c]) \union {version}
  BY <1>2 DEF Elems
<1>4. version \in Elems(s)
  BY <1>2 DEF Elems
<1>5. CASE Len(s) > ResyncMemory
  <2>1. Remember(c, version) = Tail(s)
    BY <1>5 DEF Remember, s
  <2>2. /\ Len(Tail(s)) = Len(s) - 1
        /\ DOMAIN Tail(s) = 1..(Len(s) - 1)
        /\ \A i \in 1..(Len(s) - 1) : Tail(s)[i] = s[i + 1]
    <3>1. /\ Tail(s) \in Seq(Version)
          /\ Len(Tail(s)) = Len(s) - 1
          /\ \A i \in 1..Len(Tail(s)) : Tail(s)[i] = s[i + 1]
      BY <1>2, HeadTailProperties
    <3>. QED  BY <3>1
  <2>3. Elems(Tail(s)) \subseteq Elems(s)
    BY <1>2, <2>2 DEF Elems
  <2>4. Len(s) - 1 \in 1..(Len(s) - 1)
    BY <1>2, <1>5, ResyncMemoryType
  <2>5. Tail(s)[Len(s) - 1] = version
    BY <1>2, <2>2, <2>4
  <2>6. version \in Elems(Tail(s))
    BY <2>2, <2>4, <2>5 DEF Elems
  <2>. QED  BY <1>3, <2>1, <2>3, <2>6
<1>6. CASE ~(Len(s) > ResyncMemory)
  BY <1>3, <1>4, <1>6 DEF Remember, s
<1>. QED  BY <1>5, <1>6

\* The resyncs on a record after one more frame.
LEMMA ResyncVersionsAppend ==
  ASSUME NEW c \in Conn, NEW g \in DownFrame, wire[c] \in Seq(DownFrame),
         wire'[c] = Append(wire[c], g)
  PROVE  ResyncVersions(c)' =
           ResyncVersions(c) \union (IF g.kind = "resync" THEN {g.sv} ELSE {})
<1>. DEFINE n == Len(wire[c])
<1>1. /\ n \in Nat
      /\ DOMAIN wire[c] = 1..n
      /\ DOMAIN wire'[c] = 1..(n + 1)
      /\ wire'[c][n + 1] = g
      /\ \A i \in 1..n : wire'[c][i] = wire[c][i]
  BY AppendProperties
<1>. HIDE DEF n
<1>2. \A v : v \in ResyncVersions(c) <=>
               \E i \in 1..n : wire[c][i].kind = "resync" /\ v = wire[c][i].sv
  BY <1>1 DEF ResyncVersions
<1>3. \A v : v \in ResyncVersions(c)' <=>
               \E i \in 1..(n + 1) : wire'[c][i].kind = "resync" /\ v = wire'[c][i].sv
  BY <1>1 DEF ResyncVersions
<1>4. \A v : v \in ResyncVersions(c)' <=>
               \/ \E i \in 1..n : wire'[c][i].kind = "resync" /\ v = wire'[c][i].sv
               \/ g.kind = "resync" /\ v = g.sv
  BY <1>1, <1>3
<1>5. \A v : v \in ResyncVersions(c)' <=>
               v \in ResyncVersions(c) \/ (g.kind = "resync" /\ v = g.sv)
  BY <1>1, <1>2, <1>4
<1>. QED  BY <1>5

\* How a step may treat one session's resyncs: not at all, or by one more.
Resyncs(c) ==
  \/ resyncs'[c] = resyncs[c] /\ ResyncVersions(c)' = ResyncVersions(c)
  \/ /\ resyncs'[c] = Remember(c, version)
     /\ version' = version
     /\ \/ ResyncVersions(c)' = ResyncVersions(c)
        \/ ResyncVersions(c)' = ResyncVersions(c) \union {version}

\* A resync once forgotten stays forgotten, for its version has passed.
LEMMA MemoryKept ==
  ASSUME TypeOK, MemoryInv, version <= version', version' \in Nat,
         \A c \in Conn : Resyncs(c)
  PROVE  /\ MemoryInv'
         /\ \A c \in Conn : ResyncVersions(c) \subseteq ResyncVersions(c)'
         /\ \A c \in Conn : \A v \in ResyncVersions(c) \ Elems(resyncs[c]) :
              v \notin Elems(resyncs'[c])
<1> SUFFICES ASSUME NEW c \in Conn
             PROVE  /\ \A i \in DOMAIN resyncs'[c] : resyncs'[c][i] <= version'
                    /\ \A v \in ResyncVersions(c)' :
                         v \in Elems(resyncs'[c]) \/ v < version'
                    /\ ResyncVersions(c) \subseteq ResyncVersions(c)'
                    /\ \A v \in ResyncVersions(c) \ Elems(resyncs[c]) :
                         v \notin Elems(resyncs'[c])
  BY DEF MemoryInv, Elems
<1>1. /\ version \in Nat
      /\ \A v \in Elems(resyncs[c]) : v \in Nat /\ v <= version
  <2>1. resyncs[c] \in Seq(Version)
    BY DEF TypeOK
  <2>2. \A i \in DOMAIN resyncs[c] : resyncs[c][i] \in Version
    BY <2>1
  <2>3. \A v \in Version : v \in Nat
    BY DEF Version
  <2>4. version \in Nat
    BY <2>3 DEF TypeOK
  <2>. QED  BY <2>2, <2>3, <2>4 DEF MemoryInv, Elems
<1>2. \A v \in ResyncVersions(c) : v \in Elems(resyncs[c]) \/ v < version
  BY DEF MemoryInv
<1>2a. \A v \in ResyncVersions(c) : v \in Nat
  <2>1. wire[c] \in Seq(DownFrame)
    BY DEF TypeOK
  <2>2. \A g \in DownFrame : g.sv \in Nat
    BY DEF DownFrame, Version
  <2>. QED  BY <2>1, <2>2 DEF ResyncVersions
<1>3. CASE resyncs'[c] = resyncs[c] /\ ResyncVersions(c)' = ResyncVersions(c)
  <2>1. \A i \in DOMAIN resyncs'[c] : resyncs'[c][i] <= version'
    BY <1>1, <1>3 DEF Elems
  <2>. QED  BY <1>1, <1>2, <1>2a, <1>3, <2>1
<1>4. CASE /\ resyncs'[c] = Remember(c, version)
           /\ version' = version
           /\ \/ ResyncVersions(c)' = ResyncVersions(c)
              \/ ResyncVersions(c)' = ResyncVersions(c) \union {version}
  <2>1. /\ Elems(resyncs'[c]) \subseteq Elems(resyncs[c]) \union {version}
        /\ version \in Elems(resyncs'[c])
    BY <1>4, RememberElems
  <2>2. \A v \in Elems(resyncs'[c]) : v <= version
    BY <1>1, <2>1
  <2>3. \A i \in DOMAIN resyncs'[c] : resyncs'[c][i] <= version'
    BY <1>4, <2>2 DEF Elems
  <2>4. \A v \in ResyncVersions(c)' : v \in Elems(resyncs'[c]) \/ v < version'
    BY <1>1, <1>2, <1>2a, <1>4, <2>1
  <2>5. \A v \in ResyncVersions(c) \ Elems(resyncs[c]) : v \notin Elems(resyncs'[c])
    BY <1>1, <1>2, <1>2a, <2>1
  <2>. QED  BY <1>4, <2>3, <2>4, <2>5
<1>. QED  BY <1>3, <1>4 DEF Resyncs

AckIInv == AckInv /\ MemoryInv /\ OwnAckOnItsConnection

LEMMA SendResyncs ==
  ASSUME TypeOK, NEW c \in Conn, NEW sent \in BOOLEAN, SendResync(c, sent),
         version' = version
  PROVE  \A x \in Conn : Resyncs(x)
<1>. DEFINE g == Frame(c, "resync", version, sent)
<1>1. g \in DownFrame /\ g.kind = "resync" /\ g.sv = version
  BY FrameType DEF Frame, TypeOK
<1>2. /\ wire' = [wire EXCEPT ![c] = Append(wire[c], g)]
      /\ resyncs' = [resyncs EXCEPT ![c] = Remember(c, version)]
  BY DEF SendResync
<1>. HIDE DEF g
<1>3. /\ wire'[c] = Append(wire[c], g)
      /\ resyncs'[c] = Remember(c, version)
      /\ wire[c] \in Seq(DownFrame)
      /\ \A x \in Conn \ {c} : wire'[x] = wire[x] /\ resyncs'[x] = resyncs[x]
  BY <1>2 DEF TypeOK
<1>4. ResyncVersions(c)' = ResyncVersions(c) \union {version}
  BY <1>1, <1>3, ResyncVersionsAppend
<1>5. \A x \in Conn \ {c} : ResyncVersions(x)' = ResyncVersions(x)
  BY <1>3 DEF ResyncVersions
<1>. QED  BY <1>3, <1>4, <1>5 DEF Resyncs

LEMMA FanOutResyncs ==
  ASSUME TypeOK, NEW sv \in Version, FanOut(sv), UNCHANGED resyncs
  PROVE  \A x \in Conn : Resyncs(x)
<1>1. PICK taken \in SUBSET registered :
        wire' = [c \in Conn |->
                  IF c \in registered
                  THEN Append(wire[c], Frame(c, "directive", sv, c \in taken))
                  ELSE wire[c]]
  BY DEF FanOut
<1> SUFFICES ASSUME NEW x \in Conn PROVE ResyncVersions(x)' = ResyncVersions(x)
  BY DEF Resyncs
<1>2. CASE x \in registered
  <2>1. (x \in taken) \in BOOLEAN
    OBVIOUS
  <2>2. Frame(x, "directive", sv, x \in taken) \in DownFrame
    BY <2>1, FrameType
  <2>3. Frame(x, "directive", sv, x \in taken).kind = "directive"
    BY DEF Frame
  <2>4. wire'[x] = Append(wire[x], Frame(x, "directive", sv, x \in taken))
        /\ wire[x] \in Seq(DownFrame)
    BY <1>1, <1>2 DEF TypeOK
  <2>5. "directive" # "resync"
    OBVIOUS
  <2>. QED  BY <2>2, <2>3, <2>4, <2>5, ResyncVersionsAppend
<1>3. CASE x \notin registered
  <2>1. wire'[x] = wire[x]
    BY <1>1, <1>3
  <2>. QED  BY <2>1 DEF ResyncVersions
<1>. QED  BY <1>2, <1>3

LEMMA SameResyncs ==
  ASSUME UNCHANGED <<wire, resyncs>>
  PROVE  \A x \in Conn : Resyncs(x)
BY DEF Resyncs, ResyncVersions

\* No step rewrites what was sent or what was applied.
LEMMA HistoryGrows ==
  ASSUME IInv, [Next]_vars
  PROVE  /\ \A x \in Conn : Resyncs(x)
         /\ version <= version' /\ direct \subseteq direct'
         /\ conns <= conns' /\ conns \in Nat /\ conns' \in 0..MaxConn
         /\ version' \in Nat
<1>. USE DEF cpVars, stopVars, gateVars, replicaVars, engineVars
<1>a. TypeOK /\ TypeOK'
  BY NextTypeOK DEF IInv
<1>b. /\ version \in Nat /\ conns \in Nat /\ version' \in Nat
      /\ conns' \in 0..MaxConn
  BY <1>a, MaxConnType DEF TypeOK, Version
<1>1. CASE Command \/ ShowStop
  <2>1. /\ FanOut(version + 1) /\ version' = version + 1
        /\ UNCHANGED <<resyncs, direct, conns>>
    BY <1>1 DEF Command, ShowStop
  <2>2. version + 1 \in Version
    BY <1>a, <2>1 DEF TypeOK
  <2>. QED  BY <1>a, <1>b, <2>1, <2>2, FanOutResyncs
<1>2. CASE Bump
  BY <1>2, <1>b, SameResyncs DEF Bump
<1>3. ASSUME NEW c \in Conn, AnswerRequest(c)
      PROVE  \A x \in Conn : Resyncs(x)
  <2>1. CASE c \in registered
    BY <1>a, <1>3, <2>1, SendResyncs DEF AnswerRequest
  <2>2. CASE c \notin registered
    <3>1. /\ resyncs' = [resyncs EXCEPT ![c] = Remember(c, version)]
          /\ UNCHANGED <<wire, version>>
      BY <1>3, <2>2 DEF AnswerRequest
    <3>2. \A x \in Conn : ResyncVersions(x)' = ResyncVersions(x)
      BY <3>1 DEF ResyncVersions
    <3>3. /\ resyncs'[c] = Remember(c, version)
          /\ \A x \in Conn \ {c} : resyncs'[x] = resyncs[x]
      BY <1>a, <3>1 DEF TypeOK
    <3>. QED  BY <3>1, <3>2, <3>3 DEF Resyncs
  <2>. QED  BY <2>1, <2>2
<1>4. CASE \E c \in Conn : AnswerRequest(c)
  <2>1. UNCHANGED <<version, direct, conns>>
    BY <1>4 DEF AnswerRequest
  <2>2. \A x \in Conn : Resyncs(x)
    BY <1>3, <1>4
  <2>. QED  BY <1>b, <2>1, <2>2
<1>5. CASE Connect \/ HandshakeFails
  <2>1. PICK c \in Conn : /\ NewConnection(c)
                          /\ \/ SendResync(c, TRUE)
                             \/ SendResync(c, FALSE)
                             \/ UNCHANGED <<resyncs, wire>>
    BY <1>5 DEF Connect, HandshakeFails
  <2>2. UNCHANGED <<version, direct>> /\ conns' = conns + 1
    BY <2>1 DEF NewConnection
  <2>3. \A x \in Conn : Resyncs(x)
    BY <1>a, <2>1, <2>2, SendResyncs, SameResyncs
  <2>. QED  BY <1>b, <2>2, <2>3
<1>6. CASE ApplyDirective
  BY <1>6, <1>b, SameResyncs DEF ApplyDirective
<1>7. ASSUME \/ GraceExpires \/ Leave \/ Restart \/ ApplyResync \/ RefuseResync
             \/ FailDirective \/ TurnAway \/ Pump \/ UNCHANGED vars
             \/ \E c \in Conn : ReceiveAck(c) \/ RequestTearsDown(c) \/ Close(c)
      PROVE  UNCHANGED <<version, wire, resyncs, direct, conns>>
  BY <1>7 DEF GraceExpires, Leave, Restart, ApplyResync, RefuseResync,
       FailDirective, TurnAway, Pump, vars, ReceiveAck, RequestTearsDown, Close
<1>8. CASE UNCHANGED <<version, wire, resyncs, direct, conns>>
  BY <1>8, <1>b, SameResyncs
<1>. QED
  BY <1>1, <1>2, <1>4, <1>5, <1>6, <1>7, <1>8 DEF Next

\* The acknowledgements of a queue that was extended, joined or cut.
LEMMA AcksOfQueues ==
  ASSUME NEW q \in Seq(UpFrame)
  PROVE  /\ Acks(<<>>) = {}
         /\ \A g \in UpFrame :
              Acks(Append(q, g)) \subseteq
                Acks(q) \union (IF g.kind = "ack" THEN {g.sv} ELSE {})
         /\ \A r \in Seq(UpFrame) : Acks(q \o r) \subseteq Acks(q) \union Acks(r)
         /\ q # <<>> => /\ Acks(Tail(q)) \subseteq Acks(q)
                        /\ Head(q).kind = "ack" => Head(q).sv \in Acks(q)
         /\ \A n \in 0..Len(q) : Acks(SubSeq(q, 1, n)) \subseteq Acks(q)
<1>1. Acks(<<>>) = {}
  BY DEF Acks
<1>2. ASSUME NEW g \in UpFrame
      PROVE  Acks(Append(q, g)) \subseteq
               Acks(q) \union (IF g.kind = "ack" THEN {g.sv} ELSE {})
  BY AppendProperties DEF Acks
<1>3. ASSUME NEW r \in Seq(UpFrame)
      PROVE  Acks(q \o r) \subseteq Acks(q) \union Acks(r)
  <2>1. /\ DOMAIN q = 1..Len(q) /\ DOMAIN r = 1..Len(r)
        /\ Len(q) \in Nat /\ Len(r) \in Nat
        /\ DOMAIN (q \o r) = 1..(Len(q) + Len(r))
        /\ \A i \in 1..(Len(q) + Len(r)) :
             (q \o r)[i] = IF i <= Len(q) THEN q[i] ELSE r[i - Len(q)]
    BY ConcatProperties
  <2>2. ASSUME NEW i \in DOMAIN (q \o r), (q \o r)[i].kind = "ack"
        PROVE  (q \o r)[i].sv \in Acks(q) \union Acks(r)
    <3>1. CASE i <= Len(q)
      <4>1. i \in DOMAIN q /\ (q \o r)[i] = q[i]
        BY <2>1, <3>1
      <4>. QED  BY <2>2, <4>1 DEF Acks
    <3>2. CASE ~(i <= Len(q))
      <4>1. i - Len(q) \in DOMAIN r /\ (q \o r)[i] = r[i - Len(q)]
        BY <2>1, <3>2
      <4>. QED  BY <2>2, <4>1 DEF Acks
    <3>. QED  BY <3>1, <3>2
  <2>. QED  BY <2>2 DEF Acks
<1>4. ASSUME q # <<>>
      PROVE  /\ Acks(Tail(q)) \subseteq Acks(q)
             /\ Head(q).kind = "ack" => Head(q).sv \in Acks(q)
  <2>1. /\ Head(q) = q[1] /\ Len(q) \in Nat
        /\ Len(Tail(q)) = Len(q) - 1
        /\ Tail(q) \in Seq(UpFrame)
        /\ \A i \in 1..Len(Tail(q)) : Tail(q)[i] = q[i + 1]
    BY <1>4, HeadTailProperties
  <2>2. 1 \in DOMAIN q
    BY <1>4, EmptySeq
  <2>3. \A i \in DOMAIN Tail(q) : i + 1 \in DOMAIN q /\ Tail(q)[i] = q[i + 1]
    BY <2>1
  <2>. QED  BY <2>1, <2>2, <2>3 DEF Acks
<1>5. ASSUME NEW n \in 0..Len(q)
      PROVE  Acks(SubSeq(q, 1, n)) \subseteq Acks(q)
  <2>1. \A i \in DOMAIN SubSeq(q, 1, n) :
          i \in DOMAIN q /\ SubSeq(q, 1, n)[i] = q[i]
    OBVIOUS
  <2>. QED  BY <2>1 DEF Acks
<1>. QED  BY <1>1, <1>2, <1>3, <1>4, <1>5

\* What an acknowledgement can stem from only grows, over steps and over
\* connections.
LEMMA SourcesGrow ==
  ASSUME IInv, MemoryInv, [Next]_vars
  PROVE  /\ MemoryInv'
         /\ \A c \in 0..MaxConn : Sources(c) \subseteq Sources(c)'
         /\ Sources(conns) \subseteq Sources(conns)'
         /\ \A c \in Conn : \A v \in ResyncVersions(c) \ Elems(resyncs[c]) :
              v \in ResyncVersions(c)' \ Elems(resyncs'[c])
         /\ \A c \in Conn : ResyncVersions(c) \subseteq ResyncVersions(c)'
<1>1. TypeOK
  BY DEF IInv
<1>2. /\ \A x \in Conn : Resyncs(x)
      /\ version <= version' /\ direct \subseteq direct'
      /\ conns <= conns' /\ conns \in Nat /\ conns' \in 0..MaxConn
      /\ version' \in Nat
  BY HistoryGrows
<1>3. /\ MemoryInv'
      /\ \A c \in Conn : ResyncVersions(c) \subseteq ResyncVersions(c)'
      /\ \A c \in Conn : \A v \in ResyncVersions(c) \ Elems(resyncs[c]) :
           v \notin Elems(resyncs'[c])
  BY <1>1, <1>2, MemoryKept
<1>4. ASSUME NEW c \in 0..MaxConn
      PROVE  Sources(c) \subseteq Sources(c)'
  <2>1. \A b \in 1..c : b \in Conn
    BY MaxConnType DEF Conn
  <2>2. \A b \in 1..c : ResyncVersions(b) \subseteq ResyncVersions(b)'
    BY <1>3, <2>1
  <2>. QED  BY <1>2, <2>2 DEF Sources
<1>5. Sources(conns) \subseteq Sources(conns)'
  <2>1. \A b \in 1..conns : b \in Conn /\ b \in 1..conns'
    BY <1>2, MaxConnType DEF Conn
  <2>2. \A b \in 1..conns : ResyncVersions(b) \subseteq ResyncVersions(b)'
    BY <1>3, <2>1
  <2>3. direct \subseteq direct'
    BY <1>2
  <2>4. ASSUME NEW v \in Sources(conns) PROVE v \in Sources(conns)'
    <3>1. CASE v \in direct
      BY <2>3, <3>1 DEF Sources
    <3>2. CASE \E b \in 1..conns : v \in ResyncVersions(b)
      BY <2>1, <2>2, <3>2 DEF Sources
    <3>. QED  BY <3>1, <3>2 DEF Sources
  <2>. QED  BY <2>4
<1>. QED  BY <1>3, <1>4, <1>5

\* An acknowledgement once justified stays justified.
LEMMA OwnAckKept ==
  ASSUME IInv, AckIInv, [Next]_vars, NEW c \in Conn, NEW v \in acked[c]
  PROVE  \/ v \in direct'
         \/ \E b \in 1..(c - 1) : v \in ResyncVersions(b)'
         \/ v \in ResyncVersions(c)' \ Elems(resyncs'[c])
<1>1. /\ \A x \in Conn : ResyncVersions(x) \subseteq ResyncVersions(x)'
      /\ \A x \in Conn : \A w \in ResyncVersions(x) \ Elems(resyncs[x]) :
           w \in ResyncVersions(x)' \ Elems(resyncs'[x])
  BY SourcesGrow DEF AckIInv
<1>2. direct \subseteq direct'
  BY HistoryGrows
<1>3. \A b \in 1..(c - 1) : b \in Conn
  BY MaxConnType DEF Conn
<1>4. \/ v \in direct
      \/ \E b \in 1..(c - 1) : v \in ResyncVersions(b)
      \/ v \in ResyncVersions(c) \ Elems(resyncs[c])
  BY DEF AckIInv, OwnAckOnItsConnection
<1>. QED  BY <1>1, <1>2, <1>3, <1>4

\* A step that takes no acknowledgement in, and queues none without a source.
LEMMA AcksKept ==
  ASSUME IInv, AckIInv, [Next]_vars, UNCHANGED acked,
         Acks(outgoing') \subseteq Acks(outgoing) \union Sources(conns)',
         \A c \in Conn : Acks(up'[c]) \subseteq Acks(up[c]) \union Sources(c)'
  PROVE  AckIInv'
<1>1. /\ MemoryInv'
      /\ \A c \in 0..MaxConn : Sources(c) \subseteq Sources(c)'
      /\ Sources(conns) \subseteq Sources(conns)'
  BY SourcesGrow DEF AckIInv
<1>2. Conn \subseteq 0..MaxConn
  BY MaxConnType DEF Conn
<1>3. /\ Acks(outgoing) \subseteq Sources(conns)
      /\ \A c \in Conn : Acks(up[c]) \subseteq Sources(c)
  BY DEF AckIInv, AckInv
<1>4. /\ Acks(outgoing)' \subseteq Sources(conns)'
      /\ \A c \in Conn : Acks(up[c])' \subseteq Sources(c)'
  BY <1>1, <1>2, <1>3 DEF Acks
<1>5. AckInv'
  BY <1>4 DEF AckInv
<1>6. OwnAckOnItsConnection'
  BY OwnAckKept DEF OwnAckOnItsConnection
<1>. QED  BY <1>1, <1>5, <1>6 DEF AckIInv

\* Leaving keeps a prefix of what was on its way.
LEMMA AbandonAcks ==
  ASSUME TypeOK, conn # 0, Abandon
  PROVE  \A c \in Conn : Acks(up'[c]) \subseteq Acks(up[c])
<1>1. PICK n \in 0..Len(up[conn]) :
        up' = [up EXCEPT ![conn] = SubSeq(up[conn], 1, n)]
  BY DEF Abandon
<1>2. conn \in Conn /\ up[conn] \in Seq(UpFrame)
  BY MaxConnType DEF TypeOK, Conn
<1>3. /\ up'[conn] = SubSeq(up[conn], 1, n)
      /\ \A c \in Conn \ {conn} : up'[c] = up[c]
  BY <1>1, <1>2 DEF TypeOK
<1>4. Acks(up'[conn]) \subseteq Acks(up[conn])
  BY <1>2, <1>3, AcksOfQueues
<1>. QED  BY <1>3, <1>4

\* The frame at the head of a session's queue is taken off it.
LEMMA TailAcks ==
  ASSUME TypeOK, NEW c \in Conn, up[c] # <<>>, up' = [up EXCEPT ![c] = Tail(up[c])]
  PROVE  \A x \in Conn : Acks(up'[x]) \subseteq Acks(up[x])
<1>1. up[c] \in Seq(UpFrame)
  BY DEF TypeOK
<1>2. /\ up'[c] = Tail(up[c])
      /\ \A x \in Conn \ {c} : up'[x] = up[x]
  BY DEF TypeOK
<1>3. Acks(up'[c]) \subseteq Acks(up[c])
  BY <1>1, <1>2, AcksOfQueues
<1>. QED  BY <1>2, <1>3

\* The control plane takes an acknowledgement for a directive's own only when
\* the session it came on remembers no resync at that version.
LEMMA ReceiveAckStep ==
  ASSUME IInv, AckIInv, NEW c \in Conn, ReceiveAck(c)
  PROVE  AckIInv'
<1>. USE DEF engineVars
<1>a. TypeOK /\ [Next]_vars
  BY DEF IInv, Next
<1>. DEFINE v == Head(up[c]).sv
<1>1. /\ up[c] # <<>> /\ Head(up[c]).kind = "ack"
      /\ up' = [up EXCEPT ![c] = Tail(up[c])]
      /\ UNCHANGED <<wire, resyncs, direct, conns, outgoing>>
      /\ \/ acked' = [acked EXCEPT ![c] = acked[c]]
         \/ OwnAck(c, v) /\ acked' = [acked EXCEPT ![c] = acked[c] \union {v}]
  BY DEF ReceiveAck
<1>2. up[c] \in Seq(UpFrame)
  BY <1>a DEF TypeOK
<1>3. v \in Acks(up[c])
  BY <1>1, <1>2, AcksOfQueues
<1>4. v \in Sources(c)
  BY <1>3 DEF AckIInv, AckInv
<1>. HIDE DEF v
<1>5. /\ \A x \in Conn \ {c} : acked'[x] = acked[x]
      /\ \/ acked'[c] = acked[c]
         \/ OwnAck(c, v) /\ acked'[c] = acked[c] \union {v}
  BY <1>1, <1>a DEF TypeOK
<1>6. OwnAck(c, v) => \/ v \in direct
                      \/ \E b \in 1..(c - 1) : v \in ResyncVersions(b)
                      \/ v \in ResyncVersions(c) \ Elems(resyncs[c])
  <2>1. CASE v \in direct
    BY <2>1
  <2>2. ASSUME NEW b \in 1..c, v \in ResyncVersions(b), OwnAck(c, v)
        PROVE  \/ \E x \in 1..(c - 1) : v \in ResyncVersions(x)
               \/ v \in ResyncVersions(c) \ Elems(resyncs[c])
    <3>1. b = c \/ b \in 1..(c - 1)
      BY DEF Conn
    <3>. QED  BY <2>2, <3>1 DEF OwnAck
  <2>. QED  BY <1>4, <2>1, <2>2 DEF Sources
<1>7. \A x \in Conn : ResyncVersions(x)' = ResyncVersions(x)
  BY <1>1 DEF ResyncVersions
<1>8. OwnAckOnItsConnection'
  <2> SUFFICES ASSUME NEW x \in Conn, NEW w \in acked'[x]
               PROVE  \/ w \in direct'
                      \/ \E b \in 1..(x - 1) : w \in ResyncVersions(b)'
                      \/ w \in ResyncVersions(x)' \ Elems(resyncs'[x])
    BY DEF OwnAckOnItsConnection
  <2>1. CASE w \in acked[x]
    BY <1>a, <2>1, OwnAckKept
  <2>2. CASE w \notin acked[x]
    <3>1. x = c /\ w = v /\ OwnAck(c, v)
      BY <1>5, <2>2
    <3>2. \A b \in 1..(c - 1) : b \in Conn
      BY MaxConnType DEF Conn
    <3>. QED  BY <1>1, <1>6, <1>7, <3>1, <3>2
  <2>. QED  BY <2>1, <2>2
<1>9. MemoryInv'
  BY <1>a, SourcesGrow DEF AckIInv
<1>10. AckInv'
  <2>1. \A x \in Conn : Acks(up'[x]) \subseteq Acks(up[x])
    BY <1>a, <1>1, TailAcks
  <2>2. /\ Sources(conns) \subseteq Sources(conns)'
        /\ \A x \in 0..MaxConn : Sources(x) \subseteq Sources(x)'
    BY <1>a, SourcesGrow DEF AckIInv
  <2>3. Conn \subseteq 0..MaxConn
    BY MaxConnType DEF Conn
  <2>4. /\ Acks(outgoing) \subseteq Sources(conns)
        /\ \A x \in Conn : Acks(up[x]) \subseteq Sources(x)
    BY DEF AckIInv, AckInv
  <2>5. /\ Acks(outgoing)' \subseteq Sources(conns)'
        /\ \A x \in Conn : Acks(up[x])' \subseteq Sources(x)'
    BY <1>1, <2>1, <2>2, <2>3, <2>4 DEF Acks
  <2>. QED  BY <2>5 DEF AckInv
<1>. QED  BY <1>8, <1>9, <1>10 DEF AckIInv

\* The acknowledgement of a frame just read has that frame as its source.
LEMMA ReadAcks ==
  ASSUME IInv, [Next]_vars, NEW i \in Nat, Arrives(i),
         outgoing' = Append(outgoing, Ack(wire[conn][i].sv)),
         UNCHANGED <<wire, conns>>,
         wire[conn][i].kind = "resync" \/ wire[conn][i].sv \in direct'
  PROVE  Acks(outgoing') \subseteq Acks(outgoing) \union Sources(conns)'
<1>1. TypeOK /\ WireInv /\ GateInv
  BY DEF IInv
<1>2. /\ conn # 0 /\ conn \in Conn /\ i \in 1..Len(wire[conn])
      /\ wire[conn][i] \in DownFrame
  BY <1>1, Arriving
<1>3. /\ i \in DOMAIN wire[conn]
      /\ conn = conns
      /\ conns \in 1..conns
  BY <1>1, <1>2, MaxConnType DEF TypeOK, WireInv, ConnInv, Conn
<1>4. wire[conn][i].sv \in Sources(conns)'
  <2>1. CASE wire[conn][i].kind = "resync"
    <3>1. wire[conn][i].sv \in ResyncVersions(conns)
      BY <1>3, <2>1 DEF ResyncVersions
    <3>2. ResyncVersions(conns)' = ResyncVersions(conns)
      BY DEF ResyncVersions
    <3>3. \E b \in 1..conns' : wire[conn][i].sv \in ResyncVersions(b)'
      BY <1>3, <3>1, <3>2
    <3>. QED  BY <3>3 DEF Sources
  <2>2. CASE wire[conn][i].sv \in direct'
    BY <2>2 DEF Sources
  <2>. QED  BY <2>1, <2>2
<1>5. /\ outgoing \in Seq(UpFrame)
      /\ Ack(wire[conn][i].sv) \in UpFrame
      /\ Ack(wire[conn][i].sv).sv = wire[conn][i].sv
      /\ Ack(wire[conn][i].sv).kind = "ack"
  BY <1>1, <1>2 DEF TypeOK, Ack, UpFrame, DownFrame
<1>6. Acks(outgoing') \subseteq Acks(outgoing) \union {wire[conn][i].sv}
  BY <1>5, AcksOfQueues
<1>. QED  BY <1>4, <1>6

LEMMA NextAckIInv == IInv /\ AckIInv /\ [Next]_vars => AckIInv'
<1> SUFFICES ASSUME IInv, AckIInv, [Next]_vars PROVE AckIInv'
  OBVIOUS
<1>. USE DEF cpVars, stopVars, gateVars, replicaVars, engineVars
<1>a. TypeOK
  BY DEF IInv
<1>b. outgoing \in Seq(UpFrame) /\ \A c \in Conn : up[c] \in Seq(UpFrame)
  BY <1>a DEF TypeOK
<1>c. Acks(<<>>) = {}
  BY <1>b, AcksOfQueues
<1>1. ASSUME Command \/ Bump \/ ShowStop \/ GraceExpires \/ Connect
             \/ HandshakeFails \/ FailDirective \/ UNCHANGED vars
      PROVE  UNCHANGED <<acked, up, outgoing>>
  BY <1>1 DEF Command, Bump, ShowStop, GraceExpires, Connect, HandshakeFails,
       NewConnection, FailDirective, vars
<1>2. CASE UNCHANGED <<acked, up, outgoing>>
  BY <1>2, AcksKept
<1>3. ASSUME NEW c \in Conn, ReceiveAck(c) PROVE AckIInv'
  BY <1>3, ReceiveAckStep
<1>4. ASSUME NEW c \in Conn, AnswerRequest(c) \/ RequestTearsDown(c)
      PROVE  AckIInv'
  <2>1. /\ up[c] # <<>> /\ up' = [up EXCEPT ![c] = Tail(up[c])]
        /\ UNCHANGED <<acked, outgoing>>
    BY <1>4 DEF AnswerRequest, RequestTearsDown
  <2>2. \A x \in Conn : Acks(up'[x]) \subseteq Acks(up[x])
    BY <1>a, <2>1, TailAcks
  <2>. QED  BY <2>1, <2>2, AcksKept
<1>5. ASSUME NEW c \in Conn, Close(c) PROVE AckIInv'
  <2>1. up' = [up EXCEPT ![c] = <<>>] /\ UNCHANGED <<acked, outgoing>>
    BY <1>5 DEF Close
  <2>2. up'[c] = <<>> /\ \A x \in Conn \ {c} : up'[x] = up[x]
    BY <1>a, <2>1 DEF TypeOK
  <2>3. \A x \in Conn : Acks(up'[x]) \subseteq Acks(up[x])
    BY <1>c, <2>2
  <2>. QED  BY <2>1, <2>3, AcksKept
<1>6. CASE Leave \/ RefuseResync \/ Restart
  <2>1. /\ conn # 0 /\ Abandon /\ UNCHANGED acked
        /\ UNCHANGED outgoing \/ outgoing' = <<>>
    BY <1>6 DEF Leave, RefuseResync, Restart, Arrives
  <2>2. \A x \in Conn : Acks(up'[x]) \subseteq Acks(up[x])
    BY <1>a, <2>1, AbandonAcks
  <2>3. Acks(outgoing') \subseteq Acks(outgoing)
    BY <1>c, <2>1
  <2>. QED  BY <2>1, <2>2, <2>3, AcksKept
<1>7. CASE ApplyResync \/ ApplyDirective
  <2>1. PICK i \in 1..(IF conn = 0 THEN 0 ELSE Len(wire[conn])) :
          /\ Arrives(i)
          /\ outgoing' = Append(outgoing, Ack(wire[conn][i].sv))
          /\ wire[conn][i].kind = "resync" \/ wire[conn][i].sv \in direct'
          /\ UNCHANGED <<wire, conns, acked, up>>
    BY <1>7 DEF ApplyResync, ApplyDirective
  <2>2. Acks(outgoing') \subseteq Acks(outgoing) \union Sources(conns)'
    BY <2>1, ReadAcks
  <2>. QED  BY <2>1, <2>2, AcksKept
<1>8. CASE TurnAway
  <2>1. /\ UNCHANGED <<acked, up>>
        /\ outgoing' \in {outgoing, Append(outgoing, ResyncRequest)}
    BY <1>8 DEF TurnAway
  <2>2. ResyncRequest \in UpFrame /\ ResyncRequest.kind = "resyncRequest"
    BY MaxVersionType DEF ResyncRequest, UpFrame, Version
  <2>3. Acks(outgoing') \subseteq Acks(outgoing)
    BY <1>b, <2>1, <2>2, AcksOfQueues
  <2>. QED  BY <2>1, <2>3, AcksKept
<1>9. CASE Pump
  <2>1. /\ conn # 0 /\ outgoing' = <<>> /\ UNCHANGED <<acked, wire, conns, direct>>
        /\ up' = up \/ up' = [up EXCEPT ![conn] = up[conn] \o outgoing]
    BY <1>9 DEF Pump
  <2>2. conn \in Conn /\ conn = conns
    BY <1>a, <2>1, MaxConnType DEF TypeOK, Conn, IInv, WireInv, ConnInv
  <2>3. /\ up'[conn] = up[conn] \/ up'[conn] = up[conn] \o outgoing
        /\ \A x \in Conn \ {conn} : up'[x] = up[x]
    BY <1>a, <2>1, <2>2 DEF TypeOK
  <2>4. Acks(up'[conn]) \subseteq Acks(up[conn]) \union Acks(outgoing)
    BY <1>b, <2>2, <2>3, AcksOfQueues
  <2>5. Acks(outgoing) \subseteq Sources(conns)'
    BY SourcesGrow DEF AckIInv, AckInv
  <2>6. \A x \in Conn : Acks(up'[x]) \subseteq Acks(up[x]) \union Sources(x)'
    <3>1. ASSUME NEW x \in Conn
          PROVE  Acks(up'[x]) \subseteq Acks(up[x]) \union Sources(x)'
      <4>1. CASE x = conn
        <5>1. Sources(x)' = Sources(conns)'
          BY <2>1, <2>2, <4>1 DEF Sources, ResyncVersions
        <5>. QED  BY <2>4, <2>5, <4>1, <5>1
      <4>2. CASE x # conn
        BY <2>3, <4>2
      <4>. QED  BY <4>1, <4>2
    <3>. QED  BY <3>1
  <2>7. Acks(outgoing') \subseteq Acks(outgoing)
    BY <1>c, <2>1
  <2>. QED  BY <2>1, <2>6, <2>7, AcksKept
<1>. QED
  BY <1>1, <1>2, <1>3, <1>4, <1>5, <1>6, <1>7, <1>8, <1>9 DEF Next

LEMMA InitAckIInv == Init => AckIInv
<1> SUFFICES ASSUME Init PROVE AckIInv
  OBVIOUS
<1>1. /\ outgoing = <<>> /\ up = [c \in Conn |-> <<>>]
      /\ wire = [c \in Conn |-> <<>>] /\ resyncs = [c \in Conn |-> <<>>]
      /\ acked = [c \in Conn |-> {}]
  BY DEF Init
<1>2. AckInv
  BY <1>1 DEF AckInv, Acks
<1>3. MemoryInv
  BY <1>1 DEF MemoryInv, ResyncVersions
<1>4. OwnAckOnItsConnection
  BY <1>1 DEF OwnAckOnItsConnection
<1>. QED  BY <1>2, <1>3, <1>4 DEF AckIInv

\* An acknowledgement the control plane takes for a directive's own is one,
\* but for the resyncs of earlier connections and those a session forgot.
THEOREM OwnAckIsOnItsConnection == Spec => []OwnAckOnItsConnection
<1>1. AckIInv => OwnAckOnItsConnection
  BY DEF AckIInv
<1>. QED
  BY <1>1, InitAckIInv, NextAckIInv, Invariant, PTL DEF Spec

=============================================================================
