----------------------------- MODULE RenderLink -----------------------------
(***************************************************************************)
(* The render channel (docs/spec.v0.4.md section 5.9): one control plane   *)
(* sends directives to one engine over a WebSocket that may refuse frames  *)
(* (backpressure), break, and be replaced; the engine keeps continuity     *)
(* with a per-connection sequence number and is repaired by a full         *)
(* snapshot (show.resync).  Acknowledgements travel the other way, and     *)
(* show.stop waits for its own.                                            *)
(*                                                                         *)
(* The control plane's state is abstracted to the set of versions whose    *)
(* command emitted a directive; what the engine has of it is a subset of   *)
(* those versions.                                                         *)
(***************************************************************************)
EXTENDS Naturals, Sequences

CONSTANTS
  MaxVersion,    \* bound on state.stateVersion
  MaxConn,       \* bound on the number of connections the engine makes
  ResyncMemory   \* how many resync versions a session remembers (16)

ASSUME MaxVersionType == MaxVersion \in Nat
ASSUME MaxConnType == MaxConn \in Nat
ASSUME ResyncMemoryType == ResyncMemory \in Nat \ {0}

Conn == 1..MaxConn

VARIABLES
  (* the control plane *)
  version,      \* state.stateVersion
  issued,       \* the versions whose command emitted a directive
  registered,   \* the sessions WsRenderBridge fans out to
  open,         \* the sockets whose close event has not been heard
  resyncs,      \* per session: versions of the resyncs sent, capped
  lastApplied,  \* per session: newest acknowledged version, 0 for none
  acked,        \* per session: versions taken as a directive's own ack
  waiting,      \* show.stop versions inside their grace window
  graceful,     \* show.stop versions whose wait resolved true
  held,         \* show.stop versions whose wait resolved false
  (* the connections *)
  wire,         \* per connection: every frame sent down, refused ones too
  up,           \* per connection: frames on their way to the control plane
  (* the engine *)
  conns,        \* connections made so far
  conn,         \* the connection run() reads from, 0 for none
  pos,          \* frames of wire[conn] already read or lost
  resynced,     \* ConnectionGate.resynced
  expectedSeq,  \* ConnectionGate.expected_seq, 0 for None
  applied,      \* EngineState.last_applied_state_version
  has,          \* the issued versions whose effect the engine's state holds
  failed,       \* directives that passed the gate and failed to apply
  direct,       \* history: versions applied from their own directive
  outgoing      \* OutgoingQueue: survives a reconnect

cpVars == <<version, issued, registered, open, resyncs, lastApplied, acked,
            waiting, graceful, held>>
stopVars == <<waiting, graceful, held>>
gateVars == <<conn, pos, resynced, expectedSeq>>
replicaVars == <<applied, has, failed, direct>>
engineVars == <<conns, conn, pos, resynced, expectedSeq, applied, has, failed,
                direct, outgoing>>
vars == <<version, issued, registered, open, resyncs, lastApplied, acked,
          waiting, graceful, held, wire, up, conns, conn, pos, resynced,
          expectedSeq, applied, has, failed, direct, outgoing>>

Version == 0..MaxVersion

DownFrame == [kind : {"resync", "directive"}, seq : Nat, sv : Version,
              sent : BOOLEAN]
UpFrame == [kind : {"ack", "resyncRequest"}, sv : Version]

Ack(v) == [kind |-> "ack", sv |-> v]
ResyncRequest == [kind |-> "resyncRequest", sv |-> 0]

Elems(s) == {s[i] : i \in DOMAIN s}

TypeOK ==
  /\ version \in Version
  /\ issued \subseteq Version
  /\ registered \subseteq open
  /\ open \subseteq Conn
  /\ resyncs \in [Conn -> Seq(Version)]
  /\ lastApplied \in [Conn -> Version]
  /\ acked \in [Conn -> SUBSET Version]
  /\ waiting \subseteq Version
  /\ graceful \subseteq Version
  /\ held \subseteq Version
  /\ wire \in [Conn -> Seq(DownFrame)]
  /\ up \in [Conn -> Seq(UpFrame)]
  /\ conns \in 0..MaxConn
  /\ conn \in 0..conns
  /\ pos \in Nat
  /\ resynced \in BOOLEAN
  /\ expectedSeq \in Nat
  /\ applied \in Version
  /\ has \subseteq Version
  /\ failed \subseteq Version
  /\ direct \subseteq Version
  /\ outgoing \in Seq(UpFrame)

Init ==
  /\ version = 0
  /\ issued = {}
  /\ registered = {}
  /\ open = {}
  /\ resyncs = [c \in Conn |-> <<>>]
  /\ lastApplied = [c \in Conn |-> 0]
  /\ acked = [c \in Conn |-> {}]
  /\ waiting = {}
  /\ graceful = {}
  /\ held = {}
  /\ wire = [c \in Conn |-> <<>>]
  /\ up = [c \in Conn |-> <<>>]
  /\ conns = 0
  /\ conn = 0
  /\ pos = 0
  /\ resynced = FALSE
  /\ expectedSeq = 0
  /\ applied = 0
  /\ has = {}
  /\ failed = {}
  /\ direct = {}
  /\ outgoing = <<>>

-----------------------------------------------------------------------------
(* The control plane: sending                                              *)

\* Mutant: the sequence is consumed only by a frame the socket took.
NextSeqOfTaken(c) == Len(SelectSeq(wire[c], LAMBDA f : f.sent))

\* Every send consumes the session's seq, a refused one too, so a refused
\* frame is a gap the engine can see.
NextSeq(c) == Len(wire[c])

Frame(c, kind, sv, sent) ==
  [kind |-> kind, seq |-> NextSeq(c), sv |-> sv, sent |-> sent]

\* WsRenderBridge.send: one frame per registered session; each socket takes
\* or refuses its own.
FanOut(sv) ==
  \E taken \in SUBSET registered :
    wire' = [c \in Conn |->
              IF c \in registered
              THEN Append(wire[c], Frame(c, "directive", sv, c \in taken))
              ELSE wire[c]]

\* sendResync notes the version before it sends, and keeps the last
\* ResyncMemory of them.
Remember(c, v) ==
  LET longer == Append(resyncs[c], v)
  IN IF Len(longer) > ResyncMemory THEN Tail(longer) ELSE longer

SendResync(c, sent) ==
  /\ resyncs' = [resyncs EXCEPT ![c] = Remember(c, version)]
  /\ wire' = [wire EXCEPT ![c] = Append(@, Frame(c, "resync", version, sent))]

\* An accepted command: one bump, at most one directive at that version.
Command ==
  /\ version < MaxVersion
  /\ version' = version + 1
  /\ issued' = issued \union {version + 1}
  /\ FanOut(version + 1)
  /\ UNCHANGED <<registered, open, resyncs, lastApplied, acked, stopVars, up,
                 engineVars>>

\* A change that bumps the version and sends nothing: an itemEvent, or a
\* command the engine has no part in.
Bump ==
  /\ version < MaxVersion
  /\ version' = version + 1
  /\ UNCHANGED <<issued, registered, open, resyncs, lastApplied, acked,
                 stopVars, wire, up, engineVars>>

\* show.stop with an active output: the directive goes out, then the command
\* waits for the acknowledgement of exactly that version (waitForGrace).
ShowStop ==
  /\ version < MaxVersion
  /\ LET v == version + 1
         already == \E c \in registered : v \in acked[c]
     IN /\ version' = v
        /\ issued' = issued \union {v}
        /\ FanOut(v)
        /\ waiting' = IF registered # {} /\ ~already
                      THEN waiting \union {v} ELSE waiting
        /\ graceful' = IF already THEN graceful \union {v} ELSE graceful
        /\ held' = IF registered = {} THEN held \union {v} ELSE held
  /\ UNCHANGED <<registered, open, resyncs, lastApplied, acked, up, engineVars>>

\* The grace window ends without the acknowledgement.
GraceExpires ==
  \E v \in waiting :
    /\ waiting' = waiting \ {v}
    /\ held' = held \union {v}
    /\ UNCHANGED <<version, issued, registered, open, resyncs, lastApplied,
                   acked, graceful, wire, up, engineVars>>

-----------------------------------------------------------------------------
(* The control plane: receiving                                            *)

\* Mutant: every acknowledgement is taken for a directive's own.
AnyAckIsOwn(c, v) == TRUE

\* noteApplied: an acknowledgement at or below the session's newest is
\* ignored; one for a version this session sent a resync at is the resync's.
OwnAck(c, v) == v \notin Elems(resyncs[c])

ReceiveAck(c) ==
  /\ c \in open
  /\ up[c] # <<>>
  /\ Head(up[c]).kind = "ack"
  /\ up' = [up EXCEPT ![c] = Tail(@)]
  /\ LET v == Head(up[c]).sv
         own == v > lastApplied[c] /\ OwnAck(c, v)
         met == own /\ v \in waiting
     IN /\ lastApplied' = [lastApplied EXCEPT ![c] = IF v > @ THEN v ELSE @]
        /\ acked' = [acked EXCEPT ![c] = IF own THEN @ \union {v} ELSE @]
        /\ waiting' = IF met THEN waiting \ {v} ELSE waiting
        /\ graceful' = IF met THEN graceful \union {v} ELSE graceful
  /\ UNCHANGED <<version, issued, registered, open, resyncs, held, wire,
                 engineVars>>

\* resyncOnRequest: the snapshot is sent, or the socket refuses it (the
\* session is kept), or the session was torn down and nothing is sent.
AnswerRequest(c) ==
  /\ c \in open
  /\ up[c] # <<>>
  /\ Head(up[c]).kind = "resyncRequest"
  /\ up' = [up EXCEPT ![c] = Tail(@)]
  /\ IF c \in registered
     THEN \E sent \in BOOLEAN : SendResync(c, sent)
     ELSE /\ resyncs' = [resyncs EXCEPT ![c] = Remember(c, version)]
          /\ UNCHANGED wire
  /\ UNCHANGED <<version, issued, registered, open, lastApplied, acked,
                 stopVars, engineVars>>

\* resyncOnRequest, the snapshot cannot be built: the registration goes
\* first, the socket closes after.
RequestTearsDown(c) ==
  /\ c \in registered
  /\ up[c] # <<>>
  /\ Head(up[c]).kind = "resyncRequest"
  /\ up' = [up EXCEPT ![c] = Tail(@)]
  /\ registered' = registered \ {c}
  /\ UNCHANGED <<version, issued, open, resyncs, lastApplied, acked, stopVars,
                 wire, engineVars>>

\* forget, on the socket's close or error event: whatever was still on its
\* way up is gone.
Close(c) ==
  /\ c \in open
  /\ open' = open \ {c}
  /\ registered' = registered \ {c}
  /\ up' = [up EXCEPT ![c] = <<>>]
  /\ UNCHANGED <<version, issued, resyncs, lastApplied, acked, stopVars, wire,
                 engineVars>>

-----------------------------------------------------------------------------
(* The engine: connecting and leaving                                      *)

\* run() starts on a fresh connection: a fresh gate, while the applied state
\* and the outgoing queue are the ones the last connection left.
NewConnection(c) ==
  /\ conn = 0
  /\ conns < MaxConn
  /\ c = conns + 1
  /\ conns' = c
  /\ conn' = c
  /\ pos' = 0
  /\ resynced' = FALSE
  /\ expectedSeq' = 0
  /\ open' = open \union {c}
  /\ UNCHANGED <<version, issued, lastApplied, acked, stopVars, up,
                 replicaVars, outgoing>>

\* The handshake: the session registers and its first frame is a resync.
Connect ==
  \E c \in Conn :
    /\ NewConnection(c)
    /\ SendResync(c, TRUE)
    /\ registered' = registered \union {c}

\* Mutant: a failed handshake leaves the session registered.
HandshakeFailsRegistered ==
  \E c \in Conn :
    /\ NewConnection(c)
    /\ registered' = registered \union {c}
    /\ \/ UNCHANGED <<resyncs, wire>>
       \/ SendResync(c, FALSE)

\* The handshake fails (the snapshot cannot be built, or the socket refuses
\* it): the registration is released, and the socket is on its way out.
HandshakeFails ==
  \E c \in Conn :
    /\ NewConnection(c)
    /\ UNCHANGED registered
    /\ \/ UNCHANGED <<resyncs, wire>>
       \/ SendResync(c, FALSE)

\* run() returns and AbortOnDrop kills the pump and the sender: of the frames
\* handed to them, only some prefix reached the socket.
Abandon ==
  /\ conn' = 0
  /\ resynced' = FALSE
  /\ expectedSeq' = 0
  /\ pos' = 0
  /\ \E n \in 0..Len(up[conn]) :
       up' = [up EXCEPT ![conn] = SubSeq(@, 1, n)]

Leave ==
  /\ conn # 0
  /\ Abandon
  /\ UNCHANGED <<cpVars, wire, conns, replicaVars, outgoing>>

\* The engine process dies and comes back: nothing it held survives.  (A
\* death between two connections is one on leaving the first.)
Restart ==
  /\ conn # 0
  /\ Abandon
  /\ applied' = 0
  /\ has' = {}
  /\ failed' = {}
  /\ outgoing' = <<>>
  /\ UNCHANGED <<cpVars, wire, conns, direct>>

-----------------------------------------------------------------------------
(* The engine: reading directives                                          *)

\* The next frame the socket delivers is the first one after pos that the
\* control plane's socket took.
Arrives(i) ==
  /\ conn # 0
  /\ i \in (pos + 1)..Len(wire[conn])
  /\ wire[conn][i].sent
  /\ \A j \in (pos + 1)..(i - 1) : ~wire[conn][j].sent

\* Mutant: the gate accepts whatever is newer than what is applied.
ClassifyWithoutSeq(f) ==
  IF ~resynced THEN "WaitForResync"
  ELSE IF f.sv <= applied THEN "StaleStateVersion"
  ELSE "Accept"

\* ConnectionGate::classify
Classify(f) ==
  IF ~resynced THEN "WaitForResync"
  ELSE IF f.sv <= applied THEN "StaleStateVersion"
  ELSE IF f.seq # expectedSeq THEN "SeqGap"
  ELSE "Accept"

\* A resync is applied ahead of the gate; only then is the gate reset.
ApplyResync ==
  \E i \in 1..(IF conn = 0 THEN 0 ELSE Len(wire[conn])) :
    /\ Arrives(i)
    /\ LET f == wire[conn][i]
       IN /\ f.kind = "resync"
          /\ pos' = i
          /\ resynced' = TRUE
          /\ expectedSeq' = f.seq + 1
          /\ applied' = f.sv
          /\ has' = issued \intersect (1..f.sv)
          /\ failed' = {}
          /\ outgoing' = Append(outgoing, Ack(f.sv))
    /\ UNCHANGED <<cpVars, wire, up, conns, conn, direct>>

\* A resync that is refused ends the connection, and nothing moves.
RefuseResync ==
  \E i \in 1..(IF conn = 0 THEN 0 ELSE Len(wire[conn])) :
    /\ Arrives(i)
    /\ wire[conn][i].kind = "resync"
    /\ Abandon
    /\ UNCHANGED <<cpVars, wire, conns, replicaVars, outgoing>>

\* A directive the gate accepts and the handler applies: acknowledged.
ApplyDirective ==
  \E i \in 1..(IF conn = 0 THEN 0 ELSE Len(wire[conn])) :
    /\ Arrives(i)
    /\ LET f == wire[conn][i]
       IN /\ f.kind = "directive"
          /\ Classify(f) = "Accept"
          /\ pos' = i
          /\ expectedSeq' = expectedSeq + 1
          /\ applied' = f.sv
          /\ has' = has \union {f.sv}
          /\ direct' = direct \union {f.sv}
          /\ outgoing' = Append(outgoing, Ack(f.sv))
    /\ UNCHANGED <<cpVars, wire, up, conns, conn, resynced, failed>>

\* A directive the gate accepts and the handler refuses: the sequence moves
\* on, the applied version does not, and there is no acknowledgement.
FailDirective ==
  \E i \in 1..(IF conn = 0 THEN 0 ELSE Len(wire[conn])) :
    /\ Arrives(i)
    /\ LET f == wire[conn][i]
       IN /\ f.kind = "directive"
          /\ Classify(f) = "Accept"
          /\ pos' = i
          /\ expectedSeq' = expectedSeq + 1
          /\ failed' = failed \union {f.sv}
    /\ UNCHANGED <<cpVars, wire, up, conns, conn, resynced, applied, has,
                   direct, outgoing>>

\* Mutant: a gap is dropped without asking for a resync.
TurnAwaySilently ==
  \E i \in 1..(IF conn = 0 THEN 0 ELSE Len(wire[conn])) :
    /\ Arrives(i)
    /\ wire[conn][i].kind = "directive"
    /\ Classify(wire[conn][i]) # "Accept"
    /\ pos' = i
    /\ UNCHANGED <<cpVars, wire, up, conns, conn, resynced, expectedSeq,
                   replicaVars, outgoing>>

\* A directive the gate turns away; a sequence gap asks for a resync.
TurnAway ==
  \E i \in 1..(IF conn = 0 THEN 0 ELSE Len(wire[conn])) :
    /\ Arrives(i)
    /\ LET f == wire[conn][i]
       IN /\ f.kind = "directive"
          /\ Classify(f) # "Accept"
          /\ pos' = i
          /\ outgoing' = IF Classify(f) = "SeqGap"
                         THEN Append(outgoing, ResyncRequest) ELSE outgoing
    /\ UNCHANGED <<cpVars, wire, up, conns, conn, resynced, expectedSeq,
                   replicaVars>>

\* The pump drains the queue into the connection's send path.
Pump ==
  /\ conn # 0
  /\ outgoing # <<>>
  /\ up' = IF conn \in open
           THEN [up EXCEPT ![conn] = @ \o outgoing] ELSE up
  /\ outgoing' = <<>>
  /\ UNCHANGED <<cpVars, wire, conns, gateVars, replicaVars>>

-----------------------------------------------------------------------------
Receive(c) == ReceiveAck(c) \/ AnswerRequest(c) \/ RequestTearsDown(c)

Read == ApplyResync \/ RefuseResync \/ ApplyDirective \/ FailDirective
        \/ TurnAway

Next ==
  \/ Command
  \/ Bump
  \/ ShowStop
  \/ GraceExpires
  \/ \E c \in Conn : ReceiveAck(c)
  \/ \E c \in Conn : AnswerRequest(c)
  \/ \E c \in Conn : RequestTearsDown(c)
  \/ \E c \in Conn : Close(c)
  \/ Connect
  \/ HandshakeFails
  \/ Leave
  \/ Restart
  \/ ApplyResync
  \/ RefuseResync
  \/ ApplyDirective
  \/ FailDirective
  \/ TurnAway
  \/ Pump

Spec == Init /\ [][Next]_vars

\* Each task keeps running: the engine's reader, its pump and its reconnect
\* loop, and the control plane's message and close events.  Nothing is assumed
\* of commands, of what a socket takes, or of when a connection breaks.
FairSpec ==
  /\ Spec
  /\ WF_vars(Read)
  /\ WF_vars(Pump)
  /\ WF_vars(Leave /\ conn \notin open)
  /\ WF_vars(Connect \/ HandshakeFails)
  /\ \A c \in Conn : WF_vars(Receive(c)) /\ WF_vars(Close(c) /\ conn # c)

-----------------------------------------------------------------------------
(* What the link promises                                                  *)

\* The engine is never missing a command it should have: what it holds is
\* exactly what was issued up to its applied version, less the directives it
\* reported as failed.  Refused, lost and late frames leave no silent hole.
ReplicaExact ==
  has = (issued \intersect (1..applied)) \ failed

\* Nothing that reaches the gate is turned away as stale or as too early: the
\* first frame of every connection is a resync, and every later directive is
\* newer than what is applied.  (A directive lost to the stale gate is not
\* restored by a resync when it drives an output, section 5.9.6 rule 2.)
NothingTurnedAwayUnread ==
  conn # 0 =>
    \A i \in (pos + 1)..Len(wire[conn]) :
      LET f == wire[conn][i]
      IN f.sent =>
           /\ f.kind = "directive" /\ resynced => f.sv > applied
           /\ ~resynced => \E j \in 1..i : wire[conn][j].kind = "resync"
                                         /\ wire[conn][j].sent

\* An acknowledgement the control plane takes for a directive's own is one,
\* unless it was carried over from an earlier connection's resync or the
\* session has already forgotten the resync it belongs to.
ResyncVersions(c) ==
  {wire[c][i].sv : i \in {j \in DOMAIN wire[c] : wire[c][j].kind = "resync"}}

OwnAckOnItsConnection ==
  \A c \in Conn : \A v \in acked[c] :
    \/ v \in direct
    \/ \E b \in 1..(c - 1) : v \in ResyncVersions(b)
    \/ v \in ResyncVersions(c) \ Elems(resyncs[c])

\* SPEC 5.9.5 item 3: a stop counted as graceful is one the engine applied.
StopAckExact == graceful \subseteq direct

\* The reconnect invariant (SPEC 5.9.6): a running engine never goes back, not
\* for a late frame, an old snapshot or a new connection; only a restart does.
NeverRewinds == [][applied' >= applied \/ Restart]_vars

\* The whole channel, over every refusal, loss, reconnect and restart,
\* implements the versioned replica.
Replica == INSTANCE VersionedReplica
             WITH version <- version, issued <- issued, applied <- applied,
                  has <- has, failed <- failed

ImplementsReplica == Replica!Spec

\* Gap detection is enough to converge: as long as the session stands and the
\* newest frame it sent was taken by the socket, the engine comes to hold every
\* command, whatever was refused before that frame.
LastFrameLanded ==
  /\ conn \in registered
  /\ wire[conn] # <<>>
  /\ wire[conn][Len(wire[conn])].sent

InSync == has = issued \ failed

Converges == LastFrameLanded ~> (InSync \/ ~LastFrameLanded)
=============================================================================
