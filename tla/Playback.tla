----------------------------- MODULE Playback -----------------------------
(***************************************************************************)
(* What the audience sees, and when a timed item ends: the rundown of the  *)
(* control plane (module Rundown) driven by commands, the engine that      *)
(* follows it, the timers the engine sets for timed items, and the         *)
(* itemEvents it sends back.                                               *)
(*                                                                         *)
(* The channel between them is the one module RenderLink models in full;   *)
(* here a frame is refused, read in order, or lost with its connection.    *)
(* A frame carries what its command means to the engine and, as history,   *)
(* the control plane's picture after the command.  (The gate's stale       *)
(* branch is left out: RenderLinkProofs shows that nothing reaches it.)    *)
(***************************************************************************)
EXTENDS Rundown, Sequences

CONSTANTS
  MaxVersion,   \* bound: no command is accepted at this version
  MaxConn,      \* bound on the number of connections the engine makes
  MaxLoads,     \* bound on the show.load handlers in their await at once
  LoadMayFail   \* whether a package load may fail on the engine

ASSUME MaxVersionType == MaxVersion \in Nat
ASSUME MaxConnType == MaxConn \in Nat
ASSUME MaxLoadsType == MaxLoads \in Nat
ASSUME LoadMayFailType == LoadMayFail \in BOOLEAN

Conn == 1..MaxConn

VARIABLES
  version,    \* state.stateVersion
  (* the connections *)
  sent,       \* frames sent on the connection, refused ones too
  lost,       \* the newest frame of the connection was refused
  down,       \* frames on their way to the engine
  up,         \* per connection: frames on their way to the control plane
  (* the engine *)
  conns,      \* connections made so far
  conn,       \* the connection run() reads from, 0 for none
  expected,   \* ConnectionGate.expected_seq, 0 ahead of the resync
  view,       \* EngineState.view_item
  slate,      \* FallbackSource::Held
  running,    \* the master clock runs
  loaded,     \* loaded_package's load generation, 0 for none
  tracker,    \* per connection: PlaybackTracker.current
  timers,     \* the tasks schedule_done has spawned
  outgoing,   \* OutgoingQueue: survives a reconnect
  (* history *)
  heard,      \* the control plane's picture at the newest frame applied
  raised,     \* the slate is up by a render failure of the engine's own
  sound,      \* no package load has failed on the engine
  muted       \* starts whose timer ran out while the clock stood still

channelVars == <<sent, lost, down>>
connVars == <<conns, conn, expected>>
pictureVars == <<view, slate, running, loaded>>
timerVars == <<tracker, timers>>
historyVars == <<heard, raised, sound, muted>>
engineVars == <<connVars, pictureVars, timerVars, outgoing, historyVars>>
vars == <<rundownVars, version, channelVars, up, engineVars>>

Picture == [show : ShowState, view : Item \union {Nothing}, slate : BOOLEAN]
DarkPicture == [show |-> "UNLOADED", view |-> Nothing, slate |-> FALSE]

Command == {"take", "recall", "fallback", "load", "start", "stop", "other",
            "resync"}
DownFrame ==
  {f \in [command : Command, seq : Nat, item : Item \union {Nothing},
          start : Nat, load : Nat, picture : Picture] :
     f.start # 0 => f.item \in Item}
UpFrame == [kind : {"end", "missing"}, item : Item, start : Nat]
           \union [kind : {"resyncRequest"}]
Timer == [conn : Conn, item : Item, gen : Nat, start : Nat]

TypeOK ==
  /\ RundownTypeOK
  /\ version \in Nat
  /\ sent \in Nat
  /\ lost \in BOOLEAN
  /\ down \in Seq(DownFrame)
  /\ up \in [Conn -> Seq(UpFrame)]
  /\ conns \in 0..MaxConn
  /\ conn \in 0..conns
  /\ expected \in Nat
  /\ view \in Item \union {Nothing}
  /\ slate \in BOOLEAN
  /\ running \in BOOLEAN
  /\ loaded \in Nat
  /\ tracker \in [Conn -> [item : Item \union {Nothing}, gen : Nat]]
  /\ timers \subseteq Timer
  /\ outgoing \in Seq(UpFrame)
  /\ heard \in Picture
  /\ raised \in BOOLEAN
  /\ sound \in BOOLEAN
  /\ muted \subseteq Nat

Init ==
  /\ RundownInit
  /\ version = 0
  /\ sent = 0
  /\ lost = FALSE
  /\ down = <<>>
  /\ up = [c \in Conn |-> <<>>]
  /\ conns = 0
  /\ conn = 0
  /\ expected = 0
  /\ view = Nothing
  /\ slate = FALSE
  /\ running = FALSE
  /\ loaded = 0
  /\ tracker = [c \in Conn |-> [item |-> Nothing, gen |-> 0]]
  /\ timers = {}
  /\ outgoing = <<>>
  /\ heard = DarkPicture
  /\ raised = FALSE
  /\ sound = TRUE
  /\ muted = {}

-----------------------------------------------------------------------------
(* The control plane: what it sends                                        *)

\* The control plane's picture once a command's effect is in.
PictureAfter == [show |-> show', view |-> viewItem', slate |-> fallbackActive']

Directive(command, item, start, load) ==
  [command |-> command, seq |-> sent, item |-> item, start |-> start,
   load |-> load, picture |-> PictureAfter]

\* Every frame of a connection consumes a number; the socket may refuse it.
Send(frame) ==
  IF conn = 0
  THEN UNCHANGED channelVars
  ELSE /\ sent' = sent + 1
       /\ \/ /\ down' = Append(down, frame)
             /\ lost' = FALSE
          \/ /\ lost' = TRUE
             /\ UNCHANGED down

\* An accepted command bumps the version once and sends one directive.
Accept(command, item, start, load) ==
  /\ version < MaxVersion
  /\ version' = version + 1
  /\ Send(Directive(command, item, start, load))
  /\ UNCHANGED <<up, engineVars>>

Forward == Accept("other", Nothing, 0, 0)

\* A bump of its own: a command with no directive.
AcceptSilently ==
  /\ version < MaxVersion
  /\ version' = version + 1
  /\ UNCHANGED <<channelVars, up, engineVars>>

\* A take carries the item's own duration, when it has one.
StartOf(i) == IF i \in Timed THEN starts + 1 ELSE 0

TakeCommand(i) ==
  (ViewTake(i) \/ ViewCut(i)) /\ Accept("take", i, StartOf(i), 0)

\* The recalled item travels only when it is not the one on the View.
RecallCommand(n) ==
  /\ SnapshotRecall(n)
  /\ LET i == snapshots[n].viewItem
     IN IF i = viewItem THEN Forward ELSE Accept("recall", i, StartOf(i), 0)

\* Commands the engine is sent and has no effect for.
IdleCommand ==
  /\ \/ \E i \in Item : \/ ArmItem(i) \/ UnarmItem(i) \/ PreviewSet(i)
                        \/ ItemStop(i) \/ ItemReset(i)
     \/ \E s \in Scene : SceneArm(s)
     \/ ShowUnload
  /\ Forward

\* Accepted commands that send the engine nothing.
SilentCommand ==
  /\ \/ \E n \in SnapshotName : SnapshotSave(n)
     \/ \E i \in Item : CutOnAir(i)
  /\ AcceptSilently

FallbackCommand == ViewFallback /\ Accept("fallback", Nothing, 0, 0)
StartCommand == ShowStart /\ Accept("start", Nothing, 0, 0)
StopCommand == ShowStop /\ Accept("stop", Nothing, 0, 0)

LoadCommand ==
  ShowLoad(version + 1) /\ Accept("load", Nothing, 0, version + 1)

AskLoad ==
  /\ loads < MaxLoads
  /\ LoadAsked
  /\ UNCHANGED <<version, channelVars, up, engineVars>>

RefuseLoad ==
  /\ LoadRefused
  /\ UNCHANGED <<version, channelVars, up, engineVars>>

\* Mutant: the snapshot says what is on the View and not when it ends.
NoViewItemEnd == 0

\* viewItemEnd: only a timed item that is still PLAYING has one.
ViewItemEnd ==
  IF viewItem \in Timed /\ itemState[viewItem] = "PLAYING"
  THEN viewStart ELSE 0

\* resyncSnapshot: the state as it stands now.
Resync(seq) ==
  [command |-> "resync", seq |-> seq, item |-> viewItem,
   start |-> ViewItemEnd, load |-> package,
   picture |-> [show |-> show, view |-> viewItem, slate |-> fallbackActive]]

-----------------------------------------------------------------------------
(* The control plane: what it hears                                        *)

\* An itemEvent is a change of its own: it bumps the version, sends nothing.
ReceiveEvent(c) ==
  /\ up[c] # <<>>
  /\ LET m == Head(up[c])
     IN \/ m.kind = "end" /\ MarkDone(m.item)
        \/ m.kind = "missing" /\ MarkFailed(m.item, "MISSING")
  /\ up' = [up EXCEPT ![c] = Tail(@)]
  /\ version' = version + 1
  /\ UNCHANGED <<channelVars, engineVars>>

\* Mutant: the request is dropped.
DropRequest(c) ==
  /\ up[c] # <<>>
  /\ Head(up[c]).kind = "resyncRequest"
  /\ up' = [up EXCEPT ![c] = Tail(@)]
  /\ UNCHANGED <<rundownVars, version, channelVars, engineVars>>

\* A resync goes to the connection that asked, unless that is gone.
ReceiveRequest(c) ==
  /\ up[c] # <<>>
  /\ Head(up[c]).kind = "resyncRequest"
  /\ up' = [up EXCEPT ![c] = Tail(@)]
  /\ IF c = conn THEN Send(Resync(sent)) ELSE UNCHANGED channelVars
  /\ UNCHANGED <<rundownVars, version, engineVars>>

Receive(c) == ReceiveEvent(c) \/ ReceiveRequest(c)

-----------------------------------------------------------------------------
(* The engine: connections                                                 *)

\* A connection's first frame is a resync; run() makes a tracker of its own.
Connect ==
  /\ conn = 0
  /\ conns < MaxConn
  /\ conns' = conns + 1
  /\ conn' = conns + 1
  /\ expected' = 0
  /\ sent' = 1
  /\ down' = <<Resync(0)>>
  /\ lost' = FALSE
  /\ UNCHANGED <<rundownVars, version, up, pictureVars, timerVars, outgoing,
                 historyVars>>

\* What was on its way down is gone; of what was on its way up, a prefix
\* still arrives.
Drop ==
  /\ conn # 0
  /\ conn' = 0
  /\ expected' = 0
  /\ sent' = 0
  /\ down' = <<>>
  /\ lost' = FALSE
  /\ \E n \in 0..Len(up[conn]) : up' = [up EXCEPT ![conn] = SubSeq(@, 1, n)]

\* The connection breaks.  The timers of its tracker run on.
Disconnect ==
  /\ Drop
  /\ UNCHANGED <<rundownVars, version, conns, pictureVars, timerVars,
                 outgoing, historyVars>>

\* The engine process dies and comes back.
Restart ==
  /\ Drop
  /\ view' = Nothing
  /\ slate' = FALSE
  /\ running' = FALSE
  /\ loaded' = 0
  /\ timers' = {}
  /\ outgoing' = <<>>
  /\ heard' = DarkPicture
  /\ raised' = FALSE
  /\ UNCHANGED <<rundownVars, version, conns, tracker, sound, muted>>

Pump ==
  /\ conn # 0
  /\ outgoing # <<>>
  /\ up' = [up EXCEPT ![conn] = @ \o outgoing]
  /\ outgoing' = <<>>
  /\ UNCHANGED <<rundownVars, version, channelVars, connVars, pictureVars,
                 timerVars, historyVars>>

-----------------------------------------------------------------------------
(* The engine: playback                                                    *)

\* PlaybackTracker::begin, and ::clear for an empty View.
Begin(i) ==
  tracker' = [tracker EXCEPT ![conn] = [item |-> i, gen |-> @.gen + 1]]

\* schedule_done, for a playback that has an end.
Schedule(i, start) ==
  timers' = IF start = 0 THEN timers
            ELSE timers \union {[conn |-> conn, item |-> i, start |-> start,
                                 gen |-> tracker'[conn].gen]}

StillPlaying(t) ==
  tracker[t.conn].item = t.item /\ tracker[t.conn].gen = t.gen

\* A timer runs out: nothing on a stopped clock, nothing when superseded.
Fire(t) ==
  /\ timers' = timers \ {t}
  /\ IF running /\ StillPlaying(t)
     THEN /\ outgoing' = Append(outgoing,
               [kind |-> "end", item |-> t.item, start |-> t.start])
          /\ UNCHANGED muted
     ELSE /\ muted' = IF running THEN muted ELSE muted \union {t.start}
          /\ UNCHANGED outgoing
  /\ UNCHANGED <<rundownVars, version, channelVars, up, connVars, pictureVars,
                 tracker, heard, raised, sound>>

\* A View that cannot be drawn goes under the operator's slate.
RenderFails ==
  /\ slate' = TRUE
  /\ raised' = TRUE
  /\ UNCHANGED <<rundownVars, version, channelVars, up, connVars, view,
                 running, loaded, timerVars, outgoing, heard, sound, muted>>

-----------------------------------------------------------------------------
(* The engine: applying                                                    *)

\* Mutant: a take leaves the slate where it is.
TakeKeepsSlate(f) ==
  /\ view' = f.item
  /\ Begin(f.item)
  /\ Schedule(f.item, f.start)
  /\ UNCHANGED <<slate, running, loaded, outgoing, raised, sound>>

ApplyTake(f) ==
  /\ view' = f.item
  /\ slate' = FALSE
  /\ raised' = FALSE
  /\ Begin(f.item)
  /\ Schedule(f.item, f.start)
  /\ UNCHANGED <<running, loaded, outgoing, sound>>

\* A recall is a take that leaves the slate; of an empty View, a clear.
ApplyRecall(f) ==
  /\ view' = f.item
  /\ Begin(f.item)
  /\ Schedule(f.item, f.start)
  /\ UNCHANGED <<slate, running, loaded, outgoing, raised, sound>>

ApplyFallback ==
  /\ view' = Nothing
  /\ slate' = TRUE
  /\ raised' = FALSE
  /\ UNCHANGED <<running, loaded, timerVars, outgoing, sound>>

ApplyLoad(f) ==
  /\ view' = Nothing
  /\ slate' = FALSE
  /\ raised' = FALSE
  /\ loaded' = f.load
  /\ UNCHANGED <<running, timerVars, outgoing, sound>>

ApplyClock(f) ==
  /\ running' = (f.command = "start")
  /\ UNCHANGED <<view, slate, loaded, timerVars, outgoing, raised, sound>>

ApplyOther ==
  UNCHANGED <<pictureVars, timerVars, outgoing, raised, sound>>

\* The package first: reloaded when the snapshot names another load than the
\* one held.  Then the clock, the slate, the View and its end; with no package
\* the item on the View is reported missing, under the slate.
ApplyResync(f, loadable) ==
  LET reloads == f.load # 0 /\ f.load # loaded
      missing == reloads /\ ~loadable
  IN /\ loaded' = IF missing THEN 0 ELSE IF reloads THEN f.load ELSE loaded
     /\ running' = (f.picture.show = "RUNNING")
     /\ view' = f.picture.view
     /\ IF f.start # 0 THEN Begin(f.item) ELSE UNCHANGED tracker
     /\ Schedule(f.item, f.start)
     /\ slate' = (f.picture.slate \/ (missing /\ f.picture.view # Nothing))
     /\ outgoing' = IF missing /\ f.picture.view # Nothing
                    THEN Append(outgoing, [kind |-> "missing",
                           item |-> f.picture.view, start |-> 0])
                    ELSE outgoing
     /\ raised' = FALSE
     /\ sound' = (sound /\ ~missing)

Loadable == IF LoadMayFail THEN BOOLEAN ELSE {TRUE}

Arriving(f) ==
  /\ conn # 0
  /\ down # <<>>
  /\ f = Head(down)
  /\ down' = Tail(down)

InOrder(f) == expected # 0 /\ f.seq = expected

ReadResync ==
  \E f \in {down[i] : i \in DOMAIN down} :
    /\ Arriving(f)
    /\ f.command = "resync"
    /\ \E loadable \in Loadable : ApplyResync(f, loadable)
    /\ expected' = f.seq + 1
    /\ heard' = f.picture
    /\ UNCHANGED <<rundownVars, version, sent, lost, up, conns, conn, muted>>

ReadDirective ==
  \E f \in {down[i] : i \in DOMAIN down} :
    /\ Arriving(f)
    /\ f.command # "resync"
    /\ InOrder(f)
    /\ \/ f.command = "take" /\ ApplyTake(f)
       \/ f.command = "recall" /\ ApplyRecall(f)
       \/ f.command = "fallback" /\ ApplyFallback
       \/ f.command = "load" /\ ApplyLoad(f)
       \/ f.command \in {"start", "stop"} /\ ApplyClock(f)
       \/ f.command = "other" /\ ApplyOther
    /\ expected' = expected + 1
    /\ heard' = f.picture
    /\ UNCHANGED <<rundownVars, version, sent, lost, up, conns, conn, muted>>

\* A show.load that fails on the engine: the directive is dropped.
FailLoad ==
  \E f \in {down[i] : i \in DOMAIN down} :
    /\ Arriving(f)
    /\ LoadMayFail
    /\ f.command = "load"
    /\ InOrder(f)
    /\ expected' = expected + 1
    /\ sound' = FALSE
    /\ UNCHANGED <<rundownVars, version, sent, lost, up, conns, conn,
                   pictureVars, timerVars, outgoing, heard, raised, muted>>

\* A gap: the directive is turned away and a resync asked for.
TurnAway ==
  \E f \in {down[i] : i \in DOMAIN down} :
    /\ Arriving(f)
    /\ f.command # "resync"
    /\ ~InOrder(f)
    /\ outgoing' = IF expected = 0 THEN outgoing
                   ELSE Append(outgoing, [kind |-> "resyncRequest"])
    /\ UNCHANGED <<rundownVars, version, sent, lost, up, connVars,
                   pictureVars, timerVars, historyVars>>

-----------------------------------------------------------------------------
Operate ==
  \/ \E i \in Item : TakeCommand(i)
  \/ \E n \in SnapshotName : RecallCommand(n)
  \/ IdleCommand
  \/ SilentCommand
  \/ FallbackCommand
  \/ StartCommand
  \/ StopCommand
  \/ LoadCommand
  \/ AskLoad
  \/ RefuseLoad

Read == ReadResync \/ ReadDirective \/ FailLoad \/ TurnAway

Next ==
  \/ Operate
  \/ \E c \in Conn : Receive(c)
  \/ Connect
  \/ Disconnect
  \/ Restart
  \/ Pump
  \/ \E t \in timers : Fire(t)
  \/ RenderFails
  \/ Read

Spec == Init /\ [][Next]_vars

\* The engine's reader, its pump, its timers and its reconnect loop keep
\* running, and so does the control plane's message handling.  Nothing is
\* assumed of the operator, or of what a socket takes.
Fair ==
  /\ WF_vars(Read)
  /\ WF_vars(Pump)
  /\ WF_vars(\E t \in timers : Fire(t))
  /\ WF_vars(Connect)
  /\ \A c \in Conn : WF_vars(Receive(c))

-----------------------------------------------------------------------------
(* What playback promises                                                  *)

\* The audience sees what the control plane says: whatever was refused, lost,
\* resynced or recalled, the engine's slate and View are the ones the control
\* plane had at the newest frame the engine applied.  Only a render failure
\* raises the slate beyond that.  (With no package the View is not followed,
\* as show.unload is not routed; and no load has failed.)
PictureFollows ==
  sound /\ heard.show \in {"LOADED", "RUNNING"} =>
    /\ heard.slate => slate
    /\ slate => heard.slate \/ raised
    /\ ~slate => view = heard.view

Completing == viewItem \in Timed /\ itemState[viewItem] = "PLAYING"

\* The engine has read and kept every frame of the connection.
InSync == conn # 0 /\ down = <<>> /\ expected = sent

EndOnItsWay ==
  \/ \E t \in timers :
       t.item = viewItem /\ t.start = viewStart /\ StillPlaying(t)
  \/ \E k \in DOMAIN outgoing :
       outgoing[k].kind = "end" /\ outgoing[k].item = viewItem
  \/ \E c \in Conn : \E k \in DOMAIN up[c] :
       up[c][k].kind = "end" /\ up[c][k].item = viewItem

\* A timed item that is PLAYING in a running show has its end pending in the
\* engine or on its way, whatever reconnects, resyncs and restarts came in
\* between, unless it ran out while the clock stood still.
EndIsPending ==
  InSync /\ show = "RUNNING" /\ Completing /\ viewStart \notin muted =>
    EndOnItsWay

\* SPEC v0.4.8 row 3: a resync supersedes any end still pending, so that
\* "exactly one end is ever pending".
OneEndPending ==
  \A t, u \in timers : StillPlaying(t) /\ StillPlaying(u) => t = u

\* PLAYING -> DONE is the only point at which completion is true: the end that
\* completes an item is that of its present start on the View.
CompletedByOwnEnd ==
  [][\A c \in Conn :
       ReceiveEvent(c) /\ itemState' # itemState /\ Head(up[c]).kind = "end"
         => Head(up[c]).start = viewStart]_vars

\* A playback ends: PLAYING does not last for ever in a running show, unless
\* the newest frame was refused by the socket, the end ran out on a stopped
\* clock, or the engine makes no more connections.
PlaybackEnds ==
  \A k \in 1..MaxVersion :
    (show = "RUNNING" /\ Completing /\ viewStart = k) ~>
      \/ ~(show = "RUNNING" /\ Completing /\ viewStart = k)
      \/ k \in muted
      \/ lost
      \/ conn = 0 /\ conns = MaxConn
=============================================================================
