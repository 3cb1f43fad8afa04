--------------------------- MODULE PlaybackProofs ---------------------------
(***************************************************************************)
(* First the rundown on its own: no sequence of commands and engine events *)
(* leaves an item on air that is not on the View, or one on air that is    *)
(* also on the Preview.  Neither is inductive: a recall brings back        *)
(* whatever a snapshot holds, so every saved snapshot has to satisfy both  *)
(* as well.                                                                *)
(*                                                                         *)
(* Then type correctness of playback, and that its control plane is the    *)
(* rundown of module Rundown: a command, an engine event and everything    *)
(* that can happen to the channel is a rundown step or leaves the rundown  *)
(* alone.  What is shown of the rundown then holds with an engine that     *)
(* reports late, twice, or about an item that was taken again.             *)
(*                                                                         *)
(* The picture the audience sees is the one the control plane had, and     *)
(* where nothing is recalled the end of what plays is never forgotten:     *)
(* both by induction over the frames still on their way to the engine.     *)
(***************************************************************************)
EXTENDS Playback, SequenceTheorems, TLAPS

OnlyOnView(items, onView) ==
  \A i \in Item : items[i] \in OnAirState => onView = i

OffAir(items, onPreview) ==
  onPreview \in Item => items[onPreview] \notin OnAirState

SnapshotsConsistent ==
  \A n \in SnapshotName : snapshots[n] # Unsaved =>
    /\ OnlyOnView(snapshots[n].itemState, snapshots[n].viewItem)
    /\ OffAir(snapshots[n].itemState, snapshots[n].previewItem)

RundownInv ==
  /\ RundownTypeOK
  /\ OnAirIsOnView
  /\ PreviewIsOffAir
  /\ SnapshotsConsistent

ItemStep(i) ==
  \/ ArmItem(i) \/ UnarmItem(i) \/ PreviewSet(i)
  \/ ViewTake(i) \/ ViewCut(i) \/ ItemStop(i) \/ ItemReset(i)
  \/ MarkDone(i) \/ MarkFailed(i, "MISSING") \/ MarkFailed(i, "ERROR")

-----------------------------------------------------------------------------
\* The state a show starts from has nothing on air.
LEMMA InitHolds == RundownInit => RundownInv
<1> SUFFICES ASSUME RundownInit PROVE RundownInv
  OBVIOUS
<1> USE NothingIsNothing DEF RundownInit
<1>1. /\ itemState \in [Item -> ItemState]
      /\ snapshots \in [SnapshotName -> Snapshot \union {Unsaved}]
  BY DEF AllReady, ItemState
<1>a. fallbackActive \in BOOLEAN
  BY Zenon
<1>b. /\ show \in ShowState /\ loads \in Nat /\ package \in Nat
      /\ starts \in Nat /\ viewStart \in 0..starts
  BY DEF ShowState
<1>2. RundownTypeOK
  BY <1>1, <1>a, <1>b, Zenon DEF RundownTypeOK
<1>3. OnAirIsOnView /\ PreviewIsOffAir
  BY DEF OnAirIsOnView, PreviewIsOffAir, AllReady, OnAirState
<1>4. SnapshotsConsistent
  BY DEF SnapshotsConsistent
<1> QED BY <1>2, <1>3, <1>4 DEF RundownInv

\* A step that moves one item to a state off air, and neither the View nor the
\* Preview nor a snapshot, disturbs nothing.
LEMMA OffAirStep ==
  ASSUME RundownInv, NEW i \in Item, NEW s \in ItemState \ OnAirState,
         itemState' = [itemState EXCEPT ![i] = s],
         UNCHANGED <<lifecycleVars, viewVars, previewItem>>,
         fallbackActive' \in BOOLEAN
  PROVE  RundownInv'
  BY DEF RundownInv, RundownTypeOK, OnAirIsOnView, PreviewIsOffAir,
         SnapshotsConsistent, OnlyOnView, OffAir, lifecycleVars, viewVars,
         ItemState, OnAirState, Snapshot, Unsaved

\* A take puts its item on the View, takes off air what was there, and clears
\* the Preview of the item it took.
LEMMA TakeStep ==
  ASSUME RundownInv, NEW i \in Item, Take(i), UNCHANGED lifecycleVars
  PROVE  RundownInv'
<1> USE NothingIsNothing
<1>a. itemState' \in [Item -> ItemState]
  BY DEF RundownInv, RundownTypeOK, Take, ItemState
<1>0. /\ viewItem' \in Item
      /\ starts' \in Nat \ {0}
      /\ viewStart' = starts'
      /\ previewItem' \in Item \union Scene \union {Nothing}
  BY DEF RundownInv, RundownTypeOK, Take
<1>b. fallbackActive' \in BOOLEAN
  BY Zenon DEF Take
<1>1. RundownTypeOK'
  BY <1>a, <1>b, <1>0 DEF RundownInv, RundownTypeOK, lifecycleVars
<1>2. OnAirIsOnView'
  BY DEF RundownInv, RundownTypeOK, OnAirIsOnView, Take, OnAirState
<1>3. PreviewIsOffAir'
  BY DEF RundownInv, RundownTypeOK, OnAirIsOnView, PreviewIsOffAir, Take,
         OnAirState
<1>4. SnapshotsConsistent'
  BY DEF RundownInv, SnapshotsConsistent, Take, lifecycleVars, OnlyOnView,
         OffAir, Unsaved
<1> QED BY <1>1, <1>2, <1>3, <1>4 DEF RundownInv

\* Arming an item on the Preview takes none off the View.
LEMMA PreviewSetStep ==
  ASSUME RundownInv, NEW i \in Item, PreviewSet(i)
  PROVE  RundownInv'
<1>1. RundownTypeOK'
  BY DEF RundownInv, RundownTypeOK, PreviewSet, lifecycleVars, viewVars,
         ItemState
<1>2. OnAirIsOnView' /\ PreviewIsOffAir'
  BY DEF RundownInv, RundownTypeOK, OnAirIsOnView, PreviewIsOffAir,
         PreviewSet, lifecycleVars, viewVars, OnAirState
<1>3. SnapshotsConsistent'
  BY DEF RundownInv, SnapshotsConsistent, PreviewSet, lifecycleVars,
         OnlyOnView, OffAir, Unsaved
<1> QED BY <1>1, <1>2, <1>3 DEF RundownInv

\* What concerns one item keeps the rundown consistent.
LEMMA ItemStepHolds ==
  ASSUME RundownInv, NEW i \in Item, ItemStep(i)
  PROVE  RundownInv'
<1>1. ASSUME ArmItem(i) PROVE RundownInv'
  BY <1>1, OffAirStep
     DEF RundownInv, RundownTypeOK, ArmItem, ItemState, OnAirState
<1>2. ASSUME UnarmItem(i) \/ ItemStop(i) \/ ItemReset(i) PROVE RundownInv'
  BY <1>2, OffAirStep
     DEF RundownInv, RundownTypeOK, UnarmItem, ItemStop, ItemReset, ItemState,
         OnAirState
<1>3. ASSUME PreviewSet(i) PROVE RundownInv'
  BY <1>3, PreviewSetStep
<1>4. ASSUME ViewTake(i) \/ ViewCut(i) PROVE RundownInv'
  BY <1>4, TakeStep DEF ViewTake, ViewCut
<1>5. ASSUME MarkDone(i), itemState[i] = "PLAYING" PROVE RundownInv'
  BY <1>5, OffAirStep
     DEF RundownInv, RundownTypeOK, MarkDone, ItemState, OnAirState
<1>6. ASSUME MarkDone(i), itemState[i] # "PLAYING" PROVE RundownInv'
  BY <1>6 DEF MarkDone, RundownInv, RundownTypeOK, OnAirIsOnView,
         PreviewIsOffAir, SnapshotsConsistent, OnlyOnView, OffAir,
         lifecycleVars, viewVars, Unsaved
<1>7. ASSUME MarkFailed(i, "MISSING") \/ MarkFailed(i, "ERROR")
      PROVE  RundownInv'
  <2>1. PICK s \in {"MISSING", "ERROR"} : MarkFailed(i, s)
    BY <1>7
  <2>2. /\ s \in ItemState \ OnAirState
        /\ itemState' = [itemState EXCEPT ![i] = s]
        /\ UNCHANGED <<lifecycleVars, viewVars, previewItem>>
        /\ fallbackActive' \in BOOLEAN
    BY <2>1 DEF MarkFailed, ItemState, OnAirState
  <2> QED BY <2>2, OffAirStep
<1> QED BY <1>1, <1>2, <1>3, <1>4, <1>5, <1>6, <1>7 DEF ItemStep

\* A scene goes to an empty Preview; a scene is no item, so none is on air.
LEMMA SceneStep ==
  ASSUME RundownInv, NEW s \in Scene, SceneArm(s)
  PROVE  RundownInv'
  BY ScenesAreNotItems
     DEF RundownInv, RundownTypeOK, OnAirIsOnView, PreviewIsOffAir,
         SnapshotsConsistent, OnlyOnView, OffAir, SceneArm, lifecycleVars,
         viewVars, Unsaved

\* Saving keeps the snapshots consistent because the rundown is.
LEMMA SaveStep ==
  ASSUME RundownInv, NEW n \in SnapshotName, SnapshotSave(n)
  PROVE  RundownInv'
<1> DEFINE snap == [viewItem |-> viewItem, previewItem |-> previewItem,
                    itemState |-> itemState]
<1>1. /\ snapshots' = [snapshots EXCEPT ![n] = snap]
      /\ UNCHANGED <<show, loads, package, itemState, viewVars, previewItem,
                     fallbackActive>>
  BY DEF SnapshotSave
<1>2. snap \in Snapshot
  BY DEF RundownInv, RundownTypeOK, Snapshot
<1>3. RundownTypeOK'
  <2> HIDE DEF snap
  <2> QED BY <1>1, <1>2 DEF RundownInv, RundownTypeOK, viewVars
<1>4. OnAirIsOnView' /\ PreviewIsOffAir'
  BY <1>1 DEF RundownInv, OnAirIsOnView, PreviewIsOffAir, viewVars
<1>5. /\ OnlyOnView(snap.itemState, snap.viewItem)
      /\ OffAir(snap.itemState, snap.previewItem)
  BY DEF RundownInv, OnAirIsOnView, PreviewIsOffAir, OnlyOnView, OffAir
<1>6. SnapshotsConsistent'
  <2> HIDE DEF snap
  <2> SUFFICES ASSUME NEW m \in SnapshotName, snapshots'[m] # Unsaved
               PROVE  /\ OnlyOnView(snapshots'[m].itemState,
                                    snapshots'[m].viewItem)
                      /\ OffAir(snapshots'[m].itemState,
                                snapshots'[m].previewItem)
    BY DEF SnapshotsConsistent, Unsaved, OnlyOnView, OffAir
  <2>1. snapshots'[m] = IF m = n THEN snap ELSE snapshots[m]
    BY <1>1 DEF RundownInv, RundownTypeOK
  <2> QED BY <2>1, <1>5 DEF RundownInv, SnapshotsConsistent
<1> QED BY <1>3, <1>4, <1>6 DEF RundownInv

\* A recall brings back a picture that was consistent when it was saved.
LEMMA RecallStep ==
  ASSUME RundownInv, NEW n \in SnapshotName, SnapshotRecall(n)
  PROVE  RundownInv'
<1> USE NothingIsNothing
<1>1. /\ snapshots[n] \in Snapshot
      /\ OnlyOnView(snapshots[n].itemState, snapshots[n].viewItem)
      /\ OffAir(snapshots[n].itemState, snapshots[n].previewItem)
  BY DEF RundownInv, RundownTypeOK, SnapshotRecall, SnapshotsConsistent
<1>2. /\ itemState' = snapshots[n].itemState
      /\ viewItem' = snapshots[n].viewItem
      /\ previewItem' = snapshots[n].previewItem
      /\ UNCHANGED <<lifecycleVars, fallbackActive>>
  BY DEF SnapshotRecall
<1>3. /\ starts' \in Nat
      /\ viewStart' \in 0..starts'
      /\ (viewStart' = 0) <=> (viewItem' = Nothing)
  BY DEF SnapshotRecall, RundownInv, RundownTypeOK
<1>4. RundownTypeOK'
  BY <1>1, <1>2, <1>3 DEF RundownInv, RundownTypeOK, Snapshot, lifecycleVars
<1>5. OnAirIsOnView' /\ PreviewIsOffAir'
  BY <1>1, <1>2 DEF OnAirIsOnView, PreviewIsOffAir, OnlyOnView, OffAir
<1>6. SnapshotsConsistent'
  BY <1>2 DEF RundownInv, SnapshotsConsistent, lifecycleVars, OnlyOnView,
     OffAir, Unsaved
<1> QED BY <1>4, <1>5, <1>6 DEF RundownInv

\* A load or an unload leaves nothing on air, and the snapshots alone.
LEMMA ClearedStep ==
  ASSUME RundownInv, Cleared, loads' \in Nat, show' \in ShowState,
         package' \in Nat
  PROVE  RundownInv'
<1> USE NothingIsNothing
<1>0. itemState' \in [Item -> ItemState]
  BY DEF Cleared, AllReady, ItemState
<1>a. fallbackActive' \in BOOLEAN
  BY Zenon DEF Cleared
<1>b. /\ viewItem' = Nothing /\ previewItem' = Nothing
      /\ viewStart' = 0 /\ starts' = starts /\ snapshots' = snapshots
  BY DEF Cleared
<1>1. RundownTypeOK'
  BY <1>0, <1>a, <1>b DEF RundownInv, RundownTypeOK
<1>2. OnAirIsOnView' /\ PreviewIsOffAir'
  BY DEF OnAirIsOnView, PreviewIsOffAir, Cleared, AllReady, OnAirState
<1>3. SnapshotsConsistent'
  BY DEF RundownInv, SnapshotsConsistent, Cleared, OnlyOnView, OffAir, Unsaved
<1> QED BY <1>1, <1>2, <1>3 DEF RundownInv

\* The rest of the show's lifecycle touches no item.
LEMMA LifecycleStep ==
  ASSUME RundownInv,
         \/ ViewFallback \/ LoadAsked \/ LoadRefused \/ ShowStart \/ ShowStop
  PROVE  RundownInv'
<1> USE DEF RundownInv, RundownTypeOK, OnAirIsOnView, PreviewIsOffAir,
        SnapshotsConsistent, OnlyOnView, OffAir, viewVars, Unsaved, ShowState
<1>1. ASSUME ViewFallback PROVE RundownInv'
  BY <1>1 DEF ViewFallback, lifecycleVars
<1>2. ASSUME LoadAsked \/ LoadRefused PROVE RundownInv'
  BY <1>2 DEF LoadAsked, LoadRefused
<1>3. ASSUME ShowStart \/ ShowStop PROVE RundownInv'
  BY <1>3 DEF ShowStart, ShowStop
<1> QED BY <1>1, <1>2, <1>3

\* Every command and every engine event keeps the rundown consistent.
THEOREM RundownStep == RundownInv /\ [RundownNext]_rundownVars => RundownInv'
<1> SUFFICES ASSUME RundownInv, [RundownNext]_rundownVars PROVE RundownInv'
  OBVIOUS
<1>1. ASSUME NEW i \in Item, ItemStep(i) PROVE RundownInv'
  BY <1>1, ItemStepHolds
<1>2. ASSUME NEW s \in Scene, SceneArm(s) PROVE RundownInv'
  BY <1>2, SceneStep
<1>3. ASSUME NEW n \in SnapshotName, SnapshotSave(n) \/ SnapshotRecall(n)
      PROVE  RundownInv'
  BY <1>3, SaveStep, RecallStep
<1>4. ASSUME NEW v \in Nat \ {0}, ShowLoad(v) PROVE RundownInv'
  BY <1>4, ClearedStep DEF ShowLoad, RundownInv, RundownTypeOK, ShowState
<1>5. ASSUME ShowUnload PROVE RundownInv'
  BY <1>5, ClearedStep DEF ShowUnload, RundownInv, RundownTypeOK, ShowState
<1>6. ASSUME UNCHANGED rundownVars PROVE RundownInv'
  BY <1>6 DEF RundownInv, RundownTypeOK, OnAirIsOnView, PreviewIsOffAir,
     SnapshotsConsistent, OnlyOnView, OffAir, rundownVars, Unsaved
<1> QED
  BY <1>1, <1>2, <1>3, <1>4, <1>5, <1>6, LifecycleStep
     DEF RundownNext, ItemStep

\* The rundown's state always has its type, in every behaviour of the rundown.
THEOREM RundownTypeCorrect == RundownSpec => []RundownTypeOK
<1>1. RundownSpec => []RundownInv
  BY InitHolds, RundownStep, PTL DEF RundownSpec
<1> QED BY <1>1, PTL DEF RundownInv

\* However many items, scenes and snapshots there are, an item that is on air
\* is the one on the View, and what is on the Preview is off air.
THEOREM OneItemOnAir == RundownSpec => [](OnAirIsOnView /\ PreviewIsOffAir)
<1>1. RundownSpec => []RundownInv
  BY InitHolds, RundownStep, PTL DEF RundownSpec
<1> QED BY <1>1, PTL DEF RundownInv
-----------------------------------------------------------------------------

\* The type invariant, part by part.
ChannelTyped == sent \in Nat /\ lost \in BOOLEAN /\ down \in Seq(DownFrame)
UpTyped == up \in [Conn -> Seq(UpFrame)]
ConnTyped == conns \in 0..MaxConn /\ conn \in 0..conns /\ expected \in Nat
PictureTyped ==
  /\ view \in Item \union {Nothing}
  /\ slate \in BOOLEAN
  /\ running \in BOOLEAN
  /\ loaded \in Nat
TimerTyped ==
  /\ tracker \in [Conn -> [item : Item \union {Nothing}, gen : Nat]]
  /\ timers \subseteq Timer
OutTyped == outgoing \in Seq(UpFrame)
HistoryTyped ==
  heard \in Picture /\ raised \in BOOLEAN /\ sound \in BOOLEAN /\ muted \subseteq Nat

EngineTyped ==
  ConnTyped /\ PictureTyped /\ TimerTyped /\ OutTyped /\ HistoryTyped

\* The parts make up the invariant, before a step and after it.
LEMMA TypeParts ==
  TypeOK <=> /\ RundownTypeOK /\ version \in Nat
             /\ ChannelTyped /\ UpTyped /\ EngineTyped
  BY DEF TypeOK, ChannelTyped, UpTyped, EngineTyped, ConnTyped, PictureTyped,
         TimerTyped, OutTyped, HistoryTyped

LEMMA TypeJoined ==
  ASSUME RundownTypeOK', version' \in Nat, ChannelTyped', UpTyped', EngineTyped'
  PROVE  TypeOK'
  BY DEF TypeOK, ChannelTyped, UpTyped, EngineTyped, ConnTyped, PictureTyped,
         TimerTyped, OutTyped, HistoryTyped

\* What a step leaves alone keeps its type.
LEMMA ChannelKept == ChannelTyped /\ UNCHANGED channelVars => ChannelTyped'
  BY DEF ChannelTyped, channelVars

LEMMA ConnKept == ConnTyped /\ UNCHANGED connVars => ConnTyped'
  BY DEF ConnTyped, connVars

LEMMA PictureKept == PictureTyped /\ UNCHANGED pictureVars => PictureTyped'
  BY DEF PictureTyped, pictureVars

LEMMA TimerKept == TimerTyped /\ UNCHANGED timerVars => TimerTyped'
  BY DEF TimerTyped, timerVars

LEMMA HistoryKept == HistoryTyped /\ UNCHANGED historyVars => HistoryTyped'
  BY DEF HistoryTyped, historyVars

LEMMA EngineKept == EngineTyped /\ UNCHANGED engineVars => EngineTyped'
  BY ConnKept, PictureKept, TimerKept, HistoryKept
     DEF EngineTyped, engineVars, OutTyped

-----------------------------------------------------------------------------
(* The control plane's half                                                *)

\* Sending keeps what is on its way a sequence of frames.
LEMMA SendTyped ==
  ASSUME TypeOK, NEW frame \in DownFrame, Send(frame)
  PROVE  ChannelTyped'
<1>1. ChannelTyped
  BY TypeParts
<1>2. CASE conn = 0
  BY <1>1, <1>2, ChannelKept DEF Send
<1>3. CASE conn # 0
  <2>1. Append(down, frame) \in Seq(DownFrame)
    BY <1>1, AppendProperties DEF ChannelTyped
  <2>2. sent' \in Nat /\ down' \in Seq(DownFrame)
    BY <1>1, <1>3, <2>1 DEF Send, ChannelTyped
  <2>3. lost' \in BOOLEAN
    BY <1>3, Zenon DEF Send
  <2> QED BY <2>2, <2>3 DEF ChannelTyped
<1> QED BY <1>2, <1>3

\* A directive is a frame.
LEMMA DirectiveTyped ==
  ASSUME TypeOK, RundownTypeOK', NEW command \in Command,
         NEW item \in Item \union {Nothing}, NEW start \in Nat, NEW load \in Nat,
         start # 0 => item \in Item
  PROVE  Directive(command, item, start, load) \in DownFrame
<1>1. sent \in Nat
  BY DEF TypeOK
<1>2. PictureAfter \in Picture
  BY DEF RundownTypeOK, PictureAfter, Picture
<1> QED BY <1>1, <1>2 DEF Directive, DownFrame

\* An accepted command keeps the type, when it keeps the rundown's.
LEMMA AcceptTyped ==
  ASSUME TypeOK, RundownTypeOK', NEW command \in Command,
         NEW item \in Item \union {Nothing}, NEW start \in Nat, NEW load \in Nat,
         start # 0 => item \in Item,
         Accept(command, item, start, load)
  PROVE  TypeOK'
<1>1. ChannelTyped'
  BY DirectiveTyped, SendTyped DEF Accept
<1>2. version' \in Nat /\ UpTyped' /\ EngineTyped'
  BY TypeParts, EngineKept DEF Accept, TypeOK, UpTyped
<1> QED BY <1>1, <1>2, TypeJoined

\* So does a command that sends nothing.
LEMMA SilentTyped ==
  ASSUME TypeOK, RundownTypeOK', version' \in Nat,
         UNCHANGED <<channelVars, up, engineVars>>
  PROVE  TypeOK'
<1>1. ChannelTyped' /\ UpTyped' /\ EngineTyped'
  BY TypeParts, ChannelKept, EngineKept DEF UpTyped
<1> QED BY <1>1, TypeJoined

\* The snapshot a resync carries is a frame.
LEMMA ResyncTyped ==
  ASSUME TypeOK, NEW seq \in Nat
  PROVE  Resync(seq) \in DownFrame
<1>1. [show |-> show, view |-> viewItem, slate |-> fallbackActive] \in Picture
  BY DEF TypeOK, RundownTypeOK, Picture
<1>2. ViewItemEnd \in Nat /\ (ViewItemEnd # 0 => viewItem \in Item)
  BY TimedAreItems DEF TypeOK, RundownTypeOK, ViewItemEnd
<1>3. viewItem \in Item \union {Nothing} /\ package \in Nat
  BY DEF TypeOK, RundownTypeOK
<1> QED BY <1>1, <1>2, <1>3 DEF Resync, DownFrame, Command

\* A command keeps the type when what it does to the rundown does.
LEMMA OperateTyped == ASSUME TypeOK, RundownTypeOK', Operate PROVE TypeOK'
<1>0. /\ version \in Nat /\ starts \in Nat /\ viewItem \in Item \union {Nothing}
      /\ Nothing \notin Item
      /\ {"take", "recall", "fallback", "load", "start", "stop", "other"}
           \subseteq Command
  BY NothingIsNothing DEF TypeOK, RundownTypeOK, Command
<1>1. \A i \in Item \union {Nothing} :
        StartOf(i) \in Nat /\ (StartOf(i) # 0 => i \in Item)
  BY <1>0, TimedAreItems DEF StartOf
<1>2. ASSUME Forward PROVE TypeOK'
  BY <1>0, <1>2, AcceptTyped DEF Forward
<1>3. ASSUME NEW i \in Item, TakeCommand(i) PROVE TypeOK'
  BY <1>0, <1>1, <1>3, AcceptTyped DEF TakeCommand
<1>4. ASSUME NEW n \in SnapshotName, RecallCommand(n) PROVE TypeOK'
  <2>1. snapshots[n].viewItem \in Item \union {Nothing}
    BY <1>4 DEF RecallCommand, SnapshotRecall, TypeOK, RundownTypeOK, Snapshot
  <2> QED BY <1>0, <1>1, <1>2, <1>4, <2>1, AcceptTyped DEF RecallCommand
<1>5. ASSUME IdleCommand PROVE TypeOK'
  BY <1>2, <1>5 DEF IdleCommand
<1>6. ASSUME SilentCommand PROVE TypeOK'
  BY <1>0, <1>6, SilentTyped DEF SilentCommand, AcceptSilently
<1>7. ASSUME FallbackCommand \/ StartCommand \/ StopCommand PROVE TypeOK'
  BY <1>0, <1>7, AcceptTyped DEF FallbackCommand, StartCommand, StopCommand
<1>8. ASSUME LoadCommand PROVE TypeOK'
  BY <1>0, <1>8, AcceptTyped DEF LoadCommand
<1>9. ASSUME AskLoad \/ RefuseLoad PROVE TypeOK'
  BY <1>0, <1>9, SilentTyped DEF AskLoad, RefuseLoad
<1> QED
  BY <1>3, <1>4, <1>5, <1>6, <1>7, <1>8, <1>9 DEF Operate

\* What the control plane hears is a frame of the engine's.
LEMMA HeardTyped ==
  ASSUME TypeOK, NEW c \in Conn, up[c] # <<>>
  PROVE  /\ Head(up[c]) \in UpFrame
         /\ [up EXCEPT ![c] = Tail(@)] \in [Conn -> Seq(UpFrame)]
<1>1. up \in [Conn -> Seq(UpFrame)]
  BY DEF TypeOK
<1>2. Head(up[c]) \in UpFrame /\ Tail(up[c]) \in Seq(UpFrame)
  BY <1>1, HeadTailProperties
<1> QED BY <1>1, <1>2

LEMMA ReceiveTyped ==
  ASSUME TypeOK, RundownTypeOK', NEW c \in Conn, Receive(c)
  PROVE  TypeOK'
<1>1. UpTyped'
  BY HeardTyped DEF Receive, ReceiveEvent, ReceiveRequest, UpTyped
<1>2. EngineTyped'
  BY TypeParts, EngineKept DEF Receive, ReceiveEvent, ReceiveRequest
<1>3. version' \in Nat
  BY DEF TypeOK, Receive, ReceiveEvent, ReceiveRequest
<1>4. sent \in Nat
  BY DEF TypeOK
<1>5. ChannelTyped'
  BY <1>4, TypeParts, ChannelKept, ResyncTyped, SendTyped
     DEF Receive, ReceiveEvent, ReceiveRequest
<1> QED BY <1>1, <1>2, <1>3, <1>5, TypeJoined

-----------------------------------------------------------------------------
(* The engine's half                                                       *)

LEMMA ConnectTyped == ASSUME TypeOK, RundownTypeOK', Connect PROVE TypeOK'
<1>1. Resync(0) \in DownFrame
  BY ResyncTyped
<1>2. down' \in Seq(DownFrame)
  <2>1. down' = <<Resync(0)>>
    BY DEF Connect
  <2> HIDE DEF Resync, DownFrame
  <2> QED BY <1>1, <2>1
<1>3. ChannelTyped'
  <2>1. sent' \in Nat
    BY DEF Connect
  <2>2. lost' \in BOOLEAN
    BY Zenon DEF Connect
  <2> QED BY <1>2, <2>1, <2>2 DEF ChannelTyped
<1>4. ConnTyped'
  BY MaxConnType DEF TypeOK, Connect, ConnTyped
<1>5. EngineTyped'
  BY <1>4, TypeParts, PictureKept, TimerKept, HistoryKept
     DEF Connect, EngineTyped, OutTyped
<1>6. version' \in Nat /\ UpTyped'
  BY TypeParts DEF Connect, UpTyped
<1> QED BY <1>3, <1>5, <1>6, TypeJoined

\* A connection that goes leaves some prefix of what was on its way up.
LEMMA DropTyped ==
  ASSUME TypeOK, Drop
  PROVE  ChannelTyped' /\ UpTyped' /\ conn' = 0 /\ expected' = 0
<1>1. PICK n \in 0..Len(up[conn]) :
        up' = [up EXCEPT ![conn] = SubSeq(up[conn], 1, n)]
  BY DEF Drop
<1>2. conn \in Conn /\ up \in [Conn -> Seq(UpFrame)]
  BY MaxConnType DEF Drop, TypeOK, Conn
<1>3. SubSeq(up[conn], 1, n) \in Seq(UpFrame)
  BY <1>2, SubSeqProperties
<1>4. UpTyped'
  BY <1>1, <1>2, <1>3, Zenon DEF UpTyped
<1>5. ChannelTyped'
  <2>1. lost' \in BOOLEAN
    BY Zenon DEF Drop
  <2> QED BY <2>1 DEF Drop, ChannelTyped
<1> QED BY <1>4, <1>5 DEF Drop

LEMMA DisconnectTyped == ASSUME TypeOK, RundownTypeOK', Disconnect PROVE TypeOK'
<1>1. ChannelTyped' /\ UpTyped' /\ conn' = 0 /\ expected' = 0
  BY DropTyped DEF Disconnect
<1>2. ConnTyped'
  BY <1>1 DEF TypeOK, Disconnect, ConnTyped
<1>3. EngineTyped'
  BY <1>2, TypeParts, PictureKept, TimerKept, HistoryKept
     DEF Disconnect, EngineTyped, OutTyped
<1>4. version' \in Nat
  BY DEF TypeOK, Disconnect
<1> QED BY <1>1, <1>3, <1>4, TypeJoined

LEMMA RestartTyped == ASSUME TypeOK, RundownTypeOK', Restart PROVE TypeOK'
<1>1. ChannelTyped' /\ UpTyped' /\ conn' = 0 /\ expected' = 0
  BY DropTyped DEF Restart
<1>2. ConnTyped'
  BY <1>1 DEF TypeOK, Restart, ConnTyped
<1>3. PictureTyped'
  <2>1. slate' \in BOOLEAN /\ running' \in BOOLEAN
    BY Zenon DEF Restart
  <2> QED BY <2>1 DEF Restart, PictureTyped
<1>4. TimerTyped' /\ OutTyped'
  BY DEF TypeOK, Restart, TimerTyped, OutTyped
<1>5. HistoryTyped'
  <2>1. raised' \in BOOLEAN
    BY Zenon DEF Restart
  <2>2. DarkPicture \in Picture
    <3>1. FALSE \in BOOLEAN
      BY Zenon
    <3> QED BY <3>1 DEF DarkPicture, Picture, ShowState
  <2> QED BY <2>1, <2>2 DEF TypeOK, Restart, HistoryTyped
<1>6. version' \in Nat
  BY DEF TypeOK, Restart
<1> QED BY <1>1, <1>2, <1>3, <1>4, <1>5, <1>6, TypeJoined DEF EngineTyped

LEMMA PumpTyped == ASSUME TypeOK, RundownTypeOK', Pump PROVE TypeOK'
<1>1. conn \in Conn /\ up \in [Conn -> Seq(UpFrame)] /\ outgoing \in Seq(UpFrame)
  BY MaxConnType DEF Pump, TypeOK, Conn
<1>2. up[conn] \o outgoing \in Seq(UpFrame)
  BY <1>1, ConcatProperties
<1>3. UpTyped'
  BY <1>1, <1>2 DEF Pump, UpTyped
<1>4. EngineTyped'
  BY TypeParts, ConnKept, PictureKept, TimerKept, HistoryKept
     DEF Pump, EngineTyped, OutTyped
<1>5. version' \in Nat /\ ChannelTyped'
  BY TypeParts, ChannelKept DEF Pump
<1> QED BY <1>3, <1>4, <1>5, TypeJoined

LEMMA FireTyped ==
  ASSUME TypeOK, RundownTypeOK', NEW t \in timers, Fire(t)
  PROVE  TypeOK'
<1>1. t \in Timer
  BY DEF TypeOK
<1>2. TimerTyped'
  BY DEF Fire, TypeOK, TimerTyped
<1>3. [kind |-> "end", item |-> t.item, start |-> t.start] \in UpFrame
  BY <1>1 DEF Timer, UpFrame
<1>4. OutTyped'
  <2>1. outgoing \in Seq(UpFrame)
    BY DEF TypeOK
  <2>2. Append(outgoing, [kind |-> "end", item |-> t.item, start |-> t.start])
          \in Seq(UpFrame)
    BY <1>3, <2>1, AppendProperties
  <2> QED BY <2>1, <2>2, Zenon DEF Fire, OutTyped
<1>5. HistoryTyped'
  BY <1>1 DEF Fire, TypeOK, HistoryTyped, Timer
<1>6. EngineTyped'
  BY <1>2, <1>4, <1>5, TypeParts, ConnKept, PictureKept DEF Fire, EngineTyped
<1>7. version' \in Nat /\ ChannelTyped' /\ UpTyped'
  BY TypeParts, ChannelKept DEF Fire, UpTyped
<1> QED BY <1>6, <1>7, TypeJoined

LEMMA RenderFailsTyped == ASSUME TypeOK, RundownTypeOK', RenderFails PROVE TypeOK'
<1>1. slate' \in BOOLEAN /\ raised' \in BOOLEAN
  BY Zenon DEF RenderFails
<1>2. PictureTyped' /\ HistoryTyped'
  BY <1>1, TypeParts
     DEF RenderFails, EngineTyped, PictureTyped, HistoryTyped
<1>3. EngineTyped'
  BY <1>2, TypeParts, ConnKept, TimerKept DEF RenderFails, EngineTyped, OutTyped
<1>4. version' \in Nat /\ ChannelTyped' /\ UpTyped'
  BY TypeParts, ChannelKept DEF RenderFails, UpTyped
<1> QED BY <1>3, <1>4, TypeJoined

-----------------------------------------------------------------------------
(* Applying                                                                *)

\* What arrives is a frame, on a connection, and leaves frames behind it.
LEMMA ArrivingTyped ==
  ASSUME TypeOK, NEW f, Arriving(f), UNCHANGED <<sent, lost>>
  PROVE  f \in DownFrame /\ conn \in Conn /\ ChannelTyped'
<1>1. f \in DownFrame /\ down' \in Seq(DownFrame)
  BY HeadTailProperties DEF Arriving, TypeOK
<1>2. conn \in Conn
  BY MaxConnType DEF Arriving, TypeOK, Conn
<1> QED BY <1>1, <1>2, TypeParts DEF ChannelTyped

\* A playback that begins, and the timer it sets, have their types.
LEMMA BeginTyped ==
  ASSUME TypeOK, conn \in Conn, NEW i \in Item \union {Nothing}, Begin(i)
  PROVE  tracker' \in [Conn -> [item : Item \union {Nothing}, gen : Nat]]
  BY DEF TypeOK, Begin

LEMMA ScheduleTyped ==
  ASSUME TypeOK, conn \in Conn, NEW i \in Item \union {Nothing},
         NEW start \in Nat, start # 0 => i \in Item,
         tracker' \in [Conn -> [item : Item \union {Nothing}, gen : Nat]],
         Schedule(i, start)
  PROVE  timers' \subseteq Timer
<1>1. CASE start = 0
  BY <1>1 DEF Schedule, TypeOK
<1>2. CASE start # 0
  <2>1. [conn |-> conn, item |-> i, start |-> start, gen |-> tracker'[conn].gen]
          \in Timer
    BY <1>2 DEF Timer
  <2> QED BY <1>2, <2>1 DEF Schedule, TypeOK
<1> QED BY <1>1, <1>2

\* What an applied frame changes of the engine, short of where it reads next.
AppliedTyped ==
  /\ PictureTyped' /\ TimerTyped' /\ OutTyped'
  /\ raised' \in BOOLEAN /\ sound' \in BOOLEAN

\* A frame read and applied keeps the type.
LEMMA ReadTyped ==
  ASSUME TypeOK, RundownTypeOK', NEW f, Arriving(f), AppliedTyped,
         expected' \in Nat, heard' \in Picture,
         UNCHANGED <<version, sent, lost, up, conns, conn, muted>>
  PROVE  TypeOK'
<1>1. ChannelTyped'
  BY ArrivingTyped
<1>2. ConnTyped' /\ HistoryTyped'
  BY DEF TypeOK, ConnTyped, HistoryTyped, AppliedTyped
<1>3. version' \in Nat /\ UpTyped'
  BY DEF TypeOK, UpTyped
<1> QED BY <1>1, <1>2, <1>3, TypeJoined DEF AppliedTyped, EngineTyped

LEMMA ApplyTyped ==
  ASSUME TypeOK, conn \in Conn, NEW f \in DownFrame,
         \/ ApplyTake(f) \/ ApplyRecall(f) \/ ApplyFallback \/ ApplyLoad(f)
         \/ ApplyClock(f) \/ ApplyOther
  PROVE  AppliedTyped
<1>0. /\ f.item \in Item \union {Nothing} /\ f.start \in Nat /\ f.load \in Nat
      /\ (f.start # 0 => f.item \in Item)
  BY DEF DownFrame
<1>1. TimerTyped'
  <2>1. CASE ApplyTake(f) \/ ApplyRecall(f)
    BY <1>0, <2>1, BeginTyped, ScheduleTyped DEF ApplyTake, ApplyRecall, TimerTyped
  <2>2. CASE ~(ApplyTake(f) \/ ApplyRecall(f))
    BY <2>2, TypeParts, TimerKept
       DEF EngineTyped, ApplyFallback, ApplyLoad, ApplyClock, ApplyOther
  <2> QED BY <2>1, <2>2
<1>2. slate' \in BOOLEAN /\ running' \in BOOLEAN
  BY Zenon
     DEF TypeOK, ApplyTake, ApplyRecall, ApplyFallback, ApplyLoad, ApplyClock,
         ApplyOther, pictureVars
<1>3. raised' \in BOOLEAN /\ sound' \in BOOLEAN
  BY Zenon
     DEF TypeOK, ApplyTake, ApplyRecall, ApplyFallback, ApplyLoad, ApplyClock,
         ApplyOther
<1>4. view' \in Item \union {Nothing} /\ loaded' \in Nat /\ OutTyped'
  BY <1>0 DEF TypeOK, OutTyped, ApplyTake, ApplyRecall, ApplyFallback,
     ApplyLoad, ApplyClock, ApplyOther, pictureVars
<1> QED BY <1>1, <1>2, <1>3, <1>4 DEF AppliedTyped, PictureTyped

LEMMA ApplyResyncTyped ==
  ASSUME TypeOK, conn \in Conn, NEW f \in DownFrame, NEW loadable \in BOOLEAN,
         ApplyResync(f, loadable)
  PROVE  AppliedTyped
<1>0. /\ f.item \in Item \union {Nothing} /\ f.start \in Nat /\ f.load \in Nat
      /\ (f.start # 0 => f.item \in Item)
      /\ f.picture.view \in Item \union {Nothing}
  BY DEF DownFrame, Picture
<1>1. TimerTyped'
  <2>1. tracker' \in [Conn -> [item : Item \union {Nothing}, gen : Nat]]
    BY <1>0, BeginTyped DEF ApplyResync, TypeOK
  <2> QED BY <1>0, <2>1, ScheduleTyped DEF ApplyResync, TimerTyped
<1>2. slate' \in BOOLEAN /\ running' \in BOOLEAN
  BY Zenon DEF ApplyResync
<1>3. raised' \in BOOLEAN /\ sound' \in BOOLEAN
  BY Zenon DEF ApplyResync
<1>4. view' \in Item \union {Nothing} /\ loaded' \in Nat
  BY <1>0 DEF TypeOK, ApplyResync
<1>5. OutTyped'
  <2>1. ASSUME f.picture.view # Nothing
        PROVE  [kind |-> "missing", item |-> f.picture.view, start |-> 0]
                 \in UpFrame
    BY <1>0, <2>1 DEF UpFrame
  <2> QED BY <2>1, AppendProperties DEF TypeOK, OutTyped, ApplyResync
<1> QED BY <1>1, <1>2, <1>3, <1>4, <1>5 DEF AppliedTyped, PictureTyped

LEMMA ReadingTyped == ASSUME TypeOK, RundownTypeOK', Read PROVE TypeOK'
<1>1. ASSUME ReadResync PROVE TypeOK'
  <2>0. PICK f :
          /\ Arriving(f)
          /\ \E loadable \in Loadable : ApplyResync(f, loadable)
          /\ expected' = f.seq + 1
          /\ heard' = f.picture
          /\ UNCHANGED <<version, sent, lost, up, conns, conn, muted>>
    BY <1>1, Zenon DEF ReadResync
  <2>1. PICK loadable \in BOOLEAN : ApplyResync(f, loadable)
    BY <2>0, Zenon DEF Loadable
  <2>2. f \in DownFrame /\ conn \in Conn
    BY <2>0, ArrivingTyped
  <2>3. expected' \in Nat /\ heard' \in Picture
    BY <2>0, <2>2 DEF DownFrame
  <2>4. AppliedTyped
    BY <2>1, <2>2, ApplyResyncTyped
  <2> QED BY <2>0, <2>3, <2>4, ReadTyped
<1>2. ASSUME ReadDirective PROVE TypeOK'
  <2>1. PICK f :
          /\ Arriving(f)
          /\ \/ ApplyTake(f) \/ ApplyRecall(f) \/ ApplyFallback \/ ApplyLoad(f)
             \/ ApplyClock(f) \/ ApplyOther
          /\ expected' = expected + 1
          /\ heard' = f.picture
          /\ UNCHANGED <<version, sent, lost, up, conns, conn, muted>>
    BY <1>2 DEF ReadDirective
  <2>2. f \in DownFrame /\ conn \in Conn
    BY <2>1, ArrivingTyped
  <2>3. expected' \in Nat /\ heard' \in Picture
    BY <2>1, <2>2 DEF DownFrame, TypeOK
  <2> QED BY <2>1, <2>2, <2>3, ApplyTyped, ReadTyped
<1>3. ASSUME FailLoad PROVE TypeOK'
  <2>1. PICK f :
          /\ Arriving(f)
          /\ expected' = expected + 1
          /\ sound' = FALSE
          /\ UNCHANGED <<version, sent, lost, up, conns, conn, pictureVars,
                         timerVars, outgoing, heard, raised, muted>>
    BY <1>3 DEF FailLoad
  <2>2. sound' \in BOOLEAN
    BY <2>1, Zenon
  <2>3. AppliedTyped
    BY <2>1, <2>2, TypeParts, PictureKept, TimerKept
       DEF AppliedTyped, EngineTyped, HistoryTyped, OutTyped
  <2>4. expected' \in Nat /\ heard' \in Picture
    BY <2>1 DEF TypeOK
  <2> QED BY <2>1, <2>3, <2>4, ReadTyped
<1>4. ASSUME TurnAway PROVE TypeOK'
  <2>1. PICK f :
          /\ Arriving(f)
          /\ outgoing' = IF expected = 0 THEN outgoing
                         ELSE Append(outgoing, [kind |-> "resyncRequest"])
          /\ UNCHANGED <<version, sent, lost, up, connVars, pictureVars,
                         timerVars, historyVars>>
    BY <1>4 DEF TurnAway
  <2>2. [kind |-> "resyncRequest"] \in UpFrame
    BY DEF UpFrame
  <2>3. OutTyped'
    BY <2>1, <2>2, AppendProperties DEF TypeOK, OutTyped
  <2>4. EngineTyped'
    BY <2>1, <2>3, TypeParts, ConnKept, PictureKept, TimerKept, HistoryKept
       DEF EngineTyped
  <2>5. ChannelTyped'
    BY <2>1, ArrivingTyped
  <2>6. version' \in Nat /\ UpTyped'
    BY <2>1 DEF TypeOK, UpTyped
  <2> QED BY <2>4, <2>5, <2>6, TypeJoined
<1> QED BY <1>1, <1>2, <1>3, <1>4 DEF Read

-----------------------------------------------------------------------------
(* The control plane's rundown is module Rundown's                         *)

\* A command is a rundown step.
LEMMA OperateFollows == ASSUME TypeOK, Operate PROVE [RundownNext]_rundownVars
<1>1. ASSUME NEW i \in Item, TakeCommand(i) PROVE RundownNext
  BY <1>1 DEF TakeCommand, RundownNext
<1>2. ASSUME NEW n \in SnapshotName, RecallCommand(n) PROVE RundownNext
  BY <1>2 DEF RecallCommand, RundownNext
<1>3. ASSUME IdleCommand PROVE RundownNext
  BY <1>3 DEF IdleCommand, RundownNext
<1>4. ASSUME SilentCommand PROVE [RundownNext]_rundownVars
  BY <1>4 DEF SilentCommand, CutOnAir, RundownNext
<1>5. ASSUME FallbackCommand \/ StartCommand \/ StopCommand PROVE RundownNext
  BY <1>5 DEF FallbackCommand, StartCommand, StopCommand, RundownNext
<1>6. ASSUME LoadCommand PROVE RundownNext
  <2>1. version + 1 \in Nat \ {0} /\ ShowLoad(version + 1)
    BY <1>6 DEF LoadCommand, TypeOK
  <2> QED BY <2>1 DEF RundownNext
<1>7. ASSUME AskLoad \/ RefuseLoad PROVE RundownNext
  BY <1>7 DEF AskLoad, RefuseLoad, RundownNext
<1> QED
  BY <1>1, <1>2, <1>3, <1>4, <1>5, <1>6, <1>7 DEF Operate

\* So is whatever the engine reports, late, twice or never.
LEMMA ReceiveFollows ==
  ASSUME TypeOK, NEW c \in Conn, Receive(c)
  PROVE  [RundownNext]_rundownVars
<1>1. ASSUME ReceiveRequest(c) PROVE UNCHANGED rundownVars
  BY <1>1 DEF ReceiveRequest
<1>2. ASSUME ReceiveEvent(c) PROVE RundownNext
  <2>1. Head(up[c]) \in UpFrame
    BY <1>2, HeardTyped DEF ReceiveEvent
  <2>2. PICK i \in Item : MarkDone(i) \/ MarkFailed(i, "MISSING")
    BY <1>2, <2>1 DEF ReceiveEvent, UpFrame
  <2> QED BY <2>2 DEF RundownNext
<1> QED BY <1>1, <1>2 DEF Receive

LEMMA StepFollows == TypeOK /\ [Next]_vars => [RundownNext]_rundownVars
<1> SUFFICES ASSUME TypeOK, [Next]_vars PROVE [RundownNext]_rundownVars
  OBVIOUS
<1>1. ASSUME \/ Connect \/ Disconnect \/ Restart \/ Pump \/ RenderFails \/ Read
             \/ \E t \in timers : Fire(t)
      PROVE  UNCHANGED rundownVars
  BY <1>1 DEF Connect, Disconnect, Restart, Pump, RenderFails, Read,
     ReadResync, ReadDirective, FailLoad, TurnAway, Fire
<1>2. ASSUME UNCHANGED vars PROVE UNCHANGED rundownVars
  BY <1>2 DEF vars
<1> QED BY <1>1, <1>2, OperateFollows, ReceiveFollows DEF Next

-----------------------------------------------------------------------------
(* The theorems                                                            *)

LEMMA InitTyped == Init => TypeOK
<1> SUFFICES ASSUME Init PROVE TypeOK
  OBVIOUS
<1>1. RundownTypeOK
  BY InitHolds DEF Init, RundownInv
<1>2. /\ lost \in BOOLEAN /\ slate \in BOOLEAN /\ running \in BOOLEAN
      /\ raised \in BOOLEAN /\ sound \in BOOLEAN
  BY Zenon DEF Init
<1>3. heard \in Picture
  <2>1. FALSE \in BOOLEAN
    BY Zenon
  <2> QED BY <2>1 DEF Init, DarkPicture, Picture, ShowState
<1>4. ChannelTyped /\ UpTyped /\ version \in Nat
  BY <1>2 DEF Init, ChannelTyped, UpTyped
<1>5. ConnTyped /\ OutTyped
  BY MaxConnType DEF Init, ConnTyped, OutTyped
<1>6. PictureTyped /\ HistoryTyped
  BY <1>2, <1>3 DEF Init, PictureTyped, HistoryTyped
<1>7. TimerTyped
  BY DEF Init, TimerTyped
<1> QED BY <1>1, <1>4, <1>5, <1>6, <1>7, TypeParts DEF EngineTyped

LEMMA StepTyped ==
  TypeOK /\ RundownInv /\ [Next]_vars => TypeOK' /\ RundownInv'
<1> SUFFICES ASSUME TypeOK, RundownInv, [Next]_vars
             PROVE  TypeOK' /\ RundownInv'
  OBVIOUS
<1>1. RundownInv'
  BY StepFollows, RundownStep
<1>2. RundownTypeOK'
  BY <1>1 DEF RundownInv
<1>3. ASSUME UNCHANGED vars PROVE TypeOK'
  BY <1>2, <1>3, SilentTyped DEF vars, TypeOK
<1>4. TypeOK'
  BY <1>2, <1>3, OperateTyped, ReceiveTyped, ConnectTyped, DisconnectTyped,
     RestartTyped, PumpTyped, FireTyped, RenderFailsTyped, ReadingTyped
     DEF Next
<1> QED BY <1>1, <1>4

\* Type correctness of playback, for all constants.
THEOREM TypeCorrect == Spec => []TypeOK
<1>1. Init => TypeOK /\ RundownInv
  BY InitTyped, InitHolds DEF Init
<1>2. Spec => [](TypeOK /\ RundownInv)
  BY <1>1, StepTyped, PTL DEF Spec
<1> QED BY <1>2, PTL

\* Seen from the rundown, playback takes only the rundown's steps.
THEOREM PlaybackFollowsRundown == Spec => RundownSpec
<1>1. Init => RundownInit
  BY DEF Init
<1> QED BY <1>1, StepFollows, TypeCorrect, PTL DEF Spec, RundownSpec

\* Whatever the operator does and whatever the engine reports, however late,
\* one item at most is on air, it is the one on the View, and it is not on the
\* Preview.
THEOREM OneItemOnAirInPlayback == Spec => [](OnAirIsOnView /\ PreviewIsOffAir)
  BY PlaybackFollowsRundown, OneItemOnAir, PTL

-----------------------------------------------------------------------------
(* The audience's picture.                                                 *)
(*                                                                         *)
(* PictureFollows speaks of the newest frame applied, so its induction     *)
(* needs the frames still to come: each continues the picture of the frame *)
(* its number follows, and the newest frame sent has the control plane's   *)
(* picture of now.  A number is missing where the socket refused a frame,  *)
(* and the gate reads nothing across the hole.                             *)

\* What a directive does to the picture it finds.
Follows(p, f) ==
  \/ /\ f.command = "take"
     /\ f.picture.show = p.show /\ f.picture.view = f.item /\ ~f.picture.slate
  \/ /\ f.command = "recall"
     /\ f.picture.show = p.show /\ f.picture.view = f.item
     /\ (f.picture.slate <=> p.slate)
  \/ /\ f.command = "fallback"
     /\ f.picture.show = p.show /\ f.picture.slate
  \/ /\ f.command = "load"
     /\ f.picture.view = Nothing /\ ~f.picture.slate
  \/ /\ f.command = "start" /\ p.show = "LOADED"
     /\ f.picture.view = p.view /\ (f.picture.slate <=> p.slate)
  \/ /\ f.command = "stop" /\ f.picture.show = "STOPPED"
  \/ /\ f.command = "other"
     /\ f.picture = p \/ f.picture.show = "UNLOADED"

PictureNow == [show |-> show, view |-> viewItem, slate |-> fallbackActive]

Continues(p, f) == f.command # "resync" => Follows(p, f)

\* The frames on their way are numbered upwards, from where the gate reads on.
Numbered ==
  /\ conn # 0 => sent > 0 /\ expected <= sent
  /\ conn = 0 => down = <<>>
  /\ \A i \in DOMAIN down : expected <= down[i].seq /\ down[i].seq < sent
  /\ \A i, j \in DOMAIN down : i < j => down[i].seq < down[j].seq

\* A frame continues the one its number follows.
Linked ==
  /\ \A i, j \in DOMAIN down :
       down[j].seq = down[i].seq + 1 => Continues(down[i].picture, down[j])
  /\ \A j \in DOMAIN down :
       expected # 0 /\ down[j].seq = expected => Continues(heard, down[j])

\* The newest frame sent has the picture of now, if the socket took it.
Latest ==
  /\ \A i \in DOMAIN down : down[i].seq + 1 = sent => down[i].picture = PictureNow
  /\ conn # 0 /\ expected = sent => heard = PictureNow

\* With every load a success nothing is reported missing.
NothingMissing ==
  /\ \A k \in DOMAIN outgoing : outgoing[k].kind # "missing"
  /\ \A c \in Conn : \A k \in DOMAIN up[c] : up[c][k].kind # "missing"

PictureInv ==
  /\ PictureFollows
  /\ Numbered
  /\ sound => Linked /\ Latest /\ NothingMissing

\* The engine starts dark, and nothing is on its way.
LEMMA InitPicture == Init => PictureInv
  BY DEF Init, RundownInit, PictureInv, PictureFollows, Numbered, Linked,
         Latest, NothingMissing, DarkPicture

\* A frame sent continues the picture of now, and has the picture after it.
LEMMA SendPicture ==
  ASSUME TypeOK, Numbered, NEW frame \in DownFrame, frame.seq = sent,
         Send(frame), UNCHANGED <<conn, expected, heard>>,
         sound => /\ Linked /\ Latest
                  /\ Continues(PictureNow, frame) /\ frame.picture = PictureNow'
  PROVE  Numbered' /\ (sound => Linked' /\ Latest')
<1>0. /\ down \in Seq(DownFrame) /\ sent \in Nat /\ expected \in Nat
      /\ \A i \in DOMAIN down : down[i].seq \in Nat
  BY DEF TypeOK, DownFrame
<1>1. CASE conn = 0
  <2>1. down' = <<>> /\ DOMAIN down' = {}
    BY <1>1 DEF Send, Numbered, channelVars
  <2> QED BY <1>1, <2>1 DEF Numbered, Linked, Latest
<1>2. CASE conn # 0 /\ UNCHANGED down /\ sent' = sent + 1
  BY <1>0, <1>2 DEF Numbered, Linked, Latest
<1>3. CASE conn # 0 /\ down' = Append(down, frame) /\ sent' = sent + 1
  <2> DEFINE n == Len(down) + 1
  <2>1. /\ DOMAIN down' = 1..n /\ DOMAIN down = 1..(n-1) /\ n \in Nat
        /\ down'[n] = frame
        /\ \A i \in 1..(n-1) : down'[i] = down[i]
    BY <1>0, <1>3
  <2> HIDE DEF n
  <2>2. \A i \in 1..n : i = n \/ i \in 1..(n-1)
    BY <2>1
  <2>3. Numbered'
    BY <1>0, <1>3, <2>1, <2>2 DEF Numbered
  <2>4. ASSUME sound PROVE Linked'
    <3>1. ASSUME NEW i \in 1..(n-1), frame.seq = down[i].seq + 1
          PROVE  Continues(down[i].picture, frame)
      BY <2>1, <2>4, <3>1 DEF Latest
    <3>2. ASSUME expected # 0, frame.seq = expected PROVE Continues(heard, frame)
      BY <1>3, <2>4, <3>2 DEF Latest
    <3>3. ASSUME NEW i \in 1..n, NEW j \in 1..n, down'[j].seq = down'[i].seq + 1
          PROVE  Continues(down'[i].picture, down'[j])
      <4>1. i \in 1..(n-1)
        <5>1. ASSUME i = n PROVE FALSE
          BY <1>0, <2>1, <2>2, <3>3, <5>1 DEF Numbered
        <5> QED BY <5>1, <2>2
      <4>2. CASE j = n
        BY <2>1, <3>1, <3>3, <4>1, <4>2
      <4>3. CASE j \in 1..(n-1)
        BY <2>1, <2>4, <3>3, <4>1, <4>3 DEF Linked
      <4> QED BY <2>2, <4>2, <4>3
    <3>4. ASSUME NEW j \in 1..n, expected # 0, down'[j].seq = expected
          PROVE  Continues(heard, down'[j])
      BY <2>1, <2>2, <2>4, <3>2, <3>4 DEF Linked
    <3> QED BY <2>1, <3>3, <3>4 DEF Linked, Continues, Follows
  <2>5. ASSUME sound PROVE Latest'
    BY <1>0, <1>3, <2>1, <2>2, <2>5 DEF Latest, Numbered
  <2> QED BY <2>3, <2>4, <2>5
<1> QED BY <1>1, <1>2, <1>3 DEF Send

\* A step that touches neither the engine nor what goes up.
LEMMA EngineIdle ==
  ASSUME PictureInv, UNCHANGED <<up, engineVars>>,
         Numbered', sound => Linked' /\ Latest'
  PROVE  PictureInv'
  BY DEF PictureInv, PictureFollows, NothingMissing, engineVars, connVars,
         pictureVars, historyVars

\* A command's directive says what the command did to the picture.
LEMMA AcceptPicture ==
  ASSUME TypeOK, RundownTypeOK', PictureInv, NEW command \in Command,
         NEW item \in Item \union {Nothing}, NEW start \in Nat, NEW load \in Nat,
         start # 0 => item \in Item, command # "resync",
         Follows(PictureNow, Directive(command, item, start, load)),
         Accept(command, item, start, load)
  PROVE  PictureInv'
<1> DEFINE d == Directive(command, item, start, load)
<1>1. d \in DownFrame
  BY DirectiveTyped
<1>2. d.seq = sent /\ d.picture = PictureNow'
  BY DEF Directive, PictureNow, PictureAfter
<1>3. Send(d) /\ UNCHANGED <<up, engineVars>>
  BY DEF Accept
<1>4. Continues(PictureNow, d)
  BY DEF Continues
<1> HIDE DEF d
<1>5. Numbered' /\ (sound => Linked' /\ Latest')
  BY <1>1, <1>2, <1>3, <1>4, SendPicture
     DEF PictureInv, engineVars, connVars, historyVars
<1> QED BY <1>3, <1>5, EngineIdle

\* A command with no directive leaves the picture as it is.
LEMMA SilentPicture ==
  ASSUME PictureInv, UNCHANGED <<channelVars, up, engineVars>>,
         PictureNow' = PictureNow
  PROVE  PictureInv'
<1>1. Numbered'
  BY DEF PictureInv, Numbered, channelVars, engineVars, connVars
<1>2. ASSUME sound PROVE Linked' /\ Latest'
  BY <1>2 DEF PictureInv, Linked, Latest, channelVars, engineVars, connVars,
     historyVars
<1> QED BY <1>1, <1>2, EngineIdle DEF engineVars

\* What a command's handler does to the picture, and what its directive says.
LEMMA OperatePicture ==
  ASSUME TypeOK, RundownTypeOK', PictureInv, Operate
  PROVE  PictureInv'
<1>0. /\ version \in Nat /\ starts \in Nat /\ viewItem \in Item \union {Nothing}
      /\ fallbackActive \in BOOLEAN /\ Nothing \notin Item
      /\ {"take", "recall", "fallback", "load", "start", "stop", "other"}
           \subseteq Command
  BY NothingIsNothing DEF TypeOK, RundownTypeOK, Command
<1>1. \A i \in Item \union {Nothing} :
        StartOf(i) \in Nat /\ (StartOf(i) # 0 => i \in Item)
  BY <1>0, TimedAreItems DEF StartOf
<1>2. ASSUME Forward, PictureNow' = PictureNow \/ show' = "UNLOADED"
      PROVE  PictureInv'
  <2>1. Follows(PictureNow, Directive("other", Nothing, 0, 0))
    BY <1>2 DEF Follows, Directive, PictureAfter, PictureNow
  <2> QED BY <1>0, <1>2, <2>1, AcceptPicture DEF Forward
<1>3. ASSUME NEW i \in Item, TakeCommand(i) PROVE PictureInv'
  <2>1. Take(i) /\ show' = show
    BY <1>3 DEF TakeCommand, ViewTake, ViewCut, lifecycleVars
  <2>2. ~fallbackActive' /\ viewItem' = i
    BY <2>1 DEF Take
  <2>3. Follows(PictureNow, Directive("take", i, StartOf(i), 0))
    BY <2>1, <2>2 DEF Follows, Directive, PictureAfter, PictureNow
  <2> QED BY <1>0, <1>1, <1>3, <2>3, AcceptPicture DEF TakeCommand
<1>4. ASSUME NEW n \in SnapshotName, RecallCommand(n) PROVE PictureInv'
  <2> DEFINE i == snapshots[n].viewItem
  <2>1. /\ i \in Item \union {Nothing}
        /\ show' = show /\ viewItem' = i /\ fallbackActive' = fallbackActive
    BY <1>4 DEF RecallCommand, SnapshotRecall, TypeOK, RundownTypeOK, Snapshot,
       lifecycleVars
  <2>2. CASE i = viewItem
    BY <1>2, <1>4, <2>1, <2>2 DEF RecallCommand, PictureNow
  <2>3. CASE i # viewItem
    <3>1. Accept("recall", i, StartOf(i), 0)
      BY <1>4, <2>3 DEF RecallCommand
    <3> HIDE DEF i
    <3>2. Follows(PictureNow, Directive("recall", i, StartOf(i), 0))
      BY <2>1 DEF Follows, Directive, PictureAfter, PictureNow
    <3> QED BY <1>0, <1>1, <2>1, <3>1, <3>2, AcceptPicture
  <2> QED BY <2>2, <2>3
<1>5. ASSUME IdleCommand PROVE PictureInv'
  <2>1. PictureNow' = PictureNow \/ show' = "UNLOADED"
    BY <1>5 DEF IdleCommand, ArmItem, UnarmItem, PreviewSet, ItemStop,
       ItemReset, SceneArm, ShowUnload, lifecycleVars, viewVars, PictureNow
  <2> QED BY <1>2, <1>5, <2>1 DEF IdleCommand
<1>6. ASSUME SilentCommand PROVE PictureInv'
  <2>1. PictureNow' = PictureNow
    BY <1>6 DEF SilentCommand, SnapshotSave, CutOnAir, viewVars, rundownVars,
       PictureNow
  <2> QED BY <1>6, <2>1, SilentPicture DEF SilentCommand, AcceptSilently
<1>7. ASSUME FallbackCommand PROVE PictureInv'
  <2>1. fallbackActive' /\ show' = show
    BY <1>7 DEF FallbackCommand, ViewFallback, lifecycleVars
  <2>2. Follows(PictureNow, Directive("fallback", Nothing, 0, 0))
    BY <2>1 DEF Follows, Directive, PictureAfter, PictureNow
  <2> QED BY <1>0, <1>7, <2>2, AcceptPicture DEF FallbackCommand
<1>8. ASSUME StartCommand PROVE PictureInv'
  <2>1. /\ show = "LOADED" /\ viewItem' = viewItem
        /\ fallbackActive' = fallbackActive
    BY <1>8 DEF StartCommand, ShowStart, viewVars
  <2>2. Follows(PictureNow, Directive("start", Nothing, 0, 0))
    BY <2>1 DEF Follows, Directive, PictureAfter, PictureNow
  <2> QED BY <1>0, <1>8, <2>2, AcceptPicture DEF StartCommand
<1>9. ASSUME StopCommand PROVE PictureInv'
  <2>1. show' = "STOPPED"
    BY <1>9 DEF StopCommand, ShowStop
  <2>2. Follows(PictureNow, Directive("stop", Nothing, 0, 0))
    BY <2>1 DEF Follows, Directive, PictureAfter
  <2> QED BY <1>0, <1>9, <2>2, AcceptPicture DEF StopCommand
<1>10. ASSUME LoadCommand PROVE PictureInv'
  <2>1. viewItem' = Nothing /\ ~fallbackActive'
    BY <1>10 DEF LoadCommand, ShowLoad, Cleared
  <2>2. Follows(PictureNow, Directive("load", Nothing, 0, version + 1))
    BY <2>1 DEF Follows, Directive, PictureAfter
  <2> QED BY <1>0, <1>10, <2>2, AcceptPicture DEF LoadCommand
<1>11. ASSUME AskLoad \/ RefuseLoad PROVE PictureInv'
  BY <1>11, SilentPicture
     DEF AskLoad, RefuseLoad, LoadAsked, LoadRefused, viewVars, PictureNow
<1> QED
  BY <1>3, <1>4, <1>5, <1>6, <1>7, <1>8, <1>9, <1>10, <1>11 DEF Operate

\* Reading what came up leaves less of it.
LEMMA HeardMissing ==
  ASSUME TypeOK, NothingMissing, NEW c \in Conn, up[c] # <<>>,
         up' = [up EXCEPT ![c] = Tail(@)], UNCHANGED outgoing
  PROVE  NothingMissing'
<1>1. up \in [Conn -> Seq(UpFrame)]
  BY DEF TypeOK
<1>2. \A d \in Conn : \A k \in DOMAIN up'[d] :
        \E l \in DOMAIN up[d] : up'[d][k] = up[d][l]
  <2> SUFFICES ASSUME NEW d \in Conn, NEW k \in DOMAIN up'[d]
               PROVE  \E l \in DOMAIN up[d] : up'[d][k] = up[d][l]
    OBVIOUS
  <2>1. CASE d = c
    <3>1. up'[d] = Tail(up[d]) /\ up[d] \in Seq(UpFrame) /\ up[d] # <<>>
      BY <1>1, <2>1
    <3>2. Len(up[d]) \in Nat \ {0} /\ DOMAIN up[d] = 1..Len(up[d])
      BY <3>1
    <3>4. /\ Tail(up[d]) \in Seq(UpFrame)
          /\ Len(Tail(up[d])) = Len(up[d]) - 1
          /\ \A i \in 1..Len(Tail(up[d])) : Tail(up[d])[i] = up[d][i + 1]
      BY <3>1, HeadTailProperties
    <3>5. \A s \in Seq(UpFrame) : DOMAIN s = 1..Len(s)
      OBVIOUS
    <3>6. DOMAIN Tail(up[d]) = 1..Len(Tail(up[d]))
      BY <3>4, <3>5, Zenon
    <3>7. k \in 1..Len(Tail(up[d]))
      BY <3>1, <3>6, Zenon
    <3>3. k \in 1..(Len(up[d]) - 1) /\ up'[d][k] = up[d][k + 1]
      BY <3>1, <3>4, <3>7
    <3> QED BY <3>2, <3>3
  <2>2. CASE d # c
    BY <1>1, <2>2
  <2> QED BY <2>1, <2>2
<1> QED BY <1>2 DEF NothingMissing

\* An end leaves the picture as it is; with every load a success nothing else
\* is reported.  A request is answered with the picture of now.
LEMMA ReceivePicture ==
  ASSUME TypeOK, RundownTypeOK', PictureInv, NEW c \in Conn, Receive(c)
  PROVE  PictureInv'
<1>0. UNCHANGED engineVars /\ up[c] # <<>> /\ up' = [up EXCEPT ![c] = Tail(@)]
  BY DEF Receive, ReceiveEvent, ReceiveRequest
<1>1. PictureFollows'
  BY <1>0 DEF PictureInv, PictureFollows, engineVars, pictureVars, historyVars
<1>2. sound => NothingMissing'
  BY <1>0, HeardMissing DEF PictureInv, engineVars
<1>3. ASSUME ReceiveEvent(c) PROVE PictureInv'
  <2>1. Numbered'
    BY <1>0, <1>3
       DEF ReceiveEvent, PictureInv, Numbered, channelVars, engineVars, connVars
  <2>2. ASSUME sound PROVE Linked' /\ Latest'
    <3>1. up[c] \in Seq(UpFrame)
      BY DEF TypeOK
    <3>2. Head(up[c]).kind # "missing"
      BY <1>0, <2>2, <3>1 DEF PictureInv, NothingMissing
    <3>3. PictureNow' = PictureNow
      BY <1>3, <3>2
         DEF ReceiveEvent, MarkDone, lifecycleVars, viewVars, PictureNow
    <3> QED BY <1>0, <1>3, <2>2, <3>3
            DEF PictureInv, ReceiveEvent, Linked, Latest, channelVars,
                engineVars, connVars, historyVars
  <2> QED BY <1>0, <1>1, <1>2, <2>1, <2>2
          DEF PictureInv, engineVars, historyVars
<1>4. ASSUME ReceiveRequest(c) PROVE PictureInv'
  <2>1. PictureNow' = PictureNow
    BY <1>4 DEF ReceiveRequest, rundownVars, PictureNow
  <2>2. CASE c = conn
    <3>1. Resync(sent) \in DownFrame
      BY ResyncTyped DEF TypeOK
    <3>2. /\ Resync(sent).seq = sent /\ Resync(sent).picture = PictureNow
          /\ Resync(sent).command = "resync"
      BY DEF Resync, PictureNow
    <3>3. Send(Resync(sent))
      BY <1>4, <2>2 DEF ReceiveRequest
    <3> HIDE DEF Resync
    <3>4. Numbered' /\ (sound => Linked' /\ Latest')
      BY <1>0, <2>1, <3>1, <3>2, <3>3, SendPicture
         DEF PictureInv, Continues, engineVars, connVars, historyVars
    <3> QED BY <1>0, <1>1, <1>2, <3>4 DEF PictureInv, engineVars, historyVars
  <2>3. CASE c # conn
    <3>1. Numbered'
      BY <1>0, <1>4, <2>3 DEF ReceiveRequest, PictureInv, Numbered,
         channelVars, engineVars, connVars
    <3>2. ASSUME sound PROVE Linked' /\ Latest'
      BY <1>0, <1>4, <2>1, <2>3, <3>2
         DEF ReceiveRequest, PictureInv, Linked, Latest, channelVars,
             engineVars, connVars, historyVars
    <3> QED BY <1>0, <1>1, <1>2, <3>1, <3>2
            DEF PictureInv, engineVars, historyVars
  <2> QED BY <2>2, <2>3
<1> QED BY <1>3, <1>4 DEF Receive

\* A new connection starts from the picture of now.
LEMMA ConnectPicture ==
  ASSUME TypeOK, PictureInv, Connect
  PROVE  PictureInv'
<1>1. /\ conn' # 0 /\ expected' = 0 /\ sent' = 1
      /\ down' = <<Resync(0)>>
      /\ UNCHANGED <<rundownVars, up, pictureVars, outgoing, historyVars>>
  BY DEF Connect, TypeOK
<1>2. Resync(0).seq = 0 /\ Resync(0).picture = PictureNow
  BY DEF Resync, PictureNow
<1>3. DOMAIN down' = {1} /\ down'[1].seq = 0 /\ down'[1].picture = PictureNow
  <2> HIDE DEF Resync
  <2> QED BY <1>1, <1>2
<1>4. PictureNow' = PictureNow
  BY <1>1 DEF rundownVars, PictureNow
<1>5. Numbered' /\ Linked' /\ Latest'
  BY <1>1, <1>3, <1>4 DEF Numbered, Linked, Latest
<1>6. PictureFollows' /\ sound' = sound
  BY <1>1 DEF PictureInv, PictureFollows, pictureVars, historyVars
<1>7. sound => NothingMissing'
  BY <1>1 DEF PictureInv, NothingMissing
<1> QED BY <1>5, <1>6, <1>7 DEF PictureInv

\* With no connection nothing is on its way.
LEMMA DropPicture ==
  ASSUME TypeOK, PictureInv, Drop, outgoing' = outgoing \/ outgoing' = <<>>
  PROVE  /\ Numbered' /\ Linked' /\ Latest'
         /\ sound => NothingMissing'
<1>1. conn' = 0 /\ expected' = 0 /\ down' = <<>> /\ DOMAIN down' = {}
  BY DEF Drop
<1>2. Numbered' /\ Linked' /\ Latest'
  BY <1>1 DEF Numbered, Linked, Latest
<1>3. PICK n \in 0..Len(up[conn]) :
        up' = [up EXCEPT ![conn] = SubSeq(up[conn], 1, n)]
  BY DEF Drop
<1>4. conn \in Conn /\ up \in [Conn -> Seq(UpFrame)]
  BY MaxConnType DEF Drop, TypeOK, Conn
<1>5. \A c \in Conn : \A k \in DOMAIN up'[c] :
        k \in DOMAIN up[c] /\ up'[c][k] = up[c][k]
  <2> SUFFICES ASSUME NEW c \in Conn, NEW k \in DOMAIN up'[c]
               PROVE  k \in DOMAIN up[c] /\ up'[c][k] = up[c][k]
    OBVIOUS
  <2>1. CASE c = conn
    <3>1. up'[c] = SubSeq(up[c], 1, n) /\ up[c] \in Seq(UpFrame)
      BY <1>3, <1>4, <2>1
    <3>2. n \in 0..Len(up[c])
      BY <2>1
    <3> QED BY <3>1, <3>2
  <2>2. CASE c # conn
    BY <1>3, <1>4, <2>2
  <2> QED BY <2>1, <2>2
<1>6. ASSUME sound PROVE NothingMissing'
  BY <1>5, <1>6 DEF PictureInv, NothingMissing
<1> QED BY <1>2, <1>6

LEMMA DisconnectPicture ==
  ASSUME TypeOK, PictureInv, Disconnect \/ Restart
  PROVE  PictureInv'
<1>1. /\ Numbered' /\ Linked' /\ Latest'
      /\ sound => NothingMissing'
  BY DropPicture DEF Disconnect, Restart
<1>2. PictureFollows' /\ sound' = sound
  BY DEF PictureInv, PictureFollows, Disconnect, Restart, pictureVars,
     historyVars, DarkPicture
<1> QED BY <1>1, <1>2 DEF PictureInv

\* What the engine does between frames leaves the frames alone.
LEMMA FramesIdle ==
  ASSUME PictureInv, PictureFollows', sound => NothingMissing',
         UNCHANGED <<rundownVars, channelVars, connVars, heard, sound>>
  PROVE  PictureInv'
<1>1. PictureNow' = PictureNow
  BY DEF rundownVars, PictureNow
<1>2. Numbered'
  BY DEF PictureInv, Numbered, channelVars, connVars
<1>3. ASSUME sound PROVE Linked' /\ Latest'
  BY <1>1, <1>3 DEF PictureInv, Linked, Latest, channelVars, connVars
<1> QED BY <1>2, <1>3 DEF PictureInv

LEMMA PumpPicture ==
  ASSUME TypeOK, PictureInv, Pump
  PROVE  PictureInv'
<1>1. conn \in Conn /\ up \in [Conn -> Seq(UpFrame)] /\ outgoing \in Seq(UpFrame)
  BY MaxConnType DEF Pump, TypeOK, Conn
<1>2. ASSUME NEW c \in Conn, NEW k \in DOMAIN up'[c]
      PROVE  \/ \E l \in DOMAIN up[c] : up'[c][k] = up[c][l]
             \/ \E l \in DOMAIN outgoing : up'[c][k] = outgoing[l]
  <2>1. CASE c = conn
    <3>1. up'[c] = up[c] \o outgoing /\ up[c] \in Seq(UpFrame)
      BY <1>1, <2>1 DEF Pump
    <3>2. CASE k \in DOMAIN up[c]
      BY <1>1, <3>1, <3>2
    <3>3. CASE k \notin DOMAIN up[c]
      <4>1. k - Len(up[c]) \in DOMAIN outgoing
        BY <1>1, <3>1, <3>3
      <4>2. up'[c][k] = outgoing[k - Len(up[c])]
        BY <1>1, <3>1, <3>3
      <4> QED BY <4>1, <4>2
    <3> QED BY <3>2, <3>3
  <2>2. CASE c # conn
    BY <1>1, <2>2 DEF Pump
  <2> QED BY <2>1, <2>2
<1>3. ASSUME sound PROVE NothingMissing'
  BY <1>2, <1>3 DEF PictureInv, NothingMissing, Pump
<1>4. PictureFollows'
  BY DEF PictureInv, PictureFollows, Pump, pictureVars, historyVars
<1> QED BY <1>3, <1>4, FramesIdle DEF Pump, historyVars

\* A message added to the outgoing queue that reports nothing missing.
LEMMA QueuedMissing ==
  ASSUME TypeOK, NothingMissing, NEW m, m.kind # "missing",
         outgoing' = Append(outgoing, m), up' = up
  PROVE  NothingMissing'
<1>1. outgoing \in Seq(UpFrame)
  BY DEF TypeOK
<1>2. \A k \in DOMAIN outgoing' :
        outgoing'[k] = m \/ (k \in DOMAIN outgoing /\ outgoing'[k] = outgoing[k])
  BY <1>1
<1> QED BY <1>2 DEF NothingMissing

LEMMA FirePicture ==
  ASSUME TypeOK, PictureInv, NEW t \in timers, Fire(t)
  PROVE  PictureInv'
<1>1. sound => NothingMissing'
  <2> DEFINE m == [kind |-> "end", item |-> t.item, start |-> t.start]
  <2>1. /\ m.kind # "missing" /\ up' = up
        /\ outgoing' = outgoing \/ outgoing' = Append(outgoing, m)
    BY DEF Fire
  <2> HIDE DEF m
  <2> QED BY <2>1, QueuedMissing DEF PictureInv, NothingMissing
<1>2. PictureFollows'
  BY DEF PictureInv, PictureFollows, Fire, pictureVars
<1> QED BY <1>1, <1>2, FramesIdle DEF Fire

LEMMA RenderFailsPicture ==
  ASSUME TypeOK, PictureInv, RenderFails
  PROVE  PictureInv'
<1>1. sound => NothingMissing'
  BY DEF RenderFails, PictureInv, NothingMissing
<1>2. PictureFollows'
  BY DEF PictureInv, PictureFollows, RenderFails
<1> QED BY <1>1, <1>2, FramesIdle DEF RenderFails

-----------------------------------------------------------------------------
\* The frame read is the first; the others move up.
LEMMA ArrivingFirst ==
  ASSUME TypeOK, NEW f, Arriving(f)
  PROVE  /\ 1 \in DOMAIN down /\ f = down[1] /\ f \in DownFrame /\ conn # 0
         /\ \A j \in DOMAIN down' :
              /\ j + 1 \in DOMAIN down /\ down'[j] = down[j + 1]
              /\ j \in Nat \ {0}
<1>1. down \in Seq(DownFrame) /\ down # <<>> /\ f = Head(down)
      /\ down' = Tail(down) /\ conn # 0
  BY DEF TypeOK, Arriving
<1>2. Len(down) \in Nat \ {0} /\ DOMAIN down = 1..Len(down)
  BY <1>1
<1>3. DOMAIN down' = 1..(Len(down) - 1)
  BY <1>1
<1> QED BY <1>1, <1>2, <1>3

\* Reading the frame the gate expects moves on to the one that continues it.
LEMMA TakenPicture ==
  ASSUME TypeOK, PictureInv, NEW f, Arriving(f), f.seq >= expected,
         expected' = f.seq + 1, heard' = f.picture,
         UNCHANGED <<rundownVars, sent, conn>>
  PROVE  Numbered' /\ (sound => Linked' /\ Latest')
<1>1. /\ 1 \in DOMAIN down /\ f = down[1] /\ f \in DownFrame /\ conn # 0
      /\ \A j \in DOMAIN down' :
           j + 1 \in DOMAIN down /\ down'[j] = down[j + 1] /\ j \in Nat \ {0}
  BY ArrivingFirst
<1>2. /\ sent \in Nat /\ expected \in Nat /\ f.seq \in Nat
      /\ \A i \in DOMAIN down : i \in Nat /\ down[i].seq \in Nat
  BY <1>1 DEF TypeOK, DownFrame
<1>3. \A j \in DOMAIN down' : f.seq < down'[j].seq
  <2>1. \A j \in DOMAIN down' : 1 < j + 1 /\ j \in Nat
    BY <1>1, <1>2
  <2> QED BY <1>1, <2>1 DEF PictureInv, Numbered
<1>4. Numbered'
  <2>1. \A i, j \in DOMAIN down' : i < j => i + 1 < j + 1
    BY <1>1
  <2> QED BY <1>1, <1>2, <1>3, <2>1 DEF PictureInv, Numbered
<1>5. PictureNow' = PictureNow
  BY DEF rundownVars, PictureNow
<1>6. ASSUME sound PROVE Linked' /\ Latest'
  <2>1. Linked'
    BY <1>1, <1>2, <1>6 DEF PictureInv, Linked
  <2>2. Latest'
    BY <1>1, <1>2, <1>5, <1>6 DEF PictureInv, Latest
  <2> QED BY <2>1, <2>2
<1> QED BY <1>4, <1>6

LEMMA ReadResyncPicture ==
  ASSUME TypeOK, PictureInv, ReadResync
  PROVE  PictureInv'
<1>1. PICK f :
        /\ Arriving(f)
        /\ \E loadable \in Loadable : ApplyResync(f, loadable)
        /\ expected' = f.seq + 1
        /\ heard' = f.picture
        /\ UNCHANGED <<rundownVars, version, sent, lost, up, conns, conn, muted>>
  BY Zenon DEF ReadResync
<1>2. PICK loadable : ApplyResync(f, loadable)
  BY <1>1
<1>3. f \in DownFrame /\ f.seq >= expected
  BY <1>1, ArrivingFirst DEF PictureInv, Numbered
<1>4. Numbered' /\ (sound => Linked' /\ Latest')
  BY <1>1, <1>3, TakenPicture
<1>5. /\ sound' => sound
      /\ sound' => (slate' <=> f.picture.slate) /\ outgoing' = outgoing
      /\ view' = f.picture.view
  BY <1>2, Zenon DEF ApplyResync
<1>6. PictureFollows'
  BY <1>1, <1>5 DEF PictureFollows
<1>7. sound' => NothingMissing'
  BY <1>1, <1>5 DEF PictureInv, NothingMissing
<1> QED BY <1>4, <1>5, <1>6, <1>7 DEF PictureInv

\* The directive continues what the engine heard, and its handler does to the
\* engine what the command did to the control plane.
LEMMA ReadDirectivePicture ==
  ASSUME TypeOK, PictureInv, ReadDirective
  PROVE  PictureInv'
<1>1. PICK f :
        /\ Arriving(f)
        /\ f.command # "resync"
        /\ InOrder(f)
        /\ \/ f.command = "take" /\ ApplyTake(f)
           \/ f.command = "recall" /\ ApplyRecall(f)
           \/ f.command = "fallback" /\ ApplyFallback
           \/ f.command = "load" /\ ApplyLoad(f)
           \/ f.command \in {"start", "stop"} /\ ApplyClock(f)
           \/ f.command = "other" /\ ApplyOther
        /\ expected' = expected + 1
        /\ heard' = f.picture
        /\ UNCHANGED <<rundownVars, version, sent, lost, up, conns, conn, muted>>
  BY Zenon DEF ReadDirective
<1>2. /\ 1 \in DOMAIN down /\ f = down[1] /\ f \in DownFrame
      /\ f.seq = expected /\ expected # 0
  BY <1>1, ArrivingFirst DEF InOrder
<1>3. expected \in Nat
  BY DEF TypeOK
<1>4. Numbered' /\ (sound => Linked' /\ Latest')
  BY <1>1, <1>2, <1>3, TakenPicture
<1>5. UNCHANGED <<sound, outgoing>>
  BY <1>1 DEF ApplyTake, ApplyRecall, ApplyFallback, ApplyLoad, ApplyClock,
     ApplyOther
<1>6. sound' => NothingMissing'
  BY <1>1, <1>5 DEF PictureInv, NothingMissing
<1>7. ASSUME sound, heard'.show \in {"LOADED", "RUNNING"}
      PROVE  /\ heard'.slate => slate'
             /\ slate' => heard'.slate \/ raised'
             /\ ~slate' => view' = heard'.view
  <2>1. Follows(heard, f)
    BY <1>1, <1>2, <1>7 DEF PictureInv, Linked, Continues
  <2>2. CASE f.command = "take"
    BY <1>1, <2>1, <2>2 DEF Follows, ApplyTake
  <2>3. CASE f.command = "recall"
    BY <1>1, <1>7, <2>1, <2>3 DEF Follows, ApplyRecall, PictureInv, PictureFollows
  <2>4. CASE f.command = "fallback"
    BY <1>1, <2>1, <2>4 DEF Follows, ApplyFallback
  <2>5. CASE f.command = "load"
    BY <1>1, <2>1, <2>5 DEF Follows, ApplyLoad
  <2>6. CASE f.command = "start"
    BY <1>1, <1>7, <2>1, <2>6 DEF Follows, ApplyClock, PictureInv, PictureFollows
  <2>7. CASE f.command = "stop"
    BY <1>1, <1>7, <2>1, <2>7 DEF Follows
  <2>8. CASE f.command = "other"
    BY <1>1, <1>7, <2>1, <2>8
       DEF Follows, ApplyOther, pictureVars, PictureInv, PictureFollows
  <2> QED BY <1>1, <2>2, <2>3, <2>4, <2>5, <2>6, <2>7, <2>8
<1>8. PictureFollows'
  BY <1>5, <1>7 DEF PictureFollows
<1> QED BY <1>4, <1>5, <1>6, <1>8 DEF PictureInv

\* A load that fails ends the promise; the frames stay numbered.
LEMMA FailLoadPicture ==
  ASSUME TypeOK, PictureInv, FailLoad
  PROVE  PictureInv'
<1>1. PICK f :
        /\ Arriving(f) /\ InOrder(f)
        /\ expected' = expected + 1
        /\ sound' = FALSE
        /\ UNCHANGED <<sent, conn>>
  BY Zenon DEF FailLoad
<1>2. /\ 1 \in DOMAIN down /\ f = down[1] /\ f \in DownFrame /\ conn # 0
      /\ \A j \in DOMAIN down' :
           j + 1 \in DOMAIN down /\ down'[j] = down[j + 1] /\ j \in Nat \ {0}
  BY <1>1, ArrivingFirst
<1>3. /\ sent \in Nat /\ expected \in Nat /\ f.seq = expected
      /\ \A i \in DOMAIN down : down[i].seq \in Nat
  BY <1>1 DEF TypeOK, DownFrame, InOrder
<1>4. \A j \in DOMAIN down' : f.seq < down'[j].seq
  <2>1. \A j \in DOMAIN down' : 1 < j + 1
    BY <1>2
  <2> QED BY <1>2, <2>1 DEF PictureInv, Numbered
<1>5. Numbered'
  <2>1. \A i, j \in DOMAIN down' : i < j => i + 1 < j + 1
    BY <1>2
  <2> QED BY <1>1, <1>2, <1>3, <1>4, <2>1 DEF PictureInv, Numbered
<1>6. ~sound'
  BY <1>1
<1> QED BY <1>5, <1>6 DEF PictureInv, PictureFollows

\* A directive turned away leaves the engine and the gate where they were.
LEMMA TurnAwayPicture ==
  ASSUME TypeOK, PictureInv, TurnAway
  PROVE  PictureInv'
<1>1. PICK f :
        /\ Arriving(f)
        /\ outgoing' = IF expected = 0 THEN outgoing
                       ELSE Append(outgoing, [kind |-> "resyncRequest"])
        /\ UNCHANGED <<rundownVars, version, sent, lost, up, connVars,
                       pictureVars, timerVars, historyVars>>
  BY Zenon DEF TurnAway
<1>2. /\ 1 \in DOMAIN down /\ conn # 0
      /\ \A j \in DOMAIN down' :
           j + 1 \in DOMAIN down /\ down'[j] = down[j + 1] /\ j \in Nat \ {0}
  BY <1>1, ArrivingFirst
<1>3. Numbered'
  <2>1. \A i, j \in DOMAIN down' : i < j => i + 1 < j + 1
    BY <1>2
  <2> QED BY <1>1, <1>2, <2>1 DEF PictureInv, Numbered, connVars
<1>4. PictureNow' = PictureNow
  BY <1>1 DEF rundownVars, PictureNow
<1>5. ASSUME sound PROVE Linked' /\ Latest'
  BY <1>1, <1>2, <1>4, <1>5
     DEF PictureInv, Linked, Latest, connVars, historyVars
<1>6. sound => NothingMissing'
  <2>1. [kind |-> "resyncRequest"].kind # "missing"
    OBVIOUS
  <2> QED BY <1>1, <2>1, QueuedMissing DEF PictureInv, NothingMissing
<1>7. PictureFollows' /\ sound' = sound
  BY <1>1 DEF PictureInv, PictureFollows, pictureVars, historyVars
<1> QED BY <1>3, <1>5, <1>6, <1>7 DEF PictureInv

LEMMA StepPicture ==
  TypeOK /\ RundownTypeOK' /\ PictureInv /\ [Next]_vars => PictureInv'
<1> SUFFICES ASSUME TypeOK, RundownTypeOK', PictureInv, [Next]_vars
             PROVE  PictureInv'
  OBVIOUS
<1>1. ASSUME UNCHANGED vars PROVE PictureInv'
  BY <1>1, SilentPicture DEF vars, rundownVars, PictureNow
<1> QED
  BY <1>1, OperatePicture, ReceivePicture, ConnectPicture, DisconnectPicture,
     PumpPicture, FirePicture, RenderFailsPicture, ReadResyncPicture,
     ReadDirectivePicture, FailLoadPicture, TurnAwayPicture DEF Next, Read

\* For any number of items, commands and connections, and however the channel
\* refuses, loses and repeats, the audience sees the picture the control plane
\* had at the newest frame the engine applied.
THEOREM PictureAlwaysFollows == Spec => []PictureFollows
<1>1. Init => TypeOK /\ RundownInv /\ PictureInv
  BY InitTyped, InitHolds, InitPicture DEF Init
<1>2. TypeOK /\ RundownInv /\ PictureInv /\ [Next]_vars
        => TypeOK' /\ RundownInv' /\ PictureInv'
  BY StepTyped, StepPicture DEF RundownInv
<1>3. Spec => [](TypeOK /\ RundownInv /\ PictureInv)
  BY <1>1, <1>2, PTL DEF Spec
<1> QED BY <1>3, PTL DEF PictureInv

-----------------------------------------------------------------------------
(* The end of what plays.                                                  *)
(*                                                                         *)
(* An end is set when a take, a recall or a resync is read, so the         *)
(* induction again needs the frames still to come.  Where no frame was     *)
(* refused behind it, the last of them that gives the engine something to  *)
(* play gives it what plays now; where none is to come, the end is on its  *)
(* way.  A refused frame leaves fewer frames than numbers, and only a      *)
(* resync makes up for it.                                                 *)

Steers(f) == f.command \in {"take", "recall", "resync"}

\* No frame from the k-th on was refused.
NoGap(k) == sent = down[k].seq + (Len(down) - k) + 1

NamesPlayback(f) == f.item = viewItem /\ f.start = viewStart

LastSteering(b) == Steers(down[b]) /\ \A j \in DOMAIN down : j > b => ~Steers(down[j])

\* A number for every frame.
Room ==
  /\ \A k \in DOMAIN down : down[k].seq + (Len(down) - k) + 1 =< sent
  /\ conn # 0 => expected + Len(down) =< sent

EndToCome ==
  /\ \A b \in DOMAIN down : LastSteering(b) /\ NoGap(b) => NamesPlayback(down[b])
  /\ (\A j \in DOMAIN down : ~Steers(down[j])) /\ sent = expected + Len(down) => EndOnItsWay

EndInv == Room /\ (conn # 0 /\ Completing /\ viewStart \notin muted => EndToCome)

PlaybackStays == Completing' => Completing /\ UNCHANGED <<viewItem, viewStart>>

LEMMA InitPending == Init => EndInv
  BY DEF Init, EndInv, Room

LEMMA EndStays ==
  ASSUME EndOnItsWay, UNCHANGED <<timers, tracker, outgoing, up, viewItem, viewStart>>
  PROVE  EndOnItsWay'
  BY DEF EndOnItsWay, StillPlaying

\* A step that leaves the frames alone.
LEMMA FramesPending ==
  ASSUME EndInv, UNCHANGED <<sent, down, conn, expected>>, PlaybackStays, muted \subseteq muted',
         conn # 0 /\ Completing' /\ viewStart' \notin muted' /\ EndOnItsWay => EndOnItsWay'
  PROVE  EndInv'
<1>1. Room'
  BY DEF EndInv, Room
<1>2. ASSUME conn' # 0, Completing', viewStart' \notin muted' PROVE EndToCome'
  <2>1. EndToCome /\ UNCHANGED <<viewItem, viewStart>>
    BY <1>2 DEF EndInv, PlaybackStays
  <2>. QED  BY <1>2, <2>1 DEF EndToCome, LastSteering, NoGap, NamesPlayback
<1>. QED  BY <1>1, <1>2 DEF EndInv

LEMMA SendRoom ==
  ASSUME TypeOK, Room, NEW frame \in DownFrame, frame.seq = sent,
         Send(frame), UNCHANGED <<conn, expected>>, conn = 0 => down = <<>>
  PROVE  Room'
<1>1. down \in Seq(DownFrame) /\ sent \in Nat /\ expected \in Nat /\ Len(down) \in Nat
  BY DEF TypeOK
<1>2. \A k \in DOMAIN down : k \in Nat /\ down[k].seq \in Nat
  BY <1>1 DEF DownFrame
<1>3. CASE conn = 0
  BY <1>3 DEF Send, channelVars, Room
<1>4. CASE conn # 0 /\ UNCHANGED down /\ sent' = sent + 1
  <2>1. \A k \in DOMAIN down' : down'[k].seq + (Len(down') - k) + 1 =< sent'
    BY <1>1, <1>2, <1>4 DEF Room
  <2>2. expected' + Len(down') =< sent'
    BY <1>1, <1>4 DEF Room
  <2>. QED  BY <2>1, <2>2 DEF Room
<1>5. CASE conn # 0 /\ down' = Append(down, frame) /\ sent' = sent + 1
  <2>1. /\ DOMAIN down' = 1..(Len(down) + 1) /\ Len(down') = Len(down) + 1
        /\ DOMAIN down = 1..Len(down) /\ down'[Len(down) + 1] = frame
        /\ \A i \in 1..Len(down) : down'[i] = down[i]
    BY <1>1, <1>5
  <2>2. ASSUME NEW k \in DOMAIN down' PROVE down'[k].seq + (Len(down') - k) + 1 =< sent'
    <3>1. CASE k = Len(down) + 1
      BY <1>1, <1>5, <2>1, <3>1
    <3>2. CASE k \in 1..Len(down)
      <4>1. down'[k].seq + (Len(down) - k) + 1 =< sent /\ down'[k].seq \in Nat
        BY <1>2, <2>1, <3>2 DEF Room
      <4>. QED  BY <1>1, <1>5, <2>1, <3>2, <4>1
    <3>. QED  BY <1>1, <2>1, <3>1, <3>2
  <2>3. expected' + Len(down') =< sent'
    BY <1>1, <1>5, <2>1 DEF Room
  <2>. QED  BY <2>2, <2>3 DEF Room
<1>. QED  BY <1>3, <1>4, <1>5 DEF Send

\* A frame that starts what plays from now on, or one that leaves it as it is.
LEMMA SendPending ==
  ASSUME TypeOK, EndInv, NEW frame \in DownFrame, frame.seq = sent,
         Send(frame), UNCHANGED <<conn, expected, muted>>, conn = 0 => down = <<>>,
         \/ Completing' => Steers(frame) /\ NamesPlayback(frame)'
         \/ ~Steers(frame) /\ PlaybackStays /\ UNCHANGED <<timers, tracker, outgoing, up>>
  PROVE  EndInv'
<1>1. down \in Seq(DownFrame) /\ sent \in Nat /\ expected \in Nat /\ Len(down) \in Nat
  BY DEF TypeOK
<1>2. \A k \in DOMAIN down : k \in Nat /\ down[k].seq \in Nat
  BY <1>1 DEF DownFrame
<1>3. Room'
  BY SendRoom DEF EndInv
<1>4. ASSUME conn' # 0, Completing', viewStart' \notin muted' PROVE EndToCome'
  <2>1. CASE UNCHANGED down /\ sent' = sent + 1
    <3>1. ASSUME NEW b \in DOMAIN down', NoGap(b)' PROVE FALSE
      <4>1. down[b].seq + (Len(down) - b) + 1 =< sent
        BY <2>1, <3>1 DEF EndInv, Room
      <4>2. sent + 1 = down[b].seq + (Len(down) - b) + 1
        BY <2>1, <3>1 DEF NoGap
      <4>. QED  BY <1>1, <1>2, <2>1, <3>1, <4>1, <4>2
    <3>2. sent' # expected' + Len(down')
      BY <1>1, <1>4, <2>1 DEF EndInv, Room
    <3>. QED  BY <3>1, <3>2 DEF EndToCome
  <2>2. CASE down' = Append(down, frame) /\ sent' = sent + 1
    <3>1. /\ DOMAIN down' = 1..(Len(down) + 1) /\ Len(down') = Len(down) + 1
          /\ DOMAIN down = 1..Len(down) /\ down'[Len(down) + 1] = frame
          /\ \A i \in 1..Len(down) : down'[i] = down[i]
      BY <1>1, <2>2
    <3>2. \A k \in DOMAIN down' : k \in Nat /\ (k = Len(down) + 1 \/ k \in DOMAIN down)
      BY <1>1, <3>1
    <3>3. Len(down) + 1 \in DOMAIN down' /\ \A k \in DOMAIN down : Len(down) + 1 > k
      BY <1>1, <3>1
    <3>4. CASE Steers(frame) /\ NamesPlayback(frame)'
      <4>1. ASSUME NEW b \in DOMAIN down', LastSteering(b)' PROVE NamesPlayback(down[b])'
        <5>1. b = Len(down) + 1
          BY <3>1, <3>2, <3>3, <3>4, <4>1 DEF LastSteering
        <5>2. down'[b] = frame
          BY <3>1, <5>1
        <5>. QED  BY <3>4, <5>2 DEF NamesPlayback
      <4>. QED  BY <3>1, <3>3, <3>4, <4>1 DEF EndToCome
    <3>5. CASE ~Steers(frame) /\ PlaybackStays /\ UNCHANGED <<timers, tracker, outgoing, up>>
      <4>1. EndToCome /\ UNCHANGED <<viewItem, viewStart>>
        BY <1>4, <3>5 DEF EndInv, PlaybackStays
      <4>2. ASSUME NEW b \in DOMAIN down', LastSteering(b)', NoGap(b)'
            PROVE  NamesPlayback(down[b])'
        <5>1. b \in DOMAIN down /\ down'[b] = down[b]
          BY <3>1, <3>2, <3>5, <4>2 DEF LastSteering
        <5>2. LastSteering(b)
          <6>1. \A j \in DOMAIN down : j \in DOMAIN down' /\ down'[j] = down[j]
            BY <1>1, <3>1
          <6>. QED  BY <4>2, <5>1, <6>1 DEF LastSteering
        <5>3. NoGap(b)
          <6>1. sent + 1 = down[b].seq + (Len(down) + 1 - b) + 1
            BY <2>2, <3>1, <4>2, <5>1 DEF NoGap
          <6>2. sent = down[b].seq + (Len(down) - b) + 1
            BY <1>1, <1>2, <5>1, <6>1
          <6>. QED  BY <6>2 DEF NoGap
        <5>4. NamesPlayback(down[b])
          BY <4>1, <5>1, <5>2, <5>3 DEF EndToCome
        <5>. QED  BY <4>1, <5>1, <5>4 DEF NamesPlayback
      <4>3. ASSUME \A j \in DOMAIN down' : ~Steers(down'[j]), sent' = expected' + Len(down')
            PROVE  EndOnItsWay'
        <5>1. \A j \in DOMAIN down : ~Steers(down[j])
          BY <1>1, <3>1, <4>3
        <5>2. sent = expected + Len(down)
          BY <1>1, <2>2, <3>1, <4>3
        <5>. QED  BY <3>5, <4>1, <5>1, <5>2, EndStays DEF EndToCome
      <4>. QED  BY <4>2, <4>3 DEF EndToCome
    <3>. QED  BY <1>4, <3>4, <3>5
  <2>. QED  BY <1>4, <2>1, <2>2 DEF Send
<1>. QED  BY <1>3, <1>4 DEF EndInv

\* A command's directive.
LEMMA AcceptPending ==
  ASSUME TypeOK, RundownTypeOK', Numbered, EndInv, NEW command \in Command,
         NEW item \in Item \union {Nothing}, NEW start \in Nat, NEW load \in Nat,
         start # 0 => item \in Item, Accept(command, item, start, load),
         \/ /\ command \in {"take", "recall"}
            /\ Completing' => item = viewItem' /\ start = viewStart'
         \/ command \notin {"take", "recall", "resync"} /\ PlaybackStays
  PROVE  EndInv'
<1>1. PICK d : d = Directive(command, item, start, load)
  OBVIOUS
<1>2. d \in DownFrame
  BY <1>1, DirectiveTyped
<1>3. d.seq = sent /\ d.command = command /\ d.item = item /\ d.start = start
  BY <1>1 DEF Directive
<1>4. Send(d) /\ UNCHANGED <<up, conn, expected, muted, timers, tracker, outgoing>>
  BY <1>1 DEF Accept, engineVars, connVars, timerVars, historyVars
<1>5. conn = 0 => down = <<>>
  BY DEF Numbered
<1>6. \/ Completing' => Steers(d) /\ NamesPlayback(d)'
      \/ ~Steers(d) /\ PlaybackStays
  BY <1>3 DEF Steers, NamesPlayback
<1>. QED  BY <1>2, <1>3, <1>4, <1>5, <1>6, SendPending

\* Only a take starts a timed item.
LEMMA CommandStays ==
  ASSUME RundownTypeOK,
         \/ \E i \in Item : ArmItem(i) \/ UnarmItem(i) \/ PreviewSet(i)
                            \/ ItemStop(i) \/ ItemReset(i) \/ CutOnAir(i)
         \/ \E s \in Scene : SceneArm(s)
         \/ \E n \in SnapshotName : SnapshotSave(n)
         \/ ViewFallback \/ ShowStart \/ ShowStop \/ LoadAsked \/ LoadRefused
  PROVE  PlaybackStays
<1>1. itemState \in [Item -> ItemState] /\ Timed \subseteq Item
  BY TimedAreItems DEF RundownTypeOK
<1>2. CASE \E i \in Item : ArmItem(i) \/ UnarmItem(i) \/ PreviewSet(i)
                           \/ ItemStop(i) \/ ItemReset(i)
  BY <1>1, <1>2 DEF ArmItem, UnarmItem, PreviewSet, ItemStop, ItemReset, viewVars,
                    PlaybackStays, Completing
<1>3. CASE \/ \E i \in Item : CutOnAir(i)
           \/ \E s \in Scene : SceneArm(s)
           \/ \E n \in SnapshotName : SnapshotSave(n)
           \/ ViewFallback \/ ShowStart \/ ShowStop \/ LoadAsked \/ LoadRefused
  BY <1>3 DEF CutOnAir, rundownVars, SceneArm, SnapshotSave, ViewFallback, ShowStart,
              ShowStop, LoadAsked, LoadRefused, viewVars, PlaybackStays, Completing
<1>. QED  BY <1>2, <1>3

LEMMA ClearedStays == ASSUME Cleared PROVE ~Completing'
  BY TimedAreItems, NothingIsNothing DEF Cleared, Completing

LEMMA OperatePending ==
  ASSUME SnapshotName = {}, TypeOK, RundownTypeOK', Numbered, EndInv, Operate
  PROVE  EndInv'
<1>0. /\ version \in Nat /\ starts \in Nat /\ RundownTypeOK
      /\ {"take", "recall", "fallback", "load", "start", "stop", "other"} \subseteq Command
      /\ Nothing \in Item \union {Nothing}
  BY DEF TypeOK, RundownTypeOK, Command
<1>1. ASSUME NEW command \in {"fallback", "start", "stop", "other"},
             Accept(command, Nothing, 0, 0), PlaybackStays
      PROVE  EndInv'
  BY <1>0, <1>1, AcceptPending
<1>2. ASSUME NEW i \in Item, TakeCommand(i) PROVE EndInv'
  <2>1. Take(i) /\ Accept("take", i, StartOf(i), 0)
    BY <1>2 DEF TakeCommand, ViewTake, ViewCut
  <2>2. StartOf(i) \in Nat /\ i \in Item \union {Nothing}
    BY <1>0 DEF StartOf
  <2>3. Completing' => i = viewItem' /\ StartOf(i) = viewStart'
    BY <2>1 DEF Take, Completing, StartOf
  <2>. QED  BY <1>0, <2>1, <2>2, <2>3, AcceptPending
<1>3. CASE IdleCommand
  <2>1. Accept("other", Nothing, 0, 0)
    BY <1>3 DEF IdleCommand, Forward
  <2>2. CASE ShowUnload
    BY <1>1, <2>1, <2>2, ClearedStays DEF ShowUnload, PlaybackStays
  <2>3. CASE ~ShowUnload
    BY <1>0, <1>1, <1>3, <2>1, <2>3, CommandStays DEF IdleCommand
  <2>. QED  BY <2>2, <2>3
<1>4. CASE SilentCommand \/ AskLoad \/ RefuseLoad
  <2>1. PlaybackStays
    BY <1>0, <1>4, CommandStays DEF SilentCommand, AskLoad, RefuseLoad
  <2>2. UNCHANGED <<channelVars, up, engineVars>>
    BY <1>4 DEF SilentCommand, AcceptSilently, AskLoad, RefuseLoad
  <2>3. Completing' => UNCHANGED <<viewItem, viewStart>>
    BY <2>1 DEF PlaybackStays
  <2>. QED  BY <2>1, <2>2, <2>3, FramesPending, EndStays
            DEF channelVars, engineVars, connVars, timerVars, historyVars
<1>5. CASE FallbackCommand \/ StartCommand \/ StopCommand
  <2>1. PlaybackStays
    BY <1>0, <1>5, CommandStays DEF FallbackCommand, StartCommand, StopCommand
  <2>. QED  BY <1>1, <1>5, <2>1 DEF FallbackCommand, StartCommand, StopCommand
<1>6. CASE LoadCommand
  <2>1. Accept("load", Nothing, 0, version + 1) /\ PlaybackStays /\ version + 1 \in Nat
    BY <1>0, <1>6, ClearedStays DEF LoadCommand, ShowLoad, PlaybackStays
  <2>. QED  BY <1>0, <2>1, AcceptPending
<1>. QED  BY <1>2, <1>3, <1>4, <1>5, <1>6 DEF Operate

\* What is left of a connection's messages when the first is read.
LEMMA ReadUp ==
  ASSUME TypeOK, NEW c \in Conn, up[c] # <<>>, up' = [up EXCEPT ![c] = Tail(@)]
  PROVE  \A d \in Conn : \A k \in DOMAIN up[d] :
           ~(d = c /\ k = 1) => \E l \in DOMAIN up'[d] : up'[d][l] = up[d][k]
<1>. SUFFICES ASSUME NEW d \in Conn, NEW k \in DOMAIN up[d], ~(d = c /\ k = 1)
              PROVE  \E l \in DOMAIN up'[d] : up'[d][l] = up[d][k]
  OBVIOUS
<1>1. up \in [Conn -> Seq(UpFrame)]
  BY DEF TypeOK
<1>2. CASE d # c
  BY <1>1, <1>2
<1>3. CASE d = c
  <2>1. PICK s \in Seq(UpFrame) : s = up[c] /\ s # <<>>
    BY <1>1
  <2>2. up'[d] = Tail(s) /\ k \in 1..Len(s) /\ k # 1 /\ Len(s) \in Nat
    BY <1>1, <1>3, <2>1
  <2>3. /\ Tail(s) \in Seq(UpFrame) /\ Len(Tail(s)) = Len(s) - 1
        /\ \A i \in 1..Len(Tail(s)) : Tail(s)[i] = s[i + 1]
    BY <2>1, HeadTailProperties
  <2>4. k - 1 \in 1..Len(Tail(s)) /\ (k - 1) + 1 = k
    BY <2>2, <2>3
  <2>5. k - 1 \in DOMAIN Tail(s)
    BY <2>3, <2>4, LenProperties
  <2>6. Tail(s)[k - 1] = s[k]
    BY <2>3, <2>4
  <2>. QED  BY <1>3, <2>1, <2>2, <2>5, <2>6
<1>. QED  BY <1>2, <1>3

\* An end that has arrived completes what plays, or was of another item.
LEMMA ReceivePending ==
  ASSUME TypeOK, Numbered, EndInv, NEW c \in Conn, Receive(c)
  PROVE  EndInv'
<1>1. UNCHANGED engineVars /\ up[c] # <<>> /\ up' = [up EXCEPT ![c] = Tail(@)]
  BY DEF Receive, ReceiveEvent, ReceiveRequest
<1>a. \A d \in Conn : \A k \in DOMAIN up[d] :
        ~(d = c /\ k = 1) => \E l \in DOMAIN up'[d] : up'[d][l] = up[d][k]
  BY <1>1, ReadUp
<1>2. UNCHANGED <<conn, expected, muted, timers, tracker, outgoing>>
  BY <1>1 DEF engineVars, connVars, timerVars, historyVars
<1>3. Head(up[c]) = up[c][1] /\ Head(up[c]) \in UpFrame
  BY <1>1 DEF TypeOK
<1>4. PlaybackStays
  <2>1. CASE ReceiveRequest(c)
    BY <2>1 DEF ReceiveRequest, rundownVars, PlaybackStays, Completing
  <2>2. CASE ReceiveEvent(c)
    <3>1. /\ UNCHANGED <<viewItem, viewStart>>
          /\ \E i \in Item, s \in {"DONE", "MISSING"} :
               itemState' = itemState \/ itemState' = [itemState EXCEPT ![i] = s]
      <4>1. Head(up[c]).kind \in {"end", "missing"} => Head(up[c]).item \in Item
        BY <1>3 DEF UpFrame
      <4>. QED  BY <2>2, <4>1 DEF ReceiveEvent, MarkDone, MarkFailed, viewVars
    <3>. QED  BY <3>1, TimedAreItems
              DEF PlaybackStays, Completing, TypeOK, RundownTypeOK
  <2>. QED  BY <2>1, <2>2 DEF Receive
<1>5. ASSUME Completing', EndOnItsWay PROVE EndOnItsWay'
  <2>1. UNCHANGED <<viewItem, viewStart>> /\ Completing
    BY <1>4, <1>5 DEF PlaybackStays
  <2>2. CASE \/ \E t \in timers :
                  t.item = viewItem /\ t.start = viewStart /\ StillPlaying(t)
             \/ \E k \in DOMAIN outgoing :
                  outgoing[k].kind = "end" /\ outgoing[k].item = viewItem
    BY <1>2, <2>1, <2>2 DEF EndOnItsWay, StillPlaying
  <2>3. CASE \E d \in Conn : \E k \in DOMAIN up[d] :
               up[d][k].kind = "end" /\ up[d][k].item = viewItem
    <3>0. PICK d \in Conn : \E k \in DOMAIN up[d] :
            up[d][k].kind = "end" /\ up[d][k].item = viewItem
      BY <2>3
    <3>1. PICK k \in DOMAIN up[d] :
            up[d][k].kind = "end" /\ up[d][k].item = viewItem
      BY <3>0
    <3>2. ASSUME d = c, k = 1 PROVE FALSE
      <4>1. Head(up[c]).kind = "end" /\ Head(up[c]).item = viewItem
        BY <1>3, <3>1, <3>2
      <4>2. MarkDone(viewItem)
        BY <4>1 DEF Receive, ReceiveEvent, ReceiveRequest
      <4>3. itemState \in [Item -> ItemState] /\ viewItem \in Item
        BY <2>1, TimedAreItems DEF TypeOK, RundownTypeOK, Completing
      <4>. QED  BY <1>5, <2>1, <4>2, <4>3 DEF MarkDone, Completing
    <3>3. \E l \in DOMAIN up'[d] : up'[d][l] = up[d][k]
      BY <1>a, <3>2, Zenon
    <3>. QED  BY <2>1, <3>1, <3>3 DEF EndOnItsWay
  <2>. QED  BY <1>5, <2>2, <2>3 DEF EndOnItsWay
<1>6. CASE ReceiveRequest(c) /\ c = conn
  <2>1. PICK f \in DownFrame : f = Resync(sent)
    BY ResyncTyped DEF TypeOK
  <2>2. Send(f) /\ UNCHANGED rundownVars
    BY <1>6, <2>1 DEF ReceiveRequest
  <2>3. f.command = "resync" /\ f.seq = sent /\ f.item = viewItem /\ f.start = ViewItemEnd
    BY <2>1 DEF Resync
  <2>4. Completing' => f.item = viewItem' /\ f.start = viewStart'
    BY <2>2, <2>3 DEF Completing, ViewItemEnd, rundownVars
  <2>5. Completing' => Steers(f) /\ NamesPlayback(f)'
    BY <2>3, <2>4 DEF Steers, NamesPlayback
  <2>6. conn = 0 => down = <<>>
    BY DEF Numbered
  <2>. QED  BY <1>2, <2>2, <2>3, <2>5, <2>6, SendPending
<1>7. CASE ~(ReceiveRequest(c) /\ c = conn)
  <2>1. UNCHANGED <<sent, down>>
    BY <1>7 DEF Receive, ReceiveEvent, ReceiveRequest, channelVars
  <2>. QED  BY <1>2, <1>4, <1>5, <2>1, FramesPending
<1>. QED  BY <1>6, <1>7

LEMMA ConnectPending == ASSUME TypeOK, EndInv, Connect PROVE EndInv'
<1>1. PICK f \in DownFrame : f = Resync(0)
  BY ResyncTyped
<1>2. /\ f.command = "resync" /\ f.seq = 0 /\ f.item = viewItem /\ f.start = ViewItemEnd
  BY <1>1 DEF Resync
<1>3. /\ down' = <<f>> /\ sent' = 1 /\ expected' = 0 /\ UNCHANGED rundownVars
  BY <1>1 DEF Connect
<1>4. DOMAIN down' = {1} /\ down'[1] = f /\ Len(down') = 1
  BY <1>3
<1>5. Room'
  BY <1>2, <1>3, <1>4 DEF Room
<1>6. ASSUME Completing' PROVE EndToCome'
  <2>1. f.item = viewItem' /\ f.start = viewStart'
    BY <1>2, <1>3, <1>6 DEF Completing, ViewItemEnd, rundownVars
  <2>. QED  BY <1>2, <1>4, <2>1 DEF EndToCome, NamesPlayback, Steers
<1>. QED  BY <1>5, <1>6 DEF EndInv

LEMMA DropPending == ASSUME EndInv, Disconnect \/ Restart PROVE EndInv'
<1>1. conn' = 0 /\ down' = <<>> /\ DOMAIN down' = {}
  BY DEF Disconnect, Restart, Drop
<1>. QED  BY <1>1 DEF EndInv, Room

LEMMA PumpPending == ASSUME TypeOK, EndInv, Pump PROVE EndInv'
<1>1. /\ conn \in Conn /\ up \in [Conn -> Seq(UpFrame)] /\ outgoing \in Seq(UpFrame)
      /\ up' = [up EXCEPT ![conn] = @ \o outgoing]
      /\ UNCHANGED <<rundownVars, sent, down, conn, expected, timers, tracker, muted>>
  BY MaxConnType DEF Pump, TypeOK, Conn, channelVars, connVars, timerVars, historyVars
<1>2. UNCHANGED <<viewItem, viewStart, itemState>>
  BY <1>1 DEF rundownVars
<1>3. ASSUME EndOnItsWay PROVE EndOnItsWay'
  <2>1. CASE \E t \in timers : t.item = viewItem /\ t.start = viewStart /\ StillPlaying(t)
    BY <1>1, <1>2, <2>1 DEF EndOnItsWay, StillPlaying
  <2>2. CASE \E k \in DOMAIN outgoing :
               outgoing[k].kind = "end" /\ outgoing[k].item = viewItem
    <3>1. PICK k \in DOMAIN outgoing : outgoing[k].kind = "end" /\ outgoing[k].item = viewItem
      BY <2>2
    <3>2. PICK s \in Seq(UpFrame) : s = up[conn]
      BY <1>1
    <3>3. up'[conn] = s \o outgoing
      BY <1>1, <3>2
    <3>4. Len(s) + k \in DOMAIN up'[conn] /\ up'[conn][Len(s) + k] = outgoing[k]
      BY <1>1, <3>3
    <3>. QED  BY <1>1, <1>2, <3>1, <3>4 DEF EndOnItsWay
  <2>3. CASE \E c \in Conn : \E k \in DOMAIN up[c] :
               up[c][k].kind = "end" /\ up[c][k].item = viewItem
    <3>1. PICK c \in Conn : \E k \in DOMAIN up[c] :
            up[c][k].kind = "end" /\ up[c][k].item = viewItem
      BY <2>3
    <3>2. PICK k \in DOMAIN up[c] : up[c][k].kind = "end" /\ up[c][k].item = viewItem
      BY <3>1
    <3>3. k \in DOMAIN up'[c] /\ up'[c][k] = up[c][k]
      <4>1. CASE c = conn
        <5>1. PICK s \in Seq(UpFrame) : s = up[c]
          BY <1>1
        <5>2. up'[c] = s \o outgoing
          BY <1>1, <4>1, <5>1
        <5>. QED  BY <1>1, <5>1, <5>2
      <4>2. CASE c # conn
        BY <1>1, <4>2
      <4>. QED  BY <4>1, <4>2
    <3>. QED  BY <1>2, <3>2, <3>3 DEF EndOnItsWay
  <2>. QED  BY <1>3, <2>1, <2>2, <2>3 DEF EndOnItsWay
<1>. QED  BY <1>1, <1>2, <1>3, FramesPending DEF PlaybackStays, Completing

\* A timer that runs out sends its end, unless the clock stands still.
LEMMA FirePending == ASSUME TypeOK, EndInv, NEW t \in timers, Fire(t) PROVE EndInv'
<1>1. /\ UNCHANGED <<rundownVars, sent, down, conn, expected, tracker, up>>
      /\ timers' = timers \ {t}
  BY DEF Fire, channelVars, connVars
<1>2. UNCHANGED <<viewItem, viewStart, itemState>>
  BY <1>1 DEF rundownVars
<1>3. /\ outgoing \in Seq(UpFrame) /\ muted \subseteq muted'
      /\ ~running => t.start \in muted'
      /\ \A k \in DOMAIN outgoing : k \in DOMAIN outgoing' /\ outgoing'[k] = outgoing[k]
  <2>1. outgoing \in Seq(UpFrame)
    BY DEF TypeOK
  <2>2. muted \subseteq muted' /\ (~running => t.start \in muted')
    BY DEF Fire
  <2>3. outgoing' = outgoing
        \/ outgoing' = Append(outgoing, [kind |-> "end", item |-> t.item, start |-> t.start])
    BY DEF Fire
  <2>4. \A k \in DOMAIN outgoing : k \in DOMAIN outgoing' /\ outgoing'[k] = outgoing[k]
    BY <2>1, <2>3
  <2>. QED  BY <2>1, <2>2, <2>4
<1>4. ASSUME viewStart' \notin muted', EndOnItsWay PROVE EndOnItsWay'
  <2>1. CASE \E u \in timers : u.item = viewItem /\ u.start = viewStart /\ StillPlaying(u)
    <3>1. PICK u \in timers : u.item = viewItem /\ u.start = viewStart /\ StillPlaying(u)
      BY <2>1
    <3>2. CASE u # t
      BY <1>1, <1>2, <3>1, <3>2 DEF EndOnItsWay, StillPlaying
    <3>3. CASE u = t
      <4>1. running /\ StillPlaying(t)
        BY <1>2, <1>3, <1>4, <3>1, <3>3
      <4>2. PICK m : m = [kind |-> "end", item |-> t.item, start |-> t.start]
        OBVIOUS
      <4>3. outgoing' = Append(outgoing, m) /\ m.kind = "end" /\ m.item = viewItem
        BY <3>1, <3>3, <4>1, <4>2 DEF Fire
      <4>4. Len(outgoing) + 1 \in DOMAIN outgoing' /\ outgoing'[Len(outgoing) + 1] = m
        BY <1>3, <4>3
      <4>. QED  BY <1>2, <4>3, <4>4 DEF EndOnItsWay
    <3>. QED  BY <3>2, <3>3
  <2>2. CASE \E k \in DOMAIN outgoing :
               outgoing[k].kind = "end" /\ outgoing[k].item = viewItem
    BY <1>2, <1>3, <2>2 DEF EndOnItsWay
  <2>3. CASE \E c \in Conn : \E k \in DOMAIN up[c] :
               up[c][k].kind = "end" /\ up[c][k].item = viewItem
    BY <1>1, <1>2, <2>3 DEF EndOnItsWay
  <2>. QED  BY <1>4, <2>1, <2>2, <2>3 DEF EndOnItsWay
<1>. QED  BY <1>1, <1>2, <1>3, <1>4, FramesPending DEF PlaybackStays, Completing

LEMMA RenderPending == ASSUME EndInv, RenderFails PROVE EndInv'
<1>1. UNCHANGED <<rundownVars, sent, down, conn, expected, timers, tracker, outgoing, up, muted>>
  BY DEF RenderFails, channelVars, connVars, timerVars
<1>2. UNCHANGED <<viewItem, viewStart, itemState>>
  BY <1>1 DEF rundownVars
<1>. QED  BY <1>1, <1>2, FramesPending, EndStays DEF PlaybackStays, Completing

-----------------------------------------------------------------------------
\* What a step that reads a frame has of it.
ReadsFrame(f) ==
  /\ f \in DownFrame /\ conn # 0 /\ down[1] = f /\ 1 \in DOMAIN down
  /\ Len(down) \in Nat /\ Len(down') = Len(down) - 1
  /\ DOMAIN down = 1..Len(down) /\ DOMAIN down' = 1..(Len(down) - 1)
  /\ \A j \in DOMAIN down' : down'[j] = down[j + 1]

LEMMA ReadsIt == ASSUME TypeOK, NEW f, Arriving(f) PROVE ReadsFrame(f)
<1>1. /\ down \in Seq(DownFrame) /\ down # <<>> /\ f = Head(down)
      /\ down' = Tail(down) /\ conn # 0
  BY DEF TypeOK, Arriving
<1>2. Len(down) \in Nat \ {0} /\ DOMAIN down = 1..Len(down)
  BY <1>1
<1>. QED  BY <1>1, <1>2 DEF ReadsFrame

LEMMA ReadRoom ==
  ASSUME TypeOK, Numbered, Room, NEW f, ReadsFrame(f),
         expected' = expected \/ expected' = f.seq + 1, UNCHANGED <<sent, conn>>
  PROVE  Room'
<1>1. /\ sent \in Nat /\ expected \in Nat /\ f.seq \in Nat
      /\ \A k \in DOMAIN down : k \in Nat /\ down[k].seq \in Nat
  <2>1. down \in Seq(DownFrame) /\ sent \in Nat /\ expected \in Nat
    BY DEF TypeOK
  <2>2. f.seq \in Nat
    BY DEF ReadsFrame, DownFrame
  <2>3. ASSUME NEW k \in DOMAIN down PROVE k \in Nat /\ down[k] \in DownFrame
    BY <2>1
  <2>4. \A d \in DownFrame : d.seq \in Nat
    BY DEF DownFrame
  <2>. QED  BY <2>1, <2>2, <2>3, <2>4
<1>2. ASSUME NEW k \in DOMAIN down' PROVE down'[k].seq + (Len(down') - k) + 1 =< sent'
  <2>1. k + 1 \in DOMAIN down /\ down'[k] = down[k + 1] /\ k \in Nat
    BY DEF ReadsFrame
  <2>2. down[k + 1].seq + (Len(down) - (k + 1)) + 1 =< sent
    BY <2>1 DEF Room
  <2>. QED  BY <1>1, <2>1, <2>2 DEF ReadsFrame
<1>3. expected' + Len(down') =< sent'
  <2>1. CASE expected' = expected
    BY <1>1, <2>1 DEF Room, ReadsFrame
  <2>2. CASE expected' = f.seq + 1
    <3>1. f.seq + (Len(down) - 1) + 1 =< sent
      BY DEF Room, ReadsFrame
    <3>. QED  BY <1>1, <2>2, <3>1 DEF ReadsFrame
  <2>. QED  BY <2>1, <2>2
<1>. QED  BY <1>2, <1>3 DEF Room

\* Reading a frame: what is still to come of those behind it is as it was, and where
\* none of them gives the engine something to play, this one did, or nothing changed.
LEMMA ReadPending ==
  ASSUME TypeOK, Numbered, EndInv, NEW f, ReadsFrame(f),
         UNCHANGED <<sent, conn, viewItem, viewStart, itemState, muted>>,
         \/ expected' = expected
         \/ /\ expected' = f.seq + 1
            /\ Steers(f) /\ Completing /\ NamesPlayback(f) => EndOnItsWay'
            /\ ~Steers(f) => f.seq = expected /\ (EndOnItsWay => EndOnItsWay')
  PROVE  EndInv'
<1>1. /\ sent \in Nat /\ expected \in Nat /\ f.seq \in Nat
      /\ \A k \in DOMAIN down : k \in Nat /\ down[k].seq \in Nat
  <2>1. down \in Seq(DownFrame) /\ sent \in Nat /\ expected \in Nat
    BY DEF TypeOK
  <2>2. f.seq \in Nat
    BY DEF ReadsFrame, DownFrame
  <2>3. ASSUME NEW k \in DOMAIN down PROVE k \in Nat /\ down[k] \in DownFrame
    BY <2>1
  <2>4. \A d \in DownFrame : d.seq \in Nat
    BY DEF DownFrame
  <2>. QED  BY <2>1, <2>2, <2>3, <2>4
<1>2. Room'
  BY ReadRoom DEF EndInv
<1>3. ASSUME conn' # 0, Completing', viewStart' \notin muted' PROVE EndToCome'
  <2>1. EndToCome /\ Completing
    BY <1>3 DEF EndInv, Completing
  <2>2. ASSUME NEW b \in DOMAIN down', LastSteering(b)', NoGap(b)'
        PROVE  NamesPlayback(down[b])'
    <3>1. PICK a \in Nat : a = b + 1 /\ a \in DOMAIN down /\ down'[b] = down[a] /\ b \in Nat
      BY DEF ReadsFrame
    <3>2. LastSteering(a)
      <4>1. ASSUME NEW j \in DOMAIN down, j > a PROVE ~Steers(down[j])
        <5>1. PICK i : i = j - 1 /\ i \in DOMAIN down' /\ i > b /\ down'[i] = down[j]
          BY <3>1, <4>1 DEF ReadsFrame
        <5>. QED  BY <2>2, <5>1 DEF LastSteering
      <4>. QED  BY <2>2, <3>1, <4>1 DEF LastSteering
    <3>3. NoGap(a)
      <4>1. sent = down[a].seq + (Len(down) - 1 - b) + 1
        BY <2>2, <3>1 DEF NoGap, ReadsFrame
      <4>2. sent = down[a].seq + (Len(down) - a) + 1
        BY <1>1, <3>1, <4>1 DEF ReadsFrame
      <4>. QED  BY <4>2 DEF NoGap
    <3>. QED  BY <2>1, <3>1, <3>2, <3>3 DEF EndToCome, NamesPlayback
  <2>3. ASSUME \A j \in DOMAIN down' : ~Steers(down'[j]), sent' = expected' + Len(down')
        PROVE  EndOnItsWay'
    <3>1. ASSUME NEW j \in DOMAIN down, j > 1 PROVE ~Steers(down[j])
      <4>1. j - 1 \in DOMAIN down' /\ down'[j - 1] = down[j]
        BY <3>1 DEF ReadsFrame
      <4>. QED  BY <2>3, <4>1
    <3>2. expected' # expected
      BY <1>1, <2>3 DEF EndInv, Room, ReadsFrame
    <3>3. expected' = f.seq + 1 /\ sent = f.seq + 1 + (Len(down) - 1)
      BY <2>3, <3>2 DEF ReadsFrame
    <3>4. CASE Steers(f)
      <4>1. NoGap(1)
        <5>1. sent = down[1].seq + (Len(down) - 1) + 1
          BY <1>1, <3>3 DEF ReadsFrame
        <5>. QED  BY <5>1 DEF NoGap
      <4>2. LastSteering(1)
        BY <3>1, <3>4 DEF LastSteering, ReadsFrame
      <4>3. NamesPlayback(f)
        BY <2>1, <4>1, <4>2 DEF EndToCome, ReadsFrame
      <4>. QED  BY <2>1, <3>2, <3>4, <4>3
    <3>5. CASE ~Steers(f)
      <4>1. f.seq = expected /\ (EndOnItsWay => EndOnItsWay')
        BY <3>2, <3>5
      <4>2. \A j \in DOMAIN down : ~Steers(down[j])
        <5>1. \A j \in DOMAIN down : j = 1 \/ j > 1
          BY DEF ReadsFrame
        <5>. QED  BY <3>1, <3>5, <5>1 DEF ReadsFrame
      <4>3. sent = expected + Len(down)
        BY <1>1, <3>3, <4>1 DEF ReadsFrame
      <4>. QED  BY <2>1, <4>1, <4>2, <4>3 DEF EndToCome
    <3>. QED  BY <3>4, <3>5
  <2>. QED  BY <2>2, <2>3 DEF EndToCome
<1>. QED  BY <1>2, <1>3 DEF EndInv

\* The end a frame sets is that of what it plays.
LEMMA BegunPending ==
  ASSUME TypeOK, NEW f, conn # 0, f.start # 0, Begin(f.item), Schedule(f.item, f.start),
         NamesPlayback(f), UNCHANGED <<viewItem, viewStart>>
  PROVE  EndOnItsWay'
<1>1. conn \in Conn /\ tracker \in [Conn -> [item : Item \union {Nothing}, gen : Nat]]
  BY MaxConnType DEF TypeOK, Conn
<1>2. tracker'[conn].item = f.item
  BY <1>1 DEF Begin
<1>3. PICK t : t = [conn |-> conn, item |-> f.item, start |-> f.start,
                    gen |-> tracker'[conn].gen]
  OBVIOUS
<1>4. t \in timers'
  BY <1>3 DEF Schedule
<1>5. t.conn = conn /\ t.item = f.item /\ t.start = f.start /\ t.gen = tracker'[conn].gen
  BY <1>3
<1>6. StillPlaying(t)'
  BY <1>2, <1>5 DEF StillPlaying
<1>7. t.item = viewItem' /\ t.start = viewStart'
  BY <1>5 DEF NamesPlayback
<1>. QED  BY <1>4, <1>6, <1>7 DEF EndOnItsWay

LEMMA PlaysFromAStart == ASSUME TypeOK, Completing PROVE viewStart # 0
  BY TimedAreItems, NothingIsNothing DEF TypeOK, RundownTypeOK, Completing

LEMMA ReadResyncPending == ASSUME TypeOK, Numbered, EndInv, ReadResync PROVE EndInv'
<1>1. PICK f : /\ Arriving(f) /\ f.command = "resync"
               /\ \E loadable \in Loadable : ApplyResync(f, loadable)
               /\ expected' = f.seq + 1
               /\ UNCHANGED <<rundownVars, sent, conn, muted>>
  BY Zenon DEF ReadResync
<1>2. ReadsFrame(f) /\ conn # 0
  BY <1>1, ReadsIt DEF ReadsFrame
<1>3. UNCHANGED <<viewItem, viewStart, itemState>>
  BY <1>1 DEF rundownVars
<1>4. ASSUME Completing, NamesPlayback(f) PROVE EndOnItsWay'
  <2>1. f.start # 0
    BY <1>4, PlaysFromAStart DEF NamesPlayback
  <2>2. Begin(f.item) /\ Schedule(f.item, f.start)
    BY <1>1, <2>1, Zenon DEF ApplyResync
  <2>. QED  BY <1>2, <1>3, <1>4, <2>1, <2>2, BegunPending
<1>5. Steers(f)
  BY <1>1 DEF Steers
<1>. QED  BY <1>1, <1>2, <1>3, <1>4, <1>5, ReadPending

LEMMA ReadDirectivePending ==
  ASSUME TypeOK, Numbered, EndInv, ReadDirective \/ FailLoad
  PROVE  EndInv'
<1>1. PICK f : /\ Arriving(f) /\ InOrder(f) /\ f.command # "resync"
               /\ expected' = expected + 1
               /\ \/ f.command = "take" /\ ApplyTake(f)
                  \/ f.command = "recall" /\ ApplyRecall(f)
                  \/ f.command = "fallback" /\ ApplyFallback
                  \/ f.command = "load" /\ ApplyLoad(f)
                  \/ f.command \in {"start", "stop"} /\ ApplyClock(f)
                  \/ f.command = "other" /\ ApplyOther
                  \/ f.command = "load" /\ UNCHANGED <<timerVars, outgoing>>
               /\ UNCHANGED <<rundownVars, sent, up, conn, muted>>
  BY Zenon DEF ReadDirective, FailLoad
<1>2. ReadsFrame(f) /\ conn # 0 /\ f.seq = expected
  BY <1>1, ReadsIt DEF ReadsFrame, InOrder
<1>3. UNCHANGED <<viewItem, viewStart, itemState>>
  BY <1>1 DEF rundownVars
<1>4. ASSUME Steers(f), Completing, NamesPlayback(f) PROVE EndOnItsWay'
  <2>1. f.start # 0
    BY <1>4, PlaysFromAStart DEF NamesPlayback
  <2>2. f.command \in {"take", "recall"}
    BY <1>1, <1>4 DEF Steers
  <2>3. Begin(f.item) /\ Schedule(f.item, f.start)
    BY <1>1, <2>2 DEF ApplyTake, ApplyRecall
  <2>. QED  BY <1>2, <1>3, <1>4, <2>1, <2>3, BegunPending
<1>5. ASSUME ~Steers(f), EndOnItsWay PROVE EndOnItsWay'
  <2>1. UNCHANGED <<timers, tracker, outgoing>>
    BY <1>1, <1>5 DEF Steers, ApplyFallback, ApplyLoad, ApplyClock, ApplyOther, timerVars
  <2>. QED  BY <1>1, <1>3, <1>5, <2>1, EndStays
<1>. QED  BY <1>1, <1>2, <1>3, <1>4, <1>5, ReadPending

LEMMA TurnAwayPending == ASSUME TypeOK, Numbered, EndInv, TurnAway PROVE EndInv'
<1>1. PICK f : Arriving(f) /\ UNCHANGED <<rundownVars, sent, connVars, historyVars>>
  BY Zenon DEF TurnAway
<1>2. ReadsFrame(f)
  BY <1>1, ReadsIt
<1>3. UNCHANGED <<viewItem, viewStart, itemState, conn, expected, muted>>
  BY <1>1 DEF rundownVars, connVars, historyVars
<1>. QED  BY <1>1, <1>2, <1>3, ReadPending

LEMMA StepPending ==
  ASSUME SnapshotName = {}, TypeOK, RundownTypeOK', Numbered, EndInv, [Next]_vars
  PROVE  EndInv'
<1>1. CASE UNCHANGED vars
  <2>1. UNCHANGED <<viewItem, viewStart, itemState, sent, down, conn, expected, timers, tracker,
                    outgoing, up, muted>>
    BY <1>1 DEF vars, rundownVars, viewVars, channelVars, engineVars, connVars, timerVars,
                historyVars
  <2>. QED  BY <2>1, FramesPending, EndStays DEF PlaybackStays, Completing
<1>. QED  BY <1>1, OperatePending, ReceivePending, ConnectPending, DropPending, PumpPending,
             FirePending, RenderPending, ReadResyncPending, ReadDirectivePending,
             TurnAwayPending DEF Next, Read

\* directive.rs, PlaybackTracker and schedule_done: where nothing is recalled, a timed
\* item that plays has its end pending or on its way whenever the engine has kept every
\* frame, for any number of items, commands, connections, restarts and failed loads.
THEOREM AnEndIsPending ==
  ASSUME SnapshotName = {}
  PROVE  Spec => []EndIsPending
<1>1. Init => TypeOK /\ RundownInv /\ PictureInv /\ EndInv
  BY InitTyped, InitHolds, InitPicture, InitPending DEF Init
<1>2. TypeOK /\ RundownInv /\ PictureInv /\ EndInv /\ [Next]_vars
        => TypeOK' /\ RundownInv' /\ PictureInv' /\ EndInv'
  BY StepTyped, StepPicture, StepPending DEF RundownInv, PictureInv
<1>3. TypeOK /\ EndInv => EndIsPending
  <2>1. ASSUME TypeOK, EndInv, InSync, Completing, viewStart \notin muted PROVE EndOnItsWay
    <3>1. conn # 0 /\ DOMAIN down = {} /\ Len(down) = 0 /\ sent = expected
      BY <2>1 DEF InSync
    <3>2. expected \in Nat
      BY <2>1 DEF TypeOK
    <3>3. sent = expected + Len(down)
      BY <3>1, <3>2
    <3>. QED  BY <2>1, <3>1, <3>3 DEF EndInv, EndToCome
  <2>. QED  BY <2>1 DEF EndIsPending
<1>4. Spec => [](TypeOK /\ RundownInv /\ PictureInv /\ EndInv)
  BY <1>1, <1>2, PTL DEF Spec
<1>. QED  BY <1>3, <1>4, PTL
================================================================================
