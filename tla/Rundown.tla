------------------------------ MODULE Rundown ------------------------------
(***************************************************************************)
(* The control plane's picture of the show: the state of every rundown     *)
(* item, what is on the View and on the Preview, the operator's fallback   *)
(* flag, and the named snapshots an operator saves and recalls.  One       *)
(* action per command handler, and per itemEvent the engine reports.  A    *)
(* refused command changes nothing and is no action.                       *)
(*                                                                         *)
(* Every package declares the same items, so a reload replaces states and  *)
(* not names.                                                              *)
(***************************************************************************)
EXTENDS Naturals

CONSTANTS
  Item,          \* the rundown's items
  Timed,         \* the items with a durationFrames
  Scene,         \* the scenes
  SnapshotName,  \* the names snapshots are saved under
  Nothing        \* null: an empty View or Preview

ASSUME TimedAreItems == Timed \subseteq Item
ASSUME NothingIsNothing == Nothing \notin Item \union Scene
ASSUME ScenesAreNotItems == Item \intersect Scene = {}

VARIABLES
  show,            \* showState
  loads,           \* show.load handlers inside their preflight await
  package,         \* packageLoadStateVersion, 0 with no package
  itemState,       \* itemStates
  viewItem,        \* what is on the View
  viewStart,       \* viewItemTakenAtMs: which start on the View, 0 for null
  starts,          \* how many times an item has been put on the View
  previewItem,     \* what is on the Preview
  fallbackActive,  \* the operator's slate, as the control plane believes it
  snapshots        \* the saved snapshots

rundownVars == <<show, loads, package, itemState, viewItem, viewStart, starts,
                 previewItem, fallbackActive, snapshots>>
lifecycleVars == <<show, loads, package, snapshots>>
viewVars == <<viewItem, viewStart, starts>>

ShowState == {"UNLOADED", "LOADED", "RUNNING", "STOPPED"}
ItemState == {"READY", "ARMED", "LIVE", "PLAYING", "DONE", "MISSING", "ERROR"}
OnAirState == {"LIVE", "PLAYING"}

AllReady == [i \in Item |-> "READY"]

Snapshot ==
  [viewItem : Item \union {Nothing},
   previewItem : Item \union Scene \union {Nothing},
   itemState : [Item -> ItemState]]

Unsaved == Nothing

RundownTypeOK ==
  /\ show \in ShowState
  /\ loads \in Nat
  /\ package \in Nat
  /\ itemState \in [Item -> ItemState]
  /\ viewItem \in Item \union {Nothing}
  /\ starts \in Nat
  /\ viewStart \in 0..starts
  /\ (viewStart = 0) <=> (viewItem = Nothing)
  /\ previewItem \in Item \union Scene \union {Nothing}
  /\ fallbackActive \in BOOLEAN
  /\ snapshots \in [SnapshotName -> Snapshot \union {Unsaved}]

RundownInit ==
  /\ show = "UNLOADED"
  /\ loads = 0
  /\ package = 0
  /\ itemState = AllReady
  /\ viewItem = Nothing
  /\ viewStart = 0
  /\ starts = 0
  /\ previewItem = Nothing
  /\ fallbackActive = FALSE
  /\ snapshots = [n \in SnapshotName |-> Unsaved]

Loaded == package # 0

-----------------------------------------------------------------------------
(* Arming                                                                  *)

ArmItem(i) ==
  /\ Loaded
  /\ itemState[i] \in {"READY", "DONE"}
  /\ itemState' = [itemState EXCEPT ![i] = "ARMED"]
  /\ UNCHANGED <<lifecycleVars, viewVars, previewItem, fallbackActive>>

UnarmItem(i) ==
  /\ Loaded
  /\ itemState[i] = "ARMED"
  /\ itemState' = [itemState EXCEPT ![i] = "READY"]
  /\ UNCHANGED <<lifecycleVars, viewVars, previewItem, fallbackActive>>

\* preview.set arms a READY item, and unarms the item it displaces.
PreviewSet(i) ==
  /\ Loaded
  /\ itemState[i] \in {"READY", "ARMED"}
  /\ itemState' = [j \in Item |->
       IF j = i THEN "ARMED"
       ELSE IF j = previewItem /\ itemState[j] = "ARMED" THEN "READY"
       ELSE itemState[j]]
  /\ previewItem' = i
  /\ UNCHANGED <<lifecycleVars, viewVars, fallbackActive>>

\* scene.arm goes to the Preview only when that is empty.
SceneArm(s) ==
  /\ Loaded
  /\ previewItem' = IF previewItem = Nothing THEN s ELSE previewItem
  /\ UNCHANGED <<lifecycleVars, itemState, viewVars, fallbackActive>>

-----------------------------------------------------------------------------
(* On the View                                                             *)

\* Mutant: the take forgets the item it replaces.
TakeLeavesPrevious(i) ==
  /\ itemState' = [itemState EXCEPT
       ![i] = IF i \in Timed THEN "PLAYING" ELSE "LIVE"]
  /\ viewItem' = i
  /\ starts' = starts + 1
  /\ viewStart' = starts + 1
  /\ previewItem' = IF previewItem = i THEN Nothing ELSE previewItem
  /\ fallbackActive' = FALSE

\* The item goes LIVE, or PLAYING when it is timed; what it replaces goes back
\* to READY; the slate comes down.
Take(i) ==
  /\ itemState' = [j \in Item |->
       IF j = i THEN (IF i \in Timed THEN "PLAYING" ELSE "LIVE")
       ELSE IF j = viewItem /\ itemState[j] \in OnAirState THEN "READY"
       ELSE itemState[j]]
  /\ viewItem' = i
  /\ starts' = starts + 1
  /\ viewStart' = starts + 1
  /\ previewItem' = IF previewItem = i THEN Nothing ELSE previewItem
  /\ fallbackActive' = FALSE

\* view.take puts the Preview on the View; a scene there is no item.
ViewTake(i) ==
  /\ Loaded
  /\ previewItem = i
  /\ itemState[i] = "ARMED"
  /\ Take(i)
  /\ UNCHANGED lifecycleVars

\* view.cut arms and takes.
ViewCut(i) ==
  /\ Loaded
  /\ itemState[i] \in {"READY", "DONE", "ARMED"}
  /\ Take(i)
  /\ UNCHANGED lifecycleVars

\* view.cut of an item already on air is accepted and leaves it as it is.
CutOnAir(i) ==
  /\ Loaded
  /\ itemState[i] \in OnAirState
  /\ UNCHANGED rundownVars

ViewFallback ==
  /\ fallbackActive' = TRUE
  /\ UNCHANGED <<lifecycleVars, itemState, viewVars, previewItem>>

ItemStop(i) ==
  /\ Loaded
  /\ itemState[i] = "PLAYING"
  /\ itemState' = [itemState EXCEPT ![i] = "READY"]
  /\ UNCHANGED <<lifecycleVars, viewVars, previewItem, fallbackActive>>

ItemReset(i) ==
  /\ Loaded
  /\ itemState[i] \in {"DONE", "MISSING", "ERROR"}
  /\ itemState' = [itemState EXCEPT ![i] = "READY"]
  /\ UNCHANGED <<lifecycleVars, viewVars, previewItem, fallbackActive>>

-----------------------------------------------------------------------------
(* What the engine reports                                                 *)

\* Only a PLAYING item completes; any other end is ignored.
MarkDone(i) ==
  /\ itemState' = IF itemState[i] = "PLAYING"
                  THEN [itemState EXCEPT ![i] = "DONE"] ELSE itemState
  /\ UNCHANGED <<lifecycleVars, viewVars, previewItem, fallbackActive>>

\* markMissing and markError: whatever the item's state was.
MarkFailed(i, how) ==
  /\ itemState' = [itemState EXCEPT ![i] = how]
  /\ fallbackActive' = (fallbackActive \/ viewItem = i)
  /\ UNCHANGED <<lifecycleVars, viewVars, previewItem>>

-----------------------------------------------------------------------------
(* Snapshots                                                               *)

SnapshotSave(n) ==
  /\ snapshots' = [snapshots EXCEPT
       ![n] = [viewItem |-> viewItem, previewItem |-> previewItem,
               itemState |-> itemState]]
  /\ UNCHANGED <<show, loads, package, itemState, viewVars, previewItem,
                 fallbackActive>>

\* The whole snapshot comes back.  An item that changes the View starts now;
\* the one already there keeps its start, and the slate stays as it is.
SnapshotRecall(n) ==
  /\ snapshots[n] # Unsaved
  /\ LET snap == snapshots[n]
         moves == snap.viewItem # viewItem
         begins == moves /\ snap.viewItem # Nothing
     IN /\ begins => Loaded
        /\ itemState' = snap.itemState
        /\ viewItem' = snap.viewItem
        /\ previewItem' = snap.previewItem
        /\ starts' = IF begins THEN starts + 1 ELSE starts
        /\ viewStart' = IF begins THEN starts + 1
                        ELSE IF moves THEN 0 ELSE viewStart
  /\ UNCHANGED <<lifecycleVars, fallbackActive>>

-----------------------------------------------------------------------------
(* The show's lifecycle                                                    *)

\* show.load checks that the show is not running, then awaits the preflight.
LoadAsked ==
  /\ show # "RUNNING"
  /\ loads' = loads + 1
  /\ UNCHANGED <<show, package, itemState, viewVars, previewItem,
                 fallbackActive, snapshots>>

\* The preflight refused the package.
LoadRefused ==
  /\ loads > 0
  /\ loads' = loads - 1
  /\ UNCHANGED <<show, package, itemState, viewVars, previewItem,
                 fallbackActive, snapshots>>

\* loadPackage and unloadPackage clear the same things, and no snapshot.
Cleared ==
  /\ itemState' = AllReady
  /\ viewItem' = Nothing
  /\ viewStart' = 0
  /\ previewItem' = Nothing
  /\ fallbackActive' = FALSE
  /\ UNCHANGED <<starts, snapshots>>

\* The preflight passed: the package is replaced, at load generation v.
ShowLoad(v) ==
  /\ loads > 0
  /\ loads' = loads - 1
  /\ show' = "LOADED"
  /\ package' = v
  /\ Cleared

ShowUnload ==
  /\ show # "RUNNING"
  /\ show' = "UNLOADED"
  /\ package' = 0
  /\ Cleared
  /\ UNCHANGED loads

\* (Of a package that passed its preflight.)
ShowStart ==
  /\ show = "LOADED"
  /\ show' = "RUNNING"
  /\ UNCHANGED <<loads, package, itemState, viewVars, previewItem,
                 fallbackActive, snapshots>>

\* From any state: force skips the check that the show is running.
ShowStop ==
  /\ show' = "STOPPED"
  /\ UNCHANGED <<loads, package, itemState, viewVars, previewItem,
                 fallbackActive, snapshots>>

-----------------------------------------------------------------------------
RundownNext ==
  \/ \E i \in Item :
       \/ ArmItem(i) \/ UnarmItem(i) \/ PreviewSet(i)
       \/ ViewTake(i) \/ ViewCut(i) \/ ItemStop(i) \/ ItemReset(i)
       \/ MarkDone(i) \/ MarkFailed(i, "MISSING") \/ MarkFailed(i, "ERROR")
  \/ \E s \in Scene : SceneArm(s)
  \/ ViewFallback
  \/ \E n \in SnapshotName : SnapshotSave(n) \/ SnapshotRecall(n)
  \/ LoadAsked
  \/ LoadRefused
  \/ \E v \in Nat \ {0} : ShowLoad(v)
  \/ ShowUnload
  \/ ShowStart
  \/ ShowStop

RundownSpec == RundownInit /\ [][RundownNext]_rundownVars

-----------------------------------------------------------------------------
\* An item that is LIVE or PLAYING is the one on the View: no sequence of
\* takes, stops, resets, recalls and reloads leaves a second item on air.
OnAirIsOnView ==
  \A i \in Item : itemState[i] \in OnAirState => viewItem = i

\* show.load refuses with "cannot load a package while the view is live": a
\* load never replaces the package of a running show.
LiveShowIsNotReplaced ==
  [][package' # package /\ package' # 0 => show # "RUNNING"]_rundownVars

\* What is on air is never also on the Preview, so view.take never retakes it.
PreviewIsOffAir ==
  previewItem \in Item => itemState[previewItem] \notin OnAirState
=============================================================================
