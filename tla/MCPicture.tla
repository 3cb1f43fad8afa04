------------------------------ MODULE MCPicture -------------------------------
(* The picture in one run, three components of it side by side: what the    *)
(* View shows in a frame (ViewTimeline), where the frame goes from there     *)
(* (TapFeed), and the package it is drawn from (PackageLoad).  They share no *)
(* state in the models; a behaviour is about one of them.                    *)
EXTENDS TapFeed, TLC

CONSTANTS Items, Length, MaxLayers, LastFrame, MaxCommands
CONSTANTS Package, MaxLoads, MaxVersions, MaxFaults
CONSTANT MaxEvents  \* bound on a package's loads, commands and faults, together

VARIABLES clock, pc, viewFrame, read, shown, item, start, transition, take,
          commands, overlay, asked, base
VARIABLES pkg, load, show, onView, slateUp, versions, faults, broken, linked,
          job, attempts, loaded, path, media, generation, viewItem, held,
          running, outgoing, renderer, uploads, driver, library, sounding,
          synced

VARIABLE part  \* the component this behaviour is about

onAirVars == <<clock, pc, viewFrame, read, shown, item, start, transition,
               take, commands, overlay, asked, base>>
packageVars == <<pkg, load, show, onView, slateUp, versions, faults, broken,
                 linked, job, attempts, loaded, path, media, generation,
                 viewItem, held, running, outgoing, renderer, uploads,
                 driver, library, sounding, synced>>

OnAir == INSTANCE ViewTimeline WITH frame <- viewFrame, MaxFrame <- LastFrame
Packages == INSTANCE PackageLoad

ASSUME ViewConstants == OnAir!ViewTimelineConstants

MCInit ==
  /\ part \in {"taps", "view", "package"}
  /\ Init /\ OnAir!Init /\ Packages!Init
  /\ part # "taps" => setup = CHOOSE s \in Setups : TRUE

MCNext ==
  \/ part = "taps" /\ Next /\ UNCHANGED <<part, onAirVars, packageVars>>
  \/ part = "view" /\ OnAir!Next /\ UNCHANGED <<part, vars, packageVars>>
  \/ /\ part = "package" /\ Packages!Next /\ UNCHANGED <<part, vars, onAirVars>>
     /\ attempts' + versions' + faults' <= MaxEvents

MCSpec ==
  /\ MCInit /\ [][MCNext]_<<part, vars, onAirVars, packageVars>>

\* TLC: paths and items differ in nothing but their names.
Names == Permutations(Package) \union Permutations(Items)

\* Every pairing but a CPU take beside a stream.
MCSetups ==
  {[record |-> "zeroCopy", stream |-> TRUE],
   [record |-> "zeroCopy", stream |-> FALSE],
   [record |-> "cpuReadback", stream |-> FALSE],
   [record |-> "off", stream |-> TRUE]}

\* render.rs, scene_for: the first frame of a mix shows exactly what the frame
\* before it showed, and the new item at nothing; so does a mix that cuts into
\* one, or into a chain of them short of the layer cap.
MixIsSeamless == OnAir!MixIsSeamless

\* "No transition begins mid-frame": wherever the snapshot's reads fall among
\* a take's writes, the View shows no item before the frame it was taken for,
\* but for the outgoing one of a second take, which is drawn as if on air.
NothingBeginsEarly == OnAir!NothingBeginsEarly

\* SPEC 7.10: once its animation is over, the overlay is what the last of the
\* shows, hides and recalls asked for, whatever it was doing when that came.
OverlayFollowsCommand == OnAir!OverlayFollowsCommand

\* A reader that has caught up with the counter, and is not copying, holds the
\* package the engine holds, and no part of the one before: whatever loads and
\* failed loads came while it copied (render.rs, sync_package; audio_driver.rs,
\* sync_library; directive.rs, load_package and forget_package).
ReadersSettle == Packages!ReadersSettle

\* After a resync the engine holds the very load the control plane names, whole,
\* or nothing of any package (directive.rs, reconcile_package).
ResyncAgrees == Packages!ResyncAgrees

\* An item the resync put on air is in the engine's package, or the slate covers it
\* on both sides (directive.rs, on_resync; state.ts, markMissing).
ShownOrMissing == Packages!ShownOrMissing
===============================================================================
