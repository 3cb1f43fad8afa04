------------------------------ MODULE PackageLoad ------------------------------
(***************************************************************************)
(* A package in the engine: loaded by show.load or by a resync that names  *)
(* another load than the one held (directive.rs), and taken up by two      *)
(* threads of their own, the renderer (render.rs, sync_package) and the    *)
(* audio driver (audio_driver.rs, sync_library), which learn of it by a    *)
(* counter and copy each part under a lock of its own.                     *)
(*                                                                         *)
(* What a part holds is the number of the load that wrote it; the package  *)
(* on disk may change between loads, so a path does not tell two apart.    *)
(* Every item of a package has a picture, a clip and sound.  Directives    *)
(* reach the engine one at a time while the link is up; what a lost link   *)
(* does to them is RenderLink's subject.                                   *)
(***************************************************************************)
EXTENDS Naturals, TLC

CONSTANTS
  Package,      \* paths
  MaxLoads,     \* loads the engine attempts
  MaxVersions,  \* loads the control plane commands
  MaxFaults     \* lost links, restarts and changes on disk

VARIABLES
  \* The control plane: the package and its load generation, the show, whether an
  \* item is on the View, and whether it believes the slate is up.
  pkg, load, show, onView, slateUp,
  versions, faults,
  broken,      \* the packages that do not load now
  linked,
  job,         \* the handler: the directive it applies, and how far it is
  attempts,    \* package_load_attempts
  loaded,      \* loaded_package
  path,        \* package_path
  media,       \* what each part of EngineState holds
  generation,  \* package_generation
  viewItem, held, running,  \* view_item, FallbackSource::Held, the clock
  outgoing,    \* `missing` reports not yet read by the control plane
  renderer,    \* the renderer's place in sync_package, and loaded_generation
  uploads,     \* what it has on the GPU
  driver,      \* the audio driver's place, and library_generation
  library,     \* its soundboard library
  sounding,    \* the load whose sound the audio graph plays
  \* History: a resync was applied, and no command since.
  synced

controlVars == <<pkg, load, show, onView, slateUp, versions>>
worldVars == <<faults, broken, linked>>
packageVars == <<attempts, loaded, path, media, generation>>
viewVars == <<viewItem, held, running, outgoing>>
readerVars == <<renderer, uploads, driver, library>>
vars == <<controlVars, worldVars, job, packageVars, viewVars, readerVars, sounding, synced>>

None == "none"
Part == {"fallback", "recordDir", "watches", "video", "audio", "itemAudio", "index"}
Upload == {"fonts", "images", "rings", "slate"}
NoLoad == [path |-> None, version |-> 0]
Rest == [step |-> "rest"]
AtRest == job = Rest

\* A reader at rest that has seen the first generation.
Synced == [step |-> "rest", seen |-> 0]

\* TLC: paths differ in nothing but their names.
Paths == Permutations(Package)

Told == [path |-> pkg, version |-> load]

-----------------------------------------------------------------------------
(* Directives *)

\* A command the control plane accepts: forwarded if there is a link, and applied
\* by an idle engine.
Commands == linked => AtRest

Begin(kind, p, version, snapshot) ==
  [step |-> "begin", kind |-> kind, path |-> p, version |-> version, snapshot |-> snapshot]

NoSnapshot == [show |-> None]

\* show.load.  The control plane's preflight accepts a package that is whole then.
Load(p) ==
  /\ Commands /\ show # "RUNNING" /\ p \notin broken
  /\ versions < MaxVersions /\ attempts < MaxLoads
  /\ versions' = versions + 1 /\ load' = versions' /\ pkg' = p
  /\ show' = "LOADED" /\ onView' = FALSE /\ slateUp' = FALSE
  /\ job' = IF linked THEN Begin("load", p, load', NoSnapshot) ELSE job
  /\ synced' = FALSE
  /\ UNCHANGED <<worldVars, packageVars, viewVars, readerVars, sounding>>

\* show.unload: the engine does nothing on it.
Unload ==
  /\ Commands /\ show # "RUNNING"
  /\ pkg' = None /\ load' = 0 /\ show' = "UNLOADED"
  /\ onView' = FALSE /\ slateUp' = FALSE /\ synced' = FALSE
  /\ UNCHANGED <<versions, worldVars, job, packageVars, viewVars, readerVars, sounding>>

\* show.start and show.stop, as far as the package goes: the engine's clock.
StartStop ==
  /\ Commands
  /\ \/ show = "LOADED" /\ show' = "RUNNING"
     \/ show = "RUNNING" /\ show' = "STOPPED"
  /\ running' = IF linked THEN show' = "RUNNING" ELSE running
  /\ synced' = FALSE
  /\ UNCHANGED <<pkg, load, onView, slateUp, versions, worldVars, job, packageVars,
                 viewItem, held, outgoing, readerVars, sounding>>

\* view.take: the slate is let go, and the audio graph goes over to the sound of the
\* item as the engine's package has it (Mixer says how).
Take ==
  /\ Commands /\ show = "RUNNING"
  /\ onView' = TRUE /\ slateUp' = FALSE /\ synced' = FALSE
  /\ IF linked THEN /\ viewItem' = TRUE /\ held' = FALSE
                    /\ sounding' = media["itemAudio"]
               ELSE UNCHANGED <<viewItem, held, sounding>>
  /\ UNCHANGED <<pkg, load, show, versions, worldVars, job, packageVars,
                 running, outgoing, readerVars>>

\* view.fallback; the engine's own belief of the item goes, the control plane's
\* stays.
Fallback ==
  /\ Commands /\ show = "RUNNING"
  /\ slateUp' = TRUE /\ synced' = FALSE
  /\ IF linked THEN held' = TRUE /\ viewItem' = FALSE ELSE UNCHANGED <<held, viewItem>>
  /\ UNCHANGED <<pkg, load, show, onView, versions, worldVars, job, packageVars,
                 running, outgoing, readerVars, sounding>>

-----------------------------------------------------------------------------
(* The link *)

Snapshot == [show |-> show, onView |-> onView, slateUp |-> slateUp]

\* Mutant: a package is known by its path.
HoldsPath(identity) == loaded # NoLoad /\ loaded.path = identity.path

Holds(identity) == loaded = identity

\* A new connection begins with a resync; one that names no package, or the load
\* the engine holds, loads nothing.
Resync ==
  /\ ~linked /\ AtRest /\ linked' = TRUE
  /\ IF Told = NoLoad \/ Holds(Told)
     THEN job' = [Begin("resync", pkg, load, Snapshot) EXCEPT !.step = "apply"]
     ELSE /\ attempts < MaxLoads
          /\ job' = Begin("resync", pkg, load, Snapshot)
  /\ UNCHANGED <<controlVars, faults, broken, packageVars, viewVars, readerVars, sounding, synced>>

Fault == faults < MaxFaults /\ faults' = faults + 1

\* The handler finishes what it has begun.
LoseLink ==
  /\ Fault /\ linked /\ linked' = FALSE /\ synced' = FALSE
  /\ UNCHANGED <<controlVars, broken, job, packageVars, viewVars, readerVars, sounding>>

ChangeDisk(p) ==
  /\ Fault
  /\ broken' = IF p \in broken THEN broken \ {p} ELSE broken \cup {p}
  /\ UNCHANGED <<controlVars, linked, job, packageVars, viewVars, readerVars, sounding, synced>>

\* Another engine process.
Restart ==
  /\ Fault /\ linked' = FALSE /\ synced' = FALSE
  /\ loaded' = NoLoad /\ path' = None /\ media' = [p \in Part |-> 0]
  /\ generation' = 0 /\ viewItem' = FALSE /\ held' = FALSE /\ running' = FALSE
  /\ outgoing' = FALSE /\ job' = Rest
  /\ renderer' = Synced /\ uploads' = [u \in Upload |-> 0]
  /\ driver' = Synced /\ library' = 0 /\ sounding' = 0
  /\ UNCHANGED <<controlVars, broken, attempts>>

\* itemEvent missing (state.ts, markMissing)
ReadMissing ==
  /\ linked /\ outgoing /\ outgoing' = FALSE
  /\ slateUp' = (slateUp \/ onView)
  /\ UNCHANGED <<pkg, load, show, onView, versions, worldVars, job, packageVars,
                 viewItem, held, running, readerVars, sounding, synced>>

-----------------------------------------------------------------------------
(* load_package, a write at a time *)

At(step) == ~AtRest /\ job.step = step
Then(step) == job' = [job EXCEPT !.step = step]

Write(part) == media' = [media EXCEPT ![part] = attempts]

LoadBegins ==
  /\ At("begin") /\ Then("fallback")
  /\ attempts' = attempts + 1 /\ path' = job.path
  /\ UNCHANGED <<controlVars, worldVars, loaded, media, generation, viewVars, readerVars,
                 sounding, synced>>

\* A show.load that fails is over; a resync goes on.
Fails == IF job.kind = "load" THEN job' = Rest ELSE Then("forget")

\* load_fallback_asset
ReadsFallback ==
  /\ At("fallback")
  /\ IF job.path \in broken THEN Fails /\ UNCHANGED media
                            ELSE Then("manifest") /\ Write("fallback")
  /\ UNCHANGED <<controlVars, worldVars, attempts, loaded, path, generation, viewVars,
                 readerVars, sounding, synced>>

\* The manifest, read again: the index is built, the record directory and the
\* audioLevel watches are installed.
ReadsManifest ==
  /\ At("manifest")
  /\ IF job.path \in broken
     THEN Fails /\ UNCHANGED media
     ELSE /\ Then("video")
          /\ media' = [media EXCEPT !["recordDir"] = attempts, !["watches"] = attempts]
  /\ UNCHANGED <<controlVars, worldVars, attempts, loaded, path, generation, viewVars,
                 readerVars, sounding, synced>>

\* The clips are decoded and put in place; one that does not decode is left out
\* and reported for its items.  Then the sound.
InstallsMedia ==
  /\ \/ At("video") /\ Then("audio") /\ Write("video")
     \/ At("audio") /\ Then("itemAudio") /\ Write("audio")
     \/ At("itemAudio") /\ Then("index") /\ Write("itemAudio")
  /\ UNCHANGED <<controlVars, worldVars, attempts, loaded, path, generation, viewVars,
                 readerVars, sounding, synced>>

\* Mutant: the readers are told before the index is in place.
InstallsIndexLate ==
  \/ /\ At("index") /\ Then("bump")
     /\ generation' = generation + 1 /\ UNCHANGED media
  \/ At("bump") /\ Then("clear") /\ Write("index") /\ UNCHANGED generation

InstallsIndex ==
  \/ At("index") /\ Then("bump") /\ Write("index") /\ UNCHANGED generation
  \/ /\ At("bump") /\ Then("clear")
     /\ generation' = generation + 1 /\ UNCHANGED media

Installs ==
  /\ InstallsIndex
  /\ UNCHANGED <<controlVars, worldVars, attempts, loaded, path, viewVars, readerVars,
                 sounding, synced>>

\* The View is emptied and the operator's slate let go; the load is recorded.
LoadEnds ==
  /\ At("clear")
  /\ viewItem' = FALSE /\ held' = FALSE
  /\ loaded' = [path |-> job.path, version |-> job.version]
  /\ IF job.kind = "load" THEN job' = Rest ELSE Then("apply")
  /\ UNCHANGED <<controlVars, worldVars, attempts, path, media, generation, running,
                 outgoing, readerVars, sounding, synced>>

\* forget_package, which leaves package_path.
Forget ==
  /\ \/ /\ At("forget") /\ Then("forgotten")
        /\ loaded' = NoLoad /\ media' = [p \in Part |-> 0] /\ UNCHANGED generation
     \/ /\ At("forgotten") /\ Then("applyUnloadable")
        /\ generation' = generation + 1 /\ UNCHANGED <<loaded, media>>
  /\ UNCHANGED <<controlVars, worldVars, attempts, path, viewVars, readerVars, sounding, synced>>

-----------------------------------------------------------------------------
(* The rest of a resync *)

\* Mutant: the slate goes back to what the snapshot says after the report.
SlateAfterSnapshot(unloadable) == held' = job.snapshot.slateUp

\* The snapshot's slate; then an item on air whose package did not load has the
\* slate over it.
SlateAfter(unloadable) ==
  held' = (job.snapshot.slateUp \/ (unloadable /\ job.snapshot.onView))

ResyncApplies ==
  /\ At("apply") \/ At("applyUnloadable")
  /\ LET unloadable == job.step = "applyUnloadable"
     IN  /\ running' = (job.snapshot.show = "RUNNING")
         /\ viewItem' = job.snapshot.onView
         /\ SlateAfter(unloadable)
         /\ outgoing' = (outgoing \/ (unloadable /\ job.snapshot.onView))
  /\ job' = Rest /\ synced' = linked
  /\ UNCHANGED <<controlVars, worldVars, packageVars, readerVars, sounding>>

-----------------------------------------------------------------------------
(* The renderer *)

RendererDoes(step, next) ==
  /\ renderer.step = step /\ renderer' = [renderer EXCEPT !.step = next]
  /\ UNCHANGED <<controlVars, worldVars, job, packageVars, viewVars, driver, library,
                 sounding, synced>>

\* sync_package, before a frame: the counter first, then each part, each under
\* a lock of its own.
SyncBegins ==
  /\ renderer.step = "rest" /\ renderer.seen # generation
  /\ renderer' = [step |-> "fonts", seen |-> generation]
  /\ uploads' = [uploads EXCEPT !["images"] = 0]
  /\ UNCHANGED <<controlVars, worldVars, job, packageVars, viewVars, driver, library,
                 sounding, synced>>

SyncFonts ==
  /\ RendererDoes("fonts", "images")
  /\ uploads' = [uploads EXCEPT !["fonts"] = media["index"]]

SyncImages ==
  /\ RendererDoes("images", "rings")
  /\ uploads' = [uploads EXCEPT !["images"] = media["index"]]

\* upload_ring for every clip of the library
SyncRings ==
  /\ RendererDoes("rings", "slate")
  /\ uploads' = [uploads EXCEPT !["rings"] = media["video"]]

\* fallback_image: no asset gives the generated slate.
SyncSlate ==
  /\ RendererDoes("slate", "rest")
  /\ uploads' = [uploads EXCEPT !["slate"] = media["fallback"]]

\* reacquire_for: a frame that needs a clip it has no ring for uploads it again.
Reacquire ==
  /\ RendererDoes("rest", "rest")
  /\ uploads["rings"] = 0 /\ viewItem /\ media["index"] # 0
  /\ uploads' = [uploads EXCEPT !["rings"] = media["video"]]

\* shed_off_air_loops, at the ladder's second rung
Shed ==
  /\ RendererDoes("rest", "rest")
  /\ ~(viewItem /\ media["index"] # 0)
  /\ uploads' = [uploads EXCEPT !["rings"] = 0]

Renderer == SyncBegins \/ SyncFonts \/ SyncImages \/ SyncRings \/ SyncSlate \/ Reacquire \/ Shed

-----------------------------------------------------------------------------
(* The audio driver *)

\* sync_library, before a block
SyncLibrary ==
  \/ /\ driver.step = "rest" /\ driver.seen # generation
     /\ driver' = [step |-> "copy", seen |-> generation] /\ UNCHANGED library
  \/ /\ driver.step = "copy" /\ driver' = [driver EXCEPT !.step = "rest"]
     /\ library' = media["audio"]

DriverSyncs ==
  /\ SyncLibrary
  /\ UNCHANGED <<controlVars, worldVars, job, packageVars, viewVars, renderer, uploads,
                 sounding, synced>>

-----------------------------------------------------------------------------

Init ==
  /\ pkg = None /\ load = 0 /\ show = "UNLOADED" /\ onView = FALSE /\ slateUp = FALSE
  /\ versions = 0 /\ faults = 0 /\ broken = {} /\ linked = FALSE /\ attempts = 0
  /\ synced = FALSE
  /\ loaded = NoLoad /\ path = None /\ media = [p \in Part |-> 0]
  /\ generation = 0 /\ viewItem = FALSE /\ held = FALSE /\ running = FALSE
  /\ outgoing = FALSE /\ job = Rest
  /\ renderer = Synced /\ uploads = [u \in Upload |-> 0]
  /\ driver = Synced /\ library = 0 /\ sounding = 0

Handler ==
  \/ LoadBegins \/ ReadsFallback \/ ReadsManifest \/ InstallsMedia \/ Installs \/ LoadEnds
  \/ Forget \/ ResyncApplies

Next ==
  \/ \E p \in Package : Load(p) \/ ChangeDisk(p)
  \/ Unload \/ StartStop \/ Take \/ Fallback
  \/ Resync \/ LoseLink \/ Restart \/ ReadMissing
  \/ Handler \/ Renderer \/ DriverSyncs

Spec == Init /\ [][Next]_vars

-----------------------------------------------------------------------------
(* Properties *)

\* No load left a part behind.
Whole == \A p \in Part : media[p] = media["index"]

\* A reader that has caught up with the counter, and is not copying, holds the
\* package the engine holds, and no part of the one before: whatever loads and
\* failed loads came while it copied (render.rs, sync_package; audio_driver.rs,
\* sync_library; directive.rs, load_package and forget_package).
ReadersSettle ==
  AtRest =>
    /\ renderer = [step |-> "rest", seen |-> generation] =>
         /\ uploads["fonts"] = media["index"] /\ uploads["images"] = media["index"]
         /\ uploads["rings"] \in {0, media["video"]}
         /\ Whole => uploads["slate"] = media["fallback"]
    /\ driver = [step |-> "rest", seen |-> generation] => library = media["audio"]

\* After a resync the engine holds the very load the control plane names, whole,
\* or nothing of any package (directive.rs, reconcile_package).
ResyncAgrees ==
  synced /\ AtRest /\ Told # NoLoad =>
    Whole /\ loaded = (IF media["index"] = 0 THEN NoLoad ELSE Told)

\* An item the resync put on air is in the engine's package, or the slate covers it
\* on both sides (directive.rs, on_resync; state.ts, markMissing).
ShownOrMissing ==
  synced /\ AtRest /\ ~outgoing /\ onView /\ Told # NoLoad =>
    media["index"] # 0 \/ (held /\ slateUp)

\* forget_package's comment: "nothing of any previous package stays renderable or
\* audible".
ForgottenIsSilent ==
  AtRest /\ loaded = NoLoad /\ Whole
    /\ driver = [step |-> "rest", seen |-> generation]
  => sounding = 0
=============================================================================
