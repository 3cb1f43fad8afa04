-------------------------- MODULE VersionedReplica --------------------------
(***************************************************************************)
(* What the render channel promises, with no connection, frame, sequence   *)
(* number or queue in sight: an engine that follows the control plane's    *)
(* command history in order, may report a command as failed, and may jump  *)
(* forward to a complete snapshot; it never skips a command silently and   *)
(* never goes back, except by starting over.                               *)
(***************************************************************************)
EXTENDS Naturals

VARIABLES
  version,  \* the control plane's state version
  issued,   \* the versions at which a directive was issued
  applied,  \* the newest version the engine stands at
  has,      \* the issued versions whose effect the engine holds
  failed    \* the directives the engine could not apply since its snapshot

vars == <<version, issued, applied, has, failed>>

Init ==
  /\ version = 0
  /\ issued = {}
  /\ applied = 0
  /\ has = {}
  /\ failed = {}

\* A command that concerns the engine.
Issue ==
  /\ version' = version + 1
  /\ issued' = issued \union {version + 1}
  /\ UNCHANGED <<applied, has, failed>>

\* A change that does not concern the engine.
Advance ==
  /\ version' = version + 1
  /\ UNCHANGED <<issued, applied, has, failed>>

\* The next directive: every earlier one is applied already, or failed.
NextDirective(d) ==
  /\ d \in issued
  /\ d > applied
  /\ \A e \in issued : applied < e /\ e < d => e \in failed

Apply ==
  \E d \in issued :
    /\ NextDirective(d)
    /\ applied' = d
    /\ has' = has \union {d}
    /\ UNCHANGED <<version, issued, failed>>

Fail ==
  \E d \in issued :
    /\ NextDirective(d)
    /\ failed' = failed \union {d}
    /\ UNCHANGED <<version, issued, applied, has>>

\* The engine takes over the whole state as it stood at version s.
Snapshot ==
  \E s \in applied..version :
    /\ applied' = s
    /\ has' = issued \intersect (1..s)
    /\ failed' = {}
    /\ UNCHANGED <<version, issued>>

\* The engine process starts over.
Reset ==
  /\ applied' = 0
  /\ has' = {}
  /\ failed' = {}
  /\ UNCHANGED <<version, issued>>

Next == Issue \/ Advance \/ Apply \/ Fail \/ Snapshot \/ Reset

Spec == Init /\ [][Next]_vars
=============================================================================
