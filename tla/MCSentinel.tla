----------------------------- MODULE MCSentinel -----------------------------
(***************************************************************************)
(* Instances of Sentinel for TLC: callers are interchangeable.             *)
(***************************************************************************)
EXTENDS Sentinel, TLC

Symmetry == Permutations(Callers)

\* The properties promise little after a lapse: the search stops there.
BeforeLapse == lapse = {}

\* The search stops at a deadlock, where the process does.
UntilDeadlock == NoDeadlock
=============================================================================
