---------------------------- MODULE MCEventStore ----------------------------
(***************************************************************************)
(* Instances of EventStore for TLC: handles and keys are interchangeable.  *)
(***************************************************************************)
EXTENDS EventStore, TLC

Symmetry == Permutations(Stores) \cup Permutations(Keys)
=============================================================================
