---------------------------- MODULE MCSessionWal ----------------------------
(***************************************************************************)
(* Instances of SessionWal for TLC: documents are interchangeable.         *)
(***************************************************************************)
EXTENDS SessionWal, TLC

Symmetry == Permutations(Paths)

\* At most one thing goes wrong on a path.
OneLapse == Cardinality(walLapse) < 2
=============================================================================
