---------------------------- MODULE MCKeyRatchet ----------------------------
(* Small instances of KeyRatchet for TLC. *)
EXTENDS KeyRatchet, TLC

\* Checkpoint hashes are only compared, and any of them may be signed next.
HashSymmetry == Permutations(Hashes)

\* The search goes on after one kind of lapse.
OneLapse == Cardinality(lapse) <= 1

=============================================================================
