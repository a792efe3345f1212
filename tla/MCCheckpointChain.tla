------------------------- MODULE MCCheckpointChain -------------------------
(* TLC instances of CheckpointChain. *)
EXTENDS CheckpointChain, TLC

Symmetry == Permutations(Requests)

\* Behind a torn or an unsealed save one user is followed, behind a collision two
\* requests; behind the other lapses only the links of the file are claimed.
OneLapse ==
    \/ lapse = {}
    \/ lapse \subseteq {"torn", "unsealed"} /\ Cardinality({h \in Holders : hold[h].at # "idle"}) <= 1
    \/ lapse = {"overlap"} /\ \A u \in Users : hold[u].at = "idle"
=============================================================================
