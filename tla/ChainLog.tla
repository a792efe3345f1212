------------------------------ MODULE ChainLog ------------------------------
(***************************************************************************)
(* What a checkpoint chain promises: an append-only log of checkpoints in  *)
(* which everything reported as saved stays (docs/standards-alignment.md:  *)
(* "append-only evidence trail").  The promise binds as long as the users  *)
(* of a chain take turns; CheckpointChain shows what the code does of it.  *)
(***************************************************************************)
EXTENDS Integers, Sequences

VARIABLES log,       \* the hashes of the checkpoints of the chain, oldest first
          kept,      \* the checkpoints some caller was told are saved
          exclusive  \* the users of the chain have taken turns so far

vars == <<log, kept, exclusive>>

Entries(s) == {s[i] : i \in DOMAIN s}

Extends(old, new) ==
    /\ Len(old) <= Len(new)
    /\ \A i \in DOMAIN old : new[i] = old[i]

-----------------------------------------------------------------------------

Init ==
    /\ log = <<>>
    /\ kept = {}
    /\ exclusive = TRUE

\* A save adds the checkpoints committed since the chain was read, and the caller
\* may be told of them in the same step or later: they are in the log by then.
Extend ==
    /\ exclusive /\ exclusive'
    /\ Extends(log, log')
    /\ kept \subseteq kept' /\ kept' \subseteq kept \cup Entries(log')

\* Two users no longer take turns, and nothing more is promised.
Collide == ~exclusive'

Next == Extend \/ Collide

Spec == Init /\ [][Next]_vars

\* Everything reported as saved is in the log.
KeptInLog == exclusive => kept \subseteq Entries(log)
=============================================================================
