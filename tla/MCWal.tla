------------------------------- MODULE MCWal -------------------------------
\* Small instances of Wal for TLC.
EXTENDS Wal, TLC

\* Keys are interchangeable.
Symmetry == Permutations(Keys)

\* The invariants promise nothing after a lapse.  The search goes on after one
\* kind of lapse, for what recovery still guarantees, only in a small log: one
\* file with at most two frames, plain ones.
Small(f) == Len(f.frames) <= 2 /\ Contents(f) \subseteq
               [seq : Nat, ts : {1}, type : {Checkpoint}, payload : Payloads \ Oversize]

SmallAfterLapse ==
    \/ lapse = {}
    \/ /\ Cardinality(lapse) = 1
       /\ ver = Idle \/ (lapse = {"beside"} /\ st.open /\ ~st.closed)
       /\ Len(files) = 1 /\ Small(files[1])
       /\ st.open => Len(st.cumulative) <= 2 /\ st.pending_syncs <= SyncInterval
       /\ archives = {}
=============================================================================
