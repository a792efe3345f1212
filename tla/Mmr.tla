-------------------------------- MODULE Mmr --------------------------------
(***************************************************************************)
(* The stored Merkle Mountain Range: the store file, the handle that       *)
(* appends to it and reads it back, and the two callers that keep content  *)
(* segments and checkpoint hashes in it.                                   *)
(*                                                                         *)
(* Code: crates/cpoe/src/mmr/store.rs (FileStore, MemoryStore) and         *)
(* mmr/mmr.rs (Mmr); ContentMmr in content/mmr.rs and CheckpointMmr in     *)
(* checkpoint/mmr.rs.  A MemoryStore is a handle whose cache is never      *)
(* cleared and whose file stays empty.                                     *)
(*                                                                         *)
(* FileStore keeps two File values, one to read and one inside a           *)
(* BufWriter, and the second is a try_clone of the first: the two share    *)
(* one file offset.  A node that is not in the cache is read by flushing   *)
(* the writer and moving that offset, so `offset' is where the next flush  *)
(* will write.  All positions are multiples of NODE_SIZE; a file whose     *)
(* length is not is `torn'.                                                *)
(*                                                                         *)
(* One handle is open at a time and used by one thread, as its callers do. *)
(* A crash loses the writer's buffer and any suffix of the file that no    *)
(* fsync covers; an unsynced overwrite is not undone.  I/O errors other    *)
(* than reading past the end of the file are left out, so Mmr's size and   *)
(* the store's are always equal and are one field here.                    *)
(***************************************************************************)
EXTENDS MmrForest

CONSTANTS Data,        \* contents of leaves: segment and checkpoint hashes
          BufNodes,    \* nodes that fit into the BufWriter: 4096 / NODE_SIZE (99)
          AutoSync,    \* AUTO_SYNC_THRESHOLD (100)
          MaxLeaves,   \* bound on the leaves of the file
          MaxCrashes   \* bound on crashes

ASSUME MmrAssumption ==
    /\ BufNodes \in Nat \ {0}
    /\ AutoSync \in Nat \ {0}
    /\ MaxLeaves \in Nat
    /\ MaxCrashes \in Nat

VARIABLES owner,    \* which of the two callers the tree belongs to
          backing,  \* which Store the caller chose
          disk,     \* the nodes in the file, as any process reads it
          torn,     \* the file ends in a partial node
          fsynced,  \* how many of its nodes a crash cannot take away
          h,        \* the open handle
          op,       \* the call in progress on it
          leaves,   \* history: the contents of the leaves the file should hold
          acked,    \* history: how many leaves a successful sync covered
          crashes,  \* crashes so far
          lapse     \* history: what went wrong with the file so far

vars == <<owner, backing, disk, torn, fsynced, h, op, leaves, acked, crashes, lapse>>

Closed == [open |-> FALSE]
Idle == [pc |-> "idle"]

\* What a hole in the file reads as, and a read past its end.
Hole == [index |-> 0, height |-> 0, hash |-> <<"zero">>]
Missing == [index |-> 0, height |-> -1, hash |-> <<"missing">>]

-----------------------------------------------------------------------------
(* FileStore.  s is the file with the handle: [disk, fsynced, h]. *)

Store == [disk |-> disk, fsynced |-> fsynced, h |-> h]

\* The file after writing nodes at a position.
Overlay(nodes, at, written) ==
    [i \in 1 .. Max({Len(nodes), at + Len(written)}) |->
        IF i \in at + 1 .. at + Len(written) THEN written[i - at]
        ELSE IF i <= Len(nodes) THEN nodes[i] ELSE Hole]

\* BufWriter::flush, through the shared offset.
Flush(s) ==
    IF s.h.buf = <<>> THEN s
    ELSE [s EXCEPT !.disk = Overlay(s.disk, s.h.offset, s.h.buf),
                   !.h.offset = @ + Len(s.h.buf),
                   !.h.buf = <<>>]

\* Mutant of StoreSync: the length is taken before the buffer is written.
StoreSyncFirst(s) ==
    IF backing = "memory" THEN s
    ELSE [Flush(s) EXCEPT !.h.cache = <<>>, !.h.appends = 0, !.fsynced = Len(s.disk)]

StoreSync(s) ==
    LET f == Flush(s)
    IN  IF backing = "memory" THEN s
        ELSE [f EXCEPT !.h.cache = <<>>, !.h.appends = 0, !.fsynced = Len(f.disk)]

StoreAppend(s, node) ==
    LET r == IF Len(s.h.buf) = BufNodes THEN Flush(s) ELSE s
        kept == [r EXCEPT !.h.cache = (node.index :> node) @@ @, !.h.size = @ + 1]
        written == [kept EXCEPT !.h.buf = Append(@, node), !.h.appends = @ + 1]
    IN  IF backing = "memory" THEN kept
        ELSE IF s.h.appends >= AutoSync THEN StoreSync(written) ELSE written

\* What Store::get returns for each index.  Reading flushes the buffer but
\* changes no node, so it is the same before and after other reads.
View(s) ==
    LET file == Flush(s).disk
    IN  [i \in 0 .. s.h.size - 1 |->
            IF i \in DOMAIN s.h.cache THEN s.h.cache[i]
            ELSE IF i < Len(file) THEN file[i + 1] ELSE Missing]

Readable(s, reads) == \A i \in ToSet(reads) : View(s)[i] # Missing

\* What a sequence of Store::get leaves behind, up to the first that fails: the
\* offset is after the last node that came from the file.
Reads(s, reads) ==
    LET view == View(s)
        fails == SelectInSeq(reads, LAMBDA i : view[i] = Missing)
        tried == IF fails = 0 THEN reads ELSE SubSeq(reads, 1, fails)
        misses == SelectSeq(tried, LAMBDA i : i \notin DOMAIN s.h.cache)
    IN  IF misses = <<>> THEN s
        ELSE [Flush(s) EXCEPT !.h.offset = IF fails = 0 THEN Last(misses) + 1
                                           ELSE Last(misses)]

\* Install the outcome of a step on the store.  A node of the file that changes
\* was displaced by another.
SetStore(s) ==
    /\ disk' = s.disk /\ fsynced' = s.fsynced /\ h' = s.h
    /\ lapse' = IF IsPrefix(disk, s.disk) THEN lapse ELSE lapse \cup {"displaced"}

LeafCount == leaf_count_from_size[h.size]

\* The indices of the leaves with the given ordinals, 0 to n - 1.
LeafIndices(n) == [i \in 1 .. n |-> get_leaf_index(i - 1)]

-----------------------------------------------------------------------------
(* Opening and dropping a handle *)

\* FileStore::open and Mmr::new.  The last peak is the last node, so reading the
\* peaks leaves the offset at the end of the file.  A torn file is refused.
Open ==
    /\ ~h.open /\ ~torn
    /\ LET peaks == find_peaks(Len(disk))
       IN  h' = [open |-> TRUE, offset |-> Len(disk), buf |-> <<>>, cache |-> <<>>,
                 size |-> Len(disk), appends |-> 0,
                 peaks |-> [i \in DOMAIN peaks |-> disk[peaks[i] + 1].hash]]
    /\ UNCHANGED <<owner, backing, disk, torn, fsynced, op, leaves, acked, crashes, lapse>>

\* Dropping the handle drops the BufWriter, which writes what it still holds.
Drop ==
    /\ h.open /\ op = Idle
    /\ LET s == Flush(Store) IN SetStore([s EXCEPT !.h = Closed])
    /\ leaves' = IF backing = "memory" THEN <<>> ELSE leaves
    /\ UNCHANGED <<owner, backing, torn, op, acked, crashes>>

\* A process or the machine stops.  Nodes that no fsync covered may be gone, and
\* the first of them may be there in part.
Crash ==
    /\ crashes < MaxCrashes
    /\ crashes' = crashes + 1
    /\ \E kept \in fsynced .. Len(disk), partial \in BOOLEAN :
         /\ partial => kept < Len(disk)
         /\ disk' = SubSeq(disk, 1, kept)
         /\ torn' = (torn \/ partial)
         /\ fsynced' = kept
         /\ leaves' = SubSeq(leaves, 1, Min({Len(leaves), leaf_count_from_size[kept]}))
         /\ lapse' = lapse
                \cup (IF partial THEN {"torn"} ELSE {})
                \cup (IF \E n \in 0 .. kept : get_leaf_index(n) = kept THEN {} ELSE {"unmerged"})
    /\ h' = Closed /\ op' = Idle
    /\ UNCHANGED <<owner, backing, acked>>

-----------------------------------------------------------------------------
(* Mmr::append, under the handle's lock *)

\* The leaf, then the merging of equal peaks.  `next' is what the caller does
\* after the append.
BeginAppend(s, data, next) ==
    /\ LeafCount < MaxLeaves
    /\ SetStore(StoreAppend(s, new_leaf(s.h.size, data)))
    /\ op' = [pc |-> "merge", next |-> next, leaf |-> s.h.size]
    /\ leaves' = Append(leaves, data)
    /\ UNCHANGED <<owner, backing, torn, acked, crashes>>

\* The last two peaks have the same height: their parent is appended.
Merge ==
    /\ op.pc = "merge"
    /\ LET peaks == find_peaks(h.size)
           last == Last(peaks)
           prev == Last(Front(peaks))
           view == View(Store)
           s == Reads(Store, <<last, prev>>)
       IN  /\ Len(peaks) >= 2
           /\ Readable(Store, <<last, prev>>)
           /\ view[last].height = view[prev].height
           /\ SetStore(StoreAppend(s, new_internal(h.size, view[last].height + 1,
                                                   view[prev], view[last])))
    /\ UNCHANGED <<owner, backing, torn, op, leaves, acked, crashes>>

\* No merge: the peaks kept in memory are read again and the append is done.  The
\* indices of the old peaks always differ, because the last peak is the last node.
Settle ==
    /\ op.pc = "merge"
    /\ LET peaks == find_peaks(h.size)
           view == View(Store)
           pair == IF Len(peaks) < 2 THEN <<>> ELSE <<Last(peaks), Last(Front(peaks))>>
           s == Reads(Store, pair \o peaks)
       IN  /\ Readable(Store, pair \o peaks)
           /\ pair # <<>> => view[pair[1]].height # view[pair[2]].height
           /\ SetStore([s EXCEPT !.h.peaks = [i \in DOMAIN peaks |-> view[peaks[i]].hash]])
           /\ op' = IF op.next = "batch" THEN [pc |-> "batch"]
                    ELSE [pc |-> "sync", leaf |-> op.leaf]
    /\ UNCHANGED <<owner, backing, torn, leaves, acked, crashes>>

\* A node the append needs is past the end of the file: the call fails, with the
\* leaf appended and the peaks not updated.
AppendFails ==
    /\ op.pc = "merge"
    /\ LET peaks == find_peaks(h.size)
           pair == IF Len(peaks) < 2 THEN <<>> ELSE <<Last(peaks), Last(Front(peaks))>>
           view == View(Store)
           reads == IF /\ pair # <<>>
                       /\ Readable(Store, pair)
                       /\ view[pair[1]].height = view[pair[2]].height
                    THEN pair ELSE pair \o peaks
       IN  /\ ~Readable(Store, reads)
           /\ SetStore(Reads(Store, reads))
    /\ op' = Idle
    /\ UNCHANGED <<owner, backing, torn, leaves, acked, crashes>>

-----------------------------------------------------------------------------
(* What the callers do before and after an append *)

\* ContentMmr::witness_text, for each segment: append, sync, prove.
WitnessSegment(data) ==
    /\ owner = "content" /\ h.open /\ op = Idle
    /\ BeginAppend(Store, data, "sync")

\* has_segment reads the leaves until it finds the segment.
ScanFor(data) ==
    LET all == LeafIndices(LeafCount)
        found == SelectInSeq(all, LAMBDA i : View(Store)[i].hash = hash_leaf(i, data))
    IN  [found |-> found # 0, at |-> found,
         reads |-> IF found = 0 THEN all ELSE SubSeq(all, 1, found)]

\* ContentMmr::witness_text_if_changed, for each segment of a text that changed:
\* append what the tree does not hold yet; the sync follows the last segment.
WitnessNewSegment(data) ==
    /\ owner = "content" /\ h.open /\ op.pc \in {"idle", "batch"}
    /\ LET scan == ScanFor(data)
       IN  /\ Readable(Store, scan.reads) /\ ~scan.found
           /\ BeginAppend(Reads(Store, scan.reads), data, "batch")

\* The segment is there already, or the scan cannot be finished.
SkipSegment(data) ==
    /\ owner = "content" /\ h.open /\ op.pc \in {"idle", "batch"}
    /\ LET scan == ScanFor(data)
       IN  /\ scan.found \/ ~Readable(Store, scan.reads)
           /\ SetStore(Reads(Store, scan.reads))
           /\ op' = IF Readable(Store, scan.reads) THEN op ELSE Idle
    /\ UNCHANGED <<owner, backing, torn, leaves, acked, crashes>>

\* CheckpointMmr::append_checkpoint.  A retry of the last append returns the
\* proof of the leaf that is already there.
LastProof == generate_proof(View(Store), h.size, h.peaks, get_leaf_index(LeafCount - 1))

AppendsAgainAfterTwo(data) ==
    /\ LeafCount > 1
    /\ Readable(Store, LastProof.reads) /\ LastProof.ok
    /\ verify(LastProof.proof, data)

AppendsAgain(data) ==
    /\ LeafCount > 0
    /\ Readable(Store, LastProof.reads) /\ LastProof.ok
    /\ verify(LastProof.proof, data)

AppendCheckpoint(data) ==
    /\ owner = "checkpoint" /\ h.open /\ op = Idle
    /\ LET s == IF LeafCount = 0 THEN Store ELSE Reads(Store, LastProof.reads)
       IN  IF AppendsAgain(data)
           THEN SetStore(s) /\ UNCHANGED <<owner, backing, torn, op, leaves, acked, crashes>>
           ELSE BeginAppend(s, data, "sync")

\* CheckpointMmr::rebuild_from_chain, for each checkpoint of the chain, into an
\* empty tree; the hashes of a chain are distinct.
RebuildLeaf(data) ==
    /\ owner = "checkpoint" /\ h.open
    /\ op.pc = "batch" \/ (op = Idle /\ LeafCount = 0)
    /\ data \notin ToSet(leaves)
    /\ BeginAppend(Store, data, "batch")

\* CheckpointMmr::verify_checkpoint, for any leaf.
VerifyCheckpoint ==
    /\ owner = "checkpoint" /\ h.open /\ op = Idle
    /\ \E n \in 0 .. LeafCount - 1 :
         SetStore(Reads(Store, generate_proof(View(Store), h.size, h.peaks,
                                              get_leaf_index(n)).reads))
    /\ UNCHANGED <<owner, backing, torn, op, leaves, acked, crashes>>

\* Mmr::sync after the append, before the proof.
SyncLeaf ==
    /\ op.pc = "sync"
    /\ SetStore(StoreSync(Store))
    /\ acked' = IF backing = "memory" THEN 0 ELSE Len(leaves)
    /\ op' = [pc |-> "prove", leaf |-> op.leaf]
    /\ UNCHANGED <<owner, backing, torn, leaves, crashes>>

\* generate_proof for the new leaf, with or without success.
Prove ==
    /\ op.pc = "prove"
    /\ SetStore(Reads(Store, generate_proof(View(Store), h.size, h.peaks, op.leaf).reads))
    /\ op' = Idle
    /\ UNCHANGED <<owner, backing, torn, leaves, acked, crashes>>

\* The sync at the end of witness_text_if_changed and of rebuild_from_chain.
SyncBatch ==
    /\ op.pc = "batch"
    /\ SetStore(StoreSync(Store))
    /\ acked' = IF backing = "memory" THEN 0 ELSE Len(leaves)
    /\ op' = Idle
    /\ UNCHANGED <<owner, backing, torn, leaves, crashes>>

\* generate_derivation_proof, for one derived segment that the tree holds.
Derive(data) ==
    /\ owner = "content" /\ h.open /\ op = Idle
    /\ LET scan == ScanFor(data)
           leaf == get_leaf_index(scan.at - 1)
           proof == generate_proof(View(Store), h.size, h.peaks, leaf)
       IN  /\ scan.found
           /\ SetStore(Reads(Store, IF Readable(Store, scan.reads)
                                    THEN scan.reads \o proof.reads ELSE scan.reads))
    /\ UNCHANGED <<owner, backing, torn, op, leaves, acked, crashes>>

-----------------------------------------------------------------------------

Init ==
    /\ owner \in {"content", "checkpoint"}
    /\ backing \in {"file", "memory"}
    /\ disk = <<>> /\ torn = FALSE /\ fsynced = 0
    /\ h = Closed /\ op = Idle
    /\ leaves = <<>> /\ acked = 0 /\ crashes = 0 /\ lapse = {}

Next ==
    \/ Open \/ Drop \/ Crash
    \/ Merge \/ Settle \/ AppendFails
    \/ SyncLeaf \/ Prove \/ SyncBatch \/ VerifyCheckpoint
    \/ \E data \in Data :
         \/ WitnessSegment(data) \/ WitnessNewSegment(data) \/ SkipSegment(data)
         \/ AppendCheckpoint(data) \/ RebuildLeaf(data) \/ Derive(data)

Spec == Init /\ [][Next]_vars

-----------------------------------------------------------------------------
(* The forest the leaves should form, defined from the top down *)

\* Leaf n comes after the n earlier leaves and every tree they complete.
Completed[n \in Nat] == IF n = 0 THEN 0 ELSE n \div 2 + Completed[n \div 2]
RefIndex(n) == n + Completed[n]

\* The perfect tree of height `height' whose first leaf is leaf `first' of s.
RefTree(s, height, first) ==
    LET tree[k \in 0 .. height, from \in Nat] ==
            IF k = 0 THEN hash_leaf(RefIndex(from), s[from + 1])
            ELSE hash_internal(k, tree[k - 1, from], tree[k - 1, from + 2^(k - 1)])
    IN  tree[height, first]

\* One tree for each power of two in the number of leaves, the tallest first.
RefPeaks(s) ==
    LET rest[from \in 0 .. Len(s)] ==
            IF from = Len(s) THEN <<>>
            ELSE LET k == CHOOSE k \in 0 .. Len(s) :
                              2^k <= Len(s) - from /\ Len(s) - from < 2^(k + 1)
                 IN  <<RefTree(s, k, from)>> \o rest[from + 2^k]
    IN  rest[0]

-----------------------------------------------------------------------------
(* Properties *)

\* Between calls on a file nothing has gone wrong with.
Settled == h.open /\ op.pc \in {"idle", "batch"} /\ lapse = {}

\* Type invariant: the file and the handle have their shape, and a handle of an
\* intact file knows how many nodes there are, on disk and in its buffer.
TypeOK ==
    /\ owner \in {"content", "checkpoint"} /\ backing \in {"file", "memory"}
    /\ torn \in BOOLEAN /\ fsynced \in 0 .. Len(disk)
    /\ \A i \in DOMAIN disk : DOMAIN disk[i] = {"index", "height", "hash"}
    /\ op.pc \in {"idle", "merge", "batch", "sync", "prove"}
    /\ op.pc # "idle" => h.open
    /\ h.open => /\ h.offset \in 0 .. h.size
                 /\ Len(h.buf) <= BufNodes
                 /\ DOMAIN h.cache \subseteq 0 .. h.size - 1
                 /\ h.appends \in 0 .. AutoSync
    /\ leaves \in Seq(Data) /\ acked \in Nat /\ crashes \in 0 .. MaxCrashes
    /\ lapse \subseteq {"displaced", "unmerged", "torn"}

\* The peaks a handle keeps, and so the root it reports, commit to exactly the
\* leaves that were appended, in their order, whatever buffering, auto-sync,
\* reopening or crash came between (Mmr::append, mmr.rs:60).
RootCommitsToLeaves ==
    Settled => h.peaks = RefPeaks(leaves)

\* For every leaf generate_proof finds a proof that verifies with the content of
\* that leaf, with no other content, and against the handle's root (mmr.rs:204,
\* proof.rs:40).
EveryLeafProvable ==
    Settled =>
        \A n \in 1 .. Len(leaves) :
            LET p == generate_proof(View(Store), h.size, h.peaks, get_leaf_index(n - 1))
            IN  /\ p.ok /\ p.proof.root = get_root(h.peaks)
                /\ \A d \in Data : verify(p.proof, d) <=> d = leaves[n]

\* generate_range_proof succeeds for every range of leaves, within one tree or
\* across several, and the proof verifies with their contents (mmr.rs:242,
\* proof.rs:249).
EveryRangeProvable ==
    Settled =>
        \A i \in 1 .. Len(leaves) : \A j \in i .. Len(leaves) :
            LET p == generate_range_proof(View(Store), h.size, h.peaks, i - 1, j - 1)
            IN  p.ok /\ verify_range(p, SubSeq(leaves, i, j), MaxLeaves)

\* Leaves that a sync covered are in the file, also after a crash and one that tears
\* the last node, until a crash takes a leaf's parent or a node is overwritten, whose
\* file no longer counts its leaves by its size (FileStore::sync, store.rs:107).
SyncedLeavesSurvive ==
    lapse \subseteq {"torn"} => acked <= leaf_count_from_size[Len(disk)]

\* Retrying append_checkpoint, also after a crash, never appends the same
\* checkpoint twice in a row (EH-043, checkpoint/mmr.rs:110).
RetryAppendsOnce ==
    owner = "checkpoint" /\ lapse = {} =>
        \A i \in 1 .. Len(leaves) - 1 : leaves[i] # leaves[i + 1]

\* A property the code does not have.  The store file is appended to: a node
\* that is in the file stays what it is (store.rs:38).
AppendsNeverOverwrite == [][crashes' = crashes => IsPrefix(disk, disk')]_vars
=============================================================================
