----------------------------- MODULE MmrForest -----------------------------
(***************************************************************************)
(* The Merkle Mountain Range as a data structure: the shape of the forest, *)
(* the hashes of its nodes, inclusion and range proofs and how they are    *)
(* verified.                                                               *)
(*                                                                         *)
(* Code: crates/cpoe/src/mmr/mmr.rs, node.rs and proof.rs.                 *)
(*                                                                         *)
(* A digest is the term that was hashed, so that two digests are equal     *)
(* exactly when their preimages are.  Operators that read nodes take       *)
(* `view', a function from a node's index to what Store::get returns for   *)
(* it, and list the indices they read, in order, in a field `reads'.       *)
(* Indices are far below 2^63: the overflow guards of the code never fire. *)
(***************************************************************************)
EXTENDS Integers, Sequences, SequencesExt

-----------------------------------------------------------------------------
(* Nodes *)

hash_leaf(index, data) == <<"leaf", index, data>>
hash_internal(height, left, right) == <<"node", height, left, right>>
hash_bag(left, right) == <<"bag", left, right>>

new_leaf(index, data) ==
    [index |-> index, height |-> 0, hash |-> hash_leaf(index, data)]

new_internal_swapped(index, height, left, right) ==
    [index |-> index, height |-> height, hash |-> hash_internal(height, right.hash, left.hash)]

new_internal(index, height, left, right) ==
    [index |-> index, height |-> height, hash |-> hash_internal(height, left.hash, right.hash)]

-----------------------------------------------------------------------------
(* The shape of the forest *)

\* Height of the largest perfect tree that fits into `size' nodes.
highest_peak(size) ==
    IF size = 0 THEN 0
    ELSE CHOOSE h \in 0 .. size : 2^(h + 1) <= size + 1 /\ size + 1 < 2^(h + 2)

tree_size(height) == 2^(height + 1) - 1

peaks_from[size \in Nat, offset \in Nat] ==
    IF size = 0 THEN <<>>
    ELSE LET t == tree_size(highest_peak(size))
         IN  <<offset + t - 1>> \o peaks_from[size - t, offset + t]

\* Indices of the peaks, the tallest first.
find_peaks(size) == peaks_from[size, 0]

leaf_count_from_size[size \in Nat] ==
    IF size = 0 THEN 0
    ELSE 2^highest_peak(size) + leaf_count_from_size[size - tree_size(highest_peak(size))]

count_ones[n \in Nat] ==
    IF n = 0 THEN 0 ELSE (n % 2) + count_ones[n \div 2]

\* Index of the n-th leaf, counted from 0.
get_leaf_index(n) == 2 * n - count_ones[n]

\* Peaks bagged from the right.
get_root(peaks) == FoldRight(hash_bag, Front(peaks), Last(peaks))

-----------------------------------------------------------------------------
(* Inclusion proofs *)

\* The sibling and the parent of the node at `pos', found by looking at the
\* heights of the nodes where they would be.
find_family(view, size, pos, height) ==
    LET offset == 2^(height + 1)
        lookup(sibling, parent) ==
            IF sibling \notin 0 .. size - 1 THEN <<>>
            ELSE IF view[sibling].height = height /\ parent < size
                 THEN <<sibling, parent>>
                 ELSE <<sibling>>
        related(sibling, parent) ==
            /\ Len(lookup(sibling, parent)) = 2
            /\ view[parent].height = height + 1
        right == pos + offset - 1
        left == pos + 1 - offset
    IN  IF related(right, pos + offset)
        THEN [found |-> TRUE, sibling |-> right, parent |-> pos + offset, is_left |-> FALSE,
              reads |-> lookup(right, pos + offset)]
        ELSE [found |-> related(left, pos + 1), sibling |-> left, parent |-> pos + 1,
              is_left |-> TRUE,
              reads |-> lookup(right, pos + offset) \o lookup(left, pos + 1)]

generate_merkle_path(view, size, leaf) ==
    LET climb[pos \in Nat, height \in Nat] ==
            LET family == find_family(view, size, pos, height)
                above == climb[family.parent, height + 1]
            IN  IF ~family.found
                THEN [path |-> <<>>, peak |-> pos, reads |-> family.reads]
                ELSE [path |-> <<[hash |-> view[family.sibling].hash,
                                  is_left |-> family.is_left]>> \o above.path,
                      peak |-> above.peak,
                      reads |-> family.reads \o <<family.sibling>> \o above.reads]
    IN  climb[leaf, view[leaf].height]

Position(s, e) == CHOOSE i \in 1 .. Len(s) : s[i] = e

\* The reads of generate_proof and, if it succeeds, the proof.  `peaks' are the
\* peak hashes the handle keeps in memory.
generate_proof(view, size, peaks, leaf) ==
    LET merkle == generate_merkle_path(view, size, leaf)
        indices == find_peaks(size)
        ok == view[leaf].height = 0 /\ Contains(indices, merkle.peak)
    IN  [ok |-> ok,
         reads |-> IF view[leaf].height = 0 THEN <<leaf, leaf>> \o merkle.reads ELSE <<leaf>>,
         proof |-> IF ~ok THEN <<>>
                   ELSE [leaf_index |-> leaf, leaf_hash |-> view[leaf].hash,
                         merkle_path |-> merkle.path, peaks |-> peaks,
                         peak_position |-> Position(indices, merkle.peak),
                         root |-> get_root(peaks)]]

verify_from_zero(proof, data) ==
    LET Step(acc, elem) ==
            [height |-> acc.height + 1,
             hash |-> IF elem.is_left THEN hash_internal(acc.height, elem.hash, acc.hash)
                      ELSE hash_internal(acc.height, acc.hash, elem.hash)]
        top == FoldLeft(Step, [height |-> 0, hash |-> proof.leaf_hash], proof.merkle_path)
    IN  /\ proof.leaf_hash = hash_leaf(proof.leaf_index, data)
        /\ proof.peak_position <= Len(proof.peaks)
        /\ top.hash = proof.peaks[proof.peak_position]
        /\ get_root(proof.peaks) = proof.root

\* InclusionProof::verify
verify(proof, data) ==
    LET Step(acc, elem) ==
            [height |-> acc.height + 1,
             hash |-> IF elem.is_left THEN hash_internal(acc.height, elem.hash, acc.hash)
                      ELSE hash_internal(acc.height, acc.hash, elem.hash)]
        top == FoldLeft(Step, [height |-> 1, hash |-> proof.leaf_hash], proof.merkle_path)
    IN  /\ proof.leaf_hash = hash_leaf(proof.leaf_index, data)
        /\ proof.peak_position <= Len(proof.peaks)
        /\ top.hash = proof.peaks[proof.peak_position]
        /\ get_root(proof.peaks) = proof.root

-----------------------------------------------------------------------------
(* Range proofs *)

NoPeak == -1

\* The positions below size that are in S, in ascending order.
Ascending(S, size) == SelectSeq([i \in 1 .. size |-> i - 1], LAMBDA i : i \in S)

\* The siblings a verifier of the leaves in `first' cannot compute, level by
\* level and from left to right, and the last peak they lead to.
generate_range_merkle_path(view, size, first) ==
    LET walk[level \in SUBSET Nat, height \in Nat] ==
            LET family(pos) == find_family(view, size, pos, height)
                lonely == SelectSeq(Ascending(level, size), LAMBDA pos :
                              family(pos).found /\ family(pos).sibling \notin level)
                tops == {pos \in level : ~family(pos).found}
                above == walk[{family(pos).parent : pos \in level \ tops}, height + 1]
            IN  IF level = {} THEN [path |-> <<>>, peak |-> NoPeak]
                ELSE [path |-> [i \in 1 .. Len(lonely) |->
                                  [hash |-> view[family(lonely[i]).sibling].hash,
                                   is_left |-> family(lonely[i]).is_left]] \o above.path,
                      peak |-> IF above.peak # NoPeak \/ tops = {} THEN above.peak
                               ELSE Max(tops)]
    IN  walk[first, 0]

generate_range_proof(view, size, peaks, start_leaf, end_leaf) ==
    LET indices == [i \in 1 .. end_leaf - start_leaf + 1 |-> get_leaf_index(start_leaf + i - 1)]
        merkle == generate_range_merkle_path(view, size, ToSet(indices))
    IN  [ok |-> Contains(find_peaks(size), merkle.peak),
         leaf_indices |-> indices,
         leaf_hashes |-> [i \in DOMAIN indices |-> view[indices[i]].hash],
         sibling_path |-> merkle.path,
         peaks |-> peaks, mmr_size |-> size, root |-> get_root(peaks)]

combine_level_merging_peaks(proof, current, used, height, peak_set) ==
    LET offset == 2^(height + 1)
        Put(acc, pos, hash, done) ==
            [acc EXCEPT !.next = (pos :> hash) @@ @, !.done = @ \cup done]
        Visit(acc, pos) ==
            LET right == pos + offset - 1
                left == pos + 1 - offset
                elem == proof.sibling_path[acc.used + 1]
                hash == current[pos]
            IN  IF pos \in acc.done THEN acc
                ELSE IF right \in DOMAIN current
                THEN Put(acc, pos + offset, hash_internal(height + 1, hash, current[right]),
                         {pos, right})
                ELSE IF left \in DOMAIN current
                THEN Put(acc, pos + 1, hash_internal(height + 1, current[left], hash),
                         {pos, left})
                ELSE IF acc.used = Len(proof.sibling_path) THEN Put(acc, pos, hash, {pos})
                ELSE LET up == [acc EXCEPT !.used = @ + 1]
                     IN  IF elem.is_left
                         THEN Put(up, IF left >= 0 THEN pos + 1 ELSE pos + offset,
                                  hash_internal(height + 1, elem.hash, hash), {pos})
                         ELSE Put(up, pos + offset,
                                  hash_internal(height + 1, hash, elem.hash), {pos})
    IN  FoldLeft(Visit, [next |-> <<>>, done |-> {}, used |-> used],
                 Ascending(DOMAIN current, proof.mmr_size))

\* One level of RangeProof::verify: the nodes known at `height', from left to
\* right, are combined with each other or with the next unused sibling.
combine_level(proof, current, used, height, peak_set) ==
    LET offset == 2^(height + 1)
        Put(acc, pos, hash, done) ==
            [acc EXCEPT !.next = (pos :> hash) @@ @, !.done = @ \cup done]
        Visit(acc, pos) ==
            LET right == pos + offset - 1
                left == pos + 1 - offset
                elem == proof.sibling_path[acc.used + 1]
                hash == current[pos]
            IN  IF pos \in acc.done THEN acc
                ELSE IF pos \in peak_set THEN Put(acc, pos, hash, {pos})
                ELSE IF right \in DOMAIN current
                THEN Put(acc, pos + offset, hash_internal(height + 1, hash, current[right]),
                         {pos, right})
                ELSE IF left \in DOMAIN current
                THEN Put(acc, pos + 1, hash_internal(height + 1, current[left], hash),
                         {pos, left})
                ELSE IF acc.used = Len(proof.sibling_path) THEN Put(acc, pos, hash, {pos})
                ELSE LET up == [acc EXCEPT !.used = @ + 1]
                     IN  IF elem.is_left
                         THEN Put(up, IF left >= 0 THEN pos + 1 ELSE pos + offset,
                                  hash_internal(height + 1, elem.hash, hash), {pos})
                         ELSE Put(up, pos + offset,
                                  hash_internal(height + 1, hash, elem.hash), {pos})
    IN  FoldLeft(Visit, [next |-> <<>>, done |-> {}, used |-> used],
                 Ascending(DOMAIN current, proof.mmr_size))

\* RangeProof::verify.  MaxHeight bounds the height of the forest (63 in the code).
verify_range(proof, data, MaxHeight) ==
    LET indices == proof.leaf_indices
        peak_list == find_peaks(proof.mmr_size)
        peak_set == ToSet(peak_list)
        fold[height \in 0 .. MaxHeight] ==
            IF height = 0
            THEN [next |-> [pos \in ToSet(indices) |->
                                proof.leaf_hashes[Position(indices, pos)]], used |-> 0]
            ELSE LET below == fold[height - 1]
                     exhausted == below.used = Len(proof.sibling_path)
                 IN  IF exhausted /\ DOMAIN below.next \subseteq peak_set THEN below
                     ELSE IF exhausted /\ Cardinality(DOMAIN below.next) = 1 THEN below
                     ELSE combine_level(proof, below.next, below.used, height - 1, peak_set)
        top == fold[MaxHeight]
    IN  /\ Len(data) = Len(indices)
        /\ \A i \in DOMAIN indices : proof.leaf_hashes[i] = hash_leaf(indices[i], data[i])
        /\ top.used = Len(proof.sibling_path)
        /\ \A pos \in DOMAIN top.next :
              /\ pos \in peak_set
              /\ top.next[pos] = proof.peaks[Position(peak_list, pos)]
        /\ get_root(proof.peaks) = proof.root
=============================================================================
