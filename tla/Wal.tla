-------------------------------- MODULE Wal --------------------------------
(***************************************************************************)
(* The secure write-ahead log of crates/cpoe/src/wal: one Wal object, the  *)
(* files it works on, the thread inside verify(), and what the operating   *)
(* system may do to them (failed calls, power loss, a clock that steps).   *)
(*                                                                         *)
(* Data abstraction.  An entry hash is the sequence of contents it chains  *)
(* (Blake3 taken as injective), so Append(prev, c) is Entry::compute_hash  *)
(* and the state of cumulative_hasher is the sequence of hashes fed to it. *)
(* A file is a header and a sequence of frames; offsets, set_len and       *)
(* byte_count count frames.  Bytes that do not decode are a torn frame.    *)
(***************************************************************************)
EXTENDS Integers, Sequences, FiniteSets

CONSTANTS
    Payloads,      \* entry payloads
    Oversize,      \* those whose frame exceeds MAX_ENTRY_SIZE
    Types,         \* entry types
    Checkpoint,    \* the type whose append forces a sync
    Keys,          \* signing keys a caller may open the log with
    Times,         \* readings of the wall clock, which may step backwards
    SyncInterval,  \* sync_interval, at least 1
    MaxSize,       \* MAX_WAL_SIZE, in frames
    MaxSeq,        \* bound: sequence numbers explored
    MaxFrames,     \* bound: frames in a file and hashes in a hasher
    MaxFiles       \* bound: inodes created

ASSUME WalConstants ==
    /\ Oversize \subseteq Payloads
    /\ Checkpoint \in Types
    /\ Keys # {}
    /\ Times \subseteq Nat
    /\ SyncInterval \in Nat \ {0}
    /\ MaxSize \in Nat
    /\ MaxSeq \in Nat
    /\ MaxFrames \in Nat
    /\ MaxFiles \in Nat

VARIABLES
    files,     \* the inodes created so far; an inode is an index
    path,      \* the inode the log's path names, 0 when it names none
    archives,  \* the archived inodes, each with the timestamp in its name
    st,        \* WalState, with the offset of its file description
    op,        \* where the thread holding the mutex is inside a call, or "idle"
    ver,       \* the thread inside verify()
    owed,      \* history: acknowledged contents the log must still hold
    lapse      \* history: which unguarded situations have occurred

vars == <<files, path, archives, st, op, ver, owed, lapse>>

(***************************************************************************)
(* Entries, frames and files.                                              *)
(***************************************************************************)
Content == [seq : Nat, ts : Times, type : Types, payload : Payloads]

Hash == Seq(Content)

Entry == [torn : {FALSE}, c : Content, prev : Hash, cum : Seq(Hash), key : Keys]

\* Bytes that do not decode; a stub is shorter than a length prefix.
Torn == [torn |-> TRUE, stub |-> FALSE]

Stub == [torn |-> TRUE, stub |-> TRUE]

Frame == Entry \cup {Torn, Stub}

File == [hdr : {"none", "partial", "cached", "ok"}, base : Nat,
         frames : Seq(Frame), synced : Nat]

ComputeHash(e) == Append(e.prev, e.c)

\* last_hash and the hasher after the first n frames.
LastHash(f, n) == IF n = 0 THEN <<>> ELSE ComputeHash(f.frames[n])

Hashes(f, n) == [j \in 1..n |-> ComputeHash(f.frames[j])]

Contents(f) == {f.frames[i].c : i \in {j \in 1..Len(f.frames) : ~f.frames[j].torn}}

(***************************************************************************)
(* The checks a scan makes on frame i once the frames before it passed:    *)
(* decoding and size, sequence, prev_hash, cumulative hash, signature.     *)
(***************************************************************************)
FrameOK(f, key, i) ==
    LET e == f.frames[i] IN
    /\ \A j \in 1..i : ~f.frames[j].torn
    /\ e.c.payload \notin Oversize
    /\ e.c.seq = f.base + i - 1
    /\ e.prev = LastHash(f, i - 1)
    /\ e.cum = Hashes(f, i)
    /\ e.key = key

Valid(f, key, n) == \A i \in 1..n : FrameOK(f, key, i)

\* What verify, recover and try_recover check besides: no timestamp regression.
InOrder(f, n) ==
    \A i \in 2..n : f.frames[i-1].c.ts <= f.frames[i].c.ts

\* scan_to_end stops after n frames.
ScanStops(f, key, n) ==
    /\ n \in 0..Len(f.frames)
    /\ Valid(f, key, n)
    /\ n < Len(f.frames) => ~FrameOK(f, key, n + 1)

\* The loops of recover and try_recover stop after n frames.
StrictStops(f, key, n) ==
    /\ n \in 0..Len(f.frames)
    /\ Valid(f, key, n)
    /\ InOrder(f, n)
    /\ n < Len(f.frames) => ~(FrameOK(f, key, n + 1) /\ InOrder(f, n + 1))

\* The frames before end of file: read_exact of a length prefix meets the end
\* at a stub as it does after the last frame.
Whole(f) ==
    LET n == Len(f.frames) IN
    IF n > 0 /\ f.frames[n] = Stub THEN n - 1 ELSE n

(***************************************************************************)
(* WalState.  A handle that is not open is NoWal.                          *)
(***************************************************************************)
NoWal == [open |-> FALSE]

\* Offsets count frames; the header lies before the first.
AtHeader == -1

Offset == Nat \cup {AtHeader}

Handle == [open : {TRUE}, ino : Nat, pos : Offset, key : Keys,
           next_sequence : Nat, last_hash : Hash, cumulative : Seq(Hash),
           closed : BOOLEAN, inconsistent : BOOLEAN,
           entry_count : Nat, byte_count : Nat, pending_syncs : Nat]

\* Mutant: the replay counts the entry it stopped at.
ReplayedOffByOne(s, ino, f, n) ==
    [s EXCEPT !.ino = ino, !.pos = n,
              !.next_sequence = f.base + n - 1,
              !.last_hash = LastHash(f, n),
              !.cumulative = Hashes(f, n),
              !.entry_count = n, !.byte_count = n]

\* Mutant: the hasher keeps the entry whose check failed.
ReplayedContaminated(s, ino, f, n) ==
    [s EXCEPT !.ino = ino, !.pos = n,
              !.next_sequence = f.base + n,
              !.last_hash = LastHash(f, n),
              !.cumulative = IF n < Len(f.frames) /\ ~f.frames[n+1].torn
                             THEN Hashes(f, n + 1) ELSE Hashes(f, n),
              !.entry_count = n, !.byte_count = n]

\* The writer state a replay of the first n frames of inode ino leaves.
Replayed(s, ino, f, n) ==
    [s EXCEPT !.ino = ino, !.pos = n,
              !.next_sequence = f.base + n,
              !.last_hash = LastHash(f, n),
              !.cumulative = Hashes(f, n),
              !.entry_count = n, !.byte_count = n]

\* A verifier that is not running keeps the verdict of its last run.
Idle == [pc |-> "idle"]

Verdicts == [pc : {"idle", "valid", "invalid"}]

Running == {"seek", "header", "read"}

\* The calls that read the file through a clone of its handle, mutex held.
Scans == {"recover", "try_recover", "truncate"}

Verifier == [pc : Running, ino : Nat, shared : BOOLEAN, off : Offset,
             key : Keys, prev : Hash, cum : Seq(Hash), seq : Nat, ts : Nat,
             count : Nat]

Lapses == {"write_error", "displaced", "recover_io", "rekey", "clock",
           "truncate_io", "stale", "base", "rotate_dirty", "restart", "oversize",
           "beside"}

TypeOK ==
    /\ files \in Seq(File)
    /\ path \in 0..Len(files)
    /\ archives \subseteq [ts : Times, ino : 1..Len(files)]
    /\ st \in Handle \cup {NoWal}
    /\ st.open => st.ino \in 1..Len(files)
    /\ op \in {"idle", "renamed", "created"} \cup Scans
    /\ ver \in Verifier \cup Verdicts
    /\ ver.pc \in Running => ver.ino \in 1..Len(files)
    /\ owed \subseteq Content
    /\ lapse \subseteq Lapses

Init ==
    /\ files = <<>>
    /\ path = 0
    /\ archives = {}
    /\ st = NoWal
    /\ op = "idle"
    /\ ver = Idle
    /\ owed = {}
    /\ lapse = {}

----------------------------------------------------------------------------
(***************************************************************************)
(* Opening, dropping and closing the object.                               *)
(***************************************************************************)
Fresh(key, ino) ==
    [open |-> TRUE, ino |-> ino, pos |-> 0, key |-> key,
     next_sequence |-> 0, last_hash |-> <<>>, cumulative |-> <<>>,
     closed |-> FALSE, inconsistent |-> FALSE,
     entry_count |-> 0, byte_count |-> 0, pending_syncs |-> 0]

NewFile(base) == [hdr |-> "ok", base |-> base, frames |-> <<>>, synced |-> 0]

\* An absent or empty file gets a header that starts the sequence at 0.
OpenCreate(key) ==
    /\ st = NoWal
    /\ \/ /\ path = 0
          /\ Len(files) < MaxFiles
          /\ files' = Append(files, NewFile(0))
          /\ path' = Len(files) + 1
       \/ /\ path # 0
          /\ files[path].hdr = "none"
          /\ files' = [files EXCEPT ![path] = NewFile(0)]
          /\ path' = path
    /\ st' = Fresh(key, path')
    /\ lapse' = lapse \cup (IF archives = {} THEN {} ELSE {"restart"})
    /\ UNCHANGED <<archives, op, ver, owed>>

\* set_len after n frames, not synced.
Cut(f, n) == [f EXCEPT !.frames = SubSeq(f.frames, 1, n),
                       !.synced = IF f.synced < n THEN f.synced ELSE n]

\* scan_to_end: replay the valid prefix and cut the file after it.
OpenExisting(key) ==
    /\ st = NoWal
    /\ path # 0
    /\ files[path].hdr \in {"cached", "ok"}
    /\ LET f == files[path] IN
       \E n \in 0..Len(f.frames) :
          /\ ScanStops(f, key, n)
          /\ files' = [files EXCEPT ![path] = Cut(f, n)]
          /\ st' = Replayed(Fresh(key, path), path, f, n)
          /\ lapse' = lapse \cup
               (IF \E i \in 1..Len(f.frames) :
                      ~f.frames[i].torn /\ f.frames[i].key # key
                THEN {"rekey"} ELSE {})
    /\ UNCHANGED <<path, archives, op, ver, owed>>

\* A header cut short by a crash, or overwritten: read_header fails.
OpenRejected ==
    /\ st = NoWal
    /\ path # 0
    /\ files[path].hdr = "partial"
    /\ UNCHANGED vars

\* Dropping the Wal closes the descriptor and syncs nothing.
Drop ==
    /\ st.open
    /\ op = "idle"
    /\ ver.pc \notin Running
    /\ st' = NoWal
    /\ UNCHANGED <<files, path, archives, op, ver, owed, lapse>>

\* sync_data and sync_all make the header and every frame durable.
Synced(f) == [f EXCEPT !.synced = Len(f.frames),
                       !.hdr = IF f.hdr = "cached" THEN "ok" ELSE f.hdr]

SyncFile(ino) == [files EXCEPT ![ino] = Synced(files[ino])]

Close ==
    /\ st.open
    /\ op = "idle"
    /\ ~st.closed
    /\ st' = [st EXCEPT !.closed = TRUE]
    /\ files' \in {files, SyncFile(st.ino)}
    /\ UNCHANGED <<path, archives, op, ver, owed, lapse>>

(***************************************************************************)
(* append.  The write lands at the offset of the file description, which   *)
(* the clones made by verify, recover, try_recover and truncate share.     *)
(***************************************************************************)
CanAppend ==
    /\ st.open
    /\ op = "idle"
    /\ ~st.closed
    /\ ~st.inconsistent
    /\ st.byte_count < MaxSize
    /\ st.next_sequence <= MaxSeq
    /\ Len(files[st.ino].frames) < MaxFrames
    /\ Len(st.cumulative) < MaxFrames

\* What precedes a write at offset pos; past the end the gap reads as zeros.
Before(f, pos) ==
    IF pos <= Len(f.frames) THEN SubSeq(f.frames, 1, pos)
                            ELSE Append(f.frames, Torn)

\* The file after fr is written over frame pos + 1; a write inside the file
\* may leave the frames behind it readable or not, by their lengths.
WriteOver(f, pos, fr) ==
    {[f EXCEPT !.frames = Before(f, pos) \o <<fr>> \o rest,
               !.synced = IF f.synced < pos THEN f.synced ELSE pos] :
        rest \in {SubSeq(f.frames, pos + 2, Len(f.frames))}
                   \cup (IF pos + 1 < Len(f.frames) THEN {<<Torn>>} ELSE {})}

\* A write at the header leaves none that open accepts, and no first frame.
Beheaded(f) == {[g EXCEPT !.hdr = "partial"] : g \in WriteOver(f, 0, Torn)}

\* The file after fr is written at offset pos.
WriteAt(f, pos, fr) ==
    IF pos = AtHeader THEN Beheaded(f) ELSE WriteOver(f, pos, fr)

EndOfWrite == Len(Before(files[st.ino], st.pos)) + 1

Displacement == IF st.pos = Len(files[st.ino].frames) THEN {} ELSE {"displaced"}

NewContent(type, payload, ts) ==
    [seq |-> st.next_sequence, ts |-> ts, type |-> type, payload |-> payload]

\* cumulative_hasher after update(&entry_hash), before anything is written.
HasherWith(c) == Append(st.cumulative, Append(st.last_hash, c))

NewEntry(c) ==
    [torn |-> FALSE, c |-> c, prev |-> st.last_hash, cum |-> HasherWith(c),
     key |-> st.key]

MustSync(type) == type = Checkpoint \/ st.pending_syncs + 1 >= SyncInterval

AppendOk(type, payload, ts) ==
    /\ CanAppend
    /\ LET c == NewContent(type, payload, ts) IN
       /\ \E g \in WriteAt(files[st.ino], st.pos, NewEntry(c)) :
             files' = [files EXCEPT ![st.ino] =
                         IF MustSync(type) THEN Synced(g) ELSE g]
       /\ st' = [st EXCEPT
                   !.pos = EndOfWrite,
                   !.cumulative = HasherWith(c),
                   !.last_hash = Append(st.last_hash, c),
                   !.next_sequence = st.next_sequence + 1,
                   !.entry_count = st.entry_count + 1,
                   !.byte_count = st.byte_count + 1,
                   !.pending_syncs = IF MustSync(type) THEN 0
                                     ELSE st.pending_syncs + 1]
       /\ owed' = owed \cup {c}
    /\ lapse' = lapse \cup Displacement
                 \cup (IF payload \in Oversize THEN {"oversize"} ELSE {})
    /\ UNCHANGED <<path, archives, op, ver>>

\* write_all fails, having written nothing or a part of the frame: append
\* returns the error with the hasher already advanced.
AppendWriteError(type, payload, ts) ==
    /\ CanAppend
    /\ \/ /\ files' = files
          /\ st' = [st EXCEPT !.cumulative = HasherWith(NewContent(type, payload, ts))]
          /\ lapse' = lapse \cup {"write_error"}
       \/ /\ \E t \in {Torn, Stub} : \E g \in WriteAt(files[st.ino], st.pos, t) :
                files' = [files EXCEPT ![st.ino] = g]
          /\ st' = [st EXCEPT
                      !.pos = EndOfWrite,
                      !.cumulative = HasherWith(NewContent(type, payload, ts))]
          /\ lapse' = lapse \cup {"write_error"} \cup Displacement
    /\ UNCHANGED <<path, archives, op, ver, owed>>

\* Mutant: a failed sync is reported and the log stays usable.
AppendSyncErrorUnmarked(type, payload, ts) ==
    /\ CanAppend
    /\ MustSync(type)
    /\ LET c == NewContent(type, payload, ts) IN
       /\ \E g \in WriteAt(files[st.ino], st.pos, NewEntry(c)) :
             files' = [files EXCEPT ![st.ino] = g]
       /\ st' = [st EXCEPT
                   !.pos = EndOfWrite,
                   !.cumulative = HasherWith(c),
                   !.pending_syncs = st.pending_syncs + 1]
    /\ lapse' = lapse \cup Displacement
    /\ UNCHANGED <<path, archives, op, ver, owed>>

\* The frame is written and its sync fails: the log is marked inconsistent.
AppendSyncError(type, payload, ts) ==
    /\ CanAppend
    /\ MustSync(type)
    /\ LET c == NewContent(type, payload, ts) IN
       /\ \E g \in WriteAt(files[st.ino], st.pos, NewEntry(c)) :
             files' = [files EXCEPT ![st.ino] = g]
       /\ st' = [st EXCEPT
                   !.pos = EndOfWrite,
                   !.cumulative = HasherWith(c),
                   !.pending_syncs = st.pending_syncs + 1,
                   !.inconsistent = TRUE]
    /\ lapse' = lapse \cup Displacement
                 \cup (IF payload \in Oversize THEN {"oversize"} ELSE {})
    /\ UNCHANGED <<path, archives, op, ver, owed>>

Flush ==
    /\ st.open
    /\ op = "idle"
    /\ ~st.closed
    /\ st.pending_syncs > 0
    /\ files' = SyncFile(st.ino)
    /\ st' = [st EXCEPT !.pending_syncs = 0]
    /\ UNCHANGED <<path, archives, op, ver, owed, lapse>>

----------------------------------------------------------------------------
(***************************************************************************)
(* verify().  The mutex is released after the handle is cloned; the clone  *)
(* shares the offset until the object replaces its file.                   *)
(***************************************************************************)
VerifyBegin ==
    /\ st.open
    /\ op = "idle"
    /\ ver.pc \notin Running
    /\ ver' = [pc |-> "seek", ino |-> st.ino, shared |-> TRUE, off |-> 0,
               key |-> st.key, prev |-> <<>>, cum |-> <<>>, seq |-> 0, ts |-> 0,
               count |-> 0]
    /\ UNCHANGED <<files, path, archives, st, op, owed, lapse>>

\* The offset of the verifier's clone moves to p, the writer's with it if shared.
Advance(p, v) ==
    /\ st' = IF ver.shared THEN [st EXCEPT !.pos = p] ELSE st
    /\ ver' = v

VerifySeek ==
    /\ ver.pc = "seek"
    /\ Advance(AtHeader, [ver EXCEPT !.pc = "header", !.off = AtHeader])
    /\ UNCHANGED <<files, path, archives, op, owed, lapse>>

VerifyPos == IF ver.shared THEN st.pos ELSE ver.off

\* What other bytes yield as a last_checkpoint_seq: a number no entry carries.
NoSeq == MaxSeq + 2

HeaderRead(seq) == Advance(0, [ver EXCEPT !.pc = "read", !.off = 0, !.seq = seq])

\* Mutant: sequences are expected from 0, not from last_checkpoint_seq.
VerifyHeaderFromZero ==
    /\ ver.pc = "header"
    /\ \/ /\ VerifyPos = AtHeader
          /\ files[ver.ino].hdr \in {"cached", "ok"}
          /\ HeaderRead(0)
       \/ /\ VerifyPos = AtHeader
          /\ files[ver.ino].hdr \notin {"cached", "ok"}
          /\ Advance(0, [pc |-> "invalid"])
       \/ /\ VerifyPos # AtHeader
          /\ \/ /\ VerifyPos < Len(files[ver.ino].frames)
                /\ HeaderRead(NoSeq)
             \/ Advance(Len(files[ver.ino].frames), [pc |-> "invalid"])
    /\ UNCHANGED <<files, path, archives, op, owed, lapse>>

\* The header is read where the offset is, its magic unchecked.
VerifyHeader ==
    /\ ver.pc = "header"
    /\ \/ /\ VerifyPos = AtHeader
          /\ files[ver.ino].hdr \in {"cached", "ok"}
          /\ HeaderRead(files[ver.ino].base)
       \/ /\ VerifyPos = AtHeader
          /\ files[ver.ino].hdr \notin {"cached", "ok"}
          /\ Advance(0, [pc |-> "invalid"])
       \/ /\ VerifyPos # AtHeader
          /\ \/ /\ VerifyPos < Len(files[ver.ino].frames)
                /\ HeaderRead(NoSeq)
             \/ Advance(Len(files[ver.ino].frames), [pc |-> "invalid"])
    /\ UNCHANGED <<files, path, archives, op, owed, lapse>>

Decodes(fr) == IF fr.torn THEN FALSE ELSE fr.c.payload \notin Oversize

\* The checks of verify on an entry, against what it accumulated so far.
Accepts(e) ==
    /\ e.c.seq = ver.seq
    /\ ver.ts <= e.c.ts
    /\ e.prev = ver.prev
    /\ e.cum = Append(ver.cum, ComputeHash(e))
    /\ e.key = ver.key

VerifyRead ==
    /\ ver.pc = "read"
    /\ LET f == files[ver.ino]
           p == VerifyPos
           e == f.frames[p + 1] IN
       \/ /\ p = AtHeader    \* the magic is no length
          /\ \E q \in 0..Len(f.frames) : Advance(q, [pc |-> "invalid"])
       \/ /\ p >= Whole(f)
          /\ Advance(IF p < Len(f.frames) THEN Len(f.frames) ELSE p,
                     [pc |-> "valid"])
       \/ /\ p \in 0..(Whole(f) - 1)
          /\ ~Decodes(e)
          /\ \E q \in p..Len(f.frames) : Advance(q, [pc |-> "invalid"])
       \/ /\ p \in 0..(Whole(f) - 1)
          /\ Decodes(e)
          /\ ~Accepts(e)
          /\ Advance(p + 1, [pc |-> "invalid"])
       \/ /\ p \in 0..(Whole(f) - 1)
          /\ Decodes(e)
          /\ Accepts(e)
          /\ Advance(p + 1, [ver EXCEPT !.off = p + 1,
                                        !.prev = ComputeHash(e),
                                        !.cum = Append(ver.cum, ComputeHash(e)),
                                        !.seq = ver.seq + 1,
                                        !.ts = e.c.ts,
                                        !.count = ver.count + 1])
    /\ UNCHANGED <<files, path, archives, op, owed, lapse>>

\* The verifier's view once the object has replaced its file description,
\* whose offset stays at p.
Detached(p) ==
    IF ver.pc \in Running
    THEN [ver EXCEPT !.shared = FALSE, !.off = IF ver.shared THEN p ELSE ver.off]
    ELSE ver

----------------------------------------------------------------------------
(***************************************************************************)
(* recover, try_recover and truncate read the file through clones as well. *)
(* Where no verifier shares the offset, such a call is one step; beside    *)
(* one it is a step that begins it, steps that move the offset, and one    *)
(* that ends it (below).                                                   *)
(***************************************************************************)
Beside == ver.pc \in Running /\ ver.shared

Exclusive == op = "idle" /\ ~Beside

HasHeader(f) == f.hdr \in {"cached", "ok"}

CanRecover ==
    /\ st.open
    /\ Exclusive
    /\ ~st.closed
    /\ HasHeader(files[st.ino])

\* Every entry is intact: nothing but the offset changes, and an
\* inconsistent log stays inconsistent.
RecoverClean ==
    /\ CanRecover
    /\ LET f == files[st.ino] IN
       /\ StrictStops(f, st.key, Len(f.frames))
       /\ st' = [st EXCEPT !.pos = Len(f.frames)]
    /\ UNCHANGED <<files, path, archives, op, ver, owed, lapse>>

\* The header cannot be read, or no entry is valid (Unrecoverable): the offset
\* is left where the scan stopped.
RecoverRefused ==
    /\ st.open
    /\ Exclusive
    /\ ~st.closed
    /\ LET f == files[st.ino] IN
       /\ HasHeader(f) => Len(f.frames) > 0 /\ StrictStops(f, st.key, 0)
       /\ \E q \in 0..Len(f.frames) : st' = [st EXCEPT !.pos = q]
    /\ UNCHANGED <<files, path, archives, op, ver, owed, lapse>>

\* The frames beyond the strict prefix are cut although scan_to_end accepts them.
ClockStep(f, n) ==
    IF n < Len(f.frames) /\ FrameOK(f, st.key, n + 1) THEN {"clock"} ELSE {}

RecoverTruncate ==
    /\ CanRecover
    /\ LET f == files[st.ino] IN
       \E n \in 1..(Len(f.frames) - 1) :
          /\ StrictStops(f, st.key, n)
          /\ files' = [files EXCEPT ![st.ino] = Synced(Cut(f, n))]
          /\ st' = [Replayed(st, st.ino, f, n) EXCEPT !.inconsistent = FALSE]
          /\ lapse' = lapse \cup ClockStep(f, n)
    /\ UNCHANGED <<path, archives, op, ver, owed>>

\* set_len succeeded and sync_all failed: the error is returned with the
\* writer state of before the cut.
RecoverSyncError ==
    /\ CanRecover
    /\ LET f == files[st.ino] IN
       \E n \in 1..(Len(f.frames) - 1), q \in 1..Len(f.frames) :
          /\ StrictStops(f, st.key, n)
          /\ q > n
          /\ files' = [files EXCEPT ![st.ino] = Cut(f, n)]
          /\ st' = [st EXCEPT !.pos = q]
    /\ lapse' = lapse \cup {"recover_io"}
    /\ UNCHANGED <<path, archives, op, ver, owed>>

TryRecoverOk ==
    /\ CanRecover
    /\ st.inconsistent
    /\ LET f == files[st.ino] IN
       /\ StrictStops(f, st.key, Whole(f))
       /\ st' = [Replayed(st, st.ino, f, Whole(f)) EXCEPT
                   !.inconsistent = FALSE, !.pending_syncs = 0]
    /\ lapse' = lapse \cup (IF st.ino = path THEN {} ELSE {"stale"})
    /\ UNCHANGED <<files, path, archives, op, ver, owed>>

TryRecoverFails ==
    /\ st.open
    /\ Exclusive
    /\ ~st.closed
    /\ st.inconsistent
    /\ LET f == files[st.ino] IN
       /\ HasHeader(f) => ~StrictStops(f, st.key, Whole(f))
       /\ \E q \in 0..Len(f.frames) : st' = [st EXCEPT !.pos = q]
    /\ UNCHANGED <<files, path, archives, op, ver, owed, lapse>>

----------------------------------------------------------------------------
(***************************************************************************)
(* truncate(before_seq): the retained entries are chained and signed anew  *)
(* into a synced file that is renamed over the path.  Neither closed nor   *)
(* inconsistent is consulted, and inconsistent is not cleared.             *)
(***************************************************************************)
ChainOK(f) ==
    /\ \A i \in 1..Whole(f) : Decodes(f.frames[i])
    /\ \A i \in 1..Whole(f) : f.frames[i].prev = LastHash(f, i - 1)

\* The retained entries are those from index k on, without a sequence gap.
RetainsFrom(f, before, k) ==
    /\ \A i \in 1..(k-1) : f.frames[i].c.seq < before
    /\ \A i \in k..Whole(f) : f.frames[i].c.seq >= before
    /\ \A i \in (k+1)..Whole(f) :
          f.frames[i].c.seq = f.frames[i-1].c.seq + 1

Retained(f, k) == [i \in 1..(Whole(f) - k + 1) |-> f.frames[k + i - 1].c]

\* The frames that chain the contents cs under key.
Chained(cs, key) ==
    [i \in 1..Len(cs) |->
        [torn |-> FALSE, c |-> cs[i], prev |-> SubSeq(cs, 1, i - 1),
         cum |-> [j \in 1..i |-> SubSeq(cs, 1, j)], key |-> key]]

Compacted(before, cs) ==
    [hdr |-> "ok", base |-> before, frames |-> Chained(cs, st.key),
     synced |-> Len(cs)]

\* Mutant: the hasher is kept although the retained entries are chained anew.
AfterTruncateKeepsHasher(before, cs) ==
    [st EXCEPT !.last_hash = cs,
               !.next_sequence = IF cs = <<>> THEN before
                                 ELSE cs[Len(cs)].seq + 1,
               !.entry_count = Len(cs)]

\* The writer fields truncate sets once the rename is done.
AfterTruncate(before, cs) ==
    [st EXCEPT !.last_hash = cs,
               !.cumulative = [j \in 1..Len(cs) |-> SubSeq(cs, 1, j)],
               !.next_sequence = IF cs = <<>> THEN before
                                 ELSE cs[Len(cs)].seq + 1,
               !.entry_count = Len(cs)]

TruncateDone(before, s, v, cs) ==
    /\ files' = Append(files, Compacted(before, cs))
    /\ path' = Len(files) + 1
    /\ st' = s
    /\ ver' = v
    /\ op' = "idle"
    /\ owed' = {c \in owed : c \in Contents(files[st.ino]) => c.seq >= before}
    /\ lapse' = lapse \cup (IF st.ino = path THEN {} ELSE {"stale"})
                      \cup (IF before < files[st.ino].base THEN {"base"} ELSE {})
    /\ UNCHANGED archives

\* The entries read of the old file were those of f, its offset is now pos.
TruncateRead(f, pos, before) ==
    /\ Len(files) < MaxFiles
    /\ ChainOK(f)
    /\ \E k \in 1..(Whole(f) + 1) :
          /\ RetainsFrom(f, before, k)
          /\ LET cs == Retained(f, k)
                 s == AfterTruncate(before, cs) IN
             TruncateDone(before,
                          [s EXCEPT !.ino = Len(files) + 1, !.pos = Len(cs),
                                    !.byte_count = Len(cs)],
                          Detached(pos), cs)

Truncate(before) ==
    /\ st.open
    /\ Exclusive
    /\ LET f == files[st.ino] IN TruncateRead(f, Len(f.frames), before)

\* After the rename: open fails twice (the handle keeps the replaced inode),
\* or seek fails, or metadata fails.  The log is marked inconsistent.
TruncateReadNotReopened(f, pos, before) ==
    /\ Len(files) < MaxFiles
    /\ ChainOK(f)
    /\ \E k \in 1..(Whole(f) + 1) :
          /\ RetainsFrom(f, before, k)
          /\ LET cs == Retained(f, k)
                 s == [AfterTruncate(before, cs) EXCEPT !.inconsistent = TRUE] IN
             \/ TruncateDone(before, [s EXCEPT !.pos = pos], ver, cs)
             \/ \E q \in {0, Len(cs)} :
                   TruncateDone(before, [s EXCEPT !.ino = Len(files) + 1, !.pos = q],
                                Detached(pos), cs)

TruncateReopenError(before) ==
    /\ st.open
    /\ Exclusive
    /\ LET f == files[st.ino] IN TruncateReadNotReopened(f, Len(f.frames), before)

\* The temporary file cannot be written, the old one fails a check, or the
\* rename fails: the temporary file is removed and only the offset has moved.
TruncateFails ==
    /\ st.open
    /\ Exclusive
    /\ \E q \in 0..Len(files[st.ino].frames) :
          /\ st' = [st EXCEPT !.pos = q]
          /\ lapse' = lapse \cup (IF q = Len(files[st.ino].frames) THEN {}
                                  ELSE {"truncate_io"})
    /\ UNCHANGED <<files, path, archives, op, ver, owed>>

----------------------------------------------------------------------------
(***************************************************************************)
(* The same calls beside a verifier that shares the offset.  Each moves it *)
(* under the other, in the middle of a frame too: the verifier may read    *)
(* bytes that are no entry, and the scan reads frames in any order and     *)
(* stops anywhere.  Of these it accepts what passes its checks.            *)
(***************************************************************************)
ScanBegin(call) ==
    /\ st.open
    /\ op = "idle"
    /\ Beside
    /\ call # "truncate" => ~st.closed
    /\ call = "try_recover" => st.inconsistent
    /\ op' = call
    /\ lapse' = lapse \cup {"beside"}
    /\ UNCHANGED <<files, path, archives, st, ver, owed>>

\* The scan, or a second verification, moves the offset under the verifier.
OffsetMoves ==
    /\ st.open
    /\ op \in Scans \/ Beside
    /\ \E q \in AtHeader..Len(files[st.ino].frames) : st' = [st EXCEPT !.pos = q]
    /\ ver' \in {ver} \cup (IF Beside THEN {[pc |-> "invalid"]} ELSE {})
    /\ lapse' = lapse \cup {"beside"}
    /\ UNCHANGED <<files, path, archives, op, owed>>

\* What a scan may have read of f: any of its frames in any order.
Glimpses(f) ==
    {[f EXCEPT !.frames = [i \in DOMAIN idx |-> f.frames[idx[i]]]] :
        idx \in UNION {[1..n -> DOMAIN f.frames] : n \in 0..Len(f.frames)}}

\* The first sequence number it expects: the header's, or that of other bytes.
Bases(f) == (IF HasHeader(f) THEN {f.base} ELSE {})
              \cup (IF f.frames = <<>> THEN {} ELSE {NoSeq})

\* The entries that pass the checks of recover and try_recover.
Accepted(f) ==
    {g \in {[h EXCEPT !.base = b] : h \in Glimpses(f), b \in Bases(f)} :
        Valid(g, st.key, Len(g.frames)) /\ InOrder(g, Len(g.frames))}

\* An error, or a report that the file is whole: only the offset has moved.
ScanChangesNothing ==
    /\ op \in Scans
    /\ op' = "idle"
    /\ UNCHANGED <<files, path, archives, st, ver, owed, lapse>>

RecoverBeside ==
    /\ op = "recover"
    /\ LET f == files[st.ino] IN
       \E g \in Accepted(f) :
          LET n == Len(g.frames) IN
          /\ n \in 1..(Len(f.frames) - 1)
          /\ \/ /\ files' = [files EXCEPT ![st.ino] = Synced(Cut(f, n))]
                /\ st' = [Replayed(st, st.ino, g, n) EXCEPT !.inconsistent = FALSE]
             \/ /\ files' = [files EXCEPT ![st.ino] = Cut(f, n)]
                /\ UNCHANGED st
    /\ op' = "idle"
    /\ UNCHANGED <<path, archives, ver, owed, lapse>>

TryRecoverBeside ==
    /\ op = "try_recover"
    /\ \E g \in Accepted(files[st.ino]) :
          st' = [Replayed(st, st.ino, g, Len(g.frames)) EXCEPT
                   !.inconsistent = FALSE, !.pending_syncs = 0]
    /\ op' = "idle"
    /\ UNCHANGED <<files, path, archives, ver, owed, lapse>>

TruncateBeside(before) ==
    /\ op = "truncate"
    /\ \E g \in Glimpses(files[st.ino]) :
          \/ TruncateRead(g, st.pos, before)
          \/ TruncateReadNotReopened(g, st.pos, before)

----------------------------------------------------------------------------
(***************************************************************************)
(* rotate_if_needed, in the steps a crash can separate, and pruning.       *)
(***************************************************************************)
RotateRename(ts) ==
    /\ st.open
    /\ op = "idle"
    /\ ~st.closed
    /\ path # 0
    /\ Len(files) < MaxFiles
    /\ \A a \in archives : a.ts # ts    \* nanosecond names do not collide
    /\ files' = SyncFile(st.ino)
    /\ archives' = archives \cup {[ts |-> ts, ino |-> path]}
    /\ path' = 0
    /\ op' = "renamed"
    /\ lapse' = lapse \cup (IF st.inconsistent THEN {"rotate_dirty"} ELSE {})
    /\ UNCHANGED <<st, ver, owed>>

\* The rename fails after the sync.
RotateRenameError ==
    /\ st.open
    /\ op = "idle"
    /\ ~st.closed
    /\ files' = SyncFile(st.ino)
    /\ UNCHANGED <<path, archives, st, op, ver, owed, lapse>>

EmptyFile == [hdr |-> "none", base |-> 0, frames |-> <<>>, synced |-> 0]

RotateCreate ==
    /\ op = "renamed"
    /\ files' = Append(files, EmptyFile)
    /\ path' = Len(files) + 1
    /\ op' = "created"
    /\ UNCHANGED <<archives, st, ver, owed, lapse>>

\* The new file cannot be opened, or its permissions not set.
RotateCreateError ==
    /\ op = "renamed"
    /\ \/ UNCHANGED <<files, path>>
       \/ /\ files' = Append(files, EmptyFile)
          /\ path' = Len(files) + 1
    /\ st' = [st EXCEPT !.inconsistent = TRUE]
    /\ op' = "idle"
    /\ UNCHANGED <<archives, ver, owed, lapse>>

\* The object on its new file, the sequence continuing.
Rotated == [st EXCEPT !.ino = path, !.pos = 0, !.last_hash = <<>>,
                      !.cumulative = <<>>, !.entry_count = 0, !.byte_count = 0]

\* Mutant: the sequence restarts in the new file.
RotateHeaderFromZero ==
    /\ op = "created"
    /\ files' = [files EXCEPT ![path] = NewFile(0)]
    /\ st' = [Rotated EXCEPT !.next_sequence = 0]
    /\ ver' = Detached(st.pos)
    /\ op' = "idle"
    /\ UNCHANGED <<path, archives, owed, lapse>>

RotateHeader ==
    /\ op = "created"
    /\ files' = [files EXCEPT ![path] = NewFile(st.next_sequence)]
    /\ st' = Rotated
    /\ ver' = Detached(st.pos)
    /\ op' = "idle"
    /\ UNCHANGED <<path, archives, owed, lapse>>

\* The header write fails part way, or its sync fails.
RotateHeaderError ==
    /\ op = "created"
    /\ \E h \in {"none", "partial", "cached"} :
          files' = [files EXCEPT ![path] =
                      [NewFile(st.next_sequence) EXCEPT !.hdr = h]]
    /\ st' = [Rotated EXCEPT !.inconsistent = TRUE]
    /\ ver' = Detached(st.pos)
    /\ op' = "idle"
    /\ UNCHANGED <<path, archives, owed, lapse>>

\* All but the max most recent archives by the timestamp in their name.
Excess(max) ==
    {a \in archives : Cardinality({b \in archives : b.ts > a.ts}) >= max}

PruneArchives(max) ==
    \E R \in SUBSET Excess(max) :
       /\ R # {}
       /\ archives' = archives \ R
       /\ owed' = owed \ UNION {Contents(files[a.ino]) : a \in R}
       /\ UNCHANGED <<files, path, st, op, ver, lapse>>

----------------------------------------------------------------------------
(***************************************************************************)
(* Power loss.  A file keeps what was synced and any part of the rest.     *)
(***************************************************************************)
CrashHeaders(f) == IF f.hdr = "cached" THEN {"none", "partial", "ok"} ELSE {f.hdr}

CrashFrames(f) ==
    {SubSeq(f.frames, 1, n) : n \in f.synced..Len(f.frames)} \cup
    {Append(SubSeq(f.frames, 1, n), t) :
        n \in f.synced..(Len(f.frames) - 1), t \in {Torn, Stub}}

CrashImage(f, h, fs) == [f EXCEPT !.hdr = h, !.frames = IF h = "ok" THEN fs ELSE <<>>]

CrashImages(f) ==
    {CrashImage(f, h, fs) : h \in CrashHeaders(f), fs \in CrashFrames(f)}

\* The inodes as a crash finds them: a rotation may be writing its header.
OnDisk(i) ==
    IF op = "created" /\ i = path
    THEN [NewFile(st.next_sequence) EXCEPT !.hdr = "cached"]
    ELSE files[i]

Unsynced == {f \in {files[i] : i \in 1..Len(files)} : f.synced < Len(f.frames)}

AtRisk == UNION {{f.frames[i].c : i \in {j \in (f.synced + 1)..Len(f.frames) :
                                            ~f.frames[j].torn}} : f \in Unsynced}

Crash ==
    /\ files' \in {g \in [1..Len(files) ->
                             UNION {CrashImages(OnDisk(i)) : i \in 1..Len(files)}] :
                      \A i \in 1..Len(files) : g[i] \in CrashImages(OnDisk(i))}
    /\ st' = NoWal
    /\ op' = "idle"
    /\ ver' = Idle
    /\ owed' = owed \ AtRisk
    /\ UNCHANGED <<path, archives, lapse>>

\* Power is lost while open writes the header of an absent or empty file.
CrashInOpen ==
    /\ st = NoWal
    /\ \/ /\ path = 0
          /\ Len(files) < MaxFiles
          /\ \E h \in {"none", "partial"} :
                files' = Append(files, [EmptyFile EXCEPT !.hdr = h])
          /\ path' = Len(files) + 1
       \/ /\ path # 0
          /\ files[path].hdr = "none"
          /\ files' = [files EXCEPT ![path] = [EmptyFile EXCEPT !.hdr = "partial"]]
          /\ path' = path
    /\ UNCHANGED <<archives, st, op, ver, owed, lapse>>

----------------------------------------------------------------------------
Lifecycle == \/ \E key \in Keys : OpenCreate(key) \/ OpenExisting(key)
             \/ OpenRejected \/ Drop \/ Close \/ Flush

AppendStep == \E type \in Types, payload \in Payloads, ts \in Times :
                 \/ AppendOk(type, payload, ts)
                 \/ AppendWriteError(type, payload, ts)
                 \/ AppendSyncError(type, payload, ts)

VerifyStep == VerifyBegin \/ VerifySeek \/ VerifyHeader \/ VerifyRead

RecoverStep == \/ RecoverClean \/ RecoverRefused \/ RecoverTruncate
               \/ RecoverSyncError \/ TryRecoverOk \/ TryRecoverFails

TruncateStep == \E before \in 0..(MaxSeq + 1) :
                   \/ Truncate(before)
                   \/ TruncateReopenError(before)

BesideStep == \/ \E call \in Scans : ScanBegin(call)
              \/ OffsetMoves \/ ScanChangesNothing
              \/ RecoverBeside \/ TryRecoverBeside
              \/ \E before \in 0..(MaxSeq + 1) : TruncateBeside(before)

RotateStep == \/ \E ts \in Times : RotateRename(ts)
              \/ RotateRenameError \/ RotateCreate \/ RotateCreateError
              \/ RotateHeader \/ RotateHeaderError
              \/ \E max \in 0..Cardinality(archives) : PruneArchives(max)

Next == \/ Lifecycle \/ AppendStep \/ VerifyStep \/ RecoverStep
        \/ TruncateStep \/ TruncateFails \/ BesideStep \/ RotateStep \/ Crash \/ CrashInOpen

Spec == Init /\ [][Next]_vars

----------------------------------------------------------------------------
(***************************************************************************)
(* Properties.                                                             *)
(***************************************************************************)
\* What a file still yields to a scan.
Readable(f) ==
    {f.frames[i].c : i \in {j \in 1..Len(f.frames) :
                              \E key \in Keys : Valid(f, key, j)}}

\* The inodes that can still be found: the log and its archives.
Linked == ({path} \ {0}) \cup {a.ino : a \in archives}

OwedReadable == owed \subseteq UNION {Readable(files[i]) : i \in Linked}

\* An entry append acknowledged stays readable in the log or an archive until
\* truncate or prune removes it or a crash takes it before its sync, as long
\* as none of the unguarded situations in lapse occurred.
NothingAckedIsLost == lapse = {} => OwedReadable

\* An open, consistent Wal agrees with its file: the file is the one the path
\* names, all of it is valid, and next_sequence, last_hash, the hasher and the
\* counters are what a replay of it yields (WalState against scan_to_end).
WriterMatchesFile ==
    (lapse = {} /\ st.open /\ op = "idle") =>
       (~st.inconsistent =>
          LET f == files[st.ino] IN
          /\ st.ino = path
          /\ Valid(f, st.key, Len(f.frames))
          /\ st = [Replayed(st, path, f, Len(f.frames)) EXCEPT !.pos = st.pos])

\* The state the handle is left in is the one a replay of its file yields.
AgreesWithFile(s, f) ==
    /\ Valid(f, s.key, Whole(f))
    /\ s = Replayed(s, s.ino, f, Whole(f))

Restored == op = "idle" /\ st'.open /\ ~st'.inconsistent /\ (st.open => st.inconsistent)

\* Whatever went wrong before, an object that open returns, and one that
\* recover or try_recover declares consistent while no verification shares its
\* offset, agrees with its file, so that "further appends are safe after this
\* returns" (the documentation of recover).
RecoveryRestoresWriter ==
    [][Restored => AgreesWithFile(st', files'[st'.ino])]_vars

\* No sequence number is held twice by the log and its archives (the promise
\* of rotate_if_needed, AUD-108).
SequencesUnique ==
    \A i, j \in Linked :
       \A c \in Readable(files[i]), d \in Readable(files[j]) :
          c.seq = d.seq => i = j /\ c = d

SequencesUniqueUnlessLapsed == lapse = {} => SequencesUnique

\* verify() rejects only a file with a timestamp regression and accepts only
\* entries that scan_to_end accepts, as long as no unguarded situation occurred.
VerdictIsRight ==
    [][(lapse' = {} /\ ver.pc = "read") =>
          LET f == files[ver.ino] IN
          /\ ver'.pc = "valid" => Valid(f, ver.key, Len(f.frames))
          /\ ver'.pc = "invalid" => ~InOrder(f, Len(f.frames))]_vars

----------------------------------------------------------------------------
(***************************************************************************)
(* What comments of the code promise and the code does not keep.           *)
(***************************************************************************)
\* A failed write costs no acknowledged entry: append leaves the hasher as the
\* next entry needs it, which recover and scan_to_end take care to do ("the
\* contaminated hasher would produce wrong cumulative hashes for all
\* subsequent appends").
WriteErrorsLoseNothing == lapse \subseteq {"write_error"} => OwedReadable

\* verify() is "a read-only inspection", and recover clones the handle "so the
\* read-only scan doesn't disturb the write position": no acknowledged entry is
\* lost because verify() ran beside an append or beside another scan.
VerifyIsReadOnly == lapse \subseteq {"displaced", "beside"} => OwedReadable

\* A rotation "prevents sequence reuse across rotations", whatever sync error
\* or crash comes with it.
RotationKeepsSequences ==
    lapse \subseteq {"rotate_dirty", "restart"} => SequencesUnique

\* recover() loses nothing when every entry's hash-chain linkage and signature
\* are intact, whatever the clock did.
RecoverKeepsIntactEntries == lapse \subseteq {"clock"} => OwedReadable

\* No entry is acknowledged into a file the path no longer names ("to prevent
\* further writes against the now-stale file handle").
StaleHandleUnused == lapse \subseteq {"stale"} => OwedReadable
=============================================================================
