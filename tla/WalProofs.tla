----------------------------- MODULE WalProofs -----------------------------
(***************************************************************************)
(* Proofs about Wal for every set of payloads, keys and clock readings and *)
(* every bound: type correctness; that recovery restores the writer; and,  *)
(* while no lapse has happened, that nothing acknowledged is lost, that    *)
(* the writer agrees with its file, that no sequence number is used twice  *)
(* and that verify() gives the right verdict.                              *)
(***************************************************************************)
EXTENDS Wal, TLAPS

(***************************************************************************)
(* Where the threads can be: a rotation or a verification in progress      *)
(* implies an open object, and a created file has a name.                  *)
(***************************************************************************)
Threads ==
    /\ op # "idle" => st.open
    /\ ver.pc \in Running => st.open
    /\ op = "created" => path # 0

IInv == TypeOK /\ Threads

----------------------------------------------------------------------------
(***************************************************************************)
(* The operators on frames and files have the types their names say.       *)
(***************************************************************************)
\* A frame that is not torn is an entry.
LEMMA EntryFrame ==
    ASSUME NEW fr \in Frame, ~fr.torn
    PROVE  fr \in Entry
  BY DEF Frame, Torn, Stub

\* Entry::compute_hash yields a hash.
LEMMA HashType ==
    ASSUME NEW e \in Entry
    PROVE  ComputeHash(e) \in Hash
  BY DEF Entry, ComputeHash, Hash

\* A replay of decodable frames leaves a hash and a hasher.
LEMMA ReplayTypes ==
    ASSUME NEW f \in File, NEW n \in 0..Len(f.frames),
           \A j \in 1..n : ~f.frames[j].torn
    PROVE  LastHash(f, n) \in Hash /\ Hashes(f, n) \in Seq(Hash)
<1>1. \A j \in 1..n : f.frames[j] \in Frame
  BY DEF File
<1>2. \A j \in 1..n : ComputeHash(f.frames[j]) \in Hash
  BY <1>1, EntryFrame, HashType
<1>3. Hashes(f, n) \in Seq(Hash)
  <2>1. n \in Nat
    BY DEF File
  <2> QED BY <1>2, <2>1 DEF Hashes
<1>4. LastHash(f, n) \in Hash
  BY <1>2 DEF LastHash, Hash
<1> QED BY <1>3, <1>4

\* Frames a scan accepts are decodable.
LEMMA ValidDecodes ==
    ASSUME NEW f, NEW key, NEW n \in Nat, Valid(f, key, n)
    PROVE  \A j \in 1..n : ~f.frames[j].torn
  BY DEF Valid, FrameOK

\* What precedes a write is a sequence of frames.
LEMMA BeforeType ==
    ASSUME NEW f \in File, NEW pos \in Offset
    PROVE  Before(f, pos) \in Seq(Frame)
<1>1. f.frames \in Seq(Frame) /\ Torn \in Frame /\ pos \in Int
  BY DEF File, Frame, Offset, AtHeader
<1>2. CASE pos <= Len(f.frames)
  <2>1. SubSeq(f.frames, 1, pos) \in Seq(Frame)
    BY <1>1, <1>2
  <2> QED BY <1>2, <2>1 DEF Before
<1>3. CASE ~(pos <= Len(f.frames))
  BY <1>1, <1>3 DEF Before
<1> QED BY <1>2, <1>3

\* A write over a frame leaves a file.
LEMMA WriteOverType ==
    ASSUME NEW f \in File, NEW pos \in Nat, NEW fr \in Frame,
           NEW g \in WriteOver(f, pos, fr)
    PROVE  g \in File
<1>1. PICK rest \in {SubSeq(f.frames, pos + 2, Len(f.frames))}
                   \cup (IF pos + 1 < Len(f.frames) THEN {<<Torn>>} ELSE {}) :
        g = [f EXCEPT !.frames = Before(f, pos) \o <<fr>> \o rest,
                      !.synced = IF f.synced < pos THEN f.synced ELSE pos]
  BY DEF WriteOver
<1>2. f.frames \in Seq(Frame) /\ f.synced \in Nat /\ Torn \in Frame
  BY DEF File, Frame
<1>3. rest \in Seq(Frame)
  <2>1. SubSeq(f.frames, pos + 2, Len(f.frames)) \in Seq(Frame)
    BY <1>2
  <2>2. <<Torn>> \in Seq(Frame)
    BY <1>2
  <2> QED BY <1>1, <2>1, <2>2
<1>4. Before(f, pos) \o <<fr>> \o rest \in Seq(Frame)
  BY <1>3, BeforeType DEF Offset
<1> QED BY <1>1, <1>2, <1>4 DEF File

\* A write leaves a file.
LEMMA WriteAtType ==
    ASSUME NEW f \in File, NEW pos \in Offset, NEW fr \in Frame,
           NEW g \in WriteAt(f, pos, fr)
    PROVE  g \in File
<1>1. CASE pos = AtHeader
  <2>1. PICK h \in WriteOver(f, 0, Torn) : g = [h EXCEPT !.hdr = "partial"]
    BY <1>1 DEF WriteAt, Beheaded
  <2>2. h \in File
    BY <2>1, WriteOverType DEF Frame
  <2> QED BY <2>1, <2>2 DEF File
<1>2. CASE pos # AtHeader
  BY <1>2, WriteOverType DEF WriteAt, Offset
<1> QED BY <1>1, <1>2

\* A shortened or synced file is a file.
LEMMA CutType ==
    ASSUME NEW f \in File, NEW n \in 0..Len(f.frames)
    PROVE  Cut(f, n) \in File
<1>1. f.frames \in Seq(Frame) /\ f.synced \in Nat /\ n \in Nat
  BY DEF File
<1>2. SubSeq(f.frames, 1, n) \in Seq(Frame)
  BY <1>1
<1> QED BY <1>1, <1>2 DEF Cut, File

LEMMA SyncedType ==
    ASSUME NEW f \in File
    PROVE  Synced(f) \in File
<1>1. Len(f.frames) \in Nat
  BY DEF File
<1> QED BY <1>1 DEF Synced, File

LEMMA NewFileType ==
    ASSUME NEW base \in Nat
    PROVE  NewFile(base) \in File
  BY DEF NewFile, File

LEMMA EmptyFileType == EmptyFile \in File
  BY DEF EmptyFile, File

\* A file after a crash is a file.
LEMMA CrashImageType ==
    ASSUME NEW f \in File, NEW g \in CrashImages(f)
    PROVE  g \in File
<1>1. f.frames \in Seq(Frame) /\ f.synced \in Nat /\ Torn \in Frame /\ Stub \in Frame
      /\ f.hdr \in {"none", "partial", "cached", "ok"}
  BY DEF File, Frame
<1>2. \A n \in f.synced..Len(f.frames) : SubSeq(f.frames, 1, n) \in Seq(Frame)
  BY <1>1
<1>3. CrashHeaders(f) \subseteq {"none", "partial", "cached", "ok"}
  BY <1>1 DEF CrashHeaders
<1>4. CrashFrames(f) \subseteq Seq(Frame)
  <2> SUFFICES ASSUME NEW fs \in CrashFrames(f) PROVE fs \in Seq(Frame)
    OBVIOUS
  <2>1. CASE \E n \in f.synced..Len(f.frames) : fs = SubSeq(f.frames, 1, n)
    BY <1>2, <2>1
  <2>2. CASE \E n \in f.synced..(Len(f.frames) - 1), t \in {Torn, Stub} :
               fs = Append(SubSeq(f.frames, 1, n), t)
    <3>1. PICK n \in f.synced..(Len(f.frames) - 1), t \in {Torn, Stub} :
               fs = Append(SubSeq(f.frames, 1, n), t)
      BY <2>2
    <3>2. SubSeq(f.frames, 1, n) \in Seq(Frame)
      BY <1>1, <1>2
    <3> QED BY <1>1, <3>1, <3>2
  <2> QED BY <2>1, <2>2 DEF CrashFrames
<1>5. PICK h \in CrashHeaders(f), fs \in CrashFrames(f) :
        g = CrashImage(f, h, fs)
  BY DEF CrashImages
<1>6. (IF h = "ok" THEN fs ELSE <<>>) \in Seq(Frame)
  BY <1>4
<1> QED BY <1>3, <1>5, <1>6 DEF CrashImage, File

\* An open object is a handle.
LEMMA OpenHandle ==
    ASSUME TypeOK, st.open
    PROVE  st \in Handle /\ files[st.ino] \in File
<1>1. st \in Handle
  BY DEF TypeOK, NoWal
<1> QED BY <1>1 DEF TypeOK

\* The frames truncate writes chain contents into entries.
LEMMA CompactedType ==
    ASSUME TypeOK, st.open, NEW before \in Nat, NEW cs \in Seq(Content)
    PROVE  Compacted(before, cs) \in File
<1>1. st.key \in Keys
  BY OpenHandle DEF Handle
<1>2. \A i \in 1..Len(cs) : SubSeq(cs, 1, i - 1) \in Hash /\ SubSeq(cs, 1, i) \in Hash
  BY DEF Hash
<1>3. \A i \in 1..Len(cs) : [j \in 1..i |-> SubSeq(cs, 1, j)] \in Seq(Hash)
  <2> TAKE i \in 1..Len(cs)
  <2>1. i \in Nat /\ \A j \in 1..i : SubSeq(cs, 1, j) \in Hash
    BY <1>2
  <2> QED BY <2>1
<1>4. \A i \in 1..Len(cs) : Chained(cs, st.key)[i] \in Frame
  BY <1>1, <1>2, <1>3 DEF Chained, Frame, Entry
<1>5. Chained(cs, st.key) \in Seq(Frame)
  BY <1>4 DEF Chained
<1> QED BY <1>5 DEF Compacted, File
\* Replacing one inode, or adding one, leaves a sequence of files.
LEMMA ReplaceFile ==
    ASSUME files \in Seq(File), NEW i \in 1..Len(files), NEW g \in File
    PROVE  /\ [files EXCEPT ![i] = g] \in Seq(File)
           /\ Len([files EXCEPT ![i] = g]) = Len(files)
           /\ [files EXCEPT ![i] = g][i] = g
  OBVIOUS

LEMMA AddFile ==
    ASSUME files \in Seq(File), NEW g \in File
    PROVE  /\ Append(files, g) \in Seq(File)
           /\ Len(Append(files, g)) = Len(files) + 1
           /\ Append(files, g)[Len(files) + 1] = g
  OBVIOUS

\* A replay of accepted frames yields a handle.
LEMMA ReplayedType ==
    ASSUME NEW s \in Handle, NEW ino \in Nat, NEW f \in File,
           NEW n \in 0..Len(f.frames), NEW key, Valid(f, key, n)
    PROVE  Replayed(s, ino, f, n) \in Handle
<1>1. n \in Nat /\ n \in Offset /\ f.base \in Nat
  BY DEF File, Offset
<1>2. \A j \in 1..n : ~f.frames[j].torn
  BY <1>1, ValidDecodes
<1>3. LastHash(f, n) \in Hash /\ Hashes(f, n) \in Seq(Hash)
  BY <1>2, ReplayTypes
<1>4. f.base + n \in Nat
  BY <1>1
<1> QED BY <1>1, <1>3, <1>4 DEF Replayed, Handle

LEMMA FreshType ==
    ASSUME NEW key \in Keys, NEW ino \in Nat
    PROVE  Fresh(key, ino) \in Handle
<1>1. <<>> \in Hash /\ <<>> \in Seq(Hash)
  BY DEF Hash
<1>2. 0 \in Nat /\ 0 \in Offset
  BY DEF Offset
<1> QED BY <1>1, <1>2 DEF Fresh, Handle

----------------------------------------------------------------------------
(***************************************************************************)
(* IInv holds initially, and each operation preserves it.                  *)
(***************************************************************************)
LEMMA InitIInv == Init => IInv
<1> SUFFICES ASSUME Init PROVE IInv
  OBVIOUS
<1>1. files = <<>> /\ files \in Seq(File) /\ Len(files) = 0
  BY DEF Init
<1>2. TypeOK
  BY <1>1 DEF Init, TypeOK, NoWal, Idle, Verdicts, Running
<1>3. Threads
  BY DEF Init, Threads, Idle, Running
<1> QED BY <1>2, <1>3 DEF IInv

LEMMA OpenPreserves ==
    ASSUME IInv, NEW key \in Keys, OpenCreate(key) \/ OpenExisting(key) \/ CrashInOpen
    PROVE  IInv'
<1>1. /\ files \in Seq(File) /\ path \in 0..Len(files)
      /\ ver.pc \notin Running /\ ver \in Verdicts /\ op = "idle"
      /\ Len(files) \in Nat
  BY DEF IInv, TypeOK, Threads, OpenCreate, OpenExisting, CrashInOpen, NoWal,
         Verifier, Verdicts, Running
<1>2. CASE OpenCreate(key)
  <2>1. NewFile(0) \in File
    BY NewFileType
  <2>2. /\ files' \in Seq(File) /\ path' \in 1..Len(files')
        /\ Len(files) <= Len(files')
    BY <1>1, <1>2, <2>1, ReplaceFile, AddFile DEF OpenCreate
  <2>3. st' \in Handle /\ st'.open /\ st'.ino = path'
    <3>1. path' \in Nat
      BY <2>2
    <3> QED BY <1>2, <3>1, FreshType DEF OpenCreate, Fresh
  <2>4. TypeOK'
    BY <1>1, <1>2, <2>2, <2>3 DEF OpenCreate, IInv, TypeOK, Verdicts, Lapses
  <2> QED BY <1>1, <1>2, <2>2, <2>3, <2>4 DEF OpenCreate, IInv, Threads
<1>3. CASE OpenExisting(key)
  <2>1. path \in 1..Len(files) /\ files[path] \in File
    BY <1>1, <1>3 DEF OpenExisting
  <2>2. PICK n \in 0..Len(files[path].frames) :
          /\ ScanStops(files[path], key, n)
          /\ files' = [files EXCEPT ![path] = Cut(files[path], n)]
          /\ st' = Replayed(Fresh(key, path), path, files[path], n)
          /\ lapse' \subseteq lapse \cup {"rekey"}
    BY <1>3 DEF OpenExisting
  <2>3. files' \in Seq(File) /\ Len(files') = Len(files)
    BY <1>1, <2>1, <2>2, CutType, ReplaceFile
  <2>4. st' \in Handle
    BY <2>1, <2>2, FreshType, ReplayedType DEF ScanStops
  <2>5. st'.ino = path /\ st'.open
    BY <2>2 DEF Replayed, Fresh
  <2>6. TypeOK'
    BY <1>1, <1>3, <2>1, <2>2, <2>3, <2>4, <2>5 DEF OpenExisting, IInv, TypeOK, Lapses
  <2> QED BY <1>1, <1>3, <2>5, <2>6 DEF OpenExisting, IInv, Threads
<1>4. CASE CrashInOpen
  <2>1. \A h \in {"none", "partial"} : [EmptyFile EXCEPT !.hdr = h] \in File
    BY EmptyFileType DEF File
  <2>2. /\ files' \in Seq(File) /\ path' \in 0..Len(files')
        /\ Len(files) <= Len(files')
    BY <1>1, <1>4, <2>1, ReplaceFile, AddFile DEF CrashInOpen
  <2>3. TypeOK'
    BY <1>1, <1>4, <2>2 DEF CrashInOpen, IInv, TypeOK, NoWal
  <2> QED BY <1>1, <1>4, <2>3 DEF CrashInOpen, IInv, Threads
<1> QED BY <1>2, <1>3, <1>4
\* A step that replaces the file of the open object, keeps the threads where
\* they are and leaves a handle on the same inode.
LEMMA SameInode ==
    ASSUME IInv, st.open, NEW g \in File, NEW s \in Handle,
           files' = files \/ files' = [files EXCEPT ![st.ino] = g],
           st' = s, s.ino = st.ino, owed' \subseteq Content, lapse' \subseteq Lapses,
           op' = op \/ op' = "idle", UNCHANGED <<path, archives, ver>>
    PROVE  IInv'
<1>1. st.ino \in 1..Len(files) /\ files \in Seq(File)
  BY DEF IInv, TypeOK
<1>2. files' \in Seq(File) /\ Len(files') = Len(files)
  BY <1>1, ReplaceFile
<1>3. s.open
  BY DEF Handle
<1>4. TypeOK'
  BY <1>1, <1>2, <1>3 DEF IInv, TypeOK
<1> QED BY <1>3, <1>4 DEF IInv, Threads

LEMMA LifecyclePreserves ==
    ASSUME IInv, OpenRejected \/ Drop \/ Close \/ Flush
    PROVE  IInv'
<1>1. CASE OpenRejected
  BY <1>1 DEF OpenRejected, vars, IInv, TypeOK, Threads
<1>2. CASE Drop
  BY <1>2 DEF Drop, IInv, TypeOK, Threads, NoWal
<1>3. CASE Close \/ Flush
  <2>1. st.open
    BY <1>3 DEF Close, Flush
  <2>2. st \in Handle /\ files[st.ino] \in File
    BY <2>1, OpenHandle DEF IInv
  <2>3. st' \in Handle /\ st'.ino = st.ino
    <3>1. CASE Close
      BY <2>2, <3>1 DEF Close, Handle
    <3>2. CASE Flush
      BY <2>2, <3>2 DEF Flush, Handle
    <3> QED BY <1>3, <3>1, <3>2
  <2>4. Synced(files[st.ino]) \in File
    BY <2>2, SyncedType
  <2>5. files' = files \/ files' = [files EXCEPT ![st.ino] = Synced(files[st.ino])]
    BY <1>3 DEF Close, Flush, SyncFile
  <2>6. /\ owed' \subseteq Content /\ lapse' \subseteq Lapses
        /\ UNCHANGED <<path, archives, op, ver>>
    BY <1>3 DEF Close, Flush, IInv, TypeOK
  <2> QED BY <2>1, <2>3, <2>4, <2>5, <2>6, SameInode
<1> QED BY <1>1, <1>2, <1>3

LEMMA AppendPreserves ==
    ASSUME IInv, NEW type \in Types, NEW payload \in Payloads, NEW ts \in Times,
           \/ AppendOk(type, payload, ts)
           \/ AppendWriteError(type, payload, ts)
           \/ AppendSyncError(type, payload, ts)
    PROVE  IInv'
<1> DEFINE c == NewContent(type, payload, ts)
<1>1. st.open
  BY DEF AppendOk, AppendWriteError, AppendSyncError, CanAppend
<1>2. st \in Handle /\ files[st.ino] \in File
  BY <1>1, OpenHandle DEF IInv
<1>3. c \in Content
  BY <1>2 DEF NewContent, Content, Handle
<1>4. Append(st.last_hash, c) \in Hash /\ HasherWith(c) \in Seq(Hash)
  BY <1>2, <1>3 DEF HasherWith, Hash, Handle
<1>5. NewEntry(c) \in Frame /\ Torn \in Frame /\ Stub \in Frame
  BY <1>2, <1>3, <1>4 DEF NewEntry, Frame, Entry, Handle
<1>6. st.pos \in Offset /\ EndOfWrite \in Offset
  <2>1. st.pos \in Offset
    BY <1>2 DEF Handle
  <2>2. Before(files[st.ino], st.pos) \in Seq(Frame)
    BY <1>2, <2>1, BeforeType
  <2> QED BY <2>1, <2>2 DEF EndOfWrite, Offset
<1>7. \A fr \in Frame : \A g \in WriteAt(files[st.ino], st.pos, fr) :
        g \in File /\ Synced(g) \in File
  BY <1>2, <1>6, WriteAtType, SyncedType
<1>8. \/ files' = files
      \/ \E g \in File : files' = [files EXCEPT ![st.ino] = g]
  <2>1. CASE AppendOk(type, payload, ts)
    <3>1. PICK g \in WriteAt(files[st.ino], st.pos, NewEntry(c)) :
            files' = [files EXCEPT ![st.ino] = IF MustSync(type) THEN Synced(g) ELSE g]
      BY <2>1 DEF AppendOk
    <3> QED BY <1>5, <1>7, <3>1
  <2>2. CASE AppendWriteError(type, payload, ts)
    BY <1>5, <1>7, <2>2 DEF AppendWriteError
  <2>3. CASE AppendSyncError(type, payload, ts)
    BY <1>5, <1>7, <2>3 DEF AppendSyncError
  <2> QED BY <2>1, <2>2, <2>3
<1>9. st' \in Handle /\ st'.ino = st.ino
  <2>1. CASE AppendOk(type, payload, ts)
    <3>1. /\ st.next_sequence + 1 \in Nat
          /\ st.entry_count + 1 \in Nat
          /\ st.byte_count + 1 \in Nat
          /\ (IF MustSync(type) THEN 0 ELSE st.pending_syncs + 1) \in Nat
      BY <1>2 DEF Handle
    <3>2. st' = [st EXCEPT
                   !.pos = EndOfWrite,
                   !.cumulative = HasherWith(c),
                   !.last_hash = Append(st.last_hash, c),
                   !.next_sequence = st.next_sequence + 1,
                   !.entry_count = st.entry_count + 1,
                   !.byte_count = st.byte_count + 1,
                   !.pending_syncs = IF MustSync(type) THEN 0
                                     ELSE st.pending_syncs + 1]
      BY <2>1 DEF AppendOk
    <3> HIDE DEF c
    <3> QED BY <1>2, <1>4, <1>6, <3>1, <3>2 DEF Handle
  <2>2. CASE AppendWriteError(type, payload, ts)
    BY <1>2, <1>4, <1>6, <2>2 DEF AppendWriteError, Handle
  <2>3. CASE AppendSyncError(type, payload, ts)
    <3>1. st.pending_syncs + 1 \in Nat
      BY <1>2 DEF Handle
    <3>2. st' = [st EXCEPT
                   !.pos = EndOfWrite,
                   !.cumulative = HasherWith(c),
                   !.pending_syncs = st.pending_syncs + 1,
                   !.inconsistent = TRUE]
      BY <2>3 DEF AppendSyncError
    <3> HIDE DEF c
    <3> QED BY <1>2, <1>4, <1>6, <3>1, <3>2 DEF Handle
  <2> QED BY <2>1, <2>2, <2>3
<1>10. /\ owed' \subseteq Content /\ lapse' \subseteq Lapses
       /\ UNCHANGED <<path, archives, op, ver>>
  BY <1>3 DEF AppendOk, AppendWriteError, AppendSyncError, IInv, TypeOK, Lapses,
              Displacement
<1> QED BY <1>1, <1>2, <1>8, <1>9, <1>10, SameInode

LEMMA VerifyPreserves ==
    ASSUME IInv, VerifyStep
    PROVE  IInv'
<1>1. st.open /\ st \in Handle /\ st.ino \in 1..Len(files)
  <2>1. st.open
    BY DEF VerifyStep, VerifyBegin, VerifySeek, VerifyHeader, VerifyRead, IInv, Threads,
           Running
  <2> QED BY <2>1, OpenHandle DEF IInv, TypeOK
<1>2. UNCHANGED <<files, path, archives, op, owed, lapse>>
  BY DEF VerifyStep, VerifyBegin, VerifySeek, VerifyHeader, VerifyRead
<1>3. ASSUME st' \in Handle, st'.ino = st.ino,
             ver' \in Verifier \cup Verdicts,
             ver'.pc \in Running => ver'.ino \in 1..Len(files)
      PROVE  IInv'
  <2>1. st'.open
    BY <1>3 DEF Handle
  <2>2. TypeOK'
    BY <1>1, <1>2, <1>3 DEF IInv, TypeOK
  <2> QED BY <1>2, <2>1, <2>2 DEF IInv, Threads
<1>4. CASE VerifyBegin
  <2>1. <<>> \in Hash /\ <<>> \in Seq(Hash)
    BY DEF Hash
  <2>2. ver' \in Verifier /\ ver'.ino = st.ino
    BY <1>1, <1>4, <2>1 DEF VerifyBegin, Verifier, Handle, Running, Offset
  <2> QED BY <1>1, <1>3, <1>4, <2>2 DEF VerifyBegin
<1>5. ASSUME ver.pc \in Running
      PROVE  ver \in Verifier /\ ver.ino \in 1..Len(files) /\ files[ver.ino] \in File
  <2>1. ver \in Verifier /\ ver.ino \in 1..Len(files)
    BY <1>5 DEF IInv, TypeOK, Verdicts, Running
  <2> QED BY <2>1 DEF IInv, TypeOK
<1>6. ASSUME NEW q \in Offset, NEW v, Advance(q, v),
             v \in Verifier \cup Verdicts,
             v.pc \in Running => v.ino \in 1..Len(files)
      PROVE  IInv'
  <2>1. st' \in Handle /\ st'.ino = st.ino
    BY <1>1, <1>6 DEF Advance, Handle
  <2> QED BY <1>3, <1>6, <2>1 DEF Advance
<1>7. \A x \in {"valid", "invalid"} : [pc |-> x] \in Verdicts /\ [pc |-> x].pc \notin Running
  BY DEF Verdicts, Running
<1>8. CASE VerifySeek
  <2> DEFINE v == [ver EXCEPT !.pc = "header", !.off = AtHeader]
  <2>1. ver \in Verifier /\ ver.ino \in 1..Len(files)
    BY <1>5, <1>8 DEF VerifySeek, Running
  <2>2. v \in Verifier /\ v.ino = ver.ino
    BY <2>1 DEF Verifier, Running, Offset
  <2>3. Advance(AtHeader, v) /\ AtHeader \in Offset
    BY <1>8 DEF VerifySeek, Offset
  <2> HIDE DEF v
  <2> QED BY <1>6, <2>1, <2>2, <2>3
<1>10. CASE VerifyHeader
  <2>1. ver \in Verifier /\ ver.ino \in 1..Len(files) /\ files[ver.ino] \in File
    BY <1>5, <1>10 DEF VerifyHeader, Running
  <2>2. ASSUME NEW seq \in Nat, HeaderRead(seq) PROVE IInv'
    <3> DEFINE v == [ver EXCEPT !.pc = "read", !.off = 0, !.seq = seq]
    <3>1. Advance(0, v) /\ 0 \in Offset
      BY <2>2 DEF HeaderRead, Offset
    <3>2. v \in Verifier /\ v.ino = ver.ino
      BY <2>1 DEF Verifier, Running, Offset
    <3> HIDE DEF v
    <3> QED BY <1>6, <2>1, <3>1, <3>2
  <2>3. /\ files[ver.ino].base \in Nat /\ Len(files[ver.ino].frames) \in Offset
        /\ 0 \in Offset /\ NoSeq \in Nat
    BY <2>1, WalConstants DEF File, Offset, NoSeq
  <2> QED BY <1>6, <1>7, <1>10, <2>2, <2>3 DEF VerifyHeader
<1>9. CASE VerifyRead
  <2> DEFINE f == files[ver.ino]
             p == VerifyPos
             e == f.frames[p + 1]
  <2>1. ver \in Verifier /\ ver.ino \in 1..Len(files) /\ f \in File
    BY <1>5, <1>9 DEF VerifyRead, Running
  <2>2. p \in Offset /\ p \in Int /\ Len(f.frames) \in Nat /\ Nat \subseteq Offset
    <3>1. st.pos \in Offset /\ ver.off \in Offset
      BY <1>1, <2>1 DEF Handle, Verifier
    <3>2. p \in Offset
      BY <3>1 DEF VerifyPos
    <3>3. Len(f.frames) \in Nat
      BY <2>1 DEF File
    <3> QED BY <3>2, <3>3 DEF Offset, AtHeader
  <2>3. CASE Advance(IF p < Len(f.frames) THEN Len(f.frames) ELSE p, [pc |-> "valid"])
    BY <1>6, <1>7, <2>2, <2>3
  <2>4. CASE \E q \in 0..Len(f.frames) : Advance(q, [pc |-> "invalid"])
    BY <1>6, <1>7, <2>2, <2>4
  <2>7. CASE p \in Nat /\ \E q \in p..Len(f.frames) : Advance(q, [pc |-> "invalid"])
    BY <1>6, <1>7, <2>2, <2>7
  <2>5. CASE p \in Nat /\ Advance(p + 1, [pc |-> "invalid"])
    <3>1. p + 1 \in Offset
      BY <2>2, <2>5
    <3> QED BY <1>6, <1>7, <2>5, <3>1
  <2>6. CASE p \in 0..(Whole(f) - 1) /\ Decodes(e) /\ Accepts(e) /\
             Advance(p + 1, [ver EXCEPT !.off = p + 1,
                                        !.prev = ComputeHash(e),
                                        !.cum = Append(ver.cum, ComputeHash(e)),
                                        !.seq = ver.seq + 1,
                                        !.ts = e.c.ts,
                                        !.count = ver.count + 1])
    <3>1. p + 1 \in 1..Len(f.frames)
      BY <2>2, <2>6 DEF Whole
    <3>2. e \in Frame
      BY <2>1, <3>1 DEF File
    <3>3. e \in Entry
      BY <2>6, <3>2, EntryFrame DEF Decodes
    <3>4. ComputeHash(e) \in Hash /\ e.c.ts \in Times
      BY <3>3, HashType DEF Entry, Content
    <3>5. e.c.ts \in Nat
      BY <3>4, WalConstants
    <3> DEFINE v == [ver EXCEPT !.off = p + 1,
                                !.prev = ComputeHash(e),
                                !.cum = Append(ver.cum, ComputeHash(e)),
                                !.seq = ver.seq + 1,
                                !.ts = e.c.ts,
                                !.count = ver.count + 1]
    <3>6. v \in Verifier /\ v.ino = ver.ino
      <4>1. /\ p + 1 \in Offset
            /\ ver.seq + 1 \in Nat
            /\ ver.count + 1 \in Nat
        BY <2>1, <2>2, <3>1 DEF Verifier
      <4>2. Append(ver.cum, ComputeHash(e)) \in Seq(Hash)
        BY <2>1, <3>4 DEF Verifier
      <4> HIDE DEF e, p, f
      <4> QED BY <2>1, <3>4, <3>5, <4>1, <4>2 DEF Verifier
    <3>7. Advance(p + 1, v)
      BY <2>6
    <3> HIDE DEF v, p
    <3>8. p + 1 \in Offset
      BY <2>2, <3>1
    <3> QED BY <1>6, <2>1, <3>6, <3>7, <3>8
  <2> QED BY <1>9, <2>3, <2>4, <2>5, <2>6, <2>7 DEF VerifyRead
<1> QED BY <1>4, <1>8, <1>9, <1>10 DEF VerifyStep
LEMMA RecoverPreserves ==
    ASSUME IInv, RecoverStep
    PROVE  IInv'
<1>1. st.open
  BY DEF RecoverStep, RecoverClean, RecoverRefused, RecoverTruncate,
         RecoverSyncError, TryRecoverOk, TryRecoverFails, CanRecover
<1>2. st \in Handle /\ files[st.ino] \in File
  BY <1>1, OpenHandle DEF IInv
<1> DEFINE f == files[st.ino]
<1>3. Len(f.frames) \in Nat /\ st.ino \in Nat
  BY <1>2 DEF File, Handle
<1>4. UNCHANGED <<path, archives, op, ver, owed>> /\ owed' \subseteq Content
  BY DEF RecoverStep, RecoverClean, RecoverRefused, RecoverTruncate,
         RecoverSyncError, TryRecoverOk, TryRecoverFails, IInv, TypeOK
<1>5. lapse' \subseteq Lapses
  BY DEF RecoverStep, RecoverClean, RecoverRefused, RecoverTruncate, ClockStep,
         RecoverSyncError, TryRecoverOk, TryRecoverFails, IInv, TypeOK, Lapses
<1>6. \A q \in Nat : [st EXCEPT !.pos = q] \in Handle /\ [st EXCEPT !.pos = q].ino = st.ino
  BY <1>2 DEF Handle, Offset
<1>7. ASSUME NEW n \in 0..Len(f.frames), Valid(f, st.key, n), NEW s \in Handle,
             s = Replayed(st, st.ino, f, n)
      PROVE  s.ino = st.ino
  BY <1>2, <1>7 DEF Replayed, Handle
<1>8. CASE RecoverClean \/ RecoverRefused \/ TryRecoverFails
  <2>1. \E q \in Nat : st' = [st EXCEPT !.pos = q]
    BY <1>3, <1>8 DEF RecoverClean, RecoverRefused, TryRecoverFails
  <2>2. files' = files
    BY <1>8 DEF RecoverClean, RecoverRefused, TryRecoverFails
  <2> QED BY <1>1, <1>2, <1>4, <1>5, <1>6, <2>1, <2>2, SameInode
<1>9. CASE RecoverTruncate
  <2>1. PICK n \in 1..(Len(f.frames) - 1) :
          /\ StrictStops(f, st.key, n)
          /\ files' = [files EXCEPT ![st.ino] = Synced(Cut(f, n))]
          /\ st' = [Replayed(st, st.ino, f, n) EXCEPT !.inconsistent = FALSE]
    BY <1>9 DEF RecoverTruncate
  <2>2. n \in 0..Len(f.frames) /\ Valid(f, st.key, n)
    BY <1>3, <2>1 DEF StrictStops
  <2>3. Replayed(st, st.ino, f, n) \in Handle
    BY <1>2, <1>3, <2>2, ReplayedType
  <2>4. st' \in Handle /\ st'.ino = st.ino
    <3>1. Replayed(st, st.ino, f, n).ino = st.ino
      BY <1>7, <2>2, <2>3
    <3> HIDE DEF f
    <3> QED BY <2>1, <2>3, <3>1 DEF Handle
  <2>5. Synced(Cut(f, n)) \in File
    BY <1>2, <2>2, CutType, SyncedType
  <2> QED BY <1>1, <1>4, <1>5, <2>1, <2>4, <2>5, SameInode
<1>10. CASE RecoverSyncError
  <2>1. PICK n \in 1..(Len(f.frames) - 1), q \in 1..Len(f.frames) :
          /\ files' = [files EXCEPT ![st.ino] = Cut(f, n)]
          /\ st' = [st EXCEPT !.pos = q]
    BY <1>10 DEF RecoverSyncError
  <2>2. Cut(f, n) \in File
    BY <1>2, <1>3, CutType
  <2>3. q \in Nat
    BY <1>3
  <2> QED BY <1>1, <1>4, <1>5, <1>6, <2>1, <2>2, <2>3, SameInode
<1>11. CASE TryRecoverOk
  <2>1. /\ StrictStops(f, st.key, Whole(f))
        /\ st' = [Replayed(st, st.ino, f, Whole(f)) EXCEPT
                     !.inconsistent = FALSE, !.pending_syncs = 0]
        /\ files' = files
    BY <1>11 DEF TryRecoverOk
  <2>2. Whole(f) \in 0..Len(f.frames) /\ Valid(f, st.key, Whole(f))
    BY <2>1 DEF StrictStops
  <2>3. Replayed(st, st.ino, f, Whole(f)) \in Handle
    BY <1>2, <1>3, <2>2, ReplayedType
  <2>4. st' \in Handle /\ st'.ino = st.ino
    <3>1. Replayed(st, st.ino, f, Whole(f)).ino = st.ino
      BY <1>7, <2>2, <2>3
    <3> HIDE DEF f
    <3> QED BY <2>1, <2>3, <3>1 DEF Handle
  <2> QED BY <1>1, <1>2, <1>4, <1>5, <2>1, <2>4, SameInode
<1> QED BY <1>8, <1>9, <1>10, <1>11 DEF RecoverStep

\* The verifier keeps its inode when the writer replaces its file.
LEMMA DetachedType ==
    ASSUME IInv, NEW p \in Offset
    PROVE  /\ Detached(p) \in Verifier \cup Verdicts
           /\ Detached(p).pc = ver.pc
           /\ ver.pc \in Running => Detached(p).ino = ver.ino
<1>1. CASE ver.pc \in Running
  <2>1. ver \in Verifier
    BY <1>1 DEF IInv, TypeOK, Verdicts, Running
  <2>2. (IF ver.shared THEN p ELSE ver.off) \in Offset
    BY <2>1 DEF Verifier
  <2> QED BY <1>1, <2>1, <2>2 DEF Detached, Verifier
<1>2. CASE ver.pc \notin Running
  BY <1>2 DEF Detached, IInv, TypeOK
<1> QED BY <1>1, <1>2

\* A step that adds an inode, or none, and leaves a handle on some inode.
LEMMA OtherInode ==
    ASSUME IInv, st.open, files' \in Seq(File), Len(files) <= Len(files'),
           path' \in 0..Len(files'), st' \in Handle, st'.ino \in 1..Len(files'),
           \/ ver' = ver
           \/ \E p \in Offset : ver' = Detached(p),
           archives' \subseteq archives \cup [ts : Times, ino : 1..Len(files')],
           op' \in {"idle", "renamed", "created"}, op' = "created" => path' # 0,
           owed' \subseteq Content, lapse' \subseteq Lapses
    PROVE  IInv'
<1>1. st'.open
  BY DEF Handle
<1>2. files \in Seq(File) /\ Len(files) \in Nat /\ Len(files') \in Nat
  BY DEF IInv, TypeOK
<1>3. /\ ver' \in Verifier \cup Verdicts
      /\ ver'.pc = ver.pc
      /\ ver.pc \in Running => ver'.ino = ver.ino
  BY DetachedType DEF IInv, TypeOK
<1>4. archives' \subseteq [ts : Times, ino : 1..Len(files')]
  BY <1>2 DEF IInv, TypeOK
<1>5. TypeOK'
  BY <1>1, <1>2, <1>3, <1>4 DEF IInv, TypeOK
<1> QED BY <1>1, <1>5 DEF IInv, Threads

\* The contents truncate retains.
LEMMA RetainedType ==
    ASSUME NEW f \in File, ChainOK(f), NEW k \in 1..(Whole(f) + 1)
    PROVE  Retained(f, k) \in Seq(Content)
<1>1. Whole(f) \in Nat /\ Whole(f) <= Len(f.frames)
  BY DEF Whole, File
<1>2. \A i \in 1..Whole(f) : f.frames[i].c \in Content
  <2> TAKE i \in 1..Whole(f)
  <2>1. f.frames[i] \in Frame
    BY <1>1 DEF File
  <2>2. ~f.frames[i].torn
    BY DEF ChainOK, Decodes
  <2> QED BY <2>1, <2>2, EntryFrame DEF Entry
<1>3. \A i \in 1..(Whole(f) - k + 1) : k + i - 1 \in 1..Whole(f)
  BY <1>1
<1>4. Whole(f) - k + 1 \in Nat
  BY <1>1
<1> QED BY <1>2, <1>3, <1>4 DEF Retained

LEMMA TruncatePreserves ==
    ASSUME IInv, st.open, NEW before \in Nat, NEW f \in File, NEW pos \in Offset,
           TruncateRead(f, pos, before) \/ TruncateReadNotReopened(f, pos, before)
    PROVE  IInv'
<1> DEFINE n == Len(files) + 1
<1>1. st.open /\ ChainOK(f)
  BY DEF TruncateRead, TruncateReadNotReopened
<1>2. st \in Handle /\ files \in Seq(File) /\ st.ino \in 1..Len(files)
  BY <1>1, OpenHandle DEF IInv, TypeOK
<1>3. n \in Nat /\ Len(files) \in Nat
  BY <1>2
<1>4. ASSUME NEW cs \in Seq(Content)
      PROVE  AfterTruncate(before, cs) \in Handle /\ AfterTruncate(before, cs).ino = st.ino
  <2>1. cs \in Hash /\ Len(cs) \in Nat
    BY DEF Hash
  <2>2. [j \in 1..Len(cs) |-> SubSeq(cs, 1, j)] \in Seq(Hash)
    <3>1. \A j \in 1..Len(cs) : SubSeq(cs, 1, j) \in Hash
      BY DEF Hash
    <3> QED BY <2>1, <3>1
  <2>3. (IF cs = <<>> THEN before ELSE cs[Len(cs)].seq + 1) \in Nat
    <3>1. ASSUME cs # <<>> PROVE cs[Len(cs)] \in Content
      BY <3>1
    <3> QED BY <3>1 DEF Content
  <2> QED BY <1>2, <2>1, <2>2, <2>3 DEF AfterTruncate, Handle
<1>5. ASSUME NEW cs \in Seq(Content), NEW s \in Handle, s.ino \in {st.ino, n},
             NEW v, v = ver \/ v = Detached(pos),
             TruncateDone(before, s, v, cs)
      PROVE  IInv'
  <2>1. Compacted(before, cs) \in File
    BY <1>1, CompactedType DEF IInv
  <2>2. files' \in Seq(File) /\ Len(files') = n
    BY <1>2, <1>5, <2>1, AddFile DEF TruncateDone
  <2>3. path' \in 0..Len(files') /\ path' # 0 /\ st'.ino \in 1..Len(files')
    BY <1>2, <1>3, <1>5, <2>2 DEF TruncateDone
  <2>4. /\ st' \in Handle /\ archives' = archives /\ op' = "idle"
        /\ owed' \subseteq Content /\ lapse' \subseteq Lapses
    BY <1>5 DEF TruncateDone, IInv, TypeOK, Lapses
  <2>5. ver' = ver \/ \E p \in Offset : ver' = Detached(p)
    BY <1>3, <1>5 DEF TruncateDone
  <2>6. Len(files) <= Len(files')
    BY <1>3, <2>2
  <2> HIDE DEF n
  <2> QED BY <1>1, <2>2, <2>3, <2>4, <2>5, <2>6, OtherInode
<1>6. CASE TruncateRead(f, pos, before)
  <2>1. PICK k \in 1..(Whole(f) + 1) :
          TruncateDone(before,
             [AfterTruncate(before, Retained(f, k)) EXCEPT
                !.ino = n, !.pos = Len(Retained(f, k)), !.byte_count = Len(Retained(f, k))],
             Detached(pos), Retained(f, k))
    BY <1>6 DEF TruncateRead
  <2> DEFINE cs == Retained(f, k)
             s == [AfterTruncate(before, cs) EXCEPT
                     !.ino = n, !.pos = Len(cs), !.byte_count = Len(cs)]
  <2>2. cs \in Seq(Content)
    BY <1>1, <1>2, RetainedType
  <2> HIDE DEF cs
  <2>3. s \in Handle /\ s.ino = n
    <3>1. AfterTruncate(before, cs) \in Handle /\ Len(cs) \in Nat
      BY <1>4, <2>2
    <3> HIDE DEF n
    <3> QED BY <1>3, <3>1 DEF Handle, Offset
  <2>4. TruncateDone(before, s, Detached(pos), cs)
    BY <2>1 DEF cs
  <2> HIDE DEF s, n
  <2> QED BY <1>5, <2>2, <2>3, <2>4
<1>7. CASE TruncateReadNotReopened(f, pos, before)
  <2>1. PICK k \in 1..(Whole(f) + 1) :
          LET cs == Retained(f, k)
              s == [AfterTruncate(before, cs) EXCEPT !.inconsistent = TRUE] IN
          \/ TruncateDone(before, [s EXCEPT !.pos = pos], ver, cs)
          \/ \E q \in {0, Len(cs)} :
                TruncateDone(before, [s EXCEPT !.ino = n, !.pos = q],
                             Detached(pos), cs)
    BY <1>7 DEF TruncateReadNotReopened
  <2> DEFINE cs == Retained(f, k)
             s == [AfterTruncate(before, cs) EXCEPT !.inconsistent = TRUE]
  <2>2. cs \in Seq(Content)
    BY <1>1, <1>2, RetainedType
  <2>3. s \in Handle /\ s.ino = st.ino
    <3> HIDE DEF cs
    <3>1. AfterTruncate(before, cs) \in Handle /\ AfterTruncate(before, cs).ino = st.ino
      BY <1>4, <2>2
    <3> QED BY <3>1 DEF Handle
  <2>4. \/ TruncateDone(before, [s EXCEPT !.pos = pos], ver, cs)
        \/ \E q \in {0, Len(cs)} :
              TruncateDone(before, [s EXCEPT !.ino = n, !.pos = q],
                           Detached(pos), cs)
    BY <2>1
  <2> HIDE DEF cs, s, n
  <2>5. [s EXCEPT !.pos = pos] \in Handle /\ [s EXCEPT !.pos = pos].ino = st.ino
    BY <1>3, <2>3 DEF Handle
  <2>6. \A q \in {0, Len(cs)} : /\ [s EXCEPT !.ino = n, !.pos = q] \in Handle
                               /\ [s EXCEPT !.ino = n, !.pos = q].ino = n
    <3>1. Len(cs) \in Nat
      BY <2>2
    <3>2. \A q \in Nat : /\ [s EXCEPT !.ino = n, !.pos = q] \in Handle
                         /\ [s EXCEPT !.ino = n, !.pos = q].ino = n
      BY <1>3, <2>3 DEF Handle, Offset
    <3> QED BY <3>1, <3>2
  <2> QED BY <1>5, <2>2, <2>4, <2>5, <2>6
<1> QED BY <1>6, <1>7
LEMMA TruncateFailsPreserves ==
    ASSUME IInv, TruncateFails
    PROVE  IInv'
<1>1. st.open
  BY DEF TruncateFails
<1>2. st \in Handle /\ files[st.ino] \in File
  BY <1>1, OpenHandle DEF IInv
<1>3. Len(files[st.ino].frames) \in Nat
  BY <1>2 DEF File
<1>4. \A q \in Nat : [st EXCEPT !.pos = q] \in Handle /\ [st EXCEPT !.pos = q].ino = st.ino
  BY <1>2 DEF Handle, Offset
<1>5. st' \in Handle /\ st'.ino = st.ino
  BY <1>3, <1>4 DEF TruncateFails
<1>6. lapse' \subseteq Lapses /\ owed' \subseteq Content
  BY DEF TruncateFails, IInv, TypeOK, Lapses
<1> QED BY <1>1, <1>2, <1>5, <1>6, SameInode DEF TruncateFails

\* What a scan reads of a file is a file of decodable and other frames.
LEMMA GlimpseType ==
    ASSUME NEW f \in File, NEW g \in Glimpses(f)
    PROVE  g \in File
<1>1. PICK n \in 0..Len(f.frames) : \E idx \in [1..n -> DOMAIN f.frames] :
        g = [f EXCEPT !.frames = [i \in DOMAIN idx |-> f.frames[idx[i]]]]
  BY DEF Glimpses
<1> PICK idx \in [1..n -> DOMAIN f.frames] :
      g = [f EXCEPT !.frames = [i \in DOMAIN idx |-> f.frames[idx[i]]]]
  BY <1>1
<1>2. n \in Nat /\ \A i \in 1..n : f.frames[idx[i]] \in Frame
  BY <1>1 DEF File
<1>3. [i \in DOMAIN idx |-> f.frames[idx[i]]] \in Seq(Frame)
  BY <1>1, <1>2
<1> QED BY <1>1, <1>3 DEF File

\* What a scan accepts is a valid file.
LEMMA AcceptedType ==
    ASSUME NEW f \in File, NEW g \in Accepted(f)
    PROVE  g \in File /\ Valid(g, st.key, Len(g.frames))
<1>1. PICK h \in Glimpses(f), b \in Bases(f) : g = [h EXCEPT !.base = b]
  BY DEF Accepted
<1>2. h \in File
  BY GlimpseType
<1>3. b \in Nat
  BY WalConstants DEF Bases, NoSeq, File
<1> QED BY <1>1, <1>2, <1>3 DEF Accepted, File

LEMMA BesidePreserves ==
    ASSUME IInv,
           \/ \E call \in Scans : ScanBegin(call)
           \/ OffsetMoves \/ ScanChangesNothing \/ RecoverBeside \/ TryRecoverBeside
    PROVE  IInv'
<1>1. st.open
  BY DEF ScanBegin, OffsetMoves, ScanChangesNothing, RecoverBeside, TryRecoverBeside,
         Scans, IInv, Threads
<1>2. st \in Handle /\ files[st.ino] \in File
  BY <1>1, OpenHandle DEF IInv
<1> DEFINE f == files[st.ino]
<1>3. Len(f.frames) \in Nat /\ st.ino \in Nat
  BY <1>2 DEF File, Handle
<1>4. ASSUME NEW call \in Scans, ScanBegin(call) PROVE IInv'
  BY <1>1, <1>4 DEF ScanBegin, IInv, TypeOK, Threads, Lapses, Scans
<1>5. CASE OffsetMoves
  <2>1. PICK q \in AtHeader..Len(f.frames) : st' = [st EXCEPT !.pos = q]
    BY <1>5 DEF OffsetMoves
  <2>2. q \in Offset
    BY <1>3 DEF Offset, AtHeader
  <2>3. st' \in Handle /\ st'.ino = st.ino /\ st'.open
    <3> HIDE DEF f
    <3> QED BY <1>2, <2>1, <2>2 DEF Handle
  <2>4. /\ ver' \in Verifier \cup Verdicts
        /\ ver'.pc \in Running => ver' = ver
    BY <1>5 DEF OffsetMoves, IInv, TypeOK, Verdicts, Running
  <2>5. lapse' \subseteq Lapses
    BY <1>5 DEF OffsetMoves, IInv, TypeOK, Lapses
  <2> QED BY <1>1, <1>5, <2>3, <2>4, <2>5 DEF OffsetMoves, IInv, TypeOK, Threads
<1>6. CASE ScanChangesNothing
  BY <1>1, <1>2, <1>6, SameInode DEF ScanChangesNothing, IInv, TypeOK
<1>7. ASSUME NEW g \in Accepted(f), NEW n \in 0..Len(g.frames)
      PROVE  Replayed(st, st.ino, g, n) \in Handle /\ Replayed(st, st.ino, g, n).ino = st.ino
  <2>1. g \in File /\ Valid(g, st.key, Len(g.frames)) /\ Len(g.frames) \in Nat
    BY <1>2, AcceptedType DEF File
  <2>2. Valid(g, st.key, n)
    BY <2>1 DEF Valid
  <2>3. Replayed(st, st.ino, g, n) \in Handle
    BY <1>2, <1>3, <2>1, <2>2, ReplayedType
  <2> QED BY <1>2, <2>3 DEF Replayed, Handle
<1>8. CASE RecoverBeside
  <2>1. PICK g \in Accepted(f) :
          /\ Len(g.frames) \in 1..(Len(f.frames) - 1)
          /\ \/ /\ files' = [files EXCEPT ![st.ino] = Synced(Cut(f, Len(g.frames)))]
                /\ st' = [Replayed(st, st.ino, g, Len(g.frames)) EXCEPT
                             !.inconsistent = FALSE]
             \/ /\ files' = [files EXCEPT ![st.ino] = Cut(f, Len(g.frames))]
                /\ UNCHANGED st
    BY <1>8 DEF RecoverBeside
  <2> DEFINE s == Replayed(st, st.ino, g, Len(g.frames))
             c == Cut(f, Len(g.frames))
  <2>2. s \in Handle /\ s.ino = st.ino
    BY <1>3, <1>7, <2>1
  <2>3. c \in File /\ Synced(c) \in File
    BY <1>2, <1>3, <2>1, CutType, SyncedType
  <2>4. \/ files' = [files EXCEPT ![st.ino] = Synced(c)] /\ st' = [s EXCEPT !.inconsistent = FALSE]
        \/ files' = [files EXCEPT ![st.ino] = c] /\ st' = st
    BY <2>1
  <2> HIDE DEF s, c, f
  <2>5. st' \in Handle /\ st'.ino = st.ino
    BY <1>2, <2>2, <2>4 DEF Handle
  <2>6. /\ owed' \subseteq Content /\ lapse' \subseteq Lapses
        /\ op' = "idle" /\ UNCHANGED <<path, archives, ver>>
    BY <1>8 DEF RecoverBeside, IInv, TypeOK
  <2> QED BY <1>1, <2>3, <2>4, <2>5, <2>6, SameInode
<1>9. CASE TryRecoverBeside
  <2>1. PICK g \in Accepted(f) :
          st' = [Replayed(st, st.ino, g, Len(g.frames)) EXCEPT
                   !.inconsistent = FALSE, !.pending_syncs = 0]
    BY <1>9 DEF TryRecoverBeside
  <2> DEFINE s == Replayed(st, st.ino, g, Len(g.frames))
  <2>2. Len(g.frames) \in Nat
    BY <1>2, AcceptedType DEF File
  <2>3. s \in Handle /\ s.ino = st.ino
    BY <1>7, <2>2
  <2>4. st' = [s EXCEPT !.inconsistent = FALSE, !.pending_syncs = 0]
    BY <2>1
  <2> HIDE DEF s
  <2>5. st' \in Handle /\ st'.ino = st.ino
    BY <2>3, <2>4 DEF Handle
  <2>6. /\ owed' \subseteq Content /\ lapse' \subseteq Lapses /\ files' = files
        /\ op' = "idle" /\ UNCHANGED <<path, archives, ver>>
    BY <1>9 DEF TryRecoverBeside, IInv, TypeOK
  <2> QED BY <1>1, <1>2, <2>5, <2>6, SameInode
<1> QED BY <1>4, <1>5, <1>6, <1>8, <1>9

LEMMA TruncateBesidePreserves ==
    ASSUME IInv, NEW before \in Nat, TruncateBeside(before)
    PROVE  IInv'
<1>1. st.open
  BY DEF TruncateBeside, IInv, Threads
<1>2. st.pos \in Offset /\ files[st.ino] \in File
  BY <1>1, OpenHandle DEF IInv, Handle
<1>3. PICK g \in Glimpses(files[st.ino]) :
        TruncateRead(g, st.pos, before) \/ TruncateReadNotReopened(g, st.pos, before)
  BY DEF TruncateBeside
<1>4. g \in File
  BY <1>2, GlimpseType
<1> QED BY <1>1, <1>2, <1>3, <1>4, TruncatePreserves

LEMMA RotatePreserves ==
    ASSUME IInv,
           \/ \E ts \in Times : RotateRename(ts)
           \/ RotateRenameError \/ RotateCreate \/ RotateCreateError
           \/ RotateHeader \/ RotateHeaderError
    PROVE  IInv'
<1>1. st.open
  BY DEF RotateRename, RotateRenameError, RotateCreate, RotateCreateError,
         RotateHeader, RotateHeaderError, IInv, Threads
<1>2. /\ st \in Handle /\ files[st.ino] \in File /\ files \in Seq(File)
      /\ st.ino \in 1..Len(files) /\ Len(files) \in Nat /\ path \in 0..Len(files)
      /\ owed \subseteq Content /\ lapse \subseteq Lapses
      /\ op \in {"idle", "renamed", "created"} \cup Scans
  BY <1>1, OpenHandle DEF IInv, TypeOK
<1>3. SyncFile(st.ino) \in Seq(File) /\ Len(SyncFile(st.ino)) = Len(files)
  BY <1>2, SyncedType, ReplaceFile DEF SyncFile
<1>4. /\ Append(files, EmptyFile) \in Seq(File)
      /\ Len(Append(files, EmptyFile)) = Len(files) + 1
  BY <1>2, EmptyFileType, AddFile
<1>5. st.pos \in Offset /\ st.next_sequence \in Nat
  BY <1>2 DEF Handle
<1>6. ASSUME path # 0
      PROVE  Rotated \in Handle /\ Rotated.ino \in 1..Len(files)
  <2>1. <<>> \in Hash /\ <<>> \in Seq(Hash)
    BY DEF Hash
  <2>2. path \in Nat
    BY <1>2
  <2>3. Rotated \in Handle /\ Rotated.ino = path
    BY <1>2, <2>1, <2>2 DEF Rotated, Handle, Offset
  <2> QED BY <1>2, <1>6, <2>3
<1>7. ASSUME NEW ts \in Times, RotateRename(ts) PROVE IInv'
  <2>1. path \in 1..Len(files)
    BY <1>2, <1>7 DEF RotateRename
  <2>2. archives' \subseteq archives \cup [ts : Times, ino : 1..Len(files')]
    BY <1>3, <1>7, <2>1 DEF RotateRename
  <2>3. lapse' \subseteq Lapses
    BY <1>2, <1>7 DEF RotateRename, Lapses
  <2>4. /\ files' = SyncFile(st.ino) /\ path' = 0 /\ op' = "renamed"
        /\ st' = st /\ ver' = ver /\ owed' = owed
    BY <1>7 DEF RotateRename
  <2>5. files' \in Seq(File) /\ Len(files) <= Len(files') /\ path' \in 0..Len(files')
        /\ st'.ino \in 1..Len(files')
    BY <1>2, <1>3, <2>4
  <2> QED BY <1>1, <1>2, <2>2, <2>3, <2>4, <2>5, OtherInode
<1>8. CASE RotateRenameError
  <2>1. Synced(files[st.ino]) \in File
    BY <1>2, SyncedType
  <2>2. files' = [files EXCEPT ![st.ino] = Synced(files[st.ino])]
    BY <1>8 DEF RotateRenameError, SyncFile
  <2> QED BY <1>1, <1>2, <1>8, <2>1, <2>2, SameInode DEF RotateRenameError
<1>9. CASE RotateCreate
  <2>1. /\ files' = Append(files, EmptyFile) /\ path' = Len(files) + 1 /\ op' = "created"
        /\ UNCHANGED <<archives, st, ver, owed, lapse>>
    BY <1>9 DEF RotateCreate
  <2>2. files' \in Seq(File) /\ Len(files) <= Len(files') /\ path' \in 0..Len(files')
        /\ st'.ino \in 1..Len(files') /\ path' # 0
    BY <1>2, <1>4, <2>1
  <2> QED BY <1>1, <1>2, <2>1, <2>2, OtherInode
<1>10. CASE RotateCreateError
  <2>1. st' \in Handle /\ st'.ino = st.ino
    BY <1>2, <1>10 DEF RotateCreateError, Handle
  <2>2. op' = "idle" /\ UNCHANGED <<archives, ver, owed, lapse>>
    BY <1>10 DEF RotateCreateError
  <2>3. files' \in Seq(File) /\ Len(files) <= Len(files') /\ path' \in 0..Len(files')
        /\ st'.ino \in 1..Len(files')
    <3>1. CASE UNCHANGED <<files, path>>
      BY <1>2, <2>1, <3>1
    <3>2. CASE files' = Append(files, EmptyFile) /\ path' = Len(files) + 1
      BY <1>2, <1>4, <2>1, <3>2
    <3> QED BY <1>10, <3>1, <3>2 DEF RotateCreateError
  <2> QED BY <1>1, <1>2, <2>1, <2>2, <2>3, OtherInode
<1>11. CASE RotateHeader \/ RotateHeaderError
  <2>1. path \in 1..Len(files) /\ path # 0
    BY <1>2, <1>11 DEF RotateHeader, RotateHeaderError, IInv, Threads
  <2>2. Rotated \in Handle /\ Rotated.ino \in 1..Len(files)
    BY <1>6, <2>1
  <2>3. st' \in Handle /\ st'.ino \in 1..Len(files)
    <3>1. CASE RotateHeader
      BY <2>2, <3>1 DEF RotateHeader
    <3>2. CASE RotateHeaderError
      BY <2>2, <3>2 DEF RotateHeaderError, Handle
    <3> QED BY <1>11, <3>1, <3>2
  <2>4. PICK g \in File : files' = [files EXCEPT ![path] = g]
    <3>1. NewFile(st.next_sequence) \in File
      BY <1>5, NewFileType
    <3>2. \A h \in {"none", "partial", "cached"} :
             [NewFile(st.next_sequence) EXCEPT !.hdr = h] \in File
      BY <3>1 DEF File
    <3> QED BY <1>11, <3>1, <3>2 DEF RotateHeader, RotateHeaderError
  <2>5. files' \in Seq(File) /\ Len(files') = Len(files)
    BY <1>2, <2>1, <2>4, ReplaceFile
  <2>6. op' = "idle" /\ ver' = Detached(st.pos) /\ UNCHANGED <<path, archives, owed, lapse>>
    BY <1>11 DEF RotateHeader, RotateHeaderError
  <2> QED BY <1>1, <1>2, <1>5, <2>3, <2>5, <2>6, OtherInode
<1> QED BY <1>7, <1>8, <1>9, <1>10, <1>11

LEMMA PrunePreserves ==
    ASSUME IInv, NEW max, PruneArchives(max)
    PROVE  IInv'
  BY DEF PruneArchives, IInv, TypeOK, Threads

LEMMA CrashPreserves ==
    ASSUME IInv, Crash
    PROVE  IInv'
<1>1. files \in Seq(File) /\ Len(files) \in Nat
  BY DEF IInv, TypeOK
<1>2. ASSUME NEW i \in 1..Len(files) PROVE OnDisk(i) \in File
  <2>1. files[i] \in File
    BY <1>1
  <2>2. ASSUME op = "created"
        PROVE  [NewFile(st.next_sequence) EXCEPT !.hdr = "cached"] \in File
    <3>1. st.next_sequence \in Nat
      BY <2>2, OpenHandle DEF IInv, Threads, Handle
    <3> QED BY <3>1, NewFileType DEF File
  <2> QED BY <2>1, <2>2 DEF OnDisk
<1>3. \A i \in 1..Len(files) : \A g \in CrashImages(OnDisk(i)) : g \in File
  BY <1>2, CrashImageType
<1>4. /\ DOMAIN files' = 1..Len(files)
      /\ \A i \in 1..Len(files) : files'[i] \in File
      /\ files' = [i \in 1..Len(files) |-> files'[i]]
  BY <1>3 DEF Crash
<1>5. files' \in Seq(File) /\ Len(files') = Len(files)
  BY <1>1, <1>4
<1>6. TypeOK'
  BY <1>5 DEF Crash, IInv, TypeOK, NoWal, Idle, Verdicts, Running
<1> QED BY <1>6 DEF Crash, IInv, Threads, NoWal, Idle, Running

----------------------------------------------------------------------------
\* Every step of the log preserves the inductive invariant.
LEMMA NextIInv == IInv /\ [Next]_vars => IInv'
<1> SUFFICES ASSUME IInv, [Next]_vars PROVE IInv'
  OBVIOUS
<1>1. CASE UNCHANGED vars
  BY <1>1 DEF vars, IInv, TypeOK, Threads
<1>2. CASE Lifecycle \/ CrashInOpen
  <2>1. Keys # {}
    BY WalConstants
  <2> QED BY <1>2, <2>1, OpenPreserves, LifecyclePreserves DEF Lifecycle
<1>3. CASE AppendStep
  BY <1>3, AppendPreserves DEF AppendStep
<1>4. CASE VerifyStep
  BY <1>4, VerifyPreserves
<1>5. CASE RecoverStep
  BY <1>5, RecoverPreserves
<1>6. CASE TruncateStep
  <2>1. 0..(MaxSeq + 1) \subseteq Nat
    BY WalConstants
  <2>2. ASSUME st.open
        PROVE  files[st.ino] \in File /\ Len(files[st.ino].frames) \in Offset
    BY <2>2, OpenHandle DEF IInv, File, Offset
  <2> QED BY <1>6, <2>1, <2>2, TruncatePreserves
          DEF TruncateStep, Truncate, TruncateReopenError
<1>7. CASE TruncateFails
  BY <1>7, TruncateFailsPreserves
<1>8. CASE RotateStep
  BY <1>8, RotatePreserves, PrunePreserves DEF RotateStep
<1>9. CASE Crash
  BY <1>9, CrashPreserves
<1>10. CASE BesideStep
  <2>1. 0..(MaxSeq + 1) \subseteq Nat
    BY WalConstants
  <2> QED BY <1>10, <2>1, BesidePreserves, TruncateBesidePreserves DEF BesideStep
<1> QED BY <1>1, <1>2, <1>3, <1>4, <1>5, <1>6, <1>7, <1>8, <1>9, <1>10 DEF Next

\* The state of the log, its files and its threads keeps the types the code
\* gives it, for every choice of keys, payloads, clock readings and bounds.
THEOREM TypeCorrect == Spec => []TypeOK
<1>1. Init => IInv
  BY InitIInv
<1>2. IInv /\ [Next]_vars => IInv'
  BY NextIInv
<1>3. IInv => TypeOK
  BY DEF IInv
<1> QED BY <1>1, <1>2, <1>3, PTL DEF Spec
----------------------------------------------------------------------------
(***************************************************************************)
(* Recovery restores the writer.                                           *)
(***************************************************************************)
\* A scan of two files with the same base and the same first n frames yields
\* the same.
LEMMA SamePrefix ==
    ASSUME NEW f \in File, NEW g \in File, NEW key, NEW n \in Nat,
           f.base = g.base, \A j \in 1..n : g.frames[j] = f.frames[j],
           Valid(f, key, n)
    PROVE  /\ Valid(g, key, n)
           /\ LastHash(g, n) = LastHash(f, n)
           /\ Hashes(g, n) = Hashes(f, n)
<1>1. \A i \in 0..n : LastHash(g, i) = LastHash(f, i) /\ Hashes(g, i) = Hashes(f, i)
  <2> TAKE i \in 0..n
  <2>1. i # 0 => i \in 1..n
    OBVIOUS
  <2>2. \A j \in 1..i : g.frames[j] = f.frames[j]
    OBVIOUS
  <2> QED BY <2>1, <2>2 DEF LastHash, Hashes
<1>2. ASSUME NEW i \in 1..n PROVE FrameOK(g, key, i)
  <2>1. FrameOK(f, key, i)
    BY DEF Valid
  <2>2. i \in 0..n /\ i - 1 \in 0..n
    OBVIOUS
  <2>3. \A j \in 1..i : g.frames[j] = f.frames[j]
    OBVIOUS
  <2> QED BY <1>1, <2>1, <2>2, <2>3 DEF FrameOK
<1>3. n \in 0..n
  OBVIOUS
<1> QED BY <1>1, <1>2, <1>3 DEF Valid

\* Cutting a file after n accepted frames leaves exactly those.
LEMMA CutReplay ==
    ASSUME NEW f \in File, NEW key, NEW n \in 0..Len(f.frames), Valid(f, key, n),
           NEW g \in {Cut(f, n), Synced(Cut(f, n))}
    PROVE  /\ Whole(g) = n
           /\ Valid(g, key, n)
           /\ \A s, ino : Replayed(s, ino, g, n) = Replayed(s, ino, f, n)
<1>1. f.frames \in Seq(Frame) /\ n \in Nat /\ n <= Len(f.frames)
  BY DEF File
<1>2. Cut(f, n) \in File /\ g \in File
  BY CutType, SyncedType
<1>3. g.base = f.base /\ g.frames = SubSeq(f.frames, 1, n)
  <2>1. Cut(f, n).base = f.base /\ Cut(f, n).frames = SubSeq(f.frames, 1, n)
    BY DEF Cut, File
  <2>2. Synced(Cut(f, n)).base = Cut(f, n).base
        /\ Synced(Cut(f, n)).frames = Cut(f, n).frames
    BY <1>2 DEF Synced, File
  <2> QED BY <2>1, <2>2
<1>4. Len(g.frames) = n /\ \A j \in 1..n : g.frames[j] = f.frames[j]
  BY <1>1, <1>3
<1>5. /\ Valid(g, key, n)
      /\ LastHash(g, n) = LastHash(f, n)
      /\ Hashes(g, n) = Hashes(f, n)
  BY <1>1, <1>2, <1>3, <1>4, SamePrefix
<1>6. Whole(g) = n
  <2>1. ASSUME n > 0 PROVE g.frames[n] # Stub
    <3>1. ~g.frames[n].torn
      BY <1>1, <1>5, <2>1, ValidDecodes
    <3> QED BY <3>1 DEF Stub
  <2> QED BY <1>1, <1>4, <2>1 DEF Whole
<1>7. \A s, ino : Replayed(s, ino, g, n) = Replayed(s, ino, f, n)
  BY <1>3, <1>5 DEF Replayed
<1> QED BY <1>5, <1>6, <1>7
\* Every operation but open, recover and try_recover keeps an inconsistent
\* object inconsistent, and opens none.
LEMMA OnlyRecoveryRestores ==
    ASSUME IInv, Restored, [Next]_vars
    PROVE  \/ \E key \in Keys : OpenCreate(key) \/ OpenExisting(key)
           \/ RecoverTruncate \/ TryRecoverOk
<1>1. ASSUME st.open => st'.inconsistent = st.inconsistent, st' = NoWal \/ st.open
      PROVE  FALSE
  BY <1>1 DEF Restored, NoWal
<1>2. st.open => st \in Handle
  BY OpenHandle DEF IInv
<1>3. CASE UNCHANGED vars
  <2>1. st' = st
    BY <1>3 DEF vars
  <2> QED BY <1>1, <2>1 DEF IInv, TypeOK, Restored
<1>4. CASE OpenRejected \/ Drop \/ Close \/ Flush \/ CrashInOpen \/ Crash
  <2>1. CASE OpenRejected \/ CrashInOpen \/ Drop \/ Crash
    <3>1. st' = NoWal
      BY <2>1 DEF OpenRejected, CrashInOpen, Drop, Crash, vars
    <3> QED BY <3>1 DEF Restored, NoWal
  <2>2. CASE Close
    BY <1>1, <1>2, <2>2 DEF Close, Handle
  <2>3. CASE Flush
    BY <1>1, <1>2, <2>3 DEF Flush, Handle
  <2> QED BY <1>4, <2>1, <2>2, <2>3
<1>5. CASE AppendStep
  <2>1. PICK type \in Types, payload \in Payloads, ts \in Times :
           \/ AppendOk(type, payload, ts)
           \/ AppendWriteError(type, payload, ts)
           \/ AppendSyncError(type, payload, ts)
    BY <1>5 DEF AppendStep
  <2>2. st.open /\ ~st.inconsistent
    BY <2>1 DEF AppendOk, AppendWriteError, AppendSyncError, CanAppend
  <2> QED BY <2>2 DEF Restored
<1>6. CASE VerifyStep
  <2>1. st.open
    BY <1>6 DEF VerifyStep, VerifyBegin, VerifySeek, VerifyHeader, HeaderRead, VerifyRead,
                IInv, Threads, Running
  <2>2. st' = st \/ \E p : st' = [st EXCEPT !.pos = p]
    BY <1>6 DEF VerifyStep, VerifyBegin, VerifySeek, VerifyHeader, HeaderRead, VerifyRead, Advance
  <2>3. st'.inconsistent = st.inconsistent
    BY <1>2, <2>1, <2>2 DEF Handle
  <2> QED BY <1>1, <2>1, <2>3
<1>7. CASE RecoverClean \/ RecoverRefused \/ RecoverSyncError \/ TryRecoverFails \/ TruncateFails
  <2>1. st.open
    BY <1>7 DEF RecoverClean, RecoverRefused, RecoverSyncError, TryRecoverFails,
                TruncateFails, CanRecover
  <2>2. \E p : st' = [st EXCEPT !.pos = p]
    BY <1>7 DEF RecoverClean, RecoverRefused, RecoverSyncError, TryRecoverFails,
                TruncateFails
  <2>3. st'.inconsistent = st.inconsistent
    BY <1>2, <2>1, <2>2 DEF Handle
  <2> QED BY <1>1, <2>1, <2>3
<1>8. CASE TruncateStep
  <2>1. PICK before \in 0..(MaxSeq + 1) : Truncate(before) \/ TruncateReopenError(before)
    BY <1>8 DEF TruncateStep
  <2>2. st.open
    BY <2>1 DEF Truncate, TruncateReopenError, TruncateRead,
        TruncateReadNotReopened
  <2>3. \A cs : /\ AfterTruncate(before, cs).inconsistent = st.inconsistent
               /\ DOMAIN AfterTruncate(before, cs) = DOMAIN st
    BY <1>2, <2>2 DEF AfterTruncate, Handle
  <2>4. "inconsistent" \in DOMAIN st
    BY <1>2, <2>2 DEF Handle
  <2>5. CASE Truncate(before)
    <3>1. PICK cs : st' = [AfterTruncate(before, cs) EXCEPT
                             !.ino = Len(files) + 1, !.pos = Len(cs), !.byte_count = Len(cs)]
      BY <2>5 DEF Truncate, TruncateRead, TruncateDone
    <3>2. st'.inconsistent = st.inconsistent
      BY <2>3, <2>4, <3>1
    <3> QED BY <1>1, <2>2, <3>2
  <2>6. CASE TruncateReopenError(before)
    <3>1. PICK cs :
            LET s == [AfterTruncate(before, cs) EXCEPT !.inconsistent = TRUE] IN
            \/ st' = [s EXCEPT !.pos = Len(files[st.ino].frames)]
            \/ \E q \in {0, Len(cs)} : st' = [s EXCEPT !.ino = Len(files) + 1, !.pos = q]
      BY <2>6 DEF TruncateReopenError, TruncateReadNotReopened, TruncateDone
    <3>2. st'.inconsistent
      BY <2>3, <2>4, <3>1
    <3> QED BY <3>2 DEF Restored
  <2> QED BY <2>1, <2>5, <2>6
<1>9. CASE RotateStep
  <2>1. st.open \/ st' = st
    BY <1>9 DEF RotateStep, RotateRename, RotateRenameError, RotateCreate,
                RotateCreateError, RotateHeader, RotateHeaderError, PruneArchives,
                IInv, Threads
  <2>2. \/ st' = st \/ st' = Rotated \/ st' = [Rotated EXCEPT !.inconsistent = TRUE]
        \/ st' = [st EXCEPT !.inconsistent = TRUE]
    BY <1>9 DEF RotateStep, RotateRename, RotateRenameError, RotateCreate,
                RotateCreateError, RotateHeader, RotateHeaderError, PruneArchives
  <2>3. CASE st' = st
    BY <1>1, <2>3 DEF IInv, TypeOK, Restored
  <2>4. CASE st' # st
    <3>1. st \in Handle
      BY <1>2, <2>1, <2>4
    <3>2. Rotated.inconsistent = st.inconsistent /\ DOMAIN Rotated = DOMAIN st
      BY <3>1 DEF Rotated, Handle
    <3>3. "inconsistent" \in DOMAIN st
      BY <3>1 DEF Handle
    <3>4. st'.inconsistent = st.inconsistent \/ st'.inconsistent
      BY <2>2, <2>4, <3>2, <3>3
    <3> QED BY <1>1, <2>1, <2>4, <3>4 DEF Restored
  <2> QED BY <2>3, <2>4
<1>10. CASE BesideStep
  <2>1. op = "idle"
    BY DEF Restored
  <2>2. (\E call \in Scans : ScanBegin(call)) \/ OffsetMoves
    BY <1>10, <2>1 DEF BesideStep, ScanChangesNothing, RecoverBeside, TryRecoverBeside,
                      TruncateBeside, Scans
  <2>3. st.open
    BY <2>2 DEF ScanBegin, OffsetMoves
  <2>4. st' = st \/ \E p : st' = [st EXCEPT !.pos = p]
    BY <2>2 DEF ScanBegin, OffsetMoves
  <2>5. st'.inconsistent = st.inconsistent
    BY <1>2, <2>3, <2>4 DEF Handle
  <2> QED BY <1>1, <2>3, <2>5
<1> QED BY <1>3, <1>4, <1>5, <1>6, <1>7, <1>8, <1>9, <1>10
        DEF Next, Lifecycle, RecoverStep

\* open, recover and try_recover hand back a writer whose sequence number,
\* chain, hasher, counters and offset are what a replay of its file yields,
\* after any history of failed writes, displaced writes, crashes and clock steps.
THEOREM RecoveryRestores == Spec => RecoveryRestoresWriter
<1>1. IInv /\ [Next]_vars => (Restored => AgreesWithFile(st', files'[st'.ino]))
  <2> SUFFICES ASSUME IInv, [Next]_vars, Restored
               PROVE  AgreesWithFile(st', files'[st'.ino])
    OBVIOUS
  <2>1. /\ files \in Seq(File) /\ path \in 0..Len(files) /\ Len(files) \in Nat
    BY DEF IInv, TypeOK
  <2>2. ASSUME NEW key \in Keys, OpenCreate(key)
        PROVE  AgreesWithFile(st', files'[st'.ino])
    <3>1. st' = Fresh(key, path') /\ files'[path'] = NewFile(0)
      BY <2>1, <2>2, NewFileType, ReplaceFile, AddFile DEF OpenCreate
    <3>2. st'.ino = path' /\ st'.key = key
      BY <3>1 DEF Fresh
    <3>3. Whole(NewFile(0)) = 0 /\ Valid(NewFile(0), key, 0)
      BY DEF Whole, NewFile, Valid
    <3>4. Fresh(key, path') = Replayed(Fresh(key, path'), path', NewFile(0), 0)
      <4>1. /\ NewFile(0).base + 0 = 0 /\ LastHash(NewFile(0), 0) = <<>>
            /\ Hashes(NewFile(0), 0) = <<>>
        BY DEF NewFile, LastHash, Hashes
      <4> DEFINE s == Fresh(key, path')
      <4>2. path' \in Nat
        BY <2>1, <2>2 DEF OpenCreate
      <4>3. s \in Handle
        BY <4>2, FreshType
      <4>4. /\ s.ino = path' /\ s.pos = 0 /\ s.next_sequence = 0 /\ s.last_hash = <<>>
            /\ s.cumulative = <<>> /\ s.entry_count = 0 /\ s.byte_count = 0
        BY DEF Fresh
      <4> HIDE DEF s
      <4>5. Replayed(s, path', NewFile(0), 0) = s
        BY <4>1, <4>3, <4>4 DEF Replayed, Handle
      <4> QED BY <4>5 DEF s
    <3> QED BY <3>1, <3>2, <3>3, <3>4 DEF AgreesWithFile
  <2>3. ASSUME NEW key \in Keys, OpenExisting(key)
        PROVE  AgreesWithFile(st', files'[st'.ino])
    <3> DEFINE f == files[path]
    <3>1. path \in 1..Len(files) /\ f \in File
      BY <2>1, <2>3 DEF OpenExisting
    <3>2. PICK n \in 0..Len(f.frames) :
            /\ ScanStops(f, key, n)
            /\ files' = [files EXCEPT ![path] = Cut(f, n)]
            /\ st' = Replayed(Fresh(key, path), path, f, n)
      BY <2>3 DEF OpenExisting
    <3>3. files'[path] = Cut(f, n)
      BY <2>1, <3>1, <3>2
    <3>4. st'.ino = path /\ st'.key = key
      BY <3>2 DEF Replayed, Fresh
    <3>5. /\ Whole(Cut(f, n)) = n /\ Valid(Cut(f, n), key, n)
          /\ \A s, ino : Replayed(s, ino, Cut(f, n), n) = Replayed(s, ino, f, n)
      BY <3>1, <3>2, CutReplay DEF ScanStops
    <3>6. Replayed(st', path, f, n) = st'
      BY <3>2 DEF Replayed, Fresh
    <3> QED BY <3>3, <3>4, <3>5, <3>6 DEF AgreesWithFile
  <2>4. ASSUME st.open
        PROVE  st \in Handle /\ files[st.ino] \in File /\ st.ino \in 1..Len(files)
    BY <2>4, OpenHandle DEF IInv, TypeOK
  <2>5. CASE RecoverTruncate
    <3> DEFINE f == files[st.ino]
    <3>1. st \in Handle /\ f \in File /\ st.ino \in 1..Len(files)
      BY <2>4, <2>5 DEF RecoverTruncate, CanRecover
    <3>2. PICK n \in 1..(Len(f.frames) - 1) :
            /\ StrictStops(f, st.key, n)
            /\ files' = [files EXCEPT ![st.ino] = Synced(Cut(f, n))]
            /\ st' = [Replayed(st, st.ino, f, n) EXCEPT !.inconsistent = FALSE]
      BY <2>5 DEF RecoverTruncate
    <3>3. n \in 0..Len(f.frames) /\ Valid(f, st.key, n)
      BY <3>2 DEF StrictStops
    <3>4. files'[st.ino] = Synced(Cut(f, n))
      BY <2>1, <3>1, <3>2
    <3>5. st'.ino = st.ino /\ st'.key = st.key
      BY <3>1, <3>2 DEF Replayed, Handle
    <3>6. /\ Whole(Synced(Cut(f, n))) = n /\ Valid(Synced(Cut(f, n)), st.key, n)
          /\ \A s, ino : Replayed(s, ino, Synced(Cut(f, n)), n) = Replayed(s, ino, f, n)
      BY <3>1, <3>3, CutReplay
    <3>7. Replayed(st', st.ino, f, n) = st'
      BY <3>1, <3>2 DEF Replayed, Handle
    <3> HIDE DEF f
    <3> QED BY <3>4, <3>5, <3>6, <3>7 DEF AgreesWithFile
  <2>6. CASE TryRecoverOk
    <3> DEFINE f == files[st.ino]
               n == Whole(f)
    <3>1. st \in Handle
      BY <2>4, <2>6 DEF TryRecoverOk, CanRecover
    <3>2. /\ StrictStops(f, st.key, n)
          /\ files' = files
          /\ st' = [Replayed(st, st.ino, f, n) EXCEPT
                       !.inconsistent = FALSE, !.pending_syncs = 0]
      BY <2>6 DEF TryRecoverOk
    <3> HIDE DEF n, f
    <3>3. Valid(f, st.key, n)
      BY <3>2 DEF StrictStops
    <3>4. st'.ino = st.ino /\ st'.key = st.key
      BY <3>1, <3>2 DEF Replayed, Handle
    <3>5. Replayed(st', st.ino, f, n) = st'
      BY <3>1, <3>2 DEF Replayed, Handle
    <3> QED BY <3>2, <3>3, <3>4, <3>5 DEF AgreesWithFile, f, n
  <2> QED BY <2>2, <2>3, <2>5, <2>6, OnlyRecoveryRestores
<1>2. Init => IInv
  BY InitIInv
<1>3. IInv /\ [Next]_vars => IInv'
  BY NextIInv
<1> QED BY <1>1, <1>2, <1>3, PTL DEF Spec, RecoveryRestoresWriter

----------------------------------------------------------------------------
(***************************************************************************)
(* While no lapse has happened: what is owed is readable, the object       *)
(* agrees with its file, and the files of the log follow one another.      *)
(***************************************************************************)
\* The frames of a file before the torn one at its end, if there is one.
Intact(f) ==
    LET n == Len(f.frames) IN
    IF n > 0 /\ f.frames[n].torn THEN n - 1 ELSE n

\* The sequence number after those of the file.
End(f) == f.base + Intact(f)

\* One key has written all of it.
Sound(f) == \E key \in Keys : Valid(f, key, Intact(f))

\* Frames follow a header, and a header not yet on disk has no frames on disk.
Headed(f) ==
    /\ f.hdr \in {"none", "partial"} => f.frames = <<>>
    /\ f.hdr = "cached" => f.synced = 0

Archived == {a.ino : a \in archives}

\* The file the object has open is valid to its last frame.
ObjectSound ==
    st.open => /\ Valid(files[st.ino], st.key, Len(files[st.ino].frames))
               /\ Headed(files[st.ino])

\* Handle s is where a replay of all of file f leaves it, but for the offset.
Agrees(s, f) ==
    /\ f.hdr \in {"cached", "ok"}
    /\ s.next_sequence = f.base + Len(f.frames)
    /\ s.last_hash = LastHash(f, Len(f.frames))
    /\ s.cumulative = Hashes(f, Len(f.frames))
    /\ s.entry_count = Len(f.frames) /\ s.byte_count = Len(f.frames)

ObjectAgrees ==
    st.open /\ ~st.inconsistent =>
        Agrees(st, files[st.ino]) /\ (op = "idle" => st.ino = path)

\* A call in progress is a rotation: it was begun by a consistent object, and its
\* new file has no header yet.  (A scan in progress is beside a verification.)
Rotating ==
    /\ op \in {"idle", "renamed", "created"}
    /\ op # "idle" => ~st.inconsistent
    /\ op = "renamed" => path = 0
    /\ op = "created" => path # st.ino /\ files[path].hdr = "none"

LinkedSound == \A i \in Linked : Sound(files[i]) /\ Headed(files[i])

\* The log's base counts: its header can be read or its object knows it.
Based ==
    path # 0 /\ (files[path].hdr \in {"cached", "ok"} \/ (st.open /\ st.ino = path))

\* Archives come before the log, and before what a rotation is about to begin.
Ahead ==
    \A i \in Archived :
        /\ i # path
        /\ Based => End(files[i]) <= files[path].base
        /\ op # "idle" => End(files[i]) <= st.next_sequence

\* Archives do not overlap.
Apart ==
    \A i, j \in Archived :
        i = j \/ End(files[i]) <= files[j].base \/ End(files[j]) <= files[i].base

Kept ==
    /\ ObjectSound /\ ObjectAgrees /\ Rotating
    /\ LinkedSound /\ Ahead /\ Apart /\ OwedReadable

LossInv == IInv /\ (lapse = {} => Kept)

----------------------------------------------------------------------------
(***************************************************************************)
(* Files.                                                                  *)
(***************************************************************************)
\* What is valid to a frame is valid to every earlier one.
LEMMA ValidPrefix ==
    ASSUME NEW f, NEW key, NEW n \in Nat, NEW m \in 0..n, Valid(f, key, n)
    PROVE  Valid(f, key, m)
  BY DEF Valid

\* Frames that a scan accepts are before the torn one.
LEMMA IntactBounds ==
    ASSUME NEW f \in File
    PROVE  /\ Len(f.frames) \in Nat
           /\ Intact(f) \in 0..Len(f.frames)
           /\ Len(f.frames) - 1 <= Intact(f)
           /\ Intact(f) < Len(f.frames) => f.frames[Len(f.frames)].torn
           /\ End(f) \in Nat
           /\ \A key : \A n \in 0..Len(f.frames) : Valid(f, key, n) => n <= Intact(f)
           /\ \A key : Valid(f, key, Len(f.frames)) => Intact(f) = Len(f.frames)
<1>1. Len(f.frames) \in Nat /\ f.base \in Nat
  BY DEF File
<1>2. /\ Intact(f) \in 0..Len(f.frames)
      /\ Len(f.frames) - 1 <= Intact(f)
      /\ Intact(f) < Len(f.frames) => f.frames[Len(f.frames)].torn
  BY <1>1 DEF Intact
<1>3. ASSUME NEW key, NEW n \in 0..Len(f.frames), Valid(f, key, n)
      PROVE  n <= Intact(f)
  <2>1. CASE n = Len(f.frames) /\ n > 0
    <3>1. ~f.frames[n].torn
      BY <1>1, <1>3, <2>1, ValidDecodes
    <3> QED BY <1>1, <2>1, <3>1 DEF Intact
  <2> QED BY <1>1, <1>2, <2>1
<1> QED BY <1>1, <1>2, <1>3 DEF End

\* What a scan yields: contents of valid frames, numbered from the file's base.
LEMMA ReadableAt ==
    ASSUME NEW f \in File, NEW c \in Readable(f)
    PROVE  \E j \in 1..Intact(f), key \in Keys :
              /\ Valid(f, key, j) /\ c = f.frames[j].c
              /\ c.seq = f.base + j - 1 /\ c \in Contents(f) /\ ~f.frames[j].torn
<1>1. PICK j \in 1..Len(f.frames), key \in Keys : Valid(f, key, j) /\ c = f.frames[j].c
  BY DEF Readable
<1>2. j \in Nat /\ j <= Intact(f)
  BY <1>1, IntactBounds
<1>3. FrameOK(f, key, j) /\ ~f.frames[j].torn
  BY <1>1, <1>2 DEF Valid, FrameOK
<1>4. c.seq = f.base + j - 1 /\ c \in Contents(f)
  BY <1>1, <1>3 DEF FrameOK, Contents
<1>5. j \in 1..Intact(f)
  BY <1>1, <1>2, IntactBounds
<1> QED BY <1>1, <1>3, <1>4, <1>5

\* A file with the same base and first n frames yields what those frames hold.
LEMMA ReadableKept ==
    ASSUME NEW f \in File, NEW g \in File, NEW n \in Nat,
           f.base = g.base, n <= Len(g.frames),
           \A j \in 1..n : g.frames[j] = f.frames[j]
    PROVE  /\ \A j \in 1..n, key \in Keys : Valid(f, key, j) => f.frames[j].c \in Readable(g)
           /\ Intact(f) <= n => Readable(f) \subseteq Readable(g)
<1>1. ASSUME NEW j \in 1..n, NEW key \in Keys, Valid(f, key, j)
      PROVE  f.frames[j].c \in Readable(g)
  <2>1. Valid(g, key, j)
    BY <1>1, SamePrefix
  <2>2. j \in 1..Len(g.frames)
    BY IntactBounds
  <2> QED BY <2>1, <2>2 DEF Readable
<1>2. ASSUME Intact(f) <= n, NEW c \in Readable(f) PROVE c \in Readable(g)
  <2>1. PICK j \in 1..Intact(f), key \in Keys : Valid(f, key, j) /\ c = f.frames[j].c
    BY ReadableAt
  <2>2. j \in 1..n
    BY <1>2, IntactBounds
  <2> QED BY <1>1, <2>1, <2>2
<1> QED BY <1>1, <1>2

\* A file without frames is sound and yields nothing.
LEMMA EmptyReads ==
    ASSUME NEW f, f.frames = <<>>
    PROVE  /\ Intact(f) = 0 /\ Len(f.frames) = 0
           /\ \A key : Valid(f, key, Len(f.frames))
           /\ Sound(f)
           /\ Readable(f) = {}
           /\ LastHash(f, 0) = <<>> /\ Hashes(f, 0) = <<>>
<1>1. Len(f.frames) = 0 /\ Intact(f) = 0
  BY DEF Intact
<1>2. \A key : Valid(f, key, 0)
  BY DEF Valid
<1>3. Sound(f)
  BY <1>1, <1>2, WalConstants DEF Sound
<1>4. Readable(f) = {}
  BY <1>1 DEF Readable
<1>5. LastHash(f, 0) = <<>> /\ Hashes(f, 0) = <<>>
  BY DEF LastHash, Hashes
<1> QED BY <1>1, <1>2, <1>3, <1>4, <1>5

\* A sync changes neither what a file holds nor what it yields.
LEMMA SyncedReads ==
    ASSUME NEW f \in File
    PROVE  /\ Synced(f) \in File
           /\ Synced(f).base = f.base /\ Synced(f).frames = f.frames
           /\ f.hdr = "cached" => Synced(f).hdr = "ok"
           /\ f.hdr # "cached" => Synced(f).hdr = f.hdr
           /\ Headed(f) => Headed(Synced(f))
           /\ Readable(Synced(f)) = Readable(f)
           /\ Sound(f) => Sound(Synced(f))
           /\ End(Synced(f)) = End(f)
           /\ \A key, n : Valid(Synced(f), key, n) <=> Valid(f, key, n)
           /\ \A n : LastHash(Synced(f), n) = LastHash(f, n) /\ Hashes(Synced(f), n) = Hashes(f, n)
<1> DEFINE g == Synced(f)
<1>1. /\ g \in File /\ g.base = f.base /\ g.frames = f.frames
      /\ f.hdr = "cached" => g.hdr = "ok"
      /\ f.hdr # "cached" => g.hdr = f.hdr
  BY SyncedType DEF Synced, File
<1> HIDE DEF g
<1>2. \A n : LastHash(g, n) = LastHash(f, n) /\ Hashes(g, n) = Hashes(f, n)
  BY <1>1 DEF LastHash, Hashes
<1>3. \A key, n : Valid(g, key, n) <=> Valid(f, key, n)
  BY <1>1, <1>2 DEF Valid, FrameOK
<1>4. Intact(g) = Intact(f)
  BY <1>1 DEF Intact
<1>5. Readable(g) = Readable(f)
  BY <1>1, <1>3 DEF Readable
<1>6. (Headed(f) => Headed(g)) /\ (Sound(f) => Sound(g)) /\ End(g) = End(f)
  BY <1>1, <1>3, <1>4 DEF Headed, Sound, End
<1> QED BY <1>1, <1>2, <1>3, <1>5, <1>6 DEF g

\* A valid file is sound, and a scan yields all of it.
LEMMA ValidReads ==
    ASSUME NEW f \in File, NEW key \in Keys, Valid(f, key, Len(f.frames))
    PROVE  /\ Sound(f) /\ End(f) = f.base + Len(f.frames)
           /\ Whole(f) = Len(f.frames)
           /\ \A i \in 1..Len(f.frames) :
                 /\ ~f.frames[i].torn /\ f.frames[i].c \in Readable(f)
                 /\ f.frames[i].c.seq = f.base + i - 1
                 /\ f.frames[i].c.payload \notin Oversize
<1>1. Len(f.frames) \in Nat /\ Intact(f) = Len(f.frames)
  BY IntactBounds
<1>2. Sound(f) /\ End(f) = f.base + Len(f.frames)
  BY <1>1 DEF Sound, End
<1>3. ASSUME NEW i \in 1..Len(f.frames)
      PROVE  /\ ~f.frames[i].torn /\ f.frames[i].c \in Readable(f)
             /\ f.frames[i].c.seq = f.base + i - 1
             /\ f.frames[i].c.payload \notin Oversize
  <2>1. FrameOK(f, key, i) /\ Valid(f, key, i)
    BY <1>1 DEF Valid
  <2>2. i \in 1..i
    BY <1>1
  <2> QED BY <2>1, <2>2 DEF FrameOK, Readable
<1>4. Whole(f) = Len(f.frames)
  <2>1. Len(f.frames) > 0 => f.frames[Len(f.frames)] # Stub
    BY <1>1, <1>3 DEF Stub
  <2> QED BY <1>1, <2>1 DEF Whole
<1> QED BY <1>2, <1>3, <1>4

\* The frames of a file to which one valid entry was appended.
LEMMA GrownReads ==
    ASSUME NEW f \in File, NEW g \in File, NEW key \in Keys, NEW e \in Entry,
           Valid(f, key, Len(f.frames)),
           g.base = f.base, g.frames = Append(f.frames, e),
           e.c.payload \notin Oversize, e.c.seq = f.base + Len(f.frames),
           e.prev = LastHash(f, Len(f.frames)),
           e.cum = Append(Hashes(f, Len(f.frames)), ComputeHash(e)), e.key = key
    PROVE  /\ Len(g.frames) = Len(f.frames) + 1
           /\ Valid(g, key, Len(g.frames))
           /\ LastHash(g, Len(g.frames)) = ComputeHash(e)
           /\ Hashes(g, Len(g.frames)) = e.cum
           /\ Readable(f) \subseteq Readable(g)
           /\ e.c \in Readable(g)
<1> DEFINE n == Len(f.frames)
<1>1. f.frames \in Seq(Frame) /\ n \in Nat /\ e \in Frame /\ ~e.torn
  <2>1. f.frames \in Seq(Frame) /\ n \in Nat
    BY DEF File
  <2>2. e \in Frame
    BY DEF Frame
  <2>3. ~e.torn
    BY DEF Entry
  <2> QED BY <2>1, <2>2, <2>3
<1>2. /\ Len(g.frames) = n + 1 /\ g.frames[n + 1] = e
      /\ \A j \in 1..n : g.frames[j] = f.frames[j]
  BY <1>1
<1> HIDE DEF n
<1>3. Valid(f, key, n)
  BY DEF n
<1>4. Valid(g, key, n) /\ LastHash(g, n) = LastHash(f, n) /\ Hashes(g, n) = Hashes(f, n)
  BY <1>1, <1>2, <1>3, SamePrefix
<1>5. LastHash(g, n + 1) = ComputeHash(e)
  BY <1>1, <1>2 DEF LastHash
<1>6. Hashes(g, n + 1) = Append(Hashes(g, n), ComputeHash(e))
  BY <1>1, <1>2 DEF Hashes
<1>7. Valid(g, key, n + 1)
  <2>1. \A j \in 1..n : ~g.frames[j].torn
    BY <1>1, <1>4, ValidDecodes
  <2>2. \A j \in 1..(n + 1) : ~g.frames[j].torn
    BY <1>1, <1>2, <2>1
  <2>3. /\ e.cum = Hashes(g, n + 1) /\ e.prev = LastHash(g, (n + 1) - 1)
        /\ e.c.seq = g.base + (n + 1) - 1
    <3>1. (n + 1) - 1 = n /\ f.base \in Nat
      BY <1>1 DEF File
    <3>2. e.prev = LastHash(f, n) /\ e.cum = Append(Hashes(f, n), ComputeHash(e))
          /\ e.c.seq = f.base + n
      BY DEF n
    <3> QED BY <1>1, <1>4, <1>6, <3>1, <3>2
  <2>4. FrameOK(g, key, n + 1)
    BY <1>2, <2>2, <2>3 DEF FrameOK
  <2> QED BY <1>1, <1>4, <2>4 DEF Valid
<1>8. Readable(f) \subseteq Readable(g)
  <2>1. Intact(f) <= n /\ n <= Len(g.frames)
    BY <1>1, <1>2, IntactBounds DEF n
  <2> QED BY <1>1, <1>2, <2>1, ReadableKept
<1>9. e.c \in Readable(g)
  <2>1. n + 1 \in 1..Len(g.frames)
    BY <1>1, <1>2
  <2> QED BY <1>2, <1>7, <2>1, ValidReads
<1>10. e.cum = Hashes(g, n + 1)
  BY <1>4, <1>6 DEF n
<1> QED BY <1>2, <1>5, <1>7, <1>8, <1>9, <1>10 DEF n

\* A write at the end of a file appends.
LEMMA WriteAtEnd ==
    ASSUME NEW f \in File, NEW fr \in Frame, NEW g \in WriteAt(f, Len(f.frames), fr)
    PROVE  /\ g \in File /\ g.base = f.base /\ g.hdr = f.hdr
           /\ g.frames = Append(f.frames, fr)
           /\ g.synced <= f.synced
<1>1. f.frames \in Seq(Frame) /\ f.synced \in Nat /\ Len(f.frames) \in Nat
  BY DEF File
<1>2. PICK rest \in {SubSeq(f.frames, Len(f.frames) + 2, Len(f.frames))}
                   \cup (IF Len(f.frames) + 1 < Len(f.frames) THEN {<<Torn>>} ELSE {}) :
        g = [f EXCEPT !.frames = Before(f, Len(f.frames)) \o <<fr>> \o rest,
                      !.synced = IF f.synced < Len(f.frames) THEN f.synced ELSE Len(f.frames)]
  <2>1. Len(f.frames) # AtHeader
    BY <1>1 DEF AtHeader
  <2>2. g \in WriteOver(f, Len(f.frames), fr)
    BY <2>1 DEF WriteAt
  <2> QED BY <2>2 DEF WriteOver
<1>3. rest = <<>>
  <2>1. ~(Len(f.frames) + 1 < Len(f.frames))
    BY <1>1
  <2>2. SubSeq(f.frames, Len(f.frames) + 2, Len(f.frames)) = <<>>
    <3>1. PICK n \in Nat : n = Len(f.frames)
      BY <1>1
    <3>2. SubSeq(f.frames, n + 2, n) = <<>>
      BY <1>1, <3>1
    <3> QED BY <3>1, <3>2
  <2> QED BY <1>2, <2>1, <2>2
<1>4. Before(f, Len(f.frames)) = f.frames
  BY <1>1 DEF Before
<1>5. f.frames \o <<fr>> \o <<>> = Append(f.frames, fr)
  BY <1>1
<1>6. g \in File
  <2>1. Len(f.frames) \in Offset
    BY <1>1 DEF Offset
  <2> QED BY <2>1, WriteAtType
<1> QED BY <1>1, <1>2, <1>3, <1>4, <1>5, <1>6 DEF File

\* A scan with the key of a sound file stops at its torn frame and not before.
LEMMA ScanKeeps ==
    ASSUME NEW f \in File, NEW key, NEW n, Sound(f), ScanStops(f, key, n),
           \A i \in 1..Len(f.frames) : f.frames[i].torn \/ f.frames[i].key = key
    PROVE  n = Intact(f)
<1>1. n \in 0..Len(f.frames) /\ Valid(f, key, n)
      /\ (n < Len(f.frames) => ~FrameOK(f, key, n + 1))
  BY DEF ScanStops
<1>2. n <= Intact(f) /\ Intact(f) \in 0..Len(f.frames) /\ Len(f.frames) \in Nat
  BY <1>1, IntactBounds
<1>3. PICK k \in Keys : Valid(f, k, Intact(f))
  BY DEF Sound
<1>4. ASSUME n < Intact(f) PROVE FALSE
  <2>1. FrameOK(f, k, n + 1)
    BY <1>1, <1>2, <1>3, <1>4 DEF Valid
  <2>2. n + 1 \in 1..(n + 1) /\ n + 1 \in 1..Len(f.frames)
    BY <1>1, <1>2, <1>4
  <2>3. f.frames[n + 1].key = k /\ ~f.frames[n + 1].torn
    BY <2>1, <2>2 DEF FrameOK
  <2>4. k = key
    BY <2>2, <2>3
  <2> QED BY <1>1, <1>2, <1>4, <2>1, <2>4
<1> QED BY <1>1, <1>2, <1>4

\* A crash takes the end of a file from its last sync on, and may tear a frame.
LEMMA CrashReads ==
    ASSUME NEW f \in File, NEW g \in CrashImages(f), Headed(f)
    PROVE  /\ g \in File /\ g.base = f.base /\ Headed(g)
           /\ g.hdr \in {"cached", "ok"} => f.hdr \in {"cached", "ok"}
           /\ Intact(g) <= Intact(f)
           /\ Sound(f) => Sound(g)
           /\ \A j \in 1..Len(f.frames), key \in Keys :
                 Valid(f, key, j) /\ j <= f.synced => f.frames[j].c \in Readable(g)
<1>1. PICK h \in CrashHeaders(f), fs \in CrashFrames(f) : g = CrashImage(f, h, fs)
  BY DEF CrashImages
<1>2. g \in File
  BY CrashImageType
<1>3. /\ g.base = f.base /\ g.hdr = h
      /\ g.frames = (IF h = "ok" THEN fs ELSE <<>>)
  BY <1>1 DEF CrashImage, File
<1>4. /\ h # "cached"
      /\ h \in {"none", "partial"} => f.hdr \in {"none", "partial", "cached"}
      /\ h = "ok" => f.hdr \in {"cached", "ok"}
      /\ f.hdr \in {"none", "partial", "cached", "ok"}
  BY DEF CrashHeaders, File
<1>5. Headed(g)
  BY <1>3, <1>4 DEF Headed
<1>6. /\ f.frames \in Seq(Frame) /\ Len(f.frames) \in Nat /\ f.synced \in Nat
      /\ Intact(f) \in 0..Len(f.frames) /\ Len(f.frames) - 1 <= Intact(f)
      /\ Intact(g) \in 0..Len(g.frames)
  BY <1>2, IntactBounds DEF File
<1>7. CASE h # "ok"
  <2>1. g.frames = <<>>
    BY <1>3, <1>7
  <2>2. Intact(g) = 0 /\ Sound(g)
    BY <2>1, EmptyReads
  <2>3. ASSUME NEW j \in 1..Len(f.frames), j <= f.synced PROVE FALSE
    <3>1. f.frames # <<>>
      BY <1>6
    <3>2. f.synced # 0
      BY <1>6, <2>3
    <3>3. f.hdr = "ok"
      BY <1>4, <3>1, <3>2 DEF Headed
    <3> QED BY <1>7, <3>3 DEF CrashHeaders
  <2> QED BY <1>2, <1>3, <1>4, <1>5, <1>6, <2>2, <2>3
<1>8. CASE h = "ok"
  <2>1. PICK n \in Nat :
          /\ f.synced <= n /\ n <= Len(f.frames) /\ n <= Len(g.frames)
          /\ \A j \in 1..n : g.frames[j] = f.frames[j]
          /\ Intact(g) <= n /\ Intact(g) <= Intact(f)
    <3>1. CASE \E n \in f.synced..Len(f.frames) : fs = SubSeq(f.frames, 1, n)
      <4>1. PICK n \in f.synced..Len(f.frames) : fs = SubSeq(f.frames, 1, n)
        BY <3>1
      <4>2. /\ n \in Nat /\ f.synced <= n /\ n <= Len(f.frames)
            /\ g.frames = SubSeq(f.frames, 1, n)
        BY <1>3, <1>6, <1>8, <4>1
      <4>3. Len(g.frames) = n /\ \A j \in 1..n : g.frames[j] = f.frames[j]
        BY <1>6, <4>2
      <4>4. Intact(g) <= Intact(f)
        <5>1. CASE n = Len(f.frames)
          <6>1. g.frames[n] = f.frames[n] \/ n = 0
            BY <4>2, <4>3
          <6> QED BY <1>6, <4>2, <4>3, <5>1, <6>1 DEF Intact
        <5>2. CASE n < Len(f.frames)
          BY <1>6, <4>2, <4>3, <5>2
        <5> QED BY <4>2, <5>1, <5>2
      <4> QED BY <1>6, <4>2, <4>3, <4>4
    <3>2. CASE \E n \in f.synced..(Len(f.frames) - 1), t \in {Torn, Stub} :
                 fs = Append(SubSeq(f.frames, 1, n), t)
      <4>1. PICK n \in f.synced..(Len(f.frames) - 1), t \in {Torn, Stub} :
                 fs = Append(SubSeq(f.frames, 1, n), t)
        BY <3>2
      <4>2. n \in Nat /\ f.synced <= n /\ n <= Len(f.frames) - 1
        BY <1>6, <4>1
      <4>3. SubSeq(f.frames, 1, n) \in Seq(Frame) /\ Len(SubSeq(f.frames, 1, n)) = n
            /\ \A j \in 1..n : SubSeq(f.frames, 1, n)[j] = f.frames[j]
        BY <1>6, <4>2
      <4>4. t.torn /\ g.frames = Append(SubSeq(f.frames, 1, n), t)
        BY <1>3, <1>8, <4>1 DEF Torn, Stub
      <4>5. Len(g.frames) = n + 1 /\ g.frames[n + 1] = t
            /\ \A j \in 1..n : g.frames[j] = f.frames[j]
        BY <4>2, <4>3, <4>4
      <4>6. Intact(g) = n
        BY <4>2, <4>4, <4>5 DEF Intact
      <4> QED BY <1>6, <4>2, <4>5, <4>6
    <3> QED BY <3>1, <3>2 DEF CrashFrames
  <2>2. Sound(f) => Sound(g)
    <3> SUFFICES ASSUME NEW key \in Keys, Valid(f, key, Intact(f)) PROVE Sound(g)
      BY DEF Sound
    <3>1. Intact(g) \in 0..Intact(f) /\ Intact(g) \in Nat /\ Intact(f) \in Nat
      BY <1>6, <2>1
    <3>2. Valid(f, key, Intact(g))
      BY <3>1, ValidPrefix
    <3>3. \A j \in 1..Intact(g) : g.frames[j] = f.frames[j]
      BY <2>1, <3>1
    <3>4. Valid(g, key, Intact(g))
      BY <1>2, <1>3, <3>1, <3>2, <3>3, SamePrefix
    <3> QED BY <3>4 DEF Sound
  <2>3. ASSUME NEW j \in 1..Len(f.frames), NEW key \in Keys, Valid(f, key, j), j <= f.synced
        PROVE  f.frames[j].c \in Readable(g)
    <3>1. j \in 1..n
      BY <1>6, <2>1, <2>3
    <3> QED BY <1>2, <1>3, <2>1, <2>3, <3>1, ReadableKept
  <2> QED BY <1>2, <1>3, <1>4, <1>5, <2>1, <2>2, <2>3
<1> QED BY <1>7, <1>8

\* What truncate writes is valid when the contents are numbered from its base.
LEMMA CompactedReads ==
    ASSUME TypeOK, st.open, NEW before \in Nat, NEW cs \in Seq(Content),
           \A i \in 1..Len(cs) : cs[i].seq = before + i - 1 /\ cs[i].payload \notin Oversize
    PROVE  LET g == Compacted(before, cs) IN
           /\ g \in File /\ g.hdr = "ok" /\ g.base = before /\ Headed(g)
           /\ Len(g.frames) = Len(cs)
           /\ \A i \in 1..Len(cs) : g.frames[i].c = cs[i]
           /\ Valid(g, st.key, Len(cs))
           /\ LastHash(g, Len(cs)) = cs
           /\ Hashes(g, Len(cs)) = [j \in 1..Len(cs) |-> SubSeq(cs, 1, j)]
<1> DEFINE g == Compacted(before, cs)
<1>1. g \in File
  BY CompactedType
<1>2. /\ g.hdr = "ok" /\ g.base = before /\ g.frames = Chained(cs, st.key)
  BY DEF Compacted
<1>3. Len(cs) \in Nat /\ Len(g.frames) = Len(cs)
  BY <1>2 DEF Chained
<1>4. ASSUME NEW i \in 1..Len(cs)
      PROVE  /\ ~g.frames[i].torn /\ g.frames[i].c = cs[i] /\ g.frames[i].key = st.key
             /\ g.frames[i].prev = SubSeq(cs, 1, i - 1)
             /\ g.frames[i].cum = [j \in 1..i |-> SubSeq(cs, 1, j)]
  BY <1>2 DEF Chained
<1> HIDE DEF g
<1>5. ASSUME NEW i \in 1..Len(cs) PROVE ComputeHash(g.frames[i]) = SubSeq(cs, 1, i)
  <2>1. ComputeHash(g.frames[i]) = Append(SubSeq(cs, 1, i - 1), cs[i])
    BY <1>4 DEF ComputeHash
  <2>2. Append(SubSeq(cs, 1, i - 1), cs[i]) = SubSeq(cs, 1, i)
    BY <1>3
  <2> QED BY <2>1, <2>2
<1>6. \A i \in 0..Len(cs) : Hashes(g, i) = [j \in 1..i |-> SubSeq(cs, 1, j)]
  <2> TAKE i \in 0..Len(cs)
  <2>1. \A j \in 1..i : ComputeHash(g.frames[j]) = SubSeq(cs, 1, j)
    BY <1>3, <1>5
  <2> QED BY <2>1 DEF Hashes
<1>7. \A i \in 0..Len(cs) : LastHash(g, i) = SubSeq(cs, 1, i)
  <2> TAKE i \in 0..Len(cs)
  <2>1. CASE i = 0
    BY <2>1 DEF LastHash
  <2>2. CASE i # 0
    <3>1. i \in 1..Len(cs)
      BY <2>2
    <3> QED BY <1>5, <2>2, <3>1 DEF LastHash
  <2> QED BY <2>1, <2>2
<1>8. ASSUME NEW i \in 1..Len(cs) PROVE FrameOK(g, st.key, i)
  <2>1. \A j \in 1..i : ~g.frames[j].torn
    <3> TAKE j \in 1..i
    <3>1. j \in 1..Len(cs)
      BY <1>3
    <3> QED BY <1>4, <3>1
  <2>2. i \in 0..Len(cs) /\ i - 1 \in 0..Len(cs)
    BY <1>3
  <2>3. g.frames[i].prev = LastHash(g, i - 1) /\ g.frames[i].cum = Hashes(g, i)
    BY <1>4, <1>6, <1>7, <2>2
  <2> QED BY <1>2, <1>4, <2>1, <2>3 DEF FrameOK
<1>9. Valid(g, st.key, Len(cs))
  BY <1>8 DEF Valid
<1>10. LastHash(g, Len(cs)) = cs /\ Hashes(g, Len(cs)) = [j \in 1..Len(cs) |-> SubSeq(cs, 1, j)]
  <2>1. SubSeq(cs, 1, Len(cs)) = cs /\ Len(cs) \in 0..Len(cs)
    BY <1>3
  <2> QED BY <1>6, <1>7, <2>1
<1>11. Headed(g)
  BY <1>2 DEF Headed
<1> QED BY <1>1, <1>2, <1>3, <1>4, <1>9, <1>10, <1>11 DEF g

----------------------------------------------------------------------------
(***************************************************************************)
(* Each operation, while no lapse happens, keeps what is owed.             *)
(***************************************************************************)
\* The inodes in use exist.
LEMMA InodesExist ==
    ASSUME TypeOK
    PROVE  /\ files \in Seq(File) /\ Len(files) \in Nat
           /\ \A i \in 1..Len(files) : files[i] \in File
           /\ Archived \subseteq 1..Len(files)
           /\ Linked = ({path} \ {0}) \cup Archived /\ Linked \subseteq 1..Len(files)
           /\ path \in 0..Len(files)
           /\ st.open => st \in Handle /\ st.ino \in 1..Len(files) /\ files[st.ino] \in File
  BY OpenHandle DEF TypeOK, Archived, Linked

\* The fields of the writer that a replay sets, its key and its state.
SameWriter(s, r) ==
    /\ s.open = r.open /\ s.ino = r.ino /\ s.key = r.key /\ s.inconsistent = r.inconsistent
    /\ s.next_sequence = r.next_sequence /\ s.last_hash = r.last_hash
    /\ s.cumulative = r.cumulative
    /\ s.entry_count = r.entry_count /\ s.byte_count = r.byte_count

\* A file that reads as another one did.
ReadsAs(g, f) ==
    /\ g \in File /\ g.base = f.base /\ g.frames = f.frames
    /\ (f.hdr = "none" => g.hdr = "none")
    /\ (g.hdr \in {"cached", "ok"} <=> f.hdr \in {"cached", "ok"})
    /\ (Headed(f) => Headed(g)) /\ (Sound(f) => Sound(g))
    /\ Readable(g) = Readable(f) /\ End(g) = End(f)
    /\ \A key : Valid(g, key, Len(g.frames)) <=> Valid(f, key, Len(f.frames))
    /\ LastHash(g, Len(g.frames)) = LastHash(f, Len(f.frames))
    /\ Hashes(g, Len(g.frames)) = Hashes(f, Len(f.frames))

\* Syncing the object's file leaves every file reading as it did.
LEMMA SyncStep ==
    ASSUME TypeOK, files' = files \/ (st.open /\ files' = SyncFile(st.ino))
    PROVE  \A i \in 1..Len(files) : ReadsAs(files'[i], files[i])
<1> SUFFICES ASSUME NEW i \in 1..Len(files) PROVE ReadsAs(files'[i], files[i])
  OBVIOUS
<1>1. files[i] \in File
  BY InodesExist
<1>2. files'[i] = files[i] \/ files'[i] = Synced(files[i])
  BY InodesExist DEF SyncFile
<1>3. ReadsAs(files[i], files[i])
  BY <1>1 DEF ReadsAs
<1>4. ReadsAs(Synced(files[i]), files[i])
  BY <1>1, SyncedReads DEF ReadsAs, File
<1> QED BY <1>2, <1>3, <1>4

\* What no file and no field of the writer notices keeps everything.
LEMMA QuietKept ==
    ASSUME IInv, Kept, UNCHANGED <<path, archives, op, owed>>,
           files' = files \/ (st.open /\ files' = SyncFile(st.ino)),
           st' = st \/ (st.open /\ SameWriter(st', st))
    PROVE  Kept'
<1>1. \A i \in 1..Len(files) : ReadsAs(files'[i], files[i])
  BY SyncStep DEF IInv
<1>2. /\ Archived \subseteq 1..Len(files) /\ Linked \subseteq 1..Len(files)
      /\ st.open => st.ino \in 1..Len(files)
      /\ path \in 0..Len(files)
      /\ op # "idle" => st.open
      /\ op = "created" => path \in 1..Len(files)
  BY InodesExist DEF IInv, Threads
<1>3. Archived' = Archived /\ Linked' = Linked
  BY DEF Archived, Linked
<1>4. st'.open = st.open /\ (st.open => SameWriter(st', st))
  BY DEF SameWriter
<1>5. ObjectSound' /\ ObjectAgrees'
  <2>1. CASE ~st.open
    BY <1>4, <2>1 DEF ObjectSound, ObjectAgrees
  <2>2. CASE st.open
    <3>1. SameWriter(st', st) /\ ReadsAs(files'[st.ino], files[st.ino]) /\ st'.ino = st.ino
      BY <1>1, <1>2, <1>4, <2>2 DEF SameWriter
    <3>2. ObjectSound'
      BY <2>2, <3>1 DEF Kept, ObjectSound, ReadsAs, SameWriter
    <3>3. Agrees(st, files[st.ino]) => Agrees(st', files'[st.ino])
      BY <3>1 DEF Agrees, ReadsAs, SameWriter
    <3>4. ObjectAgrees'
      BY <2>2, <3>1, <3>3 DEF Kept, ObjectAgrees, SameWriter
    <3> QED BY <3>2, <3>4
  <2> QED BY <2>1, <2>2
<1>6. Rotating'
  <2>1. st.open => st'.ino = st.ino /\ st'.inconsistent = st.inconsistent
    BY <1>4 DEF SameWriter
  <2>2. op = "created" /\ files[path].hdr = "none" => files'[path].hdr = "none"
    BY <1>1, <1>2 DEF ReadsAs
  <2> QED BY <1>2, <2>1, <2>2 DEF Kept, Rotating
<1>7. LinkedSound'
  BY <1>1, <1>2, <1>3 DEF Kept, LinkedSound, ReadsAs
<1>8. Ahead' /\ Apart'
  BY <1>1, <1>2, <1>3 DEF Kept, Ahead, Apart, Based, ReadsAs, SameWriter
<1>9. OwedReadable'
  BY <1>1, <1>2, <1>3 DEF Kept, OwedReadable, ReadsAs
<1> QED BY <1>5, <1>6, <1>7, <1>8, <1>9 DEF Kept

\* Verification, a recovery that cuts nothing and a failed truncation move offsets.
LEMMA OffsetKept ==
    ASSUME IInv, Kept, lapse' = {},
           \/ VerifyStep \/ RecoverClean \/ RecoverRefused \/ TryRecoverFails
           \/ TruncateFails \/ Close \/ Flush \/ RotateRenameError \/ OpenRejected
    PROVE  Kept'
<1>1. (ver.pc \in Running => st.open) /\ (st.open => st \in Handle)
  BY InodesExist DEF IInv, Threads
<1>2. UNCHANGED <<path, archives, op, owed>>
  BY DEF VerifyStep, VerifyBegin, VerifySeek, VerifyHeader, HeaderRead, VerifyRead,
         RecoverClean, RecoverRefused,
         TryRecoverFails, TruncateFails, Close, Flush, RotateRenameError, OpenRejected, vars
<1>3. files' = files \/ (st.open /\ files' = SyncFile(st.ino))
  BY DEF VerifyStep, VerifyBegin, VerifySeek, VerifyHeader, HeaderRead, VerifyRead,
         RecoverClean, RecoverRefused,
         TryRecoverFails, TruncateFails, Close, Flush, RotateRenameError, OpenRejected, vars
<1>4. \/ st' = st
      \/ st.open /\ \E p : \/ st' = [st EXCEPT !.pos = p] \/ st' = [st EXCEPT !.closed = p]
                           \/ st' = [st EXCEPT !.pending_syncs = p]
  BY <1>1 DEF VerifyStep, VerifyBegin, VerifySeek, VerifyHeader, HeaderRead, VerifyRead,
         Advance, Running, CanRecover, Exclusive, RecoverClean, RecoverRefused,
         TryRecoverFails, TruncateFails, Close, Flush, RotateRenameError, OpenRejected, vars
<1>5. st' = st \/ (st.open /\ SameWriter(st', st))
  BY <1>1, <1>4 DEF SameWriter, Handle
<1> QED BY <1>1, <1>2, <1>3, <1>5, QuietKept

\* A dropped object is done with its file.
LEMMA DropKept ==
    ASSUME IInv, Kept, Drop
    PROVE  Kept'
<1>1. st' = NoWal /\ op = "idle" /\ UNCHANGED <<files, path, archives, op, owed>>
  BY DEF Drop
<1> QED BY <1>1 DEF NoWal, Kept, ObjectSound, ObjectAgrees, Rotating, LinkedSound, Linked,
           Ahead, Apart, Archived, Based, OwedReadable

\* A step that changes no archive, and leaves a log that holds what was owed of it.
LEMMA LogKept ==
    ASSUME IInv, LinkedSound, Apart, OwedReadable, archives' = archives, path' # 0,
           \A i \in Archived : /\ i # path' /\ files'[i] = files[i]
                               /\ Based' => End(files[i]) <= files'[path'].base
                               /\ op' # "idle" => End(files[i]) <= st'.next_sequence,
           Sound(files'[path']), Headed(files'[path']),
           \A c \in owed' : \/ c \in Readable(files'[path'])
                            \/ c \in owed /\ (path # 0 => c \notin Readable(files[path]))
    PROVE  LinkedSound' /\ Ahead' /\ Apart' /\ OwedReadable'
<1>1. Archived' = Archived /\ Linked = ({path} \ {0}) \cup Archived
      /\ Linked' = {path'} \cup Archived
  BY DEF Archived, Linked
<1>2. LinkedSound'
  BY <1>1 DEF LinkedSound
<1>3. Ahead' /\ Apart'
  BY <1>1 DEF Ahead, Apart
<1>4. OwedReadable'
  <2> SUFFICES ASSUME NEW c \in owed' PROVE \E i \in Linked' : c \in Readable(files'[i])
    BY DEF OwedReadable
  <2>1. CASE c \in owed /\ (path # 0 => c \notin Readable(files[path]))
    <3>1. PICK i \in Linked : c \in Readable(files[i])
      BY <2>1 DEF OwedReadable
    <3>2. i \in Archived
      BY <1>1, <2>1, <3>1
    <3> QED BY <1>1, <3>1, <3>2
  <2> QED BY <1>1, <2>1
<1> QED BY <1>2, <1>3, <1>4

\* A new header is written where there was none, for a sequence from 0.
LEMMA OpenCreateKept ==
    ASSUME IInv, IInv', Kept, NEW key \in Keys, OpenCreate(key), lapse' = {}
    PROVE  Kept'
<1>1. /\ archives = {} /\ archives' = archives /\ op' = op /\ owed' = owed
      /\ st' = Fresh(key, path') /\ Archived = {}
  BY DEF OpenCreate, Archived
<1>2. op = "idle"
  BY DEF OpenCreate, NoWal, IInv, Threads
<1>3. path' # 0 /\ files'[path'] = NewFile(0)
  <2>1. NewFile(0) \in File /\ Len(files) \in Nat /\ files \in Seq(File) /\ path \in 0..Len(files)
    BY NewFileType, InodesExist DEF IInv
  <2> QED BY <2>1, ReplaceFile, AddFile DEF OpenCreate
<1>4. /\ files'[path'].hdr = "ok" /\ files'[path'].base = 0 /\ files'[path'].frames = <<>>
  BY <1>3 DEF NewFile
<1>5. path # 0 => Readable(files[path]) = {}
  <2>1. path # 0 => path \in Linked /\ files[path].hdr = "none"
    BY DEF OpenCreate, Linked
  <2> QED BY <2>1, EmptyReads DEF Kept, LinkedSound, Headed
<1>6. /\ Sound(files'[path']) /\ Headed(files'[path'])
      /\ Len(files'[path'].frames) = 0
      /\ Valid(files'[path'], key, Len(files'[path'].frames))
      /\ LastHash(files'[path'], 0) = <<>> /\ Hashes(files'[path'], 0) = <<>>
  BY <1>4, EmptyReads DEF Headed
<1>7. /\ st'.ino = path' /\ st'.key = key /\ st'.open /\ ~st'.inconsistent
      /\ st'.next_sequence = 0 /\ st'.last_hash = <<>> /\ st'.cumulative = <<>>
      /\ st'.entry_count = 0 /\ st'.byte_count = 0
  BY <1>1 DEF Fresh
<1>8. LinkedSound' /\ Ahead' /\ Apart' /\ OwedReadable'
  BY <1>1, <1>3, <1>5, <1>6, LogKept DEF Kept
<1>9. ObjectSound' /\ ObjectAgrees' /\ Rotating'
  BY <1>1, <1>2, <1>4, <1>6, <1>7 DEF ObjectSound, ObjectAgrees, Agrees, Rotating
<1> QED BY <1>8, <1>9 DEF Kept

\* Open replays all of the log but a torn frame, which it cuts.
LEMMA OpenExistingKept ==
    ASSUME IInv, IInv', Kept, NEW key \in Keys, OpenExisting(key), lapse' = {}
    PROVE  Kept'
<1> DEFINE f == files[path]
<1>1. /\ path \in 1..Len(files) /\ f \in File /\ files \in Seq(File)
      /\ path \in Linked /\ Sound(f) /\ Headed(f)
      /\ f.hdr \in {"cached", "ok"}
  BY InodesExist DEF OpenExisting, IInv, Linked, Kept, LinkedSound
<1>2. op = "idle" /\ UNCHANGED <<path, archives, op, owed>>
  BY DEF OpenExisting, NoWal, IInv, Threads
<1>3. PICK n \in 0..Len(f.frames) :
        /\ ScanStops(f, key, n)
        /\ files' = [files EXCEPT ![path] = Cut(f, n)]
        /\ st' = Replayed(Fresh(key, path), path, f, n)
        /\ lapse' = lapse \cup (IF \E i \in 1..Len(f.frames) :
                                     ~f.frames[i].torn /\ f.frames[i].key # key
                                THEN {"rekey"} ELSE {})
  BY DEF OpenExisting
<1> DEFINE g == Cut(f, n)
<1>4. g \in File /\ files'[path] = g /\ \A i \in Archived : files'[i] = files[i]
  <2>1. path \notin Archived /\ Archived \subseteq 1..Len(files)
    BY InodesExist DEF Kept, Ahead, IInv
  <2> QED BY <1>1, <1>3, <2>1, CutType
<1>5. n = Intact(f) /\ Valid(f, key, n) /\ n \in Nat /\ n <= Len(f.frames)
  <2>1. \A i \in 1..Len(f.frames) : f.frames[i].torn \/ f.frames[i].key = key
    BY <1>3
  <2>2. n = Intact(f)
    BY <1>1, <1>3, <2>1, ScanKeeps
  <2>3. Len(f.frames) \in Nat
    BY <1>1, IntactBounds
  <2> QED BY <1>3, <2>2, <2>3 DEF ScanStops
<1>6. /\ g.base = f.base /\ g.hdr = f.hdr /\ g.frames = SubSeq(f.frames, 1, n)
      /\ f.synced = 0 => g.synced = 0
  BY <1>1, <1>5 DEF Cut, File
<1>7. Len(g.frames) = n /\ \A j \in 1..n : g.frames[j] = f.frames[j]
  BY <1>1, <1>5, <1>6 DEF File
<1>8. /\ Valid(g, key, n) /\ \A s, ino : Replayed(s, ino, g, n) = Replayed(s, ino, f, n)
  BY <1>1, <1>3, <1>5, CutReplay
<1>9. Sound(g) /\ Headed(g) /\ Readable(f) \subseteq Readable(g)
  <2>1. Headed(g)
    BY <1>1, <1>6 DEF Headed
  <2>2. Sound(g)
    BY <1>4, <1>7, <1>8, ValidReads
  <2>3. Intact(f) <= n /\ n <= Len(g.frames)
    BY <1>5, <1>7
  <2>4. Readable(f) \subseteq Readable(g)
    BY <1>1, <1>4, <1>5, <1>6, <1>7, <2>3, ReadableKept
  <2> QED BY <2>1, <2>2, <2>4
<1> HIDE DEF g, f
<1>10. /\ st'.ino = path /\ st'.key = key /\ st'.open /\ ~st'.inconsistent
       /\ st'.next_sequence = g.base + n /\ st'.last_hash = LastHash(g, n)
       /\ st'.cumulative = Hashes(g, n) /\ st'.entry_count = n /\ st'.byte_count = n
  <2>1. st' = Replayed(Fresh(key, path), path, g, n)
    BY <1>3, <1>8
  <2> QED BY <2>1 DEF Replayed, Fresh
<1>11. LinkedSound' /\ Ahead' /\ Apart' /\ OwedReadable'
  <2>1. \A i \in Archived : i # path /\ End(files[i]) <= f.base
    BY <1>1 DEF Kept, Ahead, Based, f
  <2>2. \A c \in owed : c \in Readable(g) \/ c \notin Readable(f)
    BY <1>9
  <2> QED BY <1>1, <1>2, <1>4, <1>6, <1>9, <2>1, <2>2, LogKept DEF Kept, f
<1>12. ObjectSound' /\ ObjectAgrees' /\ Rotating'
  BY <1>1, <1>2, <1>4, <1>6, <1>7, <1>8, <1>9, <1>10
     DEF ObjectSound, ObjectAgrees, Agrees, Rotating
<1> QED BY <1>11, <1>12 DEF Kept

\* A header that power loss cut short begins no log.
LEMMA CrashInOpenKept ==
    ASSUME IInv, IInv', Kept, CrashInOpen
    PROVE  Kept'
<1>1. /\ op = "idle" /\ st = NoWal /\ st' = NoWal
      /\ archives' = archives /\ op' = op /\ owed' = owed
  BY DEF CrashInOpen, NoWal, IInv, Threads
<1>2. /\ files \in Seq(File) /\ Len(files) \in Nat /\ path \in 0..Len(files)
      /\ Archived \subseteq 1..Len(files) /\ path \notin Archived
  BY InodesExist DEF IInv, Kept, Ahead
<1>3. PICK h \in {"none", "partial"} :
        \/ /\ path = 0 /\ files' = Append(files, [EmptyFile EXCEPT !.hdr = h])
           /\ path' = Len(files) + 1
        \/ /\ path # 0 /\ files[path].hdr = "none" /\ path' = path
           /\ files' = [files EXCEPT ![path] = [EmptyFile EXCEPT !.hdr = h]]
  BY DEF CrashInOpen
<1>4. /\ path' # 0 /\ files'[path'] = [EmptyFile EXCEPT !.hdr = h]
      /\ \A i \in Archived : i # path' /\ files'[i] = files[i]
  BY <1>2, <1>3
<1>5. files'[path'].hdr = h /\ files'[path'].frames = <<>>
  BY <1>4 DEF EmptyFile
<1>6. Sound(files'[path']) /\ Headed(files'[path'])
  BY <1>5, EmptyReads DEF Headed
<1>7. path # 0 => Readable(files[path]) = {}
  <2>1. path # 0 => path \in Linked /\ files[path].hdr = "none"
    BY <1>3 DEF Linked
  <2> QED BY <2>1, EmptyReads DEF Kept, LinkedSound, Headed
<1>8. ~Based' /\ op' = "idle"
  BY <1>1, <1>5 DEF Based, NoWal
<1>9. LinkedSound' /\ Ahead' /\ Apart' /\ OwedReadable'
  BY <1>1, <1>4, <1>6, <1>7, <1>8, LogKept DEF Kept
<1> QED BY <1>1, <1>9 DEF Kept, ObjectSound, ObjectAgrees, Rotating, NoWal

\* An appended entry, synced or not, is where a replay of the file expects it.
LEMMA AppendKept ==
    ASSUME IInv, IInv', Kept, lapse' = {},
           NEW type \in Types, NEW payload \in Payloads, NEW ts \in Times,
           \/ AppendOk(type, payload, ts)
           \/ AppendWriteError(type, payload, ts)
           \/ AppendSyncError(type, payload, ts)
    PROVE  Kept'
<1> DEFINE f == files[st.ino]
           c == NewContent(type, payload, ts)
           e == NewEntry(c)
           n == Len(f.frames)
<1>1. AppendOk(type, payload, ts) \/ AppendSyncError(type, payload, ts)
  BY DEF AppendWriteError
<1>2. CanAppend /\ UNCHANGED <<path, archives, op, ver>> /\ payload \notin Oversize
  BY <1>1 DEF AppendOk, AppendSyncError
<1>3. /\ st.open /\ op = "idle" /\ ~st.inconsistent /\ st \in Handle
      /\ st.ino \in 1..Len(files) /\ st.ino = path /\ f \in File /\ files \in Seq(File)
      /\ path \in Linked /\ path # 0 /\ path \notin Archived /\ Archived \subseteq 1..Len(files)
      /\ n \in Nat
  <2>1. st.open /\ op = "idle" /\ ~st.inconsistent
    BY <1>2 DEF CanAppend
  <2>2. st.ino = path /\ path \notin Archived
    BY <2>1 DEF Kept, ObjectAgrees, Ahead
  <2> QED BY <2>1, <2>2, InodesExist, IntactBounds DEF IInv, Linked
<1>4. /\ Valid(f, st.key, n) /\ Agrees(st, f) /\ Headed(f)
  BY <1>3 DEF Kept, ObjectSound, ObjectAgrees
<1>5. c \in Content /\ c.payload = payload /\ c.seq = st.next_sequence
  BY <1>3 DEF NewContent, Content, Handle
<1>6. e \in Entry
  <2>1. Append(st.last_hash, c) \in Hash /\ HasherWith(c) \in Seq(Hash)
    BY <1>3, <1>5 DEF HasherWith, Hash, Handle
  <2> HIDE DEF c
  <2> QED BY <1>3, <1>5, <2>1 DEF NewEntry, Entry, Handle
<1>7. /\ e.c = c /\ e.prev = st.last_hash /\ e.key = st.key
      /\ ComputeHash(e) = Append(st.last_hash, c)
      /\ e.cum = Append(st.cumulative, ComputeHash(e)) /\ e.cum = HasherWith(c)
  BY DEF NewEntry, ComputeHash, HasherWith
<1>8. PICK g :
        /\ g \in File /\ g.base = f.base /\ g.frames = Append(f.frames, e)
        /\ Headed(g) /\ (g.hdr \in {"cached", "ok"} <=> f.hdr \in {"cached", "ok"})
        /\ files' = [files EXCEPT ![st.ino] = g]
  <2>1. st.pos = n
    BY <1>1 DEF AppendOk, AppendSyncError, Displacement
  <2>2. PICK w \in WriteAt(f, n, e) :
          \/ files' = [files EXCEPT ![st.ino] = w]
          \/ files' = [files EXCEPT ![st.ino] = Synced(w)]
    BY <1>1, <2>1 DEF AppendOk, AppendSyncError
  <2>3. /\ w \in File /\ w.base = f.base /\ w.hdr = f.hdr
        /\ w.frames = Append(f.frames, e) /\ w.synced <= f.synced
    BY <1>3, <1>6, <2>2, WriteAtEnd DEF Frame
  <2>4. Headed(w)
    <3>1. f.hdr \in {"cached", "ok"} /\ w.synced \in Nat /\ f.synced \in Nat
      BY <1>3, <1>4, <2>3 DEF Agrees, File
    <3> QED BY <1>4, <2>3, <3>1 DEF Headed
  <2>5. /\ Synced(w) \in File /\ Synced(w).base = w.base /\ Synced(w).frames = w.frames
        /\ Headed(Synced(w)) /\ (Synced(w).hdr \in {"cached", "ok"} <=> w.hdr \in {"cached", "ok"})
    BY <2>3, <2>4, SyncedReads
  <2> QED BY <2>2, <2>3, <2>4, <2>5
<1>9. /\ files'[path] = g /\ \A i \in Archived : i # path /\ files'[i] = files[i]
  BY <1>3, <1>8
<1>10. /\ Len(g.frames) = n + 1 /\ Valid(g, st.key, Len(g.frames))
       /\ LastHash(g, Len(g.frames)) = ComputeHash(e) /\ Hashes(g, Len(g.frames)) = e.cum
       /\ Readable(f) \subseteq Readable(g) /\ c \in Readable(g)
  <2>1. /\ e.c.payload \notin Oversize /\ e.c.seq = f.base + n
        /\ e.prev = LastHash(f, n) /\ e.cum = Append(Hashes(f, n), ComputeHash(e))
    BY <1>2, <1>4, <1>5, <1>7 DEF Agrees
  <2>2. st.key \in Keys
    BY <1>3 DEF Handle
  <2>3. /\ f \in File /\ g \in File /\ e \in Entry /\ Valid(f, st.key, Len(f.frames))
        /\ g.base = f.base /\ g.frames = Append(f.frames, e)
        /\ e.c.payload \notin Oversize /\ e.c.seq = f.base + Len(f.frames)
        /\ e.prev = LastHash(f, Len(f.frames)) /\ e.key = st.key
        /\ e.cum = Append(Hashes(f, Len(f.frames)), ComputeHash(e)) /\ e.c = c
    BY <1>3, <1>4, <1>6, <1>7, <1>8, <2>1
  <2> HIDE DEF e, c, f
  <2> QED BY <2>2, <2>3, GrownReads
<1>11. Sound(g)
  BY <1>3, <1>8, <1>10, ValidReads DEF Handle
<1>12. owed' = owed \cup {c} \/ owed' = owed
  BY <1>1 DEF AppendOk, AppendSyncError
<1> HIDE DEF e, c, f, n
<1>13. LinkedSound' /\ Ahead' /\ Apart' /\ OwedReadable'
  <2>1. \A i \in Archived : End(files[i]) <= f.base
    BY <1>3 DEF Kept, Ahead, Based, f
  <2>2. \A x \in owed' : x \in Readable(g) \/ (x \in owed /\ x \notin Readable(f))
    BY <1>10, <1>12
  <2> QED BY <1>2, <1>3, <1>8, <1>9, <1>11, <2>1, <2>2, LogKept DEF Kept, f
<1>14. /\ st'.open /\ st'.ino = st.ino /\ st'.key = st.key
       /\ AppendOk(type, payload, ts) =>
            /\ st'.next_sequence = st.next_sequence + 1
            /\ st'.last_hash = ComputeHash(e) /\ st'.cumulative = e.cum
            /\ st'.entry_count = st.entry_count + 1 /\ st'.byte_count = st.byte_count + 1
       /\ AppendSyncError(type, payload, ts) => st'.inconsistent
  <2>1. CASE AppendOk(type, payload, ts)
    <3>1. \E p, q : st' = [st EXCEPT
                   !.pos = p,
                   !.cumulative = HasherWith(c),
                   !.last_hash = Append(st.last_hash, c),
                   !.next_sequence = st.next_sequence + 1,
                   !.entry_count = st.entry_count + 1,
                   !.byte_count = st.byte_count + 1,
                   !.pending_syncs = q]
      BY <2>1 DEF AppendOk, c
    <3>2. ~AppendSyncError(type, payload, ts) \/ st'.inconsistent
      BY <1>3 DEF AppendSyncError, Handle
    <3> QED BY <1>3, <1>7, <3>1, <3>2 DEF Handle
  <2>2. CASE AppendSyncError(type, payload, ts) /\ ~AppendOk(type, payload, ts)
    BY <1>3, <2>2 DEF AppendSyncError, Handle
  <2> QED BY <1>1, <2>1, <2>2
<1>15. ObjectSound' /\ ObjectAgrees' /\ Rotating'
  <2>1. ObjectSound' /\ Rotating'
    BY <1>2, <1>3, <1>8, <1>9, <1>10, <1>14 DEF ObjectSound, Rotating
  <2>2. CASE AppendOk(type, payload, ts)
    <3>1. Agrees(st', g)
      <4>1. f.base \in Nat /\ g.base = f.base
        BY <1>3, <1>8 DEF File
      <4>2. st.next_sequence = f.base + n /\ st.entry_count = n /\ st.byte_count = n
            /\ f.hdr \in {"cached", "ok"}
        BY <1>4 DEF Agrees, n
      <4>3. f.base + n + 1 = f.base + (n + 1)
        BY <1>3, <4>1
      <4> QED BY <1>8, <1>10, <1>14, <2>2, <4>1, <4>2, <4>3 DEF Agrees
    <3> QED BY <1>2, <1>3, <1>9, <1>14, <2>1, <3>1 DEF ObjectAgrees
  <2>3. CASE AppendSyncError(type, payload, ts)
    BY <1>14, <2>1, <2>3 DEF ObjectAgrees
  <2> QED BY <1>1, <2>1, <2>2, <2>3
<1> QED BY <1>13, <1>15 DEF Kept

\* Without a step of the clock recover has nothing to cut.
LEMMA RecoverTruncateKept ==
    ASSUME IInv, Kept, RecoverTruncate, lapse' = {}
    PROVE  FALSE
<1> DEFINE f == files[st.ino]
<1>1. PICK n \in 1..(Len(f.frames) - 1) : StrictStops(f, st.key, n) /\ ClockStep(f, n) = {}
  BY DEF RecoverTruncate
<1>2. f \in File /\ Valid(f, st.key, Len(f.frames))
  BY InodesExist DEF RecoverTruncate, CanRecover, IInv, Kept, ObjectSound
<1>3. Len(f.frames) \in Nat
  BY <1>2, IntactBounds
<1>4. n + 1 \in 1..Len(f.frames) /\ n < Len(f.frames)
  BY <1>1, <1>3
<1>5. FrameOK(f, st.key, n + 1)
  BY <1>2, <1>4 DEF Valid
<1> QED BY <1>1, <1>4, <1>5 DEF ClockStep

\* try_recover makes an object that has its log consistent with it.
LEMMA TryRecoverKept ==
    ASSUME IInv, Kept, TryRecoverOk, lapse' = {}
    PROVE  Kept'
<1> DEFINE f == files[st.ino]
<1>1. /\ st.open /\ op = "idle" /\ st.ino = path /\ f.hdr \in {"cached", "ok"}
      /\ st' = [Replayed(st, st.ino, f, Whole(f)) EXCEPT !.inconsistent = FALSE, !.pending_syncs = 0]
      /\ UNCHANGED <<files, path, archives, op, owed>>
  BY DEF TryRecoverOk, CanRecover, Exclusive, HasHeader
<1>2. st \in Handle /\ f \in File /\ Valid(f, st.key, Len(f.frames)) /\ Headed(f)
  BY <1>1, InodesExist DEF IInv, Kept, ObjectSound
<1>3. Whole(f) = Len(f.frames)
  BY <1>2, ValidReads DEF Handle
<1> HIDE DEF f
<1>4. /\ st'.open /\ st'.ino = st.ino /\ st'.key = st.key
      /\ st'.next_sequence = f.base + Len(f.frames) /\ st'.last_hash = LastHash(f, Len(f.frames))
      /\ st'.cumulative = Hashes(f, Len(f.frames))
      /\ st'.entry_count = Len(f.frames) /\ st'.byte_count = Len(f.frames)
  BY <1>1, <1>2, <1>3 DEF Replayed, Handle
<1>5. ObjectSound' /\ ObjectAgrees' /\ Rotating'
  BY <1>1, <1>2, <1>4 DEF ObjectSound, ObjectAgrees, Agrees, Rotating, f
<1>6. LinkedSound' /\ Ahead' /\ Apart' /\ OwedReadable'
  BY <1>1, <1>4 DEF Kept, LinkedSound, Linked, Ahead, Apart, Archived, Based, OwedReadable
<1> QED BY <1>5, <1>6 DEF Kept

\* What truncate retains of a valid file is numbered from the new base on.
LEMMA RetainedReads ==
    ASSUME NEW f \in File, NEW key \in Keys, Valid(f, key, Len(f.frames)),
           NEW before \in Nat, f.base <= before,
           NEW k \in 1..(Whole(f) + 1), RetainsFrom(f, before, k)
    PROVE  /\ Retained(f, k) \in Seq(Content)
           /\ \A i \in 1..Len(Retained(f, k)) :
                 /\ Retained(f, k)[i].seq = before + i - 1
                 /\ Retained(f, k)[i].payload \notin Oversize
           /\ \A c \in Readable(f) :
                 c.seq < before \/ \E i \in 1..Len(Retained(f, k)) : Retained(f, k)[i] = c
<1> DEFINE n == Len(f.frames)
           cs == Retained(f, k)
<1>1. n \in Nat /\ f.base \in Nat /\ f.frames \in Seq(Frame) /\ Whole(f) = n /\ k \in 1..(n + 1)
  BY ValidReads, IntactBounds DEF File
<1>2. ASSUME NEW i \in 1..n
      PROVE  /\ f.frames[i].c \in Content /\ f.frames[i].c.seq = f.base + i - 1
             /\ f.frames[i].c.payload \notin Oversize
  <2>1. f.frames[i] \in Frame /\ ~f.frames[i].torn
    BY <1>1, ValidReads
  <2>2. f.frames[i] \in Entry
    BY <2>1, EntryFrame
  <2> QED BY <2>2, ValidReads DEF Entry
<1>3. Len(cs) = n - k + 1 /\ \A i \in 1..Len(cs) : cs[i] = f.frames[k + i - 1].c
  BY <1>1 DEF Retained
<1>4. \A i \in 1..(n - k + 1) : k + i - 1 \in 1..n
  BY <1>1
<1>5. cs \in Seq(Content)
  <2>1. cs = [i \in 1..(n - k + 1) |-> f.frames[k + i - 1].c]
    BY <1>1 DEF Retained
  <2>2. \A i \in 1..(n - k + 1) : f.frames[k + i - 1].c \in Content
    BY <1>2, <1>4
  <2>3. n - k + 1 \in Nat
    BY <1>1
  <2> HIDE DEF cs, n
  <2> QED BY <2>1, <2>2, <2>3
<1>6. k <= n => before = f.base + k - 1
  <2> SUFFICES ASSUME k <= n PROVE before = f.base + k - 1
    OBVIOUS
  <2>1. k \in 1..n /\ k \in k..Whole(f)
    BY <1>1
  <2>2. before <= f.base + k - 1
    BY <1>2, <2>1 DEF RetainsFrom
  <2>3. k = 1 \/ f.base + (k - 1) - 1 < before
    <3>1. k = 1 \/ (k - 1 \in 1..n /\ k - 1 \in 1..(k - 1))
      BY <1>1
    <3> QED BY <1>2, <3>1 DEF RetainsFrom
  <2> QED BY <1>1, <2>2, <2>3
<1>7. ASSUME NEW i \in 1..Len(cs)
      PROVE  cs[i].seq = before + i - 1 /\ cs[i].payload \notin Oversize
  <2>1. k + i - 1 \in 1..n /\ k <= n /\ i \in Nat
    BY <1>1, <1>3, <1>4
  <2>2. cs[i].seq = f.base + (k + i - 1) - 1 /\ cs[i].payload \notin Oversize
    BY <1>2, <1>3, <2>1
  <2>3. PICK b \in Nat : b = f.base
    BY <1>1
  <2>4. b + (k + i - 1) - 1 = (b + k - 1) + i - 1 /\ before = b + k - 1
    BY <1>1, <1>6, <2>1, <2>3
  <2> HIDE DEF cs
  <2> QED BY <2>2, <2>3, <2>4
<1>8. ASSUME NEW c \in Readable(f), ~(c.seq < before)
      PROVE  \E i \in 1..Len(cs) : cs[i] = c
  <2>1. PICK j \in 1..n : c = f.frames[j].c
    BY DEF Readable
  <2>2. ~(j < k)
    <3>1. j < k => j \in 1..(k - 1)
      BY <1>1
    <3> QED BY <1>8, <2>1, <3>1 DEF RetainsFrom
  <2>3. j - k + 1 \in 1..Len(cs) /\ k + (j - k + 1) - 1 = j
    <3> HIDE DEF cs, n
    <3> QED BY <1>1, <1>3, <2>2
  <2>4. cs[j - k + 1] = f.frames[k + (j - k + 1) - 1].c
    BY <1>3, <2>3
  <2> HIDE DEF cs
  <2> QED BY <2>1, <2>3, <2>4
<1> QED BY <1>5, <1>7, <1>8

\* Truncation keeps what it retains, in a file that follows the archives.
LEMMA TruncateKept ==
    ASSUME IInv, IInv', Kept, lapse' = {}, NEW before \in Nat,
           Truncate(before) \/ TruncateReopenError(before)
    PROVE  Kept'
<1> DEFINE f == files[st.ino]
           m == Len(files) + 1
<1>1. st.open /\ op = "idle"
  BY DEF Truncate, TruncateReopenError, Exclusive
<1>2. /\ st \in Handle /\ f \in File /\ files \in Seq(File) /\ st.ino \in 1..Len(files)
      /\ Len(files) \in Nat /\ Archived \subseteq 1..Len(files)
      /\ Valid(f, st.key, Len(f.frames)) /\ Headed(f) /\ st.key \in Keys
  BY <1>1, InodesExist DEF IInv, Kept, ObjectSound, Handle
<1>3. PICK k \in 1..(Whole(f) + 1) :
        LET cs == Retained(f, k)
            s == AfterTruncate(before, cs) IN
        /\ RetainsFrom(f, before, k)
        /\ \/ TruncateDone(before, [s EXCEPT !.ino = m, !.pos = Len(cs), !.byte_count = Len(cs)],
                           Detached(Len(f.frames)), cs)
           \/ TruncateDone(before, [[s EXCEPT !.inconsistent = TRUE] EXCEPT !.pos = Len(f.frames)],
                           ver, cs)
           \/ \E q \in {0, Len(cs)} :
                 TruncateDone(before,
                              [[s EXCEPT !.inconsistent = TRUE] EXCEPT !.ino = m, !.pos = q],
                              Detached(Len(f.frames)), cs)
  BY DEF Truncate, TruncateReopenError, TruncateRead, TruncateReadNotReopened
<1> DEFINE cs == Retained(f, k)
           s == AfterTruncate(before, cs)
           g == Compacted(before, cs)
<1>4. /\ files' = Append(files, g) /\ path' = m
      /\ owed' = {c \in owed : c \in Contents(f) => c.seq >= before}
      /\ UNCHANGED <<archives, op>>
      /\ st.ino = path /\ ~(before < f.base)
  BY <1>1, <1>3 DEF TruncateDone
<1>5. \/ st' = [s EXCEPT !.ino = m, !.pos = Len(cs), !.byte_count = Len(cs)]
      \/ \E q : \/ st' = [[s EXCEPT !.inconsistent = TRUE] EXCEPT !.pos = q]
                \/ st' = [[s EXCEPT !.inconsistent = TRUE] EXCEPT !.ino = m, !.pos = q]
  BY <1>3 DEF TruncateDone
<1>6. /\ cs \in Seq(Content)
      /\ \A i \in 1..Len(cs) : cs[i].seq = before + i - 1 /\ cs[i].payload \notin Oversize
      /\ \A c \in Readable(f) : c.seq < before \/ \E i \in 1..Len(cs) : cs[i] = c
      /\ f.base <= before
  <2>1. f.base <= before
    BY <1>2, <1>4 DEF File
  <2>2. k \in 1..(Whole(f) + 1) /\ RetainsFrom(f, before, k)
    BY <1>3
  <2> HIDE DEF f
  <2> QED BY <1>2, <2>1, <2>2, RetainedReads
<1>7. /\ g \in File /\ g.hdr = "ok" /\ g.base = before /\ Headed(g)
      /\ Len(g.frames) = Len(cs) /\ \A i \in 1..Len(cs) : g.frames[i].c = cs[i]
      /\ Valid(g, st.key, Len(cs)) /\ LastHash(g, Len(cs)) = cs
      /\ Hashes(g, Len(cs)) = [j \in 1..Len(cs) |-> SubSeq(cs, 1, j)]
  <2>1. cs \in Seq(Content)
    BY <1>6
  <2>2. \A i \in 1..Len(cs) : cs[i].seq = before + i - 1 /\ cs[i].payload \notin Oversize
    BY <1>6
  <2>3. TypeOK /\ st.open
    BY <1>1 DEF IInv
  <2> HIDE DEF cs, g, s, f, m
  <2>4. /\ Compacted(before, cs) \in File /\ Compacted(before, cs).hdr = "ok"
        /\ Compacted(before, cs).base = before /\ Headed(Compacted(before, cs))
        /\ Len(Compacted(before, cs).frames) = Len(cs)
        /\ \A i \in 1..Len(cs) : Compacted(before, cs).frames[i].c = cs[i]
        /\ Valid(Compacted(before, cs), st.key, Len(cs))
        /\ LastHash(Compacted(before, cs), Len(cs)) = cs
        /\ Hashes(Compacted(before, cs), Len(cs)) = [j \in 1..Len(cs) |-> SubSeq(cs, 1, j)]
    BY <2>1, <2>2, <2>3, CompactedReads
  <2>5. g = Compacted(before, cs)
    BY DEF g
  <2> QED BY <2>4, <2>5
<1> HIDE DEF g
<1>8. Sound(g) /\ \A i \in 1..Len(cs) : cs[i] \in Readable(g)
  <2> HIDE DEF cs
  <2> QED BY <1>2, <1>7, ValidReads
<1>9. /\ files'[m] = g /\ m # 0
      /\ \A i \in 1..Len(files) : files'[i] = files[i] /\ i # m
  BY <1>2, <1>4
<1>10. \A c \in owed' : c \in Readable(g) \/ (c \in owed /\ c \notin Readable(f))
  <2> SUFFICES ASSUME NEW c \in owed', c \in Readable(f) PROVE c \in Readable(g)
    BY <1>4
  <2>1. c \in Contents(f) /\ \E j \in 1..Intact(f) : c.seq = f.base + j - 1
    BY <1>2, ReadableAt
  <2>2. ~(c.seq < before)
    <3>1. c.seq \in Int
      BY <1>2, <2>1 DEF File
    <3> QED BY <1>4, <2>1, <3>1
  <2> QED BY <1>6, <1>8, <2>2
<1>11. \A i \in Archived : End(files[i]) <= before
  <2>1. Based
    BY <1>1, <1>2, <1>4 DEF Based
  <2>2. \A i \in Archived : End(files[i]) <= f.base
    BY <1>4, <2>1 DEF Kept, Ahead
  <2>3. \A i \in Archived : End(files[i]) \in Nat
    BY InodesExist, IntactBounds DEF IInv
  <2>4. f.base \in Nat
    BY <1>2 DEF File
  <2> QED BY <1>6, <2>2, <2>3, <2>4
<1>12. LinkedSound' /\ Ahead' /\ Apart' /\ OwedReadable'
  <2> HIDE DEF m, f, cs, s
  <2> QED BY <1>1, <1>2, <1>4, <1>7, <1>8, <1>9, <1>10, <1>11, LogKept DEF Kept, f
<1>13. /\ s.open /\ s.key = st.key /\ s.ino = st.ino /\ s.last_hash = cs
       /\ DOMAIN s = DOMAIN st
       /\ s.cumulative = [j \in 1..Len(cs) |-> SubSeq(cs, 1, j)]
       /\ s.next_sequence = (IF cs = <<>> THEN before ELSE cs[Len(cs)].seq + 1)
       /\ s.entry_count = Len(cs)
  <2> HIDE DEF cs
  <2> QED BY <1>2 DEF AfterTruncate, Handle
<1>14. /\ st'.open /\ st'.key = st.key /\ st'.ino \in {st.ino, m}
       /\ ~st'.inconsistent =>
            /\ st'.ino = m /\ st'.next_sequence = s.next_sequence
            /\ st'.last_hash = cs /\ st'.cumulative = s.cumulative
            /\ st'.entry_count = Len(cs) /\ st'.byte_count = Len(cs)
  <2>1. /\ {"open", "key", "ino", "inconsistent", "next_sequence", "last_hash", "cumulative",
            "entry_count", "byte_count"} \subseteq DOMAIN s
    BY <1>2, <1>13 DEF Handle
  <2> HIDE DEF s, cs, m
  <2> QED BY <1>5, <1>13, <2>1
<1>15. s.next_sequence = before + Len(cs)
  <2>1. CASE cs = <<>>
    BY <1>13, <2>1
  <2>2. CASE cs # <<>>
    <3>1. Len(cs) \in 1..Len(cs) /\ Len(cs) \in Nat
      BY <1>6, <2>2
    <3> HIDE DEF cs, s
    <3> QED BY <1>6, <1>13, <2>2, <3>1
  <2> QED BY <2>1, <2>2
<1>16. ObjectSound'
  BY <1>2, <1>4, <1>7, <1>9, <1>14 DEF ObjectSound
<1>17. ObjectAgrees' /\ Rotating'
  <2> HIDE DEF s, cs, m
  <2>1. ~st'.inconsistent => Agrees(st', g)
    BY <1>7, <1>13, <1>14, <1>15 DEF Agrees
  <2> QED BY <1>1, <1>4, <1>9, <1>14, <2>1 DEF ObjectAgrees, Rotating
<1> QED BY <1>12, <1>16, <1>17 DEF Kept

\* The log becomes the youngest archive, synced.
LEMMA RotateRenameKept ==
    ASSUME IInv, IInv', Kept, lapse' = {}, NEW ts \in Times, RotateRename(ts)
    PROVE  Kept'
<1> DEFINE f == files[st.ino]
<1>1. /\ st.open /\ op = "idle" /\ ~st.inconsistent /\ path # 0
      /\ files' = SyncFile(st.ino) /\ archives' = archives \cup {[ts |-> ts, ino |-> path]}
      /\ path' = 0 /\ op' = "renamed" /\ UNCHANGED <<st, owed>>
  BY DEF RotateRename
<1>2. /\ st.ino = path /\ Agrees(st, f) /\ Valid(f, st.key, Len(f.frames)) /\ Headed(f)
      /\ Based
  BY <1>1 DEF Kept, ObjectSound, ObjectAgrees, Based
<1>3. /\ st \in Handle /\ f \in File /\ st.key \in Keys
      /\ Archived \subseteq 1..Len(files) /\ Linked \subseteq 1..Len(files)
      /\ path \in 1..Len(files)
  BY <1>1, InodesExist DEF IInv, Handle
<1>4. \A i \in 1..Len(files) : ReadsAs(files'[i], files[i])
  BY <1>1, SyncStep DEF IInv
<1>5. Archived' = Archived \cup {path} /\ Linked' = Linked
  <2>1. Archived' = Archived \cup {path}
    <3> DEFINE r == [ts |-> ts, ino |-> path]
    <3>1. archives' = archives \cup {r} /\ r.ino = path
      BY <1>1
    <3> HIDE DEF r
    <3> QED BY <3>1 DEF Archived
  <2>2. /\ Linked = ({path} \ {0}) \cup Archived
        /\ Linked' = ({path'} \ {0}) \cup Archived'
    BY DEF Linked, Archived
  <2> QED BY <1>1, <2>1, <2>2
<1>6. End(f) = st.next_sequence /\ st.next_sequence \in Nat /\ f.base \in Nat
      /\ f.base <= st.next_sequence
  <2>1. End(f) = f.base + Len(f.frames) /\ st.next_sequence = f.base + Len(f.frames)
    BY <1>2, <1>3, ValidReads DEF Agrees
  <2>2. f.base \in Nat /\ Len(f.frames) \in Nat
    BY <1>3, IntactBounds DEF File
  <2> HIDE DEF f
  <2> QED BY <2>1, <2>2
<1>7. \A i \in Archived : End(files[i]) <= f.base /\ End(files[i]) \in Nat
  <2>1. \A i \in Archived : End(files[i]) <= f.base
    BY <1>2 DEF Kept, Ahead
  <2> QED BY <2>1, InodesExist, IntactBounds DEF IInv
<1>8. Ahead'
  <2>1. \A i \in Archived \cup {path} : End(files[i]) <= st.next_sequence
    <3> HIDE DEF f
    <3> QED BY <1>2, <1>6, <1>7 DEF f
  <2>2. \A i \in Archived \cup {path} : End(files'[i]) = End(files[i]) /\ i # 0
    BY <1>3, <1>4 DEF ReadsAs
  <2> QED BY <1>1, <1>5, <2>1, <2>2 DEF Ahead, Based
<1>9. Apart'
  <2>1. \A i \in Archived \cup {path} : End(files'[i]) = End(files[i]) /\ files'[i].base = files[i].base
    BY <1>3, <1>4 DEF ReadsAs
  <2>2. \A i \in Archived : End(files[i]) <= files[path].base
    BY <1>2, <1>7
  <2> QED BY <1>5, <2>1, <2>2 DEF Apart, Kept
<1>10. LinkedSound' /\ OwedReadable'
  BY <1>1, <1>3, <1>4, <1>5 DEF Kept, LinkedSound, OwedReadable, ReadsAs
<1>11. ReadsAs(files'[st.ino], f)
  BY <1>2, <1>3, <1>4
<1>12. Agrees(st, files'[st.ino])
  BY <1>2, <1>11 DEF Agrees, ReadsAs
<1>13. ObjectSound' /\ ObjectAgrees' /\ Rotating'
  BY <1>1, <1>2, <1>11, <1>12 DEF ObjectSound, ObjectAgrees, Rotating, ReadsAs
<1> QED BY <1>8, <1>9, <1>10, <1>13 DEF Kept

\* A new empty file gets the name, or the rotation ends without one.
LEMMA RotateCreateKept ==
    ASSUME IInv, IInv', Kept, lapse' = {}, RotateCreate \/ RotateCreateError
    PROVE  Kept'
<1>1. /\ op = "renamed" /\ path = 0 /\ st.open /\ UNCHANGED <<archives, owed>>
      /\ st \in Handle /\ ~st.inconsistent
  BY InodesExist DEF RotateCreate, RotateCreateError, Kept, Rotating, IInv, Threads
<1>2. /\ files \in Seq(File) /\ Len(files) \in Nat /\ Archived \subseteq 1..Len(files)
      /\ st.ino \in 1..Len(files)
  BY <1>1, InodesExist DEF IInv
<1>3. \/ st' = st /\ op' = "created"
      \/ st' = [st EXCEPT !.inconsistent = TRUE] /\ op' = "idle"
  BY DEF RotateCreate, RotateCreateError
<1>4. /\ st'.open /\ st'.ino = st.ino /\ st'.key = st.key
      /\ st'.inconsistent <=> op' = "idle"
      /\ op' \in {"idle", "created"}
  BY <1>1, <1>3 DEF Handle
<1>5. CASE UNCHANGED <<files, path>>
  <2>1. op' = "idle"
    BY <1>1, <1>2, <1>5, EmptyFileType, AddFile DEF RotateCreate, RotateCreateError
  <2> QED BY <1>1, <1>3, <1>4, <1>5, <2>1 DEF Kept, ObjectSound, ObjectAgrees, Rotating,
             LinkedSound, Linked, Ahead, Apart, Archived, Based, OwedReadable
<1>6. CASE files' = Append(files, EmptyFile) /\ path' = Len(files) + 1
  <2>1. /\ files'[path'] = EmptyFile /\ path' # 0 /\ path' # st.ino
        /\ \A i \in 1..Len(files) : files'[i] = files[i] /\ i # path'
    BY <1>2, <1>6
  <2>2. /\ Sound(files'[path']) /\ Headed(files'[path']) /\ files'[path'].hdr = "none"
    <3>1. EmptyFile.frames = <<>> /\ EmptyFile.hdr = "none"
      BY DEF EmptyFile
    <3> QED BY <2>1, <3>1, EmptyReads DEF Headed
  <2>3. ~Based'
    BY <1>4, <2>1, <2>2 DEF Based
  <2>4. \A i \in Archived : op' # "idle" => End(files[i]) <= st'.next_sequence
    BY <1>1, <1>3 DEF Kept, Ahead
  <2>5. LinkedSound' /\ Ahead' /\ Apart' /\ OwedReadable'
    BY <1>1, <1>2, <2>1, <2>2, <2>3, <2>4, LogKept DEF Kept
  <2>6. ObjectSound'
    BY <1>1, <1>2, <1>4, <2>1 DEF ObjectSound, Kept
  <2>7. ObjectAgrees'
    <3>1. CASE op' = "idle"
      BY <1>4, <3>1 DEF ObjectAgrees
    <3>2. CASE op' = "created"
      <4>1. st' = st
        BY <1>3, <3>2
      <4> QED BY <1>1, <1>2, <2>1, <3>2, <4>1 DEF ObjectAgrees, Kept
    <3> QED BY <1>4, <3>1, <3>2
  <2>8. Rotating'
    BY <1>4, <2>1, <2>2 DEF Rotating
  <2> QED BY <2>5, <2>6, <2>7, <2>8 DEF Kept
<1> QED BY <1>5, <1>6 DEF RotateCreate, RotateCreateError

\* The new file begins where the archived ones end, whether or not its header is whole.
LEMMA RotateHeaderKept ==
    ASSUME IInv, IInv', Kept, lapse' = {}, RotateHeader \/ RotateHeaderError
    PROVE  Kept'
<1>1. /\ op = "created" /\ path # 0 /\ st.open /\ op' = "idle"
      /\ UNCHANGED <<path, archives, owed>>
      /\ st \in Handle /\ ~st.inconsistent /\ files[path].hdr = "none"
  BY InodesExist DEF RotateHeader, RotateHeaderError, Kept, Rotating, IInv, Threads
<1>2. /\ files \in Seq(File) /\ path \in 1..Len(files) /\ path \in Linked
      /\ Archived \subseteq 1..Len(files)
  BY <1>1, InodesExist DEF IInv, Linked
<1>3. PICK h \in {"none", "partial", "cached", "ok"} :
        /\ files' = [files EXCEPT ![path] = [NewFile(st.next_sequence) EXCEPT !.hdr = h]]
        /\ \/ h = "ok" /\ st' = Rotated
           \/ st' = [Rotated EXCEPT !.inconsistent = TRUE]
  <2>1. NewFile(st.next_sequence) = [NewFile(st.next_sequence) EXCEPT !.hdr = "ok"]
    BY DEF NewFile
  <2>2. CASE RotateHeader
    BY <2>1, <2>2 DEF RotateHeader
  <2>3. CASE RotateHeaderError
    BY <2>3 DEF RotateHeaderError
  <2> QED BY <2>2, <2>3
<1> DEFINE g == [NewFile(st.next_sequence) EXCEPT !.hdr = h]
<1>4. g.hdr = h /\ g.base = st.next_sequence /\ g.frames = <<>> /\ g.synced = 0
  BY DEF NewFile
<1>5. files'[path] = g /\ \A i \in Archived : i # path /\ files'[i] = files[i]
  BY <1>2, <1>3 DEF Kept, Ahead
<1> HIDE DEF g
<1>6. /\ Sound(g) /\ Headed(g) /\ Len(g.frames) = 0 /\ \A key : Valid(g, key, Len(g.frames))
      /\ LastHash(g, 0) = <<>> /\ Hashes(g, 0) = <<>>
  BY <1>4, EmptyReads DEF Headed
<1>7. Readable(files[path]) = {}
  BY <1>1, <1>2, EmptyReads DEF Kept, LinkedSound, Headed
<1>8. \A i \in Archived : End(files[i]) <= g.base
  BY <1>1, <1>4 DEF Kept, Ahead
<1>9. LinkedSound' /\ Ahead' /\ Apart' /\ OwedReadable'
  BY <1>1, <1>5, <1>6, <1>7, <1>8, LogKept DEF Kept
<1>10. /\ st'.open /\ st'.ino = path
       /\ ~st'.inconsistent => h = "ok" /\ st' = Rotated
       /\ Rotated.next_sequence = st.next_sequence /\ Rotated.last_hash = <<>>
       /\ Rotated.cumulative = <<>> /\ Rotated.entry_count = 0 /\ Rotated.byte_count = 0
  BY <1>1, <1>3 DEF Rotated, Handle
<1>11. ObjectSound'
  BY <1>1, <1>5, <1>6, <1>10 DEF ObjectSound
<1>12. ObjectAgrees' /\ Rotating'
  <2>1. ~st'.inconsistent => Agrees(st', g)
    <3>1. st.next_sequence \in Nat
      BY <1>1 DEF Handle
    <3> QED BY <1>4, <1>6, <1>10, <3>1 DEF Agrees
  <2> QED BY <1>1, <1>5, <1>10, <2>1 DEF ObjectAgrees, Rotating
<1> QED BY <1>9, <1>11, <1>12 DEF Kept

\* What is pruned is no longer owed.
LEMMA PruneKept ==
    ASSUME IInv, Kept, NEW max, PruneArchives(max)
    PROVE  Kept'
<1>1. PICK R \in SUBSET Excess(max) :
        /\ archives' = archives \ R
        /\ owed' = owed \ UNION {Contents(files[a.ino]) : a \in R}
        /\ UNCHANGED <<files, path, st, op>>
  BY DEF PruneArchives
<1>2. /\ Archived' \subseteq Archived /\ Linked' \subseteq Linked
      /\ \A i \in Linked \ Linked' : \E a \in R : a.ino = i
  BY <1>1 DEF Archived, Linked
<1>3. OwedReadable'
  <2> SUFFICES ASSUME NEW c \in owed' PROVE \E i \in Linked' : c \in Readable(files[i])
    BY <1>1 DEF OwedReadable
  <2>1. PICK i \in Linked : c \in Readable(files[i])
    BY <1>1 DEF Kept, OwedReadable
  <2>2. c \in Contents(files[i])
    BY <2>1, InodesExist, ReadableAt DEF IInv
  <2> QED BY <1>1, <1>2, <2>1, <2>2
<1>4. LinkedSound' /\ Ahead' /\ Apart'
  <2>1. Based' = Based
    BY <1>1 DEF Based
  <2> QED BY <1>1, <1>2, <2>1 DEF Kept, LinkedSound, Ahead, Apart
<1>5. ObjectSound' /\ ObjectAgrees' /\ Rotating'
  BY <1>1 DEF Kept, ObjectSound, ObjectAgrees, Rotating
<1> QED BY <1>3, <1>4, <1>5 DEF Kept

\* Power loss takes nothing that is owed but what no sync had covered.
LEMMA CrashKept ==
    ASSUME IInv, IInv', Kept, Crash
    PROVE  Kept'
<1>1. /\ st' = NoWal /\ op' = "idle" /\ owed' = owed \ AtRisk
      /\ UNCHANGED <<path, archives>>
      /\ \A i \in 1..Len(files) : files'[i] \in CrashImages(OnDisk(i))
  BY DEF Crash
<1>2. /\ Archived \subseteq 1..Len(files) /\ Linked \subseteq 1..Len(files)
      /\ \A i \in 1..Len(files) : files[i] \in File
      /\ Linked = ({path} \ {0}) \cup Archived
      /\ Archived' = Archived /\ Linked' = Linked /\ Len(files) \in Nat
  BY <1>1, InodesExist DEF IInv, Archived, Linked
<1>3. op = "created" => st.open /\ st.next_sequence \in Nat /\ path \in Linked
  BY InodesExist DEF IInv, Threads, Handle, Linked
<1>4. ASSUME NEW i \in Linked
      PROVE  /\ OnDisk(i) \in File /\ Headed(OnDisk(i)) /\ Sound(OnDisk(i))
             /\ i # path \/ op # "created" => OnDisk(i) = files[i]
             /\ i = path /\ op = "created" =>
                   /\ OnDisk(i).base = st.next_sequence
                   /\ Readable(files[i]) = {}
  <2>1. CASE i = path /\ op = "created"
    <3> DEFINE d == [NewFile(st.next_sequence) EXCEPT !.hdr = "cached"]
    <3>1. d.hdr = "cached" /\ d.base = st.next_sequence /\ d.frames = <<>> /\ d.synced = 0
      BY DEF NewFile
    <3>2. d \in File
      BY <1>3, <2>1, NewFileType DEF File
    <3>3. OnDisk(i) = d
      BY <2>1 DEF OnDisk
    <3> HIDE DEF d
    <3>4. Headed(d) /\ Sound(d)
      BY <3>1, EmptyReads DEF Headed
    <3>5. Readable(files[i]) = {}
      BY <2>1, EmptyReads DEF Kept, Rotating, LinkedSound, Headed
    <3> QED BY <2>1, <3>1, <3>2, <3>3, <3>4, <3>5
  <2>2. CASE ~(i = path /\ op = "created")
    BY <1>2, <2>2 DEF OnDisk, Kept, LinkedSound
  <2> QED BY <2>1, <2>2
<1>5. ASSUME NEW i \in Linked
      PROVE  /\ files'[i] \in File /\ files'[i].base = OnDisk(i).base /\ Headed(files'[i])
             /\ files'[i].hdr \in {"cached", "ok"} => OnDisk(i).hdr \in {"cached", "ok"}
             /\ Intact(files'[i]) <= Intact(OnDisk(i))
             /\ Sound(files'[i])
             /\ \A j \in 1..Len(OnDisk(i).frames), key \in Keys :
                   Valid(OnDisk(i), key, j) /\ j <= OnDisk(i).synced
                     => OnDisk(i).frames[j].c \in Readable(files'[i])
  <2>1. files'[i] \in CrashImages(OnDisk(i))
    BY <1>1, <1>2
  <2> QED BY <1>4, <2>1, CrashReads
<1>6. LinkedSound'
  BY <1>2, <1>5 DEF LinkedSound
<1>7. OwedReadable'
  <2> SUFFICES ASSUME NEW c \in owed' PROVE \E i \in Linked : c \in Readable(files'[i])
    BY <1>2 DEF OwedReadable
  <2>1. PICK i \in Linked : c \in Readable(files[i])
    BY <1>1 DEF Kept, OwedReadable
  <2> DEFINE f == files[i]
  <2>2. OnDisk(i) = f /\ f \in File
    BY <1>2, <1>4, <2>1
  <2>3. PICK j \in 1..Intact(f), key \in Keys :
          Valid(f, key, j) /\ c = f.frames[j].c /\ ~f.frames[j].torn
    BY <2>1, <2>2, ReadableAt
  <2>4. j \in 1..Len(f.frames) /\ f.synced \in Nat /\ Len(f.frames) \in Nat
    BY <2>2, IntactBounds DEF File
  <2>5. j <= f.synced
    <3> SUFFICES ASSUME ~(j <= f.synced) PROVE c \in AtRisk
      BY <1>1
    <3>1. f.synced < Len(f.frames) /\ j \in (f.synced + 1)..Len(f.frames)
      BY <2>4
    <3>2. f \in Unsynced
      BY <1>2, <3>1 DEF Unsynced
    <3> HIDE DEF f
    <3> QED BY <2>3, <3>1, <3>2 DEF AtRisk
  <2> HIDE DEF f
  <2> QED BY <1>5, <2>2, <2>3, <2>4, <2>5
<1>8. ASSUME NEW i \in Archived
      PROVE  /\ i # path /\ i \in Linked /\ files'[i].base = files[i].base
             /\ End(files'[i]) <= End(files[i]) /\ End(files'[i]) \in Nat /\ End(files[i]) \in Nat
             /\ files[i].base \in Nat
  <2>1. i # path /\ i \in Linked
    BY <1>2 DEF Kept, Ahead
  <2>2. OnDisk(i) = files[i] /\ files[i] \in File
    BY <1>2, <1>4, <2>1
  <2>3. /\ files'[i] \in File /\ files'[i].base = files[i].base
        /\ Intact(files'[i]) <= Intact(files[i])
    BY <1>5, <2>1, <2>2
  <2>4. /\ Intact(files'[i]) \in Nat /\ Intact(files[i]) \in Nat /\ files[i].base \in Nat
        /\ End(files'[i]) \in Nat /\ End(files[i]) \in Nat
    BY <2>2, <2>3, IntactBounds DEF File
  <2>5. End(files'[i]) <= End(files[i])
    BY <2>3, <2>4 DEF End
  <2> QED BY <2>1, <2>2, <2>3, <2>4, <2>5
<1>9. Apart'
  <2> SUFFICES ASSUME NEW i \in Archived, NEW j \in Archived
               PROVE  \/ i = j \/ End(files'[i]) <= files'[j].base
                      \/ End(files'[j]) <= files'[i].base
    BY <1>2 DEF Apart
  <2>1. i = j \/ End(files[i]) <= files[j].base \/ End(files[j]) <= files[i].base
    BY DEF Kept, Apart
  <2> QED BY <1>8, <2>1
<1>10. Ahead'
  <2> SUFFICES ASSUME NEW i \in Archived, Based' PROVE End(files'[i]) <= files'[path].base
    BY <1>1, <1>2, <1>8 DEF Ahead
  <2>1. path \in Linked /\ files'[path].hdr \in {"cached", "ok"}
    BY <1>1, <1>2 DEF Based, NoWal
  <2>2. End(files[i]) <= OnDisk(path).base /\ OnDisk(path).base \in Nat
    <3>1. OnDisk(path).base \in Nat /\ OnDisk(path).hdr \in {"cached", "ok"}
      BY <1>4, <1>5, <2>1 DEF File
    <3>2. CASE op = "created"
      BY <1>4, <2>1, <3>1, <3>2 DEF Kept, Ahead
    <3>3. CASE op # "created"
      <4>1. OnDisk(path) = files[path] /\ path # 0
        BY <1>2, <1>4, <2>1, <3>3
      <4> QED BY <3>1, <4>1 DEF Kept, Ahead, Based
    <3> QED BY <3>2, <3>3
  <2>3. files'[path].base = OnDisk(path).base
    BY <1>5, <2>1
  <2> QED BY <1>8, <2>2, <2>3
<1> QED BY <1>1, <1>6, <1>7, <1>9, <1>10 DEF Kept, ObjectSound, ObjectAgrees, Rotating, NoWal

\* Lapses are never forgotten.
LEMMA LapsesStay == [Next]_vars => lapse \subseteq lapse'
<1> SUFFICES ASSUME [Next]_vars PROVE lapse \subseteq lapse'
  OBVIOUS
<1>1. CASE Lifecycle \/ UNCHANGED vars
  BY <1>1 DEF Lifecycle, OpenCreate, OpenExisting, OpenRejected, Drop, Close, Flush, vars
<1>2. CASE AppendStep
  BY <1>2 DEF AppendStep, AppendOk, AppendWriteError, AppendSyncError
<1>3. CASE VerifyStep
  BY <1>3 DEF VerifyStep, VerifyBegin, VerifySeek, VerifyHeader, VerifyRead
<1>4. CASE RecoverStep
  BY <1>4 DEF RecoverStep, RecoverClean, RecoverRefused, RecoverTruncate, RecoverSyncError,
              TryRecoverOk, TryRecoverFails
<1>5. CASE TruncateStep \/ TruncateFails
  BY <1>5 DEF TruncateStep, Truncate, TruncateReopenError, TruncateRead,
              TruncateReadNotReopened, TruncateDone, TruncateFails
<1>6. CASE RotateStep
  BY <1>6 DEF RotateStep, RotateRename, RotateRenameError, RotateCreate, RotateCreateError,
              RotateHeader, RotateHeaderError, PruneArchives
<1>7. CASE Crash \/ CrashInOpen
  BY <1>7 DEF Crash, CrashInOpen
<1>8. CASE BesideStep
  BY <1>8 DEF BesideStep, ScanBegin, OffsetMoves, ScanChangesNothing, RecoverBeside,
              TryRecoverBeside, TruncateBeside, TruncateRead, TruncateReadNotReopened,
              TruncateDone
<1> QED BY <1>1, <1>2, <1>3, <1>4, <1>5, <1>6, <1>7, <1>8 DEF Next

\* What a scan does beside a verification is a lapse, or follows one.
LEMMA BesideLapses ==
    ASSUME Kept, BesideStep
    PROVE  lapse' # {}
<1>1. op \notin Scans
  BY DEF Kept, Rotating, Scans
<1>2. ~(ScanChangesNothing \/ RecoverBeside \/ TryRecoverBeside)
      /\ \A before : ~TruncateBeside(before)
  BY <1>1 DEF ScanChangesNothing, RecoverBeside, TryRecoverBeside, TruncateBeside, Scans
<1>3. (\E call \in Scans : ScanBegin(call)) \/ OffsetMoves
  BY <1>2 DEF BesideStep
<1> QED BY <1>3 DEF ScanBegin, OffsetMoves

LEMMA LossInit == Init => LossInv
<1> SUFFICES ASSUME Init PROVE LossInv
  OBVIOUS
<1>1. Linked = {} /\ Archived = {}
  BY DEF Init, Linked, Archived
<1>2. Kept
  BY <1>1 DEF Init, NoWal, Kept, ObjectSound, ObjectAgrees, Rotating, LinkedSound, Ahead,
              Apart, OwedReadable
<1> QED BY <1>2, InitIInv DEF LossInv

\* Every step keeps what is owed, or is a lapse.
LEMMA LossStep == LossInv /\ [Next]_vars => LossInv'
<1> SUFFICES ASSUME LossInv, [Next]_vars, lapse' = {} PROVE Kept'
  BY NextIInv DEF LossInv
<1>1. IInv /\ IInv' /\ lapse = {} /\ Kept
  BY NextIInv, LapsesStay DEF LossInv
<1>2. CASE UNCHANGED vars
  BY <1>1, <1>2 DEF vars, Kept, ObjectSound, ObjectAgrees, Rotating, LinkedSound, Linked,
              Ahead, Apart, Archived, Based, OwedReadable
<1>3. CASE Lifecycle
  BY <1>1, <1>3, OpenCreateKept, OpenExistingKept, OffsetKept, DropKept DEF Lifecycle
<1>4. CASE AppendStep
  BY <1>1, <1>4, AppendKept DEF AppendStep
<1>5. CASE VerifyStep \/ TruncateFails
  BY <1>1, <1>5, OffsetKept
<1>6. CASE RecoverStep
  <2>1. ~RecoverSyncError
    BY DEF RecoverSyncError
  <2> QED BY <1>1, <1>6, <2>1, OffsetKept, RecoverTruncateKept, TryRecoverKept DEF RecoverStep
<1>7. CASE TruncateStep
  <2>1. 0..(MaxSeq + 1) \subseteq Nat
    BY WalConstants
  <2> QED BY <1>1, <1>7, <2>1, TruncateKept DEF TruncateStep
<1>8. CASE RotateStep
  BY <1>1, <1>8, RotateRenameKept, OffsetKept, RotateCreateKept, RotateHeaderKept, PruneKept
     DEF RotateStep
<1>9. CASE Crash
  BY <1>1, <1>9, CrashKept
<1>10. CASE CrashInOpen
  BY <1>1, <1>10, CrashInOpenKept
<1>11. ~BesideStep
  BY <1>1, BesideLapses
<1> QED BY <1>2, <1>3, <1>4, <1>5, <1>6, <1>7, <1>8, <1>9, <1>10, <1>11 DEF Next

\* An entry append acknowledged stays readable in the log or an archive, through
\* any failed syncs, rotations, truncations, recoveries and crashes, until truncate
\* or prune removes it, a crash takes it before its sync, or a lapse happens.
THEOREM AckedIsKept == Spec => []NothingAckedIsLost
<1>1. LossInv => NothingAckedIsLost
  BY DEF LossInv, Kept, NothingAckedIsLost
<1> QED BY LossInit, LossStep, <1>1, PTL DEF Spec

\* An open and consistent Wal between two calls is where a replay of its file
\* would put it, and the file is the log's: WalState never drifts from the disk.
THEOREM WriterAgrees == Spec => []WriterMatchesFile
<1>1. LossInv => WriterMatchesFile
  <2> SUFFICES ASSUME LossInv, lapse = {}, st.open, op = "idle", ~st.inconsistent
               PROVE  LET f == files[st.ino] IN
                      /\ st.ino = path
                      /\ Valid(f, st.key, Len(f.frames))
                      /\ st = [Replayed(st, path, f, Len(f.frames)) EXCEPT !.pos = st.pos]
    BY DEF WriterMatchesFile
  <2> DEFINE f == files[st.ino]
  <2>1. /\ st.ino = path /\ Agrees(st, f) /\ Valid(f, st.key, Len(f.frames))
    BY DEF LossInv, Kept, ObjectSound, ObjectAgrees
  <2>2. st \in Handle
    BY InodesExist DEF LossInv, IInv
  <2> HIDE DEF f
  <2>3. st = [Replayed(st, path, f, Len(f.frames)) EXCEPT !.pos = st.pos]
    BY <2>1, <2>2 DEF Agrees, Replayed, Handle
  <2> QED BY <2>1, <2>3 DEF f
<1> QED BY LossInit, LossStep, <1>1, PTL DEF Spec

\* The log and its archives never hold a sequence number twice: the base of a
\* rotated or truncated file is past everything archived before.
THEOREM SequencesStayUnique == Spec => []SequencesUniqueUnlessLapsed
<1>1. LossInv => SequencesUniqueUnlessLapsed
  <2> SUFFICES ASSUME LossInv, lapse = {}, NEW i \in Linked, NEW j \in Linked,
                      NEW c \in Readable(files[i]), NEW d \in Readable(files[j]), c.seq = d.seq
               PROVE  i = j /\ c = d
    BY DEF SequencesUniqueUnlessLapsed, SequencesUnique
  <2>1. /\ Kept /\ files[i] \in File /\ files[j] \in File
        /\ Linked = ({path} \ {0}) \cup Archived
    BY InodesExist DEF LossInv, IInv
  <2>2. PICK a \in 1..Intact(files[i]) : c = files[i].frames[a].c /\ c.seq = files[i].base + a - 1
    BY <2>1, ReadableAt
  <2>3. PICK b \in 1..Intact(files[j]) : d = files[j].frames[b].c /\ d.seq = files[j].base + b - 1
    BY <2>1, ReadableAt
  <2>4. /\ files[i].base \in Nat /\ files[j].base \in Nat
        /\ Intact(files[i]) \in 0..Len(files[i].frames) /\ Len(files[i].frames) \in Nat
        /\ Intact(files[j]) \in 0..Len(files[j].frames) /\ Len(files[j].frames) \in Nat
    BY <2>1, IntactBounds DEF File
  <2>5. CASE i = j
    <3>1. a = b
      BY <2>2, <2>3, <2>4, <2>5
    <3> QED BY <2>2, <2>3, <2>5, <3>1
  <2>6. CASE i # j
    <3>1. End(files[i]) <= files[j].base \/ End(files[j]) <= files[i].base
      <4>1. \A k \in {i, j} : files[k].frames # <<>> /\ (k = path => Based)
        <5>1. \A k \in {i, j} : Len(files[k].frames) # 0
          BY <2>2, <2>3, <2>4
        <5>2. \A k \in {i, j} : files[k].frames # <<>> /\ Headed(files[k]) /\ files[k] \in File
          BY <2>1, <5>1 DEF Kept, LinkedSound
        <5>3. \A k \in {i, j} : files[k].hdr \in {"cached", "ok"}
          BY <5>2 DEF Headed, File
        <5>4. path \in {i, j} => path # 0
          BY <2>1 DEF Kept, Ahead
        <5> QED BY <5>2, <5>3, <5>4 DEF Based
      <4> QED BY <2>1, <2>6, <4>1 DEF Kept, Ahead, Apart
    <3>2. c.seq < End(files[i]) /\ d.seq < End(files[j])
          /\ files[i].base <= c.seq /\ files[j].base <= d.seq
      BY <2>2, <2>3, <2>4 DEF End
    <3> QED BY <2>2, <2>3, <2>4, <3>1, <3>2 DEF End
  <2> QED BY <2>5, <2>6
<1> QED BY LossInit, LossStep, <1>1, PTL DEF Spec

----------------------------------------------------------------------------
(***************************************************************************)
(* verify() beside the other calls.                                        *)
(***************************************************************************)
\* Verifier v has checked the first p frames of file f.
Follows(v, f, p) ==
    /\ p <= Len(f.frames)
    /\ v.seq = f.base + p
    /\ v.prev = LastHash(f, p)
    /\ v.cum = Hashes(f, p)
    /\ v.ts = (IF p = 0 THEN 0 ELSE f.frames[p].c.ts)

\* The verifier reads a valid file: the object's, or one the object is done with.
Checking ==
    ver.pc \in Running =>
        LET f == files[ver.ino] IN
        /\ Valid(f, ver.key, Len(f.frames))
        /\ ver.shared => ver.ino = st.ino /\ ver.key = st.key
        /\ ~ver.shared => ver.ino \notin {st.ino, path}
        /\ ver.pc \in {"seek", "header"} => ver.prev = <<>> /\ ver.cum = <<>> /\ ver.ts = 0
        /\ ver.pc = "header" => VerifyPos = AtHeader
        /\ ver.pc = "read" => /\ VerifyPos # AtHeader
                              /\ \/ Follows(ver, f, VerifyPos)
                                 \/ VerifyPos >= Len(f.frames)
                                 \/ ~InOrder(f, Len(f.frames))

VerifyInv == LossInv /\ (lapse = {} => Checking)

\* A verifier that has accepted as much as another one, of the same file.
SameCheck(v, u) ==
    /\ v.pc = u.pc /\ v.ino = u.ino /\ v.key = u.key
    /\ v.prev = u.prev /\ v.cum = u.cum /\ v.seq = u.seq /\ v.ts = u.ts

\* Frames alone decide what a verifier may find.
LEMMA SameFrames ==
    ASSUME NEW f, NEW g, g.base = f.base, g.frames = f.frames
    PROVE  /\ \A key, n : Valid(g, key, n) <=> Valid(f, key, n)
           /\ \A n : LastHash(g, n) = LastHash(f, n) /\ Hashes(g, n) = Hashes(f, n)
           /\ \A n : InOrder(g, n) <=> InOrder(f, n)
           /\ \A v, u, p : SameCheck(v, u) => (Follows(v, g, p) <=> Follows(u, f, p))
<1>1. \A n : LastHash(g, n) = LastHash(f, n) /\ Hashes(g, n) = Hashes(f, n)
  BY DEF LastHash, Hashes
<1>2. \A key, n : Valid(g, key, n) <=> Valid(f, key, n)
  BY <1>1 DEF Valid, FrameOK
<1>3. \A n : InOrder(g, n) <=> InOrder(f, n)
  BY DEF InOrder
<1>4. \A v, u, p : SameCheck(v, u) => (Follows(v, g, p) <=> Follows(u, f, p))
  BY <1>1 DEF SameCheck, Follows
<1> QED BY <1>1, <1>2, <1>3, <1>4

\* A step that leaves the frames of the verifier's file alone, and its place in it.
LEMMA Undisturbed ==
    ASSUME Checking, ver.pc \in Running, SameCheck(ver', ver),
           files'[ver.ino].base = files[ver.ino].base,
           files'[ver.ino].frames = files[ver.ino].frames,
           ver'.shared => ver.shared /\ st'.ino = st.ino /\ st'.key = st.key,
           ~ver'.shared => ver.ino \notin {st'.ino, path'}, VerifyPos' = VerifyPos
    PROVE  Checking'
<1> DEFINE f == files[ver.ino]
<1>1. PICK g : g = files'[ver.ino]
  OBVIOUS
<1>2. g.base = f.base /\ g.frames = f.frames
  BY <1>1
<1>3. PICK v, p : v = ver' /\ p = VerifyPos' /\ p = VerifyPos
  OBVIOUS
<1>4. SameCheck(v, ver)
  BY <1>3
<1>5. /\ Valid(f, ver.key, Len(f.frames))
      /\ ver.shared => ver.ino = st.ino /\ ver.key = st.key
      /\ ver.pc \in {"seek", "header"} => ver.prev = <<>> /\ ver.cum = <<>> /\ ver.ts = 0
      /\ ver.pc = "header" => p = AtHeader
      /\ ver.pc = "read" => /\ p # AtHeader
                            /\ \/ Follows(ver, f, p)
                               \/ p >= Len(f.frames)
                               \/ ~InOrder(f, Len(f.frames))
  BY <1>3 DEF Checking
<1>6. Valid(g, v.key, Len(g.frames))
  BY <1>2, <1>4, <1>5, SameFrames DEF SameCheck
<1>7. v.pc = "read" => \/ Follows(v, g, p)
                       \/ p >= Len(g.frames)
                       \/ ~InOrder(g, Len(g.frames))
  <2>1. /\ InOrder(g, Len(g.frames)) <=> InOrder(f, Len(f.frames))
        /\ Follows(v, g, p) <=> Follows(ver, f, p)
        /\ Len(g.frames) = Len(f.frames)
    <3> HIDE DEF f
    <3>1. \A n : InOrder(g, n) <=> InOrder(f, n)
      BY <1>2, SameFrames
    <3>2. Follows(v, g, p) <=> Follows(ver, f, p)
      BY <1>2, <1>4, SameFrames
    <3> QED BY <1>2, <3>1, <3>2
  <2> HIDE DEF f
  <2> QED BY <1>4, <1>5, <2>1 DEF SameCheck
<1>8. /\ v.shared => v.ino = st'.ino /\ v.key = st'.key
      /\ ~v.shared => v.ino \notin {st'.ino, path'}
      /\ v.pc \in {"seek", "header"} => v.prev = <<>> /\ v.cum = <<>> /\ v.ts = 0
      /\ v.pc = "header" => p = AtHeader
      /\ v.pc = "read" => p # AtHeader
      /\ g = files'[v.ino]
  BY <1>1, <1>3, <1>4, <1>5 DEF SameCheck
<1> HIDE DEF f
<1> QED BY <1>1, <1>3, <1>6, <1>7, <1>8 DEF Checking

\* An append without a lapse writes the last frame and leaves the offset behind it.
LEMMA AppendMoves ==
    ASSUME IInv, lapse' = {},
           NEW type \in Types, NEW payload \in Payloads, NEW ts \in Times,
           \/ AppendOk(type, payload, ts)
           \/ AppendWriteError(type, payload, ts)
           \/ AppendSyncError(type, payload, ts)
    PROVE  /\ st.open /\ st'.ino = st.ino /\ st'.key = st.key
           /\ UNCHANGED <<path, ver>>
           /\ st.pos = Len(files[st.ino].frames)
           /\ st'.pos = Len(files[st.ino].frames) + 1
           /\ Len(files'[st.ino].frames) = Len(files[st.ino].frames) + 1
           /\ \A i \in 1..Len(files) : i # st.ino => files'[i] = files[i]
<1> DEFINE f == files[st.ino]
           c == NewContent(type, payload, ts)
           e == NewEntry(c)
           n == Len(f.frames)
<1>1. AppendOk(type, payload, ts) \/ AppendSyncError(type, payload, ts)
  BY DEF AppendWriteError
<1>2. st.open /\ st.pos = n /\ UNCHANGED <<path, ver>>
  BY <1>1 DEF AppendOk, AppendSyncError, CanAppend, Displacement
<1>3. /\ st \in Handle /\ st.ino \in 1..Len(files) /\ files \in Seq(File) /\ f \in File
      /\ f.frames \in Seq(Frame) /\ n \in Nat
  BY <1>2, InodesExist DEF IInv, File
<1>4. EndOfWrite = n + 1
  <2>1. Before(f, n) = SubSeq(f.frames, 1, n)
    BY <1>3 DEF Before
  <2>2. Len(SubSeq(f.frames, 1, n)) = n
    BY <1>3
  <2> QED BY <1>2, <2>1, <2>2 DEF EndOfWrite
<1>5. /\ st'.ino = st.ino /\ st'.key = st.key /\ st'.pos = EndOfWrite
  BY <1>1, <1>3 DEF AppendOk, AppendSyncError, Handle
<1>6. e \in Frame
  <2>1. c \in Content
    BY <1>3 DEF NewContent, Content, Handle
  <2>2. Append(st.last_hash, c) \in Hash /\ HasherWith(c) \in Seq(Hash)
    BY <1>3, <2>1 DEF HasherWith, Hash, Handle
  <2> HIDE DEF c
  <2> QED BY <1>3, <2>1, <2>2 DEF NewEntry, Entry, Handle, Frame
<1>7. PICK w \in WriteAt(f, n, e) :
        \/ files' = [files EXCEPT ![st.ino] = w]
        \/ files' = [files EXCEPT ![st.ino] = Synced(w)]
  BY <1>1, <1>2 DEF AppendOk, AppendSyncError
<1>8. w \in File /\ w.frames = Append(f.frames, e) /\ Synced(w).frames = w.frames
  BY <1>3, <1>6, <1>7, WriteAtEnd, SyncedReads
<1>9. Len(w.frames) = n + 1
  <2> HIDE DEF e
  <2> QED BY <1>3, <1>6, <1>8
<1>10. /\ files'[st.ino] \in {w, Synced(w)}
       /\ \A i \in 1..Len(files) : i # st.ino => files'[i] = files[i]
  <2> HIDE DEF f
  <2> QED BY <1>3, <1>7
<1> QED BY <1>2, <1>4, <1>5, <1>8, <1>9, <1>10

\* Appends during a verification come behind all it has still to read.
LEMMA AppendChecking ==
    ASSUME IInv, Kept', Checking, lapse' = {},
           NEW type \in Types, NEW payload \in Payloads, NEW ts \in Times,
           \/ AppendOk(type, payload, ts)
           \/ AppendWriteError(type, payload, ts)
           \/ AppendSyncError(type, payload, ts)
    PROVE  Checking'
<1> DEFINE n == Len(files[st.ino].frames)
<1>1. /\ st.open /\ st'.ino = st.ino /\ st'.key = st.key
      /\ path' = path /\ ver' = ver /\ st.pos = n
      /\ st'.pos = n + 1 /\ Len(files'[st.ino].frames) = n + 1
      /\ \A i \in 1..Len(files) : i # st.ino => files'[i] = files[i]
  BY AppendMoves
<1>2. st'.open /\ n \in Nat
  BY <1>1, InodesExist, IntactBounds
     DEF IInv, AppendOk, AppendSyncError, AppendWriteError, Handle
<1>3. Valid(files'[st.ino], st.key, Len(files'[st.ino].frames))
  BY <1>1, <1>2 DEF Kept, ObjectSound
<1>4. CASE ver.pc \notin Running
  BY <1>1, <1>4 DEF Checking
<1>5. CASE ver.pc \in Running /\ ver.shared
  <2>1. /\ ver.ino = st.ino /\ ver.key = st.key
        /\ ver.pc = "seek" => ver.prev = <<>> /\ ver.cum = <<>> /\ ver.ts = 0
        /\ ver.pc # "header"
    BY <1>1, <1>2, <1>5 DEF Checking, VerifyPos, AtHeader
  <2>2. VerifyPos' >= Len(files'[st.ino].frames) /\ VerifyPos' # AtHeader
    BY <1>1, <1>2, <1>5 DEF VerifyPos, AtHeader
  <2> QED BY <1>1, <1>3, <1>5, <2>1, <2>2 DEF Checking
<1>6. CASE ver.pc \in Running /\ ~ver.shared
  <2>1. ver.ino \in 1..Len(files) /\ ver.ino # st.ino /\ ver.ino # path
    BY <1>6 DEF Checking, IInv, TypeOK
  <2>2. VerifyPos' = VerifyPos
    BY <1>1, <1>6 DEF VerifyPos
  <2> QED BY <1>1, <1>6, <2>1, <2>2, Undisturbed DEF SameCheck
<1> QED BY <1>4, <1>5, <1>6

\* A verifier that accepts a frame has followed the file one frame further.
LEMMA FollowsNext ==
    ASSUME NEW f \in File, NEW v, NEW w, NEW p \in Nat, p < Len(f.frames), Follows(v, f, p),
           w.seq = v.seq + 1, w.prev = ComputeHash(f.frames[p + 1]),
           w.cum = Append(v.cum, ComputeHash(f.frames[p + 1])), w.ts = f.frames[p + 1].c.ts
    PROVE  Follows(w, f, p + 1)
<1>1. f.base \in Nat /\ p + 1 # 0 /\ p + 1 <= Len(f.frames)
  BY IntactBounds DEF File
<1>2. w.seq = f.base + (p + 1)
  <2>1. PICK b \in Nat : b = f.base
    BY <1>1
  <2>2. w.seq = (b + p) + 1
    BY <2>1 DEF Follows
  <2>3. (b + p) + 1 = b + (p + 1)
    OBVIOUS
  <2> QED BY <2>1, <2>2, <2>3
<1>3. w.prev = LastHash(f, p + 1)
  BY <1>1 DEF LastHash
<1>4. w.cum = Hashes(f, p + 1)
  <2>1. Append(Hashes(f, p), ComputeHash(f.frames[p + 1])) = Hashes(f, p + 1)
    BY DEF Hashes
  <2> QED BY <2>1 DEF Follows
<1> QED BY <1>1, <1>2, <1>3, <1>4 DEF Follows

\* A verifier that follows a valid file accepts its next frame, unless the clock stepped.
LEMMA FollowsAccepts ==
    ASSUME NEW f \in File, NEW p \in Nat, p < Len(f.frames),
           Valid(f, ver.key, Len(f.frames)), Follows(ver, f, p), ver.key \in Keys,
           InOrder(f, Len(f.frames))
    PROVE  Accepts(f.frames[p + 1])
<1>1. f.base \in Nat /\ Len(f.frames) \in Nat /\ p + 1 \in 1..Len(f.frames) /\ (p + 1) - 1 = p
  BY IntactBounds DEF File
<1>2. FrameOK(f, ver.key, p + 1)
  BY <1>1 DEF Valid
<1>3. f.frames[p + 1].c.ts \in Nat
  <2>1. f.frames[p + 1] \in Frame /\ ~f.frames[p + 1].torn
    BY <1>1, ValidReads DEF File
  <2>2. f.frames[p + 1] \in Entry
    BY <2>1, EntryFrame
  <2> QED BY <2>2, WalConstants DEF Entry, Content
<1>4. ver.ts <= f.frames[p + 1].c.ts
  <2>1. CASE p = 0
    BY <1>3, <2>1 DEF Follows
  <2>2. CASE p # 0
    <3>1. p + 1 \in 2..Len(f.frames)
      BY <1>1, <2>2
    <3> QED BY <1>1, <2>2, <3>1 DEF Follows, InOrder
  <2> QED BY <2>1, <2>2
<1>5. ver.cum = Hashes(f, p) /\ Hashes(f, p + 1) = Append(Hashes(f, p), ComputeHash(f.frames[p + 1]))
  BY DEF Follows, Hashes
<1>6. f.frames[p + 1].c.seq = ver.seq
  <2>1. PICK b \in Nat : b = f.base
    BY <1>1
  <2>2. b + (p + 1) - 1 = b + p
    BY <2>1
  <2> QED BY <1>2, <2>1, <2>2 DEF FrameOK, Follows
<1> QED BY <1>1, <1>2, <1>4, <1>5, <1>6 DEF Accepts, FrameOK, Follows

\* A thread inside verify() that is not there has nothing to check.
LEMMA NotChecking ==
    ASSUME ver'.pc \notin Running
    PROVE  Checking'
  BY DEF Checking

\* A call that changes no frame, and moves no offset that a verifier shares.
LEMMA QuietChecking ==
    ASSUME IInv, Checking, st.open, UNCHANGED <<path, ver>>,
           files' = files \/ files' = SyncFile(st.ino),
           st'.ino = st.ino /\ st'.key = st.key, st'.pos = st.pos \/ ~Beside
    PROVE  Checking'
<1>1. CASE ver.pc \notin Running
  BY <1>1, NotChecking
<1>2. CASE ver.pc \in Running
  <2>1. ver.ino \in 1..Len(files)
    BY <1>2 DEF IInv, TypeOK
  <2>2. ReadsAs(files'[ver.ino], files[ver.ino])
    BY <2>1, SyncStep DEF IInv
  <2>3. VerifyPos' = VerifyPos
    BY <1>2 DEF VerifyPos, Beside
  <2>4. ~ver.shared => ver.ino \notin {st.ino, path}
    BY <1>2 DEF Checking
  <2> QED BY <1>2, <2>2, <2>3, <2>4, Undisturbed DEF SameCheck, ReadsAs
<1> QED BY <1>1, <1>2

\* What the object's other calls on its file do to a verification.
LEMMA CallChecking ==
    ASSUME IInv, Checking,
           \/ Close \/ Flush \/ RotateRenameError \/ TruncateFails
           \/ RecoverClean \/ RecoverRefused \/ TryRecoverOk \/ TryRecoverFails
    PROVE  Checking'
<1>1. /\ st.open /\ UNCHANGED <<path, ver>>
      /\ files' = files \/ files' = SyncFile(st.ino)
  BY DEF Close, Flush, RotateRenameError, TruncateFails, CanRecover, RecoverClean,
         RecoverRefused, TryRecoverOk, TryRecoverFails
<1>2. st \in Handle
  BY <1>1, InodesExist DEF IInv
<1>3. st'.ino = st.ino /\ st'.key = st.key
  BY <1>2 DEF Close, Flush, RotateRenameError, TruncateFails, RecoverClean,
         RecoverRefused, TryRecoverOk, TryRecoverFails, Replayed, Handle
<1>4. st'.pos = st.pos \/ ~Beside
  <2>1. CASE Close \/ Flush \/ RotateRenameError
    BY <1>2, <2>1 DEF Close, Flush, RotateRenameError, Handle
  <2>2. CASE ~(Close \/ Flush \/ RotateRenameError)
    BY <2>2 DEF TruncateFails, CanRecover, Exclusive, RecoverClean, RecoverRefused,
                TryRecoverOk, TryRecoverFails
  <2> QED BY <2>1, <2>2
<1> QED BY <1>1, <1>2, <1>3, <1>4, QuietChecking

\* verify() starts on the object's file and at its first frame.
LEMMA VerifyChecking ==
    ASSUME IInv, Kept, Checking, VerifyStep
    PROVE  Checking'
<1>1. UNCHANGED <<files, path>>
  BY DEF VerifyStep, VerifyBegin, VerifySeek, VerifyHeader, HeaderRead, VerifyRead
<1>2. CASE VerifyBegin
  <2>1. st.open /\ st' = st /\ ver' = [pc |-> "seek", ino |-> st.ino, shared |-> TRUE, off |-> 0,
               key |-> st.key, prev |-> <<>>, cum |-> <<>>, seq |-> 0, ts |-> 0, count |-> 0]
    BY <1>2 DEF VerifyBegin
  <2>2. Valid(files[st.ino], st.key, Len(files[st.ino].frames))
    BY <2>1 DEF Kept, ObjectSound
  <2> QED BY <1>1, <2>1, <2>2 DEF Checking
<1>3. CASE ~VerifyBegin
  <2> DEFINE f == files[ver.ino]
             n == Len(f.frames)
  <2>1. ver.pc \in Running /\ ver \in Verifier /\ f \in File /\ ver.key \in Keys /\ st \in Handle
    <3>1. ver.pc \in Running
      BY <1>3 DEF VerifyStep, VerifySeek, VerifyHeader, HeaderRead, VerifyRead, Running
    <3>2. ver \in Verifier
      BY <3>1 DEF IInv, TypeOK, Verdicts, Running
    <3> QED BY <3>1, <3>2, InodesExist DEF IInv, TypeOK, Threads, Verifier
  <2>2. /\ Valid(f, ver.key, n)
        /\ ver.shared => ver.ino = st.ino /\ ver.key = st.key
        /\ ~ver.shared => ver.ino \notin {st.ino, path}
    BY <2>1 DEF Checking
  <2>3. n \in Nat /\ Whole(f) = n
    BY <2>1, <2>2, ValidReads, IntactBounds
  <2>4. \A p, v : Advance(p, v) => /\ ver' = v /\ st'.ino = st.ino /\ st'.key = st.key
                                   /\ ver.shared => st'.pos = p
    BY <2>1 DEF Advance, Handle
  <2>5. CASE VerifySeek
    <3>1. PICK v : v = [ver EXCEPT !.pc = "header", !.off = AtHeader]
      OBVIOUS
    <3>2. Advance(AtHeader, v)
      BY <2>5, <3>1 DEF VerifySeek
    <3>3. /\ v.pc = "header" /\ v.ino = ver.ino /\ v.key = ver.key /\ v.shared = ver.shared
          /\ v.prev = ver.prev /\ v.cum = ver.cum /\ v.ts = ver.ts /\ v.off = AtHeader
      BY <2>1, <3>1 DEF Verifier
    <3>4. ver.prev = <<>> /\ ver.cum = <<>> /\ ver.ts = 0
      BY <2>1, <2>5 DEF VerifySeek, Checking
    <3>5. ver' = v /\ VerifyPos' = AtHeader
      BY <2>4, <3>2, <3>3 DEF VerifyPos
    <3> QED BY <1>1, <2>2, <2>4, <3>2, <3>3, <3>4, <3>5 DEF Checking
  <2>7. CASE VerifyHeader
    <3>1. VerifyPos = AtHeader
      BY <2>1, <2>7 DEF VerifyHeader, Checking
    <3>2. HeaderRead(f.base) \/ Advance(0, [pc |-> "invalid"])
      BY <2>7, <3>1 DEF VerifyHeader
    <3>3. CASE HeaderRead(f.base)
      <4>1. PICK v : v = [ver EXCEPT !.pc = "read", !.off = 0, !.seq = f.base]
        OBVIOUS
      <4>2. Advance(0, v)
        BY <3>3, <4>1 DEF HeaderRead
      <4>3. /\ v.pc = "read" /\ v.ino = ver.ino /\ v.key = ver.key /\ v.shared = ver.shared
            /\ v.prev = ver.prev /\ v.cum = ver.cum /\ v.seq = f.base /\ v.ts = ver.ts
            /\ v.off = 0
        BY <2>1, <4>1 DEF Verifier
      <4>4. ver.prev = <<>> /\ ver.cum = <<>> /\ ver.ts = 0
        BY <2>1, <2>7 DEF VerifyHeader, Checking
      <4>5. Follows(v, f, 0)
        <5>1. f.base \in Nat /\ LastHash(f, 0) = <<>> /\ Hashes(f, 0) = <<>>
          BY <2>1 DEF File, LastHash, Hashes
        <5>2. f.base = f.base + 0
          BY <5>1
        <5> HIDE DEF f
        <5> QED BY <2>3, <4>3, <4>4, <5>1, <5>2 DEF Follows
      <4>6. ver' = v /\ VerifyPos' = 0 /\ VerifyPos' # AtHeader
        <5>1. ver' = v /\ (ver.shared => st'.pos = 0)
          BY <2>4, <4>2
        <5>2. ver' = v /\ VerifyPos' = 0
          BY <4>3, <5>1 DEF VerifyPos
        <5> QED BY <5>2 DEF AtHeader
      <4> QED BY <1>1, <2>2, <2>4, <4>2, <4>3, <4>5, <4>6 DEF Checking
    <3>4. CASE Advance(0, [pc |-> "invalid"])
      <4>1. ver' = [pc |-> "invalid"]
        BY <2>4, <3>4
      <4> QED BY <4>1, NotChecking DEF Running
    <3> QED BY <3>2, <3>3, <3>4
  <2>6. CASE VerifyRead
    <3> DEFINE p == VerifyPos
               e == f.frames[p + 1]
               v == [ver EXCEPT !.off = p + 1, !.prev = ComputeHash(e),
                                !.cum = Append(ver.cum, ComputeHash(e)),
                                !.seq = ver.seq + 1, !.ts = e.c.ts, !.count = ver.count + 1]
    <3>1. ver'.pc \in Running => Advance(p + 1, v) /\ p < n
      BY <2>3, <2>4, <2>6 DEF VerifyRead, Running
    <3>2. p \in Nat
      <4>1. p \in Offset
        BY <2>1 DEF VerifyPos, Verifier, Handle
      <4>2. p # AtHeader
        BY <2>1, <2>6 DEF Checking, VerifyRead
      <4> QED BY <4>1, <4>2 DEF Offset
    <3>3. /\ v.pc = "read" /\ v.ino = ver.ino /\ v.key = ver.key /\ v.shared = ver.shared
          /\ v.prev = ComputeHash(e) /\ v.cum = Append(ver.cum, ComputeHash(e))
          /\ v.seq = ver.seq + 1 /\ v.ts = e.c.ts /\ v.off = p + 1
      BY <2>1, <2>6 DEF Verifier, VerifyRead
    <3>4. PICK r : r = p
      OBVIOUS
    <3>5. PICK w : w = v
      OBVIOUS
    <3>6. /\ Follows(ver, f, r) \/ r >= n \/ ~InOrder(f, n)
      BY <2>1, <2>6, <3>4 DEF Checking, VerifyRead
    <3>7. r < n /\ Follows(ver, f, r) => Follows(w, f, r + 1)
      <4> HIDE DEF f, p, v
      <4> QED BY <2>1, <3>2, <3>3, <3>4, <3>5, FollowsNext
    <3>8. ver'.pc \in Running => /\ ver' = w /\ VerifyPos' = r + 1
      <4>1. Advance(r + 1, w) => ver' = w /\ (ver.shared => st'.pos = r + 1)
        BY <2>4
      <4>2. w.shared = ver.shared /\ w.off = r + 1
        BY <3>3, <3>4, <3>5
      <4>3. ver'.pc \in Running => Advance(r + 1, w)
        BY <3>1, <3>4, <3>5
      <4> HIDE DEF v, p
      <4> QED BY <4>1, <4>2, <4>3 DEF VerifyPos
    <3>9. SUFFICES ASSUME ver'.pc \in Running PROVE Checking'
      BY NotChecking
    <3>10. /\ Follows(w, f, r + 1) \/ r + 1 >= n \/ ~InOrder(f, n)
           /\ r + 1 # AtHeader
      <4>1. r \in Nat
        BY <3>2, <3>4
      <4> QED BY <2>3, <3>1, <3>4, <3>6, <3>7, <3>9, <4>1 DEF AtHeader
    <3>11. st'.ino = st.ino /\ st'.key = st.key
      BY <2>4, <3>1, <3>9
    <3> HIDE DEF v, p
    <3> QED BY <1>1, <2>2, <3>3, <3>5, <3>8, <3>9, <3>10, <3>11 DEF Checking
  <2> QED BY <1>3, <2>5, <2>6, <2>7 DEF VerifyStep
<1> QED BY <1>2, <1>3

\* A verifier whose clone the object has left behind keeps its place.
LEMMA DetachChecking ==
    ASSUME IInv, Checking, NEW p, ver' = Detached(p), Beside => p = st.pos,
           ver.pc \in Running => /\ files'[ver.ino] = files[ver.ino]
                                 /\ ver.ino \notin {st'.ino, path'}
    PROVE  Checking'
<1>1. CASE ver.pc \notin Running
  BY <1>1, NotChecking DEF Detached
<1>2. CASE ver.pc \in Running
  <2>1. ver \in Verifier
    BY <1>2 DEF IInv, TypeOK, Verdicts, Running
  <2>2. /\ SameCheck(ver', ver) /\ ~ver'.shared
        /\ ver'.off = IF ver.shared THEN p ELSE ver.off
    BY <1>2, <2>1 DEF Detached, SameCheck, Verifier
  <2>3. VerifyPos' = VerifyPos
    BY <1>2, <2>2 DEF VerifyPos, Beside
  <2> QED BY <1>2, <2>2, <2>3, Undisturbed
<1> QED BY <1>1, <1>2

\* A truncation is beside no verification of the object's file.
LEMMA TruncateChecking ==
    ASSUME IInv, Checking, NEW before \in Nat,
           Truncate(before) \/ TruncateReopenError(before)
    PROVE  Checking'
<1> DEFINE n == Len(files[st.ino].frames)
<1>1. PICK cs : files' = Append(files, Compacted(before, cs)) /\ path' = Len(files) + 1
  BY DEF Truncate, TruncateReopenError, TruncateRead, TruncateReadNotReopened, TruncateDone
<1>2. /\ st.open /\ st \in Handle /\ Len(files) \in Nat /\ files \in Seq(File) /\ ~Beside
  BY InodesExist DEF IInv, Truncate, TruncateReopenError, Exclusive
<1>3. \A i \in 1..Len(files) : files'[i] = files[i] /\ i # Len(files) + 1
  <2> HIDE DEF n
  <2> QED BY <1>1, <1>2
<1>4. ver.pc \in Running => ver.ino \in 1..Len(files)
  BY DEF IInv, TypeOK
<1>5. \/ ver' = Detached(n) /\ st'.ino = Len(files) + 1
      \/ ver' = ver /\ st'.ino = st.ino
  BY <1>2 DEF Truncate, TruncateReopenError, TruncateRead, TruncateReadNotReopened,
              TruncateDone, AfterTruncate, Handle
<1>6. ver.pc \in Running => ver.ino \notin {st.ino, path}
  BY <1>2 DEF Checking, Beside
<1>7. CASE ver' = Detached(n) /\ st'.ino = Len(files) + 1
  BY <1>1, <1>2, <1>3, <1>4, <1>7, DetachChecking
<1>8. CASE ver' = ver /\ st'.ino = st.ino
  <2>1. CASE ver.pc \notin Running
    BY <1>8, <2>1, NotChecking
  <2>2. CASE ver.pc \in Running
    <3>1. VerifyPos' = VerifyPos /\ ~ver.shared
      BY <1>2, <1>8, <2>2 DEF VerifyPos, Beside
    <3> QED BY <1>1, <1>3, <1>4, <1>6, <1>8, <2>2, <3>1, Undisturbed DEF SameCheck
  <2> QED BY <2>1, <2>2
<1> QED BY <1>5, <1>7, <1>8

\* A rotation leaves a verification on the file that became the archive.
LEMMA RotateChecking ==
    ASSUME IInv, Kept, Checking, RotateStep, ~RotateRenameError
    PROVE  Checking'
<1>1. /\ files \in Seq(File) /\ Len(files) \in Nat /\ path \in 0..Len(files)
      /\ ver.pc \in Running => st.open /\ ver.ino \in 1..Len(files)
  BY InodesExist DEF IInv, TypeOK, Threads
<1>2. CASE \E ts \in Times : RotateRename(ts)
  <2>1. /\ st.open /\ files' = SyncFile(st.ino) /\ path' = 0 /\ st' = st /\ ver' = ver
    BY <1>2 DEF RotateRename
  <2>2. CASE ver.pc \notin Running
    BY <2>1, <2>2, NotChecking
  <2>3. CASE ver.pc \in Running
    <3>1. ReadsAs(files'[ver.ino], files[ver.ino])
      BY <1>1, <2>1, <2>3, SyncStep DEF IInv
    <3>2. ~ver.shared => ver.ino \notin {st.ino, path}
      BY <2>3 DEF Checking
    <3>3. ver.ino # 0 /\ VerifyPos' = VerifyPos
      BY <1>1, <2>1, <2>3 DEF VerifyPos
    <3> QED BY <2>1, <2>3, <3>1, <3>2, <3>3, Undisturbed DEF SameCheck, ReadsAs
  <2> QED BY <2>2, <2>3
<1>3. CASE RotateCreate \/ RotateCreateError \/ \E max \in 0..Cardinality(archives) : PruneArchives(max)
  <2>1. /\ files' = files \/ files' = Append(files, EmptyFile)
        /\ path' = path \/ path' = Len(files) + 1
        /\ ver' = ver
    BY <1>3 DEF RotateCreate, RotateCreateError, PruneArchives
  <2>2. CASE ver.pc \notin Running
    BY <2>1, <2>2, NotChecking
  <2>3. CASE ver.pc \in Running
    <3>1. st \in Handle
      BY <1>1, <2>3, InodesExist DEF IInv
    <3>2. st'.ino = st.ino /\ st'.key = st.key /\ st'.pos = st.pos
      BY <1>3, <3>1 DEF RotateCreate, RotateCreateError, PruneArchives, Handle
    <3>3. files'[ver.ino] = files[ver.ino] /\ ver.ino # Len(files) + 1
      BY <1>1, <2>1, <2>3
    <3>4. ~ver.shared => ver.ino \notin {st.ino, path}
      BY <2>3 DEF Checking
    <3>5. VerifyPos' = VerifyPos
      BY <2>1, <3>2 DEF VerifyPos
    <3> QED BY <2>1, <2>3, <3>2, <3>3, <3>4, <3>5, Undisturbed DEF SameCheck
  <2> QED BY <2>2, <2>3
<1>4. CASE RotateHeader \/ RotateHeaderError
  <2>1. /\ op = "created" /\ path' = path /\ ver' = Detached(st.pos)
        /\ \E g : files' = [files EXCEPT ![path] = g]
    BY <1>4 DEF RotateHeader, RotateHeaderError
  <2>2. st \in Handle
    BY <2>1, InodesExist DEF IInv, Threads
  <2>3. st'.ino = path
    BY <1>4, <2>2 DEF RotateHeader, RotateHeaderError, Rotated, Handle
  <2>4. path # st.ino
    BY <2>1 DEF Kept, Rotating
  <2>5. ver.pc \in Running => ver.ino # path
    BY <2>4 DEF Checking
  <2>6. ver.pc \in Running => files'[ver.ino] = files[ver.ino]
    BY <1>1, <2>1, <2>5
  <2> QED BY <2>1, <2>3, <2>5, <2>6, DetachChecking
<1> QED BY <1>2, <1>3, <1>4 DEF RotateStep

LEMMA VerifyInit == Init => VerifyInv
  BY LossInit DEF VerifyInv, Init, Idle, Running, Checking

\* Every step keeps a verification on the right course, or is a lapse.
LEMMA VerifyKept == VerifyInv /\ [Next]_vars => VerifyInv'
<1> SUFFICES ASSUME VerifyInv, [Next]_vars, lapse' = {} PROVE Checking'
  BY LossStep DEF VerifyInv
<1>1. lapse = {} /\ IInv /\ Kept /\ Kept' /\ Checking
  BY LossStep, LapsesStay DEF VerifyInv, LossInv
<1>2. CASE UNCHANGED vars
  BY <1>1, <1>2 DEF vars, Checking, Follows, VerifyPos
<1>3. CASE Lifecycle
  <2>1. CASE Close \/ Flush
    BY <1>1, <2>1, CallChecking
  <2>2. CASE ~(Close \/ Flush)
    <3>1. ver' = ver /\ (st = NoWal \/ ver.pc \notin Running)
      BY <1>3, <2>2 DEF Lifecycle, OpenCreate, OpenExisting, OpenRejected, Drop, vars
    <3>2. ver.pc \notin Running
      BY <1>1, <3>1 DEF IInv, Threads, NoWal
    <3> QED BY <3>1, <3>2, NotChecking
  <2> QED BY <2>1, <2>2
<1>4. CASE AppendStep
  BY <1>1, <1>4, AppendChecking DEF AppendStep
<1>5. CASE VerifyStep
  BY <1>1, <1>5, VerifyChecking
<1>6. CASE RecoverStep
  <2>1. ~RecoverSyncError
    BY DEF RecoverSyncError
  <2>2. ~RecoverTruncate
    <3> SUFFICES ASSUME RecoverTruncate PROVE FALSE
      OBVIOUS
    <3> DEFINE f == files[st.ino]
    <3>1. st.open /\ f \in File /\ Valid(f, st.key, Len(f.frames))
      BY <1>1, InodesExist DEF RecoverTruncate, CanRecover, IInv, Kept, ObjectSound
    <3>2. PICK n \in 1..(Len(f.frames) - 1) :
            StrictStops(f, st.key, n) /\ lapse' = lapse \cup ClockStep(f, n)
      BY DEF RecoverTruncate
    <3>3. n < Len(f.frames) /\ n + 1 \in 1..Len(f.frames)
      BY <3>1, <3>2, IntactBounds
    <3>4. FrameOK(f, st.key, n + 1)
      BY <3>1, <3>3 DEF Valid
    <3> QED BY <3>2, <3>3, <3>4 DEF ClockStep
  <2> QED BY <1>1, <1>6, <2>1, <2>2, CallChecking DEF RecoverStep
<1>7. CASE TruncateStep
  <2>1. 0..(MaxSeq + 1) \subseteq Nat
    BY WalConstants
  <2> QED BY <1>1, <1>7, <2>1, TruncateChecking DEF TruncateStep
<1>8. CASE TruncateFails \/ RotateRenameError
  BY <1>1, <1>8, CallChecking
<1>9. CASE RotateStep /\ ~RotateRenameError
  BY <1>1, <1>9, RotateChecking
<1>10. CASE Crash
  BY <1>10, NotChecking DEF Crash, Idle, Running
<1>11. CASE CrashInOpen
  <2>1. ver' = ver /\ ver.pc \notin Running
    BY <1>1, <1>11 DEF CrashInOpen, NoWal, IInv, Threads
  <2> QED BY <2>1, NotChecking
<1>12. ~BesideStep
  BY <1>1, BesideLapses
<1> QED BY <1>2, <1>3, <1>4, <1>5, <1>6, <1>7, <1>8, <1>9, <1>10, <1>11, <1>12 DEF Next

\* verify() accepts no file that open would cut and rejects none but for a clock
\* that stepped, whatever append and rotate do to the file and to the offset it
\* shares while it reads without the lock, and whatever else is called once the
\* object has left that file.
THEOREM VerdictsAreRight == Spec => VerdictIsRight
<1>1. VerifyInv /\ [Next]_vars =>
        ((lapse' = {} /\ ver.pc = "read") =>
          LET f == files[ver.ino] IN
          /\ ver'.pc = "valid" => Valid(f, ver.key, Len(f.frames))
          /\ ver'.pc = "invalid" => ~InOrder(f, Len(f.frames)))
  <2> SUFFICES ASSUME VerifyInv, [Next]_vars, lapse' = {}, ver.pc = "read"
               PROVE  LET f == files[ver.ino] IN
                      /\ Valid(f, ver.key, Len(f.frames))
                      /\ ver'.pc = "invalid" => ~InOrder(f, Len(f.frames))
    OBVIOUS
  <2> DEFINE f == files[ver.ino]
             n == Len(f.frames)
  <2>1. Checking /\ IInv /\ Kept /\ ver.pc \in Running
    BY LapsesStay DEF VerifyInv, LossInv, Running
  <2>2. ver \in Verifier
    BY <2>1 DEF IInv, TypeOK, Verdicts, Running
  <2>3. /\ f \in File /\ ver.key \in Keys /\ Valid(f, ver.key, n) /\ st \in Handle
    BY <2>1, <2>2, InodesExist DEF Checking, IInv, TypeOK, Threads, Verifier
  <2>4. ver'.pc = "invalid" => ~InOrder(f, n)
    <3> SUFFICES ASSUME ver'.pc = "invalid", InOrder(f, n) PROVE FALSE
      OBVIOUS
    <3>1. VerifyRead
      <4>1. ver'.pc # ver.pc /\ ver' # ver /\ ver' # Idle
        BY DEF Idle
      <4>2. \A p : ver' # Detached(p)
        BY <2>2, <4>1 DEF Detached, Verifier
      <4>3. ~(VerifyBegin \/ VerifySeek \/ VerifyHeader) /\ ~BesideStep
        BY <2>1, BesideLapses DEF VerifyBegin, VerifySeek, VerifyHeader, Running
      <4>4. ~(Lifecycle \/ AppendStep \/ Crash \/ CrashInOpen \/ TruncateFails \/ UNCHANGED vars)
        BY <4>1 DEF Lifecycle, OpenCreate, OpenExisting, OpenRejected, Drop, Close, Flush,
           AppendStep, AppendOk, AppendWriteError, AppendSyncError, Crash, CrashInOpen,
           TruncateFails, vars
      <4>5. ~RecoverStep
        BY <4>1 DEF RecoverStep, RecoverClean, RecoverRefused, RecoverTruncate,
           RecoverSyncError, TryRecoverOk, TryRecoverFails
      <4>6. ~TruncateStep
        BY <4>1, <4>2 DEF TruncateStep, Truncate, TruncateReopenError, TruncateRead,
           TruncateReadNotReopened, TruncateDone
      <4>7. ~RotateStep
        BY <4>1, <4>2 DEF RotateStep, RotateRename, RotateRenameError, RotateCreate,
           RotateCreateError, RotateHeader, RotateHeaderError, PruneArchives
      <4> QED BY <4>3, <4>4, <4>5, <4>6, <4>7 DEF Next, VerifyStep
    <3>2. PICK p : p = VerifyPos
      OBVIOUS
    <3>3. p \in Nat /\ n \in Nat /\ Whole(f) = n
      <4>1. p \in Offset /\ p # AtHeader
        BY <2>1, <2>2, <2>3, <3>2 DEF VerifyPos, Verifier, Handle, Checking
      <4>2. n \in Nat /\ Whole(f) = n
        BY <2>3, ValidReads, IntactBounds
      <4> QED BY <4>1, <4>2 DEF Offset
    <3>4. p < n /\ ~(Decodes(f.frames[p + 1]) /\ Accepts(f.frames[p + 1]))
      <4>1. \A q : ~Advance(q, [pc |-> "valid"])
        BY DEF Advance
      <4>2. \A q, v : Advance(q, v) => ver' = v
        BY DEF Advance
      <4>3. [ver EXCEPT !.off = p + 1, !.prev = ComputeHash(f.frames[p + 1]),
                        !.cum = Append(ver.cum, ComputeHash(f.frames[p + 1])),
                        !.seq = ver.seq + 1, !.ts = f.frames[p + 1].c.ts,
                        !.count = ver.count + 1].pc = "read"
        BY <2>2 DEF Verifier
      <4>4. \A q : ~Advance(q, [ver EXCEPT !.off = p + 1, !.prev = ComputeHash(f.frames[p + 1]),
                        !.cum = Append(ver.cum, ComputeHash(f.frames[p + 1])),
                        !.seq = ver.seq + 1, !.ts = f.frames[p + 1].c.ts,
                        !.count = ver.count + 1])
        BY <4>2, <4>3
      <4> QED BY <3>1, <3>2, <3>3, <4>1, <4>4 DEF VerifyRead, AtHeader
    <3>5. p + 1 \in 1..n
      BY <3>3, <3>4
    <3>6. Decodes(f.frames[p + 1])
      <4> HIDE DEF f
      <4> QED BY <2>3, <3>5, ValidReads DEF Decodes
    <3>7. Follows(ver, f, p)
      BY <2>1, <3>2, <3>3, <3>4 DEF Checking
    <3> QED BY <2>3, <3>3, <3>4, <3>6, <3>7, FollowsAccepts
  <2> QED BY <2>3, <2>4
<1> QED BY VerifyInit, VerifyKept, <1>1, PTL DEF Spec, VerdictIsRight
=============================================================================
