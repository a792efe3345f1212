# Verification of the CPoE engine

TLA+ specifications of the stateful core of this repository (Cryptographic Proof
of Effort, `crates/cpoe`), TLC instances that check them, and TLAPS proofs of
their most important properties. Paths below are relative to `crates/cpoe/src`
unless they start with `apps/`, `crates/`, `docs/` or `wiki/`.

## 1. The system

A sentinel watches an author work, records what happens in a write-ahead log and
a store, and turns it at intervals into checkpoints: hash-chained, signed with
one-time keys from a ratchet, collected in a Merkle Mountain Range and anchored
with the WritersProof service. Evidence packets are built from these records and
verified elsewhere.

| Part | State it keeps | Operations | Used by | What is hard about it | What makes it correct |
|---|---|---|---|---|---|
| Write-ahead log (`wal/`) | log file and archives; in memory the next sequence, previous hash, cumulative hasher, flags | open, append, flush, verify, recover, try_recover, truncate, rotate, close | sentinel sessions, FFI | crash at every file operation, failed calls, `verify` running beside `append`, rotation in several steps | acknowledged entries are read back; the writer agrees with its file; sequences are not reused |
| Session ratchet (`keyhierarchy/session.rs`, `recovery.rs`, `verification.rs`) | ratchet key and ordinal, signatures, sealed exports, hardware counter | start, sign, sign with counter, export, recover, end | checkpoint chain | restarts and recoveries of older exports, counters that restart | a key signs one hash; nothing signed is forgotten; evidence verifies |
| Offline queue (`writersproof/queue.rs`) | two directories with one file for each request, retry counts and backoff | enqueue, drain, discard | FFI, sentinel | overlapping drains, lost answers, timeouts, crashes between accept and remove | no request is lost before its retries are used up; accepted once; the queue that is drained empties |
| Merkle Mountain Range (`mmr/`), content and checkpoint trees (`content/mmr.rs`, `checkpoint/mmr.rs`) | node file, shared file offset, write buffer, node cache, peaks | open, append, sync, prove, verify, witness, rebuild | FFI, sentinel, checkpoint chain | order of reads and writes through one offset, cache cleared in mid-append, crash between a leaf and its parent, forests of every shape | the root commits to exactly the appended leaves; every leaf and range is provable; synced leaves survive |
| Checkpoint chain (`checkpoint/`) | list of checkpoints in each holder's memory, chain file, MAC sidecar, checkpoint tree | load with and without MAC, commit of four kinds, sign, save, verify | IPC requests, FFI, CLI | the document's lock covers a commit but neither the load before nor the save after it; crash between two renames; clock set back; a leaf stored before its checkpoint | the file is one chain and only grows; the sidecar covers it; the verifier accepts it |
| Event store (`store/`) | table of events with a hash chain and HMACs, integrity row, one archive for each day | open with verification, insert, archive | sentinel, FFI, CLI | archiving moves rows between two databases in five steps; timestamps out of order; an archive of everything | the store opens again; each event is in one place; table and archives are one chain |
| Session logs (`sentinel/helpers.rs`, `behavioral_key.rs`) | signing key that goes cold, buffer of entries waiting for it, a log for each session | focus, save, rename, start, drain | sentinel event loop, FFI | two writers of one log; buffer full; draining that fails; another key when the key returns | each entry is written once and in order |
| Sentinel sessions (`sentinel/core_session.rs`, `event_handlers.rs`) | document sessions with their counts, cached store, totals for each document, two locks | count, tick, commit, start, stop, idle end | daemon, FFI | commits of two kinds overlap; values read under one lock and used under another; lock order | keystrokes stay pending until an event covers them; totals do not shrink; no deadlock |
| IPC (`ipc/`) | connections, sequence numbers of the sealed channel, slots, rate limiter | connect, handshake, request, answer, timeout, stop | CLI, GUI, native messaging host | late answers after a timeout, messages too large to send, tasks that end in a dozen ways, shutdown | an answer belongs to its request; no slot leaks; requests and tasks end |
| Daemon (`sentinel/daemon.rs`, `apps/cpoe_cli/src/cmd_daemon.rs`) | PID file and its lock, state file, socket | start, background start, stop, cleanup | CLI, library | commands overlap; crashes leave files behind; locks belong to files and not to names | one daemon; it is found; leftovers are in nobody's way |
| Presence (`presence/`) | challenges and responses | start, issue, respond, expire | CLI | expiry against a late answer | a verdict counts each challenge once |
| Snapshots, sealed identity (`snapshot/`, `sealed_identity/`) | encrypted snapshots; sealed seed with counter | save, prune, unseal | sentinel, FFI | crash between file and row, counter rollback | an old seal is refused |
| Collaboration, jitter sessions, native messaging host (`collaboration.rs`, `jitter/`, `apps/cpoe_cli`) | contributions; sample chain; browser sessions | add, record, start, stop | FFI, CLI | ordering of samples and messages | chains verify |
| VDF, anchors, evidence, WAR, forensics, reports, identity, platform capture, other crates and applications | documents, keys of the operating system | build, parse, score, render | all | numeric and format-heavy | not a matter of state |

The last row and everything else marked `not_modelled` in `PROJECT.json` is left
out because it is input and output, formats, cryptography or statistics, which a
model would only restate.

## 2. Modules

| Module | Models |
|---|---|
| `Wal` | the log of `wal/operations.rs` with its files, failing calls and power loss |
| `KeyRatchet` | the session ratchet, its exports, recovery and the verifier of key evidence |
| `OfflineQueue` | the queue directory, the two kinds of callers, overlapping drains and the service |
| `MmrForest` | the Merkle Mountain Range as data: shape, hashes, inclusion and range proofs, verification |
| `Mmr` | the node file, the handle and the content and checkpoint callers; extends `MmrForest` |
| `ChainLog` | what a checkpoint chain promises: an append-only log that keeps what it reported |
| `CheckpointChain` | requests of the daemon and users of the library on one document's chain; implements `ChainLog` |
| `EventStore` | the table of events, its verification and its archives |
| `SessionWal` | who writes which entry to which session's log, with which key |
| `Sentinel` | counts, checkpoints and totals of a document under the sentinel's two locks |
| `Ipc` | clients, sealed connections and the server's tasks |
| `Daemon` | the processes that start, stop and are the daemon, and their files |
| `WalProofs`, `KeyRatchetProofs`, `OfflineQueueProofs`, `CheckpointChainProofs`, `EventStoreProofs`, `SentinelProofs` (also of `SessionWal`), `IpcProofs`, `DaemonProofs` | the theorems |
| `MCWal`, `MCKeyRatchet`, ... | symmetry sets and state constraints for TLC |

All modules follow one convention. Definitions keep the names of the functions
they model. History variables record what the caller was promised (`owed`,
`used`, `leaves`, `acked`, `refusals`), and a history variable `lapse` records
events after which the code is known not to keep a promise. A property names the
lapses it excludes, so each exclusion is visible; section 6 lists them.

### 2.1 Wal

`files` and `path` are the file system (a rename moves a name), `archives` the
rotated files, `st` the `WalState` behind the mutex, `op` a rotation in progress,
`ver` a verifying thread. A file is a header and a sequence of frames; a frame is
an entry, `Torn` (partly written) or `Stub`. A hash is the sequence of what was
hashed. Actions are the calls of `Wal` with one action for each way they return,
`Crash` and `CrashInOpen` for power loss; `verify` and `rotate` take several
steps because other calls can come between them.

`verify` works outside the mutex, through a `try_clone` whose offset is the
writer's, so it can stand before the header (`AtHeader`), before any frame or
behind all. `recover`, `try_recover` and `truncate` scan through such a clone too.
While no verifier shares the offset (`Exclusive`) each is one step, for they hold
the mutex. Beside a verifier a call is `ScanBegin`, any number of `OffsetMoves` and
its end (`RecoverBeside`, `TryRecoverBeside`, `TruncateBeside` or
`ScanChangesNothing`): what it accepted is any selection of the file's frames in any
order that passes its checks (`Accepted`), what the verifier meets is any offset. One
verifier is followed step by step; a second one is there as `OffsetMoves`.

Abstractions: renames are durable at once; a successful fsync makes every frame
of the file durable; an unsynced `set_len` is not undone by a crash; a failed
sync leaves the page cache readable; names of archives do not collide; payloads
matter only by being too large or not; a header that an append overwrites is one
`open` refuses; the reads and checks of one frame are one step of `verify`.

### 2.2 KeyRatchet

A key is `[base, steps]`: the session it starts from and how often it was
ratcheted. `session` is the live `Session`, `exports` the sealed recovery states
and kept evidence, `counter` the provider's monotonic counter, `used` all
signatures ever made. Hashes of checkpoints do not recur; one session is live at
a time; quotes, reset counts and the sealed counter store are left out, and calls
that refuse and change nothing have no action. `sign_chain_metadata` and
`export_recovery_state` are public and have no callers outside tests.

### 2.3 OfflineQueue

`job` is where each submitting call is, `file` and `created` the queue directories,
`waiting` the entries whose backoff has not passed, `drain` the drains under way.
There are two directories: a sync of the FFI queues in `~/.writersproof/queue`, the
only one that drains read, a checkpoint in its sentinel's data directory. The
constant `Elsewhere` has the checkpoints for which these differ, `InDefaultDir` the
entries a drain can find. Nothing serialises drains, so two may hold the same entry.
The service is external: a request is accepted, refused, or accepted with the answer
lost. A drain's 60 second limit can strike only after an answered request, because
one request is limited to 30 seconds. Listing is atomic; the clock is not set back;
crashes end the process but lose no file.

### 2.4 MmrForest and Mmr

`FileStore` reads through one `File` and writes through a `BufWriter` over its
`try_clone`; both move one offset, `h.offset`. Reading a node that is not in the
cache flushes the buffer at that offset and leaves it after the node read. The
operators of `MmrForest` list the nodes they read, in order, and `Reads` gives
what is left behind. `StoreAppend` contains the buffer spill and the automatic
sync, `Merge` and `Settle` are the iterations of the loop of `Mmr::append`. A
`MemoryStore` is a handle whose cache is never cleared. A digest is the term that
was hashed. One handle is open at a time; write errors are left out; a crash may
take any nodes that no fsync covers and leave the first of them in part.

The forest is checked against a definition from the top down (`RefPeaks`): one
perfect tree for each power of two in the number of leaves, with leaf positions
counted from the trees completed before.

### 2.5 ChainLog and CheckpointChain

`file` is the chain file, `mac` its sidecar, `hold` what each holder of the chain
does and has in memory, `mmr` the number of leaves in the
checkpoint tree. A holder is a request of the
daemon (`handle_create_checkpoint`: read the MAC, read the chain, commit, sign,
save with MAC) or a user of the library, who may also load without MAC, attach a
tree, commit entangled or RFC checkpoints and save without MAC. A checkpoint's
hash is a number given out once; the four kinds of commit differ in what the
verifier asks of them. `commit` holds the document's lock for the two steps
`Commit` and `CommitFinish` only, so loads and saves of others come between. A
save with MAC is two renames; each may fail and the process may stop between them.

`ChainLog` is the promise: `log` only grows and everything a caller was told is
saved stays in it, as long as the users of the chain take turns (`exclusive`).
`ImplementsLog` maps the hashes of the file to `log`, the answered checkpoints to
`kept` and "no two holders have overlapped" to `exclusive`.

### 2.6 EventStore

Rows are numbered by insertion, `active` is the set in the table, `integ` the
integrity row, `tmp` and `final` the archive files of each day. The hash of a row
is its number, so a link is right when `prev` is the number of the row before. The
sidecar lock admits one open handle. `archive_old_events` is split where a crash or
an error can come between: claim of the name, preparation, transaction over both
databases, promotion. `CrashInCommit` is SQLite's documented behaviour for attached
databases in WAL mode, which is not atomic across files; which database is first is
the main one.

### 2.7 SessionWal and Sentinel

Both are about a sentinel's document sessions. `SessionWal` follows the entries:
`walKey` is the `BehavioralKey`, `pending` the shared buffer, `wal` the logs, `thread`
the event loop and a caller of the FFI. A log is opened and appended to in two
steps, because nothing locks it; `Wal` has what happens inside one handle, here a
log is a list of entries with their key, and opening it with another key truncates
it, as `Wal` does.

`Sentinel` follows the counts: `session` has what was counted and what is marked as
checkpointed, `typed` and `covered` are history, `stats` is the stored total, `locks`
the holders of `sessions` and `cached_store`, `flock` the sidecar lock that the
cached store keeps for as long as it is open (`EventStore`'s `Free`), also against
the process's own event loop. Where code holds one lock and waits for the other there
are two actions, everywhere else one lock is one action. One document is enough,
since documents share only the locks. A panic in a checkpoint task and the rename of
a session's path (`sentinel/helpers.rs` 696-766) are left out.

### 2.8 Ipc

`conn` has for each connection the two byte streams, the server's sequence numbers
and where its task is; `client` the client's side. Streams lose and reorder nothing,
so what can go wrong is at the ends: a request that times out, an answer too large, a
message sealed and not sent, a daemon that stops or dies with requests under way, a
limit reached, a peer that is refused. Ciphertext is its sequence number.

### 2.9 Daemon

`proc` has the processes, each a command or a daemon at a system call; `pidFile` is
the file that bears the name, `recorded` and `locked` belong to files. `cleanup`
removes three files in three steps. A failed start goes the way the code sends it: an
error of `acquire_pid_file` or `Sentinel::new` is returned as it is (`Refuse`: only the
CLI cleans up then), one of `Sentinel::start` is followed by a cleanup (`Retreat`), a
later one by `sentinel.stop()` and a cleanup (`Halt`). At "halt" a process waits in
`sentinel.stop()` while its IPC server removes the socket's name, when it is told to
shut down and when it is dropped (`ServerStops`).

Process numbers are not reused, and so the CLI's comparison of process names before
it signals (`cmd_daemon.rs` 154-175) is left out; so are a failure to install the
signal handlers (`sentinel/daemon.rs` 538-541) and the embedded `cmd_start`, which no
program of the repository calls.

## 3. Runs

| Run | Shows | Instance |
|---|---|---|
| `wal` | nothing acknowledged is lost, the writer agrees with its file, sequences are unique, `verify` is right, and after a lapse recovery restores the writer | two types, two keys, two times, two payloads of which one is too large, four frames, two files |
| `ratchet` | keys sign once, signatures are kept, evidence verifies, exports recover | three hashes, ordinal to 3, two exports, software counter |
| `queue` | no queued request is lost; accepted twice only after a lost answer, a failed removal or an overlap; the queue that drains read empties, under fairness | one sync, one checkpoint, two drains, retry limits 2 (texts) and 1 (anchors), listing limit 1, one fault |
| `queue_elsewhere` | violated: an anchor that a checkpoint queued is retried | one drain, the checkpoint's sentinel in another data directory |
| `mmr` | the root commits to exactly the leaves, every leaf and range is provable, synced leaves survive, retries append once | four contents, up to 7 leaves, buffer of 2 nodes, automatic sync after 6, one crash |
| `chain` | the chain implements `ChainLog`; its file is one chain whatever collides; sidecar and verdict fail only after their lapses | two requests and a user, two commits, clock at 0 or 2, one fault |
| `store` | the store opens again, each event is in one place, table and archives are one chain | two handles, two keys, five events, three days, two faults |
| `session_wal` | no entry is written twice, none is lost or out of order but by a named lapse | two documents, two sessions of two entries, buffer of two, one derived key, one fault |
| `sentinel` | keystrokes stay pending until covered, totals do not shrink, a deadlock involves `stop_witnessing` | two callers and the loop, two keystrokes, two sessions, one fault |
| `sentinel_deadlock` | violated: the documented lock order rules out deadlock | the same |
| `ipc` | answers belong to requests, the channel desynchronises only after a refused message, slots match tasks; requests and tasks end | two clients of which one is refused, two connections, one slot, three requests, one stop |
| `daemon` | one daemon, found by its files; nothing is left behind and leftovers block nobody; commands end, also if a daemon never leaves `sentinel.stop()` | three processes, one fault |

Why the bounds are enough. The log needs one rotation, one torn frame and entries
before and after each: two files and four frames hold them. The ratchet needs an
export that is older, equal and newer than the last signature, which two exports and
three ordinals give. A drain conflict needs two drains and one entry; the two anchors
exceed the listing limit of 1; an entry that one drain discards at its retry limit is
written back by the other one from a limit of 1 on, and its retry count is set back
below the limit by an older copy from a limit of 2 on, which the texts have. Two
failed file operations in one behaviour are left to the safety theorems; for them
`QueueDrains` is not checked. A second directory is in `queue_elsewhere`. Seven leaves give forests of one,
two and three trees; the buffer spills and the automatic sync falls in mid-append
several times below that. A chain collision needs two requests that load the same
file, a torn save followed by a load needs one fault, and a clock at 0 and 2 is on
either side of the drift of both `commit` and the verifier. Five events in two ages
give every arrangement of old rows before, between and after young ones, and three
days two archives with a retry. A buffer of two overflows with two sessions of two
entries. Two keystrokes are one before and one after a hash; two sessions let a save
meet the next session; the third task is the one that closes a cycle. One slot and
two connections reach the limit; a sequence maximum of 7 runs out on one connection.
Three processes are a daemon that stops, a second command and a start, and one of
them crashes or fails to start.

Deadlock is not checked where the instance ends at a bound or where processes end,
and for the tree, where a torn file cannot be opened again.

State constraints. Behind a lapse most properties claim nothing. `SmallAfterLapse`
(`wal`) goes on after one kind of lapse in a one-file log of two plain frames, for
what recovery still owes and, with the verifier running, what a scan beside it does;
`OneLapse` (`chain`, `ratchet`, `session_wal`) goes on until a second lapse, or with
fewer users; `ShortAfterLapse` follows a damaged tree for three leaves; `BeforeLapse`
and `UntilDeadlock` (`sentinel`) stop.

Fairness. `queue`: every drain takes its next step (it runs on an executor), a drain
is started again and again (the application calls the drain entry point while it is
online), and backoff windows pass. No fairness is put on the service: it may refuse
everything, and the retry limit empties the queue. `ipc`: a client's next reaction
(it reads what is there, or its timeout fires: both are timers or readiness of the
runtime) and a task's next step (it is polled, and its timeouts fire). None is put on
clients asking, on the handler returning, or on a client that stalls in the two
places where the server reads without a limit. `daemon`: the operating system
schedules every process. None is put on commands being given, and none on
`SentinelStops`, for `sentinel.stop()` waits without limit for `sessions`
(`sentinel/core.rs:724`, 846), `cached_store` (921) and the bridge threads (828-831),
and `sentinel_deadlock` shows that the two locks can be held for ever.

## 4. Proofs

| Theorem | Statement |
|---|---|
| `WalProofs!TypeCorrect` | `Spec => []TypeOK` |
| `WalProofs!RecoveryRestores` | open always gives a writer that agrees with its file, recover and try_recover while no verification shares their offset |
| `WalProofs!AckedIsKept` | what `append` acknowledged stays readable, but for twelve lapses |
| `WalProofs!WriterAgrees` | a consistent object is where a replay of the log would put it, with the same exceptions |
| `WalProofs!SequencesStayUnique` | log and archives never share a sequence number, with the same exceptions |
| `WalProofs!VerdictsAreRight` | `verify` is wrong about no file, with the same exceptions (one is a scan beside it) |
| `KeyRatchetProofs!RatchetTypeCorrect` | `Spec => []TypeOK` |
| `KeyRatchetProofs!KeysSignOnce` | no key signs two hashes, unless a stale export was recovered |
| `KeyRatchetProofs!SignaturesSurvive` | a live session lists everything signed under it, with the same exception |
| `KeyRatchetProofs!ExportsRecover` | every sealed export recovers, unless chain metadata was signed |
| `KeyRatchetProofs!EvidenceIsVerifiable` | the verifier accepts every session's evidence, without metadata signatures and counter restarts |
| `OfflineQueueProofs!QueueTypeCorrect` | `Spec => []TypeOK` |
| `OfflineQueueProofs!QueueLosesNothing` | any number of drains loses no queued request |
| `OfflineQueueProofs!QueueSubmitsOnce` | nothing is accepted twice, without a lost answer, a failed removal or an overlap of drains |
| `CheckpointChainProofs!ChainTypeCorrect` | `Spec => []TypeOK` |
| `CheckpointChainProofs!FileStaysLinked` | the chain file is one hash chain with consecutive ordinals, whatever collides or fails |
| `CheckpointChainProofs!ChainImplementsLog` | `Spec => Log!Spec`: the chain implements `ChainLog` |
| `CheckpointChainProofs!SidecarCovers` | between saves the sidecar covers the file, but for its lapses |
| `CheckpointChainProofs!SavedChainVerifies` | the verifier accepts a signed chain, but for its lapses |
| `EventStoreProofs!StoreTypeCorrect` | `Spec => []TypeOK` |
| `EventStoreProofs!StoreStaysVerifiable` | the store opens again with its key until an archive empties it |
| `EventStoreProofs!RowsKeptOnce` | each event is in exactly one place, unless rows were stranded or split off |
| `EventStoreProofs!HistoryStaysOneChain` | table and archives are one chain |
| `SentinelProofs!SentinelTypeCorrect` | `Spec => []TypeOK` (the proof module's own, with the records of every task) |
| `SentinelProofs!KeystrokesAreNotForgotten` | what no event covers is pending or claimed by a commit under way, but for four lapses |
| `SentinelProofs!TotalsAreKept` | a document's total never falls below what it was when the session began, but for two lapses |
| `SentinelProofs!DeadlocksNeedAStop` | a deadlock over the two locks has `stop_witnessing` in it, always |
| `SentinelProofs!LogsTypeCorrect` | `WalSpec => []WalTypeOK` for `SessionWal`, the buffer within its bound |
| `SentinelProofs!EntriesStayOnce` | every recorded entry is in exactly one place, its log in the end, but for six lapses |
| `SentinelProofs!LogsStayInOrder` | a session's log has its entries in the order of their events, but for `overtaken` |
| `IpcProofs!IpcTypeCorrect` | `Spec => []TypeOK`, sequence numbers within their width |
| `IpcProofs!SlotsAreReturned` | the counter of connections is the number of connection tasks |
| `IpcProofs!AnswersAreMatched` | an accepted answer is the answer to the request just sent |
| `IpcProofs!ServerStaysInStep` | the server meets a wrong sequence number only after its client sealed what it did not send |
| `DaemonProofs!DaemonTypeCorrect` | `Spec => []TypeOK` (the proof module's own) |
| `DaemonProofs!LockKeepsDaemonsApart` | one daemon, until a cleanup unlinks a PID file somebody has open |
| `DaemonProofs!StopFindsDaemon` | commands given in turn find the daemon by its files, also after crashes |
| `DaemonProofs!CleanupsLeaveNothing` | without overlap, crash and a failed start that keeps its PID file (`kept`) nothing outlives the last process |
| `DaemonProofs!StartsPastLeftovers` | a start that overlaps nothing is not stopped by leftovers |

They hold for every value of the constants, under the named `ASSUME`s of the
modules (bounds are naturals, sets are finite, kinds of jobs are disjoint). TLC
evaluates these assumptions in every run.

*Wal.* The inductive invariant adds to `TypeOK` what each thread remembers of the
file it works on (`Threads`). `RecoveryRestores` is an action property: it follows
because each recovering call computes its state by the same scan of the file that
defines agreement. The four theorems about losses share `LossInv`, which says
something only while `lapse` is empty. `NothingAckedIsLost` alone is not inductive: a
step reads what an object believes and what a file's header says. So `ObjectSound`
says that the file an object has open is valid to its last frame, also when the
object is inconsistent (a failed sync leaves a whole frame behind), and
`ObjectAgrees` that a consistent object is where a replay would leave it, from which
the next append continues the chain. `LinkedSound` has the same of archives, up to
the torn frame a crash may leave, and `Headed` that a header which may vanish in a
crash has no synced frames behind it. For the sequence numbers, `Ahead` puts every
archive before the log's base and before the base a rotation under way is about to
write, and `Apart` keeps archives disjoint: a truncation's new base and a rotation's
`next_sequence` are then past everything archived. `VerdictIsRight` needs `Checking`
besides, because `verify` reads outside the mutex at an offset the object shares: a
verifier that is about to read the header stands before it, and one that reads frames
either has accumulated exactly the frames before its offset (`Follows`), or has been
moved behind all frames by an append, or reads a file whose clock stepped back; once
the object has gone to another file, no call touches the one the verifier still has.
A scan beside a verifier is a lapse from its first step (`BesideLapses`), and
`Rotating` says that there is none under way while no lapse has happened.

*KeyRatchet.* `OneHashPerKey` is not inductive: a recovered session could sign with
the key of a signature made after the export. `KInv` therefore places everything
on one line of ordinals: `RatchetAt` ties the key of each session to an ordinal,
`UsesPlaced` and `ExportsPlaced` say that signatures and exports lie on it,
`UsesAhead` that a live session has passed all uses unless a stale export was
recovered, and `OrdinalsFollow` that its list is gapless. `EvidenceInv` adds the
counters.

*OfflineQueue.* A drain holds a copy of an entry while another drain may change or
remove the file, so `QueuedIsNotLost` needs that every copy on file
(`FilesCounted`), in a listing (`ListedCounted`) and in hand (`HeldRight`) has a
retry count no larger than the number of failed submissions. `AcceptedOnce` needs a
second invariant, which holds while `lapse` is empty: a request that its own call has
yet to send was not accepted and has no file (`DirectFirst`), a file belongs to a
request not accepted yet or to the entry a drain has just submitted and is going to
remove, and what the one drain under way still has to send was not accepted.

*CheckpointChain.* The file comes from a copy in memory, so every copy is linked
too. For the refinement, while nobody has overlapped at most one holder is active,
and its copy extends the file: a save then extends the log. That the file verifies
needs, for each copy, that its clock, its signatures and its tree leaves agree with
the checkpoints of the copy unless the lapse that breaks them is recorded.

*EventStore.* `Suffix` says that the table is an interval of row numbers that ends
at the last row, which is what `Continues` guarantees of every archive; `Counted`
and `Linked` make the integrity row and the links agree with it, `Handles` ties an
open handle's last hash to the last row, `Planned` says that what a claimed archive
job found still holds when it is carried out (nobody else has the store open).
`Filed`, `Placed` and `Older` then follow the rows through the files.

*Sentinel.* `NothingIsForgotten` compares the mark with what events cover, and a mark
that is ahead is right only if whoever moved it there is going to cover the
difference or to give it back. `Answered` names that caller, `Claims` says that giving
back makes keystrokes pending again (a claim is larger than the mark before it),
`Seen` that the tick has covered what it is about to mark. `Saves` follows a total
from the lock under which it was computed to the one under which it is stored.
`StuckOnlyBehindStop` follows from `LocksHeld`: only a co-signature waits for the
store with `sessions` in hand, and only a stop keeps the store over a step. The first
attempt at `Seen` failed, rightly: the model's tick dropped the count it had read
before it marked, so that every mark counted as late and the property was excused.
The tick keeps it now, as `event_handlers.rs` does, and the totals no longer need the
lapse `rejected` as an excuse.

*SessionWal.* Its theorems stand in the second half of `SentinelProofs`, which extends
both modules; that is why the names of `SessionWal` (`WalSpec`, `sessionOf`, `MaxLogs`)
differ from those of `Sentinel`. Its assumption is that bounds are naturals, with room
for one entry, one key and one waiting entry. An entry wanders from the handler's hands into the buffer, with a
drained batch into the hands of a thread, and into the log. `Once` says that these
lists share nothing, hold nothing twice and nothing that was not recorded; `Complete`
that together they hold everything recorded, as long as no lapse but `overtaken` has
happened; `InTurn` that the log's entries precede those in a thread's hands and these
the ones in the buffer, and that two threads never hold entries of one session, until
an entry has overtaken others. `EachEntryOnce` follows from the first two,
`LogsInOrder` from the third. Each handler is one of eight moves of entries
(`NothingMoved`, `BufferDrained`, `EntryHanded`, ...), for which the three are
proved once. `Known` is needed because a handler looks up the entries of the session
that a path has.

*Ipc.* The properties speak of what was received or refused, the invariant of what is
under way. `ConnOK` places the numbers of the messages in the stream to the server:
the i-th one is i past a base the server's own counter gives, unless the connection
is burnt (a message was sealed and not sent). `ClientOK` says the same of the
client's counter, and `InStep` that a client that could open every answer so far has
at most one request out, which is therefore what the next answer is to. The proof
needs the bounds of `IpcAssumption`: the handshake alone takes two numbers, so a
maximum below 3 would overflow before the first request.

*Daemon.* Three situations, three invariants. However commands overlap, a lock is
held by one live process, and all who have a PID file open have the same one until
somebody unlinks it (`SameFile`). Without overlap a start is alone from its first
look on, and a stop is only ever beside the daemon it stops, at work or in
`sentinel.stop()` (`Solo`), so what a start put in place stays there (`InPlace`).
Without crashes and `kept` whatever is there has somebody who is going to remove it,
its own cleanup after `sentinel.stop()` included (`Owed`).

Only model-checked: liveness (`QueueDrains`, `RequestsEnd`, `TasksEnd`,
`CommandsEnd`), which is out of the prover's reach, and the five properties of `Mmr`, which speak of
what the recursive definitions of `MmrForest` compute for every size: induction over
data, which the provers cannot do.

## 5. Disagreements between code and documentation

Two runs show one each. `sentinel_deadlock`: the documentation of `Sentinel`
(`sentinel/core.rs` 91-98) gives a lock order that prevents deadlocks; in
`stop_witnessing` the guard of `cached_store` is held (`core_session.rs:543`) while
`sessions` is taken (545), and `update_baseline` locks `cached_store` again on the
same thread (671). TLC's shortest behaviours are a stop beside a co-signature, and a
stop alone once ten keystrokes are accumulated.

`queue_elsewhere`: the doc comment of `submit_to_writersproof_anchor`
(`sentinel/helpers.rs:2039`) says that a failed request is queued "for later retry".
It goes to `queue` in the sentinel's data directory (2089), while the only drain there
is reads `~/.writersproof/queue` (`ffi/writersproof_ffi.rs:496`,
`writersproof/queue.rs:41`). The two are the same where the data directory is
`~/.writersproof`, as it is by default for the CLI on Linux (`config/defaults.rs` 5-25);
the default of `SentinelConfig` (`config/types.rs` 374-392) and that of the applications
(`utils/mod.rs` 89-101) are others.

The following properties state what the code or its documents say and do not hold
either; they are definitions of their modules, and checking one as an invariant (or a
property, for the action formulas) shows the behaviour.

| Property | Place | In short |
|---|---|---|
| `Mmr!AppendsNeverOverwrite` | `mmr/store.rs:97` | reads move the offset the writer shares; the next flush overwrites nodes. A file-backed text of two segments cannot be witnessed |
| `Wal!WriteErrorsLoseNothing` | `wal/operations.rs:138` | a failed write leaves the hasher advanced |
| `Wal!VerifyIsReadOnly` | `wal/operations.rs:196` | `verify` moves the offset `append` writes at, and that of a scan beside it, against "so the read-only scan doesn't disturb the write position" (519): acknowledged entries are overwritten or cut |
| `KeyRatchet!UniqueKeys` | `keyhierarchy/recovery.rs:150` | nothing refuses an export older than the last signature |
| `OfflineQueue!QueuedAnchorsAreSigned` | `sentinel/helpers.rs:2091` | the anchor a checkpoint queues has no signature |
| `Daemon!AtMostOneDaemon` | `apps/cpoe_cli/src/cmd_daemon.rs:42` | cleanup unlinks the PID file unconditionally, also one another daemon has locked (comment at `sentinel/daemon.rs` 162-164) |
| `SessionWal!HotKeyIsAuthorized` | `sentinel/behavioral_key.rs:65` | a keystroke revives a locked key without authorization, as a different derived key |

## 6. Lapses: where promises are known to end

Each is an event of the code after which the named properties claim nothing.

- `Wal`: a write error (`write_error`, see `WriteErrorsLoseNothing`); a write
  elsewhere than at the end, over a frame or over the header, because `verify` or a
  refused call left the offset there (`displaced`), and `recover`, `try_recover` or
  `truncate` beside a verification that shares their offset (`beside`; for both
  `VerifyIsReadOnly`); a rotation after a failed sync or a crash in it
  (`rotate_dirty`, `restart`: `RotationKeepsSequences`); a clock that goes back
  (`clock`: `RecoverKeepsIntactEntries`); a truncation that could not reopen its file
  (`stale`: `StaleHandleUnused`), that was given a number below the log's base, which
  the entries then do not follow (`base`), or that failed while reading and left the
  offset in mid-file (`truncate_io`); a changed key (`rekey`); an entry too large to
  be read back (`oversize`); a recovery whose sync failed after the cut
  (`recover_io`).
- `KeyRatchet`: recovery of a stale export (`UniqueKeys`), signed chain metadata,
  which advances the ordinal without a signature (`EveryExportRecovers`), a
  software counter that restarts (`CountersVerify`). `ExportCountDetectsReplay` is
  not true either: a continuation restarts the count (`recovery.rs:205`).
- `OfflineQueue`: what is queued in another directory than the drains' is never sent
  (`QueuedAnchorsAreRetried`). A lost answer, a failed removal and an overlap of two drains may
  make the service see a request twice. A queued text is never anchored, and a
  drain sends no author DID. A rename that a power loss undoes
  (`crypto.rs:327`, no sync of the directory) is not modelled.
- `Mmr`: `displaced` (a node overwritten), `unmerged` (a crash left a leaf without
  its parent; `find_peaks` cannot tell and the next append drops earlier leaves
  from the root) and `torn` (a partial node, after which no open succeeds). Two
  handles on one content file (`content/mmr.rs:54`) and one handle used by two
  threads (`mmr/mmr.rs:204`; no caller does) are not modelled.
- `CheckpointChain`: `overlap` (two holders had the chain at once: the later save
  drops the other's answered checkpoint), `torn` (chain renamed, sidecar not:
  `load_with_mac` refuses the chain from then on, although the comment at
  `chain.rs:491` says a crash cannot leave the two inconsistent), `unsealed` (a
  plain save after one with MAC), `orphan` (a leaf without a checkpoint), `clock`
  (two seconds back are committed and not verified), `mode` (a plain commit on an
  entangled chain). The daemon's own chains are unsigned under a policy that
  requires signatures, so `FileVerifies` speaks of signed ones.
- `EventStore`: `emptied` (an archive of every row: the store cannot be opened
  again), `stranded` (rows in a tmp file that the next archive of the day deletes,
  against the comment at `archive.rs:101`), `split` (power loss in the commit).
  A crash that leaves the placeholder only refuses the day's archive.
- `SessionWal`: `overflow`, `failed`, `rekeyed`, `collided`, `skipped`
  (`start_witnessing` without a key records no SessionStart), `stopped`,
  `overtaken`. The comment at `helpers.rs:964` says checkpoints drain the buffer;
  only the focus handler does.
- `Sentinel`: `rejected`, `leaked` (an early return keeps its claim, against the
  comment at `core_session.rs:214`), `crossed`, `late`, `unread`, `stale`. Also, the
  cached store's sidecar lock keeps out the event loop's own opens, so that while a
  caller's store is cached the tick stores nothing; the keystrokes stay pending.
- `Ipc`: a message that is refused for its size has used a sequence number; the
  connection is then closed at the next request. A request that timed out and is
  made again may have been carried out twice.
- `Daemon`: `overlap`, `unlinked`, `crash`, and `kept`: a start outside the CLI whose
  `Sentinel::new` fails, or whose number cannot be written after the lock
  (`sentinel/daemon.rs:442`, 192-195), leaves the PID file behind. A daemon told to stop
  may never leave `sentinel.stop()`, so `CommandsEnd` does not claim that it ends.
  Between the probe of a stale socket and
  its removal another server may bind (`ipc/server.rs:111`).

## 7. Not modelled

The map covers about a twentieth of the implementation's lines. Most of the rest
has no state that steps could leave inconsistent: analysis and scoring
(`forensics/`, `analysis/`, `fingerprint/`), document formats and rendering
(`evidence/`, `war/`, `rats/`, `report/`), the FFI's conversions, sequential
work functions (`vdf/`), operating system event sources (`platform/`, the focus
back ends), tables of applications, and the front ends. A model of them would
restate them. `PROJECT.json` gives the reason for each component.

Modelled in part only: what a component's entry lists as left out.

## 8. Plan

1. Presence challenges (expiry against a late answer), sealed identity (rollback of
   its counter) and snapshots.
2. `Mmr` with two handles on one file, and with write errors.
3. Proofs: for `Mmr`, that file, buffer and cache together hold every node until one
   is displaced.
