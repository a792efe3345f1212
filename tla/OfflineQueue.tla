---------------------------- MODULE OfflineQueue ----------------------------
(***************************************************************************)
(* The offline queue of the WritersProof client: text attestations and     *)
(* anchor requests whose first submission failed are kept as one file each *)
(* and submitted again by later drains, if they are where a drain looks.   *)
(*                                                                         *)
(* Code: crates/cpoe/src/writersproof/queue.rs; its callers                *)
(* ffi_sync_text_attestation and ffi_drain_text_attestation_queue in       *)
(* crates/cpoe/src/ffi/writersproof_ffi.rs, and                            *)
(* submit_to_writersproof_anchor in crates/cpoe/src/sentinel/helpers.rs.   *)
(*                                                                         *)
(* Nothing serialises drains: the library's drain entry point takes no     *)
(* lock and no drain knows of another, so they may overlap at every await  *)
(* and between two file operations.  The service is external.  A request   *)
(* is answered Ok, refused (or never received), or its outcome is unknown: *)
(* the service accepted it and the answer was lost.  What the service      *)
(* accepted is counted when the client stops waiting, which no client step *)
(* can tell from the moment of acceptance.                                 *)
(***************************************************************************)
EXTENDS Integers, FiniteSets

CONSTANTS Syncs,             \* calls of ffi_sync_text_attestation
          Checkpoints,       \* calls of submit_to_writersproof_anchor
          Elsewhere,         \* those of a sentinel whose data directory is not
                             \* ~/.writersproof (that of the applications is not)
          Drains,            \* threads that may drain the queue
          MaxTextRetries,    \* MAX_TEXT_RETRIES (10)
          MaxAnchorRetries,  \* MAX_ANCHOR_RETRIES (5)
          MaxListEntries,    \* MAX_LIST_ENTRIES (1000)
          MaxFaults          \* bound on file system errors and crashes

Jobs == Syncs \cup Checkpoints

\* A sync asks for a text attestation and then an anchor, a checkpoint only for
\* an anchor.  The request stands for its queue entry: the id is fresh.
Requests == [kind : {"text"}, job : Syncs] \cup [kind : {"anchor"}, job : Jobs]

ASSUME QueueAssumption ==
    /\ Syncs \cap Checkpoints = {}
    /\ Elsewhere \subseteq Checkpoints
    /\ IsFiniteSet(Jobs)
    /\ MaxTextRetries \in Nat \ {0} /\ MaxAnchorRetries \in Nat \ {0}
    /\ MaxListEntries \in Nat \ {0}
    /\ MaxFaults \in Nat

VARIABLES job,       \* where each call is, and what it told its caller
          file,      \* the queue directories: retry_count of each entry, or Absent
          created,   \* created_at of each entry, 0 before it is queued
          unsigned,  \* the entries written without the signature of the failed attempt
          waiting,   \* the entries whose backoff window has not passed
          drain,     \* the drains under way
          accepted,  \* how often the service accepted each request, 2 for more
          refusals,  \* history: submissions from the queue that failed, up to the limit
          faults,    \* file system errors and crashes so far
          lapse      \* history: what may make the service see a request twice

vars == <<job, file, created, unsigned, waiting, drain, accepted, refusals, faults, lapse>>

-----------------------------------------------------------------------------
(* Values *)

Text(s) == [kind |-> "text", job |-> s]
Anchor(j) == [kind |-> "anchor", job |-> j]

Absent == -1
Present(r) == file[r] # Absent

\* A checkpoint queues its anchor in the sentinel's data directory, a sync queues
\* in ~/.writersproof, the only directory a drain reads (default_dir).
InDefaultDir(r) == r.job \notin Elsewhere

RetryLimit(r) == IF r.kind = "text" THEN MaxTextRetries ELSE MaxAnchorRetries

JobStates == {"idle", "text", "anchor", "synced", "queued", "failed", "anchored", "dead"}

Lapses == {"unknown_outcome", "remove_failed", "overlap"}

\* An entry as a listing read it: its retry_count, and whether its backoff
\* window had passed.
Listed == [req : Requests, retry : Nat, ripe : BOOLEAN]

NoEntry == [none |-> TRUE]

\* pc: "walk" between entries; "sent" awaiting an answer; "submitted" and
\* "refused" holding one; "discard" between path.exists() and remove_file.
\* entry: the one in hand; todo: those that follow it in the loop.
\* answered: a request of this drain was answered or timed out.
DrainStates == [pc : {"idle", "walk", "sent", "submitted", "refused", "discard"},
                kind : {"text", "anchor"}, entry : Listed \cup {NoEntry},
                todo : SUBSET Listed, answered : BOOLEAN]

IdleDrain == [pc |-> "idle", kind |-> "text", entry |-> NoEntry, todo |-> {},
              answered |-> FALSE]

\* Entries are taken in the order of created_at.
First(todo, e) ==
    /\ e \in todo
    /\ \A f \in todo : created[e.req] <= created[f.req]

AcceptedOnceMore(r) == [accepted EXCEPT ![r] = IF @ = 2 THEN 2 ELSE @ + 1]

RefusedOnceMore(r) == [refusals EXCEPT ![r] = IF @ < RetryLimit(r) THEN @ + 1 ELSE @]

MayFault == faults < MaxFaults

-----------------------------------------------------------------------------
(* Direct submission, and queueing what failed *)

Init ==
    /\ job = [j \in Jobs |-> "idle"]
    /\ file = [r \in Requests |-> Absent]
    /\ created = [r \in Requests |-> 0]
    /\ unsigned = {}
    /\ waiting = {}
    /\ drain = [d \in Drains |-> IdleDrain]
    /\ accepted = [r \in Requests |-> 0]
    /\ refusals = [r \in Requests |-> 0]
    /\ faults = 0
    /\ lapse = {}

\* The next created_at: later than that of every entry queued before.
Now == 1 + Cardinality({r \in Requests : created[r] > 0})

\* enqueue_text_attestation, enqueue_anchor: the entry is on disk.
Enqueue(r, signed) ==
    /\ file' = [file EXCEPT ![r] = 0]
    /\ created' = [created EXCEPT ![r] = Now]
    /\ unsigned' = IF signed THEN unsigned ELSE unsigned \cup {r}

NotEnqueued == UNCHANGED <<file, created, unsigned>>

\* atomic_write fails: before the rename, or after it, when the permissions of
\* the file cannot be restricted.
EnqueueFails(r, signed) ==
    /\ MayFault
    /\ faults' = faults + 1
    /\ NotEnqueued \/ Enqueue(r, signed)

\* An attempt to submit fails: refused, not delivered, or accepted with the answer
\* lost or later than the timeout.
AttemptFails(r) ==
    \/ UNCHANGED <<accepted, lapse>>
    \/ /\ accepted' = AcceptedOnceMore(r)
       /\ lapse' = lapse \cup {"unknown_outcome"}

SyncText(s) ==
    /\ job[s] = "idle"
    /\ job' = [job EXCEPT ![s] = "text"]
    /\ UNCHANGED <<file, created, unsigned, waiting, drain, accepted, refusals, faults, lapse>>

\* The attestation is accepted: the anchor request is sent at once.
SyncTextOk(s) ==
    /\ job[s] = "text"
    /\ accepted' = AcceptedOnceMore(Text(s))
    /\ job' = [job EXCEPT ![s] = "anchor"]
    /\ UNCHANGED <<file, created, unsigned, waiting, drain, refusals, faults, lapse>>

\* The attestation fails and is queued: "Queued for retry", and no anchor
\* follows; or it cannot be queued, and the caller is told so.
SyncTextFails(s) ==
    /\ job[s] = "text"
    /\ AttemptFails(Text(s))
    /\ \/ /\ Enqueue(Text(s), TRUE)
          /\ job' = [job EXCEPT ![s] = "queued"]
          /\ UNCHANGED faults
       \/ /\ EnqueueFails(Text(s), TRUE)
          /\ job' = [job EXCEPT ![s] = "failed"]
    /\ UNCHANGED <<waiting, drain, refusals>>

\* submit_to_writersproof_anchor, up to the await.
CheckpointAnchor(c) ==
    /\ job[c] = "idle"
    /\ job' = [job EXCEPT ![c] = "anchor"]
    /\ UNCHANGED <<file, created, unsigned, waiting, drain, accepted, refusals, faults, lapse>>

AnchorOk(j) ==
    /\ job[j] = "anchor"
    /\ accepted' = AcceptedOnceMore(Anchor(j))
    /\ job' = [job EXCEPT ![j] = IF j \in Syncs THEN "synced" ELSE "anchored"]
    /\ UNCHANGED <<file, created, unsigned, waiting, drain, refusals, faults, lapse>>

\* ffi_sync_text_attestation queues the anchor with its signature; a failure to
\* queue it is only logged, and the caller is told "Synced".
SyncAnchorFails(s) ==
    /\ job[s] = "anchor"
    /\ AttemptFails(Anchor(s))
    /\ \/ Enqueue(Anchor(s), TRUE) /\ UNCHANGED faults
       \/ EnqueueFails(Anchor(s), TRUE)
    /\ job' = [job EXCEPT ![s] = "synced"]
    /\ UNCHANGED <<waiting, drain, refusals>>

\* submit_to_writersproof_anchor queues the anchor without its signature, or not
\* at all (offline_queue off).
CheckpointAnchorFails(c) ==
    /\ job[c] = "anchor"
    /\ AttemptFails(Anchor(c))
    /\ \/ Enqueue(Anchor(c), FALSE) /\ UNCHANGED faults
       \/ NotEnqueued /\ UNCHANGED faults
       \/ EnqueueFails(Anchor(c), FALSE)
    /\ job' = [job EXCEPT ![c] = "anchored"]
    /\ UNCHANGED <<waiting, drain, refusals>>

-----------------------------------------------------------------------------
(* Draining *)

OnDisk(kind) == {r \in Requests : r.kind = kind /\ Present(r) /\ InDefaultDir(r)}

\* list_text_attestations, list_anchors with Utc::now(): at most
\* MAX_LIST_ENTRIES entries, whichever the directory yields first.
Listings(kind) ==
    LET Read(S) == {[req |-> r, retry |-> file[r], ripe |-> file[r] = 0 \/ r \notin waiting] :
                       r \in S}
        Capped(S) == /\ Cardinality(S) <= MaxListEntries
                     /\ S = OnDisk(kind) \/ Cardinality(S) = MaxListEntries
    IN  {Read(S) : S \in {S \in SUBSET OnDisk(kind) : Capped(S)}}

\* The loop of drain d comes to entry e.
Reaches(d, e) == drain[d].pc = "walk" /\ First(drain[d].todo, e)

\* It leaves it behind,
Pass(d, e) == drain' = [drain EXCEPT ![d].todo = @ \ {e}]

\* or takes it in hand.
Take(d, e, pc) ==
    drain' = [drain EXCEPT ![d].pc = pc, ![d].entry = e, ![d].todo = @ \ {e}]

\* It is done with the entry in hand.
GoOn(d) == drain' = [drain EXCEPT ![d].pc = "walk", ![d].entry = NoEntry]

\* An error is returned, or the last anchor is done.
EndDrain(d) == drain' = [drain EXCEPT ![d] = IdleDrain]

\* ffi_drain_text_attestation_queue on a queue that is not empty, up to the first
\* text attestation.
DrainBegin(d) ==
    /\ drain[d].pc = "idle"
    /\ \E r \in Requests : Present(r) /\ InDefaultDir(r)
    /\ \E todo \in Listings("text") :
          drain' = [drain EXCEPT ![d] = [IdleDrain EXCEPT !.pc = "walk", !.todo = todo]]
    /\ lapse' = IF \E o \in Drains \ {d} : drain[o].pc # "idle"
                THEN lapse \cup {"overlap"} ELSE lapse
    /\ UNCHANGED <<job, file, created, unsigned, waiting, accepted, refusals, faults>>

\* drain_anchors after drain_text_attestations.
DrainAnchors(d) ==
    /\ drain[d].pc = "walk" /\ drain[d].kind = "text" /\ drain[d].todo = {}
    /\ \E todo \in Listings("anchor") :
          drain' = [drain EXCEPT ![d].kind = "anchor", ![d].todo = todo]
    /\ UNCHANGED <<job, file, created, unsigned, waiting, accepted, refusals, faults, lapse>>

\* The anchor directory cannot be read.
ListAnchorsFails(d) ==
    /\ MayFault
    /\ drain[d].pc = "walk" /\ drain[d].kind = "text" /\ drain[d].todo = {}
    /\ EndDrain(d)
    /\ faults' = faults + 1
    /\ UNCHANGED <<job, file, created, unsigned, waiting, accepted, refusals, lapse>>

DrainEnds(d) ==
    /\ drain[d].pc = "walk" /\ drain[d].kind = "anchor" /\ drain[d].todo = {}
    /\ EndDrain(d)
    /\ UNCHANGED <<job, file, created, unsigned, waiting, accepted, refusals, faults, lapse>>

\* Mutant of Exhausted: the entry is discarded one refusal early.
ExhaustedEarly(e) == e.retry + 1 >= RetryLimit(e.req)

Exhausted(e) == e.retry >= RetryLimit(e.req)

\* remove_file: the backoff window goes with the entry.
Removed(r) ==
    /\ file' = [file EXCEPT ![r] = Absent]
    /\ waiting' = waiting \ {r}

\* An entry at its retry limit: is its file still there?
DiscardCheck(d) ==
    /\ \E e \in drain[d].todo :
          /\ Reaches(d, e)
          /\ Exhausted(e)
          /\ IF Present(e.req) THEN Take(d, e, "discard") ELSE Pass(d, e)
    /\ UNCHANGED <<job, file, created, unsigned, waiting, accepted, refusals, faults, lapse>>

\* remove_file fails: a text drain returns the error, an anchor drain logs it.
RemoveFails(d) == IF drain[d].entry.req.kind = "text" THEN EndDrain(d) ELSE GoOn(d)

\* The file is removed, or another drain removed it since path.exists().
DiscardRemove(d) ==
    /\ drain[d].pc = "discard"
    /\ IF Present(drain[d].entry.req) THEN GoOn(d) ELSE RemoveFails(d)
    /\ Removed(drain[d].entry.req)
    /\ UNCHANGED <<job, created, unsigned, accepted, refusals, faults, lapse>>

DiscardFails(d) ==
    /\ MayFault
    /\ drain[d].pc = "discard"
    /\ RemoveFails(d)
    /\ faults' = faults + 1
    /\ UNCHANGED <<job, file, created, unsigned, waiting, accepted, refusals, lapse>>

\* Within its backoff window an entry is left for a later drain.
Skip(d) ==
    /\ \E e \in drain[d].todo :
          /\ Reaches(d, e)
          /\ ~Exhausted(e) /\ ~e.ripe
          /\ Pass(d, e)
    /\ UNCHANGED <<job, file, created, unsigned, waiting, accepted, refusals, faults, lapse>>

Send(d) ==
    /\ \E e \in drain[d].todo :
          /\ Reaches(d, e)
          /\ ~Exhausted(e) /\ e.ripe
          /\ Take(d, e, "sent")
    /\ UNCHANGED <<job, file, created, unsigned, waiting, accepted, refusals, faults, lapse>>

Answered(d, pc) == drain' = [drain EXCEPT ![d].pc = pc, ![d].answered = TRUE]

ReplyOk(d) ==
    /\ drain[d].pc = "sent"
    /\ accepted' = AcceptedOnceMore(drain[d].entry.req)
    /\ Answered(d, "submitted")
    /\ UNCHANGED <<job, file, created, unsigned, waiting, refusals, faults, lapse>>

\* An error status, no connection, or the client's own 30 s timeout.
ReplyErr(d) ==
    /\ drain[d].pc = "sent"
    /\ AttemptFails(drain[d].entry.req)
    /\ refusals' = RefusedOnceMore(drain[d].entry.req)
    /\ Answered(d, "refused")
    /\ UNCHANGED <<job, file, created, unsigned, waiting, faults>>

\* The 60 s of the whole drain are over: its future is dropped at the await.  The
\* first request of a drain is answered within the client's 30 s.
DrainTimeout(d) ==
    /\ drain[d].pc = "sent" /\ drain[d].answered
    /\ AttemptFails(drain[d].entry.req)
    /\ EndDrain(d)
    /\ UNCHANGED <<job, file, created, unsigned, waiting, refusals, faults>>

\* Mutant of RemoveSubmitted: the file of a submitted entry is left behind.
RemoveSubmittedForgotten(d) ==
    /\ drain[d].pc = "submitted"
    /\ GoOn(d)
    /\ UNCHANGED <<job, file, created, unsigned, waiting, accepted, refusals, faults, lapse>>

RemoveSubmitted(d) ==
    /\ drain[d].pc = "submitted"
    /\ Removed(drain[d].entry.req)
    /\ GoOn(d)
    /\ UNCHANGED <<job, created, unsigned, accepted, refusals, faults, lapse>>

\* A failed removal is only logged; without its directory the drain returns.
RemoveSubmittedFails(d) ==
    /\ MayFault
    /\ drain[d].pc = "submitted"
    /\ GoOn(d) \/ EndDrain(d)
    /\ lapse' = IF Present(drain[d].entry.req) THEN lapse \cup {"remove_failed"} ELSE lapse
    /\ faults' = faults + 1
    /\ UNCHANGED <<job, file, created, unsigned, waiting, accepted, refusals>>

\* Mutant of WriteFailure: the entry is written back with its old retry_count.
WriteFailureNoIncrement(e) ==
    /\ file' = [file EXCEPT ![e.req] = e.retry]
    /\ waiting' = waiting \cup {e.req}

\* retry_count + 1 of the entry as it was listed, and its new backoff window, which
\* counts from created_at and may be over at once (BackoffElapses); an entry at its
\* retry limit is discarded without a look at its window.  The write creates the
\* file anew when another drain removed it.
WriteFailure(e) ==
    /\ file' = [file EXCEPT ![e.req] = e.retry + 1]
    /\ waiting' = IF e.retry + 1 < RetryLimit(e.req) THEN waiting \cup {e.req}
                  ELSE waiting \ {e.req}

RecordFailure(d) ==
    /\ drain[d].pc = "refused"
    /\ WriteFailure(drain[d].entry)
    /\ GoOn(d)
    /\ UNCHANGED <<job, created, unsigned, accepted, refusals, faults, lapse>>

\* atomic_write fails, before or after its rename: the drain returns.
RecordFails(d) ==
    /\ MayFault
    /\ drain[d].pc = "refused"
    /\ WriteFailure(drain[d].entry) \/ UNCHANGED <<file, waiting>>
    /\ EndDrain(d)
    /\ faults' = faults + 1
    /\ UNCHANGED <<job, created, unsigned, accepted, refusals, lapse>>

BackoffElapses(r) ==
    /\ r \in waiting
    /\ waiting' = waiting \ {r}
    /\ UNCHANGED <<job, file, created, unsigned, drain, accepted, refusals, faults, lapse>>

\* The requests awaiting an answer.
InFlight ==
    {Text(s) : s \in {s \in Syncs : job[s] = "text"}} \cup
    {Anchor(j) : j \in {j \in Jobs : job[j] = "anchor"}} \cup
    {drain[d].entry.req : d \in {d \in Drains : drain[d].pc = "sent"}}

\* The process ends: what is in flight is accepted or not, the files stay.
Crash ==
    /\ MayFault
    /\ \E S \in SUBSET InFlight :
          accepted' = [r \in Requests |->
                          IF r \in S /\ accepted[r] < 2 THEN accepted[r] + 1 ELSE accepted[r]]
    /\ lapse' = IF InFlight # {} \/ \E d \in Drains : drain[d].pc = "submitted"
                THEN lapse \cup {"unknown_outcome"} ELSE lapse
    /\ job' = [j \in Jobs |-> IF job[j] \in {"text", "anchor"} THEN "dead" ELSE job[j]]
    /\ drain' = [d \in Drains |-> IdleDrain]
    /\ faults' = faults + 1
    /\ UNCHANGED <<file, created, unsigned, waiting, refusals>>

-----------------------------------------------------------------------------
(* Specification *)

\* The steps of a drain under way.
DrainStep(d) ==
    \/ DrainAnchors(d) \/ ListAnchorsFails(d) \/ DrainEnds(d)
    \/ DiscardCheck(d) \/ DiscardRemove(d) \/ DiscardFails(d)
    \/ Skip(d) \/ Send(d) \/ ReplyOk(d) \/ ReplyErr(d) \/ DrainTimeout(d)
    \/ RemoveSubmitted(d) \/ RemoveSubmittedFails(d)
    \/ RecordFailure(d) \/ RecordFails(d)

SyncStep(s) == SyncText(s) \/ SyncTextOk(s) \/ SyncTextFails(s) \/ SyncAnchorFails(s)

CheckpointStep(c) == CheckpointAnchor(c) \/ CheckpointAnchorFails(c)

Next ==
    \/ \E s \in Syncs : SyncStep(s)
    \/ \E c \in Checkpoints : CheckpointStep(c)
    \/ \E j \in Jobs : AnchorOk(j)
    \/ \E d \in Drains : DrainBegin(d) \/ DrainStep(d)
    \/ \E r \in Requests : BackoffElapses(r)
    \/ Crash

Spec == Init /\ [][Next]_vars

\* A drain under way goes on: its requests time out and its file operations
\* return.  Drains are started again and again while the queue is not empty (the
\* application does so on launch, on sign-in and on reconnection), and time
\* passes.
Fairness ==
    /\ \A d \in Drains : WF_vars(DrainStep(d))
    /\ WF_vars(\E d \in Drains : DrainBegin(d))
    /\ WF_vars(\E r \in Requests : BackoffElapses(r))

FairSpec == Spec /\ Fairness

-----------------------------------------------------------------------------
(* Properties *)

TypeOK ==
    /\ job \in [Jobs -> JobStates]
    /\ file \in [Requests -> Nat \cup {Absent}]
    /\ created \in [Requests -> Nat]
    /\ unsigned \in SUBSET Requests
    /\ waiting \in SUBSET Requests
    /\ drain \in [Drains -> DrainStates]
    /\ accepted \in [Requests -> 0..2]
    /\ refusals \in [Requests -> Nat]
    /\ faults \in 0..MaxFaults
    /\ lapse \in SUBSET Lapses

\* A request that was queued is still on disk, unless the service accepted it or
\* refused it as often as its retry limit allows: no overlap of drains, crash,
\* failed write or failed removal loses it.
QueuedIsNotLost ==
    \A r \in Requests :
       created[r] > 0 => Present(r) \/ accepted[r] > 0 \/ refusals[r] >= RetryLimit(r)

\* The service sees a request twice only after an answer was lost, a file of a
\* submitted entry could not be removed, or two drains overlapped.
AcceptedOnce == lapse = {} => \A r \in Requests : accepted[r] <= 1

\* Whatever the service answers and however drains overlap, time out or fail,
\* the queue that drains read is empty in the end: every entry is submitted or
\* discarded.
QueueDrains == <>[](\A r \in Requests : InDefaultDir(r) => ~Present(r))

\* What the doc comment of submit_to_writersproof_anchor says, "queues the request
\* for later retry": no anchor a checkpoint queued stays in its queue for ever.
QueuedAnchorsAreRetried == \A c \in Checkpoints : <>[]~Present(Anchor(c))

\* What the doc comments of enqueue_anchor and submit_to_writersproof_anchor say:
\* the queue holds the anchor request that failed.
QueuedAnchorsAreSigned == unsigned = {}
=============================================================================
