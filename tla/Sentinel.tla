------------------------------ MODULE Sentinel ------------------------------
(***************************************************************************)
(* Checkpoints of a document session in src/crates/cpoe/src/sentinel: the  *)
(* keystrokes that are counted, the ones that a stored event covers, the   *)
(* totals kept per document, and the two locks all of it runs under.       *)
(*                                                                         *)
(* Callers of the API (FFI or IPC) commit checkpoints, start and stop      *)
(* witnessing through the store that the Sentinel caches; the event loop   *)
(* commits checkpoints through a store that it opens for each; keystrokes  *)
(* are counted by the thread that injects them.  The store's sidecar lock  *)
(* (see EventStore) is per open handle, so that the cached store keeps the *)
(* process's own other handles out as well as other processes.             *)
(*                                                                         *)
(* One document is enough: sessions of different documents share nothing   *)
(* but the locks.  A step that needs one lock for its whole length is one  *)
(* action; where the code holds one lock while it waits for the other the  *)
(* two are taken by two actions.                                           *)
(***************************************************************************)
EXTENDS Naturals, FiniteSets

CONSTANTS
  Callers,      \* concurrent calls of the API
  Loop,         \* the event loop
  Nobody,       \* holder of a free lock
  MaxTyped,     \* bound on keystrokes
  MaxSessions,  \* bound on sessions of the document
  BaselineMin,  \* keystrokes that update_baseline needs
  MaxFaults     \* bound on failures

ASSUME SentinelAssumption ==
  /\ Loop \notin Callers /\ Nobody \notin Callers \cup {Loop}
  /\ {MaxTyped, MaxSessions, BaselineMin, MaxFaults} \subseteq Nat

VARIABLES
  session,   \* DocumentSession: [id, on, count, marked, base]
  begun,     \* sessions started so far
  typed,     \* keystrokes that produced content in this session
  covered,   \* how many of them a stored event covers
  accum,     \* keystrokes in the global accumulator
  stats,     \* total_keystrokes in the table document_stats
  floor,     \* the total stored when the session began
  cached,    \* the Sentinel's cached store is open
  flock,     \* holder of the sidecar lock: "free", "cached", "tick", "other"
  locks,     \* holders of the locks on sessions and on the cached store
  key,       \* the signing key is available
  task,      \* what each caller and the event loop are doing
  faults,    \* failures so far
  lapse      \* what went wrong on the way, see the properties

vars == <<session, begun, typed, covered, accum, stats, floor, cached, flock,
          locks, key, task, faults, lapse>>

Tasks == Callers \cup {Loop}
NoSession == [id |-> 0, on |-> FALSE, count |-> 0, marked |-> 0, base |-> 0]
Resting == [at |-> "rest", then |-> "rest", claim |-> 0, prior |-> 0, seen |-> 0,
            total |-> 0, of |-> 0]

Free(l) == locks[l] = Nobody

\* Mutant of Total: the keystrokes of earlier sessions are left out.
TotalOfSession == session.count

Total == session.base + session.count
Pending == session.on /\ session.count > session.marked

\* The next step of task t, which keeps none of the values read so far.
Go(t, step) ==
  task' = [task EXCEPT ![t] = [Resting EXCEPT !.at = step, !.then = task[t].then]]

\* The call returns: to its caller, or to stop_witnessing, which it is part of.
Return(t) ==
  task' = [task EXCEPT ![t] = [Resting EXCEPT
             !.at = task[t].then,
             !.then = IF task[t].then = "rest" THEN "rest" ELSE "stop"]]

Lapse(name, happened) == IF happened THEN {name} ELSE {}

Fault == /\ faults < MaxFaults
         /\ faults' = faults + 1

-----------------------------------------------------------------------------
(***************************************************************************)
(* Keystrokes, the key and other processes.                                *)
(***************************************************************************)

\* A keystroke that produces content is injected for the focused document.
Inject ==
  /\ Free("sessions")
  /\ session.on /\ accum < MaxTyped
  /\ session' = [session EXCEPT !.count = @ + 1]
  /\ typed' = typed + 1
  /\ accum' = accum + 1
  /\ UNCHANGED <<begun, covered, stats, floor, cached, flock, locks, key, task,
                 faults, lapse>>

\* Validation rejects a key that was not counted, and takes one count back
\* all the same.
InjectRejected ==
  /\ Free("sessions")
  /\ session.on /\ session.count > 0
  /\ Fault
  /\ session' = [session EXCEPT !.count = @ - 1]
  /\ lapse' = lapse \cup {"rejected"}
  /\ UNCHANGED <<begun, typed, covered, accum, stats, floor, cached, flock,
                 locks, key, task>>

\* The key goes cold, or is warmed by a keystroke.
KeyChanges ==
  /\ key' = ~key
  /\ UNCHANGED <<session, begun, typed, covered, accum, stats, floor, cached,
                 flock, locks, task, faults, lapse>>

\* set_signing_key drops the cached store, and its sidecar lock with it.
SetSigningKey ==
  /\ Free("store")
  /\ cached
  /\ key' = TRUE
  /\ cached' = FALSE
  /\ flock' = "free"
  /\ UNCHANGED <<session, begun, typed, covered, accum, stats, floor, locks,
                 task, faults, lapse>>

\* Another process opens the store, or closes it.
OtherProcess ==
  /\ \/ flock = "free" /\ flock' = "other"
     \/ flock = "other" /\ flock' = "free"
  /\ UNCHANGED <<session, begun, typed, covered, accum, stats, floor, cached,
                 locks, key, task, faults, lapse>>

-----------------------------------------------------------------------------
(***************************************************************************)
(* get_or_open_store, whose guard the caller must be able to take.         *)
(***************************************************************************)

CanOpen == cached \/ (key /\ flock = "free")

OpenCached ==
  /\ cached' = TRUE
  /\ flock' = "cached"

\* save_document_stats overwrites the row.
SaveStats(total, of) ==
  /\ stats' = total
  /\ lapse' = lapse \cup Lapse("stale", of # session.id)

(***************************************************************************)
(* Sentinel::commit_checkpoint_for_path.                                   *)
(***************************************************************************)

\* Check and claim: a concurrent call finds nothing to do.
Claim(c) ==
  /\ task[c].at = "claim" /\ Free("sessions")
  /\ IF Pending
     THEN /\ task' = [task EXCEPT ![c].at = "hash", ![c].claim = session.count,
                                  ![c].prior = session.marked]
          /\ session' = [session EXCEPT !.marked = session.count]
     ELSE /\ Return(c)
          /\ UNCHANGED session
  /\ UNCHANGED <<begun, typed, covered, accum, stats, floor, cached, flock,
                 locks, key, faults, lapse>>

\* The file is hashed, with all that was typed until now.
Hash(c) ==
  /\ task[c].at = "hash"
  /\ task' = [task EXCEPT ![c].at = "add", ![c].seen = typed, ![c].of = session.id]
  /\ UNCHANGED <<session, begun, typed, covered, accum, stats, floor, cached,
                 flock, locks, key, faults, lapse>>

\* The file is missing or cannot be read, or the sentinel stops: the call
\* returns and the claim stays.
HashFails(c) ==
  /\ task[c].at = "hash"
  /\ Fault
  /\ Return(c)
  /\ lapse' = lapse \cup {"leaked"}
  /\ UNCHANGED <<session, begun, typed, covered, accum, stats, floor, cached,
                 flock, locks, key>>

\* An event for what task t saw is in the store.
Cover(t) ==
  covered' = IF task[t].of = session.id /\ task[t].seen > covered
             THEN task[t].seen ELSE covered

\* Phase 1: the event is added to the cached store.
AddEvent(c) ==
  /\ task[c].at = "add" /\ Free("store")
  /\ CanOpen
  /\ OpenCached
  /\ Cover(c)
  /\ Go(c, "total")
  /\ UNCHANGED <<session, begun, typed, accum, stats, floor, locks, key, faults,
                 lapse>>

\* There is no store to add it to.
AddEventFails(c) ==
  /\ task[c].at = "add" /\ Free("store")
  /\ ~CanOpen
  /\ task' = [task EXCEPT ![c].at = "rollback", ![c].seen = 0, ![c].of = 0]
  /\ UNCHANGED <<session, begun, typed, covered, accum, stats, floor, cached,
                 flock, locks, key, faults, lapse>>

\* Mutant of Rollback: the claim is kept.
RollbackNothing(c) ==
  /\ task[c].at = "rollback" /\ Free("sessions")
  /\ Return(c)
  /\ UNCHANGED <<session, begun, typed, covered, accum, stats, floor, cached,
                 flock, locks, key, faults, lapse>>

\* The claim is given back, unless another commit has moved the mark since.
Rollback(c) ==
  /\ task[c].at = "rollback" /\ Free("sessions")
  /\ session' = IF session.on /\ session.marked = task[c].claim
                THEN [session EXCEPT !.marked = task[c].prior] ELSE session
  /\ lapse' = lapse \cup Lapse("crossed",
                session.on /\ session.marked # task[c].claim)
  /\ Return(c)
  /\ UNCHANGED <<begun, typed, covered, accum, stats, floor, cached, flock,
                 locks, key, faults>>

\* The document's total is read under one lock and saved under the other.
ReadTotal(t) ==
  /\ task[t].at = "total" /\ Free("sessions")
  /\ IF session.on
     THEN task' = [task EXCEPT ![t].at = "save", ![t].total = Total,
                               ![t].of = session.id]
     ELSE Go(t, "cosign")
  /\ UNCHANGED <<session, begun, typed, covered, accum, stats, floor, cached,
                 flock, locks, key, faults, lapse>>

SaveTotal(c) ==
  /\ task[c].at = "save" /\ c # Loop /\ Free("store")
  /\ IF CanOpen
     THEN OpenCached /\ SaveStats(task[c].total, task[c].of)
     ELSE UNCHANGED <<cached, flock, stats, lapse>>
  /\ Go(c, "cosign")
  /\ UNCHANGED <<session, begun, typed, covered, accum, floor, locks, key, faults>>

\* Mutant of CosignSessions: the event loop locks the store first.
CosignSessionsLast(t) ==
  /\ task[t].at = "cosign"
  /\ LET first == IF t = Loop THEN "store" ELSE "sessions"
     IN  Free(first) /\ locks' = [locks EXCEPT ![first] = t]
  /\ Go(t, "cosign_other")
  /\ UNCHANGED <<session, begun, typed, covered, accum, stats, floor, cached,
                 flock, key, faults, lapse>>

\* Phase 2, the hardware co-signature: sessions, and under it the store.
CosignSessions(t) ==
  /\ task[t].at = "cosign" /\ Free("sessions")
  /\ locks' = [locks EXCEPT !["sessions"] = t]
  /\ Go(t, "cosign_other")
  /\ UNCHANGED <<session, begun, typed, covered, accum, stats, floor, cached,
                 flock, key, faults, lapse>>

\* The lock that the co-signature still waits for.
OtherLock(t) == IF locks["sessions"] = t THEN "store" ELSE "sessions"

CosignStore(t) ==
  /\ task[t].at = "cosign_other" /\ Free(OtherLock(t))
  /\ locks' = [l \in DOMAIN locks |-> IF locks[l] = t THEN Nobody ELSE locks[l]]
  /\ IF t # Loop /\ session.on /\ CanOpen THEN OpenCached ELSE UNCHANGED <<cached, flock>>
  /\ Return(t)
  /\ UNCHANGED <<session, begun, typed, covered, accum, stats, floor, key, faults,
                 lapse>>

-----------------------------------------------------------------------------
(***************************************************************************)
(* Starting and stopping to witness the document.                          *)
(***************************************************************************)

\* A commit on its own, and the one that begins stop_witnessing.
Commit(c) ==
  /\ task[c].at = "rest"
  /\ task' = [task EXCEPT ![c] = [Resting EXCEPT !.at = "claim"]]
  /\ UNCHANGED <<session, begun, typed, covered, accum, stats, floor, cached,
                 flock, locks, key, faults, lapse>>

StopWitnessing(c) ==
  /\ task[c].at = "rest"
  /\ task' = [task EXCEPT ![c] = [Resting EXCEPT !.at = "claim", !.then = "stop"]]
  /\ UNCHANGED <<session, begun, typed, covered, accum, stats, floor, cached,
                 flock, locks, key, faults, lapse>>

\* The cached store is opened, and its guard is kept to the end of the call.
StopStore(c) ==
  /\ task[c].at = "stop" /\ Free("store")
  /\ IF CanOpen
     THEN /\ OpenCached
          /\ locks' = [locks EXCEPT !["store"] = c]
     ELSE UNCHANGED <<cached, flock, locks>>
  /\ Go(c, "remove")
  /\ UNCHANGED <<session, begun, typed, covered, accum, stats, floor, key, faults,
                 lapse>>

\* Dropping the guard, if c has it.
Unlock(c) == locks' = [l \in DOMAIN locks |-> IF locks[l] = c THEN Nobody ELSE locks[l]]

\* The session goes, and its total is saved through the guard.
StopRemove(c) ==
  /\ task[c].at = "remove" /\ Free("sessions")
  /\ session' = [session EXCEPT !.on = FALSE]
  /\ IF session.on
     THEN /\ stats' = IF locks["store"] = c THEN Total ELSE stats
          /\ Go(c, "baseline")
          /\ UNCHANGED locks
     ELSE /\ Unlock(c)
          /\ task' = [task EXCEPT ![c] = Resting]
          /\ UNCHANGED stats
  /\ UNCHANGED <<begun, typed, covered, accum, floor, cached, flock, key, faults,
                 lapse>>

\* update_baseline needs the guard a second time once it has enough to say;
\* a caller that has it already waits for itself.
StopBaseline(c) ==
  /\ task[c].at = "baseline"
  /\ (accum >= BaselineMin /\ key) => Free("store")
  /\ Unlock(c)
  /\ task' = [task EXCEPT ![c] = Resting]
  /\ IF accum >= BaselineMin /\ key /\ CanOpen THEN OpenCached ELSE UNCHANGED <<cached, flock>>
  /\ UNCHANGED <<session, begun, typed, covered, accum, stats, floor, key, faults,
                 lapse>>

\* start_witnessing loads the total through the cached store; the focus
\* handler of the event loop through a store that it opens for it.
LoadTotal(t) ==
  /\ task[t].at = "rest"
  /\ t = Loop \/ Free("store")
  /\ ~session.on
  /\ LET loaded == IF t = Loop THEN key /\ flock = "free" ELSE CanOpen
     IN  /\ task' = [task EXCEPT ![t] = [Resting EXCEPT
                       !.at = "insert", !.total = IF loaded THEN stats ELSE 0]]
         /\ IF t # Loop /\ loaded THEN OpenCached ELSE UNCHANGED <<cached, flock>>
  /\ UNCHANGED <<session, begun, typed, covered, accum, stats, floor, locks, key,
                 faults, lapse>>

\* A session is created with it unless there is one by now.
InsertSession(t) ==
  /\ task[t].at = "insert" /\ Free("sessions")
  /\ task' = [task EXCEPT ![t] = Resting]
  /\ IF session.on \/ begun = MaxSessions
     THEN UNCHANGED <<session, begun, typed, covered, floor, lapse>>
     ELSE /\ begun' = begun + 1
          /\ session' = [NoSession EXCEPT !.id = begun + 1, !.on = TRUE,
                                          !.base = task[t].total]
          /\ typed' = 0
          /\ covered' = 0
          /\ floor' = stats
          /\ lapse' = lapse \cup Lapse("unread", task[t].total < stats)
  /\ UNCHANGED <<accum, stats, cached, flock, locks, key, faults>>

-----------------------------------------------------------------------------
(***************************************************************************)
(* The event loop: the checkpoint tick, the idle check and the restored    *)
(* state of a bundle document.                                             *)
(***************************************************************************)

\* The tick finds keystrokes to checkpoint.
Tick ==
  /\ task[Loop].at = "rest" /\ Free("sessions")
  /\ Pending
  /\ Go(Loop, "open")
  /\ UNCHANGED <<session, begun, typed, covered, accum, stats, floor, cached,
                 flock, locks, key, faults, lapse>>

\* The file is hashed and a store of its own is opened.
TickOpen ==
  /\ task[Loop].at = "open"
  /\ key /\ flock = "free"
  /\ flock' = "tick"
  /\ task' = [task EXCEPT ![Loop].at = "write", ![Loop].seen = typed,
                          ![Loop].of = session.id]
  /\ UNCHANGED <<session, begun, typed, covered, accum, stats, floor, cached,
                 locks, key, faults, lapse>>

\* No key, the sidecar lock is taken, or the file cannot be read: the tick is
\* over, the idle check goes on.
TickFails ==
  /\ task[Loop].at = "open"
  /\ ~key \/ flock # "free"
  /\ Return(Loop)
  /\ UNCHANGED <<session, begun, typed, covered, accum, stats, floor, cached,
                 flock, locks, key, faults, lapse>>

\* The event is stored and the store closed.
TickWrite ==
  /\ task[Loop].at = "write"
  /\ Cover(Loop)
  /\ flock' = "free"
  /\ IF task[Loop].then = "rest"
     THEN task' = [task EXCEPT ![Loop].at = "mark"]
     ELSE Return(Loop)
  /\ UNCHANGED <<session, begun, typed, accum, stats, floor, cached, locks, key,
                 faults, lapse>>

\* post_checkpoint_work marks what is counted by now, not what was hashed.
TickMark ==
  /\ task[Loop].at = "mark" /\ Free("sessions")
  /\ IF session.on
     THEN /\ session' = [session EXCEPT !.marked = session.count]
          /\ lapse' = lapse \cup Lapse("late",
                        session.id # task[Loop].of \/ typed > task[Loop].seen)
          /\ task' = [task EXCEPT ![Loop].at = "save", ![Loop].total = Total,
                                  ![Loop].of = session.id]
     ELSE /\ Return(Loop)
          /\ UNCHANGED <<session, lapse>>
  /\ UNCHANGED <<begun, typed, covered, accum, stats, floor, cached, flock, locks,
                 key, faults>>

\* The total goes to the cached store, if there is one.
TickSave ==
  /\ task[Loop].at = "save" /\ Free("store")
  /\ IF cached THEN SaveStats(task[Loop].total, task[Loop].of)
     ELSE UNCHANGED <<stats, lapse>>
  /\ IF task[Loop].then = "rest" THEN Go(Loop, "cosign") ELSE Go(Loop, "end")
  /\ UNCHANGED <<session, begun, typed, covered, accum, floor, cached, flock,
                 locks, key, faults>>

\* The idle check: a checkpoint if one is pending, the total, the end.
IdleCheck ==
  /\ task[Loop].at = "rest" /\ Free("sessions")
  /\ session.on
  /\ task' = [task EXCEPT ![Loop] = [Resting EXCEPT
                !.at = IF Pending THEN "open" ELSE "persist", !.then = "persist"]]
  /\ UNCHANGED <<session, begun, typed, covered, accum, stats, floor, cached,
                 flock, locks, key, faults, lapse>>

IdlePersist ==
  /\ task[Loop].at = "persist" /\ Free("sessions")
  /\ task' = [task EXCEPT ![Loop].at = IF session.on THEN "save" ELSE "end",
                          ![Loop].then = "stop",
                          ![Loop].total = Total, ![Loop].of = session.id]
  /\ UNCHANGED <<session, begun, typed, covered, accum, stats, floor, cached,
                 flock, locks, key, faults, lapse>>

IdleEnd ==
  /\ task[Loop].at = "end" /\ Free("sessions")
  /\ session' = [session EXCEPT !.on = FALSE]
  /\ task' = [task EXCEPT ![Loop] = Resting]
  /\ UNCHANGED <<begun, typed, covered, accum, stats, floor, cached, flock, locks,
                 key, faults, lapse>>

\* restore_scrivener_state takes the same two locks as the co-signature.
RestoreBundle ==
  /\ task[Loop].at = "rest"
  /\ session.on
  /\ Go(Loop, "cosign")
  /\ UNCHANGED <<session, begun, typed, covered, accum, stats, floor, cached,
                 flock, locks, key, faults, lapse>>

Init ==
  /\ session = NoSession
  /\ begun = 0 /\ typed = 0 /\ covered = 0 /\ accum = 0
  /\ stats = 0 /\ floor = 0
  /\ cached = FALSE /\ flock = "free"
  /\ locks = [l \in {"sessions", "store"} |-> Nobody]
  /\ key = TRUE
  /\ task = [t \in Tasks |-> Resting]
  /\ faults = 0 /\ lapse = {}

Next ==
  \/ Inject \/ InjectRejected
  \/ KeyChanges \/ SetSigningKey \/ OtherProcess
  \/ \E c \in Callers :
       \/ Commit(c) \/ StopWitnessing(c)
       \/ Claim(c) \/ Hash(c) \/ HashFails(c)
       \/ AddEvent(c) \/ AddEventFails(c) \/ Rollback(c)
       \/ ReadTotal(c) \/ SaveTotal(c)
       \/ StopStore(c) \/ StopRemove(c) \/ StopBaseline(c)
  \/ \E t \in Tasks :
       \/ CosignSessions(t) \/ CosignStore(t)
       \/ LoadTotal(t) \/ InsertSession(t)
  \/ Tick \/ TickOpen \/ TickFails \/ TickWrite \/ TickMark \/ TickSave
  \/ IdleCheck \/ IdlePersist \/ IdleEnd
  \/ RestoreBundle

Spec == Init /\ [][Next]_vars

-----------------------------------------------------------------------------
(***************************************************************************)
(* Properties.  A lapse names the event after which a promise is not kept: *)
(*   rejected  a key that was not counted took a count back;               *)
(*   leaked    a commit returned early and kept its claim;                 *)
(*   crossed   a commit failed after another one had moved the mark;       *)
(*   late      a tick marked keystrokes that came after its hash;          *)
(*   unread    a session began without the total stored for its document;  *)
(*   stale     a total was saved after its session had ended.              *)
(***************************************************************************)

\* A commit that has claimed keystrokes and not yet stored or returned them.
Committing == \E c \in Callers : task[c].at \in {"hash", "add", "rollback"}

\* Keystrokes that no stored event covers are pending, so that a later tick
\* or commit will find them, or a commit is about to cover them or to give
\* them back: the mark never runs ahead of the evidence for good.
NothingIsForgotten ==
  /\ session.on /\ typed > covered
  /\ lapse \cap {"rejected", "leaked", "crossed", "late"} = {}
  => Pending \/ Committing

\* The total stored for a document does not fall below what it was when the
\* session began: no save overwrites the keystrokes of earlier sessions.
TotalsDoNotShrink ==
  lapse \cap {"unread", "stale"} = {} => stats >= floor

\* The lock that task t waits for while it holds the other one, if it does.
WaitsFor(t) ==
  CASE task[t].at = "cosign_other" -> OtherLock(t)
    [] task[t].at = "remove" /\ locks["store"] = t -> "sessions"
    [] task[t].at = "baseline" /\ accum >= BaselineMin /\ key
         /\ locks["store"] = t -> "store"
    [] OTHER -> "none"

\* Two tasks that each wait for the lock of the other, or one that waits for
\* its own.
Stuck(t, u) ==
  /\ WaitsFor(t) # "none" /\ locks[WaitsFor(t)] = u
  /\ WaitsFor(u) # "none" /\ locks[WaitsFor(u)] = t

\* Whoever waits for a lock in vain waits, directly or not, for a call of
\* stop_witnessing: every other path takes the two locks in the same order.
StuckOnlyBehindStop ==
  \A t, u \in Tasks : Stuck(t, u) =>
    \E v \in {t, u} : task[v].at \in {"remove", "baseline"}

\* The documentation of Sentinel: the lock order rules out deadlock.
NoDeadlock == \A t, u \in Tasks : ~Stuck(t, u)
=============================================================================
