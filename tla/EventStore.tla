----------------------------- MODULE EventStore -----------------------------
(***************************************************************************)
(* The event store of src/crates/cpoe/src/store: one SQLite table of       *)
(* events, each linked by hash to the event before it and covered by an    *)
(* HMAC, an integrity row that remembers how many events there are and how *)
(* far they have been verified, and archives, one file per day, to which   *)
(* old events move.                                                        *)
(*                                                                         *)
(* Rows are numbered by SQLite's AUTOINCREMENT, which never reuses a       *)
(* number, so row i is the i-th element of log wherever its copy is: in    *)
(* the table (i \in active), in an archive, or nowhere.  The hash of an    *)
(* event is its number, and 0 is the zero hash a chain starts from.        *)
(*                                                                         *)
(* Only one handle at a time can be open: each takes the sidecar lock for  *)
(* its lifetime.  An archive is made by the handle that holds it, so       *)
(* nothing but a crash, an error or midnight comes between its steps.      *)
(***************************************************************************)
EXTENDS Integers, Sequences, FiniteSets, FiniteSetsExt

CONSTANTS
  Stores,     \* SecureStore handles, of the sentinel, the CLI or the GUI
  Keys,       \* HMAC keys a caller may open the store with
  NoKey,      \* no key: a closed handle, a missing row, an HMAC that fails
  MaxTime,    \* bound on timestamps; they need not follow insertion order
  MaxEvents,  \* bound on events ever inserted
  MaxDay,     \* bound on calendar days
  MaxFaults   \* bound on crashes and failed calls

ASSUME StoreAssumption ==
  /\ NoKey \notin Keys
  /\ {MaxTime, MaxEvents, MaxFaults} \subseteq Nat
  /\ MaxDay \in Nat \ {0}

VARIABLES
  log,     \* every row ever inserted, by id: [prev, t, mac]
  active,  \* ids of the rows in the table secure_events
  integ,   \* the integrity row: [key, count, lvs]
  store,   \* SecureStore handles: [key, last]
  job,     \* the archive being made: [step, cut, day]
  tmp,     \* events_archive_<day>.db.tmp, by day
  final,   \* events_archive_<day>.db, by day
  day,     \* today
  faults,  \* crashes and failed calls so far
  lapse    \* what went wrong on the way, see the properties

vars == <<log, active, integ, store, job, tmp, final, day, faults, lapse>>

Times == 1 .. MaxTime
Days == 1 .. MaxDay

\* An archive file: "placeholder" has no schema, "db" may have no rows.
NoFile == [is |-> "absent", ids |-> {}]
Placeholder == [is |-> "placeholder", ids |-> {}]
Archive(ids) == [is |-> "db", ids |-> ids]

Closed == [key |-> NoKey, last |-> 0]
Idle == [step |-> "idle", cut |-> 0, day |-> 0]

IsOpen(s) == store[s].key # NoKey
Free == \A s \in Stores : ~IsOpen(s)

-----------------------------------------------------------------------------
(***************************************************************************)
(* verify_integrity.                                                       *)
(***************************************************************************)

\* The greatest element of S, or d when S is empty.
Last(S, d) == IF S = {} THEN d ELSE Max(S)

\* Rows the verifier has not seen yet.
Unverified == {i \in active : i > integ.lvs}

\* The hash the verifier holds when it reaches row i: of the row before it,
\* or of the last verified row.
Before(i) == Last({j \in Unverified : j < i}, integ.lvs)

\* With key k the integrity row is missing, or its HMAC matches, the last
\* verified row is in the table, every later row is linked and has its HMAC,
\* and the count is right.
Verifies(k) ==
  \/ integ.key = NoKey
  \/ /\ integ.key = k
     /\ integ.lvs > 0 => integ.lvs \in active
     /\ \A i \in Unverified : log[i].prev = Before(i) /\ log[i].mac = k
     /\ integ.lvs + Cardinality(Unverified) = integ.count

(***************************************************************************)
(* The operations on a handle.                                             *)
(***************************************************************************)

\* SecureStore::open: take the sidecar lock, verify, remember how far.  A
\* call that finds the lock taken or a row wrong fails and changes nothing.
Open(s, k) ==
  /\ Free
  /\ Verifies(k)
  /\ LET head == Last(Unverified, integ.lvs)
     IN  /\ integ' = [integ EXCEPT !.key = k, !.lvs = head]
         /\ store' = [store EXCEPT ![s] = [key |-> k, last |-> head]]
  /\ UNCHANGED <<log, active, job, tmp, final, day, faults, lapse>>

\* The handle is dropped, and its lock with it.
Close(s) ==
  /\ IsOpen(s)
  /\ job = Idle
  /\ store' = [store EXCEPT ![s] = Closed]
  /\ UNCHANGED <<log, active, integ, job, tmp, final, day, faults, lapse>>

\* add_secure_event: the row and the integrity row in one transaction, then
\* the hash the next event is linked to.
AddSecureEvent(s, t) ==
  /\ IsOpen(s) /\ job = Idle
  /\ Len(log) < MaxEvents
  /\ log' = Append(log, [prev |-> store[s].last, t |-> t, mac |-> store[s].key])
  /\ active' = active \cup {Len(log) + 1}
  /\ integ' = [integ EXCEPT !.key = store[s].key, !.count = @ + 1]
  /\ store' = [store EXCEPT ![s].last = Len(log) + 1]
  /\ UNCHANGED <<job, tmp, final, day, faults, lapse>>

\* The file name is part of what the HMAC covers: a row whose name changed
\* fails the next check of its HMAC.
Renamed == [i \in DOMAIN log |->
              IF i \in active THEN [log[i] EXCEPT !.mac = NoKey] ELSE log[i]]

\* update_file_path: refused while the integrity row counts events.
UpdateFilePath(s) ==
  /\ IsOpen(s) /\ job = Idle
  /\ integ.count = 0
  /\ log' = Renamed
  /\ UNCHANGED <<active, integ, store, job, tmp, final, day, faults, lapse>>

-----------------------------------------------------------------------------
(***************************************************************************)
(* archive_old_events.                                                     *)
(***************************************************************************)

Old(c) == {i \in active : log[i].t < c}
Kept(c) == active \ Old(c)

\* Mutant of BeginArchive: an archive made earlier today is not noticed.
BeginArchiveAgain(s, c) ==
  /\ IsOpen(s) /\ job = Idle
  /\ Old(c) # {}
  /\ final' = [final EXCEPT ![day] = Placeholder]
  /\ job' = [step |-> "claimed", cut |-> c, day |-> day]
  /\ UNCHANGED <<log, active, integ, store, tmp, day, faults, lapse>>

\* Some event is old enough and today's archive can be created: a placeholder
\* claims its name.
BeginArchive(s, c) ==
  /\ IsOpen(s) /\ job = Idle
  /\ Old(c) # {}
  /\ final[day] = NoFile
  /\ final' = [final EXCEPT ![day] = Placeholder]
  /\ job' = [step |-> "claimed", cut |-> c, day |-> day]
  /\ UNCHANGED <<log, active, integ, store, tmp, day, faults, lapse>>

\* Mutant of Continues: the check is dropped.
ContinuesUnchecked(c) == TRUE

\* The first event that stays is linked to the last event that goes.
Continues(c) ==
  Kept(c) # {} => log[Min(Kept(c))].prev = Max(Old(c))

\* The placeholder goes, a leftover tmp file goes, and the tmp file is
\* created with its schema when the chain will continue.
PrepareArchive ==
  /\ job.step = "claimed"
  /\ final' = [final EXCEPT ![job.day] = NoFile]
  /\ IF Continues(job.cut)
     THEN /\ tmp' = [tmp EXCEPT ![job.day] = Archive({})]
          /\ job' = [job EXCEPT !.step = "prepared"]
     ELSE /\ tmp' = [tmp EXCEPT ![job.day] = NoFile]
          /\ job' = Idle
  /\ UNCHANGED <<log, active, integ, store, day, faults, lapse>>

\* Mutant of MoveOut: the number of rows that stay, not their last id.
MoveOutCounting ==
  /\ active' = Kept(job.cut)
  /\ integ' = [integ EXCEPT !.count = Cardinality(Kept(job.cut)),
                            !.lvs = Last(Kept(job.cut), 0)]

\* What the transaction does to the active database: the old rows are
\* deleted, and every row that stays counts as verified.
MoveOut ==
  /\ active' = Kept(job.cut)
  /\ integ' = [integ EXCEPT !.count = Last(Kept(job.cut), 0),
                            !.lvs = Last(Kept(job.cut), 0)]

\* Nothing is left in the table.
Emptied == IF Kept(job.cut) = {} THEN {"emptied"} ELSE {}

\* One transaction over both databases: copy, then delete.
CommitArchive ==
  /\ job.step = "prepared"
  /\ MoveOut
  /\ tmp' = [tmp EXCEPT ![job.day] = Archive(Old(job.cut))]
  /\ job' = [job EXCEPT !.step = "moved"]
  /\ lapse' = lapse \cup Emptied
  /\ UNCHANGED <<log, store, final, day, faults>>

\* The tmp file gets the archive's name.
PromoteArchive ==
  /\ job.step = "moved"
  /\ final' = [final EXCEPT ![job.day] = tmp[job.day]]
  /\ tmp' = [tmp EXCEPT ![job.day] = NoFile]
  /\ job' = Idle
  /\ UNCHANGED <<log, active, integ, store, day, faults, lapse>>

-----------------------------------------------------------------------------
(***************************************************************************)
(* What fails, and what is outside the code.                               *)
(***************************************************************************)

Fault == /\ faults < MaxFaults
         /\ faults' = faults + 1

\* The rows were moved and their archive has no name yet.
Stranded == IF job.step = "moved" THEN {"stranded"} ELSE {}

\* The transaction fails: both databases roll back, the tmp file is removed.
CommitFails ==
  /\ job.step = "prepared"
  /\ Fault
  /\ tmp' = [tmp EXCEPT ![job.day] = NoFile]
  /\ job' = Idle
  /\ UNCHANGED <<log, active, integ, store, final, day, lapse>>

\* The tmp file cannot be opened or renamed: the error is returned and the
\* file stays where it is.
PromoteFails ==
  /\ job.step = "moved"
  /\ Fault
  /\ job' = Idle
  /\ lapse' = lapse \cup Stranded
  /\ UNCHANGED <<log, active, integ, store, tmp, final, day>>

\* The process stops: its handle and its lock are gone, the files stay.
Crash ==
  /\ ~Free
  /\ Fault
  /\ store' = [s \in Stores |-> Closed]
  /\ job' = Idle
  /\ lapse' = lapse \cup Stranded
  /\ UNCHANGED <<log, active, integ, tmp, final, day>>

\* A power loss inside the commit.  Both databases are in WAL mode, where
\* SQLite commits attached databases one after another, the main one first.
CrashInCommit ==
  /\ job.step = "prepared"
  /\ Fault
  /\ MoveOut
  /\ store' = [s \in Stores |-> Closed]
  /\ job' = Idle
  /\ lapse' = lapse \cup Emptied \cup {"split"}
  /\ UNCHANGED <<log, tmp, final, day>>

Midnight ==
  /\ day < MaxDay
  /\ day' = day + 1
  /\ UNCHANGED <<log, active, integ, store, job, tmp, final, faults, lapse>>

Init ==
  /\ log = <<>>
  /\ active = {}
  /\ integ = [key |-> NoKey, count |-> 0, lvs |-> 0]
  /\ store = [s \in Stores |-> Closed]
  /\ job = Idle
  /\ tmp = [d \in Days |-> NoFile]
  /\ final = [d \in Days |-> NoFile]
  /\ day = 1
  /\ faults = 0
  /\ lapse = {}

Next ==
  \/ \E s \in Stores :
       \/ \E k \in Keys : Open(s, k)
       \/ Close(s)
       \/ \E t \in Times : AddSecureEvent(s, t)
       \/ UpdateFilePath(s)
       \/ \E c \in 2 .. MaxTime + 1 : BeginArchive(s, c)
  \/ PrepareArchive
  \/ CommitArchive
  \/ PromoteArchive
  \/ CommitFails
  \/ PromoteFails
  \/ Crash
  \/ CrashInCommit
  \/ Midnight

Spec == Init /\ [][Next]_vars

-----------------------------------------------------------------------------
(***************************************************************************)
(* Properties.  A lapse names the event after which the code does not keep *)
(* a promise any more:                                                     *)
(*   emptied   an archive took every row of the table;                     *)
(*   stranded  rows were moved to a tmp file that was never promoted;      *)
(*   split     the rows were deleted and not copied.                       *)
(***************************************************************************)

Event == [prev : Nat, t : Times, mac : Keys \cup {NoKey}]
File == [is : {"absent", "placeholder", "db"}, ids : SUBSET Nat]

\* The types of the tables, the handles, the archive job and the files.
TypeOK ==
  /\ log \in Seq(Event)
  /\ active \subseteq 1 .. Len(log)
  /\ integ \in [key : Keys \cup {NoKey}, count : Nat, lvs : Nat]
  /\ store \in [Stores -> [key : Keys \cup {NoKey}, last : Nat]]
  /\ job \in [step : {"idle", "claimed", "prepared", "moved"},
              cut : Nat, day : {0} \cup Days]
  /\ tmp \in [Days -> File]
  /\ final \in [Days -> File]
  /\ day \in Days
  /\ faults \in Nat
  /\ lapse \subseteq {"emptied", "stranded", "split"}

\* Whoever opens the store next, with the key it was made with, finds it
\* intact: verify_integrity accepts what every sequence of inserts, reopens
\* and archives, complete or cut short, leaves behind, as long as no archive
\* took the whole table.
StoreVerifies ==
  "emptied" \notin lapse => Verifies(integ.key)

\* Where row i can be read from: the table, an archive that has its name, or
\* the tmp file of the archive that is being made.
Copies(i) ==
  {<<"table", 0>> : x \in {i} \cap active}
    \cup {<<"archive", d>> : d \in {d \in Days : i \in final[d].ids}}
    \cup {<<"tmp", d>> : d \in {d \in Days : job.step = "moved" /\ d = job.day
                                               /\ i \in tmp[d].ids}}

\* Every event whose insert was answered is readable from exactly one place:
\* archiving neither loses nor doubles one, whatever step it stops at, unless
\* rows were stranded or split off.
EachEventOnce ==
  lapse \cap {"stranded", "split"} = {}
    => \A i \in 1 .. Len(log) : Cardinality(Copies(i)) = 1

Archived == UNION {final[d].ids : d \in Days}

\* Archives and table are one chain: each row of the table is linked to the
\* row before it, and everything archived is older than everything kept, so
\* that query_spanning and a verifier that reads the archives in order see
\* one linked history.
ChainSpans ==
  "emptied" \notin lapse
    => \A i \in active : /\ log[i].prev = i - 1
                         /\ \A a \in Archived : a < i
=============================================================================
