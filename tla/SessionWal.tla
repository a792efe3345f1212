----------------------------- MODULE SessionWal -----------------------------
(***************************************************************************)
(* The write-ahead logs of the document sessions that the sentinel keeps   *)
(* (src/crates/cpoe/src/sentinel): which entries reach the log of a        *)
(* session, in which order, and signed by which key, while the signing key *)
(* goes cold when nobody types and entries wait for it in one shared       *)
(* buffer.                                                                 *)
(*                                                                         *)
(* Two threads write: the event loop (focus, save, rename and delete       *)
(* events) and a caller of the FFI (inject_terminal_editor_session runs    *)
(* the same focus handler, start_witnessing its own).  An entry is written *)
(* by opening the log, which truncates entries of another key, and         *)
(* appending where the file ended then; nothing locks the file between.    *)
(*                                                                         *)
(* Entry n of a session is its n-th; entry 1 is SessionStart.  Key 1 is    *)
(* the key that was set, later keys are derived from it and the entropy.   *)
(***************************************************************************)
EXTENDS Naturals, Sequences, FiniteSets

CONSTANTS
  EventLoop,    \* the event loop's thread
  Ffi,          \* the thread of a caller of the FFI
  Paths,        \* documents
  NoPath,       \* no document
  MaxLogs,      \* bound on sessions ever started
  MaxEntries,   \* bound on entries of one session
  MaxPending,   \* MAX_PENDING_WAL_ENTRIES
  MaxKeys,      \* bound on keys, the one that was set included
  MaxWalFaults  \* bound on failed writes and stops

ASSUME SessionWalAssumption ==
  /\ {MaxLogs, MaxEntries, MaxPending, MaxKeys, MaxWalFaults} \subseteq Nat
  /\ 0 \notin {MaxEntries, MaxPending, MaxKeys}

VARIABLES
  walKey,     \* BehavioralKey: [set, hot, cold, made]
  sessionOf,  \* the session of a path, 0 for none
  logged,     \* entries recorded per session; DOMAIN logged is every session
  pending,    \* PENDING_WAL: entries that wait for a key
  wal,        \* the log file of each session
  thread,     \* what each thread is doing
  walFaults,  \* failed writes and stops so far
  walLapse    \* what went wrong on the way, see the properties

walVars == <<walKey, sessionOf, logged, pending, wal, thread, walFaults, walLapse>>

Threads == {EventLoop, Ffi}
Sessions == DOMAIN logged
Entry(s, n) == [session |-> s, n |-> n]

\* A thread between two calls, or one that has read the key for path p.
Idle == [at |-> "rest", path |-> NoPath, key |-> 0, todo |-> <<>>,
         then |-> "rest", open |-> FALSE, pos |-> 0]
At(step, p, k) == [Idle EXCEPT !.at = step, !.path = p, !.key = k]
Writing(p, k, entries, then) ==
  [At("write", p, k) EXCEPT !.todo = entries, !.then = then]

-----------------------------------------------------------------------------
(***************************************************************************)
(* BehavioralKey.                                                          *)
(***************************************************************************)

\* key(): nothing once the lock timeout has passed.
KeyNow == IF walKey.cold THEN 0 ELSE walKey.hot

\* Whoever looks at a cold key erases it.
Look == walKey' = IF walKey.cold THEN [walKey EXCEPT !.hot = 0] ELSE walKey

\* set_key, from set_signing_key or set_hmac_key.
SetKey ==
  /\ walKey' = [walKey EXCEPT !.set = TRUE, !.hot = 1, !.cold = FALSE]
  /\ UNCHANGED <<sessionOf, logged, pending, wal, thread, walFaults, walLapse>>

\* The lock timeout passes without a keystroke.
Pause ==
  /\ walKey.set /\ ~walKey.cold
  /\ walKey' = [walKey EXCEPT !.cold = TRUE]
  /\ UNCHANGED <<sessionOf, logged, pending, wal, thread, walFaults, walLapse>>

\* add_entropy: a keystroke warms the key; if it was erased, a new one is
\* derived from the master key and the entropy.
AddEntropy ==
  /\ walKey.set
  /\ IF walKey.hot = 0
     THEN /\ walKey.made < MaxKeys
          /\ walKey' = [walKey EXCEPT !.cold = FALSE, !.hot = walKey.made + 1,
                                      !.made = walKey.made + 1]
     ELSE walKey' = [walKey EXCEPT !.cold = FALSE]
  /\ UNCHANGED <<sessionOf, logged, pending, wal, thread, walFaults, walLapse>>

-----------------------------------------------------------------------------
(***************************************************************************)
(* Recording an entry: into the log, or into the buffer without a key.     *)
(***************************************************************************)

\* Mutant of Push: entries are put in front.
PushFirst(q, e) == <<e>> \o (IF Len(q) >= MaxPending THEN Tail(q) ELSE q)

\* A full buffer loses its oldest entry.
Push(q, e) == Append(IF Len(q) >= MaxPending THEN Tail(q) ELSE q, e)

\* Entries of session s that wait in the buffer or in the hands of a thread
\* other than t.
Waits(t, s) ==
  \/ \E i \in DOMAIN pending : pending[i].session = s
  \/ \E o \in Threads \ {t} : \E i \in DOMAIN thread[o].todo :
        thread[o].todo[i].session = s

LapseIf(name, happened) == IF happened THEN {name} ELSE {}

\* wal_append_session_event by thread t, of the next entry of session s.
Record(t, s, n, k) ==
  IF k # 0
  THEN /\ thread' = [thread EXCEPT
                       ![t] = Writing(NoPath, k, <<Entry(s, n)>>, "rest")]
       /\ walLapse' = walLapse \cup LapseIf("overtaken", Waits(t, s))
       /\ UNCHANGED pending
  ELSE /\ thread' = [thread EXCEPT ![t] = Idle]
       /\ pending' = Push(pending, Entry(s, n))
       /\ walLapse' = walLapse \cup LapseIf("overflow", Len(pending) >= MaxPending)

\* Wal::open with the key of thread t: entries of another key are truncated.
OpenWal(t) ==
  /\ thread[t].at = "write" /\ ~thread[t].open
  /\ LET s == Head(thread[t].todo).session
         foreign == wal[s] # <<>> /\ wal[s][1].key # thread[t].key
     IN  /\ wal' = IF foreign THEN [wal EXCEPT ![s] = <<>>] ELSE wal
         /\ walLapse' = walLapse \cup LapseIf("rekeyed", foreign)
         /\ thread' = [thread EXCEPT ![t].open = TRUE, ![t].pos = Len(wal'[s])]
  /\ UNCHANGED <<walKey, sessionOf, logged, pending, walFaults>>

\* The entry at the head of t's list is done with, written or not.
Advance(t) ==
  IF Len(thread[t].todo) = 1
  THEN IF thread[t].then = "rest" THEN Idle
       ELSE At(thread[t].then, thread[t].path, thread[t].key)
  ELSE [thread[t] EXCEPT !.todo = Tail(@), !.open = FALSE, !.pos = 0]

\* Wal::append: the frame goes where the file ended when t opened it, over
\* whatever was appended since; behind a hole it cannot be read again.
WriteWal(t) ==
  /\ thread[t].at = "write" /\ thread[t].open
  /\ LET e == Head(thread[t].todo)
         w == wal[e.session]
         kept == SubSeq(w, 1, thread[t].pos)
     IN  /\ wal' = IF thread[t].pos <= Len(w)
                   THEN [wal EXCEPT ![e.session] =
                           Append(kept, [n |-> e.n, key |-> thread[t].key])]
                   ELSE wal
         /\ walLapse' = walLapse \cup LapseIf("collided", thread[t].pos # Len(w))
  /\ thread' = [thread EXCEPT ![t] = Advance(t)]
  /\ UNCHANGED <<walKey, sessionOf, logged, pending, walFaults>>

\* The log cannot be opened or written: the error is logged and the entry is
\* gone.
WriteFails(t) ==
  /\ thread[t].at = "write"
  /\ walFaults < MaxWalFaults
  /\ walFaults' = walFaults + 1
  /\ thread' = [thread EXCEPT ![t] = Advance(t)]
  /\ walLapse' = walLapse \cup {"failed"}
  /\ UNCHANGED <<walKey, sessionOf, logged, pending, wal>>

-----------------------------------------------------------------------------
(***************************************************************************)
(* The handlers.                                                           *)
(***************************************************************************)

\* Mutant of Take: the buffer is emptied after the entries were written.
TakeLater(t) == UNCHANGED pending

\* drain_pending_wal takes all entries before it writes the first.
Take(t) == pending' = <<>>

\* focus_document_sync, up to the write lock on sessions: the key is read,
\* and for a document that has no session the buffer is drained with it.
Focus(t, p) ==
  /\ thread[t].at = "rest"
  /\ Look
  /\ IF sessionOf[p] = 0 /\ KeyNow # 0 /\ pending # <<>>
     THEN /\ Take(t)
          /\ thread' = [thread EXCEPT ![t] = Writing(p, KeyNow, pending, "insert")]
          /\ walLapse' = walLapse \cup
               LapseIf("overtaken", \E o \in Threads \ {t} : thread[o].todo # <<>>)
     ELSE /\ thread' = [thread EXCEPT ![t] = At("insert", p, KeyNow)]
          /\ UNCHANGED <<pending, walLapse>>
  /\ UNCHANGED <<sessionOf, logged, wal, walFaults>>

\* A session for path p, with its first entry.
NewSession(p) ==
  /\ Len(logged) < MaxLogs
  /\ sessionOf' = [sessionOf EXCEPT ![p] = Len(logged) + 1]
  /\ logged' = Append(logged, 1)

\* focus_document_sync, under the lock and after it: a session is created
\* unless there is one by now, and its start is recorded.
Insert(t) ==
  /\ thread[t].at = "insert"
  /\ IF sessionOf[thread[t].path] = 0
     THEN /\ NewSession(thread[t].path)
          /\ wal' = Append(wal, <<>>)
          /\ Record(t, Len(logged) + 1, 1, thread[t].key)
     ELSE /\ thread' = [thread EXCEPT ![t] = Idle]
          /\ UNCHANGED <<sessionOf, logged, wal, pending, walLapse>>
  /\ UNCHANGED <<walKey, walFaults>>

\* start_witnessing reads the key, then works under the lock on sessions;
\* without a key the start is not recorded at all.
StartWitnessing(p) ==
  /\ thread[Ffi].at = "rest"
  /\ Look
  /\ thread' = [thread EXCEPT ![Ffi] = At("start", p, KeyNow)]
  /\ UNCHANGED <<sessionOf, logged, pending, wal, walFaults, walLapse>>

StartSession ==
  /\ thread[Ffi].at = "start"
  /\ thread' = [thread EXCEPT ![Ffi] = Idle]
  /\ IF sessionOf[thread[Ffi].path] = 0
     THEN /\ NewSession(thread[Ffi].path)
          /\ wal' = Append(wal, IF thread[Ffi].key = 0 THEN <<>>
                                ELSE <<[n |-> 1, key |-> thread[Ffi].key]>>)
          /\ walLapse' = walLapse \cup LapseIf("skipped", thread[Ffi].key = 0)
     ELSE UNCHANGED <<sessionOf, logged, wal, walLapse>>
  /\ UNCHANGED <<walKey, pending, walFaults>>

\* The log of the new session cannot be opened or written: it goes on without.
StartSessionFails ==
  /\ thread[Ffi].at = "start" /\ thread[Ffi].key # 0
  /\ sessionOf[thread[Ffi].path] = 0
  /\ walFaults < MaxWalFaults
  /\ walFaults' = walFaults + 1
  /\ NewSession(thread[Ffi].path)
  /\ thread' = [thread EXCEPT ![Ffi] = Idle]
  /\ wal' = Append(wal, <<>>)
  /\ walLapse' = walLapse \cup {"failed"}
  /\ UNCHANGED <<walKey, pending>>

\* handle_change_event_sync: the key is read before the lock is taken.
Change(p) ==
  /\ thread[EventLoop].at = "rest"
  /\ Look
  /\ thread' = [thread EXCEPT ![EventLoop] = At("change", p, KeyNow)]
  /\ UNCHANGED <<sessionOf, logged, pending, wal, walFaults, walLapse>>

\* The next entry of session s, recorded by the event loop with key k.
Log(s, k) ==
  /\ logged[s] < MaxEntries
  /\ logged' = [logged EXCEPT ![s] = @ + 1]
  /\ Record(EventLoop, s, logged[s] + 1, k)

\* Saved, on a document that has a session.
Saved ==
  /\ thread[EventLoop].at = "change"
  /\ sessionOf[thread[EventLoop].path] # 0
  /\ Log(sessionOf[thread[EventLoop].path], thread[EventLoop].key)
  /\ UNCHANGED <<walKey, sessionOf, wal, walFaults>>

\* Created or Saved, on a copy of document o: o's session records it, with
\* the key of now.
SavedAs(o) ==
  /\ thread[EventLoop].at = "change"
  /\ sessionOf[thread[EventLoop].path] = 0 /\ sessionOf[o] # 0
  /\ Look
  /\ Log(sessionOf[o], KeyNow)
  /\ UNCHANGED <<sessionOf, wal, walFaults>>

\* Renamed: the session moves to the new path unless one is there.
Renamed(q) ==
  /\ thread[EventLoop].at = "change"
  /\ sessionOf[thread[EventLoop].path] # 0 /\ sessionOf[q] = 0
  /\ sessionOf' = [sessionOf EXCEPT ![q] = sessionOf[thread[EventLoop].path],
                                    ![thread[EventLoop].path] = 0]
  /\ Log(sessionOf[thread[EventLoop].path], thread[EventLoop].key)
  /\ UNCHANGED <<walKey, wal, walFaults>>

\* Deleted, or an event that records nothing.
Deleted ==
  /\ thread[EventLoop].at = "change"
  /\ \/ sessionOf' = [sessionOf EXCEPT ![thread[EventLoop].path] = 0]
     \/ UNCHANGED sessionOf
  /\ thread' = [thread EXCEPT ![EventLoop] = Idle]
  /\ UNCHANGED <<walKey, logged, pending, wal, walFaults, walLapse>>

\* end_session_sync, or the end of stop_witnessing.
EndSession(p) ==
  /\ sessionOf[p] # 0
  /\ sessionOf' = [sessionOf EXCEPT ![p] = 0]
  /\ UNCHANGED <<walKey, logged, pending, wal, thread, walFaults, walLapse>>

\* The process stops: what waits is only in memory.
Stop ==
  /\ walFaults < MaxWalFaults
  /\ walFaults' = walFaults + 1
  /\ walKey' = [walKey EXCEPT !.set = FALSE, !.hot = 0, !.cold = FALSE]
  /\ sessionOf' = [p \in Paths |-> 0]
  /\ pending' = <<>>
  /\ thread' = [t \in Threads |-> Idle]
  /\ walLapse' = walLapse \cup LapseIf("stopped",
                pending # <<>> \/ \E t \in Threads : thread[t].todo # <<>>)
  /\ UNCHANGED <<logged, wal>>

WalInit ==
  /\ walKey = [set |-> FALSE, hot |-> 0, cold |-> FALSE, made |-> 1]
  /\ sessionOf = [p \in Paths |-> 0]
  /\ logged = <<>>
  /\ pending = <<>>
  /\ wal = <<>>
  /\ thread = [t \in Threads |-> Idle]
  /\ walFaults = 0
  /\ walLapse = {}

WalNext ==
  \/ SetKey
  \/ Pause
  \/ AddEntropy
  \/ \E t \in Threads :
       \/ \E p \in Paths : Focus(t, p)
       \/ Insert(t)
       \/ OpenWal(t)
       \/ WriteWal(t)
       \/ WriteFails(t)
  \/ \E p \in Paths :
       \/ StartWitnessing(p)
       \/ Change(p)
       \/ SavedAs(p)
       \/ Renamed(p)
       \/ EndSession(p)
  \/ StartSession
  \/ StartSessionFails
  \/ Saved
  \/ Deleted
  \/ Stop

WalSpec == WalInit /\ [][WalNext]_walVars

-----------------------------------------------------------------------------
(***************************************************************************)
(* Properties.  A lapse names the event that cost an entry or its place:   *)
(*   overflow   the buffer was full and its oldest entry was dropped;      *)
(*   failed     a log could not be written;                                *)
(*   rekeyed    a log was opened with another key than it was written with;*)
(*   collided   two threads had the same log open;                         *)
(*   skipped    start_witnessing had no key;                               *)
(*   stopped    the process stopped while entries waited;                  *)
(*   overtaken  an entry was written while older ones of its session wait. *)
(***************************************************************************)

WalLapses == {"overflow", "failed", "rekeyed", "collided", "skipped", "stopped",
              "overtaken"}

EntryType == [session : 1 .. MaxLogs, n : 1 .. MaxEntries]

\* The types of the key, the sessions, the buffer, the logs and the threads.
WalTypeOK ==
  /\ walKey \in [set : BOOLEAN, hot : 0 .. MaxKeys, cold : BOOLEAN, made : 1 .. MaxKeys]
  /\ sessionOf \in [Paths -> 0 .. MaxLogs]
  /\ logged \in Seq(1 .. MaxEntries) /\ Len(logged) <= MaxLogs
  /\ pending \in Seq(EntryType) /\ Len(pending) <= MaxPending
  /\ wal \in Seq(Seq([n : 1 .. MaxEntries, key : 1 .. MaxKeys]))
  /\ Len(wal) = Len(logged)
  /\ thread \in [Threads ->
       [at : {"rest", "write", "insert", "start", "change"}, path : Paths \cup {NoPath},
        key : 0 .. MaxKeys, todo : Seq(EntryType), then : {"rest", "insert"},
        open : BOOLEAN, pos : Nat]]
  /\ walFaults \in 0 .. MaxWalFaults
  /\ walLapse \subseteq WalLapses

\* The places that hold entry n of session s: its log, the buffer and the
\* lists of the threads.
Places(s, n) ==
  {<<"wal", i>> : i \in {i \in DOMAIN wal[s] : wal[s][i].n = n}}
    \cup {<<"pending", i>> : i \in {i \in DOMAIN pending : pending[i] = Entry(s, n)}}
    \cup UNION {{<<"todo", t, i>> :
                   i \in {i \in DOMAIN thread[t].todo :
                            thread[t].todo[i] = Entry(s, n)}} : t \in Threads}

\* Every recorded entry is in exactly one place, its log in the end: none is
\* ever doubled by the buffer, its draining and the two threads, and none is
\* lost but by one of the events that the lapses name.
EachEntryOnce ==
  \A s \in Sessions : \A n \in 1 .. logged[s] :
    /\ Cardinality(Places(s, n)) <= 1
    /\ walLapse \subseteq {"overtaken"} => Places(s, n) # {}

\* The log of a session holds its entries in the order of their events, SessionStart
\* first, whatever waits in the buffer, unless an entry was written while older
\* ones of the session were waiting.
LogsInOrder ==
  "overtaken" \notin walLapse =>
    \A s \in Sessions : \A i, j \in DOMAIN wal[s] :
      i < j => wal[s][i].n < wal[s][j].n

\* The documentation of BehavioralKey: once typing has stopped, the key stays
\* locked until it is authorized again from its permanent storage.
HotKeyIsAuthorized == walKey.hot \in {0, 1}
=============================================================================
