--------------------------- MODULE SentinelProofs ---------------------------
(***************************************************************************)
(* The keystrokes, totals and locks of a session, for any number of        *)
(* callers, keystrokes, sessions and failures.                             *)
(*                                                                         *)
(* NothingIsForgotten speaks of the mark and of what is covered, and is    *)
(* not inductive: it needs to know who moved the mark last (Answered), and *)
(* that giving a claim back makes keystrokes pending again (Claims).       *)
(* TotalsDoNotShrink needs the totals that were read and are still to be   *)
(* saved (Saves), and StuckOnlyBehindStop who may hold which lock          *)
(* (LocksHeld).                                                            *)
(*                                                                         *)
(* The second half is about the logs of the same sessions, the module      *)
(* SessionWal: which entries reach them and in which order.                *)
(***************************************************************************)
EXTENDS Sentinel, SessionWal, FiniteSetTheorems, TLAPS

Ats == {"rest", "claim", "hash", "add", "rollback", "total", "save", "cosign",
        "cosign_other", "stop", "remove", "baseline", "insert", "open", "write",
        "mark", "persist", "end"}
Thens == {"rest", "stop", "persist"}
Lapses == {"rejected", "leaked", "crossed", "late", "unread", "stale"}

TaskState == [at : Ats, then : Thens, claim : Nat, prior : Nat, seen : Nat,
              total : Nat, of : Nat]
SessionState == [id : Nat, on : BOOLEAN, count : Nat, marked : Nat, base : Nat]

\* The types of the sessions, the counts, the locks and the tasks.
TypeOK ==
  /\ session \in SessionState
  /\ begun \in Nat /\ typed \in Nat /\ covered \in Nat /\ accum \in Nat
  /\ stats \in Nat /\ floor \in Nat /\ faults \in Nat
  /\ cached \in BOOLEAN /\ key \in BOOLEAN
  /\ flock \in {"free", "cached", "tick", "other"}
  /\ locks \in [{"sessions", "store"} -> Tasks \cup {Nobody}]
  /\ task \in [Tasks -> TaskState]
  /\ lapse \subseteq Lapses

\* Who waits for the second lock of a co-signature has the first, which is the one on
\* sessions; the one on the store is kept only by a call of stop_witnessing.
LocksHeld ==
  \A t \in Tasks :
    /\ task[t].at = "cosign_other" => locks["sessions"] = t
    /\ locks["store"] = t => task[t].at \in {"remove", "baseline"}

\* Sessions are numbered in order, and what was read was read of one of them.
Numbered ==
  /\ session.id = begun
  /\ \A t \in Tasks : task[t].of <= begun

\* A total on its way to the store includes that of the earlier sessions.
Saves ==
  \A t \in Tasks :
    task[t].at = "save" /\ task[t].of = session.id => task[t].total >= session.base

Totals ==
  /\ "unread" \notin lapse => session.base >= floor
  /\ TotalsDoNotShrink

\* The mark never passes the count, and a commit claims what was not marked.
Counts == "rejected" \notin lapse => session.count = typed /\ session.marked <= session.count

InFlight(c) == task[c].at \in {"hash", "add", "rollback"}

Claims == \A c \in Callers : InFlight(c) => task[c].prior < task[c].claim

\* The tick has covered what it saw, unless the session is another one by now.
Seen == task[Loop].at = "mark" /\ task[Loop].of = session.id => covered >= task[Loop].seen

\* Caller c has moved the mark to where it is, and is going to cover what it claimed, or
\* to give it back.
Answers(c) ==
  /\ InFlight(c)
  /\ task[c].claim = session.marked
  /\ task[c].at = "add" => task[c].of = session.id /\ task[c].seen >= session.marked

Clean == lapse \cap {"rejected", "leaked", "crossed", "late"} = {}

Answered ==
  Clean /\ session.on /\ session.marked = session.count /\ session.count > covered
    => \E c \in Callers : Answers(c)

SInv == TypeOK /\ LocksHeld /\ Numbered /\ Saves /\ Totals /\ Counts /\ Claims /\ Seen /\ Answered

-----------------------------------------------------------------------------
(* The record of a task after a step *)

\* Only task t changes.
Turns(t) ==
  /\ task' \in [Tasks -> TaskState]
  /\ \A u \in Tasks \ {t} : task'[u] = task[u]

LEMMA RestingType ==
  /\ Resting \in TaskState
  /\ Resting.at = "rest" /\ Resting.then = "rest" /\ Resting.of = 0
  BY DEF Resting, TaskState, Ats, Thens

LEMMA Turned ==
  ASSUME TypeOK, NEW t \in Tasks, NEW r \in TaskState, task' = [task EXCEPT ![t] = r]
  PROVE  Turns(t) /\ task'[t] = r
  BY DEF TypeOK, Turns

LEMMA RestType ==
  ASSUME TypeOK, NEW t \in Tasks, task' = [task EXCEPT ![t] = Resting]
  PROVE  Turns(t) /\ task'[t].at = "rest" /\ task'[t].of = 0
  BY Turned, RestingType

\* A record that was reset, at a given step.
LEMMA FreshType ==
  ASSUME NEW at \in Ats, NEW then \in Thens
  PROVE  /\ [Resting EXCEPT !.at = at, !.then = then] \in TaskState
         /\ [Resting EXCEPT !.at = at, !.then = then].at = at
         /\ [Resting EXCEPT !.at = at, !.then = then].then = then
         /\ [Resting EXCEPT !.at = at, !.then = then].of = 0
  <1> DEFINE n == Resting
  <1>1. n \in TaskState /\ n.of = 0
    BY RestingType
  <1> HIDE DEF n
  <1>2. /\ [n EXCEPT !.at = at, !.then = then] \in TaskState
        /\ [n EXCEPT !.at = at, !.then = then].at = at
        /\ [n EXCEPT !.at = at, !.then = then].then = then
        /\ [n EXCEPT !.at = at, !.then = then].of = 0
    BY <1>1 DEF TaskState
  <1> QED
    BY <1>2 DEF n

LEMMA GoType ==
  ASSUME TypeOK, NEW t \in Tasks, NEW step \in Ats, Go(t, step)
  PROVE  Turns(t) /\ task'[t].at = step /\ task'[t].of = 0
  <1> DEFINE r == [Resting EXCEPT !.at = step, !.then = task[t].then]
  <1>1. task[t].then \in Thens
    BY DEF TypeOK, TaskState
  <1>2. r \in TaskState /\ r.at = step /\ r.of = 0
    BY <1>1, FreshType
  <1>3. task' = [task EXCEPT ![t] = r]
    BY DEF Go
  <1> HIDE DEF r
  <1> QED
    BY <1>2, <1>3, Turned

LEMMA ReturnType ==
  ASSUME TypeOK, NEW t \in Tasks, Return(t)
  PROVE  Turns(t) /\ task'[t].at \in Thens /\ task'[t].of = 0
  <1> DEFINE th == task[t].then
             to == IF th = "rest" THEN "rest" ELSE "stop"
             r == [Resting EXCEPT !.at = th, !.then = to]
  <1>1. th \in Thens /\ th \in Ats /\ to \in Thens
    BY DEF TypeOK, TaskState, Thens, Ats
  <1>2. task' = [task EXCEPT ![t] = r]
    BY DEF Return
  <1> HIDE DEF th, to
  <1>3. r \in TaskState /\ r.at = th /\ r.of = 0
    BY <1>1, FreshType
  <1> HIDE DEF r
  <1> QED
    BY <1>1, <1>2, <1>3, Turned

\* The record of a task that keeps what it has read, but for these fields.
LEMMA KeepType ==
  ASSUME TypeOK, NEW t \in Tasks, NEW at \in Ats, NEW then \in Thens,
         NEW seen \in Nat, NEW total \in Nat, NEW of \in Nat,
         task' = [task EXCEPT ![t].at = at, ![t].then = then, ![t].seen = seen,
                              ![t].total = total, ![t].of = of]
  PROVE  /\ Turns(t) /\ task'[t].at = at /\ task'[t].then = then /\ task'[t].seen = seen
         /\ task'[t].total = total /\ task'[t].of = of
         /\ task'[t].claim = task[t].claim /\ task'[t].prior = task[t].prior
  <1> DEFINE r == [task[t] EXCEPT !.at = at, !.then = then, !.seen = seen, !.total = total, !.of = of]
  <1>1. task[t] \in TaskState /\ task \in [Tasks -> TaskState]
    BY DEF TypeOK
  <1>2. task' = [task EXCEPT ![t] = r]
    BY <1>1
  <1>3. /\ r \in TaskState /\ r.at = at /\ r.then = then /\ r.seen = seen /\ r.total = total
        /\ r.of = of /\ r.claim = task[t].claim /\ r.prior = task[t].prior
    BY <1>1 DEF TaskState
  <1> HIDE DEF r
  <1> QED
    BY <1>2, <1>3, Turned

\* The locks after a step of t that takes none.
LEMMA LocksStay ==
  ASSUME TypeOK, LocksHeld, NEW t \in Tasks, Turns(t), task'[t].at # "cosign_other",
         Unlock(t) \/ (UNCHANGED locks /\ task[t].at \notin {"remove", "baseline"})
  PROVE  locks' \in [{"sessions", "store"} -> Tasks \cup {Nobody}] /\ LocksHeld'
  <1>1. /\ locks' \in [{"sessions", "store"} -> Tasks \cup {Nobody}]
        /\ \A l \in {"sessions", "store"} : \A u \in Tasks \ {t} : locks'[l] = u <=> locks[l] = u
        /\ locks'["store"] # t
    <2>1. Nobody \notin Tasks
      BY SentinelAssumption DEF Tasks
    <2>2. CASE Unlock(t)
      BY <2>1, <2>2 DEF TypeOK, Unlock
    <2>3. CASE UNCHANGED locks /\ task[t].at \notin {"remove", "baseline"}
      BY <2>3 DEF TypeOK, LocksHeld
    <2> QED
      BY <2>2, <2>3
  <1> QED
    BY <1>1 DEF LocksHeld, Turns

\* Task t goes on to a step of which the invariant says nothing but for the locks, and
\* leaves the session and the counts alone.
LEMMA LockPreserves ==
  ASSUME SInv, NEW t \in Tasks, Turns(t),
         task'[t].at \notin {"save", "mark", "hash", "add", "rollback"},
         task'[t].of <= begun,
         UNCHANGED <<session, begun, typed, covered, accum, stats, floor>>,
         cached' \in BOOLEAN, key' \in BOOLEAN, flock' \in {"free", "cached", "tick", "other"},
         faults' \in Nat, lapse \subseteq lapse', lapse' \subseteq Lapses,
         locks' \in [{"sessions", "store"} -> Tasks \cup {Nobody}], LocksHeld',
         InFlight(t) => "leaked" \in lapse'
  PROVE  SInv'
  <1>t. TypeOK
    BY DEF SInv
  <1>b. task' \in [Tasks -> TaskState] /\ \A u \in Tasks \ {t} : task'[u] = task[u]
    BY DEF Turns
  <1>1. TypeOK'
    BY <1>t, <1>b DEF TypeOK
  <1>2. Numbered'
    BY <1>b DEF SInv, Numbered
  <1>3. Saves' /\ Totals'
    BY <1>b DEF SInv, Saves, Totals, TotalsDoNotShrink
  <1>4. Counts' /\ Claims' /\ Seen'
    BY <1>b DEF SInv, Counts, Claims, InFlight, Seen, Tasks
  <1>5. Answered'
    <2> SUFFICES ASSUME Clean', session.on, session.marked = session.count, session.count > covered
                 PROVE  \E c \in Callers : Answers(c)'
      BY DEF Answered
    <2>1. Clean /\ ~InFlight(t)
      BY DEF Clean
    <2>2. PICK c \in Callers : Answers(c)
      BY <2>1 DEF SInv, Answered
    <2>3. c # t /\ task'[c] = task[c]
      BY <1>b, <2>1, <2>2 DEF Answers, Tasks
    <2> QED
      BY <2>2, <2>3 DEF Answers, InFlight
  <1> QED
    BY <1>1, <1>2, <1>3, <1>4, <1>5 DEF SInv

LEMMA QuietPreserves ==
  ASSUME SInv, NEW t \in Tasks, Turns(t),
         task'[t].at \notin {"cosign_other", "save", "mark", "hash", "add", "rollback"},
         task'[t].of <= begun,
         UNCHANGED <<session, begun, typed, covered, accum, stats, floor>>,
         cached' \in BOOLEAN, key' \in BOOLEAN, flock' \in {"free", "cached", "tick", "other"},
         faults' \in Nat, lapse \subseteq lapse', lapse' \subseteq Lapses,
         Unlock(t) \/ (UNCHANGED locks /\ task[t].at \notin {"remove", "baseline"}),
         InFlight(t) => "leaked" \in lapse'
  PROVE  SInv'
  <1>1. locks' \in [{"sessions", "store"} -> Tasks \cup {Nobody}] /\ LocksHeld'
    BY LocksStay DEF SInv
  <1> QED
    BY <1>1, LockPreserves

-----------------------------------------------------------------------------
(* Every step preserves the invariant *)

LEMMA OutsidePreserves ==
  ASSUME SInv, KeyChanges \/ SetSigningKey \/ OtherProcess \/ UNCHANGED vars
  PROVE  SInv'
  <1>1. /\ UNCHANGED <<session, begun, typed, covered, accum, stats, floor, locks, task, faults, lapse>>
        /\ cached' \in BOOLEAN /\ key' \in BOOLEAN /\ flock' \in {"free", "cached", "tick", "other"}
    BY DEF SInv, TypeOK, KeyChanges, SetSigningKey, OtherProcess, vars
  <1>2. TypeOK'
    BY <1>1 DEF SInv, TypeOK
  <1>3. LocksHeld' /\ Numbered' /\ Saves'
    BY <1>1 DEF SInv, LocksHeld, Numbered, Saves
  <1>4. Totals' /\ Counts' /\ Claims' /\ Seen'
    BY <1>1 DEF SInv, Totals, TotalsDoNotShrink, Counts, Claims, InFlight, Seen
  <1>5. Answered'
    BY <1>1 DEF SInv, Answered, Answers, InFlight, Clean
  <1> QED
    BY <1>2, <1>3, <1>4, <1>5 DEF SInv

LEMMA InjectPreserves ==
  ASSUME SInv, Inject \/ InjectRejected
  PROVE  SInv'
  <1>t. TypeOK
    BY DEF SInv
  <1>1. /\ session' \in SessionState /\ session'.id = session.id /\ session'.on = session.on
        /\ session'.marked = session.marked /\ session'.base = session.base
        /\ UNCHANGED <<begun, covered, stats, floor, cached, flock, locks, key, task>>
        /\ lapse \subseteq lapse' /\ lapse' \subseteq lapse \cup {"rejected"}
        /\ accum' \in Nat /\ typed' \in Nat /\ faults' \in Nat
        /\ \/ session'.count = session.count + 1 /\ typed' = typed + 1
           \/ "rejected" \in lapse'
    <2>r. session \in SessionState
      BY <1>t DEF TypeOK
    <2>1. CASE Inject
      <3>1. session' = [session EXCEPT !.count = session.count + 1] /\ typed' = typed + 1
            /\ accum' = accum + 1
            /\ UNCHANGED <<begun, covered, stats, floor, cached, flock, locks, key, task, faults, lapse>>
        BY <2>1, <2>r DEF Inject, SessionState
      <3>2. accum' \in Nat /\ typed' \in Nat /\ faults' \in Nat
        BY <1>t, <3>1 DEF TypeOK
      <3>3. /\ session' \in SessionState /\ session'.id = session.id /\ session'.on = session.on
            /\ session'.marked = session.marked /\ session'.base = session.base
            /\ session'.count = session.count + 1
        BY <2>r, <3>1 DEF SessionState
      <3> QED
        BY <3>1, <3>2, <3>3
    <2>2. CASE InjectRejected
      <3>1. session' = [session EXCEPT !.count = session.count - 1] /\ session.count > 0
            /\ faults' = faults + 1 /\ lapse' = lapse \cup {"rejected"}
            /\ UNCHANGED <<begun, typed, covered, accum, stats, floor, cached, flock, locks, key, task>>
        BY <2>2, <2>r DEF InjectRejected, Fault, SessionState
      <3>2. accum' \in Nat /\ typed' \in Nat /\ faults' \in Nat
        BY <1>t, <3>1 DEF TypeOK
      <3>3. /\ session' \in SessionState /\ session'.id = session.id /\ session'.on = session.on
            /\ session'.marked = session.marked /\ session'.base = session.base
        BY <2>r, <3>1 DEF SessionState
      <3> QED
        BY <3>1, <3>2, <3>3
    <2> QED
      BY <2>1, <2>2
  <1>2. TypeOK'
    BY <1>t, <1>1 DEF TypeOK, Lapses
  <1>3. LocksHeld' /\ Numbered' /\ Saves'
    BY <1>1 DEF SInv, LocksHeld, Numbered, Saves
  <1>4. Totals' /\ Claims' /\ Seen'
    BY <1>1 DEF SInv, Totals, TotalsDoNotShrink, Claims, InFlight, Seen
  <1>5. Counts'
    BY <1>t, <1>1 DEF SInv, Counts, TypeOK, SessionState
  <1>6. Answered'
    <2>1. Clean' => session'.marked < session'.count
      BY <1>t, <1>1 DEF SInv, Clean, Counts, TypeOK, SessionState
    <2> QED
      BY <1>t, <1>1, <2>1 DEF Answered, TypeOK, SessionState
  <1> QED
    BY <1>2, <1>3, <1>4, <1>5, <1>6 DEF SInv

\* The steps of a caller of which the invariant says nothing.
LEMMA CallerPreserves ==
  ASSUME SInv, NEW c \in Callers, Commit(c) \/ StopWitnessing(c) \/ HashFails(c) \/ StopBaseline(c)
  PROVE  SInv'
  <1>t. TypeOK /\ c \in Tasks /\ begun \in Nat /\ UNCHANGED <<session, begun, typed, covered, accum, stats, floor, key>>
    BY DEF SInv, TypeOK, Tasks, Commit, StopWitnessing, HashFails, StopBaseline
  <1>1. CASE Commit(c)
    <2> DEFINE r == [Resting EXCEPT !.at = "claim"]
    <2> DEFINE n == Resting
    <2>1. n \in TaskState /\ n.of = 0
      BY RestingType
    <2> HIDE DEF n
    <2>2. [n EXCEPT !.at = "claim"] \in TaskState /\ [n EXCEPT !.at = "claim"].at = "claim"
          /\ [n EXCEPT !.at = "claim"].of = 0
      BY <2>1 DEF TaskState, Ats
    <2>3. r \in TaskState /\ r.at = "claim" /\ r.of = 0
      BY <2>2 DEF n
    <2>4. task' = [task EXCEPT ![c] = r]
      BY <1>1 DEF Commit
    <2> HIDE DEF r
    <2>5. Turns(c) /\ task'[c].at = "claim" /\ task'[c].of = 0
      BY <1>t, <2>3, <2>4, Turned
    <2> QED
      BY <1>t, <1>1, <2>5, QuietPreserves DEF SInv, TypeOK, Commit, InFlight
  <1>2. CASE StopWitnessing(c)
    <2> DEFINE r == [Resting EXCEPT !.at = "claim", !.then = "stop"]
    <2>1. r \in TaskState /\ r.at = "claim" /\ r.of = 0
      BY FreshType DEF Ats, Thens
    <2>2. task' = [task EXCEPT ![c] = r]
      BY <1>2 DEF StopWitnessing
    <2> HIDE DEF r
    <2>3. Turns(c) /\ task'[c].at = "claim" /\ task'[c].of = 0
      BY <1>t, <2>1, <2>2, Turned
    <2> QED
      BY <1>t, <1>2, <2>3, QuietPreserves DEF SInv, TypeOK, StopWitnessing, InFlight
  <1>3. CASE HashFails(c)
    <2>1. Turns(c) /\ task'[c].at \in Thens /\ task'[c].of = 0
      BY <1>t, <1>3, ReturnType DEF HashFails
    <2>2. faults' \in Nat
      BY <1>t, <1>3 DEF HashFails, Fault, TypeOK
    <2> QED
      BY <1>t, <1>3, <2>1, <2>2, QuietPreserves DEF SInv, TypeOK, HashFails, InFlight, Thens, Lapses
  <1>4. CASE StopBaseline(c)
    <2>1. Turns(c) /\ task'[c].at = "rest" /\ task'[c].of = 0
      BY <1>t, <1>4, RestType DEF StopBaseline
    <2>2. cached' \in BOOLEAN /\ flock' \in {"free", "cached", "tick", "other"}
      BY <1>t, <1>4 DEF StopBaseline, OpenCached, TypeOK
    <2> QED
      BY <1>t, <1>4, <2>1, <2>2, QuietPreserves DEF SInv, TypeOK, StopBaseline, InFlight
  <1> QED
    BY <1>1, <1>2, <1>3, <1>4

\* ... and those of any task and of the event loop.
LEMMA LoopPreserves ==
  ASSUME SInv, NEW t \in Tasks,
         CosignStore(t) \/ LoadTotal(t)
         \/ (t = Loop /\ (Tick \/ TickOpen \/ TickFails \/ IdleCheck \/ RestoreBundle))
  PROVE  SInv'
  <1>t. TypeOK /\ begun \in Nat /\ UNCHANGED <<session, begun, typed, covered, accum, stats, floor, key, faults, lapse>>
    BY DEF SInv, TypeOK, CosignStore, LoadTotal, Tick, TickOpen, TickFails, IdleCheck, RestoreBundle
  <1>f. /\ lapse \subseteq lapse' /\ lapse' \subseteq Lapses /\ faults' \in Nat /\ key' \in BOOLEAN
        /\ cached' \in BOOLEAN /\ flock' \in {"free", "cached", "tick", "other"}
    <2>1. lapse \subseteq lapse' /\ lapse' \subseteq Lapses /\ faults' \in Nat /\ key' \in BOOLEAN
      BY <1>t DEF TypeOK
    <2>2. cached' \in BOOLEAN /\ flock' \in {"free", "cached", "tick", "other"}
      BY <1>t DEF TypeOK, CosignStore, LoadTotal, Tick, TickOpen, TickFails, IdleCheck, RestoreBundle,
                  OpenCached
    <2> QED
      BY <2>1, <2>2
  <1>1. CASE CosignStore(t)
    <2>1. Turns(t) /\ task'[t].at \in Thens /\ task'[t].of = 0
      BY <1>t, <1>1, ReturnType DEF CosignStore
    <2>2. Unlock(t) /\ ~InFlight(t)
      BY <1>1 DEF CosignStore, Unlock, InFlight
    <2> QED
      BY <1>t, <1>f, <2>1, <2>2, QuietPreserves DEF Thens
  <1>2. CASE LoadTotal(t)
    <2> DEFINE loaded == IF t = Loop THEN key /\ flock = "free" ELSE CanOpen
               total == IF loaded THEN stats ELSE 0
               r == [Resting EXCEPT !.at = "insert", !.total = total]
               n == Resting
    <2>1. n \in TaskState /\ n.of = 0 /\ total \in Nat
      BY <1>t, RestingType DEF TypeOK
    <2>2. task' = [task EXCEPT ![t] = r]
      BY <1>2 DEF LoadTotal
    <2> HIDE DEF n, total
    <2>3. [n EXCEPT !.at = "insert", !.total = total] \in TaskState
          /\ [n EXCEPT !.at = "insert", !.total = total].at = "insert"
          /\ [n EXCEPT !.at = "insert", !.total = total].of = 0
      BY <2>1 DEF TaskState, Ats
    <2>4. r \in TaskState /\ r.at = "insert" /\ r.of = 0
      BY <2>3 DEF n
    <2> HIDE DEF r
    <2>5. Turns(t) /\ task'[t].at = "insert" /\ task'[t].of = 0
      BY <1>t, <2>2, <2>4, Turned
    <2> QED
      BY <1>t, <1>f, <1>2, <2>5, QuietPreserves DEF LoadTotal, InFlight
  <1>3. CASE t = Loop /\ Tick
    <2>1. Turns(t) /\ task'[t].at = "open" /\ task'[t].of = 0
      BY <1>t, <1>3, GoType DEF Tick, Ats
    <2> QED
      BY <1>t, <1>f, <1>3, <2>1, QuietPreserves DEF Tick, InFlight
  <1>4. CASE t = Loop /\ TickOpen
    <2> DEFINE r == [task[t] EXCEPT !.at = "write", !.seen = typed, !.of = session.id]
    <2>1. task[t] \in TaskState /\ task \in [Tasks -> TaskState] /\ typed \in Nat /\ session.id \in Nat
          /\ session.id = begun
      BY <1>t DEF SInv, TypeOK, SessionState, Numbered
    <2>2. r \in TaskState /\ r.at = "write" /\ r.of = session.id
      BY <2>1 DEF TaskState, Ats
    <2>3. task' = [task EXCEPT ![t] = r]
      BY <1>4, <2>1 DEF TickOpen
    <2> HIDE DEF r
    <2>4. Turns(t) /\ task'[t].at = "write" /\ task'[t].of = begun
      BY <1>t, <2>1, <2>2, <2>3, Turned
    <2>5. task'[t].of <= begun /\ ~InFlight(t) /\ UNCHANGED locks
          /\ task[t].at \notin {"remove", "baseline"}
      BY <1>t, <1>4, <2>4 DEF TickOpen, InFlight
    <2> QED
      BY <1>t, <1>f, <2>4, <2>5, QuietPreserves
  <1>5. CASE t = Loop /\ TickFails
    <2>1. Turns(t) /\ task'[t].at \in Thens /\ task'[t].of = 0
      BY <1>t, <1>5, ReturnType DEF TickFails
    <2> QED
      BY <1>t, <1>f, <1>5, <2>1, QuietPreserves DEF TickFails, InFlight, Thens
  <1>6. CASE t = Loop /\ IdleCheck
    <2> DEFINE at == IF Pending THEN "open" ELSE "persist"
               r == [Resting EXCEPT !.at = at, !.then = "persist"]
    <2>1. at \in {"open", "persist"}
      OBVIOUS
    <2>2. task' = [task EXCEPT ![t] = r]
      BY <1>6 DEF IdleCheck
    <2> HIDE DEF at
    <2>3. at \in Ats /\ "persist" \in Thens
      BY <2>1 DEF Ats, Thens
    <2>5. r \in TaskState /\ r.at = at /\ r.of = 0
      BY <2>3, FreshType
    <2> HIDE DEF r
    <2>4. Turns(t) /\ task'[t].at = at /\ task'[t].of = 0
      BY <1>t, <2>2, <2>5, Turned
    <2> QED
      BY <1>t, <1>f, <1>6, <2>1, <2>4, QuietPreserves DEF IdleCheck, InFlight
  <1>7. CASE t = Loop /\ RestoreBundle
    <2>1. Turns(t) /\ task'[t].at = "cosign" /\ task'[t].of = 0
      BY <1>t, <1>7, GoType DEF RestoreBundle, Ats
    <2> QED
      BY <1>t, <1>f, <1>7, <2>1, QuietPreserves DEF RestoreBundle, InFlight
  <1> QED
    BY <1>1, <1>2, <1>3, <1>4, <1>5, <1>6, <1>7

LEMMA LockingPreserves ==
  ASSUME SInv, NEW t \in Tasks, CosignSessions(t) \/ StopStore(t)
  PROVE  SInv'
  <1>t. /\ TypeOK /\ begun \in Nat /\ LocksHeld /\ t # Nobody /\ ~InFlight(t)
        /\ UNCHANGED <<session, begun, typed, covered, accum, stats, floor, key, faults, lapse>>
        /\ \A u \in Tasks : u # Nobody
    BY SentinelAssumption DEF SInv, TypeOK, CosignSessions, StopStore, Tasks, InFlight
  <1>f. /\ lapse \subseteq lapse' /\ lapse' \subseteq Lapses /\ faults' \in Nat /\ key' \in BOOLEAN
    BY <1>t DEF TypeOK
  <1>1. CASE CosignSessions(t)
    <2>1. Turns(t) /\ task'[t].at = "cosign_other" /\ task'[t].of = 0
      BY <1>t, <1>1, GoType DEF CosignSessions, Ats
    <2>2. /\ locks' \in [{"sessions", "store"} -> Tasks \cup {Nobody}]
          /\ locks'["sessions"] = t /\ locks'["store"] = locks["store"]
          /\ locks["sessions"] = Nobody /\ task[t].at = "cosign"
      BY <1>t, <1>1 DEF CosignSessions, Free, TypeOK
    <2>3. LocksHeld'
      BY <1>t, <2>1, <2>2 DEF LocksHeld, Turns
    <2>4. cached' \in BOOLEAN /\ flock' \in {"free", "cached", "tick", "other"}
      BY <1>t, <1>1 DEF CosignSessions, TypeOK
    <2> QED
      BY <1>t, <1>f, <2>1, <2>2, <2>3, <2>4, LockPreserves
  <1>2. CASE StopStore(t)
    <2>1. Turns(t) /\ task'[t].at = "remove" /\ task'[t].of = 0
      BY <1>t, <1>2, GoType DEF StopStore, Ats
    <2>2. /\ locks' \in [{"sessions", "store"} -> Tasks \cup {Nobody}]
          /\ locks'["sessions"] = locks["sessions"] /\ locks'["store"] \in {t, locks["store"]}
          /\ task[t].at = "stop" /\ locks["store"] = Nobody
      BY <1>t, <1>2 DEF StopStore, Free, TypeOK
    <2>3. LocksHeld'
      BY <1>t, <2>1, <2>2 DEF LocksHeld, Turns
    <2>4. cached' \in BOOLEAN /\ flock' \in {"free", "cached", "tick", "other"}
      BY <1>t, <1>2 DEF StopStore, OpenCached, TypeOK
    <2> QED
      BY <1>t, <1>f, <2>1, <2>2, <2>3, <2>4, LockPreserves
  <1> QED
    BY <1>1, <1>2

LEMMA ClaimPreserves ==
  ASSUME SInv, NEW c \in Callers, Claim(c)
  PROVE  SInv'
  <1>t. /\ TypeOK /\ LocksHeld /\ c \in Tasks /\ begun \in Nat /\ session \in SessionState
        /\ task \in [Tasks -> TaskState] /\ task[c].at = "claim" /\ c # Loop /\ ~InFlight(c)
        /\ UNCHANGED <<begun, typed, covered, accum, stats, floor, cached, flock, locks, key, faults, lapse>>
    BY SentinelAssumption DEF SInv, TypeOK, Tasks, Claim, InFlight
  <1>1. CASE ~Pending
    <2>1. Turns(c) /\ task'[c].at \in Thens /\ task'[c].of = 0 /\ UNCHANGED session
      BY <1>t, <1>1, ReturnType DEF Claim
    <2> QED
      BY <1>t, <2>1, QuietPreserves DEF Thens, TypeOK
  <1>2. CASE Pending
    <2> DEFINE r == [task[c] EXCEPT !.at = "hash", !.claim = session.count, !.prior = session.marked]
    <2>1. task[c] \in TaskState /\ session.count \in Nat /\ session.marked \in Nat
          /\ session.marked < session.count
      BY <1>t, <1>2 DEF SessionState, Pending
    <2>2. r \in TaskState /\ r.at = "hash" /\ r.claim = session.count /\ r.prior = session.marked
          /\ r.of = task[c].of
      BY <2>1 DEF TaskState, Ats
    <2>3. task' = [task EXCEPT ![c] = r] /\ session' = [session EXCEPT !.marked = session.count]
      BY <1>t, <1>2 DEF Claim
    <2> HIDE DEF r
    <2>b. /\ Turns(c) /\ task'[c] = r /\ task' \in [Tasks -> TaskState]
          /\ \A u \in Tasks \ {c} : task'[u] = task[u]
      BY <1>t, <2>2, <2>3, Turned DEF Turns
    <2>s. /\ session' \in SessionState /\ session'.id = session.id /\ session'.on = session.on
          /\ session'.count = session.count /\ session'.base = session.base
          /\ session'.marked = session.count
      BY <1>t, <2>1, <2>3 DEF SessionState
    <2>4. TypeOK'
      BY <1>t, <2>b, <2>s DEF TypeOK
    <2>5. LocksHeld'
      BY <1>t, <2>2, <2>b, LocksStay
    <2>6. Numbered' /\ Saves' /\ Totals'
      BY <1>t, <2>2, <2>b, <2>s DEF SInv, Numbered, Saves, Totals, TotalsDoNotShrink
    <2>7. Counts' /\ Claims' /\ Seen'
      BY <1>t, <2>1, <2>2, <2>b, <2>s DEF SInv, Counts, Claims, InFlight, Seen, Tasks
    <2>8. Answers(c)'
      BY <2>2, <2>b, <2>s DEF Answers, InFlight
    <2> QED
      BY <2>4, <2>5, <2>6, <2>7, <2>8 DEF SInv, Answered
  <1> QED
    BY <1>1, <1>2

LEMMA HashPreserves ==
  ASSUME SInv, NEW c \in Callers, Hash(c) \/ AddEventFails(c)
  PROVE  SInv'
  <1>t. /\ TypeOK /\ LocksHeld /\ c \in Tasks /\ begun \in Nat /\ session \in SessionState
        /\ task \in [Tasks -> TaskState] /\ task[c] \in TaskState
        /\ InFlight(c) /\ c # Loop /\ typed \in Nat /\ session.id = begun
        /\ task[c].at \notin {"remove", "baseline"}
        /\ UNCHANGED <<session, begun, typed, covered, accum, stats, floor, cached, flock, locks, key, faults, lapse>>
    BY SentinelAssumption DEF SInv, TypeOK, Numbered, Tasks, Hash, AddEventFails, InFlight
  <1>b. /\ Turns(c) /\ task' \in [Tasks -> TaskState] /\ task'[c].of <= begun
        /\ \A u \in Tasks \ {c} : task'[u] = task[u]
        /\ task'[c].claim = task[c].claim /\ task'[c].prior = task[c].prior
        /\ \/ task'[c].at = "add" /\ task'[c].of = session.id /\ task'[c].seen = typed
           \/ task'[c].at = "rollback"
    <2>1. CASE Hash(c)
      <3> DEFINE r == [task[c] EXCEPT !.at = "add", !.seen = typed, !.of = session.id]
      <3>1. task' = [task EXCEPT ![c] = r]
        BY <1>t, <2>1 DEF Hash
      <3>2. /\ r \in TaskState /\ r.at = "add" /\ r.of = session.id /\ r.seen = typed
            /\ r.claim = task[c].claim /\ r.prior = task[c].prior
        BY <1>t DEF TaskState, Ats
      <3> HIDE DEF r
      <3> QED
        BY <1>t, <3>1, <3>2, Turned DEF Turns
    <2>2. CASE AddEventFails(c)
      <3> DEFINE r == [task[c] EXCEPT !.at = "rollback", !.seen = 0, !.of = 0]
      <3>1. task' = [task EXCEPT ![c] = r]
        BY <1>t, <2>2 DEF AddEventFails
      <3>2. /\ r \in TaskState /\ r.at = "rollback" /\ r.of = 0
            /\ r.claim = task[c].claim /\ r.prior = task[c].prior
        BY <1>t DEF TaskState, Ats
      <3> HIDE DEF r
      <3> QED
        BY <1>t, <3>1, <3>2, Turned DEF Turns
    <2> QED
      BY <2>1, <2>2
  <1>1. TypeOK'
    BY <1>t, <1>b DEF TypeOK
  <1>2. LocksHeld'
    BY <1>t, <1>b, LocksStay
  <1>3. Numbered' /\ Saves' /\ Totals'
    BY <1>t, <1>b DEF SInv, Numbered, Saves, Totals, TotalsDoNotShrink
  <1>4. Counts' /\ Claims' /\ Seen'
    BY <1>t, <1>b DEF SInv, Counts, Claims, InFlight, Seen, Tasks
  <1>5. Answered'
    <2> SUFFICES ASSUME Clean, session.on, session.marked = session.count, session.count > covered
                 PROVE  \E u \in Callers : Answers(u)'
      BY <1>t DEF Answered, Clean
    <2>1. PICK u \in Callers : Answers(u)
      BY DEF SInv, Answered
    <2>2. session.marked = typed
      BY DEF SInv, Counts, Clean
    <2>3. CASE u = c
      BY <1>t, <1>b, <2>1, <2>2, <2>3 DEF Answers, InFlight
    <2>4. CASE u # c
      BY <1>t, <1>b, <2>1, <2>4 DEF Answers, InFlight, Tasks
    <2> QED
      BY <2>3, <2>4
  <1> QED
    BY <1>1, <1>2, <1>3, <1>4, <1>5 DEF SInv

\* What an event covers.
LEMMA CoverType ==
  ASSUME TypeOK, NEW t \in Tasks, Cover(t)
  PROVE  /\ covered' \in Nat /\ covered' >= covered
         /\ task[t].of = session.id => covered' >= task[t].seen
  <1>1. task[t].seen \in Nat /\ covered \in Nat
    BY DEF TypeOK, TaskState
  <1> QED
    BY <1>1 DEF Cover

\* An event is stored, by caller c or by the tick.
LEMMA StorePreserves ==
  ASSUME SInv, NEW t \in Tasks, (t # Loop /\ AddEvent(t)) \/ (t = Loop /\ TickWrite)
  PROVE  SInv'
  <1>t. /\ TypeOK /\ LocksHeld /\ begun \in Nat /\ session \in SessionState
        /\ task \in [Tasks -> TaskState] /\ task[t] \in TaskState /\ Cover(t)
        /\ covered \in Nat /\ task[t].of <= begun
        /\ UNCHANGED <<session, begun, typed, accum, stats, floor, locks, key, faults, lapse>>
    BY DEF SInv, TypeOK, Numbered, AddEvent, TickWrite
  <1>b. /\ Turns(t) /\ task'[t].of <= begun /\ task[t].at \in {"add", "write"}
        /\ \/ task'[t].at \in Thens \cup {"total"}
           \/ /\ task'[t].at = "mark" /\ task'[t].of = task[t].of /\ task'[t].seen = task[t].seen
    <2>1. CASE AddEvent(t) \/ (TickWrite /\ Return(t) /\ task[t].at = "write")
      BY <1>t, <2>1, GoType, ReturnType DEF AddEvent, Ats
    <2>2. CASE TickWrite /\ t = Loop /\ task[t].then = "rest"
      <3> DEFINE r == [task[t] EXCEPT !.at = "mark"]
      <3>1. task' = [task EXCEPT ![t] = r] /\ task[t].at = "write"
        BY <1>t, <2>2 DEF TickWrite
      <3>2. r \in TaskState /\ r.at = "mark" /\ r.of = task[t].of /\ r.seen = task[t].seen
        BY <1>t DEF TaskState, Ats
      <3> HIDE DEF r
      <3> QED
        BY <1>t, <3>1, <3>2, Turned
    <2> QED
      BY <2>1, <2>2 DEF TickWrite
  <1>c. /\ covered' \in Nat /\ covered' >= covered
        /\ task[t].of = session.id => covered' >= task[t].seen
    BY <1>t, CoverType
  <1>u. \A u \in Tasks \ {t} : task'[u] = task[u]
    BY <1>b DEF Turns
  <1>1. TypeOK'
    <2>1. cached' \in BOOLEAN /\ flock' \in {"free", "cached", "tick", "other"}
      BY <1>t DEF AddEvent, TickWrite, OpenCached, TypeOK
    <2> QED
      BY <1>t, <1>b, <1>c, <2>1 DEF TypeOK, Turns
  <1>2. LocksHeld'
    BY <1>t, <1>b, LocksStay DEF Thens
  <1>3. Numbered' /\ Saves' /\ Totals'
    BY <1>t, <1>b, <1>u DEF SInv, Numbered, Saves, Totals, TotalsDoNotShrink, Thens
  <1>4. Counts' /\ Claims'
    BY <1>t, <1>b, <1>u DEF SInv, Counts, Claims, InFlight, Tasks, Thens
  <1>5. Seen'
    <2>1. CASE t = Loop
      BY <1>t, <1>b, <1>c, <2>1 DEF Seen, Thens
    <2>2. CASE t # Loop
      <3>1. task'[Loop] = task[Loop] /\ task[Loop].seen \in Nat
        BY <1>t, <1>u, <2>2 DEF Tasks, TaskState
      <3> QED
        BY <1>t, <1>c, <3>1 DEF SInv, Seen
    <2> QED
      BY <2>1, <2>2
  <1>6. Answered'
    <2> SUFFICES ASSUME Clean, session.on, session.marked = session.count, session.count > covered'
                 PROVE  \E u \in Callers : Answers(u)'
      BY <1>t DEF Answered, Clean
    <2>0. session.count \in Nat /\ session.count > covered
      BY <1>t, <1>c DEF SessionState
    <2>1. PICK u \in Callers : Answers(u)
      BY <2>0 DEF SInv, Answered
    <2>2. u # t
      BY <1>t, <1>b, <1>c, <2>0, <2>1 DEF Answers, InFlight, TaskState
    <2> QED
      BY <1>t, <1>u, <2>1, <2>2 DEF Answers, InFlight, Tasks
  <1> QED
    BY <1>1, <1>2, <1>3, <1>4, <1>5, <1>6 DEF SInv

LEMMA RollbackPreserves ==
  ASSUME SInv, NEW c \in Callers, Rollback(c)
  PROVE  SInv'
  <1>t. /\ TypeOK /\ LocksHeld /\ c \in Tasks /\ begun \in Nat /\ session \in SessionState
        /\ task \in [Tasks -> TaskState] /\ task[c] \in TaskState /\ c # Loop
        /\ task[c].at = "rollback" /\ task[c].prior < task[c].claim
        /\ lapse' = lapse \cup Lapse("crossed", session.on /\ session.marked # task[c].claim)
        /\ UNCHANGED <<begun, typed, covered, accum, stats, floor, cached, flock, locks, key, faults>>
    BY SentinelAssumption DEF SInv, TypeOK, Claims, InFlight, Tasks, Rollback
  <1>b. /\ Turns(c) /\ task'[c].at \in Thens /\ task'[c].of = 0
        /\ task' \in [Tasks -> TaskState] /\ \A u \in Tasks \ {c} : task'[u] = task[u]
    BY <1>t, ReturnType DEF Rollback, Turns
  <1>s. /\ session' \in SessionState /\ session'.id = session.id /\ session'.on = session.on
        /\ session'.count = session.count /\ session'.base = session.base
        /\ \/ session'.marked = session.marked
           \/ session'.marked = task[c].prior /\ session.marked = task[c].claim
        /\ session.on /\ session.marked = task[c].claim => session'.marked = task[c].prior
    <2>1. task[c].prior \in Nat
      BY <1>t DEF TaskState
    <2> QED
      BY <1>t, <2>1 DEF Rollback, SessionState
  <1>l. /\ lapse \subseteq lapse' /\ lapse' \subseteq lapse \cup {"crossed"}
        /\ session.on /\ session.marked # task[c].claim => "crossed" \in lapse'
    BY <1>t DEF Lapse
  <1>1. TypeOK'
    BY <1>t, <1>b, <1>s, <1>l DEF TypeOK, Lapses
  <1>2. LocksHeld'
    BY <1>t, <1>b, LocksStay DEF Thens
  <1>3. Numbered' /\ Saves' /\ Totals'
    BY <1>t, <1>b, <1>s, <1>l DEF SInv, Numbered, Saves, Totals, TotalsDoNotShrink, Thens
  <1>4. Counts' /\ Claims' /\ Seen'
    <2>1. Counts'
      BY <1>t, <1>s, <1>l DEF SInv, Counts, TaskState, SessionState
    <2>2. Claims' /\ Seen'
      BY <1>t, <1>b, <1>s, <1>l DEF SInv, Claims, InFlight, Seen, Tasks, Thens
    <2> QED
      BY <2>1, <2>2
  <1>5. Answered'
    <2>1. Clean' /\ session.on => session'.marked < session'.count
      BY <1>t, <1>s, <1>l DEF SInv, Clean, Counts, TaskState, SessionState
    <2> QED
      BY <1>s, <2>1 DEF Answered, SessionState
  <1> QED
    BY <1>1, <1>2, <1>3, <1>4, <1>5 DEF SInv

\* A total is read, of the session there is.
LEMMA ReadPreserves ==
  ASSUME SInv, NEW t \in Tasks, ReadTotal(t) \/ (t = Loop /\ IdlePersist)
  PROVE  SInv'
  <1>t. /\ TypeOK /\ LocksHeld /\ begun \in Nat /\ session \in SessionState
        /\ task \in [Tasks -> TaskState] /\ task[t] \in TaskState /\ ~InFlight(t)
        /\ task[t].at \notin {"remove", "baseline"} /\ session.id = begun
        /\ UNCHANGED <<session, begun, typed, covered, accum, stats, floor, cached, flock, locks, key, faults, lapse>>
    BY DEF SInv, TypeOK, Numbered, ReadTotal, IdlePersist, InFlight
  <1>1. CASE ReadTotal(t) /\ ~session.on
    <2>1. Turns(t) /\ task'[t].at = "cosign" /\ task'[t].of = 0
      BY <1>t, <1>1, GoType DEF ReadTotal, Ats
    <2> QED
      BY <1>t, <2>1, QuietPreserves DEF TypeOK
  <1>2. CASE ~(ReadTotal(t) /\ ~session.on)
    <2>0. Total \in Nat /\ Total >= session.base /\ session.id \in Nat
      BY <1>t DEF Total, SessionState
    <2>b. /\ Turns(t) /\ task'[t].at \in {"save", "end"}
          /\ task'[t].of = session.id /\ task'[t].total = Total
      <3>1. CASE ReadTotal(t)
        <4> DEFINE r == [task[t] EXCEPT !.at = "save", !.total = Total, !.of = session.id]
        <4>1. task' = [task EXCEPT ![t] = r]
          BY <1>t, <1>2, <3>1 DEF ReadTotal
        <4> HIDE DEF Total
        <4>2. r \in TaskState /\ r.at = "save" /\ r.of = session.id /\ r.total = Total
          BY <1>t, <2>0 DEF TaskState, Ats
        <4> HIDE DEF r
        <4> QED
          BY <1>t, <4>1, <4>2, Turned
      <3>2. CASE t = Loop /\ IdlePersist
        <4> DEFINE at == IF session.on THEN "save" ELSE "end"
                   r == [task[t] EXCEPT !.at = at, !.then = "stop", !.total = Total, !.of = session.id]
        <4>1. task' = [task EXCEPT ![t] = r]
          BY <1>t, <3>2 DEF IdlePersist
        <4>2. at \in {"save", "end"}
          OBVIOUS
        <4> HIDE DEF at
        <4>3. r \in TaskState /\ r.at = at /\ r.of = session.id /\ r.total = Total
          BY <1>t, <2>0, <4>2 DEF TaskState, Ats, Thens
        <4> HIDE DEF r
        <4> QED
          BY <1>t, <4>1, <4>2, <4>3, Turned
      <3> QED
        BY <3>1, <3>2
    <2>u. task' \in [Tasks -> TaskState] /\ \A u \in Tasks \ {t} : task'[u] = task[u]
      BY <2>b DEF Turns
    <2>1. TypeOK'
      BY <1>t, <2>u DEF TypeOK
    <2>2. LocksHeld'
      BY <1>t, <2>b, LocksStay
    <2>3. Numbered' /\ Saves' /\ Totals'
      BY <1>t, <2>0, <2>b, <2>u DEF SInv, Numbered, Saves, Totals, TotalsDoNotShrink
    <2>4. Counts' /\ Claims' /\ Seen'
      BY <1>t, <2>b, <2>u DEF SInv, Counts, Claims, InFlight, Seen, Tasks
    <2>5. Answered'
      BY <1>t, <2>u DEF SInv, Answered, Answers, InFlight, Clean, Tasks
    <2> QED
      BY <2>1, <2>2, <2>3, <2>4, <2>5 DEF SInv
  <1> QED
    BY <1>1, <1>2

\* A total that was read is saved.
LEMMA SavePreserves ==
  ASSUME SInv, NEW t \in Tasks, (t # Loop /\ SaveTotal(t)) \/ (t = Loop /\ TickSave)
  PROVE  SInv'
  <1>t. /\ TypeOK /\ LocksHeld /\ begun \in Nat /\ session \in SessionState
        /\ task \in [Tasks -> TaskState] /\ task[t] \in TaskState /\ ~InFlight(t)
        /\ task[t].at = "save" /\ task[t].at \notin {"remove", "baseline"}
        /\ UNCHANGED <<session, begun, typed, covered, accum, floor, locks, key, faults>>
    BY DEF SInv, TypeOK, SaveTotal, TickSave, InFlight
  <1>b. /\ Turns(t) /\ task'[t].at \in {"cosign", "end"} /\ task'[t].of = 0
        /\ task' \in [Tasks -> TaskState] /\ \A u \in Tasks \ {t} : task'[u] = task[u]
    BY <1>t, GoType DEF SaveTotal, TickSave, Ats, Turns
  <1>f. cached' \in BOOLEAN /\ flock' \in {"free", "cached", "tick", "other"}
    BY <1>t DEF TypeOK, SaveTotal, TickSave, OpenCached
  <1>s. \/ UNCHANGED <<stats, lapse>>
        \/ stats' = task[t].total /\ lapse' = lapse \cup Lapse("stale", task[t].of # session.id)
    BY DEF SaveTotal, TickSave, SaveStats
  <1>l. /\ stats' \in Nat /\ lapse \subseteq lapse' /\ lapse' \subseteq lapse \cup {"stale"}
        /\ "stale" \in lapse' \/ stats' = stats
           \/ (task[t].of = session.id /\ stats' = task[t].total)
    BY <1>t, <1>s DEF Lapse, TypeOK, TaskState
  <1>1. TypeOK'
    BY <1>t, <1>b, <1>f, <1>l DEF TypeOK, Lapses
  <1>2. LocksHeld'
    BY <1>t, <1>b, LocksStay
  <1>3. Numbered' /\ Saves'
    BY <1>t, <1>b DEF SInv, Numbered, Saves
  <1>4. Totals'
    <2>1. task[t].of = session.id => task[t].total >= session.base
      BY <1>t DEF SInv, Saves
    <2>2. session.base \in Nat /\ floor \in Nat /\ task[t].total \in Nat
      BY <1>t DEF TypeOK, SessionState, TaskState
    <2> QED
      BY <1>t, <1>l, <2>1, <2>2 DEF SInv, Totals, TotalsDoNotShrink
  <1>5. Counts' /\ Claims' /\ Seen'
    BY <1>t, <1>b, <1>l DEF SInv, Counts, Claims, InFlight, Seen, Tasks
  <1>6. Answered'
    BY <1>t, <1>b, <1>l DEF SInv, Answered, Answers, InFlight, Clean, Tasks
  <1> QED
    BY <1>1, <1>2, <1>3, <1>4, <1>5, <1>6 DEF SInv

LEMMA MarkPreserves ==
  ASSUME SInv, TickMark
  PROVE  SInv'
  <1>t. /\ TypeOK /\ LocksHeld /\ begun \in Nat /\ session \in SessionState /\ Loop \in Tasks
        /\ task \in [Tasks -> TaskState] /\ task[Loop] \in TaskState /\ ~InFlight(Loop)
        /\ task[Loop].at = "mark" /\ session.id = begun
        /\ typed \in Nat /\ covered \in Nat /\ Loop \notin Callers
        /\ UNCHANGED <<begun, typed, covered, accum, stats, floor, cached, flock, locks, key, faults>>
    BY SentinelAssumption DEF SInv, TypeOK, Numbered, TickMark, InFlight, Tasks
  <1>1. CASE ~session.on
    <2>1. Turns(Loop) /\ task'[Loop].at \in Thens /\ task'[Loop].of = 0 /\ UNCHANGED <<session, lapse>>
      BY <1>t, <1>1, ReturnType DEF TickMark
    <2> QED
      BY <1>t, <2>1, QuietPreserves DEF TypeOK, Thens
  <1>2. CASE session.on
    <2>0. Total \in Nat /\ Total >= session.base /\ session.id \in Nat /\ session.count \in Nat
      BY <1>t DEF Total, SessionState
    <2> DEFINE r == [task[Loop] EXCEPT !.at = "save", !.total = Total, !.of = session.id]
    <2>d. /\ task' = [task EXCEPT ![Loop] = r] /\ session' = [session EXCEPT !.marked = session.count]
          /\ lapse' = lapse \cup Lapse("late", session.id # task[Loop].of \/ typed > task[Loop].seen)
      BY <1>t, <1>2 DEF TickMark
    <2>r. r \in TaskState /\ r.at = "save" /\ r.of = session.id /\ r.total = Total
      <3> HIDE DEF Total
      <3> QED
        BY <1>t, <2>0 DEF TaskState, Ats
    <2> HIDE DEF r
    <2>b. /\ Turns(Loop) /\ task'[Loop] = r /\ task' \in [Tasks -> TaskState]
          /\ \A u \in Tasks \ {Loop} : task'[u] = task[u]
      BY <1>t, <2>d, <2>r, Turned DEF Turns
    <2>s. /\ session' \in SessionState /\ session'.id = session.id /\ session'.on = session.on
          /\ session'.count = session.count /\ session'.base = session.base
          /\ session'.marked = session.count
      BY <1>t, <2>0, <2>d DEF SessionState
    <2>l. /\ lapse \subseteq lapse' /\ lapse' \subseteq lapse \cup {"late"}
          /\ "late" \in lapse' \/ (session.id = task[Loop].of /\ ~(typed > task[Loop].seen))
      BY <2>d DEF Lapse
    <2>1. TypeOK'
      BY <1>t, <2>b, <2>s, <2>l DEF TypeOK, Lapses
    <2>2. LocksHeld'
      BY <1>t, <2>b, <2>r, LocksStay
    <2>3. Numbered' /\ Saves' /\ Totals'
      BY <1>t, <2>0, <2>b, <2>r, <2>s, <2>l DEF SInv, Numbered, Saves, Totals, TotalsDoNotShrink
    <2>4. Counts' /\ Claims' /\ Seen'
      <3>1. Counts'
        BY <1>t, <2>0, <2>s, <2>l DEF SInv, Counts
      <3>2. Claims'
        BY <1>t, <2>b DEF SInv, Claims, InFlight, Tasks
      <3>3. Seen'
        BY <2>b, <2>r DEF Seen
      <3> QED
        BY <3>1, <3>2, <3>3
    <2>5. Answered'
      <3> SUFFICES ASSUME Clean' PROVE ~(session'.count > covered)
        BY <1>t DEF Answered
      <3>1. /\ session.id = task[Loop].of /\ ~(typed > task[Loop].seen)
            /\ session.count = typed /\ task[Loop].seen \in Nat
        BY <1>t, <2>l DEF SInv, Clean, Counts, TaskState
      <3>2. covered >= task[Loop].seen
        BY <1>t, <3>1 DEF SInv, Seen
      <3> QED
        BY <1>t, <2>s, <3>1, <3>2
    <2> QED
      BY <2>1, <2>2, <2>3, <2>4, <2>5 DEF SInv
  <1> QED
    BY <1>1, <1>2

\* The session ends.
LEMMA EndPreserves ==
  ASSUME SInv, NEW t \in Tasks, StopRemove(t) \/ (t = Loop /\ IdleEnd)
  PROVE  SInv'
  <1>t. /\ TypeOK /\ LocksHeld /\ begun \in Nat /\ session \in SessionState
        /\ task \in [Tasks -> TaskState] /\ task[t] \in TaskState /\ ~InFlight(t)
        /\ session' = [session EXCEPT !.on = FALSE]
        /\ UNCHANGED <<begun, typed, covered, accum, floor, cached, flock, key, faults, lapse>>
    BY DEF SInv, TypeOK, StopRemove, IdleEnd, InFlight
  <1>s. /\ session' \in SessionState /\ session'.id = session.id /\ ~session'.on
        /\ session'.count = session.count /\ session'.base = session.base
        /\ session'.marked = session.marked
    BY <1>t DEF SessionState
  <1>b. /\ Turns(t) /\ task'[t].at \in {"rest", "baseline"} /\ task'[t].of = 0
        /\ task' \in [Tasks -> TaskState] /\ \A u \in Tasks \ {t} : task'[u] = task[u]
    BY <1>t, GoType, RestType DEF StopRemove, IdleEnd, Ats, Turns
  <1>l. locks' \in [{"sessions", "store"} -> Tasks \cup {Nobody}] /\ LocksHeld'
    <2>1. CASE StopRemove(t) /\ session.on
      <3>1. /\ UNCHANGED locks /\ task[t].at = "remove" /\ task'[t].at = "baseline"
        BY <1>t, <2>1, GoType DEF StopRemove, Ats
      <3> QED
        BY <1>t, <1>b, <3>1 DEF TypeOK, LocksHeld
    <2>2. CASE StopRemove(t) /\ ~session.on
      BY <1>t, <1>b, <2>2, LocksStay DEF StopRemove
    <2>3. CASE t = Loop /\ IdleEnd
      BY <1>t, <1>b, <2>3, LocksStay DEF IdleEnd
    <2> QED
      BY <2>1, <2>2, <2>3
  <1>1. stats' \in Nat /\ (stats' = stats \/ stats' >= session.base)
    <2>1. Total \in Nat /\ Total >= session.base
      BY <1>t DEF Total, SessionState
    <2>2. stats' \in {stats, Total}
      BY DEF StopRemove, IdleEnd
    <2> QED
      BY <1>t, <2>1, <2>2 DEF TypeOK
  <1>2. TypeOK'
    BY <1>t, <1>s, <1>b, <1>l, <1>1 DEF TypeOK
  <1>3. Numbered' /\ Saves'
    BY <1>t, <1>s, <1>b DEF SInv, Numbered, Saves
  <1>4. Totals'
    <2>1. session.base \in Nat /\ floor \in Nat /\ stats \in Nat
      BY <1>t DEF TypeOK, SessionState
    <2> QED
      BY <1>t, <1>s, <1>1, <2>1 DEF SInv, Totals, TotalsDoNotShrink
  <1>5. Counts' /\ Claims' /\ Seen'
    BY <1>t, <1>s, <1>b DEF SInv, Counts, Claims, InFlight, Seen, Tasks
  <1>6. Answered'
    BY <1>s DEF Answered
  <1> QED
    BY <1>l, <1>2, <1>3, <1>4, <1>5, <1>6 DEF SInv

LEMMA InsertPreserves ==
  ASSUME SInv, NEW t \in Tasks, InsertSession(t)
  PROVE  SInv'
  <1>t. /\ TypeOK /\ LocksHeld /\ begun \in Nat /\ session \in SessionState
        /\ task \in [Tasks -> TaskState] /\ task[t] \in TaskState /\ ~InFlight(t)
        /\ task[t].at \notin {"remove", "baseline"} /\ session.id = begun
        /\ task[t].total \in Nat /\ stats \in Nat
        /\ UNCHANGED <<accum, stats, cached, flock, locks, key, faults>>
    BY DEF SInv, TypeOK, Numbered, InsertSession, InFlight, TaskState
  <1>b. /\ Turns(t) /\ task'[t].at = "rest" /\ task'[t].of = 0
        /\ task' \in [Tasks -> TaskState] /\ \A u \in Tasks \ {t} : task'[u] = task[u]
    BY <1>t, RestType DEF InsertSession, Turns
  <1>1. CASE session.on \/ begun = MaxSessions
    <2>1. UNCHANGED <<session, begun, typed, covered, floor, lapse>>
      BY <1>1 DEF InsertSession
    <2> QED
      BY <1>t, <1>b, <2>1, QuietPreserves DEF TypeOK
  <1>2. CASE ~(session.on \/ begun = MaxSessions)
    <2> DEFINE s == [NoSession EXCEPT !.id = begun + 1, !.on = TRUE, !.base = task[t].total]
    <2>d. /\ session' = s /\ begun' = begun + 1 /\ typed' = 0 /\ covered' = 0 /\ floor' = stats
          /\ lapse' = lapse \cup Lapse("unread", task[t].total < stats)
      BY <1>2 DEF InsertSession
    <2>s. /\ s \in SessionState /\ s.id = begun + 1 /\ s.count = 0 /\ s.marked = 0
          /\ s.base = task[t].total
      <3> DEFINE n == NoSession
      <3>1. n \in SessionState /\ n.count = 0 /\ n.marked = 0 /\ begun + 1 \in Nat
        BY <1>t DEF NoSession, SessionState
      <3> HIDE DEF n
      <3>2. LET x == [n EXCEPT !.id = begun + 1, !.on = TRUE, !.base = task[t].total]
            IN  /\ x \in SessionState /\ x.id = begun + 1 /\ x.count = 0 /\ x.marked = 0
                /\ x.base = task[t].total
        BY <1>t, <3>1 DEF SessionState
      <3> QED
        BY <3>2 DEF n
    <2> HIDE DEF s
    <2>l. /\ lapse \subseteq lapse' /\ lapse' \subseteq lapse \cup {"unread"}
          /\ "unread" \in lapse' \/ ~(task[t].total < stats)
      BY <2>d DEF Lapse
    <2>o. \A u \in Tasks : task[u].of \in Nat /\ task[u].of <= begun /\ task[u].of # begun + 1
      BY <1>t DEF SInv, Numbered, TaskState
    <2>1. TypeOK'
      <3>1. session' \in SessionState /\ begun' \in Nat /\ typed' \in Nat /\ covered' \in Nat /\ floor' \in Nat
        BY <1>t, <2>d, <2>s
      <3>2. lapse' \subseteq Lapses
        BY <1>t, <2>l DEF TypeOK, Lapses
      <3> QED
        BY <1>t, <1>b, <3>1, <3>2 DEF TypeOK
    <2>2. LocksHeld'
      BY <1>t, <1>b, LocksStay
    <2>3. Numbered'
      BY <1>t, <1>b, <2>d, <2>s, <2>o DEF Numbered
    <2>4. Saves' /\ Totals'
      <3>1. Saves'
        BY <1>t, <1>b, <2>d, <2>s, <2>o DEF Saves
      <3>2. Totals'
        BY <1>t, <2>d, <2>s, <2>l DEF Totals, TotalsDoNotShrink
      <3> QED
        BY <3>1, <3>2
    <2>5. Counts'
      BY <2>d, <2>s DEF Counts
    <2>6. Claims'
      BY <1>t, <1>b DEF SInv, Claims, InFlight, Tasks
    <2>7. Seen'
      <3>1. Loop \in Tasks
        BY DEF Tasks
      <3> QED
        BY <1>t, <1>b, <2>d, <2>s, <2>o, <3>1 DEF Seen
    <2>8. Answered'
      BY <2>d, <2>s DEF Answered
    <2> QED
      BY <2>1, <2>2, <2>3, <2>4, <2>5, <2>6, <2>7, <2>8 DEF SInv
  <1> QED
    BY <1>1, <1>2

-----------------------------------------------------------------------------
(* The results *)

LEMMA InitHolds == Init => SInv
  <1> SUFFICES ASSUME Init PROVE SInv
    OBVIOUS
  <1>1. /\ session \in SessionState /\ session.id = 0 /\ ~session.on /\ session.count = 0
        /\ session.marked = 0 /\ session.base = 0
    BY DEF Init, NoSession, SessionState
  <1>2. /\ begun = 0 /\ typed = 0 /\ covered = 0 /\ accum = 0 /\ stats = 0 /\ floor = 0
        /\ cached = FALSE /\ flock = "free" /\ key = TRUE /\ faults = 0 /\ lapse = {}
        /\ locks \in [{"sessions", "store"} -> Tasks \cup {Nobody}]
        /\ locks["sessions"] = Nobody /\ locks["store"] = Nobody
        /\ task = [t \in Tasks |-> Resting]
    BY DEF Init
  <1>3. task \in [Tasks -> TaskState] /\ \A t \in Tasks : task[t].at = "rest" /\ task[t].of = 0
    <2> DEFINE n == Resting
    <2>1. n \in TaskState /\ n.at = "rest" /\ n.of = 0 /\ task = [t \in Tasks |-> n]
      BY <1>2, RestingType
    <2> HIDE DEF n
    <2> QED
      BY <2>1
  <1>4. TypeOK
    BY <1>1, <1>2, <1>3 DEF TypeOK
  <1>5. LocksHeld
    BY <1>2, <1>3, SentinelAssumption DEF LocksHeld, Tasks
  <1>6. Numbered /\ Saves /\ Totals
    BY <1>1, <1>2, <1>3 DEF Numbered, Saves, Totals, TotalsDoNotShrink
  <1>7. Counts /\ Claims /\ Seen /\ Answered
    BY <1>1, <1>2, <1>3 DEF Counts, Claims, InFlight, Seen, Answered, Tasks
  <1> QED
    BY <1>4, <1>5, <1>6, <1>7 DEF SInv

LEMMA SentinelStep == SInv /\ [Next]_vars => SInv'
  <1> SUFFICES ASSUME SInv, [Next]_vars PROVE SInv'
    OBVIOUS
  <1>c. Callers \subseteq Tasks /\ Loop \in Tasks /\ Loop \notin Callers
    BY SentinelAssumption DEF Tasks
  <1>1. CASE KeyChanges \/ SetSigningKey \/ OtherProcess \/ UNCHANGED vars
    BY <1>1, OutsidePreserves
  <1>2. CASE Inject \/ InjectRejected
    BY <1>2, InjectPreserves
  <1>3. ASSUME NEW c \in Callers,
               \/ Commit(c) \/ StopWitnessing(c)
               \/ Claim(c) \/ Hash(c) \/ HashFails(c)
               \/ AddEvent(c) \/ AddEventFails(c) \/ Rollback(c)
               \/ ReadTotal(c) \/ SaveTotal(c)
               \/ StopStore(c) \/ StopRemove(c) \/ StopBaseline(c)
        PROVE  SInv'
    <2>1. CASE Commit(c) \/ StopWitnessing(c) \/ HashFails(c) \/ StopBaseline(c)
      BY <2>1, CallerPreserves
    <2>2. CASE Claim(c)
      BY <2>2, ClaimPreserves
    <2>3. CASE Hash(c) \/ AddEventFails(c)
      BY <2>3, HashPreserves
    <2>4. CASE AddEvent(c)
      BY <1>c, <2>4, StorePreserves
    <2>5. CASE Rollback(c)
      BY <2>5, RollbackPreserves
    <2>6. CASE ReadTotal(c)
      BY <1>c, <2>6, ReadPreserves
    <2>7. CASE SaveTotal(c)
      BY <1>c, <2>7, SavePreserves
    <2>8. CASE StopStore(c)
      BY <1>c, <2>8, LockingPreserves
    <2>9. CASE StopRemove(c)
      BY <1>c, <2>9, EndPreserves
    <2> QED
      BY <1>3, <2>1, <2>2, <2>3, <2>4, <2>5, <2>6, <2>7, <2>8, <2>9
  <1>4. ASSUME NEW t \in Tasks, CosignSessions(t) \/ CosignStore(t) \/ LoadTotal(t) \/ InsertSession(t)
        PROVE  SInv'
    BY <1>4, LockingPreserves, LoopPreserves, InsertPreserves
  <1>5. CASE Tick \/ TickOpen \/ TickFails \/ IdleCheck \/ RestoreBundle
    BY <1>c, <1>5, LoopPreserves
  <1>6. CASE TickWrite
    BY <1>c, <1>6, StorePreserves
  <1>7. CASE TickMark
    BY <1>7, MarkPreserves
  <1>8. CASE TickSave
    BY <1>c, <1>8, SavePreserves
  <1>9. CASE IdlePersist
    BY <1>c, <1>9, ReadPreserves
  <1>10. CASE IdleEnd
    BY <1>c, <1>10, EndPreserves
  <1> QED
    BY <1>1, <1>2, <1>3, <1>4, <1>5, <1>6, <1>7, <1>8, <1>9, <1>10 DEF Next

LEMMA SentinelInv == Spec => []SInv
  <1>1. Init => SInv
    BY InitHolds
  <1>2. SInv /\ [Next]_vars => SInv'
    BY SentinelStep
  <1> QED
    BY <1>1, <1>2, PTL DEF Spec

\* Session, counts, locks and tasks keep their types, whoever calls when.
THEOREM SentinelTypeCorrect == Spec => []TypeOK
  <1>1. SInv => TypeOK
    BY DEF SInv
  <1> QED
    BY <1>1, SentinelInv, PTL

\* commit_checkpoint_for_path claims keystrokes before it stores an event for them, and
\* gives them back if it fails; the tick marks without claiming.  For any number of
\* callers and sessions, keystrokes that no event covers are pending or the claim of a
\* commit under way, unless one of the lapses the property names has happened: the mark
\* is at the count only if the commit that moved it there has covered what it claimed,
\* or is still about to.
THEOREM KeystrokesAreNotForgotten == Spec => []NothingIsForgotten
  <1>1. SInv => NothingIsForgotten
    <2> SUFFICES ASSUME SInv, session.on, typed > covered, Clean, ~Pending
                 PROVE  Committing
      BY DEF NothingIsForgotten, Clean
    <2>1. /\ session.count = typed /\ session.marked <= session.count
          /\ session.count \in Nat /\ session.marked \in Nat
      BY DEF SInv, Counts, Clean, TypeOK, SessionState
    <2>2. session.marked = session.count /\ session.count > covered
      BY <2>1 DEF Pending
    <2>3. \E c \in Callers : Answers(c)
      BY <2>2 DEF SInv, Answered
    <2> QED
      BY <2>3 DEF Answers, InFlight, Committing
  <1> QED
    BY <1>1, SentinelInv, PTL

\* save_document_stats overwrites the row of a document, and four paths call it with a
\* total that was read under another lock.  The row never falls below what it held when
\* the session began, unless the session began without reading it or a total was saved
\* for a session that had ended, keystrokes that validation takes back included.
THEOREM TotalsAreKept == Spec => []TotalsDoNotShrink
  <1>1. SInv => TotalsDoNotShrink
    BY DEF SInv, Totals
  <1> QED
    BY <1>1, SentinelInv, PTL

\* Every path but stop_witnessing takes the lock on sessions before the one on the store
\* and lets both go, so that two tasks that wait for each other include a call of it.
THEOREM DeadlocksNeedAStop == Spec => []StuckOnlyBehindStop
  <1>1. SInv => StuckOnlyBehindStop
    <2> SUFFICES ASSUME SInv, NEW t \in Tasks, NEW u \in Tasks, Stuck(t, u),
                        task[t].at \notin {"remove", "baseline"},
                        task[u].at \notin {"remove", "baseline"}
                 PROVE  FALSE
      BY DEF StuckOnlyBehindStop
    <2>1. task[t].at = "cosign_other" /\ task[u].at = "cosign_other"
      BY DEF Stuck, WaitsFor
    <2>2. locks["sessions"] = t /\ locks["sessions"] = u
      BY <2>1 DEF SInv, LocksHeld
    <2>3. locks["store"] = u
      BY <2>1, <2>2 DEF Stuck, WaitsFor, OtherLock
    <2> QED
      BY <2>3 DEF SInv, LocksHeld
  <1> QED
    BY <1>1, SentinelInv, PTL

-----------------------------------------------------------------------------
(***************************************************************************)
(* The logs of the sessions.  That an entry is in one place needs that the *)
(* lists are disjoint and without doubles (Once), that it is in some place *)
(* that whatever was recorded is in one of them (Complete), and the order  *)
(* of a log that what waits for it comes after it, and what waits in the   *)
(* buffer after what a thread holds (InTurn).                              *)
(***************************************************************************)

Items(q) == {q[i] : i \in DOMAIN q}

Numbers(w) == {w[i].n : i \in DOMAIN w}

KeyType == [set : BOOLEAN, hot : 0 .. MaxKeys, cold : BOOLEAN, made : 1 .. MaxKeys]

\* What has been recorded, and what of it is in a log.
Recorded == {e \in EntryType : e.session \in Sessions /\ e.n <= logged[e.session]}
Written == {e \in EntryType : e.session \in Sessions /\ e.n \in Numbers(wal[e.session])}

Distinct(q) == \A i, j \in DOMAIN q : q[i] = q[j] => i = j
DistinctNumbers(w) == \A i, j \in DOMAIN w : w[i].n = w[j].n => i = j

Rising(q) == \A i, j \in DOMAIN q : i < j /\ q[i].session = q[j].session => q[i].n < q[j].n
RisingNumbers(w) == \A i, j \in DOMAIN w : i < j => w[i].n < w[j].n

\* Of one session, the entries in A precede those in B.
Older(A, B) == \A a \in A, b \in B : a.session = b.session => a.n < b.n

LogsDistinct == \A s \in Sessions : DistinctNumbers(wal[s])
LogsRising == \A s \in Sessions : RisingNumbers(wal[s])

\* A thread holds entries while it writes, and a path while it needs one.
Able(r) ==
  /\ r.at = "write" <=> r.todo # <<>>
  /\ r.at = "write" => r.key # 0
  /\ r.at \in {"insert", "start", "change"} \/ r.then = "insert" => r.path \in Paths

Busy == \A t \in Threads : Able(thread[t])

\* Logs, buffer and threads share no entry and have none twice or unrecorded.
Once ==
  /\ Distinct(pending)
  /\ \A t \in Threads : Distinct(thread[t].todo)
  /\ LogsDistinct
  /\ Items(pending) \cap Written = {}
  /\ \A t \in Threads : /\ Items(thread[t].todo) \cap Items(pending) = {}
                        /\ Items(thread[t].todo) \cap Written = {}
  /\ \A t, u \in Threads : t # u => Items(thread[t].todo) \cap Items(thread[u].todo) = {}
  /\ Items(pending) \subseteq Recorded
  /\ \A t \in Threads : Items(thread[t].todo) \subseteq Recorded
  /\ Written \subseteq Recorded

\* Between them they have all that was recorded.
AllThere ==
  \A e \in Recorded :
    e \in Items(pending) \/ e \in Written \/ \E t \in Threads : e \in Items(thread[t].todo)

Complete == walLapse \subseteq {"overtaken"} => AllThere

\* A log's entries come before those its session's threads hold, and these before
\* those in the buffer; two threads hold no entries of the same session.
Lined ==
  /\ LogsRising
  /\ Rising(pending)
  /\ Older(Written, Items(pending))
  /\ \A t \in Threads : /\ Rising(thread[t].todo)
                        /\ Older(Written, Items(thread[t].todo))
                        /\ Older(Items(thread[t].todo), Items(pending))
  /\ \A t, u \in Threads : t # u =>
        \A a \in Items(thread[t].todo), b \in Items(thread[u].todo) : a.session # b.session

InTurn == "overtaken" \notin walLapse => Lined

\* The session of a path is one that was started.
Known == \A p \in Paths : sessionOf[p] \in 0 .. Len(logged)

LInv == WalTypeOK /\ Known /\ Busy /\ Once /\ Complete /\ InTurn

-----------------------------------------------------------------------------
\* An empty list.
LEMMA EmptyList ==
  /\ Items(<<>>) = {} /\ Distinct(<<>>) /\ Rising(<<>>)
  /\ Numbers(<<>>) = {} /\ DistinctNumbers(<<>>) /\ RisingNumbers(<<>>)
BY DEF Items, Distinct, Rising, Numbers, DistinctNumbers, RisingNumbers

\* A list of one entry.
LEMMA SingleList ==
  ASSUME NEW e
  PROVE  Items(<<e>>) = {e} /\ Distinct(<<e>>) /\ Rising(<<e>>)
BY DEF Items, Distinct, Rising

\* An entry at the end of a list.
LEMMA AppendedList ==
  ASSUME NEW S, NEW q \in Seq(S), NEW e \in S
  PROVE  /\ Append(q, e) \in Seq(S)
         /\ Items(Append(q, e)) = Items(q) \cup {e}
         /\ Distinct(q) /\ e \notin Items(q) => Distinct(Append(q, e))
         /\ Rising(q) /\ Older(Items(q), {e}) => Rising(Append(q, e))
<1> DEFINE r == Append(q, e)
           n == Len(q)
<1>1. /\ r \in Seq(S) /\ n \in Nat /\ DOMAIN q = 1 .. n /\ DOMAIN r = 1 .. (n + 1)
      /\ r[n + 1] = e
  OBVIOUS
<1>2. \A i \in 1 .. n : r[i] = q[i]
  OBVIOUS
<1> HIDE DEF r, n
<1>3. Items(r) = Items(q) \cup {e}
  <2>1. ASSUME NEW x \in Items(r) PROVE x \in Items(q) \cup {e}
    BY <1>1, <1>2 DEF Items
  <2>2. ASSUME NEW x \in Items(q) PROVE x \in Items(r)
    <3>1. PICK i \in 1 .. n : x = q[i]
      BY <1>1 DEF Items
    <3>2. i \in 1 .. (n + 1)
      BY <1>1
    <3> QED BY <1>1, <1>2, <3>1, <3>2 DEF Items
  <2>3. e \in Items(r)
    <3>1. n + 1 \in 1 .. (n + 1)
      BY <1>1
    <3> QED BY <1>1, <3>1 DEF Items
  <2> QED BY <2>1, <2>2, <2>3
<1>4. Distinct(q) /\ e \notin Items(q) => Distinct(r)
  BY <1>1, <1>2 DEF Distinct, Items
<1>5. Rising(q) /\ Older(Items(q), {e}) => Rising(r)
  BY <1>1, <1>2 DEF Rising, Older, Items
<1> QED BY <1>1, <1>3, <1>4, <1>5 DEF r

\* A list without its first entry.
LEMMA TailList ==
  ASSUME NEW S, NEW q \in Seq(S), q # <<>>
  PROVE  /\ Tail(q) \in Seq(S) /\ Len(Tail(q)) = Len(q) - 1
         /\ Head(q) \in S
         /\ Items(q) = {Head(q)} \cup Items(Tail(q))
         /\ Distinct(q) => Distinct(Tail(q)) /\ Head(q) \notin Items(Tail(q))
         /\ Rising(q) => Rising(Tail(q)) /\ Older({Head(q)}, Items(Tail(q)))
<1> DEFINE r == Tail(q)
           n == Len(q)
<1>1. /\ r \in Seq(S) /\ n \in Nat /\ n > 0 /\ Len(r) = n - 1 /\ DOMAIN q = 1 .. n
      /\ DOMAIN r = 1 .. (n - 1) /\ Head(q) = q[1] /\ Head(q) \in S
  OBVIOUS
<1>2. \A i \in 1 .. (n - 1) : r[i] = q[i + 1] /\ i + 1 \in 1 .. n
  OBVIOUS
<1>3. \A i \in 1 .. n : i = 1 \/ (i - 1 \in 1 .. (n - 1) /\ q[i] = r[i - 1])
  <2> SUFFICES ASSUME NEW i \in 1 .. n, i # 1
               PROVE  i - 1 \in 1 .. (n - 1) /\ q[i] = r[i - 1]
    OBVIOUS
  <2>1. i - 1 \in 1 .. (n - 1) /\ (i - 1) + 1 = i
    BY <1>1
  <2> QED BY <1>2, <2>1
<1> HIDE DEF r, n
<1>4. Items(q) = {Head(q)} \cup Items(r)
  <2>1. ASSUME NEW x \in Items(q) PROVE x \in {Head(q)} \cup Items(r)
    <3>1. PICK i \in 1 .. n : x = q[i]
      BY <1>1, <2>1 DEF Items
    <3> QED BY <1>1, <1>3, <3>1 DEF Items
  <2>2. ASSUME NEW x \in Items(r) PROVE x \in Items(q)
    <3>1. PICK i \in 1 .. (n - 1) : x = r[i]
      BY <1>1, <2>2 DEF Items
    <3> QED BY <1>1, <1>2, <3>1 DEF Items
  <2>3. 1 \in 1 .. n
    BY <1>1
  <2>4. Head(q) \in Items(q)
    BY <1>1, <2>3 DEF Items
  <2> QED BY <2>1, <2>2, <2>4
<1>5. ASSUME Distinct(q) PROVE Distinct(r) /\ Head(q) \notin Items(r)
  <2>1. ASSUME NEW i \in 1 .. (n - 1), NEW j \in 1 .. (n - 1), r[i] = r[j] PROVE i = j
    <3>1. q[i + 1] = q[j + 1] /\ i + 1 \in 1 .. n /\ j + 1 \in 1 .. n
      BY <1>2, <2>1
    <3>2. i + 1 = j + 1
      BY <1>1, <1>5, <3>1 DEF Distinct
    <3> QED BY <3>2
  <2>2. Head(q) \notin Items(r)
    <3> SUFFICES ASSUME NEW i \in 1 .. (n - 1), Head(q) = r[i] PROVE FALSE
      BY <1>1 DEF Items
    <3>1. q[1] = q[i + 1] /\ 1 \in 1 .. n /\ i + 1 \in 1 .. n /\ 1 # i + 1
      BY <1>1, <1>2
    <3> QED BY <1>1, <1>5, <3>1 DEF Distinct
  <2> QED BY <1>1, <2>1, <2>2 DEF Distinct
<1>6. ASSUME Rising(q) PROVE Rising(r) /\ Older({Head(q)}, Items(r))
  <2>1. ASSUME NEW i \in 1 .. (n - 1), NEW j \in 1 .. (n - 1), i < j,
               r[i].session = r[j].session
        PROVE  r[i].n < r[j].n
    <3>1. /\ r[i] = q[i + 1] /\ r[j] = q[j + 1]
          /\ i + 1 \in 1 .. n /\ j + 1 \in 1 .. n
      BY <1>2
    <3>2. i + 1 < j + 1
      BY <2>1
    <3>3. q[i + 1].session = q[j + 1].session
      BY <2>1, <3>1
    <3> HIDE <2>1
    <3>4. q[i + 1].n < q[j + 1].n
      BY <1>1, <1>6, <3>1, <3>2, <3>3 DEF Rising
    <3> QED BY <3>1, <3>4
  <2>2. Older({Head(q)}, Items(r))
    BY <1>1, <1>2, <1>6 DEF Rising, Older, Items
  <2> QED BY <1>1, <2>1, <2>2 DEF Rising
<1> QED BY <1>1, <1>4, <1>5, <1>6 DEF r

\* An entry in the buffer, in place of the oldest one if the buffer is full.
LEMMA PushedList ==
  ASSUME SessionWalAssumption, NEW S, NEW q \in Seq(S), Len(q) <= MaxPending, NEW e \in S
  PROVE  /\ Push(q, e) \in Seq(S) /\ Len(Push(q, e)) <= MaxPending
         /\ e \in Items(Push(q, e))
         /\ Items(Push(q, e)) \subseteq Items(q) \cup {e}
         /\ ~(Len(q) >= MaxPending) => Items(Push(q, e)) = Items(q) \cup {e}
         /\ Distinct(q) /\ e \notin Items(q) => Distinct(Push(q, e))
         /\ Rising(q) /\ Older(Items(q), {e}) => Rising(Push(q, e))
<1>1. MaxPending \in Nat /\ MaxPending > 0 /\ Len(q) \in Nat
  BY DEF SessionWalAssumption
<1>2. CASE Len(q) >= MaxPending
  <2> DEFINE r == Tail(q)
  <2>1. q # <<>>
    BY <1>1, <1>2
  <2>2. /\ r \in Seq(S) /\ Len(r) = Len(q) - 1 /\ Items(r) \subseteq Items(q)
        /\ Distinct(q) => Distinct(r)
        /\ Rising(q) => Rising(r)
    BY <2>1, TailList
  <2> HIDE DEF r
  <2>3. Push(q, e) = Append(r, e) /\ Len(Append(r, e)) = Len(r) + 1
    BY <1>2, <2>2 DEF Push, r
  <2>4. /\ Append(r, e) \in Seq(S)
        /\ Items(Append(r, e)) = Items(r) \cup {e}
        /\ Distinct(r) /\ e \notin Items(r) => Distinct(Append(r, e))
        /\ Rising(r) /\ Older(Items(r), {e}) => Rising(Append(r, e))
    BY <2>2, AppendedList
  <2>5. Older(Items(q), {e}) => Older(Items(r), {e})
    BY <2>2 DEF Older
  <2> QED BY <1>1, <1>2, <2>2, <2>3, <2>4, <2>5
<1>3. CASE ~(Len(q) >= MaxPending)
  <2>1. Push(q, e) = Append(q, e) /\ Len(Append(q, e)) = Len(q) + 1
    BY <1>3 DEF Push
  <2>2. /\ Append(q, e) \in Seq(S)
        /\ Items(Append(q, e)) = Items(q) \cup {e}
        /\ Distinct(q) /\ e \notin Items(q) => Distinct(Append(q, e))
        /\ Rising(q) /\ Older(Items(q), {e}) => Rising(Append(q, e))
    BY AppendedList
  <2> QED BY <1>1, <1>3, <2>1, <2>2
<1> QED BY <1>2, <1>3

-----------------------------------------------------------------------------
\* A step that moves no entry and at most truncates a log, which is a lapse.
LEMMA NothingMoved ==
  ASSUME Once, Complete, InTurn,
         pending' = pending, \A t \in Threads : thread'[t].todo = thread[t].todo,
         Recorded' = Recorded, Written' \subseteq Written,
         LogsDistinct', LogsRising => LogsRising',
         walLapse \subseteq walLapse',
         Written' = Written \/ ~(walLapse' \subseteq {"overtaken"})
  PROVE  Once' /\ Complete' /\ InTurn'
<1>1. Once'
  BY DEF Once
<1>2. Complete'
  BY DEF Complete, AllThere
<1>3. InTurn'
  <2> SUFFICES ASSUME "overtaken" \notin walLapse' PROVE Lined'
    BY DEF InTurn
  <2>1. Lined
    BY DEF InTurn
  <2> QED BY <2>1 DEF Lined, Older
<1> QED BY <1>1, <1>2, <1>3

\* A thread takes all entries of the buffer.
LEMMA BufferDrained ==
  ASSUME Once, Complete, InTurn, NEW t \in Threads,
         thread[t].todo = <<>>, thread'[t].todo = pending, pending' = <<>>,
         \A u \in Threads \ {t} : thread'[u].todo = thread[u].todo,
         Recorded' = Recorded, Written' = Written, LogsDistinct', LogsRising => LogsRising',
         walLapse \subseteq walLapse',
         "overtaken" \in walLapse' \/ \A u \in Threads \ {t} : thread[u].todo = <<>>
  PROVE  Once' /\ Complete' /\ InTurn'
<1> DEFINE P == Items(pending)
           H(u) == Items(thread[u].todo)
<1>1. /\ Items(pending') = {} /\ Items(thread'[t].todo) = P /\ H(t) = {}
      /\ Distinct(pending') /\ Rising(pending')
      /\ \A u \in Threads \ {t} : Items(thread'[u].todo) = H(u)
  BY EmptyList
<1>2. Once'
  BY <1>1 DEF Once
<1>3. Complete'
  BY <1>1 DEF Complete, AllThere
<1>4. InTurn'
  <2> SUFFICES ASSUME "overtaken" \notin walLapse' PROVE Lined'
    BY DEF InTurn
  <2>1. Lined
    BY DEF InTurn
  <2>2. \A u \in Threads \ {t} : thread'[u].todo = <<>> /\ H(u) = {}
    BY EmptyList
  <2> QED BY <1>1, <2>1, <2>2, EmptyList DEF Lined, Older
<1> QED BY <1>2, <1>3, <1>4

\* A new entry in the hands of thread t.
LEMMA EntryHanded ==
  ASSUME Once, Complete, InTurn, NEW t \in Threads, NEW e \in EntryType,
         e \notin Recorded, thread[t].todo = <<>>, thread'[t].todo = <<e>>,
         pending' = pending,
         \A u \in Threads \ {t} : thread'[u].todo = thread[u].todo,
         Recorded' = Recorded \cup {e}, Older(Recorded, {e}),
         Written' = Written, LogsDistinct', LogsRising => LogsRising',
         walLapse \subseteq walLapse',
         \/ "overtaken" \in walLapse'
         \/ /\ \A a \in Items(pending) : a.session # e.session
            /\ \A u \in Threads \ {t} : \A a \in Items(thread[u].todo) : a.session # e.session
  PROVE  Once' /\ Complete' /\ InTurn'
<1> DEFINE P == Items(pending)
           H(u) == Items(thread[u].todo)
<1>1. /\ Items(pending') = P /\ Items(thread'[t].todo) = {e} /\ H(t) = {}
      /\ Distinct(thread'[t].todo) /\ Rising(thread'[t].todo)
      /\ \A u \in Threads \ {t} : Items(thread'[u].todo) = H(u)
  BY EmptyList, SingleList
<1>2. Once'
  <2>1. /\ P \subseteq Recorded /\ Written \subseteq Recorded
        /\ \A u \in Threads : H(u) \subseteq Recorded
    BY DEF Once
  <2>2. /\ Distinct(pending')
        /\ \A u \in Threads : Distinct(thread'[u].todo)
    BY <1>1 DEF Once
  <2>3. P \cap Written' = {} /\ LogsDistinct'
    BY DEF Once
  <2>4. \A u \in Threads : /\ Items(thread'[u].todo) \cap P = {}
                           /\ Items(thread'[u].todo) \cap Written' = {}
                           /\ Items(thread'[u].todo) \subseteq Recorded'
    BY <1>1, <2>1 DEF Once
  <2>5. \A u, v \in Threads : u # v =>
          Items(thread'[u].todo) \cap Items(thread'[v].todo) = {}
    BY <1>1, <2>1 DEF Once
  <2>6. P \subseteq Recorded' /\ Written' \subseteq Recorded'
    BY <2>1
  <2> QED BY <1>1, <2>2, <2>3, <2>4, <2>5, <2>6 DEF Once
<1>3. Complete'
  BY <1>1 DEF Complete, AllThere
<1>4. InTurn'
  <2> SUFFICES ASSUME "overtaken" \notin walLapse' PROVE Lined'
    BY DEF InTurn
  <2>1. Lined
    BY DEF InTurn
  <2>2. Written \subseteq Recorded
    BY DEF Once
  <2> QED BY <1>1, <2>1, <2>2 DEF Lined, Older
<1> QED BY <1>2, <1>3, <1>4

\* A new entry in the buffer.
LEMMA EntryBuffered ==
  ASSUME SessionWalAssumption, pending \in Seq(EntryType), Len(pending) <= MaxPending,
         Once, Complete, InTurn, NEW e \in EntryType, e \notin Recorded,
         pending' = Push(pending, e),
         \A u \in Threads : thread'[u].todo = thread[u].todo,
         Recorded' = Recorded \cup {e}, Older(Recorded, {e}),
         Written' = Written, LogsDistinct', LogsRising => LogsRising',
         walLapse \subseteq walLapse',
         ~(Len(pending) >= MaxPending) \/ "overflow" \in walLapse'
  PROVE  Once' /\ Complete' /\ InTurn'
<1> DEFINE P == Items(pending)
           Q == Items(pending')
<1>1. /\ e \in Q /\ Q \subseteq P \cup {e}
      /\ ~(Len(pending) >= MaxPending) => Q = P \cup {e}
      /\ Distinct(pending) /\ e \notin P => Distinct(pending')
      /\ Rising(pending) /\ Older(P, {e}) => Rising(pending')
  BY PushedList
<1>2. P \subseteq Recorded /\ Written \subseteq Recorded
      /\ \A u \in Threads : Items(thread[u].todo) \subseteq Recorded
  BY DEF Once
<1>3. Once'
  <2>1. Distinct(pending') /\ Q \subseteq Recorded' /\ Q \cap Written' = {}
    BY <1>1, <1>2 DEF Once
  <2>2. \A u \in Threads : Items(thread'[u].todo) \cap Q = {}
    BY <1>1, <1>2 DEF Once
  <2> HIDE DEF Q
  <2>3. /\ \A u \in Threads : Items(thread'[u].todo) \subseteq Recorded'
        /\ Written' \subseteq Recorded'
    BY <1>2
  <2>4. /\ \A u \in Threads : Distinct(thread'[u].todo)
        /\ \A u \in Threads : Items(thread'[u].todo) \cap Written' = {}
        /\ \A u, v \in Threads : u # v => Items(thread'[u].todo) \cap Items(thread'[v].todo) = {}
    BY DEF Once
  <2> QED BY <2>1, <2>2, <2>3, <2>4 DEF Once, Q
<1>4. Complete'
  BY <1>1 DEF Complete, AllThere
<1>5. InTurn'
  <2> SUFFICES ASSUME "overtaken" \notin walLapse' PROVE Lined'
    BY DEF InTurn
  <2>1. Lined
    BY DEF InTurn
  <2>2. Older(P, {e}) /\ Older(Written, {e})
        /\ \A u \in Threads : Older(Items(thread[u].todo), {e})
    BY <1>2 DEF Older
  <2> QED BY <1>1, <2>1, <2>2 DEF Lined, Older
<1> QED BY <1>3, <1>4, <1>5

\* A new entry, the first of its session, that goes straight to the log or is lost.
LEMMA EntryStarted ==
  ASSUME Once, Complete, InTurn, NEW e \in EntryType,
         \A a \in Recorded : a.session # e.session,
         pending' = pending, \A u \in Threads : thread'[u].todo = thread[u].todo,
         Recorded' = Recorded \cup {e}, LogsDistinct', LogsRising => LogsRising',
         walLapse \subseteq walLapse',
         \/ Written' = Written \cup {e}
         \/ Written' = Written /\ ~(walLapse' \subseteq {"overtaken"})
  PROVE  Once' /\ Complete' /\ InTurn'
<1> DEFINE P == Items(pending)
           H(u) == Items(thread[u].todo)
<1>1. /\ P \subseteq Recorded /\ Written \subseteq Recorded
      /\ \A u \in Threads : H(u) \subseteq Recorded
  BY DEF Once
<1>2. Once'
  BY <1>1 DEF Once
<1>3. Complete'
  BY DEF Complete, AllThere
<1>4. InTurn'
  <2> SUFFICES ASSUME "overtaken" \notin walLapse' PROVE Lined'
    BY DEF InTurn
  <2>1. Lined
    BY DEF InTurn
  <2>2. Older(Written', P) /\ \A u \in Threads : Older(Written', H(u))
    BY <1>1, <2>1 DEF Lined, Older
  <2> QED BY <2>1, <2>2 DEF Lined
<1> QED BY <1>2, <1>3, <1>4

\* Thread t is done with the first of its entries: it is in its log or lost, and
\* entries of the log may be lost with it.
LEMMA EntryDone ==
  ASSUME Once, Complete, InTurn, NEW t \in Threads,
         thread[t].todo \in Seq(EntryType), thread[t].todo # <<>>,
         thread'[t].todo = Tail(thread[t].todo), pending' = pending,
         \A u \in Threads \ {t} : thread'[u].todo = thread[u].todo,
         Recorded' = Recorded, Written' \subseteq Written \cup {Head(thread[t].todo)},
         LogsDistinct', Lined => LogsRising',
         walLapse \subseteq walLapse',
         \/ Written' = Written \cup {Head(thread[t].todo)}
         \/ ~(walLapse' \subseteq {"overtaken"})
  PROVE  Once' /\ Complete' /\ InTurn'
<1> DEFINE P == Items(pending)
           H(u) == Items(thread[u].todo)
           e == Head(thread[t].todo)
           R == Items(thread'[t].todo)
<1>1. /\ H(t) = {e} \cup R
      /\ Distinct(thread[t].todo) => Distinct(thread'[t].todo) /\ e \notin R
      /\ Rising(thread[t].todo) => Rising(thread'[t].todo) /\ Older({e}, R)
  <2> DEFINE q == thread[t].todo
  <2>1. q \in Seq(EntryType) /\ q # <<>> /\ thread'[t].todo = Tail(q)
    OBVIOUS
  <2> HIDE DEF q
  <2>2. /\ Items(q) = {Head(q)} \cup Items(Tail(q))
        /\ Distinct(q) => Distinct(Tail(q)) /\ Head(q) \notin Items(Tail(q))
        /\ Rising(q) => Rising(Tail(q)) /\ Older({Head(q)}, Items(Tail(q)))
    BY <2>1, TailList
  <2> QED BY <2>1, <2>2 DEF q
<1>2. Distinct(thread'[t].todo) /\ e \notin R
  BY <1>1 DEF Once
<1>3. \A u \in Threads \ {t} : Items(thread'[u].todo) = H(u)
  OBVIOUS
<1> HIDE DEF e, R
<1>4. Once'
  <2>1. \A u \in Threads : Items(thread'[u].todo) \subseteq H(u)
    BY <1>1, <1>3 DEF R
  <2>2. \A u \in Threads : e \notin Items(thread'[u].todo)
    BY <1>1, <1>2, <1>3 DEF R, Once
  <2>3. e \notin P /\ e \in Recorded
    BY <1>1 DEF Once
  <2>4. /\ Distinct(pending')
        /\ \A u \in Threads : Distinct(thread'[u].todo)
        /\ LogsDistinct'
    BY <1>2 DEF Once
  <2>5. Written' \subseteq Written \cup {e}
    BY DEF e
  <2>6. P \cap Written' = {} /\ Written' \subseteq Recorded /\ P \subseteq Recorded
    BY <2>3, <2>5 DEF Once
  <2>7. \A u \in Threads : /\ Items(thread'[u].todo) \cap P = {}
                           /\ Items(thread'[u].todo) \cap Written' = {}
                           /\ Items(thread'[u].todo) \subseteq Recorded
    <3> SUFFICES ASSUME NEW u \in Threads
                 PROVE  /\ Items(thread'[u].todo) \cap P = {}
                        /\ Items(thread'[u].todo) \cap Written' = {}
                        /\ Items(thread'[u].todo) \subseteq Recorded
      OBVIOUS
    <3> DEFINE I == Items(thread'[u].todo)
    <3>1. /\ H(u) \cap P = {} /\ H(u) \cap Written = {} /\ H(u) \subseteq Recorded
          /\ I \subseteq H(u) /\ e \notin I
      BY <2>1, <2>2 DEF Once
    <3> HIDE DEF I, H, P
    <3>2. I \cap P = {} /\ I \cap Written' = {} /\ I \subseteq Recorded
      BY <2>5, <3>1
    <3> QED BY <3>2 DEF I, P
  <2>8. \A u, v \in Threads : u # v =>
          Items(thread'[u].todo) \cap Items(thread'[v].todo) = {}
    BY <2>1 DEF Once
  <2> QED BY <2>4, <2>6, <2>7, <2>8 DEF Once
<1>5. Complete'
  <2> SUFFICES ASSUME walLapse' \subseteq {"overtaken"}, NEW a \in Recorded
               PROVE  \/ a \in P \/ a \in Written'
                      \/ \E u \in Threads : a \in Items(thread'[u].todo)
    BY DEF Complete, AllThere
  <2>1. a \in P \/ a \in Written \/ \E u \in Threads : a \in H(u)
    BY DEF Complete, AllThere
  <2>2. Written' = Written \cup {e}
    BY DEF e
  <2>3. ASSUME NEW u \in Threads, a \in H(u)
        PROVE  a = e \/ a \in Items(thread'[u].todo)
    BY <1>1, <1>3, <2>3 DEF R
  <2> QED BY <2>1, <2>2, <2>3
<1>6. InTurn'
  <2> SUFFICES ASSUME "overtaken" \notin walLapse' PROVE Lined'
    BY DEF InTurn
  <2>1. Lined
    BY DEF InTurn
  <2>2. Rising(thread'[t].todo) /\ Older({e}, R)
    BY <1>1, <2>1 DEF Lined
  <2>3. \A u \in Threads : Items(thread'[u].todo) \subseteq H(u)
    BY <1>1, <1>3 DEF R
  <2>4. Written' \subseteq Written \cup {e} /\ e \in H(t)
    BY <1>1 DEF e
  <2>5. Older(Written', P)
    BY <2>1, <2>4 DEF Lined, Older
  <2>6. \A u \in Threads \ {t} : Older({e}, Items(thread'[u].todo))
    BY <1>3, <2>1, <2>4 DEF Lined, Older
  <2>7. \A u \in Threads : Older(Written', Items(thread'[u].todo))
    BY <2>1, <2>2, <2>3, <2>4, <2>6 DEF Lined, Older, R
  <2>8. \A u \in Threads : Older(Items(thread'[u].todo), P) /\ Rising(thread'[u].todo)
    BY <2>1, <2>2, <2>3 DEF Lined, Older
  <2>9. \A u, v \in Threads : u # v =>
          \A a \in Items(thread'[u].todo), b \in Items(thread'[v].todo) : a.session # b.session
    BY <2>1, <2>3 DEF Lined
  <2>10. LogsRising' /\ Rising(pending')
    BY <2>1 DEF Lined
  <2> QED BY <2>5, <2>7, <2>8, <2>9, <2>10 DEF Lined
<1> QED BY <1>4, <1>5, <1>6

\* The process stops: nothing waits any more.
LEMMA AllDropped ==
  ASSUME Once, Complete, InTurn, pending' = <<>>,
         \A u \in Threads : thread'[u].todo = <<>>,
         Recorded' = Recorded, Written' = Written, LogsDistinct', LogsRising => LogsRising',
         walLapse \subseteq walLapse',
         \/ ~(walLapse' \subseteq {"overtaken"})
         \/ pending = <<>> /\ \A u \in Threads : thread[u].todo = <<>>
  PROVE  Once' /\ Complete' /\ InTurn'
<1>1. /\ Items(pending') = {} /\ Distinct(pending') /\ Rising(pending')
      /\ \A u \in Threads : /\ Items(thread'[u].todo) = {}
                            /\ Distinct(thread'[u].todo) /\ Rising(thread'[u].todo)
  BY EmptyList
<1>2. Once'
  BY <1>1 DEF Once
<1>3. Complete'
  BY <1>1, EmptyList DEF Complete, AllThere
<1>4. InTurn'
  BY <1>1 DEF InTurn, Lined, Older
<1> QED BY <1>2, <1>3, <1>4

-----------------------------------------------------------------------------
LogEntryType == [n : 1 .. MaxEntries, key : 1 .. MaxKeys]

\* A log cut at some entry and continued with another one.
LEMMA ContinuedLog ==
  ASSUME NEW w \in Seq(LogEntryType), NEW p \in Nat, p <= Len(w), NEW x \in LogEntryType
  PROVE  LET r == Append(SubSeq(w, 1, p), x)
         IN  /\ r \in Seq(LogEntryType)
             /\ Numbers(r) \subseteq Numbers(w) \cup {x.n}
             /\ p = Len(w) => Numbers(r) = Numbers(w) \cup {x.n}
             /\ DistinctNumbers(w) /\ x.n \notin Numbers(w) => DistinctNumbers(r)
             /\ RisingNumbers(w) /\ (\A m \in Numbers(w) : m < x.n) => RisingNumbers(r)
<1> DEFINE c == SubSeq(w, 1, p)
           r == Append(c, x)
           n == Len(w)
<1>1. /\ n \in Nat /\ DOMAIN w = 1 .. n /\ 1 .. p \subseteq 1 .. n
      /\ \A i \in 1 .. n : w[i] \in LogEntryType
  OBVIOUS
<1>2. /\ c \in Seq(LogEntryType) /\ Len(c) = p
      /\ \A i \in 1 .. p : c[i] = w[i]
  BY <1>1
<1> HIDE DEF c, n
<1>3. /\ r \in Seq(LogEntryType) /\ DOMAIN r = 1 .. (p + 1) /\ r[p + 1] = x
      /\ \A i \in 1 .. p : r[i] = c[i]
  BY <1>2
<1>4. \A i \in 1 .. p : r[i] = w[i]
  BY <1>2, <1>3
<1> HIDE DEF r
<1>5. \A i \in 1 .. (p + 1) : i = p + 1 \/ i \in 1 .. p
  OBVIOUS
<1>6. Numbers(r) \subseteq Numbers(w) \cup {x.n}
  <2> SUFFICES ASSUME NEW i \in 1 .. (p + 1) PROVE r[i].n \in Numbers(w) \cup {x.n}
    BY <1>3 DEF Numbers
  <2> QED BY <1>1, <1>3, <1>4, <1>5 DEF Numbers
<1>7. ASSUME p = n PROVE Numbers(r) = Numbers(w) \cup {x.n}
  <2>1. x.n \in Numbers(r)
    <3>1. p + 1 \in 1 .. (p + 1)
      OBVIOUS
    <3> QED BY <1>3, <3>1 DEF Numbers
  <2>2. ASSUME NEW i \in 1 .. n PROVE w[i].n \in Numbers(r)
    <3>1. i \in 1 .. (p + 1) /\ i \in 1 .. p
      BY <1>1, <1>7
    <3> QED BY <1>3, <1>4, <3>1 DEF Numbers
  <2>3. Numbers(w) \subseteq Numbers(r)
    BY <1>1, <2>2 DEF Numbers
  <2> QED BY <1>6, <2>1, <2>3
<1>8. ASSUME DistinctNumbers(w), x.n \notin Numbers(w) PROVE DistinctNumbers(r)
  <2> SUFFICES ASSUME NEW i \in 1 .. (p + 1), NEW j \in 1 .. (p + 1), r[i].n = r[j].n
               PROVE  i = j
    BY <1>3 DEF DistinctNumbers
  <2>1. CASE i \in 1 .. p /\ j \in 1 .. p
    BY <1>1, <1>4, <1>8, <2>1 DEF DistinctNumbers
  <2>2. ASSUME NEW k \in 1 .. p PROVE r[k].n # x.n
    BY <1>1, <1>4, <1>8 DEF Numbers
  <2> QED BY <1>3, <1>5, <2>1, <2>2
<1>9. ASSUME RisingNumbers(w), \A m \in Numbers(w) : m < x.n PROVE RisingNumbers(r)
  <2> SUFFICES ASSUME NEW i \in 1 .. (p + 1), NEW j \in 1 .. (p + 1), i < j
               PROVE  r[i].n < r[j].n
    BY <1>3 DEF RisingNumbers
  <2>1. i \in 1 .. p
    OBVIOUS
  <2>2. CASE j \in 1 .. p
    BY <1>1, <1>4, <1>9, <2>1, <2>2 DEF RisingNumbers
  <2>3. r[i].n < x.n
    BY <1>1, <1>4, <1>9, <2>1 DEF Numbers
  <2> QED BY <1>3, <1>5, <2>2, <2>3
<1> QED BY <1>3, <1>6, <1>7, <1>8, <1>9 DEF r, c, n

\* What the types say of a log.
LEMMA LogTypes ==
  ASSUME SessionWalAssumption, WalTypeOK
  PROVE  /\ Sessions = 1 .. Len(logged) /\ Len(logged) \in Nat /\ Len(logged) <= MaxLogs
         /\ Sessions \subseteq 1 .. MaxLogs /\ MaxLogs \in Nat /\ MaxEntries \in Nat
         /\ \A s \in Sessions : logged[s] \in 1 .. MaxEntries
         /\ DOMAIN wal = Sessions /\ Len(wal) = Len(logged)
         /\ \A s \in Sessions : /\ wal[s] \in Seq(LogEntryType)
                                /\ Numbers(wal[s]) \subseteq 1 .. MaxEntries
<1>1. /\ logged \in Seq(1 .. MaxEntries) /\ Len(logged) <= MaxLogs
      /\ wal \in Seq(Seq(LogEntryType)) /\ Len(wal) = Len(logged)
      /\ MaxLogs \in Nat /\ MaxEntries \in Nat
  BY DEF WalTypeOK, LogEntryType, SessionWalAssumption
<1>2. Len(logged) \in Nat /\ Sessions = 1 .. Len(logged) /\ DOMAIN wal = 1 .. Len(logged)
  BY <1>1 DEF Sessions
<1>3. \A s \in Sessions : wal[s] \in Seq(LogEntryType)
  BY <1>1, <1>2
<1>4. ASSUME NEW s \in Sessions PROVE Numbers(wal[s]) \subseteq 1 .. MaxEntries
  <2> DEFINE w == wal[s]
  <2>1. w \in Seq(LogEntryType)
    BY <1>3
  <2> HIDE DEF w
  <2>2. \A i \in DOMAIN w : w[i] \in LogEntryType
    BY <2>1
  <2>3. \A i \in DOMAIN w : w[i].n \in 1 .. MaxEntries
    BY <2>2 DEF LogEntryType
  <2>4. Numbers(w) \subseteq 1 .. MaxEntries
    BY <2>3 DEF Numbers
  <2> QED BY <2>4 DEF w
<1>5. Sessions \subseteq 1 .. MaxLogs
  BY <1>1, <1>2
<1>6. \A s \in Sessions : logged[s] \in 1 .. MaxEntries
  BY <1>1, <1>2
<1> QED BY <1>1, <1>2, <1>3, <1>4, <1>5, <1>6

\* The logs and what was recorded are as they were.
LEMMA LogsAsTheyWere ==
  ASSUME logged' = logged, wal' = wal
  PROVE  /\ Recorded' = Recorded /\ Written' = Written
         /\ LogsDistinct => LogsDistinct'
         /\ LogsRising => LogsRising'
BY DEF Recorded, Written, LogsDistinct, LogsRising, Sessions

\* A log is truncated, or continued behind one of its entries.
LEMMA LogChanged ==
  ASSUME SessionWalAssumption, WalTypeOK, logged' = logged, NEW s \in Sessions, NEW w,
         wal' = [wal EXCEPT ![s] = w]
  PROVE  /\ Recorded' = Recorded
         /\ DistinctNumbers(w) /\ LogsDistinct => LogsDistinct'
         /\ RisingNumbers(w) /\ LogsRising => LogsRising'
         /\ \A e \in EntryType : e.session # s => (e \in Written' <=> e \in Written)
         /\ \A e \in EntryType : e.session = s => (e \in Written' <=> e.n \in Numbers(w))
         /\ \A e \in EntryType : e.session = s => (e \in Written <=> e.n \in Numbers(wal[s]))
<1>1. DOMAIN wal = Sessions
  BY LogTypes
<1>2. wal'[s] = w /\ \A o \in Sessions \ {s} : wal'[o] = wal[o]
  BY <1>1
<1>3. Sessions' = Sessions
  BY DEF Sessions
<1> QED BY <1>2, <1>3 DEF Recorded, Written, LogsDistinct, LogsRising

\* One more entry of session s is recorded.
LEMMA EntryCounted ==
  ASSUME SessionWalAssumption, WalTypeOK, NEW s \in Sessions, logged[s] < MaxEntries,
         logged' = [logged EXCEPT ![s] = @ + 1], wal' = wal
  PROVE  LET e == Entry(s, logged[s] + 1)
         IN  /\ e \in EntryType /\ e \notin Recorded /\ Older(Recorded, {e})
             /\ Recorded' = Recorded \cup {e} /\ Written' = Written
             /\ LogsDistinct => LogsDistinct'
             /\ LogsRising => LogsRising'
<1> DEFINE e == Entry(s, logged[s] + 1)
<1>1. /\ s \in 1 .. MaxLogs /\ MaxEntries \in Nat /\ DOMAIN logged = Sessions
      /\ \A o \in Sessions : logged[o] \in 1 .. MaxEntries
  BY LogTypes DEF Sessions
<1>2. /\ Sessions' = Sessions /\ logged'[s] = logged[s] + 1
      /\ \A o \in Sessions \ {s} : logged'[o] = logged[o]
  BY <1>1 DEF Sessions
<1>3. e \in EntryType /\ e.session = s /\ e.n = logged[s] + 1
  BY <1>1 DEF Entry, EntryType
<1>4. \A a \in EntryType : a.session \in Nat /\ a.n \in Nat
                           /\ (a.session = s /\ a.n = logged[s] + 1 => a = e)
  BY <1>1 DEF Entry, EntryType, SessionWalAssumption
<1> HIDE DEF e
<1>5. e \notin Recorded /\ Older(Recorded, {e})
  BY <1>1, <1>3, <1>4 DEF Recorded, Older
<1>6. Recorded' = Recorded \cup {e}
  <2>1. ASSUME NEW a \in EntryType PROVE a \in Recorded' <=> a \in Recorded \cup {e}
    <3>1. CASE a.session = s
      BY <1>1, <1>2, <1>3, <1>4, <3>1 DEF Recorded
    <3>2. CASE a.session # s
      BY <1>2, <1>3, <3>2 DEF Recorded
    <3> QED BY <3>1, <3>2
  <2> QED BY <1>3, <2>1 DEF Recorded
<1>7. Written' = Written /\ (LogsDistinct => LogsDistinct') /\ (LogsRising => LogsRising')
  BY <1>2 DEF Written, LogsDistinct, LogsRising
<1> QED BY <1>3, <1>5, <1>6, <1>7 DEF e

\* A session is started, its log empty or with the first entry.
LEMMA LogStarted ==
  ASSUME SessionWalAssumption, WalTypeOK, Len(logged) < MaxLogs,
         NEW w \in Seq(LogEntryType),
         w = <<>> \/ \E k \in 1 .. MaxKeys : w = <<[n |-> 1, key |-> k]>>,
         logged' = Append(logged, 1), wal' = Append(wal, w)
  PROVE  LET e == Entry(Len(logged) + 1, 1)
         IN  /\ e \in EntryType /\ e \notin Recorded /\ Older(Recorded, {e})
             /\ \A a \in Recorded : a.session # e.session
             /\ Recorded' = Recorded \cup {e}
             /\ w = <<>> => Written' = Written
             /\ w # <<>> => Written' = Written \cup {e}
             /\ LogsDistinct => LogsDistinct'
             /\ LogsRising => LogsRising'
<1> DEFINE s == Len(logged) + 1
           e == Entry(s, 1)
<1>1. /\ Len(logged) \in Nat /\ s \in 1 .. MaxLogs /\ 1 \in 1 .. MaxEntries
      /\ Sessions = 1 .. Len(logged) /\ s \notin Sessions
      /\ DOMAIN wal = Sessions /\ Len(wal) = Len(logged)
  BY LogTypes DEF SessionWalAssumption
<1>2. /\ Sessions' = Sessions \cup {s}
      /\ logged'[s] = 1 /\ \A o \in Sessions : logged'[o] = logged[o]
  <2>1. logged \in Seq(1 .. MaxEntries) /\ 1 \in 1 .. MaxEntries
    BY <1>1 DEF WalTypeOK
  <2>2. DOMAIN logged' = 1 .. s
    BY <1>1, <2>1
  <2>3. logged'[s] = 1 /\ \A o \in 1 .. Len(logged) : logged'[o] = logged[o]
    BY <1>1, <2>1
  <2> QED BY <1>1, <2>2, <2>3 DEF Sessions
<1>3. wal'[s] = w /\ \A o \in Sessions : wal'[o] = wal[o]
  <2>1. wal \in Seq(Seq(LogEntryType))
    BY DEF WalTypeOK, LogEntryType
  <2>2. wal'[Len(wal) + 1] = w /\ \A o \in 1 .. Len(wal) : wal'[o] = wal[o]
    BY <2>1
  <2> QED BY <1>1, <2>2
<1>4. e \in EntryType /\ e.session = s /\ e.n = 1
  BY <1>1 DEF Entry, EntryType
<1>5. \A a \in EntryType : a.session = s /\ a.n = 1 => a = e
  BY DEF Entry, EntryType
<1>6. \A a \in EntryType : a.n \in Nat /\ a.n >= 1
  BY <1>1 DEF EntryType, SessionWalAssumption
<1>7. /\ Numbers(w) = IF w = <<>> THEN {} ELSE {1}
      /\ DistinctNumbers(w) /\ RisingNumbers(w)
  <2>1. CASE w = <<>>
    BY <2>1, EmptyList
  <2>2. ASSUME NEW k \in 1 .. MaxKeys, w = <<[n |-> 1, key |-> k]>>
        PROVE  /\ Numbers(w) = {1} /\ w # <<>>
               /\ DistinctNumbers(w) /\ RisingNumbers(w)
    BY <2>2 DEF Numbers, DistinctNumbers, RisingNumbers
  <2> QED BY <2>1, <2>2
<1> HIDE DEF e, s
<1>8. \A a \in Recorded : a.session # e.session
  BY <1>1, <1>4 DEF Recorded
<1>9. e \notin Recorded /\ Older(Recorded, {e})
  BY <1>8 DEF Older
<1>10. Recorded' = Recorded \cup {e}
  <2>1. ASSUME NEW a \in EntryType PROVE a \in Recorded' <=> a \in Recorded \cup {e}
    <3>1. CASE a.session = s
      <4>1. a.n <= 1 <=> a.n = 1
        BY <1>6
      <4>2. a \in Recorded' <=> a.n = 1
        BY <1>2, <3>1, <4>1 DEF Recorded
      <4> QED BY <1>1, <1>4, <1>5, <3>1, <4>2 DEF Recorded
    <3>2. CASE a.session # s
      BY <1>2, <1>4, <3>2 DEF Recorded
    <3> QED BY <3>1, <3>2
  <2> QED BY <1>4, <2>1 DEF Recorded
<1>11. Written' = IF w = <<>> THEN Written ELSE Written \cup {e}
  <2>1. ASSUME NEW a \in EntryType
        PROVE  a \in Written' <=> a \in Written \/ (w # <<>> /\ a = e)
    <3>1. CASE a.session = s
      <4>1. a \in Written' <=> a.n \in Numbers(w)
        BY <1>2, <1>3, <3>1 DEF Written
      <4>2. a \notin Written
        BY <1>1, <3>1 DEF Written
      <4>3. a = e <=> a.n = 1
        BY <1>4, <1>5, <3>1
      <4> QED BY <1>7, <4>1, <4>2, <4>3
    <3>2. CASE a.session # s
      BY <1>2, <1>3, <1>4, <3>2 DEF Written
    <3> QED BY <3>1, <3>2
  <2> QED BY <1>4, <2>1 DEF Written
<1>12. (LogsDistinct => LogsDistinct') /\ (LogsRising => LogsRising')
  BY <1>2, <1>3, <1>7 DEF LogsDistinct, LogsRising
<1> QED BY <1>4, <1>8, <1>9, <1>10, <1>11, <1>12 DEF e, s
-----------------------------------------------------------------------------
\* The records of the threads.
ThreadType ==
  [at : {"rest", "write", "insert", "start", "change"}, path : Paths \cup {NoPath},
   key : 0 .. MaxKeys, todo : Seq(EntryType), then : {"rest", "insert"},
   open : BOOLEAN, pos : Nat]

\* A thread at rest holds nothing.
LEMMA RestingThread ==
  ASSUME SessionWalAssumption
  PROVE  Idle \in ThreadType /\ Able(Idle) /\ Idle.todo = <<>>
<1>1. 0 \in 0 .. MaxKeys /\ <<>> \in Seq(EntryType)
  BY DEF SessionWalAssumption
<1> QED BY <1>1 DEF Idle, ThreadType, Able

\* A thread that has read the key for a path holds nothing yet.
LEMMA ReadingThread ==
  ASSUME SessionWalAssumption, NEW step \in {"insert", "start", "change"},
         NEW p \in Paths, NEW k \in 0 .. MaxKeys
  PROVE  /\ At(step, p, k) \in ThreadType /\ Able(At(step, p, k))
         /\ At(step, p, k).todo = <<>>
<1> DEFINE q == Idle
           r == At(step, p, k)
<1>1. q \in ThreadType /\ q.todo = <<>> /\ q.then = "rest"
  BY RestingThread DEF Idle
<1>2. r = [q EXCEPT !.at = step, !.path = p, !.key = k]
  BY DEF At
<1> HIDE DEF q, r
<1>3. r \in ThreadType
  BY <1>1, <1>2 DEF ThreadType
<1>4. r.at = step /\ r.todo = <<>> /\ r.path = p /\ r.then = "rest"
  BY <1>1, <1>2 DEF ThreadType
<1> HIDE DEF r
<1>5. Able(r)
  BY <1>4 DEF Able
<1> QED BY <1>3, <1>4, <1>5 DEF r

\* A thread that is going to write the entries q.
LEMMA WritingThread ==
  ASSUME SessionWalAssumption, NEW p \in Paths \cup {NoPath}, NEW k \in 1 .. MaxKeys,
         NEW q \in Seq(EntryType), q # <<>>, NEW then \in {"rest", "insert"},
         then = "insert" => p \in Paths
  PROVE  /\ Writing(p, k, q, then) \in ThreadType /\ Able(Writing(p, k, q, then))
         /\ Writing(p, k, q, then).todo = q
<1> DEFINE o == Idle
           a == At("write", p, k)
           r == Writing(p, k, q, then)
<1>1. o \in ThreadType
  BY RestingThread
<1>2. k \in 0 .. MaxKeys /\ k # 0
  BY DEF SessionWalAssumption
<1>3. a = [o EXCEPT !.at = "write", !.path = p, !.key = k]
  BY DEF At
<1>4. r = [a EXCEPT !.todo = q, !.then = then]
  BY DEF Writing
<1> HIDE DEF o, a, r
<1>5. a \in ThreadType /\ a.at = "write" /\ a.path = p /\ a.key = k
  BY <1>1, <1>2, <1>3 DEF ThreadType
<1>6. r \in ThreadType
  BY <1>4, <1>5 DEF ThreadType
<1>7. r.at = "write" /\ r.key = k /\ r.todo = q /\ r.path = p /\ r.then = then
  BY <1>4, <1>5 DEF ThreadType
<1>8. Able(r)
  BY <1>2, <1>7 DEF Able
<1> QED BY <1>6, <1>7, <1>8 DEF r

\* A thread is done with an entry.
LEMMA AdvancedThread ==
  ASSUME SessionWalAssumption, NEW t, thread[t] \in ThreadType, Able(thread[t]),
         thread[t].at = "write"
  PROVE  /\ Advance(t) \in ThreadType /\ Able(Advance(t))
         /\ thread[t].todo # <<>> /\ Advance(t).todo = Tail(thread[t].todo)
<1> DEFINE r == thread[t]
<1>1. r.todo # <<>> /\ r.key # 0 /\ (r.then = "insert" => r.path \in Paths)
  BY DEF Able
<1>2. /\ r.todo \in Seq(EntryType) /\ Tail(r.todo) \in Seq(EntryType)
      /\ Len(r.todo) = 1 => Tail(r.todo) = <<>>
      /\ Len(r.todo) # 1 => Tail(r.todo) # <<>>
  <2> DEFINE q == r.todo
  <2>1. q \in Seq(EntryType) /\ q # <<>>
    BY <1>1 DEF ThreadType
  <2> HIDE DEF q
  <2>2. Tail(q) \in Seq(EntryType) /\ Len(Tail(q)) = Len(q) - 1 /\ Len(q) \in Nat
    BY <2>1, TailList
  <2>3. (Len(q) = 1 => Tail(q) = <<>>) /\ (Len(q) # 1 => Tail(q) # <<>>)
    <3> DEFINE c == Tail(q)
    <3>1. c \in Seq(EntryType) /\ Len(c) = Len(q) - 1 /\ Len(q) \in Nat
      BY <2>2
    <3> HIDE DEF c
    <3>2. Len(q) = 1 <=> Len(c) = 0
      BY <3>1
    <3>3. Len(c) = 0 <=> c = <<>>
      BY <3>1
    <3> QED BY <3>2, <3>3 DEF c
  <2> QED BY <2>1, <2>2, <2>3 DEF q
<1>3. CASE Len(r.todo) = 1 /\ r.then = "rest"
  BY <1>1, <1>2, <1>3, RestingThread DEF Advance
<1>4. CASE Len(r.todo) = 1 /\ r.then # "rest"
  <2>1. /\ r.then = "insert" /\ r.path \in Paths /\ r.key \in 0 .. MaxKeys
        /\ Advance(t) = At("insert", r.path, r.key)
    BY <1>1, <1>4 DEF Advance, ThreadType
  <2>2. /\ At("insert", r.path, r.key) \in ThreadType
        /\ Able(At("insert", r.path, r.key))
        /\ At("insert", r.path, r.key).todo = <<>>
    BY <2>1, ReadingThread
  <2> QED BY <1>1, <1>2, <1>4, <2>1, <2>2
<1>5. CASE Len(r.todo) # 1
  <2>1. Advance(t) = [r EXCEPT !.todo = Tail(r.todo), !.open = FALSE, !.pos = 0]
    BY <1>5 DEF Advance
  <2>2. Advance(t) \in ThreadType
    <3>1. Advance(t) = [at |-> r.at, path |-> r.path, key |-> r.key,
                        todo |-> Tail(r.todo), then |-> r.then,
                        open |-> FALSE, pos |-> 0]
      BY <2>1 DEF ThreadType
    <3>2. /\ r.at \in {"rest", "write", "insert", "start", "change"}
          /\ r.path \in Paths \cup {NoPath} /\ r.key \in 0 .. MaxKeys
          /\ r.then \in {"rest", "insert"}
      BY DEF ThreadType
    <3> HIDE DEF r
    <3> QED BY <1>2, <3>1, <3>2 DEF ThreadType
  <2>3. /\ Advance(t).at = "write" /\ Advance(t).key = r.key
        /\ Advance(t).path = r.path /\ Advance(t).then = r.then
        /\ Advance(t).todo = Tail(r.todo)
    BY <2>1 DEF ThreadType
  <2>4. Able(Advance(t))
    BY <1>1, <1>2, <1>5, <2>3 DEF Able
  <2> QED BY <1>1, <2>2, <2>3, <2>4
<1> QED BY <1>3, <1>4, <1>5

-----------------------------------------------------------------------------
\* The invariant after a step, but for Known.
LAfter == WalTypeOK' /\ Busy' /\ Once' /\ Complete' /\ InTurn'

\* Thread t moves on.
LEMMA ThreadMoves ==
  ASSUME WalTypeOK, Busy, NEW t \in Threads, NEW r \in ThreadType, Able(r),
         thread' = [thread EXCEPT ![t] = r]
  PROVE  /\ thread' \in [Threads -> ThreadType] /\ Busy'
         /\ thread'[t] = r /\ \A u \in Threads \ {t} : thread'[u] = thread[u]
<1>1. thread \in [Threads -> ThreadType]
  BY DEF WalTypeOK, ThreadType
<1>2. /\ thread' \in [Threads -> ThreadType]
      /\ thread'[t] = r /\ \A u \in Threads \ {t} : thread'[u] = thread[u]
  BY <1>1
<1>3. Busy'
  BY <1>2 DEF Busy
<1> QED BY <1>2, <1>3

\* A thread before its step.
LEMMA ThreadBefore ==
  ASSUME WalTypeOK, Busy, NEW t \in Threads
  PROVE  /\ thread[t] \in ThreadType /\ Able(thread[t])
         /\ thread[t].todo \in Seq(EntryType)
         /\ thread[t].key \in 0 .. MaxKeys
         /\ thread[t].at # "write" => thread[t].todo = <<>>
         /\ thread[t].at \in {"insert", "start", "change"} => thread[t].path \in Paths
<1>1. thread[t] \in ThreadType /\ Able(thread[t])
  BY DEF WalTypeOK, ThreadType, Busy
<1>2. thread[t].todo \in Seq(EntryType) /\ thread[t].key \in 0 .. MaxKeys
  BY <1>1 DEF ThreadType
<1> QED BY <1>1, <1>2 DEF Able

\* Whoever reads the key.
LEMMA KeyLooked ==
  ASSUME SessionWalAssumption, WalTypeOK, Look
  PROVE  /\ walKey' \in KeyType
         /\ KeyNow \in 0 .. MaxKeys
<1>1. walKey \in KeyType
  BY DEF WalTypeOK, KeyType
<1>2. 0 \in 0 .. MaxKeys
  BY DEF SessionWalAssumption
<1>3. KeyNow \in 0 .. MaxKeys
  BY <1>1, <1>2 DEF KeyNow, KeyType
<1>4. walKey' \in KeyType
  BY <1>1, <1>2 DEF Look, KeyType
<1> QED BY <1>3, <1>4

\* No entry moves: a thread at most goes from one place without entries to another.
LEMMA EntriesStay ==
  ASSUME Once, Complete, InTurn,
         \A t \in Threads : thread'[t].todo = thread[t].todo,
         UNCHANGED <<logged, pending, wal, walLapse>>
  PROVE  Once' /\ Complete' /\ InTurn'
<1>1. /\ Recorded' = Recorded /\ Written' = Written
      /\ LogsDistinct => LogsDistinct'
      /\ LogsRising => LogsRising'
  BY LogsAsTheyWere
<1>2. LogsDistinct'
  BY <1>1 DEF Once
<1> QED BY <1>1, <1>2, NothingMoved

\* A new entry is recorded by a thread that has none: it goes with the thread or into
\* the buffer.
LEMMA EntryRecorded ==
  ASSUME SessionWalAssumption, WalTypeOK, Busy, Once, Complete, InTurn,
         NEW t \in Threads, thread[t].todo = <<>>,
         NEW s, NEW n, NEW k \in 0 .. MaxKeys, Record(t, s, n, k),
         Entry(s, n) \in EntryType, Entry(s, n) \notin Recorded,
         Older(Recorded, {Entry(s, n)}), Recorded' = Recorded \cup {Entry(s, n)},
         Written' = Written, LogsDistinct', LogsRising => LogsRising'
  PROVE  /\ pending' \in Seq(EntryType) /\ Len(pending') <= MaxPending
         /\ thread' \in [Threads -> ThreadType] /\ walLapse' \subseteq WalLapses
         /\ Busy' /\ Once' /\ Complete' /\ InTurn'
<1> DEFINE e == Entry(s, n)
<1>1. pending \in Seq(EntryType) /\ Len(pending) <= MaxPending /\ walLapse \subseteq WalLapses
  BY DEF WalTypeOK
<1>2. CASE k # 0
  <2> DEFINE r == Writing(NoPath, k, <<e>>, "rest")
  <2>1. /\ thread' = [thread EXCEPT ![t] = r] /\ pending' = pending
        /\ walLapse' = walLapse \cup LapseIf("overtaken", Waits(t, s))
    BY <1>2 DEF Record
  <2>2. k \in 1 .. MaxKeys /\ <<e>> \in Seq(EntryType) /\ <<e>> # <<>>
    BY <1>2 DEF SessionWalAssumption
  <2>3. r \in ThreadType /\ Able(r) /\ r.todo = <<e>>
    BY <2>2, WritingThread
  <2> HIDE DEF r
  <2>4. /\ thread' \in [Threads -> ThreadType] /\ Busy' /\ thread'[t] = r
        /\ \A u \in Threads \ {t} : thread'[u] = thread[u]
    BY <2>1, <2>3, ThreadMoves
  <2>5. /\ walLapse' \subseteq WalLapses /\ walLapse \subseteq walLapse'
        /\ Waits(t, s) => "overtaken" \in walLapse'
    BY <1>1, <2>1 DEF LapseIf, WalLapses
  <2>6. ~Waits(t, s) =>
          /\ \A a \in Items(pending) : a.session # s
          /\ \A u \in Threads \ {t} : \A a \in Items(thread[u].todo) : a.session # s
    BY DEF Waits, Items
  <2>7. e.session = s /\ thread'[t].todo = <<e>>
    BY <2>3, <2>4 DEF Entry
  <2>8. \A u \in Threads \ {t} : thread'[u].todo = thread[u].todo
    BY <2>4
  <2> HIDE DEF e
  <2>9. \/ "overtaken" \in walLapse'
        \/ /\ \A a \in Items(pending) : a.session # e.session
           /\ \A u \in Threads \ {t} : \A a \in Items(thread[u].todo) : a.session # e.session
    BY <2>5, <2>6, <2>7
  <2>10. /\ e \in EntryType /\ e \notin Recorded /\ Older(Recorded, {e})
         /\ Recorded' = Recorded \cup {e}
    BY DEF e
  <2>11. Once' /\ Complete' /\ InTurn'
    BY <2>1, <2>5, <2>7, <2>8, <2>9, <2>10, EntryHanded
  <2> QED BY <1>1, <2>1, <2>4, <2>5, <2>11
<1>3. CASE k = 0
  <2> DEFINE r == Idle
  <2>1. /\ thread' = [thread EXCEPT ![t] = r] /\ pending' = Push(pending, e)
        /\ walLapse' = walLapse \cup LapseIf("overflow", Len(pending) >= MaxPending)
    BY <1>3 DEF Record
  <2>2. r \in ThreadType /\ Able(r) /\ r.todo = <<>>
    BY RestingThread
  <2> HIDE DEF r
  <2>3. /\ thread' \in [Threads -> ThreadType] /\ Busy' /\ thread'[t] = r
        /\ \A u \in Threads \ {t} : thread'[u] = thread[u]
    BY <2>1, <2>2, ThreadMoves
  <2>4. \A u \in Threads : thread'[u].todo = thread[u].todo
    BY <2>2, <2>3
  <2>5. /\ walLapse' \subseteq WalLapses /\ walLapse \subseteq walLapse'
        /\ Len(pending) >= MaxPending => "overflow" \in walLapse'
    BY <1>1, <2>1 DEF LapseIf, WalLapses
  <2> HIDE DEF e
  <2>6. /\ e \in EntryType /\ e \notin Recorded /\ Older(Recorded, {e})
        /\ Recorded' = Recorded \cup {e}
    BY DEF e
  <2>7. pending' \in Seq(EntryType) /\ Len(pending') <= MaxPending
    BY <1>1, <2>1, <2>6, PushedList
  <2>8. Once' /\ Complete' /\ InTurn'
    BY <1>1, <2>1, <2>4, <2>5, <2>6, EntryBuffered
  <2> QED BY <2>3, <2>5, <2>7, <2>8
<1> QED BY <1>2, <1>3

\* The key changes, or a path loses its session.
LEMMA OutsideStep ==
  ASSUME SessionWalAssumption, LInv,
         SetKey \/ Pause \/ AddEntropy \/ \E p \in Paths : EndSession(p)
  PROVE  LAfter
<1> USE DEF LInv
<1>1. UNCHANGED <<logged, pending, wal, thread, walFaults, walLapse>>
  BY DEF SetKey, Pause, AddEntropy, EndSession
<1>2. walKey' \in KeyType
  <2>1. walKey \in KeyType
    BY DEF WalTypeOK, KeyType
  <2>2. MaxKeys \in Nat /\ 0 \in 0 .. MaxKeys /\ 1 \in 0 .. MaxKeys
    BY DEF SessionWalAssumption
  <2>3. CASE SetKey
    BY <2>1, <2>2, <2>3 DEF SetKey, KeyType
  <2>4. CASE Pause
    BY <2>1, <2>4 DEF Pause, KeyType
  <2>5. CASE AddEntropy
    <3>1. walKey.made \in 1 .. MaxKeys
      BY <2>1 DEF KeyType
    <3>2. walKey.made < MaxKeys =>
            walKey.made + 1 \in 1 .. MaxKeys /\ walKey.made + 1 \in 0 .. MaxKeys
      BY <2>2, <3>1
    <3> QED BY <2>1, <2>5, <3>2 DEF AddEntropy, KeyType
  <2>6. CASE \E p \in Paths : EndSession(p)
    BY <2>1, <2>6 DEF EndSession
  <2> QED BY <2>3, <2>4, <2>5, <2>6
<1>3. sessionOf' \in [Paths -> 0 .. MaxLogs]
  <2>1. sessionOf \in [Paths -> 0 .. MaxLogs] /\ 0 \in 0 .. MaxLogs
    BY DEF WalTypeOK, SessionWalAssumption
  <2> QED BY <2>1 DEF SetKey, Pause, AddEntropy, EndSession
<1>4. WalTypeOK' /\ Busy'
  BY <1>1, <1>2, <1>3 DEF WalTypeOK, KeyType, Busy
<1>5. Once' /\ Complete' /\ InTurn'
  BY <1>1, EntriesStay
<1> QED BY <1>4, <1>5 DEF LAfter

\* A thread reads the key for its event.
LEMMA ReadStep ==
  ASSUME SessionWalAssumption, LInv, NEW p \in Paths, StartWitnessing(p) \/ Change(p)
  PROVE  LAfter
<1> USE DEF LInv
<1>1. /\ Look /\ UNCHANGED <<sessionOf, logged, pending, wal, walFaults, walLapse>>
      /\ \E t \in Threads : \E step \in {"start", "change"} :
           thread[t].at = "rest" /\ thread' = [thread EXCEPT ![t] = At(step, p, KeyNow)]
  BY DEF StartWitnessing, Change, Threads
<1>2. PICK t \in Threads, step \in {"start", "change"} :
        thread[t].at = "rest" /\ thread' = [thread EXCEPT ![t] = At(step, p, KeyNow)]
  BY <1>1
<1>3. /\ walKey' \in KeyType
      /\ KeyNow \in 0 .. MaxKeys
  BY <1>1, KeyLooked
<1> DEFINE r == At(step, p, KeyNow)
<1>4. r \in ThreadType /\ Able(r) /\ r.todo = <<>>
  BY <1>3, ReadingThread
<1>5. thread' = [thread EXCEPT ![t] = r]
  BY <1>2
<1> HIDE DEF r
<1>6. /\ thread' \in [Threads -> ThreadType] /\ Busy' /\ thread'[t] = r
      /\ \A u \in Threads \ {t} : thread'[u] = thread[u]
  BY <1>4, <1>5, ThreadMoves
<1>7. thread[t].todo = <<>>
  BY <1>2, ThreadBefore
<1>8. \A u \in Threads : thread'[u].todo = thread[u].todo
  BY <1>4, <1>6, <1>7
<1>9. WalTypeOK'
  BY <1>1, <1>3, <1>6 DEF WalTypeOK, KeyType, ThreadType
<1>10. Once' /\ Complete' /\ InTurn'
  BY <1>1, <1>8, EntriesStay
<1> QED BY <1>6, <1>9, <1>10 DEF LAfter

\* A thread that holds nothing rests.
LEMMA RestStep ==
  ASSUME SessionWalAssumption, LInv, NEW t \in Threads, thread[t].at # "write",
         thread' = [thread EXCEPT ![t] = Idle],
         sessionOf' \in [Paths -> 0 .. MaxLogs],
         UNCHANGED <<walKey, logged, pending, wal, walFaults, walLapse>>
  PROVE  LAfter
<1> USE DEF LInv
<1> DEFINE r == Idle
<1>1. r \in ThreadType /\ Able(r) /\ r.todo = <<>> /\ thread' = [thread EXCEPT ![t] = r]
  BY RestingThread
<1> HIDE DEF r
<1>2. /\ thread' \in [Threads -> ThreadType] /\ Busy' /\ thread'[t] = r
      /\ \A u \in Threads \ {t} : thread'[u] = thread[u]
  BY <1>1, ThreadMoves
<1>3. \A u \in Threads : thread'[u].todo = thread[u].todo
  BY <1>1, <1>2, ThreadBefore
<1>4. WalTypeOK'
  BY <1>2 DEF WalTypeOK, ThreadType
<1>5. Once' /\ Complete' /\ InTurn'
  BY <1>3, EntriesStay
<1> QED BY <1>2, <1>4, <1>5 DEF LAfter

\* A deleted document.
LEMMA DeletedStep ==
  ASSUME SessionWalAssumption, LInv, Deleted
  PROVE  LAfter
<1>1. sessionOf' \in [Paths -> 0 .. MaxLogs]
  <2>1. sessionOf \in [Paths -> 0 .. MaxLogs] /\ 0 \in 0 .. MaxLogs
    BY DEF LInv, WalTypeOK, SessionWalAssumption
  <2> QED BY <2>1 DEF Deleted
<1>2. EventLoop \in Threads /\ thread[EventLoop].at # "write"
  BY DEF Deleted, Threads
<1> QED BY <1>1, <1>2, RestStep DEF Deleted

\* The buffer is drained by a thread that will then write, or is left alone.
LEMMA FocusStep ==
  ASSUME SessionWalAssumption, LInv, NEW t \in Threads, NEW p \in Paths, Focus(t, p)
  PROVE  LAfter
<1> USE DEF LInv
<1>1. /\ thread[t].at = "rest" /\ Look /\ UNCHANGED <<sessionOf, logged, wal, walFaults>>
  BY DEF Focus
<1>2. /\ walKey' \in KeyType
      /\ KeyNow \in 0 .. MaxKeys
  BY <1>1, KeyLooked
<1>3. thread[t].todo = <<>>
  BY <1>1, ThreadBefore
<1>4. pending \in Seq(EntryType) /\ walLapse \subseteq WalLapses
  BY DEF WalTypeOK
<1>5. CASE sessionOf[p] = 0 /\ KeyNow # 0 /\ pending # <<>>
  <2> DEFINE r == Writing(p, KeyNow, pending, "insert")
  <2>1. /\ thread' = [thread EXCEPT ![t] = r] /\ pending' = <<>>
        /\ walLapse' = walLapse \cup
             LapseIf("overtaken", \E o \in Threads \ {t} : thread[o].todo # <<>>)
    BY <1>5 DEF Focus, Take
  <2>2. KeyNow \in 1 .. MaxKeys
    BY <1>2, <1>5 DEF SessionWalAssumption
  <2>3. r \in ThreadType /\ Able(r) /\ r.todo = pending
    BY <1>4, <1>5, <2>2, WritingThread
  <2> HIDE DEF r
  <2>4. /\ thread' \in [Threads -> ThreadType] /\ Busy' /\ thread'[t] = r
        /\ \A u \in Threads \ {t} : thread'[u] = thread[u]
    BY <2>1, <2>3, ThreadMoves
  <2>5. /\ walLapse' \subseteq WalLapses /\ walLapse \subseteq walLapse'
        /\ "overtaken" \in walLapse' \/ \A u \in Threads \ {t} : thread[u].todo = <<>>
    BY <1>4, <2>1 DEF LapseIf, WalLapses
  <2>6. /\ Recorded' = Recorded /\ Written' = Written
        /\ LogsDistinct => LogsDistinct'
        /\ LogsRising => LogsRising'
    BY <1>1, LogsAsTheyWere
  <2>7. LogsDistinct'
    BY <2>6 DEF Once
  <2>8. thread'[t].todo = pending /\ \A u \in Threads \ {t} : thread'[u].todo = thread[u].todo
    BY <2>3, <2>4
  <2>9. Once' /\ Complete' /\ InTurn'
    BY <1>3, <2>1, <2>5, <2>6, <2>7, <2>8, BufferDrained
  <2>10. pending' \in Seq(EntryType) /\ Len(pending') <= MaxPending
    BY <2>1 DEF SessionWalAssumption
  <2>11. WalTypeOK'
    BY <1>1, <1>2, <2>4, <2>5, <2>10 DEF WalTypeOK, KeyType, ThreadType
  <2> QED BY <2>4, <2>9, <2>11 DEF LAfter
<1>6. CASE ~(sessionOf[p] = 0 /\ KeyNow # 0 /\ pending # <<>>)
  <2> DEFINE r == At("insert", p, KeyNow)
  <2>1. thread' = [thread EXCEPT ![t] = r] /\ UNCHANGED <<pending, walLapse>>
    BY <1>6 DEF Focus
  <2>2. r \in ThreadType /\ Able(r) /\ r.todo = <<>>
    BY <1>2, ReadingThread
  <2> HIDE DEF r
  <2>3. /\ thread' \in [Threads -> ThreadType] /\ Busy' /\ thread'[t] = r
        /\ \A u \in Threads \ {t} : thread'[u] = thread[u]
    BY <2>1, <2>2, ThreadMoves
  <2>4. \A u \in Threads : thread'[u].todo = thread[u].todo
    BY <1>3, <2>2, <2>3
  <2>5. Once' /\ Complete' /\ InTurn'
    BY <1>1, <2>1, <2>4, EntriesStay
  <2>6. WalTypeOK'
    BY <1>1, <1>2, <2>1, <2>3 DEF WalTypeOK, KeyType, ThreadType
  <2> QED BY <2>3, <2>5, <2>6 DEF LAfter
<1> QED BY <1>5, <1>6

\* A session with its log, as the types have them.
LEMMA SessionTypes ==
  ASSUME SessionWalAssumption, WalTypeOK, NEW p \in Paths, NewSession(p),
         NEW w \in Seq(LogEntryType), wal' = Append(wal, w)
  PROVE  /\ sessionOf' \in [Paths -> 0 .. MaxLogs]
         /\ logged' \in Seq(1 .. MaxEntries) /\ Len(logged') <= MaxLogs
         /\ wal' \in Seq(Seq(LogEntryType)) /\ Len(wal') = Len(logged')
<1>1. /\ Len(logged) \in Nat /\ Len(logged) < MaxLogs /\ Len(wal) = Len(logged)
      /\ MaxLogs \in Nat /\ 1 \in 1 .. MaxEntries
      /\ logged \in Seq(1 .. MaxEntries) /\ wal \in Seq(Seq(LogEntryType))
      /\ sessionOf \in [Paths -> 0 .. MaxLogs]
  <2>1. Len(logged) \in Nat /\ Len(wal) = Len(logged)
    BY LogTypes
  <2>2. Len(logged) < MaxLogs
    BY DEF NewSession
  <2>3. MaxLogs \in Nat /\ 1 \in 1 .. MaxEntries
    BY DEF SessionWalAssumption
  <2>4. /\ logged \in Seq(1 .. MaxEntries) /\ wal \in Seq(Seq(LogEntryType))
        /\ sessionOf \in [Paths -> 0 .. MaxLogs]
    BY DEF WalTypeOK, LogEntryType
  <2> QED BY <2>1, <2>2, <2>3, <2>4
<1>2. /\ sessionOf' = [sessionOf EXCEPT ![p] = Len(logged) + 1]
      /\ logged' = Append(logged, 1)
  BY DEF NewSession
<1>3. Len(logged) + 1 \in 0 .. MaxLogs
  BY <1>1
<1>4. sessionOf' \in [Paths -> 0 .. MaxLogs]
  BY <1>1, <1>2, <1>3
<1>5. /\ logged' \in Seq(1 .. MaxEntries) /\ Len(logged') = Len(logged) + 1
      /\ wal' \in Seq(Seq(LogEntryType)) /\ Len(wal') = Len(wal) + 1
  BY <1>1, <1>2
<1> QED BY <1>1, <1>4, <1>5

\* focus_document_sync starts a session and records its start.
LEMMA InsertStep ==
  ASSUME SessionWalAssumption, LInv, NEW t \in Threads, Insert(t)
  PROVE  LAfter
<1> USE DEF LInv
<1>1. /\ thread[t].at = "insert" /\ UNCHANGED <<walKey, walFaults>>
      /\ thread[t].at # "write" /\ thread[t].todo = <<>>
      /\ thread[t].path \in Paths /\ thread[t].key \in 0 .. MaxKeys
  BY ThreadBefore DEF Insert
<1>2. CASE sessionOf[thread[t].path] = 0
  <2> DEFINE p == thread[t].path
             k == thread[t].key
             s == Len(logged) + 1
             w == <<>>
             e == Entry(s, 1)
  <2>1. /\ NewSession(p) /\ wal' = Append(wal, w) /\ Record(t, s, 1, k)
        /\ Len(logged) < MaxLogs /\ logged' = Append(logged, 1)
    BY <1>2 DEF Insert, NewSession
  <2>2. w \in Seq(LogEntryType)
    OBVIOUS
  <2> HIDE DEF p, k
  <2>3. /\ sessionOf' \in [Paths -> 0 .. MaxLogs]
        /\ logged' \in Seq(1 .. MaxEntries) /\ Len(logged') <= MaxLogs
        /\ wal' \in Seq(Seq(LogEntryType)) /\ Len(wal') = Len(logged')
    <3>1. p \in Paths
      BY <1>1 DEF p
    <3> QED BY <2>1, <2>2, <3>1, SessionTypes
  <2>4. /\ e \in EntryType /\ e \notin Recorded /\ Older(Recorded, {e})
        /\ Recorded' = Recorded \cup {e} /\ Written' = Written
        /\ LogsDistinct => LogsDistinct'
        /\ LogsRising => LogsRising'
    BY <2>1, <2>2, LogStarted
  <2>5. LogsDistinct'
    BY <2>4 DEF Once
  <2>6. k \in 0 .. MaxKeys
    BY <1>1 DEF k
  <2> HIDE DEF s
  <2>7. /\ pending' \in Seq(EntryType) /\ Len(pending') <= MaxPending
        /\ thread' \in [Threads -> ThreadType] /\ walLapse' \subseteq WalLapses
        /\ Busy' /\ Once' /\ Complete' /\ InTurn'
    BY <1>1, <2>1, <2>4, <2>5, <2>6, EntryRecorded
  <2>8. WalTypeOK'
    BY <1>1, <2>3, <2>7 DEF WalTypeOK, ThreadType, LogEntryType
  <2> QED BY <2>7, <2>8 DEF LAfter
<1>3. CASE sessionOf[thread[t].path] # 0
  <2>1. /\ thread' = [thread EXCEPT ![t] = Idle]
        /\ UNCHANGED <<sessionOf, logged, wal, pending, walLapse>>
    BY <1>3 DEF Insert
  <2>2. sessionOf' \in [Paths -> 0 .. MaxLogs]
    BY <2>1 DEF WalTypeOK
  <2> QED BY <1>1, <2>1, <2>2, RestStep
<1> QED BY <1>2, <1>3

\* start_witnessing starts a session: its start is in the log, or nowhere.
LEMMA StartStep ==
  ASSUME SessionWalAssumption, LInv, StartSession \/ StartSessionFails
  PROVE  LAfter
<1> USE DEF LInv
<1> DEFINE t == Ffi
           p == thread[Ffi].path
           k == thread[Ffi].key
           s == Len(logged) + 1
           e == Entry(s, 1)
           r == Idle
<1>1. /\ t \in Threads /\ thread' = [thread EXCEPT ![t] = r]
      /\ thread[t].at = "start" /\ UNCHANGED <<walKey, pending>>
  BY DEF StartSession, StartSessionFails, Threads
<1>2. /\ thread[t].at # "write" /\ thread[t].todo = <<>> /\ p \in Paths /\ k \in 0 .. MaxKeys
  BY <1>1, ThreadBefore
<1>3. CASE StartSession /\ sessionOf[p] # 0
  <2>1. UNCHANGED <<sessionOf, logged, wal, walLapse, walFaults>>
    BY <1>3 DEF StartSession
  <2>2. sessionOf' \in [Paths -> 0 .. MaxLogs]
    BY <2>1 DEF WalTypeOK
  <2> QED BY <1>1, <1>2, <2>1, <2>2, RestStep
<1>4. CASE sessionOf[p] = 0
  <2>1. /\ NewSession(p) /\ Len(logged) < MaxLogs /\ logged' = Append(logged, 1)
    BY <1>4 DEF StartSession, StartSessionFails, NewSession
  <2>2. /\ walFaults' \in 0 .. MaxWalFaults
        /\ walLapse' \subseteq WalLapses /\ walLapse \subseteq walLapse'
        /\ \/ k # 0 /\ wal' = Append(wal, <<[n |-> 1, key |-> k]>>)
           \/ wal' = Append(wal, <<>>) /\ ~(walLapse' \subseteq {"overtaken"})
    <3>1. walFaults \in 0 .. MaxWalFaults /\ MaxWalFaults \in Nat /\ walLapse \subseteq WalLapses
      BY DEF WalTypeOK, SessionWalAssumption
    <3>2. CASE StartSession
      BY <1>4, <3>1, <3>2 DEF StartSession, LapseIf, WalLapses
    <3>3. CASE StartSessionFails
      BY <1>4, <3>1, <3>3 DEF StartSessionFails, WalLapses
    <3> QED BY <3>2, <3>3
  <2>3. \E w \in Seq(LogEntryType) :
          /\ w = <<>> \/ \E j \in 1 .. MaxKeys : w = <<[n |-> 1, key |-> j]>>
          /\ wal' = Append(wal, w)
          /\ w # <<>> \/ ~(walLapse' \subseteq {"overtaken"})
    <3>1. CASE k # 0 /\ wal' = Append(wal, <<[n |-> 1, key |-> k]>>)
      <4> DEFINE w == <<[n |-> 1, key |-> k]>>
      <4>1. k \in 1 .. MaxKeys
        BY <1>2, <3>1 DEF SessionWalAssumption
      <4>2. [n |-> 1, key |-> k] \in LogEntryType
        BY <4>1 DEF LogEntryType, SessionWalAssumption
      <4>3. w \in Seq(LogEntryType) /\ w # <<>>
        BY <4>2
      <4> QED BY <3>1, <4>1, <4>3
    <3>2. CASE wal' = Append(wal, <<>>) /\ ~(walLapse' \subseteq {"overtaken"})
      <4>1. <<>> \in Seq(LogEntryType)
        OBVIOUS
      <4> QED BY <3>2, <4>1
    <3> QED BY <2>2, <3>1, <3>2
  <2>4. PICK w \in Seq(LogEntryType) :
          /\ w = <<>> \/ \E j \in 1 .. MaxKeys : w = <<[n |-> 1, key |-> j]>>
          /\ wal' = Append(wal, w)
          /\ w # <<>> \/ ~(walLapse' \subseteq {"overtaken"})
    BY <2>3
  <2>5. /\ sessionOf' \in [Paths -> 0 .. MaxLogs]
        /\ logged' \in Seq(1 .. MaxEntries) /\ Len(logged') <= MaxLogs
        /\ wal' \in Seq(Seq(LogEntryType)) /\ Len(wal') = Len(logged')
    <3> HIDE DEF p
    <3> QED BY <1>2, <2>1, <2>4, SessionTypes
  <2>6. /\ e \in EntryType /\ (\A a \in Recorded : a.session # e.session)
        /\ Recorded' = Recorded \cup {e}
        /\ w = <<>> => Written' = Written
        /\ w # <<>> => Written' = Written \cup {e}
        /\ LogsDistinct => LogsDistinct'
        /\ LogsRising => LogsRising'
    BY <2>1, <2>4, LogStarted
  <2>7. LogsDistinct'
    BY <2>6 DEF Once
  <2>8. r \in ThreadType /\ Able(r) /\ r.todo = <<>>
    BY RestingThread
  <2> HIDE DEF r, e, s
  <2>9. /\ thread' \in [Threads -> ThreadType] /\ Busy' /\ thread'[t] = r
        /\ \A u \in Threads \ {t} : thread'[u] = thread[u]
    BY <1>1, <2>8, ThreadMoves
  <2>10. \A u \in Threads : thread'[u].todo = thread[u].todo
    BY <1>2, <2>8, <2>9
  <2>11. \/ Written' = Written \cup {e}
         \/ Written' = Written /\ ~(walLapse' \subseteq {"overtaken"})
    BY <2>4, <2>6
  <2>12. Once' /\ Complete' /\ InTurn'
    BY <1>1, <2>2, <2>6, <2>7, <2>10, <2>11, EntryStarted
  <2>13. WalTypeOK'
    BY <1>1, <2>2, <2>5, <2>9 DEF WalTypeOK, ThreadType, LogEntryType
  <2> QED BY <2>9, <2>12, <2>13 DEF LAfter
<1>5. StartSessionFails => sessionOf[p] = 0
  BY DEF StartSessionFails
<1> QED BY <1>3, <1>4, <1>5

\* The event loop records the next entry of a session.
LEMMA LogStep ==
  ASSUME SessionWalAssumption, LInv, NEW s \in Sessions, NEW k \in 0 .. MaxKeys,
         thread[EventLoop].at = "change", Log(s, k),
         walKey' \in KeyType,
         sessionOf' \in [Paths -> 0 .. MaxLogs], UNCHANGED <<wal, walFaults>>
  PROVE  LAfter
<1> USE DEF LInv
<1> DEFINE t == EventLoop
           n == logged[s] + 1
           e == Entry(s, n)
<1>1. /\ logged[s] < MaxEntries /\ logged' = [logged EXCEPT ![s] = @ + 1]
      /\ Record(t, s, n, k)
  BY DEF Log
<1>2. t \in Threads /\ thread[t].todo = <<>>
  <2>1. t \in Threads /\ thread[t].at # "write"
    BY DEF Threads
  <2> QED BY <2>1, ThreadBefore
<1>3. /\ e \in EntryType /\ e \notin Recorded /\ Older(Recorded, {e})
      /\ Recorded' = Recorded \cup {e} /\ Written' = Written
      /\ LogsDistinct => LogsDistinct'
      /\ LogsRising => LogsRising'
  BY <1>1, EntryCounted
<1>4. LogsDistinct'
  BY <1>3 DEF Once
<1>5. logged' \in Seq(1 .. MaxEntries) /\ Len(logged') = Len(logged)
  <2>1. logged[s] + 1 \in 1 .. MaxEntries
    BY <1>1, LogTypes
  <2>2. logged \in Seq(1 .. MaxEntries) /\ s \in DOMAIN logged
    BY DEF WalTypeOK, Sessions
  <2> QED BY <1>1, <2>1, <2>2
<1> HIDE DEF t, n
<1>6. /\ pending' \in Seq(EntryType) /\ Len(pending') <= MaxPending
      /\ thread' \in [Threads -> ThreadType] /\ walLapse' \subseteq WalLapses
      /\ Busy' /\ Once' /\ Complete' /\ InTurn'
  BY <1>1, <1>2, <1>3, <1>4, EntryRecorded
<1>7. WalTypeOK'
  BY <1>5, <1>6 DEF WalTypeOK, KeyType, ThreadType
<1> QED BY <1>6, <1>7 DEF LAfter

\* The session of a path is one whose entries are counted.
LEMMA SessionOfPath ==
  ASSUME SessionWalAssumption, LInv, NEW p \in Paths, sessionOf[p] # 0
  PROVE  sessionOf[p] \in Sessions /\ sessionOf[p] \in 0 .. MaxLogs
<1>1. sessionOf[p] \in 0 .. Len(logged) /\ sessionOf[p] \in 0 .. MaxLogs
  BY DEF LInv, Known, WalTypeOK
<1>2. Sessions = 1 .. Len(logged) /\ Len(logged) \in Nat
  BY LogTypes DEF LInv
<1> QED BY <1>1, <1>2

\* Saved, saved as and renamed.
LEMMA ChangeStep ==
  ASSUME SessionWalAssumption, LInv,
         Saved \/ \E o \in Paths : SavedAs(o) \/ Renamed(o)
  PROVE  LAfter
<1>1. /\ walKey \in KeyType
      /\ sessionOf \in [Paths -> 0 .. MaxLogs] /\ 0 \in 0 .. MaxLogs
      /\ WalTypeOK /\ Busy
  BY DEF LInv, WalTypeOK, KeyType, SessionWalAssumption
<1>2. thread[EventLoop].at = "change"
  BY DEF Saved, SavedAs, Renamed
<1>3. thread[EventLoop].path \in Paths /\ thread[EventLoop].key \in 0 .. MaxKeys
  <2>1. EventLoop \in Threads
    BY DEF Threads
  <2> QED BY <1>1, <1>2, <2>1, ThreadBefore
<1>4. CASE Saved
  <2> DEFINE s == sessionOf[thread[EventLoop].path]
             k == thread[EventLoop].key
  <2>1. s # 0 /\ Log(s, k) /\ UNCHANGED <<walKey, sessionOf, wal, walFaults>>
    BY <1>4 DEF Saved
  <2>2. s \in Sessions
    BY <1>3, <2>1, SessionOfPath
  <2> HIDE DEF s, k
  <2>3. k \in 0 .. MaxKeys
    BY <1>3 DEF k
  <2> QED BY <1>1, <1>2, <2>1, <2>2, <2>3, LogStep
<1>5. ASSUME NEW o \in Paths, SavedAs(o) PROVE LAfter
  <2> DEFINE s == sessionOf[o]
             k == KeyNow
  <2>1. s # 0 /\ Look /\ Log(s, k) /\ UNCHANGED <<sessionOf, wal, walFaults>>
    BY <1>5 DEF SavedAs
  <2>2. s \in Sessions
    BY <2>1, SessionOfPath
  <2>3. /\ walKey' \in KeyType
        /\ k \in 0 .. MaxKeys
    BY <1>1, <2>1, KeyLooked
  <2> HIDE DEF s, k
  <2> QED BY <1>1, <1>2, <2>1, <2>2, <2>3, LogStep
<1>6. ASSUME NEW o \in Paths, Renamed(o) PROVE LAfter
  <2> DEFINE s == sessionOf[thread[EventLoop].path]
             k == thread[EventLoop].key
  <2>1. /\ s # 0 /\ Log(s, k) /\ UNCHANGED <<walKey, wal, walFaults>>
        /\ sessionOf' = [sessionOf EXCEPT ![o] = s, ![thread[EventLoop].path] = 0]
    BY <1>6 DEF Renamed
  <2>2. s \in Sessions /\ s \in 0 .. MaxLogs
    BY <1>3, <2>1, SessionOfPath
  <2> HIDE DEF s, k
  <2>3. sessionOf' \in [Paths -> 0 .. MaxLogs]
    BY <1>1, <2>1, <2>2
  <2>4. k \in 0 .. MaxKeys
    BY <1>3 DEF k
  <2> QED BY <1>1, <1>2, <2>1, <2>2, <2>3, <2>4, LogStep
<1> QED BY <1>4, <1>5, <1>6

\* The entry a thread writes belongs to a session that was started.
LEMMA EntryInHand ==
  ASSUME SessionWalAssumption, LInv, NEW t \in Threads, thread[t].at = "write"
  PROVE  LET q == thread[t].todo
             e == Head(q)
         IN  /\ q \in Seq(EntryType) /\ q # <<>> /\ e \in Items(q) /\ e \in Recorded
             /\ e \in EntryType /\ e.session \in Sessions /\ e.n \in 1 .. MaxEntries
             /\ thread[t].key \in 1 .. MaxKeys /\ thread[t].pos \in Nat
<1> DEFINE q == thread[t].todo
           e == Head(q)
<1>1. /\ thread[t] \in ThreadType /\ Able(thread[t]) /\ q \in Seq(EntryType)
      /\ thread[t].key \in 0 .. MaxKeys
  BY ThreadBefore DEF LInv
<1>2. q # <<>> /\ thread[t].key # 0 /\ thread[t].pos \in Nat
  BY <1>1 DEF Able, ThreadType
<1>3. Items(q) \subseteq Recorded
  BY DEF LInv, Once
<1> HIDE DEF q
<1>4. e \in Items(q)
  <2>1. Items(q) = {Head(q)} \cup Items(Tail(q))
    BY <1>1, <1>2, TailList
  <2> QED BY <2>1
<1>5. e \in Recorded
  BY <1>3, <1>4
<1>6. e \in EntryType /\ e.session \in Sessions /\ e.n \in 1 .. MaxEntries
  BY <1>5 DEF Recorded, EntryType
<1>7. thread[t].key \in 1 .. MaxKeys
  BY <1>1, <1>2 DEF SessionWalAssumption
<1> QED BY <1>1, <1>2, <1>4, <1>5, <1>6, <1>7 DEF q

\* A log is opened, and truncated if it is of another key.
LEMMA OpenStep ==
  ASSUME SessionWalAssumption, LInv, NEW t \in Threads, OpenWal(t)
  PROVE  LAfter
<1> DEFINE q == thread[t].todo
           s == Head(q).session
           foreign == wal[s] # <<>> /\ wal[s][1].key # thread[t].key
           r == [thread[t] EXCEPT !.open = TRUE, !.pos = Len(wal'[s])]
<1>1. /\ thread[t].at = "write" /\ UNCHANGED <<walKey, sessionOf, logged, pending, walFaults>>
      /\ wal' = IF foreign THEN [wal EXCEPT ![s] = <<>>] ELSE wal
      /\ walLapse' = walLapse \cup LapseIf("rekeyed", foreign)
      /\ thread' = [thread EXCEPT ![t].open = TRUE, ![t].pos = Len(wal'[s])]
  BY DEF OpenWal
<1>2. WalTypeOK /\ Busy /\ Once /\ Complete /\ InTurn
  BY DEF LInv
<1>3. thread[t] \in ThreadType /\ Able(thread[t])
  BY <1>2, ThreadBefore
<1>4. thread' = [thread EXCEPT ![t] = r]
  <2>1. thread \in [Threads -> ThreadType]
    BY <1>2 DEF WalTypeOK, ThreadType
  <2>2. ASSUME NEW x
        PROVE  [thread EXCEPT ![t].open = TRUE, ![t].pos = x] =
                 [thread EXCEPT ![t] = [thread[t] EXCEPT !.open = TRUE, !.pos = x]]
    <3> DEFINE a == [thread EXCEPT ![t].open = TRUE]
               b == [thread[t] EXCEPT !.open = TRUE]
    <3>1. /\ a \in [Threads -> ThreadType] /\ a[t] = b
          /\ \A u \in Threads \ {t} : a[u] = thread[u]
      BY <1>3, <2>1 DEF ThreadType
    <3>2. [thread EXCEPT ![t].open = TRUE, ![t].pos = x] = [a EXCEPT ![t].pos = x]
      OBVIOUS
    <3>3. [a EXCEPT ![t].pos = x] = [a EXCEPT ![t] = [b EXCEPT !.pos = x]]
      <4> HIDE DEF a, b
      <4> QED BY <3>1
    <3>4. [thread[t] EXCEPT !.open = TRUE, !.pos = x] = [b EXCEPT !.pos = x]
      OBVIOUS
    <3> HIDE DEF b
    <3>5. [a EXCEPT ![t] = [b EXCEPT !.pos = x]] = [thread EXCEPT ![t] = [b EXCEPT !.pos = x]]
      <4> HIDE DEF a
      <4> QED BY <2>1, <3>1
    <3> QED BY <3>2, <3>3, <3>4, <3>5
  <2> DEFINE x == Len(wal'[s])
  <2>3. thread' = [thread EXCEPT ![t].open = TRUE, ![t].pos = x]
    BY <1>1
  <2>4. r = [thread[t] EXCEPT !.open = TRUE, !.pos = x]
    OBVIOUS
  <2> HIDE DEF x, r
  <2> QED BY <2>2, <2>3, <2>4
<1>5. s \in Sessions
  BY <1>1, EntryInHand
<1>6. walLapse \subseteq walLapse' /\ walLapse' \subseteq WalLapses
      /\ (foreign => "rekeyed" \in walLapse')
  <2>1. walLapse \subseteq WalLapses
    BY <1>2 DEF WalTypeOK
  <2> HIDE DEF foreign
  <2> QED BY <1>1, <2>1 DEF LapseIf, WalLapses
<1> HIDE DEF s
<1>7. /\ wal' \in Seq(Seq(LogEntryType)) /\ Len(wal') = Len(wal) /\ wal'[s] \in Seq(LogEntryType)
  <2>1. wal \in Seq(Seq(LogEntryType)) /\ <<>> \in Seq(LogEntryType) /\ s \in DOMAIN wal
    <3>1. wal \in Seq(Seq(LogEntryType))
      BY <1>2 DEF WalTypeOK, LogEntryType
    <3>2. DOMAIN wal = Sessions
      BY <1>2, LogTypes
    <3> QED BY <1>5, <3>1, <3>2
  <2>2. wal[s] \in Seq(LogEntryType)
    BY <1>2, <1>5, LogTypes
  <2>3. [wal EXCEPT ![s] = <<>>] \in Seq(Seq(LogEntryType))
        /\ Len([wal EXCEPT ![s] = <<>>]) = Len(wal)
        /\ [wal EXCEPT ![s] = <<>>][s] = <<>>
    BY <2>1
  <2> HIDE DEF foreign
  <2> QED BY <1>1, <2>1, <2>2, <2>3
<1>8. r \in ThreadType /\ r.todo = thread[t].todo /\ Able(r)
  <2>1. Len(wal'[s]) \in Nat
    BY <1>7
  <2>2. r \in ThreadType
    BY <1>3, <2>1 DEF ThreadType
  <2>3. /\ r.todo = thread[t].todo /\ r.at = thread[t].at /\ r.key = thread[t].key
        /\ r.path = thread[t].path /\ r.then = thread[t].then
    BY <1>3 DEF ThreadType
  <2> HIDE DEF r
  <2>4. Able(r)
    BY <1>3, <2>3 DEF Able
  <2> QED BY <2>2, <2>3, <2>4
<1> HIDE DEF r
<1>9. /\ thread' \in [Threads -> ThreadType] /\ Busy' /\ thread'[t] = r
      /\ \A u \in Threads \ {t} : thread'[u] = thread[u]
  BY <1>2, <1>4, <1>8, ThreadMoves
<1>10. \A u \in Threads : thread'[u].todo = thread[u].todo
  BY <1>8, <1>9
<1>11. /\ Recorded' = Recorded /\ Written' \subseteq Written
       /\ LogsDistinct => LogsDistinct'
       /\ LogsRising => LogsRising'
       /\ foreign \/ Written' = Written
  <2>1. CASE foreign
    <3>1. wal' = [wal EXCEPT ![s] = <<>>] /\ logged' = logged
      BY <1>1, <2>1
    <3>2. /\ Recorded' = Recorded
          /\ DistinctNumbers(<<>>) /\ LogsDistinct => LogsDistinct'
          /\ RisingNumbers(<<>>) /\ LogsRising => LogsRising'
          /\ \A e \in EntryType : e.session # s => (e \in Written' <=> e \in Written)
          /\ \A e \in EntryType : e.session = s => (e \in Written' <=> e.n \in Numbers(<<>>))
      BY <1>2, <1>5, <3>1, LogChanged
    <3>3. \A e \in Written' : e \in EntryType
      BY DEF Written
    <3> QED BY <2>1, <3>2, <3>3, EmptyList
  <2>2. CASE ~foreign
    <3>1. wal' = wal /\ logged' = logged
      BY <1>1, <2>2
    <3> QED BY <3>1, LogsAsTheyWere
  <2> QED BY <2>1, <2>2
<1>12. LogsDistinct'
  BY <1>2, <1>11 DEF Once
<1>13. Written' = Written \/ ~(walLapse' \subseteq {"overtaken"})
  BY <1>6, <1>11
<1> HIDE DEF foreign
<1>14. Once' /\ Complete' /\ InTurn'
  BY <1>1, <1>2, <1>6, <1>10, <1>11, <1>12, <1>13, NothingMoved
<1>15. WalTypeOK'
  BY <1>1, <1>2, <1>6, <1>7, <1>9 DEF WalTypeOK, ThreadType, LogEntryType
<1> QED BY <1>9, <1>14, <1>15 DEF LAfter

\* A thread is done with an entry: what its list is then.
LEMMA HandAdvances ==
  ASSUME SessionWalAssumption, LInv, NEW t \in Threads, thread[t].at = "write",
         thread' = [thread EXCEPT ![t] = Advance(t)]
  PROVE  /\ thread' \in [Threads -> ThreadType] /\ Busy'
         /\ thread'[t].todo = Tail(thread[t].todo)
         /\ \A u \in Threads \ {t} : thread'[u].todo = thread[u].todo
<1> DEFINE r == Advance(t)
<1>1. thread[t] \in ThreadType /\ Able(thread[t]) /\ WalTypeOK /\ Busy
  BY ThreadBefore DEF LInv
<1>2. r \in ThreadType /\ Able(r) /\ r.todo = Tail(thread[t].todo)
  BY <1>1, AdvancedThread
<1> HIDE DEF r
<1>3. thread' = [thread EXCEPT ![t] = r]
  BY DEF r
<1>4. /\ thread' \in [Threads -> ThreadType] /\ Busy' /\ thread'[t] = r
      /\ \A u \in Threads \ {t} : thread'[u] = thread[u]
  BY <1>1, <1>2, <1>3, ThreadMoves
<1> QED BY <1>2, <1>4

\* An entry cannot be written.
LEMMA FailStep ==
  ASSUME SessionWalAssumption, LInv, NEW t \in Threads, WriteFails(t)
  PROVE  LAfter
<1>1. /\ thread[t].at = "write" /\ thread' = [thread EXCEPT ![t] = Advance(t)]
      /\ walFaults < MaxWalFaults /\ walFaults' = walFaults + 1
      /\ walLapse' = walLapse \cup {"failed"}
      /\ UNCHANGED <<walKey, sessionOf, logged, pending, wal>>
  BY DEF WriteFails
<1>2. WalTypeOK /\ Busy /\ Once /\ Complete /\ InTurn
  BY DEF LInv
<1>3. /\ thread' \in [Threads -> ThreadType] /\ Busy'
      /\ thread'[t].todo = Tail(thread[t].todo)
      /\ \A u \in Threads \ {t} : thread'[u].todo = thread[u].todo
  BY <1>1, HandAdvances
<1>4. thread[t].todo \in Seq(EntryType) /\ thread[t].todo # <<>>
  BY <1>1, EntryInHand
<1>5. /\ Recorded' = Recorded /\ Written' = Written
      /\ LogsDistinct => LogsDistinct'
      /\ LogsRising => LogsRising'
  BY <1>1, LogsAsTheyWere
<1>6. LogsDistinct' /\ (Lined => LogsRising')
  BY <1>2, <1>5 DEF Once, Lined
<1>7. walLapse \subseteq walLapse' /\ ~(walLapse' \subseteq {"overtaken"})
  BY <1>1
<1>8. Written' \subseteq Written \cup {Head(thread[t].todo)}
  BY <1>5
<1>9. Once' /\ Complete' /\ InTurn'
  BY <1>1, <1>2, <1>3, <1>4, <1>5, <1>6, <1>7, <1>8, EntryDone
<1>10. walFaults' \in 0 .. MaxWalFaults /\ walLapse' \subseteq WalLapses
  BY <1>1, <1>2 DEF WalTypeOK, SessionWalAssumption, WalLapses
<1>11. WalTypeOK'
  BY <1>1, <1>2, <1>3, <1>10 DEF WalTypeOK, ThreadType
<1> QED BY <1>3, <1>9, <1>11 DEF LAfter

\* An entry is written: behind the log, over what came after it was opened, or nowhere.
LEMMA WriteStep ==
  ASSUME SessionWalAssumption, LInv, NEW t \in Threads, WriteWal(t)
  PROVE  LAfter
<1> DEFINE q == thread[t].todo
           e == Head(q)
           s == e.session
           w == wal[s]
           p == thread[t].pos
           x == [n |-> e.n, key |-> thread[t].key]
           v == Append(SubSeq(w, 1, p), x)
<1>1. /\ thread[t].at = "write" /\ UNCHANGED <<walKey, sessionOf, logged, pending, walFaults>>
      /\ wal' = IF p <= Len(w) THEN [wal EXCEPT ![s] = v] ELSE wal
      /\ walLapse' = walLapse \cup LapseIf("collided", p # Len(w))
      /\ thread' = [thread EXCEPT ![t] = Advance(t)]
  BY DEF WriteWal
<1>2. WalTypeOK /\ Busy /\ Once /\ Complete /\ InTurn
  BY DEF LInv
<1>3. /\ q \in Seq(EntryType) /\ q # <<>> /\ e \in Items(q) /\ e \in Recorded
      /\ e \in EntryType /\ s \in Sessions /\ e.n \in 1 .. MaxEntries
      /\ thread[t].key \in 1 .. MaxKeys /\ p \in Nat
  BY <1>1, EntryInHand
<1>4. /\ thread' \in [Threads -> ThreadType] /\ Busy'
      /\ thread'[t].todo = Tail(q)
      /\ \A u \in Threads \ {t} : thread'[u].todo = thread[u].todo
  BY <1>1, HandAdvances
<1>5. x \in LogEntryType /\ x.n = e.n
  BY <1>3 DEF LogEntryType
<1>6. w \in Seq(LogEntryType) /\ Len(w) \in Nat /\ s \in DOMAIN wal
  <2>1. /\ DOMAIN wal = Sessions
        /\ \A o \in Sessions : wal[o] \in Seq(LogEntryType)
    BY <1>2, LogTypes
  <2>2. w \in Seq(LogEntryType) /\ s \in DOMAIN wal
    <3> HIDE DEF s
    <3> QED BY <1>3, <2>1
  <2> HIDE DEF w
  <2> QED BY <2>2
<1>7. /\ walLapse \subseteq walLapse' /\ walLapse' \subseteq WalLapses
      /\ p # Len(w) => "collided" \in walLapse'
  <2>1. walLapse \subseteq WalLapses
    BY <1>2 DEF WalTypeOK
  <2> HIDE DEF w, p
  <2> QED BY <1>1, <2>1 DEF LapseIf, WalLapses
<1>8. e \notin Written /\ (Lined => Older(Written, {e}))
  BY <1>2, <1>3 DEF Once, Lined, Older
<1>9. \A m \in Numbers(w) :
        Entry(s, m) \in Written /\ Entry(s, m).session = s /\ Entry(s, m).n = m
  <2>1. Numbers(w) \subseteq 1 .. MaxEntries /\ s \in 1 .. MaxLogs
    BY <1>2, <1>3, LogTypes
  <2> HIDE DEF s
  <2> QED BY <1>3, <2>1 DEF Written, Entry, EntryType
<1>10. e.n \notin Numbers(w) /\ (Lined => \A m \in Numbers(w) : m < e.n)
  <2>1. e.n \in Numbers(w) => e \in Written
    BY <1>3 DEF Written
  <2>2. Older(Written, {e}) => \A m \in Numbers(w) : m < e.n
    <3> HIDE DEF w, e
    <3> QED BY <1>9 DEF Older
  <2> QED BY <1>8, <2>1, <2>2
<1> HIDE DEF q, e, s, w, p, x
<1>11. p <= Len(w) =>
         /\ v \in Seq(LogEntryType)
         /\ Numbers(v) \subseteq Numbers(w) \cup {e.n}
         /\ p = Len(w) => Numbers(v) = Numbers(w) \cup {e.n}
         /\ DistinctNumbers(w) => DistinctNumbers(v)
         /\ RisingNumbers(w) /\ Lined => RisingNumbers(v)
  BY <1>3, <1>5, <1>6, <1>10, ContinuedLog
<1> HIDE DEF v
<1>12. LogsDistinct => DistinctNumbers(w)
  BY <1>3 DEF LogsDistinct, w
<1>13. Lined => LogsRising /\ RisingNumbers(w)
  BY <1>3 DEF Lined, LogsRising, w
<1>14. /\ Recorded' = Recorded /\ LogsDistinct' /\ (Lined => LogsRising')
       /\ Written' \subseteq Written \cup {e}
       /\ p = Len(w) => Written' = Written \cup {e}
  <2>1. CASE p <= Len(w)
    <3>1. wal' = [wal EXCEPT ![s] = v] /\ logged' = logged
      BY <1>1, <2>1
    <3>2. /\ Recorded' = Recorded
          /\ DistinctNumbers(v) /\ LogsDistinct => LogsDistinct'
          /\ RisingNumbers(v) /\ LogsRising => LogsRising'
          /\ \A a \in EntryType : a.session # s => (a \in Written' <=> a \in Written)
          /\ \A a \in EntryType : a.session = s => (a \in Written' <=> a.n \in Numbers(v))
          /\ \A a \in EntryType : a.session = s => (a \in Written <=> a.n \in Numbers(wal[s]))
      BY <1>2, <1>3, <3>1, LogChanged
    <3>3. LogsDistinct' /\ (Lined => LogsRising')
      BY <1>2, <1>11, <1>12, <1>13, <2>1, <3>2 DEF Once
    <3>4. \A a \in EntryType : a.session = s /\ a.n = e.n => a = e
      <4>1. \A a, b \in EntryType : a.session = b.session /\ a.n = b.n => a = b
        BY DEF EntryType
      <4> QED BY <1>3, <4>1 DEF s
    <3>5. /\ \A a \in Written' : a \in EntryType
          /\ \A a \in Written : a \in EntryType
      BY DEF Written
    <3>6. wal[s] = w /\ e.session = s
      BY DEF w, s
    <3>7. Written' \subseteq Written \cup {e}
      <4> SUFFICES ASSUME NEW a \in Written' PROVE a \in Written \/ a = e
        OBVIOUS
      <4>1. CASE a.session = s
        BY <1>11, <2>1, <3>2, <3>4, <3>5, <3>6, <4>1
      <4>2. CASE a.session # s
        BY <3>2, <3>5, <4>2
      <4> QED BY <4>1, <4>2
    <3>8. ASSUME p = Len(w) PROVE Written' = Written \cup {e}
      <4>1. e \in Written'
        BY <1>3, <1>11, <2>1, <3>2, <3>6, <3>8
      <4>2. ASSUME NEW a \in Written PROVE a \in Written'
        <5>1. CASE a.session = s
          BY <1>11, <2>1, <3>2, <3>5, <3>6, <3>8, <5>1
        <5>2. CASE a.session # s
          BY <3>2, <3>5, <5>2
        <5> QED BY <5>1, <5>2
      <4> QED BY <3>7, <4>1, <4>2
    <3> QED BY <3>2, <3>3, <3>7, <3>8
  <2>2. CASE ~(p <= Len(w))
    <3>1. wal' = wal /\ logged' = logged
      BY <1>1, <2>2
    <3>2. /\ Recorded' = Recorded /\ Written' = Written
          /\ LogsDistinct => LogsDistinct'
          /\ LogsRising => LogsRising'
      BY <3>1, LogsAsTheyWere
    <3>3. p # Len(w)
      BY <1>3, <1>6, <2>2
    <3> QED BY <1>2, <1>13, <3>2, <3>3 DEF Once
  <2> QED BY <2>1, <2>2
<1>15. \/ Written' = Written \cup {e}
       \/ ~(walLapse' \subseteq {"overtaken"})
  BY <1>7, <1>14
<1>16. Once' /\ Complete' /\ InTurn'
  <2>1. thread[t].todo = q /\ Head(thread[t].todo) = e
    BY DEF q, e
  <2> QED BY <1>1, <1>2, <1>3, <1>4, <1>7, <1>14, <1>15, <2>1, EntryDone
<1>17. wal' \in Seq(Seq(LogEntryType)) /\ Len(wal') = Len(wal)
  <2>1. wal \in Seq(Seq(LogEntryType))
    BY <1>2 DEF WalTypeOK, LogEntryType
  <2>2. p <= Len(w) => /\ [wal EXCEPT ![s] = v] \in Seq(Seq(LogEntryType))
                       /\ Len([wal EXCEPT ![s] = v]) = Len(wal)
    BY <1>6, <1>11, <2>1
  <2> QED BY <1>1, <2>1, <2>2
<1>18. WalTypeOK'
  BY <1>1, <1>2, <1>4, <1>7, <1>17 DEF WalTypeOK, ThreadType, LogEntryType
<1> QED BY <1>4, <1>16, <1>18 DEF LAfter

\* The process stops.
LEMMA StopStep ==
  ASSUME SessionWalAssumption, LInv, Stop
  PROVE  LAfter
<1>1. /\ walFaults < MaxWalFaults /\ walFaults' = walFaults + 1 /\ pending' = <<>>
      /\ walKey' = [walKey EXCEPT !.set = FALSE, !.hot = 0, !.cold = FALSE]
      /\ sessionOf' = [p \in Paths |-> 0] /\ UNCHANGED <<logged, wal>>
      /\ thread' = [t \in Threads |-> Idle]
      /\ walLapse' = walLapse \cup LapseIf("stopped",
                    pending # <<>> \/ \E t \in Threads : thread[t].todo # <<>>)
  BY DEF Stop
<1>2. WalTypeOK /\ Busy /\ Once /\ Complete /\ InTurn
  BY DEF LInv
<1>3. Idle \in ThreadType /\ Able(Idle) /\ Idle.todo = <<>>
  BY RestingThread
<1>4. /\ thread' \in [Threads -> ThreadType] /\ Busy'
      /\ \A u \in Threads : thread'[u].todo = <<>>
  BY <1>1, <1>3 DEF Busy
<1>5. /\ Recorded' = Recorded /\ Written' = Written
      /\ LogsDistinct => LogsDistinct'
      /\ LogsRising => LogsRising'
  BY <1>1, LogsAsTheyWere
<1>6. LogsDistinct'
  BY <1>2, <1>5 DEF Once
<1>7. /\ walLapse \subseteq walLapse' /\ walLapse' \subseteq WalLapses
      /\ \/ ~(walLapse' \subseteq {"overtaken"})
         \/ pending = <<>> /\ \A u \in Threads : thread[u].todo = <<>>
  BY <1>1, <1>2 DEF WalTypeOK, LapseIf, WalLapses
<1>8. Once' /\ Complete' /\ InTurn'
  BY <1>1, <1>2, <1>4, <1>5, <1>6, <1>7, AllDropped
<1>9. /\ walKey' \in KeyType
      /\ sessionOf' \in [Paths -> 0 .. MaxLogs] /\ walFaults' \in 0 .. MaxWalFaults
      /\ pending' \in Seq(EntryType) /\ Len(pending') <= MaxPending
  <2>1. walKey' \in KeyType
    <3>1. walKey \in KeyType
      BY <1>2 DEF WalTypeOK, KeyType
    <3>2. 0 \in 0 .. MaxKeys
      BY DEF SessionWalAssumption
    <3> QED BY <1>1, <3>1, <3>2 DEF KeyType
  <2>2. sessionOf' \in [Paths -> 0 .. MaxLogs]
    BY <1>1 DEF SessionWalAssumption
  <2>3. walFaults' \in 0 .. MaxWalFaults
    <3>1. walFaults \in 0 .. MaxWalFaults
      BY <1>2 DEF WalTypeOK
    <3> QED BY <1>1, <3>1 DEF SessionWalAssumption
  <2>4. pending' \in Seq(EntryType) /\ Len(pending') <= MaxPending
    BY <1>1 DEF SessionWalAssumption
  <2> QED BY <2>1, <2>2, <2>3, <2>4
<1>10. WalTypeOK'
  BY <1>1, <1>2, <1>4, <1>7, <1>9 DEF WalTypeOK, KeyType, ThreadType
<1> QED BY <1>4, <1>8, <1>10 DEF LAfter

\* No path's session is one that was not started.
LEMMA KnownStep ==
  ASSUME SessionWalAssumption, LInv, [WalNext]_walVars
  PROVE  Known'
<1>1. /\ Len(logged) \in Nat /\ logged \in Seq(1 .. MaxEntries)
      /\ \A p \in Paths : sessionOf[p] \in 0 .. Len(logged)
      /\ sessionOf \in [Paths -> 0 .. MaxLogs]
  BY DEF LInv, Known, WalTypeOK
<1>2. CASE \E p \in Paths : NewSession(p)
  <2>1. PICK p \in Paths : NewSession(p)
    BY <1>2
  <2>2. sessionOf' = [sessionOf EXCEPT ![p] = Len(logged) + 1] /\ logged' = Append(logged, 1)
    BY <2>1 DEF NewSession
  <2>3. Len(logged') = Len(logged) + 1
    BY <1>1, <2>2
  <2>4. \A o \in Paths : sessionOf'[o] = sessionOf[o] \/ sessionOf'[o] = Len(logged) + 1
    BY <1>1, <2>2
  <2> SUFFICES ASSUME NEW o \in Paths PROVE sessionOf'[o] \in 0 .. Len(logged')
    BY DEF Known
  <2>5. sessionOf[o] \in 0 .. Len(logged)
    BY <1>1
  <2>6. sessionOf'[o] = sessionOf[o] \/ sessionOf'[o] = Len(logged) + 1
    BY <2>4
  <2> QED BY <1>1, <2>3, <2>5, <2>6
<1>3. CASE /\ Len(logged') = Len(logged)
           /\ \A o \in Paths : \/ sessionOf'[o] = 0
                               \/ \E p \in Paths : sessionOf'[o] = sessionOf[p]
  BY <1>1, <1>3 DEF Known
<1> DEFINE Kept == /\ Len(logged') = Len(logged)
                   /\ \A o \in Paths : \/ sessionOf'[o] = 0
                                       \/ \E p \in Paths : sessionOf'[o] = sessionOf[p]
<1>4. UNCHANGED <<sessionOf, logged>> => Kept
  OBVIOUS
<1>5. ASSUME NEW s, NEW k, Log(s, k) PROVE Len(logged') = Len(logged)
  BY <1>1, <1>5 DEF Log
<1>6. SetKey \/ Pause \/ AddEntropy => Kept
  BY DEF SetKey, Pause, AddEntropy
<1>7. ASSUME NEW t \in Threads, NEW p \in Paths, Focus(t, p) PROVE Kept
  BY <1>7 DEF Focus
<1>8. ASSUME NEW t \in Threads, Insert(t) PROVE Kept \/ \E p \in Paths : NewSession(p)
  <2>1. thread[t].path \in Paths
    BY <1>8, ThreadBefore DEF LInv, Insert
  <2>2. CASE sessionOf[thread[t].path] = 0
    BY <1>8, <2>1, <2>2 DEF Insert
  <2>3. CASE sessionOf[thread[t].path] # 0
    <3>1. sessionOf' = sessionOf /\ logged' = logged
      BY <1>8, <2>3 DEF Insert
    <3> QED BY <3>1
  <2> QED BY <2>2, <2>3
<1>9. ASSUME NEW t \in Threads, OpenWal(t) \/ WriteWal(t) \/ WriteFails(t) PROVE Kept
  <2>1. ASSUME OpenWal(t) PROVE sessionOf' = sessionOf /\ logged' = logged
    BY <2>1 DEF OpenWal
  <2>2. ASSUME WriteWal(t) PROVE sessionOf' = sessionOf /\ logged' = logged
    BY <2>2 DEF WriteWal
  <2>3. ASSUME WriteFails(t) PROVE sessionOf' = sessionOf /\ logged' = logged
    BY <2>3 DEF WriteFails
  <2>4. sessionOf' = sessionOf /\ logged' = logged
    BY <1>9, <2>1, <2>2, <2>3
  <2> QED BY <2>4
<1>10. ASSUME NEW p \in Paths, StartWitnessing(p) \/ Change(p) PROVE Kept
  BY <1>10 DEF StartWitnessing, Change
<1>11. ASSUME NEW p \in Paths, SavedAs(p) PROVE Kept
  BY <1>5, <1>11 DEF SavedAs
<1>12. ASSUME NEW p \in Paths, Renamed(p) PROVE Kept
  <2>1. /\ sessionOf' = [sessionOf EXCEPT ![p] = sessionOf[thread[EventLoop].path],
                                          ![thread[EventLoop].path] = 0]
        /\ Len(logged') = Len(logged)
    BY <1>5, <1>12 DEF Renamed
  <2>2. thread[EventLoop].path \in Paths
    BY <1>12, ThreadBefore DEF LInv, Renamed, Threads
  <2>3. \A o \in Paths : \/ sessionOf'[o] = 0 \/ sessionOf'[o] = sessionOf[o]
                         \/ sessionOf'[o] = sessionOf[thread[EventLoop].path]
    BY <1>1, <2>1
  <2> QED BY <2>1, <2>2, <2>3
<1>13. ASSUME NEW p \in Paths, EndSession(p) PROVE Kept
  <2>1. sessionOf' = [sessionOf EXCEPT ![p] = 0] /\ logged' = logged
    BY <1>13 DEF EndSession
  <2>2. \A o \in Paths : sessionOf'[o] = 0 \/ sessionOf'[o] = sessionOf[o]
    BY <1>1, <2>1
  <2> QED BY <2>1, <2>2
<1>14. ASSUME StartSession \/ StartSessionFails
       PROVE  Kept \/ \E p \in Paths : NewSession(p)
  <2>1. Ffi \in Threads /\ thread[Ffi].at = "start"
    BY <1>14 DEF StartSession, StartSessionFails, Threads
  <2>2. thread[Ffi].path \in Paths
    BY <2>1, ThreadBefore DEF LInv
  <2>3. CASE sessionOf[thread[Ffi].path] = 0
    BY <1>14, <2>2, <2>3 DEF StartSession, StartSessionFails
  <2>4. CASE sessionOf[thread[Ffi].path] # 0
    BY <1>14, <2>4 DEF StartSession, StartSessionFails
  <2> QED BY <2>3, <2>4
<1>15. ASSUME Saved PROVE Kept
  <2>1. sessionOf' = sessionOf /\ Len(logged') = Len(logged)
    BY <1>5, <1>15 DEF Saved
  <2> QED BY <2>1
<1>16. ASSUME Deleted PROVE Kept
  <2>1. /\ logged' = logged
        /\ sessionOf' = [sessionOf EXCEPT ![thread[EventLoop].path] = 0] \/ sessionOf' = sessionOf
    BY <1>16 DEF Deleted
  <2>2. \A o \in Paths : sessionOf'[o] = 0 \/ sessionOf'[o] = sessionOf[o]
    BY <1>1, <2>1
  <2> QED BY <2>1, <2>2
<1>17. ASSUME Stop PROVE Kept
  BY <1>17 DEF Stop
<1>18. CASE UNCHANGED walVars
  BY <1>4, <1>18, <1>3 DEF walVars
<1> QED BY <1>2, <1>3, <1>6, <1>7, <1>8, <1>9, <1>10, <1>11, <1>12, <1>13, <1>14,
           <1>15, <1>16, <1>17, <1>18 DEF WalNext

\* The invariant holds at first.
LEMMA LogsInit ==
  ASSUME SessionWalAssumption, WalInit
  PROVE  LInv
<1>1. /\ logged = <<>> /\ pending = <<>> /\ wal = <<>> /\ walLapse = {} /\ walFaults = 0
      /\ walKey = [set |-> FALSE, hot |-> 0, cold |-> FALSE, made |-> 1]
      /\ sessionOf = [p \in Paths |-> 0] /\ thread = [t \in Threads |-> Idle]
  BY DEF WalInit
<1>2. Idle \in ThreadType /\ Able(Idle) /\ Idle.todo = <<>>
  BY RestingThread
<1>3. /\ thread \in [Threads -> ThreadType] /\ \A t \in Threads : thread[t].todo = <<>>
      /\ Busy
  BY <1>1, <1>2 DEF Busy
<1>4. Sessions = {} /\ Recorded = {} /\ Written = {} /\ LogsDistinct /\ LogsRising
  <2>1. Sessions = {}
    BY <1>1 DEF Sessions
  <2> QED BY <2>1 DEF Recorded, Written, LogsDistinct, LogsRising
<1>5. WalTypeOK
  <2>1. 0 \in 0 .. MaxKeys /\ 1 \in 1 .. MaxKeys /\ 0 \in 0 .. MaxLogs /\ 0 \in 0 .. MaxWalFaults
        /\ Len(<<>>) <= MaxPending /\ Len(<<>>) <= MaxLogs
    BY DEF SessionWalAssumption
  <2>2. walKey \in KeyType
    BY <1>1, <2>1 DEF KeyType
  <2>3. sessionOf \in [Paths -> 0 .. MaxLogs]
    BY <1>1, <2>1
  <2>4. /\ logged \in Seq(1 .. MaxEntries) /\ pending \in Seq(EntryType)
        /\ wal \in Seq(Seq([n : 1 .. MaxEntries, key : 1 .. MaxKeys]))
        /\ Len(wal) = Len(logged)
    BY <1>1
  <2> QED BY <1>1, <1>3, <2>1, <2>2, <2>3, <2>4 DEF WalTypeOK, ThreadType
<1>6. Known
  BY <1>1 DEF Known
<1>7. Once
  BY <1>1, <1>3, <1>4, EmptyList DEF Once
<1>8. Complete
  BY <1>4 DEF Complete, AllThere
<1>9. InTurn
  BY <1>1, <1>3, <1>4, EmptyList DEF InTurn, Lined, Older
<1> QED BY <1>3, <1>5, <1>6, <1>7, <1>8, <1>9 DEF LInv

\* Every step keeps the invariant.
LEMMA LogsStep ==
  ASSUME SessionWalAssumption, LInv, [WalNext]_walVars
  PROVE  LInv'
<1>1. Known'
  BY KnownStep
<1>2. ASSUME SetKey \/ Pause \/ AddEntropy \/ \E p \in Paths : EndSession(p)
      PROVE  LAfter
  BY <1>2, OutsideStep
<1>3. ASSUME NEW t \in Threads, NEW p \in Paths, Focus(t, p) PROVE LAfter
  BY <1>3, FocusStep
<1>4. ASSUME NEW t \in Threads, Insert(t) PROVE LAfter
  BY <1>4, InsertStep
<1>5. ASSUME NEW t \in Threads, OpenWal(t) PROVE LAfter
  BY <1>5, OpenStep
<1>6. ASSUME NEW t \in Threads, WriteWal(t) PROVE LAfter
  BY <1>6, WriteStep
<1>7. ASSUME NEW t \in Threads, WriteFails(t) PROVE LAfter
  BY <1>7, FailStep
<1>8. ASSUME NEW p \in Paths, StartWitnessing(p) \/ Change(p) PROVE LAfter
  BY <1>8, ReadStep
<1>9. ASSUME Saved \/ \E o \in Paths : SavedAs(o) \/ Renamed(o)
      PROVE  LAfter
  BY <1>9, ChangeStep
<1>10. ASSUME StartSession \/ StartSessionFails PROVE LAfter
  BY <1>10, StartStep
<1>11. ASSUME Deleted PROVE LAfter
  BY <1>11, DeletedStep
<1>12. ASSUME Stop PROVE LAfter
  BY <1>12, StopStep
<1>13. ASSUME UNCHANGED walVars PROVE LAfter
  <2>1. UNCHANGED <<walKey, sessionOf, logged, pending, wal, thread, walFaults, walLapse>>
    BY <1>13 DEF walVars
  <2>2. WalTypeOK /\ Busy /\ Once /\ Complete /\ InTurn
    BY DEF LInv
  <2>3. WalTypeOK' /\ Busy'
    BY <2>1, <2>2 DEF WalTypeOK, Busy
  <2>4. Once' /\ Complete' /\ InTurn'
    BY <2>1, <2>2, EntriesStay
  <2> QED BY <2>3, <2>4 DEF LAfter
<1>14. LAfter
  BY <1>2, <1>3, <1>4, <1>5, <1>6, <1>7, <1>8, <1>9, <1>10, <1>11, <1>12, <1>13 DEF WalNext
<1> QED BY <1>1, <1>14 DEF LAfter, LInv

\* The invariant says where an entry is.
LEMMA EntryPlaces ==
  ASSUME SessionWalAssumption, LInv, NEW s \in Sessions, NEW n \in 1 .. logged[s]
  PROVE  /\ \A x, y \in Places(s, n) : x = y
         /\ walLapse \subseteq {"overtaken"} => Places(s, n) # {}
<1> DEFINE e == Entry(s, n)
           InLog == {<<"wal", i>> : i \in {i \in DOMAIN wal[s] : wal[s][i].n = n}}
           InBuffer == {<<"pending", i>> : i \in {i \in DOMAIN pending : pending[i] = e}}
           InHand(t) == {<<"todo", t, i>> : i \in {i \in DOMAIN thread[t].todo :
                                                    thread[t].todo[i] = e}}
<1>1. /\ s \in 1 .. MaxLogs /\ MaxEntries \in Nat /\ logged[s] \in 1 .. MaxEntries
  BY LogTypes DEF LInv
<1>2. n \in 1 .. MaxEntries /\ n <= logged[s]
  BY <1>1
<1>3. e \in EntryType /\ e.session = s /\ e.n = n /\ e \in Recorded
  BY <1>1, <1>2 DEF Entry, EntryType, Recorded
<1>4. Once /\ Complete
  BY DEF LInv
<1>5. Places(s, n) = InLog \cup InBuffer \cup UNION {InHand(t) : t \in Threads}
  BY DEF Places
<1>6. /\ InLog # {} <=> e \in Written
      /\ \A x, y \in InLog : x = y
  <2>1. e \in Written <=> \E i \in DOMAIN wal[s] : wal[s][i].n = n
    BY <1>3 DEF Written, Numbers
  <2>2. \A i, j \in DOMAIN wal[s] : wal[s][i].n = wal[s][j].n => i = j
    BY <1>4 DEF Once, LogsDistinct, DistinctNumbers
  <2> QED BY <2>1, <2>2
<1> HIDE DEF e
<1>7. /\ InBuffer # {} <=> e \in Items(pending)
      /\ \A x, y \in InBuffer : x = y
  <2>1. e \in Items(pending) <=> \E i \in DOMAIN pending : pending[i] = e
    BY DEF Items
  <2>2. \A i, j \in DOMAIN pending : pending[i] = e /\ pending[j] = e => i = j
    BY <1>4 DEF Once, Distinct
  <2> QED BY <2>1, <2>2
<1>8. ASSUME NEW t \in Threads
      PROVE  /\ InHand(t) # {} <=> e \in Items(thread[t].todo)
             /\ \A x, y \in InHand(t) : x = y
  <2> DEFINE q == thread[t].todo
  <2>1. e \in Items(q) <=> \E i \in DOMAIN q : q[i] = e
    BY DEF Items
  <2>2. Distinct(q)
    BY <1>4 DEF Once
  <2>3. \A i, j \in DOMAIN q : q[i] = e /\ q[j] = e => i = j
    BY <2>2 DEF Distinct
  <2> QED BY <2>1, <2>3
<1> HIDE DEF InLog, InBuffer, InHand
<1>9. /\ e \in Written => e \notin Items(pending)
      /\ \A t \in Threads : e \in Items(thread[t].todo) => e \notin Items(pending) \cup Written
      /\ \A t, u \in Threads :
           e \in Items(thread[t].todo) /\ e \in Items(thread[u].todo) => t = u
  BY <1>4 DEF Once
<1>10. \A x, y \in Places(s, n) : x = y
  <2> SUFFICES ASSUME NEW x \in Places(s, n), NEW y \in Places(s, n) PROVE x = y
    OBVIOUS
  <2>1. /\ x \in InLog \/ x \in InBuffer \/ \E t \in Threads : x \in InHand(t)
        /\ y \in InLog \/ y \in InBuffer \/ \E t \in Threads : y \in InHand(t)
    BY <1>5
  <2>2. CASE x \in InLog
    <3>1. e \in Written
      BY <1>6, <2>2
    <3>2. y \in InLog
      BY <1>7, <1>8, <1>9, <2>1, <3>1
    <3> QED BY <1>6, <2>2, <3>2
  <2>3. CASE x \in InBuffer
    <3>1. e \in Items(pending)
      BY <1>7, <2>3
    <3>2. y \in InBuffer
      BY <1>6, <1>8, <1>9, <2>1, <3>1
    <3> QED BY <1>7, <2>3, <3>2
  <2>4. ASSUME NEW t \in Threads, x \in InHand(t) PROVE x = y
    <3>1. e \in Items(thread[t].todo)
      BY <1>8, <2>4
    <3>2. y \notin InLog /\ y \notin InBuffer
      BY <1>6, <1>7, <1>9, <3>1
    <3>3. PICK u \in Threads : y \in InHand(u)
      BY <2>1, <3>2
    <3>4. u = t
      BY <1>8, <1>9, <3>1, <3>3
    <3> QED BY <1>8, <2>4, <3>3, <3>4
  <2> QED BY <2>1, <2>2, <2>3, <2>4
<1>11. ASSUME walLapse \subseteq {"overtaken"} PROVE Places(s, n) # {}
  <2>1. e \in Items(pending) \/ e \in Written \/ \E t \in Threads : e \in Items(thread[t].todo)
    BY <1>3, <1>4, <1>11 DEF Complete, AllThere
  <2>2. InLog # {} \/ InBuffer # {} \/ \E t \in Threads : InHand(t) # {}
    BY <1>6, <1>7, <1>8, <2>1
  <2> QED BY <1>5, <2>2
<1> QED BY <1>10, <1>11

\* The key, the sessions, the buffer, the logs and the threads' lists keep their types;
\* the buffer never holds more than MAX_PENDING_WAL_ENTRIES.
THEOREM LogsTypeCorrect == WalSpec => []WalTypeOK
<1>1. WalInit => LInv
  BY SessionWalAssumption, LogsInit
<1>2. LInv /\ [WalNext]_walVars => LInv'
  BY SessionWalAssumption, LogsStep
<1>3. LInv => WalTypeOK
  BY DEF LInv
<1> QED BY <1>1, <1>2, <1>3, PTL DEF WalSpec

\* wal_append_session_event, drain_pending_wal and the two writers never double an entry,
\* and lose one only by an event that a lapse names: a full buffer, a failed write, a log
\* of another key, two threads in one log, a start without a key, a stop.
THEOREM EntriesStayOnce == WalSpec => []EachEntryOnce
<1>1. WalInit => LInv
  BY SessionWalAssumption, LogsInit
<1>2. LInv /\ [WalNext]_walVars => LInv'
  BY SessionWalAssumption, LogsStep
<1>3. LInv => EachEntryOnce
  <2> SUFFICES ASSUME LInv, NEW s \in Sessions, NEW n \in 1 .. logged[s]
               PROVE  /\ Cardinality(Places(s, n)) <= 1
                      /\ walLapse \subseteq {"overtaken"} => Places(s, n) # {}
    BY DEF EachEntryOnce
  <2> DEFINE P == Places(s, n)
  <2>1. (\A x, y \in P : x = y) /\ (walLapse \subseteq {"overtaken"} => P # {})
    BY SessionWalAssumption, EntryPlaces
  <2> HIDE DEF P
  <2>2. Cardinality(P) <= 1
    <3>1. CASE P = {}
      BY <3>1, FS_EmptySet
    <3>2. CASE P # {}
      <4>1. PICK x : x \in P
        BY <3>2
      <4>2. P = {x}
        BY <2>1, <4>1
      <4>3. Cardinality({x}) = 1
        BY FS_Singleton
      <4> QED BY <4>2, <4>3
    <3> QED BY <3>1, <3>2
  <2> QED BY <2>1, <2>2 DEF P
<1> QED BY <1>1, <1>2, <1>3, PTL DEF WalSpec

\* The entries that waited for a key reach their log in the order of their events, behind
\* SessionStart, unless one was written while older ones of its session were waiting.
THEOREM LogsStayInOrder == WalSpec => []LogsInOrder
<1>1. WalInit => LInv
  BY SessionWalAssumption, LogsInit
<1>2. LInv /\ [WalNext]_walVars => LInv'
  BY SessionWalAssumption, LogsStep
<1>3. LInv => LogsInOrder
  BY DEF LInv, InTurn, Lined, LogsRising, RisingNumbers, LogsInOrder
<1> QED BY <1>1, <1>2, <1>3, PTL DEF WalSpec
=============================================================================
