----------------------------- MODULE DaemonProofs -----------------------------
(***************************************************************************)
(* One daemon at a time, and what a start or a stop finds and leaves, for  *)
(* every number of commands, overlaps and crashes.                         *)
(*                                                                         *)
(* None of the properties is inductive.  The lock on the PID file keeps    *)
(* daemons apart as long as they opened the same file (SameFile), which a  *)
(* lapse "unlinked" ends.  Without overlapping commands a start is alone   *)
(* from its first look on, and the only two that are ever under way        *)
(* together are a stop and the daemon it stops (Solo); what the start has  *)
(* put in place then stays there (InPlace).  Without crashes whatever is   *)
(* there has somebody who is going to remove it (Owed).                    *)
(***************************************************************************)
EXTENDS Daemon, SequenceTheorems, TLAPS

\* A process that has not been given the lock on a PID file.
Unlocked(p) ==
    \/ proc[p].at \in {"new", "check", "spawn", "setup", "open", "flock", "stop", "wait"}
    \/ proc[p].at = "cleanup" /\ proc[p].next # "ended"

\* The lock was given to it, its socket is not bound yet.
Unbound(p) == proc[p].at \in {"sentinel", "bind", "probe", "remove", "rebind"}

\* The process has a PID file open that it did not give up.
Holds(p) == proc[p].at = "flock" \/ IsDaemon(p)

\* What holds of a process however commands overlap: its number is in none of the
\* files before it puts it there, and a daemon has the lock on the file it opened.
Known(p) ==
    /\ proc[p].at = "new" => proc[p] = New
    /\ proc[p].next \in {"ended", "spawn", "setup"}
    /\ proc[p].stopping => proc[p].at \in {"cleanup", "halt"} /\ proc[p].next = "ended"
    /\ Unlocked(p) => \A f \in Procs : recorded[f] # p /\ locked[f] # p
    /\ Unlocked(p) \/ Unbound(p) => sock # p
    /\ Holds(p) => proc[p].file # None
    /\ IsDaemon(p) => locked[proc[p].file] = p

\* A lock belongs to a process that lives.
LocksLive == \A f \in Procs : locked[f] # None => Alive(locked[f])

Numbered == LocksLive /\ \A p \in Procs : Known(p)

\* All who have a PID file open have the one that bears the name.
SameFile == \A p \in Procs : Holds(p) => proc[p].file = pidFile

\* A command under way, or a daemon that shuts down.
Busy(p) == Alive(p) /\ proc[p].at # "running"

\* Two are under way only while a daemon that was told to stop stops its sentinel, with
\* the other waiting, or cleans up, and one runs only beside a command that has found
\* nothing out yet.
Solo ==
    /\ \A p, q \in Procs : p # q /\ Busy(p) /\ Busy(q) =>
          /\ proc[p].at \in {"wait", "halt"} \/ (proc[p].at = "cleanup" /\ proc[p].next = "ended")
          /\ proc[q].at = "halt" => proc[p].at = "wait"
          /\ proc[p].stopping # proc[q].stopping
    /\ \A p, q \in Procs : p # q /\ proc[p].at = "running" /\ Alive(q) =>
          \/ proc[q].at \in {"check", "stop"}
          \/ proc[q].at = "setup" /\ ~proc[q].cli

\* What a process has put in place is still there.
InPlace(p) ==
    /\ Holds(p) => pidFile # None /\ proc[p].file = pidFile
    /\ IsDaemon(p) => recorded[pidFile] = p /\ locked[pidFile] = p
    /\ proc[p].at \in {"state", "running"} => sock = p
    /\ proc[p].at = "running" => stateFile = p
    /\ proc[p].at \in {"probe", "remove"} => sock # None /\ ~Listening(sock)
    /\ proc[p].at = "rebind" => sock = None

InTurn == Solo /\ \A p \in Procs : InPlace(p)

\* The process is going to remove file f.
Removes(p, f) == proc[p].at = "cleanup" /\ \E i \in 1..Len(proc[p].todo) : proc[p].todo[i] = f

\* Whatever is there, somebody is going to remove.
Owed ==
    /\ pidFile # None => \E p \in Procs : Holds(p) \/ Removes(p, "pid")
    /\ sock # None => \E p \in Procs : proc[p].at \in {"state", "running", "halt"} \/ Removes(p, "sock")
    /\ stateFile # None => \E p \in Procs : proc[p].at \in {"running", "halt"} \/ Removes(p, "state")

DInv ==
    /\ TypeOK
    /\ Numbered
    /\ "unlinked" \notin lapse => SameFile
    /\ "overlap" \notin lapse => InTurn
    /\ lapse = {} => Owed

-----------------------------------------------------------------------------
(* The record of a process after a step *)

\* Process p has the record r now, every other one the record it had.
Becomes(p, r) ==
    /\ r \in ProcState
    /\ proc' \in [Procs -> ProcState]
    /\ proc'[p] = r
    /\ \A q \in Procs \ {p} : proc'[q] = proc[q]

LEMMA CleanupType ==
    /\ Cleanup \in Seq(Files) /\ Len(Cleanup) = 3
    /\ Cleanup[1] = "pid" /\ Cleanup[2] = "state" /\ Cleanup[3] = "sock"
  BY DEF Cleanup, Files

LEMMA RecordType ==
    /\ New \in ProcState /\ Ended \in ProcState
    /\ New.at = "new" /\ New.file = None /\ New.next = "ended" /\ ~New.stopping /\ ~New.cli
    /\ Ended.at = "ended" /\ Ended.file = None /\ Ended.next = "ended" /\ ~Ended.stopping
  <1>1. New \in ProcState
    BY DEF New, ProcState, Ats, None
  <1>2. Ended \in ProcState /\ Ended.at = "ended" /\ Ended.file = New.file
        /\ Ended.next = New.next /\ Ended.stopping = New.stopping
    <2> DEFINE n == New
    <2>1. n \in ProcState /\ Ended = [n EXCEPT !.at = "ended"]
      BY <1>1 DEF Ended
    <2> HIDE DEF n
    <2>2. [n EXCEPT !.at = "ended"] \in ProcState
      BY <2>1 DEF ProcState, Ats
    <2>3. /\ [n EXCEPT !.at = "ended"].at = "ended" /\ [n EXCEPT !.at = "ended"].file = n.file
          /\ [n EXCEPT !.at = "ended"].next = n.next
          /\ [n EXCEPT !.at = "ended"].stopping = n.stopping
      BY <2>1 DEF ProcState
    <2> QED
      BY <2>1, <2>2, <2>3 DEF n
  <1> QED
    BY <1>1, <1>2 DEF New

\* The steps change a record only by these.
LEMMA Changed ==
  ASSUME TypeOK, NEW p \in Procs, NEW r \in ProcState, proc' = [proc EXCEPT ![p] = r]
  PROVE  Becomes(p, r)
  BY DEF TypeOK, Becomes

\* At, for a process that goes on.
LEMMA AtType ==
  ASSUME TypeOK, NEW p \in Procs, NEW at \in Ats \ {"ended"}, At(p, at)
  PROVE  /\ Becomes(p, proc'[p])
         /\ proc'[p].at = at /\ proc'[p].todo = <<>> /\ proc'[p].next = "ended"
         /\ proc'[p].cli = proc[p].cli /\ proc'[p].file = proc[p].file
         /\ proc'[p].stopping = proc[p].stopping
  <1> DEFINE r == [proc[p] EXCEPT !.at = at, !.todo = <<>>, !.next = "ended"]
  <1>1. proc[p] \in ProcState /\ proc \in [Procs -> ProcState]
    BY DEF TypeOK
  <1>2. proc' = [proc EXCEPT ![p] = r]
    BY <1>1 DEF At
  <1>3. r \in ProcState
    <2>1. <<>> \in Seq(Files) /\ "ended" \in Ats
      BY DEF Ats
    <2> QED
      BY <1>1, <2>1 DEF ProcState
  <1>4. /\ r.at = at /\ r.todo = <<>> /\ r.next = "ended" /\ r.cli = proc[p].cli
        /\ r.file = proc[p].file /\ r.stopping = proc[p].stopping
    BY <1>1 DEF ProcState
  <1> HIDE DEF r
  <1>5. Becomes(p, r) /\ proc'[p] = r
    BY <1>2, <1>3, Changed DEF Becomes
  <1> QED
    BY <1>4, <1>5

LEMMA EndType ==
  ASSUME TypeOK, NEW p \in Procs, At(p, "ended")
  PROVE  Becomes(p, Ended) /\ proc'[p] = Ended
  <1>1. proc' = [proc EXCEPT ![p] = Ended]
    BY DEF At
  <1> QED
    BY <1>1, RecordType, Changed DEF Becomes

LEMMA CleanType ==
  ASSUME TypeOK, NEW p \in Procs, NEW todo \in Seq(Files), NEW next \in Ats,
         CleanThen(p, todo, next)
  PROVE  /\ Becomes(p, proc'[p])
         /\ proc'[p].at = "cleanup" /\ proc'[p].todo = todo /\ proc'[p].next = next
         /\ proc'[p].cli = proc[p].cli /\ proc'[p].file = proc[p].file
         /\ proc'[p].stopping = proc[p].stopping
  <1> DEFINE r == [proc[p] EXCEPT !.at = "cleanup", !.back = FALSE, !.todo = todo, !.next = next]
  <1>1. proc[p] \in ProcState /\ proc \in [Procs -> ProcState]
    BY DEF TypeOK
  <1>2. proc' = [proc EXCEPT ![p] = r]
    BY <1>1 DEF CleanThen
  <1>3. r \in ProcState
    BY <1>1 DEF ProcState, Ats
  <1>4. /\ r.at = "cleanup" /\ r.todo = todo /\ r.next = next /\ r.cli = proc[p].cli
        /\ r.file = proc[p].file /\ r.stopping = proc[p].stopping
    BY <1>1 DEF ProcState
  <1> HIDE DEF r
  <1>5. Becomes(p, r) /\ proc'[p] = r
    BY <1>2, <1>3, Changed DEF Becomes
  <1> QED
    BY <1>4, <1>5

\* The exit of p.
LEMMA ExitType ==
  ASSUME TypeOK, NEW p \in Procs, Exit(p)
  PROVE  /\ locked' \in [Procs -> Procs \cup {None}]
         /\ \A f \in Procs : locked'[f] = IF locked[f] = p THEN None ELSE locked[f]
  BY DEF TypeOK, Exit

\* Process p cleans up all three files and ends.
Removing(p) ==
    /\ proc'[p].at = "cleanup" /\ proc'[p].next = "ended"
    /\ proc'[p].stopping = proc[p].stopping
    /\ \E i, j, k \in 1..Len(proc'[p].todo) :
          /\ proc'[p].todo[i] = "pid" /\ proc'[p].todo[j] = "state" /\ proc'[p].todo[k] = "sock"

LEMMA CleanupIndices ==
  \E i, j, k \in 1..Len(Cleanup) : Cleanup[i] = "pid" /\ Cleanup[j] = "state" /\ Cleanup[k] = "sock"
  <1>1. 1 \in 1..Len(Cleanup) /\ 2 \in 1..Len(Cleanup) /\ 3 \in 1..Len(Cleanup)
    BY CleanupType
  <1> QED
    BY <1>1, CleanupType

\* A start refused before the sentinel runs ends, or the CLI cleans up.
LEMMA RefuseType ==
  ASSUME TypeOK, NEW p \in Procs, Refuse(p)
  PROVE  /\ Becomes(p, proc'[p])
         /\ \/ ~proc[p].cli /\ proc'[p] = Ended /\ Exit(p)
            \/ proc[p].cli /\ Removing(p) /\ UNCHANGED locked
  <1>1. CASE ~proc[p].cli
    BY <1>1, EndType DEF Refuse, Becomes
  <1>2. CASE proc[p].cli
    <2>1. CleanThen(p, Cleanup, "ended") /\ UNCHANGED locked /\ "ended" \in Ats
      BY <1>2 DEF Refuse, Ats
    <2>2. /\ Becomes(p, proc'[p]) /\ proc'[p].at = "cleanup" /\ proc'[p].next = "ended"
          /\ proc'[p].todo = Cleanup /\ proc'[p].stopping = proc[p].stopping
      BY <2>1, CleanupType, CleanType
    <2> QED
      BY <1>2, <2>1, <2>2, CleanupIndices DEF Removing
  <1> QED
    BY <1>1, <1>2

\* Whatever else a retreat removes, it removes all three files.
LEMMA RetreatType ==
  ASSUME TypeOK, NEW p \in Procs, Retreat(p)
  PROVE  Becomes(p, proc'[p]) /\ Removing(p)
  <1> DEFINE a == proc[p].todo
             b == IF proc[p].cli /\ ~proc[p].stopping THEN Cleanup ELSE <<>>
             todo == a \o Cleanup \o b
  <1>1. a \in Seq(Files) /\ b \in Seq(Files) /\ Cleanup \in Seq(Files)
    BY CleanupType DEF TypeOK, ProcState
  <1>2. CleanThen(p, todo, "ended") /\ "ended" \in Ats
    BY DEF Retreat, Ats
  <1> HIDE DEF a, b
  <1> DEFINE ac == a \o Cleanup
  <1>3. /\ ac \in Seq(Files) /\ Len(ac) = Len(a) + 3 /\ Len(a) \in Nat
        /\ ac[Len(a) + 1] = "pid" /\ ac[Len(a) + 2] = "state" /\ ac[Len(a) + 3] = "sock"
    <2>1. /\ Len(ac) = Len(a) + Len(Cleanup) /\ Len(a) \in Nat
          /\ \A i \in 1..(Len(a) + Len(Cleanup)) :
                ac[i] = IF i <= Len(a) THEN a[i] ELSE Cleanup[i - Len(a)]
      BY <1>1, ConcatProperties, LenProperties
    <2> HIDE DEF ac
    <2>2. Len(ac) = Len(a) + 3
      BY <2>1, CleanupType
    <2>3. ac[Len(a) + 1] = Cleanup[1] /\ ac[Len(a) + 2] = Cleanup[2] /\ ac[Len(a) + 3] = Cleanup[3]
      BY <2>1, CleanupType
    <2>4. ac \in Seq(Files)
      BY <1>1, ConcatProperties DEF ac
    <2> QED
      BY <2>1, <2>2, <2>3, <2>4, CleanupType
  <1> HIDE DEF ac
  <1>4. /\ todo \in Seq(Files) /\ Len(todo) = Len(ac) + Len(b) /\ Len(b) \in Nat
        /\ \A i \in 1..(Len(ac) + Len(b)) : todo[i] = IF i <= Len(ac) THEN ac[i] ELSE b[i - Len(ac)]
    <2>1. todo = ac \o b
      BY DEF ac
    <2> HIDE DEF todo
    <2> QED
      BY <1>1, <1>3, <2>1, ConcatProperties, LenProperties
  <1> HIDE DEF todo
  <1>5. /\ Len(a) + 1 \in 1..Len(todo) /\ Len(a) + 2 \in 1..Len(todo) /\ Len(a) + 3 \in 1..Len(todo)
        /\ todo[Len(a) + 1] = "pid" /\ todo[Len(a) + 2] = "state" /\ todo[Len(a) + 3] = "sock"
    BY <1>3, <1>4
  <1>6. \E i, j, k \in 1..Len(todo) : todo[i] = "pid" /\ todo[j] = "state" /\ todo[k] = "sock"
    BY <1>5
  <1>7. /\ Becomes(p, proc'[p]) /\ proc'[p].at = "cleanup" /\ proc'[p].next = "ended"
        /\ proc'[p].todo = todo /\ proc'[p].stopping = proc[p].stopping
    BY <1>2, <1>4, CleanType
  <1> QED
    BY <1>6, <1>7 DEF Removing

LEMMA HaltType ==
  ASSUME TypeOK, NEW p \in Procs, NEW todo \in Seq(Files), Halt(p, todo)
  PROVE  /\ Becomes(p, proc'[p])
         /\ proc'[p].at = "halt" /\ proc'[p].next = "ended"
         /\ proc'[p].file = proc[p].file /\ proc'[p].stopping = proc[p].stopping
  <1> DEFINE r == [proc[p] EXCEPT !.at = "halt", !.todo = todo, !.next = "ended"]
  <1>1. proc[p] \in ProcState /\ proc \in [Procs -> ProcState]
    BY DEF TypeOK
  <1>2. proc' = [proc EXCEPT ![p] = r]
    BY <1>1 DEF Halt
  <1>3. r \in ProcState
    BY <1>1 DEF ProcState, Ats, StopSteps
  <1>4. /\ r.at = "halt" /\ r.next = "ended" /\ r.file = proc[p].file
        /\ r.stopping = proc[p].stopping
    BY <1>1 DEF ProcState
  <1> HIDE DEF r
  <1>5. Becomes(p, r) /\ proc'[p] = r
    BY <1>2, <1>3, Changed DEF Becomes
  <1> QED
    BY <1>4, <1>5

-----------------------------------------------------------------------------
(* What the invariant says of the other processes *)

\* A command that has looked around, and found no daemon, is alone.
LEMMA Alone ==
  ASSUME TypeOK, InTurn, NEW p \in Procs, Busy(p),
         proc[p].at \notin {"wait", "halt"}, proc[p].at = "cleanup" => proc[p].next # "ended",
         \/ proc[p].at \notin {"check", "stop"} /\ (proc[p].at = "setup" => proc[p].cli)
         \/ ~IsRunning
  PROVE  \A q \in Procs \ {p} : ~Alive(q)
  <1> SUFFICES ASSUME NEW q \in Procs \ {p}, Alive(q) PROVE FALSE
    OBVIOUS
  <1>1. proc[q].at = "running"
    BY DEF InTurn, Solo, Busy
  <1>2. ~IsRunning
    BY <1>1 DEF InTurn, Solo, Busy
  <1>3. pidFile # None /\ recorded[pidFile] = q
    BY <1>1 DEF InTurn, InPlace, Holds, IsDaemon
  <1> QED
    BY <1>2, <1>3 DEF IsRunning, None, Procs

\* While p is alone, only what it has put in place matters.
LEMMA AloneKeeps ==
  ASSUME TypeOK, NEW p \in Procs, \A q \in Procs \ {p} : ~Alive(q),
         Becomes(p, proc'[p]), InPlace(p)'
  PROVE  InTurn'
  <1>1. \A q \in Procs \ {p} : ~Alive(q)' /\ InPlace(q)'
    BY DEF Becomes, Alive, InPlace, Holds, IsDaemon
  <1>2. Solo'
    BY <1>1 DEF Solo, Busy, Alive
  <1> QED
    BY <1>1, <1>2 DEF InTurn

\* The daemon that is found is another process.
LEMMA FoundOther ==
  ASSUME TypeOK, Numbered, IsRunning, NEW p \in Procs, Unlocked(p)
  PROVE  recorded[pidFile] \in Procs \ {p} /\ Alive(recorded[pidFile])
  BY DEF TypeOK, Numbered, Known, IsRunning, None

\* What is known of a process stays so while its number is neither written into a
\* file nor taken out of a lock.
LEMMA KnownKeeps ==
  ASSUME NEW q \in Procs, Known(q), proc'[q] = proc[q],
         proc[q].file \in Procs \cup {None},
         \A f \in Procs : recorded'[f] = q => recorded[f] = q,
         \A f \in Procs : locked'[f] = q <=> locked[f] = q,
         sock' = q => sock = q
  PROVE  Known(q)'
  <1>1. Unlocked(q)' <=> Unlocked(q)
    BY DEF Unlocked
  <1>2. Unbound(q)' <=> Unbound(q)
    BY DEF Unbound
  <1>3. (IsDaemon(q)' <=> IsDaemon(q)) /\ (Holds(q)' <=> Holds(q))
    BY DEF Holds, IsDaemon
  <1>4. Unlocked(q)' => \A f \in Procs : recorded'[f] # q /\ locked'[f] # q
    BY <1>1 DEF Known
  <1>5. Holds(q) => proc[q].file \in Procs
    BY DEF Known
  <1>6. IsDaemon(q)' => locked'[proc'[q].file] = q
    BY <1>3, <1>5 DEF Known, Holds
  <1> QED
    BY <1>1, <1>2, <1>3, <1>4, <1>6 DEF Known

-----------------------------------------------------------------------------
(* Ways to end *)

\* The number in a file is as before, or gone, or that of p, and if it is not as before
\* nobody else is under way and p has given up.
Rewrites(p) ==
    /\ recorded' \in [Procs -> Procs \cup {None}]
    /\ \A f \in Procs : recorded'[f] \in {recorded[f], None, p}
    /\ recorded' # recorded =>
          /\ proc'[p].next = "ended" /\ proc'[p].at \in {"cleanup", "ended"}
          /\ "overlap" \notin lapse => \A q \in Procs \ {p} : ~Alive(q)

\* Process p ends, and leaves nothing behind that it had to remove.
LEMMA EndPreserves ==
  ASSUME DInv, NEW p \in Procs, Becomes(p, Ended), proc'[p] = Ended,
         Exit(p) \/ (UNCHANGED locked /\ \A f \in Procs : locked[f] # p),
         Rewrites(p), UNCHANGED <<pidFile, stateFile, sock>>,
         faults' \in Nat, lapse \subseteq lapse', lapse' \subseteq {"overlap", "unlinked", "crash", "kept"},
         lapse' = {} => /\ ~Holds(p) /\ proc[p].at # "cleanup"
  PROVE  DInv'
  <1>t. TypeOK /\ Numbered
    BY DEF DInv
  <1>e. ~Alive(p)' /\ \A q \in Procs \ {p} : proc'[q] = proc[q]
    BY RecordType DEF Becomes, Alive
  <1>l. /\ locked' \in [Procs -> Procs \cup {None}]
        /\ \A f \in Procs : locked'[f] = IF locked[f] = p THEN None ELSE locked[f]
    BY <1>t, ExitType DEF TypeOK
  <1>1. TypeOK'
    BY <1>t, <1>l DEF TypeOK, Becomes, Rewrites
  <1>2. Numbered'
    <2>1. ASSUME NEW f \in Procs, locked'[f] # None PROVE Alive(locked[f])'
      <3>1. locked'[f] = locked[f] /\ locked[f] \in Procs \ {p} /\ Alive(locked[f])
        BY <1>t, <1>l, <2>1 DEF Numbered, LocksLive, TypeOK
      <3> QED
        BY <1>e, <3>1 DEF Alive
    <2>2. ASSUME NEW q \in Procs \ {p} PROVE proc'[q] = proc[q] /\ \A f \in Procs : locked[f] = q => locked'[f] = q
      BY <1>e, <1>l
    <2>3. ASSUME NEW q \in Procs, NEW f \in Procs, locked[f] # q, q # None PROVE locked'[f] # q
      BY <1>l, <2>3
    <2>4. \A q \in Procs : q # None
      BY DEF Procs, None
    <2>5. Known(p)'
      BY RecordType DEF Known, Unlocked, Unbound, Holds, IsDaemon
    <2>6. ASSUME NEW q \in Procs \ {p} PROVE Known(q)'
      <3>1. Known(q) /\ proc[q].file \in Procs \cup {None}
        BY <1>t DEF Numbered, TypeOK, ProcState
      <3>2. \A f \in Procs : locked'[f] = q <=> locked[f] = q
        BY <2>2, <2>3, <2>4
      <3>3. \A f \in Procs : recorded'[f] = q => recorded[f] = q
        BY <2>4, <2>6 DEF Rewrites
      <3> QED
        BY <2>2, <3>1, <3>2, <3>3, KnownKeeps
    <2> QED
      BY <1>l, <2>1, <2>5, <2>6 DEF Numbered, LocksLive, Alive
  <1>3. "unlinked" \notin lapse' => SameFile'
    BY <1>e, RecordType DEF DInv, SameFile, Holds, IsDaemon
  <1>4. ASSUME "overlap" \notin lapse' PROVE InTurn'
    <2>1. InTurn
      BY <1>4 DEF DInv
    <2>2. Solo'
      BY <1>e, <2>1, RecordType DEF InTurn, Solo, Busy, Alive
    <2>3. ASSUME NEW q \in Procs PROVE InPlace(q)'
      <3>1. CASE q = p
        BY <3>1, RecordType DEF InPlace, Holds, IsDaemon
      <3>3. CASE q # p /\ recorded' # recorded
        <4>1. proc'[q] = proc[q] /\ ~Alive(q)
          BY <1>e, <1>4, <3>3 DEF Rewrites
        <4> QED
          BY <4>1 DEF InPlace, Holds, IsDaemon, Alive
      <3>2. CASE q # p /\ recorded' = recorded
        <4>1. proc'[q] = proc[q] /\ InPlace(q)
          BY <3>2, <1>e, <2>1 DEF InTurn
        <4>2. Listening(sock)' => Listening(sock)
          <5>1. ASSUME sock # None, sock # p PROVE Alive(sock)' <=> Alive(sock)
            BY <1>t, <1>e, <5>1 DEF Alive, TypeOK
          <5> QED
            BY <1>e, <5>1 DEF Listening
        <4> QED
          BY <3>2, <4>1, <4>2, <1>l, <1>t DEF InPlace, Holds, IsDaemon, TypeOK, None
      <3> QED
        BY <3>1, <3>2, <3>3
    <2> QED
      BY <2>2, <2>3 DEF InTurn
  <1>5. ASSUME lapse' = {} PROVE Owed'
    <2>1. Owed
      BY <1>5 DEF DInv
    <2> QED
      BY <1>5, <1>e, <2>1 DEF Owed, Holds, IsDaemon, Removes
  <1> QED
    BY <1>1, <1>2, <1>3, <1>4, <1>5 DEF DInv

\* Process p begins to remove all files.
LEMMA CleanPreserves ==
  ASSUME DInv, NEW p \in Procs, Becomes(p, proc'[p]),
         Alive(p), proc[p].at # "cleanup",
         proc'[p].at = "cleanup", proc'[p].next \in {"ended", "spawn", "setup"},
         proc'[p].stopping = proc[p].stopping,
         proc'[p].next # "ended" => Unlocked(p),
         \E i, j, k \in 1..Len(proc'[p].todo) :
            /\ proc'[p].todo[i] = "pid" /\ proc'[p].todo[j] = "state" /\ proc'[p].todo[k] = "sock",
         Rewrites(p), UNCHANGED <<pidFile, locked, stateFile, sock, lapse>>, faults' \in Nat,
         "overlap" \notin lapse =>
            \/ \A q \in Procs \ {p} : ~Alive(q)
            \/ proc[p].at = "halt" /\ proc'[p].next = "ended"
            \/ proc[p].at = "wait" /\ proc'[p].next = "ended" /\ ~IsRunning
  PROVE  DInv'
  <1>t. /\ TypeOK /\ Numbered /\ \A q \in Procs \ {p} : proc'[q] = proc[q]
        /\ proc[p].stopping => proc'[p].next = "ended"
    BY DEF DInv, Numbered, Known, Unlocked, Becomes
  <1>1. TypeOK'
    BY <1>t DEF TypeOK, Becomes, Rewrites
  <1>2. Numbered'
    <2>1. Known(p)'
      <3>1. proc'[p].next # "ended" => recorded' = recorded /\ Unlocked(p)
        BY DEF Rewrites
      <3>2. Unlocked(p)' => proc'[p].next # "ended"
        BY DEF Unlocked
      <3> QED
        BY <1>t, <3>1, <3>2 DEF Numbered, Known, Unbound, Holds, IsDaemon
    <2>2. \A q \in Procs \ {p} : Known(q)'
      <3>1. \A q \in Procs \ {p} : Known(q) /\ proc[q].file \in Procs \cup {None} /\ q # None
        BY <1>t DEF Numbered, TypeOK, ProcState, Procs, None
      <3>2. \A q \in Procs \ {p} : \A f \in Procs : recorded'[f] = q => recorded[f] = q
        BY <3>1 DEF Rewrites
      <3> QED
        BY <1>t, <3>1, <3>2, KnownKeeps
    <2>3. LocksLive'
      BY <1>t DEF Numbered, LocksLive, Alive, TypeOK
    <2> QED
      BY <2>1, <2>2, <2>3 DEF Numbered
  <1>3. "unlinked" \notin lapse' => SameFile'
    BY <1>t DEF DInv, SameFile, Holds, IsDaemon
  <1>4. ASSUME "overlap" \notin lapse' PROVE InTurn'
    <2>1. InTurn
      BY <1>4 DEF DInv
    <2>p. InPlace(p)'
      BY DEF InPlace, Holds, IsDaemon
    <2>2. CASE \A q \in Procs \ {p} : ~Alive(q)
      BY <2>2, <2>p, <1>t, AloneKeeps
    <2>3. CASE \/ proc[p].at = "halt" /\ proc'[p].next = "ended"
               \/ proc[p].at = "wait" /\ proc'[p].next = "ended" /\ ~IsRunning
      <3>1. ASSUME NEW q \in Procs \ {p}, Alive(q)
            PROVE  proc[q].at = "wait" \/ (proc[q].at = "cleanup" /\ proc[q].next = "ended")
        <4>1. Busy(p) /\ Busy(q)
          BY <2>1, <2>3, <3>1 DEF InTurn, Solo, Busy, Alive
        <4>2. proc[q].at # "halt"
          <5>1. SUFFICES ASSUME proc[q].at = "halt" PROVE FALSE
            OBVIOUS
          <5>2. proc[p].at = "wait"
            BY <2>1, <4>1, <5>1 DEF InTurn, Solo
          <5>3. pidFile # None /\ recorded[pidFile] = q
            BY <2>1, <5>1 DEF InTurn, InPlace, Holds, IsDaemon
          <5>4. q # None
            BY DEF Procs, None
          <5> QED
            BY <2>3, <3>1, <5>2, <5>3, <5>4 DEF IsRunning
        <4> QED
          BY <2>1, <4>1, <4>2 DEF InTurn, Solo
      <3>2. Solo'
        <4>1. ASSUME NEW q \in Procs, NEW s \in Procs, q # s, Busy(q), Busy(s)
              PROVE  proc[q].stopping # proc[s].stopping
          BY <2>1, <4>1 DEF InTurn, Solo
        <4>2. Busy(p) /\ Alive(p)
          BY <2>3 DEF Busy, Alive
        <4>3. \A q \in Procs \ {p} : Alive(q) => Busy(q) /\ proc[q].at \notin {"running", "halt"}
          BY <3>1 DEF Busy
        <4>4. \A q \in Procs \ {p} : Alive(q)' <=> Alive(q)
          BY <1>t DEF Alive
        <4>5. ASSUME NEW q \in Procs, NEW s \in Procs, q # s, Busy(q)', Busy(s)'
              PROVE  /\ proc'[q].at \in {"wait", "halt"} \/ (proc'[q].at = "cleanup" /\ proc'[q].next = "ended")
                     /\ proc'[s].at # "halt"
                     /\ proc'[q].stopping # proc'[s].stopping
          <5>1. \A x \in {q, s} : x # p => Alive(x) /\ Busy(x) /\ proc'[x] = proc[x]
            BY <1>t, <4>3, <4>4, <4>5 DEF Busy
          <5>2. Busy(q) /\ Busy(s)
            BY <4>2, <5>1
          <5> QED
            BY <2>3, <3>1, <4>1, <4>5, <5>1, <5>2
        <4>6. \A q \in Procs : proc'[q].at # "running"
          BY <1>t, <4>3 DEF Alive
        <4> QED
          BY <4>5, <4>6 DEF Solo
      <3>3. \A q \in Procs \ {p} : InPlace(q)'
        BY <1>t, <3>1 DEF InPlace, Holds, IsDaemon, Alive
      <3> QED
        BY <3>2, <3>3, <2>p DEF InTurn
    <2> QED
      BY <1>4, <2>2, <2>3
  <1>5. ASSUME lapse' = {} PROVE Owed'
    <2>1. Owed
      BY <1>5 DEF DInv
    <2>2. \A f \in {"pid", "state", "sock"} : Removes(p, f)'
      BY DEF Removes
    <2> QED
      BY <2>1, <2>2 DEF Owed
  <1> QED
    BY <1>1, <1>2, <1>3, <1>4, <1>5 DEF DInv

\* A start is refused before its sentinel runs.
LEMMA RefusePreserves ==
  ASSUME DInv, NEW p \in Procs, Refuse(p),
         Alive(p), proc[p].at \notin {"cleanup", "running"},
         Rewrites(p), UNCHANGED <<pidFile, stateFile, sock>>, faults' \in Nat,
         lapse' \in {lapse, lapse \cup Kept(p)},
         "overlap" \notin lapse => (\A q \in Procs \ {p} : ~Alive(q)) \/ ~proc[p].cli,
         ~proc[p].cli /\ lapse' = {} => ~Holds(p)
  PROVE  DInv'
  <1>t. /\ TypeOK /\ lapse \subseteq lapse' /\ lapse' \subseteq {"overlap", "unlinked", "crash", "kept"}
        /\ proc[p].cli => lapse' = lapse
    <2>1. Kept(p) \subseteq {"kept"} /\ (proc[p].cli => Kept(p) = {})
      BY DEF Kept
    <2>2. TypeOK
      BY DEF DInv
    <2>3. lapse \subseteq {"overlap", "unlinked", "crash", "kept"}
      BY <2>2 DEF TypeOK
    <2> QED
      BY <2>1, <2>2, <2>3
  <1>1. CASE ~proc[p].cli /\ proc'[p] = Ended /\ Exit(p)
    BY <1>1, <1>t, RefuseType, EndPreserves
  <1>2. CASE proc[p].cli /\ Removing(p) /\ UNCHANGED locked
    BY <1>2, <1>t, RefuseType, CleanPreserves DEF Removing
  <1> QED
    BY <1>1, <1>2, <1>t, RefuseType

\* A start past that, or a daemon, gives up.
LEMMA RetreatPreserves ==
  ASSUME DInv, NEW p \in Procs, Retreat(p), proc[p].at \in {"sentinel", "halt"},
         UNCHANGED <<pidFile, recorded, locked, stateFile, sock, lapse>>, faults' \in Nat,
         "overlap" \notin lapse => (\A q \in Procs \ {p} : ~Alive(q)) \/ proc[p].at = "halt"
  PROVE  DInv'
  <1>1. TypeOK /\ Alive(p) /\ Rewrites(p)
    BY DEF DInv, Alive, Rewrites, TypeOK
  <1>2. Becomes(p, proc'[p]) /\ Removing(p)
    BY <1>1, RetreatType
  <1> QED
    BY <1>1, <1>2, CleanPreserves DEF Removing

-----------------------------------------------------------------------------
(* Every step preserves the invariant *)

\* A process that is told where to go next, on the way of a start, is alone there.
LEMMA StartAlone ==
  ASSUME DInv, "overlap" \notin lapse, NEW p \in Procs,
         proc[p].at \in StartSteps \ {"check", "setup"}
  PROVE  (\A q \in Procs \ {p} : ~Alive(q)) /\ InPlace(p)
  <1>1. Busy(p)
    BY DEF Busy, Alive, StartSteps
  <1>2. TypeOK /\ InTurn
    BY DEF DInv
  <1>3. \A q \in Procs \ {p} : ~Alive(q)
    BY <1>1, <1>2, Alone DEF StartSteps
  <1> QED
    BY <1>2, <1>3 DEF InTurn

\* A daemon that is about to be, or a command, goes on to a step that is not final,
\* with the three files, the locks and the numbers as they were.
LEMMA MovePreserves ==
  ASSUME DInv, NEW p \in Procs, NEW at \in Ats \ {"ended"}, At(p, at),
         UNCHANGED <<pidFile, recorded, locked, stateFile, sock, faults, lapse>>,
         \/ proc[p].at = "setup" /\ at = "open" /\ ~IsRunning
         \/ proc[p].at \in {"sentinel", "bind", "probe"} /\ at \in {"bind", "probe", "remove"},
         at \in {"probe", "remove"} => sock # None /\ ~Listening(sock)
  PROVE  DInv'
  <1>t. TypeOK /\ Numbered /\ Known(p) /\ proc[p].file \in Procs \cup {None} /\ proc[p] \in ProcState
    BY DEF DInv, Numbered, TypeOK, ProcState
  <1>a. /\ Becomes(p, proc'[p]) /\ proc'[p].at = at
        /\ proc'[p].todo = <<>> /\ proc'[p].next = "ended"
        /\ proc'[p].cli = proc[p].cli /\ proc'[p].file = proc[p].file
        /\ proc'[p].stopping = proc[p].stopping
    BY <1>t, AtType
  <1>b. \A q \in Procs \ {p} : proc'[q] = proc[q]
    BY <1>a DEF Becomes
  <1>1. TypeOK'
    BY <1>t, <1>a DEF TypeOK, Becomes
  <1>2. Numbered'
    <2>1. Known(p)'
      BY <1>t, <1>a DEF Known, Unlocked, Unbound, Holds, IsDaemon
    <2>2. \A q \in Procs \ {p} : Known(q)'
      <3>1. \A q \in Procs \ {p} : Known(q) /\ proc[q].file \in Procs \cup {None}
        BY <1>t DEF Numbered, TypeOK, ProcState
      <3> QED
        BY <1>b, <3>1, KnownKeeps
    <2>3. LocksLive'
      BY <1>t, <1>a, <1>b DEF Numbered, LocksLive, Alive, TypeOK
    <2> QED
      BY <2>1, <2>2, <2>3 DEF Numbered
  <1>3. "unlinked" \notin lapse' => SameFile'
    BY <1>a, <1>b DEF DInv, SameFile, Holds, IsDaemon
  <1>4. ASSUME "overlap" \notin lapse' PROVE InTurn'
    <2>1. InTurn /\ InPlace(p)
      BY <1>4 DEF DInv, InTurn
    <2>2. \A q \in Procs \ {p} : ~Alive(q)
      BY <1>t, <2>1, Alone DEF Busy, Alive
    <2>3. Listening(sock)' => Listening(sock)
      BY <1>a, <1>b, <1>t DEF Listening, Alive, TypeOK
    <2>4. InPlace(p)'
      BY <1>a, <2>1, <2>3 DEF InPlace, Holds, IsDaemon
    <2> QED
      BY <1>t, <1>a, <2>2, <2>4, AloneKeeps
  <1>5. ASSUME lapse' = {} PROVE Owed'
    <2>1. Owed
      BY <1>5 DEF DInv
    <2> QED
      BY <1>a, <1>b, <2>1 DEF Owed, Holds, IsDaemon, Removes
  <1> QED
    BY <1>1, <1>2, <1>3, <1>4, <1>5 DEF DInv

LEMMA CheckPreserves ==
  ASSUME DInv, NEW p \in Procs, Check(p)
  PROVE  DInv'
  <1>t. TypeOK /\ Unlocked(p) /\ Known(p) /\ Busy(p)
    BY DEF DInv, Numbered, Check, Unlocked, Busy, Alive
  <1>f. \A f \in Procs : locked[f] # p
    BY <1>t DEF Known
  <1>1. CASE IsRunning
    <2>1. Becomes(p, Ended) /\ proc'[p] = Ended
      BY <1>1, <1>t, EndType DEF Check
    <2> QED
      BY <2>1, <1>t, <1>f, EndPreserves DEF Check, Holds, IsDaemon, TypeOK, Rewrites
  <1>2. CASE ~IsRunning
    <2> DEFINE next == IF proc[p].back THEN "spawn" ELSE "setup"
    <2>1. CleanThen(p, Cleanup, next) /\ next \in Ats /\ next \in {"ended", "spawn", "setup"}
      BY <1>2 DEF Check, Ats, StartSteps
    <2> HIDE DEF next
    <2>2. /\ Becomes(p, proc'[p]) /\ proc'[p].at = "cleanup" /\ proc'[p].next = next
          /\ proc'[p].todo = Cleanup /\ proc'[p].stopping = proc[p].stopping
      BY <2>1, <1>t, CleanupType, CleanType
    <2>3. "overlap" \notin lapse => \A q \in Procs \ {p} : ~Alive(q)
      BY <1>2, <1>t, Alone DEF DInv, Check
    <2>4. /\ 1 \in 1..Len(Cleanup) /\ 2 \in 1..Len(Cleanup) /\ 3 \in 1..Len(Cleanup)
      BY CleanupType
    <2>5. \E i, j, k \in 1..Len(proc'[p].todo) :
            /\ proc'[p].todo[i] = "pid" /\ proc'[p].todo[j] = "state" /\ proc'[p].todo[k] = "sock"
      BY <2>2, <2>4, CleanupType
    <2> QED
      BY <2>1, <2>2, <2>3, <2>5, <1>t, CleanPreserves DEF Check, Busy, TypeOK, Rewrites
  <1> QED
    BY <1>1, <1>2

LEMMA SetupPreserves ==
  ASSUME DInv, NEW p \in Procs, Setup(p)
  PROVE  DInv'
  <1>t. TypeOK /\ Busy(p) /\ faults' \in Nat /\ ~Holds(p)
    BY DEF DInv, Setup, Busy, Alive, Holds, IsDaemon, TypeOK
  <1>1. CASE IsRunning
    <2>1. "overlap" \notin lapse /\ proc[p].cli => \A q \in Procs \ {p} : ~Alive(q)
      BY <1>t, Alone DEF DInv, Setup
    <2>2. Refuse(p)
      BY <1>1 DEF Setup
    <2> QED
      BY <1>t, <2>1, <2>2, RefusePreserves DEF Setup, Busy, TypeOK, Rewrites
  <1>2. CASE ~IsRunning
    <2>1. At(p, "open") /\ "open" \in Ats \ {"ended"}
      BY <1>2 DEF Setup, Ats, StartSteps
    <2> QED
      BY <1>2, <2>1, MovePreserves DEF Setup
  <1> QED
    BY <1>1, <1>2

LEMMA SentinelPreserves ==
  ASSUME DInv, NEW p \in Procs, SentinelStarts(p) \/ SentinelFails(p) \/ NewFails(p)
  PROVE  DInv'
  <1>t. /\ TypeOK /\ proc[p].at = "sentinel" /\ proc[p].at \in StartSteps \ {"check", "setup"}
        /\ Alive(p) /\ faults' \in Nat /\ UNCHANGED <<pidFile, recorded, stateFile, sock>>
    BY DEF DInv, TypeOK, SentinelStarts, SentinelFails, NewFails, StartSteps, Alive
  <1>a. "overlap" \notin lapse => \A q \in Procs \ {p} : ~Alive(q)
    BY <1>t, StartAlone
  <1>1. CASE SentinelStarts(p)
    BY <1>1, MovePreserves DEF SentinelStarts, Ats, StartSteps
  <1>2. CASE SentinelFails(p)
    BY <1>2, <1>t, <1>a, RetreatPreserves DEF SentinelFails
  <1>3. CASE NewFails(p)
    BY <1>3, <1>t, <1>a, RefusePreserves DEF NewFails, Kept, Rewrites, TypeOK
  <1> QED
    BY <1>1, <1>2, <1>3

\* A start that has its sentinel running, and maybe a state file written, gives up.
LEMMA HaltPreserves ==
  ASSUME DInv, NEW p \in Procs, NEW todo \in Seq(Files), Halt(p, todo),
         proc[p].at \in {"bind", "probe", "remove", "rebind", "state"},
         UNCHANGED <<pidFile, recorded, locked, sock, lapse>>,
         stateFile' \in {stateFile, p}, faults' \in Nat
  PROVE  DInv'
  <1>t. TypeOK /\ Numbered /\ Known(p) /\ IsDaemon(p) /\ ~proc[p].stopping /\ Alive(p)
    BY DEF DInv, Numbered, Known, IsDaemon, Alive
  <1>a. "overlap" \notin lapse => (\A q \in Procs \ {p} : ~Alive(q)) /\ InPlace(p)
    BY StartAlone DEF StartSteps
  <1>b. /\ Becomes(p, proc'[p]) /\ proc'[p].at = "halt" /\ proc'[p].next = "ended"
        /\ proc'[p].file = proc[p].file /\ proc'[p].stopping = proc[p].stopping
        /\ \A q \in Procs \ {p} : proc'[q] = proc[q]
    BY <1>t, HaltType DEF Becomes
  <1>1. TypeOK'
    BY <1>t, <1>b DEF TypeOK, Becomes
  <1>2. Numbered'
    <2>1. Known(p)'
      BY <1>t, <1>b DEF Known, Unlocked, Unbound, Holds, IsDaemon
    <2>2. \A q \in Procs \ {p} : Known(q)'
      <3>1. \A q \in Procs \ {p} : Known(q) /\ proc[q].file \in Procs \cup {None}
        BY <1>t DEF Numbered, TypeOK, ProcState
      <3> QED
        BY <1>b, <3>1, KnownKeeps
    <2>3. LocksLive'
      BY <1>t, <1>b DEF Numbered, LocksLive, Alive, TypeOK
    <2> QED
      BY <2>1, <2>2, <2>3 DEF Numbered
  <1>3. "unlinked" \notin lapse' => SameFile'
    BY <1>t, <1>b DEF DInv, SameFile, Holds, IsDaemon
  <1>4. ASSUME "overlap" \notin lapse' PROVE InTurn'
    <2>1. InPlace(p)'
      BY <1>4, <1>a, <1>t, <1>b DEF InPlace, Holds, IsDaemon
    <2> QED
      BY <1>4, <1>a, <1>t, <1>b, <2>1, AloneKeeps
  <1>5. ASSUME lapse' = {} PROVE Owed'
    BY <1>b DEF Owed, Holds, IsDaemon
  <1> QED
    BY <1>1, <1>2, <1>3, <1>4, <1>5 DEF DInv

\* The IPC server of a daemon in sentinel.stop() removes the socket's name.
LEMMA ServerPreserves ==
  ASSUME DInv, NEW p \in Procs, ServerStops(p)
  PROVE  DInv'
  <1>t. /\ TypeOK /\ Numbered /\ Known(p) /\ proc[p] \in ProcState /\ Alive(p)
        /\ proc[p].at = "halt" /\ sock' = None
        /\ UNCHANGED <<pidFile, recorded, locked, stateFile, faults, lapse>>
    BY DEF DInv, Numbered, TypeOK, ServerStops, Alive
  <1> DEFINE r == [proc[p] EXCEPT !.todo = Tail(@)]
  <1>r. /\ r \in ProcState /\ r.at = "halt" /\ r.next = proc[p].next
        /\ r.file = proc[p].file /\ r.stopping = proc[p].stopping
    <2>1. proc[p].todo \in Seq(Files) /\ proc[p].todo # <<>>
      BY <1>t DEF ProcState, ServerStops
    <2>2. Tail(proc[p].todo) \in Seq(Files)
      BY <2>1, HeadTailProperties
    <2> QED
      BY <1>t, <2>2 DEF ProcState
  <1>u. proc' = [proc EXCEPT ![p] = r]
    BY <1>t DEF ServerStops, TypeOK
  <1> HIDE DEF r
  <1>b. Becomes(p, r) /\ proc'[p] = r /\ \A q \in Procs \ {p} : proc'[q] = proc[q]
    BY <1>t, <1>r, <1>u, Changed DEF Becomes
  <1>1. TypeOK'
    BY <1>t, <1>b DEF TypeOK, Becomes
  <1>2. Numbered'
    <2>1. Known(p)'
      BY <1>t, <1>r, <1>b DEF Known, Unlocked, Unbound, Holds, IsDaemon
    <2>2. \A q \in Procs \ {p} : Known(q)'
      <3>1. \A q \in Procs \ {p} : Known(q) /\ proc[q].file \in Procs \cup {None} /\ q # None
        BY <1>t DEF Numbered, TypeOK, ProcState, Procs, None
      <3> QED
        BY <1>t, <1>b, <3>1, KnownKeeps
    <2>3. LocksLive'
      BY <1>t, <1>r, <1>b DEF Numbered, LocksLive, Alive, TypeOK
    <2> QED
      BY <2>1, <2>2, <2>3 DEF Numbered
  <1>3. "unlinked" \notin lapse' => SameFile'
    BY <1>t, <1>r, <1>b DEF DInv, SameFile, Holds, IsDaemon
  <1>4. ASSUME "overlap" \notin lapse' PROVE InTurn'
    <2>1. InTurn
      BY <1>4, <1>t DEF DInv
    <2>2. \A q \in Procs \ {p} : Alive(q) => proc[q].at = "wait"
      BY <1>t, <2>1 DEF InTurn, Solo, Busy, Alive
    <2>3. Solo'
      BY <1>t, <1>r, <1>b, <2>1 DEF InTurn, Solo, Busy, Alive
    <2>4. InPlace(p)'
      BY <1>t, <1>r, <1>b, <2>1 DEF InTurn, InPlace, Holds, IsDaemon
    <2>5. \A q \in Procs \ {p} : InPlace(q)'
      BY <1>b, <2>2 DEF InPlace, Holds, IsDaemon, Alive
    <2> QED
      BY <2>3, <2>4, <2>5 DEF InTurn
  <1>5. ASSUME lapse' = {} PROVE Owed'
    BY <1>t, <1>r, <1>b DEF Owed, Holds, IsDaemon
  <1> QED
    BY <1>1, <1>2, <1>3, <1>4, <1>5 DEF DInv

\* sentinel.stop() returns.
LEMMA StopsPreserves ==
  ASSUME DInv, NEW p \in Procs, SentinelStops(p)
  PROVE  DInv'
  <1>1. faults' \in Nat
    BY DEF DInv, TypeOK, SentinelStops
  <1> QED
    BY <1>1, RetreatPreserves DEF SentinelStops

LEMMA BeginPreserves ==
  ASSUME DInv, NEW p \in Procs, Begin(p)
  PROVE  DInv'
  <1>t. TypeOK /\ Numbered /\ Known(p) /\ proc[p] = New /\ proc[p].at = "new"
    BY RecordType DEF DInv, Numbered, Known, Begin, Fresh
  <1>p. /\ p # None /\ ~Alive(p) /\ Unlocked(p)
        /\ UNCHANGED <<pidFile, recorded, locked, stateFile, sock, faults>>
        /\ lapse' = lapse \cup Overlap /\ Overlap \in SUBSET {"overlap"}
    <2>1. Overlap \in SUBSET {"overlap"}
      BY Zenon DEF Overlap
    <2>2. lapse' = lapse \cup Overlap /\ UNCHANGED <<pidFile, recorded, locked, stateFile, sock, faults>>
      BY Zenon DEF Begin
    <2>3. p # None
      BY DEF Procs, None
    <2> QED
      BY <1>t, <2>1, <2>2, <2>3 DEF Alive, Unlocked
  <1>r. PICK r \in ProcState :
          /\ proc' = [proc EXCEPT ![p] = r]
          /\ r.at \in {"check", "setup", "stop"} /\ (r.at = "setup" => ~r.cli)
          /\ r.next = "ended" /\ ~r.stopping
    <2> DEFINE n == New
    <2>n. n \in ProcState /\ n.next = "ended" /\ ~n.stopping /\ ~n.cli /\ n = New /\ proc[p] = n
      BY <1>t, RecordType
    <2> HIDE DEF n
    <2>1. ASSUME NEW back \in BOOLEAN,
                 proc' = [proc EXCEPT ![p] = [n EXCEPT !.at = "check", !.cli = TRUE, !.back = back]]
          PROVE  \E r \in ProcState :
                    /\ proc' = [proc EXCEPT ![p] = r]
                    /\ r.at \in {"check", "setup", "stop"} /\ (r.at = "setup" => ~r.cli)
                    /\ r.next = "ended" /\ ~r.stopping
      <3> DEFINE r == [n EXCEPT !.at = "check", !.cli = TRUE, !.back = back]
      <3>1. r \in ProcState /\ r.at = "check" /\ r.next = "ended" /\ ~r.stopping
        BY <2>n DEF ProcState, Ats, StartSteps
      <3> HIDE DEF r
      <3> QED
        BY <2>1, <3>1 DEF r
    <2>2. ASSUME proc' = [proc EXCEPT ![p].at = "setup"]
          PROVE  \E r \in ProcState :
                    /\ proc' = [proc EXCEPT ![p] = r]
                    /\ r.at \in {"check", "setup", "stop"} /\ (r.at = "setup" => ~r.cli)
                    /\ r.next = "ended" /\ ~r.stopping
      <3> DEFINE r == [n EXCEPT !.at = "setup"]
      <3>1. r \in ProcState /\ r.at = "setup" /\ r.next = "ended" /\ ~r.stopping /\ ~r.cli
        BY <2>n DEF ProcState, Ats, StartSteps
      <3>2. proc' = [proc EXCEPT ![p] = r]
        BY <2>2, <2>n
      <3> HIDE DEF r
      <3> QED
        BY <3>2, <3>1
    <2>3. ASSUME NEW cli \in BOOLEAN, proc' = [proc EXCEPT ![p] = [n EXCEPT !.at = "stop", !.cli = cli]]
          PROVE  \E r \in ProcState :
                    /\ proc' = [proc EXCEPT ![p] = r]
                    /\ r.at \in {"check", "setup", "stop"} /\ (r.at = "setup" => ~r.cli)
                    /\ r.next = "ended" /\ ~r.stopping
      <3> DEFINE r == [n EXCEPT !.at = "stop", !.cli = cli]
      <3>1. r \in ProcState /\ r.at = "stop" /\ r.next = "ended" /\ ~r.stopping
        BY <2>n DEF ProcState, Ats, StopSteps
      <3> HIDE DEF r
      <3> QED
        BY <2>3, <3>1 DEF r
    <2> QED
      BY <2>1, <2>2, <2>3, <2>n DEF Begin
  <1>b. Becomes(p, r) /\ proc'[p] = r /\ \A q \in Procs \ {p} : proc'[q] = proc[q]
    BY <1>t, <1>r, Changed DEF Becomes
  <1>1. TypeOK'
    BY <1>t, <1>p, <1>b DEF TypeOK, Becomes
  <1>2. Numbered'
    <2>1. Known(p)'
      BY <1>t, <1>p, <1>r, <1>b DEF Known, Unlocked, Unbound, Holds, IsDaemon
    <2>2. \A q \in Procs \ {p} : Known(q)'
      <3>1. \A q \in Procs \ {p} : Known(q) /\ proc[q].file \in Procs \cup {None}
        BY <1>t DEF Numbered, TypeOK, ProcState
      <3> QED
        BY <1>p, <1>b, <3>1, KnownKeeps
    <2>3. LocksLive'
      BY <1>t, <1>p, <1>r, <1>b DEF Numbered, LocksLive, Alive, TypeOK
    <2> QED
      BY <2>1, <2>2, <2>3 DEF Numbered
  <1>3. "unlinked" \notin lapse' => SameFile'
    BY <1>p, <1>r, <1>b DEF DInv, SameFile, Holds, IsDaemon
  <1>4. ASSUME "overlap" \notin lapse' PROVE InTurn'
    <2>1. "overlap" \notin lapse /\ Overlap = {}
      BY <1>4, <1>p
    <2>2. \A q \in Procs : Alive(q) => proc[q].at = "running"
      BY <2>1 DEF Overlap
    <2>3. InTurn
      BY <2>1 DEF DInv
    <2>4. Solo'
      BY <1>r, <1>b, <2>2, <2>3 DEF InTurn, Solo, Busy, Alive
    <2>5. InPlace(p)'
      BY <1>r, <1>b DEF InPlace, Holds, IsDaemon
    <2>6. ASSUME NEW q \in Procs \ {p} PROVE InPlace(q)'
      <3>1. proc'[q] = proc[q] /\ InPlace(q)
        BY <1>b, <2>3 DEF InTurn
      <3>2. proc[q].at \in {"probe", "remove", "rebind"} => Alive(q)
        BY DEF Alive
      <3> QED
        BY <1>p, <2>2, <3>1, <3>2 DEF InPlace, Holds, IsDaemon
    <2> QED
      BY <2>4, <2>5, <2>6 DEF InTurn
  <1>5. ASSUME lapse' = {} PROVE Owed'
    <2>1. Owed /\ ~Holds(p)
      BY <1>5, <1>p, <1>t DEF DInv, Holds, IsDaemon
    <2> QED
      BY <1>t, <1>p, <1>b, <2>1 DEF Owed, Holds, IsDaemon, Removes
  <1> QED
    BY <1>1, <1>2, <1>3, <1>4, <1>5 DEF DInv

LEMMA SpawnPreserves ==
  ASSUME DInv, NEW p \in Procs, Spawn(p)
  PROVE  DInv'
  <1>t. TypeOK /\ Numbered /\ Known(p) /\ Unlocked(p) /\ Busy(p) /\ proc[p].at = "spawn"
    BY DEF DInv, Numbered, Spawn, Unlocked, Busy, Alive
  <1>u. UNCHANGED <<pidFile, recorded, locked, stateFile, sock, faults, lapse>>
    BY DEF Spawn
  <1> DEFINE c == [New EXCEPT !.at = "check", !.cli = TRUE]
  <1>q. PICK q \in Procs : Fresh(q) /\ proc' = [proc EXCEPT ![p] = Ended, ![q] = c]
    BY DEF Spawn
  <1>c. c \in ProcState /\ c.at = "check" /\ c.next = "ended" /\ ~c.stopping
    <2> DEFINE n == New
    <2>n. n \in ProcState /\ n.next = "ended" /\ ~n.stopping
      BY RecordType
    <2> HIDE DEF n
    <2>1. /\ [n EXCEPT !.at = "check", !.cli = TRUE] \in ProcState
          /\ [n EXCEPT !.at = "check", !.cli = TRUE].at = "check"
          /\ [n EXCEPT !.at = "check", !.cli = TRUE].next = "ended"
          /\ ~[n EXCEPT !.at = "check", !.cli = TRUE].stopping
      BY <2>n DEF ProcState, Ats, StartSteps
    <2> QED
      BY <2>1 DEF n
  <1> HIDE DEF c
  <1>b. /\ p # q /\ proc[q].at = "new" /\ Known(q) /\ Unlocked(q) /\ q # None /\ p # None
        /\ proc'[p] = Ended /\ proc'[q] = c /\ proc' \in [Procs -> ProcState]
        /\ \A r \in Procs \ {p, q} : proc'[r] = proc[r]
    BY <1>t, <1>q, <1>c, RecordType DEF TypeOK, Fresh, Numbered, Unlocked, Procs, None
  <1>1. TypeOK'
    BY <1>t, <1>u, <1>b DEF TypeOK
  <1>2. Numbered'
    <2>1. Known(p)'
      BY <1>t, <1>u, <1>b, RecordType DEF Known, Unlocked, Unbound, Holds, IsDaemon
    <2>2. Known(q)'
      BY <1>t, <1>u, <1>b, <1>c DEF Known, Unlocked, Unbound, Holds, IsDaemon
    <2>3. \A r \in Procs \ {p, q} : Known(r)'
      <3>1. \A r \in Procs \ {p, q} : Known(r) /\ proc[r].file \in Procs \cup {None}
        BY <1>t DEF Numbered, TypeOK, ProcState
      <3> QED
        BY <1>u, <1>b, <3>1, KnownKeeps
    <2>4. LocksLive'
      <3>1. \A f \in Procs : locked[f] # p /\ locked[f] # q
        BY <1>t, <1>b DEF Known
      <3> QED
        BY <1>t, <1>u, <1>b, <3>1 DEF Numbered, LocksLive, Alive, TypeOK
    <2> QED
      BY <2>1, <2>2, <2>3, <2>4 DEF Numbered
  <1>3. "unlinked" \notin lapse' => SameFile'
    BY <1>u, <1>b, <1>c, RecordType DEF DInv, SameFile, Holds, IsDaemon
  <1>4. ASSUME "overlap" \notin lapse' PROVE InTurn'
    <2>1. InTurn /\ \A r \in Procs \ {p} : ~Alive(r)
      BY <1>4, <1>t, <1>u, Alone DEF DInv
    <2>2. \A r \in Procs \ {q} : proc'[r].at \in {"new", "ended"}
      BY <1>b, <2>1, RecordType DEF Alive
    <2>3. Solo'
      BY <1>b, <2>2 DEF Solo, Busy, Alive
    <2>4. \A r \in Procs : InPlace(r)'
      BY <1>b, <1>c, <2>2 DEF InPlace, Holds, IsDaemon
    <2> QED
      BY <2>3, <2>4 DEF InTurn
  <1>5. ASSUME lapse' = {} PROVE Owed'
    <2>1. Owed
      BY <1>5, <1>u DEF DInv
    <2> QED
      BY <1>t, <1>u, <1>b, <2>1 DEF Owed, Holds, IsDaemon, Removes
  <1> QED
    BY <1>1, <1>2, <1>3, <1>4, <1>5 DEF DInv

LEMMA OpenPreserves ==
  ASSUME DInv, NEW p \in Procs, Open(p)
  PROVE  DInv'
  <1>t. /\ TypeOK /\ Numbered /\ Known(p) /\ Unlocked(p) /\ proc[p] \in ProcState
        /\ proc[p].at = "open" /\ p # None
        /\ UNCHANGED <<recorded, locked, stateFile, sock, faults, lapse>>
    BY DEF DInv, Numbered, TypeOK, Open, Unlocked, Procs, None
  <1> DEFINE r == [proc[p] EXCEPT !.at = "flock", !.file = pidFile']
  <1>f. pidFile' \in Procs /\ (pidFile # None => pidFile' = pidFile)
    BY <1>t DEF Open, TypeOK
  <1>r. /\ r \in ProcState /\ r.at = "flock" /\ r.file = pidFile' /\ r.next = proc[p].next
        /\ r.stopping = proc[p].stopping /\ r.cli = proc[p].cli
    BY <1>t, <1>f DEF ProcState, Ats, StartSteps
  <1>u. proc' = [proc EXCEPT ![p] = r]
    BY <1>t DEF Open, TypeOK
  <1> HIDE DEF r
  <1>b. Becomes(p, r) /\ proc'[p] = r /\ \A q \in Procs \ {p} : proc'[q] = proc[q]
    BY <1>t, <1>r, <1>u, Changed DEF Becomes
  <1>1. TypeOK'
    BY <1>t, <1>f, <1>b DEF TypeOK, Becomes
  <1>2. Numbered'
    <2>1. Known(p)'
      BY <1>t, <1>f, <1>r, <1>b DEF Known, Unlocked, Unbound, Holds, IsDaemon, Procs, None
    <2>2. \A q \in Procs \ {p} : Known(q)'
      <3>1. \A q \in Procs \ {p} : Known(q) /\ proc[q].file \in Procs \cup {None}
        BY <1>t DEF Numbered, TypeOK, ProcState
      <3> QED
        BY <1>t, <1>b, <3>1, KnownKeeps
    <2>3. LocksLive'
      BY <1>t, <1>r, <1>b DEF Numbered, LocksLive, Alive, TypeOK
    <2> QED
      BY <2>1, <2>2, <2>3 DEF Numbered
  <1>3. ASSUME "unlinked" \notin lapse' PROVE SameFile'
    <2>1. SameFile
      BY <1>3, <1>t DEF DInv
    <2>2. ASSUME NEW q \in Procs \ {p}, Holds(q) PROVE proc[q].file = pidFile'
      BY <1>t, <1>f, <2>1, <2>2 DEF SameFile, Numbered, Known
    <2> QED
      BY <1>r, <1>b, <2>2 DEF SameFile, Holds, IsDaemon
  <1>4. ASSUME "overlap" \notin lapse' PROVE InTurn'
    <2>1. (\A q \in Procs \ {p} : ~Alive(q)) /\ InPlace(p)
      BY <1>4, <1>t, StartAlone DEF StartSteps
    <2>2. InPlace(p)'
      BY <1>f, <1>r, <1>b DEF InPlace, Holds, IsDaemon, Procs, None
    <2> QED
      BY <1>t, <1>b, <2>1, <2>2, AloneKeeps
  <1>5. ASSUME lapse' = {} PROVE Owed'
    <2>1. Owed
      BY <1>5, <1>t DEF DInv
    <2> QED
      BY <1>t, <1>r, <1>b, <2>1 DEF Owed, Holds, IsDaemon, Removes
  <1> QED
    BY <1>1, <1>2, <1>3, <1>4, <1>5 DEF DInv

LEMMA FlockPreserves ==
  ASSUME DInv, NEW p \in Procs, Flock(p)
  PROVE  DInv'
  <1> DEFINE f == proc[p].file
  <1>t. /\ TypeOK /\ Numbered /\ Known(p) /\ Unlocked(p) /\ Holds(p) /\ proc[p] \in ProcState
        /\ proc[p].at = "flock" /\ p # None /\ Alive(p)
        /\ UNCHANGED <<pidFile, stateFile, sock, faults, lapse>> /\ faults' \in Nat
    BY DEF DInv, Numbered, TypeOK, Flock, Unlocked, Holds, Alive, Procs, None
  <1>f. f \in Procs
    BY <1>t DEF Known, ProcState
  <1>a. "overlap" \notin lapse => (\A q \in Procs \ {p} : ~Alive(q)) /\ InPlace(p)
    BY <1>t, StartAlone DEF StartSteps
  <1> HIDE DEF f
  <1>l. CASE locked[f] # None
    <2>1. Refuse(p) /\ UNCHANGED recorded
      BY <1>l DEF Flock, f
    <2>2. locked[f] \in Procs \ {p} /\ Alive(locked[f])
      BY <1>l, <1>t, <1>f DEF Numbered, LocksLive, Known, TypeOK
    <2> QED
      BY <1>t, <1>a, <2>1, <2>2, RefusePreserves DEF Rewrites, TypeOK
  <1>g. CASE locked[f] = None
    <2>d. /\ locked' = [locked EXCEPT ![f] = p] /\ recorded' = [recorded EXCEPT ![f] = p]
          /\ At(p, "sentinel")
      BY <1>g DEF Flock, f
    <2>b. /\ Becomes(p, proc'[p]) /\ proc'[p].at = "sentinel"
          /\ proc'[p].todo = <<>> /\ proc'[p].next = "ended"
          /\ proc'[p].file = f /\ proc'[p].stopping = proc[p].stopping
          /\ \A q \in Procs \ {p} : proc'[q] = proc[q]
      <3>1. "sentinel" \in Ats \ {"ended"}
        BY DEF Ats, StartSteps
      <3> QED
        BY <1>t, <2>d, <3>1, AtType DEF Becomes, f
    <2>e. /\ locked' \in [Procs -> Procs \cup {None}] /\ recorded' \in [Procs -> Procs \cup {None}]
          /\ \A g \in Procs : /\ locked'[g] = IF g = f THEN p ELSE locked[g]
                              /\ recorded'[g] = IF g = f THEN p ELSE recorded[g]
      BY <1>t, <1>f, <2>d DEF TypeOK
    <2>1. TypeOK'
      BY <1>t, <2>b, <2>e DEF TypeOK, Becomes
    <2>2. Numbered'
      <3>1. Known(p)'
        BY <1>t, <1>f, <2>b, <2>e DEF Known, Unlocked, Unbound, Holds, IsDaemon, Procs, None
      <3>2. \A q \in Procs \ {p} : Known(q)'
        <4>1. \A q \in Procs \ {p} : Known(q) /\ proc[q].file \in Procs \cup {None} /\ q # None
          BY <1>t DEF Numbered, TypeOK, ProcState, Procs, None
        <4>2. \A q \in Procs \ {p} : \A g \in Procs : locked'[g] = q <=> locked[g] = q
          BY <1>g, <2>e, <4>1
        <4> QED
          BY <1>t, <2>b, <2>e, <4>1, <4>2, KnownKeeps
      <3>3. LocksLive'
        BY <1>t, <2>b, <2>e DEF Numbered, LocksLive, Alive, TypeOK
      <3> QED
        BY <3>1, <3>2, <3>3 DEF Numbered
    <2>3. "unlinked" \notin lapse' => SameFile'
      BY <1>t, <2>b DEF DInv, SameFile, Holds, IsDaemon, f
    <2>4. ASSUME "overlap" \notin lapse' PROVE InTurn'
      <3>1. pidFile # None /\ f = pidFile
        BY <1>a, <1>t, <2>4 DEF InPlace, f
      <3>2. InPlace(p)'
        BY <1>t, <1>f, <2>b, <2>e, <3>1 DEF InPlace, Holds, IsDaemon
      <3> QED
        BY <1>a, <1>t, <2>4, <2>b, <3>2, AloneKeeps
    <2>5. ASSUME lapse' = {} PROVE Owed'
      <3>1. Owed
        BY <2>5, <1>t DEF DInv
      <3> QED
        BY <1>t, <2>b, <3>1 DEF Owed, Holds, IsDaemon, Removes
    <2> QED
      BY <2>1, <2>2, <2>3, <2>4, <2>5 DEF DInv
  <1> QED
    BY <1>l, <1>g

LEMMA AcquirePreserves ==
  ASSUME DInv, NEW p \in Procs, AcquireFails(p)
  PROVE  DInv'
  <1> DEFINE f == proc[p].file
  <1>t. /\ TypeOK /\ Known(p) /\ Holds(p) /\ Alive(p) /\ proc[p].at = "flock" /\ p # None
        /\ Refuse(p) /\ faults' \in Nat /\ lapse' = lapse \cup Kept(p)
        /\ UNCHANGED <<pidFile, stateFile, sock>>
    BY DEF DInv, Numbered, TypeOK, AcquireFails, Holds, Alive, Procs, None
  <1>a. "overlap" \notin lapse => \A q \in Procs \ {p} : ~Alive(q)
    BY <1>t, StartAlone DEF StartSteps
  <1>n. PICK number \in {recorded[f], None, p} : recorded' = [recorded EXCEPT ![f] = number]
    BY DEF AcquireFails
  <1>f. f \in Procs
    BY <1>t DEF TypeOK, ProcState, Known
  <1> HIDE DEF f
  <1>e. proc'[p].next = "ended" /\ proc'[p].at \in {"cleanup", "ended"}
    BY <1>t, RefuseType, RecordType DEF Removing
  <1>w. Rewrites(p)
    <2>1. recorded' \in [Procs -> Procs \cup {None}]
      BY <1>t, <1>f, <1>n DEF TypeOK
    <2>2. \A g \in Procs : recorded'[g] \in {recorded[g], None, p}
      BY <1>t, <1>f, <1>n DEF TypeOK
    <2> QED
      BY <1>a, <1>e, <2>1, <2>2 DEF Rewrites
  <1> QED
    BY <1>t, <1>a, <1>w, RefusePreserves DEF Kept

\* A daemon binds the socket, removes the name of it or describes itself in the state
\* file.
LEMMA PlacePreserves ==
  ASSUME DInv, NEW p \in Procs, NEW at \in {"state", "rebind", "running"}, At(p, at),
         proc[p].at \in {"bind", "remove", "rebind", "state"},
         UNCHANGED <<pidFile, recorded, locked, faults, lapse>>,
         sock' = CASE at = "state" -> p [] at = "rebind" -> None [] OTHER -> sock,
         stateFile' = IF at = "running" THEN p ELSE stateFile,
         at = "state" => proc[p].at \in {"bind", "rebind"} /\ sock = None,
         at = "rebind" => proc[p].at = "remove",
         at = "running" => proc[p].at = "state"
  PROVE  DInv'
  <1>t. /\ TypeOK /\ Numbered /\ Known(p) /\ IsDaemon(p) /\ proc[p] \in ProcState
        /\ p # None /\ Alive(p) /\ at \in Ats \ {"ended"}
    BY DEF DInv, Numbered, TypeOK, IsDaemon, Alive, Procs, None, Ats, StartSteps
  <1>a. "overlap" \notin lapse => (\A q \in Procs \ {p} : ~Alive(q)) /\ InPlace(p)
    BY StartAlone DEF StartSteps
  <1>b. /\ Becomes(p, proc'[p]) /\ proc'[p].at = at
        /\ proc'[p].todo = <<>> /\ proc'[p].next = "ended"
        /\ proc'[p].file = proc[p].file /\ proc'[p].stopping = proc[p].stopping
        /\ \A q \in Procs \ {p} : proc'[q] = proc[q]
    BY <1>t, AtType DEF Becomes
  <1>s. sock' \in {p, None, sock} /\ stateFile' \in {p, stateFile}
    OBVIOUS
  <1>1. TypeOK'
    BY <1>t, <1>b, <1>s DEF TypeOK, Becomes
  <1>2. Numbered'
    <2>1. Known(p)'
      BY <1>t, <1>b DEF Known, Unlocked, Unbound, Holds, IsDaemon
    <2>2. \A q \in Procs \ {p} : Known(q)'
      <3>1. \A q \in Procs \ {p} : Known(q) /\ proc[q].file \in Procs \cup {None} /\ q # None
        BY <1>t DEF Numbered, TypeOK, ProcState, Procs, None
      <3> QED
        BY <1>t, <1>s, <1>b, <3>1, KnownKeeps
    <2>3. LocksLive'
      BY <1>t, <1>b DEF Numbered, LocksLive, Alive, TypeOK
    <2> QED
      BY <2>1, <2>2, <2>3 DEF Numbered
  <1>3. "unlinked" \notin lapse' => SameFile'
    BY <1>t, <1>b DEF DInv, SameFile, Holds, IsDaemon
  <1>4. ASSUME "overlap" \notin lapse' PROVE InTurn'
    <2>1. InPlace(p)'
      BY <1>4, <1>a, <1>t, <1>b DEF InPlace, Holds, IsDaemon
    <2> QED
      BY <1>4, <1>a, <1>t, <1>b, <2>1, AloneKeeps
  <1>5. ASSUME lapse' = {} PROVE Owed'
    <2>1. Owed /\ InPlace(p)
      BY <1>5, <1>a DEF DInv
    <2> QED
      BY <1>t, <1>b, <2>1 DEF Owed, Holds, IsDaemon, Removes, InPlace
  <1> QED
    BY <1>1, <1>2, <1>3, <1>4, <1>5 DEF DInv

LEMMA BindPreserves ==
  ASSUME DInv, NEW p \in Procs, Bind(p) \/ Probe(p) \/ Remove(p) \/ Rebind(p) \/ WriteState(p)
                             \/ StateFails(p)
  PROVE  DInv'
  <1>t. /\ TypeOK /\ Alive(p) /\ faults' \in Nat
        /\ proc[p].at \in StartSteps \ {"check", "setup"} /\ proc[p].at \notin {"cleanup", "running"}
        /\ UNCHANGED <<pidFile, recorded, locked, lapse>>
    BY DEF DInv, TypeOK, Bind, Probe, Remove, Rebind, WriteState, StateFails, Alive, StartSteps
  <1>a. "overlap" \notin lapse => \A q \in Procs \ {p} : ~Alive(q)
    BY <1>t, StartAlone
  <1>f. Bind(p) \/ Probe(p) \/ Remove(p) \/ Rebind(p) \/ WriteState(p) => UNCHANGED faults
    BY DEF Bind, Probe, Remove, Rebind, WriteState
  <1>1. CASE Halt(p, <<>>) /\ UNCHANGED <<stateFile, sock>>
             /\ proc[p].at \in {"bind", "probe", "remove", "rebind", "state"}
    <2>1. <<>> \in Seq(Files)
      OBVIOUS
    <2> QED
      BY <1>1, <1>t, <2>1, HaltPreserves
  <1>2. CASE /\ At(p, "state") /\ sock = None /\ sock' = p /\ UNCHANGED <<faults, stateFile>>
             /\ proc[p].at \in {"bind", "rebind"}
    BY <1>2, <1>t, PlacePreserves
  <1>3. CASE /\ At(p, "probe") /\ sock # None /\ ~Listening(sock)
             /\ UNCHANGED <<faults, stateFile, sock>> /\ proc[p].at = "bind"
    BY <1>3, <1>t, MovePreserves DEF Ats, StartSteps
  <1>4. CASE /\ At(p, "remove") /\ sock # None /\ ~Listening(sock)
             /\ UNCHANGED <<faults, stateFile, sock>> /\ proc[p].at = "probe"
    BY <1>4, <1>t, MovePreserves DEF Ats, StartSteps
  <1>5. CASE At(p, "rebind") /\ sock' = None /\ UNCHANGED <<faults, stateFile>> /\ proc[p].at = "remove"
    BY <1>5, <1>t, PlacePreserves
  <1>6. CASE At(p, "running") /\ stateFile' = p /\ UNCHANGED <<faults, sock>> /\ proc[p].at = "state"
    BY <1>6, <1>t, PlacePreserves
  <1>b. CASE Bind(p)
    BY <1>b, <1>f, <1>1, <1>2, <1>3 DEF Bind
  <1>p. CASE Probe(p)
    BY <1>p, <1>f, <1>1, <1>4 DEF Probe
  <1>m. CASE Remove(p)
    BY <1>m, <1>f, <1>1, <1>5 DEF Remove
  <1>r. CASE Rebind(p)
    BY <1>r, <1>f, <1>1, <1>2 DEF Rebind
  <1>w. CASE WriteState(p)
    BY <1>w, <1>f, <1>6 DEF WriteState
  <1>s. CASE StateFails(p)
    <2>1. Server \in Seq(Files)
      BY DEF Server, Files
    <2> QED
      BY <1>s, <1>t, <2>1, HaltPreserves DEF StateFails
  <1> QED
    BY <1>b, <1>p, <1>m, <1>r, <1>w, <1>s

LEMMA UnlinkPreserves ==
  ASSUME DInv, NEW p \in Procs, Unlink(p)
  PROVE  DInv'
  <1> DEFINE todo == proc[p].todo
             f == Head(todo)
             rest == Tail(todo)
             next == proc[p].next
  <1>t. /\ TypeOK /\ Numbered /\ Known(p) /\ proc[p] \in ProcState
        /\ proc[p].at = "cleanup" /\ todo # <<>> /\ todo \in Seq(Files)
        /\ next \in {"ended", "spawn", "setup"} /\ next \in Ats
        /\ ~Holds(p) /\ p # None
    BY DEF DInv, Numbered, Known, TypeOK, ProcState, Unlink, Holds, IsDaemon, Procs, None
  <1>s. /\ rest \in Seq(Files) /\ f \in Files
        /\ \A g \in Files : Removes(p, g) => g = f \/ \E i \in 1..Len(rest) : rest[i] = g
        /\ rest = <<>> => Len(rest) = 0
    <2>1. /\ f \in Files /\ rest \in Seq(Files) /\ Len(todo) \in Nat /\ todo[1] = f
          /\ Len(rest) = Len(todo) - 1
          /\ \A i \in 1..Len(rest) : rest[i] = todo[i + 1]
      BY <1>t, HeadTailProperties, LenProperties
    <2>2. ASSUME NEW g \in Files, Removes(p, g), g # f PROVE \E i \in 1..Len(rest) : rest[i] = g
      <3>1. PICK i \in 1..Len(todo) : todo[i] = g
        BY <2>2 DEF Removes
      <3>2. i # 1 /\ i \in Int /\ i - 1 \in 1..Len(rest)
        BY <2>1, <2>2, <3>1
      <3>3. rest[i - 1] = todo[i]
        BY <2>1, <3>2
      <3> QED
        BY <3>1, <3>2, <3>3
    <2>3. rest = <<>> => Len(rest) = 0
      <3> HIDE DEF rest
      <3> QED
        BY <2>1, EmptySeq
    <2> QED
      BY <2>1, <2>2, <2>3
  <1>d. /\ pidFile' = IF f = "pid" THEN None ELSE pidFile
        /\ stateFile' = IF f = "state" THEN None ELSE stateFile
        /\ sock' = IF f = "sock" THEN None ELSE sock
        /\ lapse' = IF f = "pid" /\ InUse(p) THEN lapse \cup {"unlinked"} ELSE lapse
        /\ UNCHANGED <<recorded, faults>>
    BY DEF Unlink
  <1>c. \/ /\ CleanThen(p, rest, next) /\ UNCHANGED locked
        \/ /\ rest = <<>> /\ next = "ended" /\ At(p, "ended") /\ Exit(p)
        \/ /\ rest = <<>> /\ next \in {"spawn", "setup"} /\ At(p, next) /\ UNCHANGED locked
    BY <1>t DEF Unlink
  <1> HIDE DEF f, rest, next, todo
  <1>w. /\ Becomes(p, proc'[p])
        /\ \/ /\ proc'[p].at = "cleanup" /\ proc'[p].todo = rest /\ proc'[p].next = next
              /\ proc'[p].stopping = proc[p].stopping /\ UNCHANGED locked
           \/ rest = <<>> /\ next = "ended" /\ proc'[p] = Ended /\ Exit(p)
           \/ /\ rest = <<>> /\ next \in {"spawn", "setup"}
              /\ proc'[p].at = next /\ proc'[p].next = "ended"
              /\ proc'[p].stopping = proc[p].stopping /\ UNCHANGED locked
    <2>1. CASE CleanThen(p, rest, next) /\ UNCHANGED locked
      BY <2>1, <1>t, <1>s, CleanType
    <2>2. CASE rest = <<>> /\ next = "ended" /\ At(p, "ended") /\ Exit(p)
      BY <2>2, <1>t, EndType
    <2>3. CASE rest = <<>> /\ next \in {"spawn", "setup"} /\ At(p, next) /\ UNCHANGED locked
      <3>1. next \in Ats \ {"ended"}
        BY <2>3, <1>t
      <3> QED
        BY <2>3, <3>1, <1>t, AtType
    <2> QED
      BY <1>c, <2>1, <2>2, <2>3
  <1>b. \A q \in Procs \ {p} : proc'[q] = proc[q]
    BY <1>w DEF Becomes
  <1>h. /\ ~Holds(p)' /\ proc'[p].next \in {"ended", "spawn", "setup"}
        /\ proc'[p].at \in {"cleanup", "ended", "spawn", "setup"}
    BY <1>t, <1>w, RecordType DEF Holds, IsDaemon
  <1>l. /\ locked' \in [Procs -> Procs \cup {None}]
        /\ \A g \in Procs : locked'[g] = locked[g] \/ (locked[g] = p /\ locked'[g] = None /\ proc'[p] = Ended)
        /\ proc'[p] = Ended => \A g \in Procs : locked'[g] # p
    <2>1. CASE Exit(p) /\ proc'[p] = Ended
      BY <2>1, <1>t, ExitType
    <2>2. CASE UNCHANGED locked /\ proc'[p] # Ended
      BY <2>2, <1>t DEF TypeOK
    <2> QED
      BY <1>t, <1>w, <2>1, <2>2, RecordType
  <1>1. TypeOK'
    BY <1>t, <1>w, <1>d, <1>l DEF TypeOK, Becomes
  <1>2. Numbered'
    <2>1. Known(p)'
      <3>1. sock' # sock => sock' # p
        BY <1>t, <1>d
      <3>2. proc'[p] = Ended \/ UNCHANGED locked
        BY <1>w
      <3>3. CASE proc'[p] = Ended
        BY <3>3, RecordType DEF Known, Unlocked, Unbound, Holds, IsDaemon
      <3>4. CASE proc'[p] # Ended /\ UNCHANGED locked
        <4>1. proc'[p].stopping = proc[p].stopping /\ (proc'[p].stopping => proc'[p].at = "cleanup" /\ proc'[p].next = "ended")
          BY <1>t, <1>w, <3>4 DEF Known, next
        <4>2. Unlocked(p)' => Unlocked(p)
          BY <1>t, <1>w, <3>4 DEF Unlocked, next
        <4>3. ~Unbound(p)' /\ ~IsDaemon(p)' /\ proc'[p].at # "new"
          BY <1>h DEF Unbound, IsDaemon
        <4> QED
          BY <1>t, <1>d, <1>h, <3>1, <3>4, <4>1, <4>2, <4>3 DEF Known
      <3> QED
        BY <3>2, <3>3, <3>4
    <2>2. \A q \in Procs \ {p} : Known(q)'
      <3>1. \A q \in Procs \ {p} : Known(q) /\ proc[q].file \in Procs \cup {None} /\ q # None
        BY <1>t DEF Numbered, TypeOK, ProcState, Procs, None
      <3>2. \A q \in Procs \ {p} : \A g \in Procs : locked'[g] = q <=> locked[g] = q
        BY <1>l, <3>1
      <3> QED
        BY <1>d, <1>b, <3>1, <3>2, KnownKeeps
    <2>3. LocksLive'
      <3> SUFFICES ASSUME NEW g \in Procs, locked'[g] # None PROVE Alive(locked[g])'
        BY DEF LocksLive
      <3>1. locked'[g] = locked[g] /\ locked[g] \in Procs /\ Alive(locked[g])
        BY <1>t, <1>l DEF Numbered, LocksLive, TypeOK
      <3>2. proc'[p] # Ended => Alive(p)'
        BY <1>w, <1>h DEF Alive
      <3> QED
        BY <1>b, <1>l, <3>1, <3>2 DEF Alive
    <2> QED
      BY <2>1, <2>2, <2>3 DEF Numbered
  <1>3. ASSUME "unlinked" \notin lapse' PROVE SameFile'
    <2>1. SameFile /\ ~(f = "pid" /\ InUse(p))
      BY <1>3, <1>d DEF DInv
    <2>2. ASSUME NEW q \in Procs \ {p}, Holds(q) PROVE pidFile' = pidFile
      <3>1. Alive(q) /\ proc[q].file = pidFile /\ pidFile # None
        BY <1>t, <2>1, <2>2 DEF SameFile, Numbered, Known, Holds, IsDaemon, Alive
      <3>2. InUse(p)
        BY <3>1 DEF InUse
      <3> QED
        BY <1>d, <2>1, <3>2
    <2> QED
      BY <1>b, <1>h, <2>1, <2>2 DEF SameFile, Holds, IsDaemon
  <1>4. ASSUME "overlap" \notin lapse' PROVE InTurn'
    <2>1. InTurn
      BY <1>4, <1>d DEF DInv
    <2>2. \A q \in Procs \ {p} : Alive(q) =>
             /\ Busy(q)
             /\ proc[q].at = "wait" \/ (proc[q].at = "cleanup" /\ proc[q].next = "ended")
             /\ proc[p].next = "ended"
      BY <1>t, <2>1 DEF InTurn, Solo, Busy, Alive
    <2>3. \A q \in Procs : InPlace(q)'
      BY <1>b, <1>h, <2>2 DEF InPlace, Holds, IsDaemon, Alive
    <2>4. Solo'
      <3>1. proc'[p].at \in {"spawn", "setup"} => next # "ended"
        BY <1>w, RecordType
      <3>2. ASSUME NEW q \in Procs \ {p}, Alive(q)
            PROVE  proc'[p].at = "ended" \/
                   (/\ proc'[p].at = "cleanup" /\ proc'[p].next = "ended"
                    /\ proc'[p].stopping = proc[p].stopping)
        BY <1>w, <2>2, <3>1, <3>2, RecordType DEF next
      <3>3. ASSUME NEW q \in Procs, NEW r \in Procs, q # r, Busy(q)', Busy(r)'
            PROVE  /\ proc'[q].at = "wait" \/ (proc'[q].at = "cleanup" /\ proc'[q].next = "ended")
                   /\ proc'[q].stopping # proc'[r].stopping /\ proc'[r].at # "halt"
        <4>1. Busy(q) /\ Busy(r)
          BY <1>t, <1>b, <3>3 DEF Busy, Alive
        <4>3. Alive(q) /\ Alive(r)
          BY <4>1 DEF Busy
        <4>2. /\ proc[q].at = "wait" \/ (proc[q].at = "cleanup" /\ proc[q].next = "ended")
              /\ proc[r].at # "halt" /\ proc[q].stopping # proc[r].stopping
          BY <1>t, <2>1, <2>2, <3>3, <4>1, <4>3 DEF InTurn, Solo
        <4> QED
          BY <1>b, <3>2, <3>3, <4>2, <4>3 DEF Busy, Alive
      <3>4. \A q, r \in Procs : q # r /\ proc'[q].at = "running" => ~Alive(r)'
        <4>1. ASSUME NEW q \in Procs, NEW r \in Procs, q # r, proc'[q].at = "running"
              PROVE  FALSE
          <5>1. q # p
            BY <1>h, <4>1
          <5> QED
            BY <1>b, <2>2, <4>1, <5>1 DEF Alive
        <4> QED
          BY <4>1
      <3> QED
        BY <3>3, <3>4 DEF Solo
    <2> QED
      BY <2>3, <2>4 DEF InTurn
  <1>5. ASSUME lapse' = {} PROVE Owed'
    <2>1. Owed
      BY <1>5, <1>d DEF DInv
    <2>2. ASSUME NEW g \in Files, g # f, Removes(p, g) PROVE Removes(p, g)'
      BY <1>s, <1>w, <2>2 DEF Removes
    <2>3. \A q \in Procs \ {p} : \A g \in Files : Removes(q, g) => Removes(q, g)'
      BY <1>b DEF Removes
    <2>4. \A q \in Procs : /\ Holds(q) => q # p /\ Holds(q)'
                           /\ proc[q].at \in {"state", "running", "halt"} => proc'[q].at = proc[q].at
      BY <1>t, <1>b DEF Holds, IsDaemon
    <2> QED
      BY <1>d, <2>1, <2>2, <2>3, <2>4 DEF Owed, Files
  <1> QED
    BY <1>1, <1>2, <1>3, <1>4, <1>5 DEF DInv

LEMMA StopPreserves ==
  ASSUME DInv, NEW p \in Procs, Stop(p)
  PROVE  DInv'
  <1>t. /\ TypeOK /\ Numbered /\ Known(p) /\ Unlocked(p) /\ proc[p] \in ProcState /\ Busy(p)
        /\ proc[p].at = "stop" /\ ~proc[p].stopping /\ p # None
        /\ UNCHANGED <<pidFile, recorded, stateFile, sock, faults, lapse>> /\ faults' \in Nat
    BY DEF DInv, Numbered, Known, Unlocked, TypeOK, Stop, Busy, Alive, Procs, None
  <1>1. CASE ~IsRunning /\ proc[p].cli
    <2>1. CleanThen(p, Cleanup, "ended") /\ UNCHANGED locked /\ "ended" \in Ats
      BY <1>1 DEF Stop, Ats
    <2>2. /\ Becomes(p, proc'[p]) /\ proc'[p].at = "cleanup" /\ proc'[p].next = "ended"
          /\ proc'[p].todo = Cleanup /\ proc'[p].stopping = proc[p].stopping
      BY <2>1, <1>t, CleanupType, CleanType
    <2>3. "overlap" \notin lapse => \A q \in Procs \ {p} : ~Alive(q)
      BY <1>1, <1>t, Alone DEF DInv
    <2>4. \E i, j, k \in 1..Len(proc'[p].todo) :
            /\ proc'[p].todo[i] = "pid" /\ proc'[p].todo[j] = "state" /\ proc'[p].todo[k] = "sock"
      <3>1. 1 \in 1..Len(Cleanup) /\ 2 \in 1..Len(Cleanup) /\ 3 \in 1..Len(Cleanup)
        BY CleanupType
      <3> QED
        BY <2>2, <3>1, CleanupType
    <2> QED
      BY <2>1, <2>2, <2>3, <2>4, <1>t, CleanPreserves DEF Busy, Rewrites, TypeOK
  <1>2. CASE ~IsRunning /\ ~proc[p].cli
    <2>1. At(p, "ended") /\ UNCHANGED locked
      BY <1>2 DEF Stop
    <2>2. Becomes(p, Ended) /\ proc'[p] = Ended
      BY <2>1, <1>t, EndType
    <2>3. \A f \in Procs : locked[f] # p
      BY <1>t DEF Known
    <2> QED
      BY <2>1, <2>2, <2>3, <1>t, EndPreserves DEF Holds, IsDaemon, TypeOK, Rewrites
  <1>3. CASE IsRunning
    <2>f. PICK q \in Procs \ {p} : q = recorded[pidFile] /\ Alive(q)
      BY <1>3, <1>t, FoundOther
    <2>q. q \in Procs \ {p} /\ Alive(q) /\ proc[q] \in ProcState /\ Known(q) /\ q # None
      BY <1>t, <2>f DEF TypeOK, Numbered, Procs, None
    <2>s. Signal(q, p, "wait")
      BY <1>3, <2>f DEF Stop
    <2> DEFINE r == [proc[p] EXCEPT !.at = "wait"]
               x == [proc[q] EXCEPT !.at = "halt", !.stopping = TRUE, !.next = "ended",
                                    !.todo = Server]
               y == CASE proc[q].at = "running" -> x [] proc[q].stopping -> proc[q] [] OTHER -> Ended
    <2>r. /\ r \in ProcState /\ r.at = "wait" /\ r.next = proc[p].next /\ ~r.stopping
          /\ r.file = proc[p].file
      BY <1>t DEF ProcState, Ats, StopSteps
    <2>x. x \in ProcState /\ x.at = "halt" /\ x.next = "ended" /\ x.stopping /\ x.file = proc[q].file
      <3>1. Server \in Seq(Files)
        BY DEF Server, Files
      <3> QED
        BY <3>1, <2>q DEF ProcState, Ats, StopSteps
    <2>e. proc' = [proc EXCEPT ![p] = r, ![q] = y]
      BY <2>s, <2>q, <1>t DEF Signal, Term, TypeOK
    <2>l. IF proc[q].at = "running" \/ proc[q].stopping THEN UNCHANGED locked ELSE Exit(q)
      BY <2>s DEF Signal
    <2> HIDE DEF x, r
    <2>y. y \in ProcState /\ y.next \in {"ended", "spawn", "setup"} /\ y.at # "new"
      BY <2>q, <2>x, RecordType DEF Known, Alive
    <2>w. \/ proc[q].at = "running" /\ y = x /\ UNCHANGED locked
          \/ /\ proc[q].at \in {"cleanup", "halt"} /\ proc[q].next = "ended" /\ proc[q].stopping
             /\ y = proc[q] /\ UNCHANGED locked
          \/ proc[q].at # "running" /\ ~proc[q].stopping /\ y = Ended /\ Exit(q)
      BY <2>l, <2>q DEF Known
    <2> HIDE DEF y
    <2>b. /\ proc' \in [Procs -> ProcState] /\ proc'[p] = r /\ proc'[q] = y
          /\ \A s \in Procs \ {p, q} : proc'[s] = proc[s]
      BY <1>t, <2>q, <2>r, <2>y, <2>e DEF TypeOK
    <2>k. /\ locked' \in [Procs -> Procs \cup {None}]
          /\ \A g \in Procs : locked'[g] = locked[g] \/ (locked[g] = q /\ locked'[g] = None /\ y = Ended)
          /\ y = Ended => \A g \in Procs : locked'[g] # q
      <3>1. CASE Exit(q) /\ y = Ended
        BY <3>1, <1>t, <2>q, ExitType
      <3>2. CASE UNCHANGED locked /\ y # Ended
        BY <3>2, <1>t DEF TypeOK
      <3> QED
        BY <3>1, <3>2, <2>q, <2>w, <2>x, RecordType DEF Alive
    <2>1. TypeOK'
      BY <1>t, <2>b, <2>k DEF TypeOK
    <2>2. Numbered'
      <3>1. Known(p)'
        <4>1. \A g \in Procs : locked'[g] # p
          BY <1>t, <2>k, <2>q DEF Known
        <4> QED
          BY <1>t, <2>b, <2>r, <4>1 DEF Known, Unlocked, Unbound, Holds, IsDaemon
      <3>2. Known(q)'
        <4>1. CASE y = proc[q] /\ UNCHANGED locked
          <5>1. proc[q].file \in Procs \cup {None}
            BY <2>q DEF ProcState
          <5> QED
            BY <4>1, <5>1, <1>t, <2>b, <2>q, KnownKeeps
        <4>2. CASE y = x
          <5>1. (proc[q].at \in {"running", "halt"} \/ y = proc[q]) /\ UNCHANGED locked
            BY <4>2, <2>w, <2>x, RecordType
          <5>2. IsDaemon(q)
            BY <4>2, <5>1, <2>x DEF IsDaemon
          <5>3. locked'[proc'[q].file] = q /\ proc'[q].file # None
            BY <4>2, <5>1, <5>2, <2>b, <2>q, <2>x DEF Known, Holds
          <5> QED
            BY <4>2, <5>3, <2>b, <2>x DEF Known, Unlocked, Unbound, Holds, IsDaemon
        <4>3. CASE y = Ended
          BY <4>3, <2>b, RecordType DEF Known, Unlocked, Unbound, Holds, IsDaemon
        <4> QED
          BY <2>w, <4>1, <4>2, <4>3
      <3>3. \A s \in Procs \ {p, q} : Known(s)'
        <4>1. \A s \in Procs \ {p, q} : Known(s) /\ proc[s].file \in Procs \cup {None} /\ s # None
          BY <1>t DEF Numbered, TypeOK, ProcState, Procs, None
        <4>2. \A s \in Procs \ {p, q} : \A g \in Procs : locked'[g] = s <=> locked[g] = s
          BY <2>k, <4>1
        <4> QED
          BY <1>t, <2>b, <4>1, <4>2, KnownKeeps
      <3>4. LocksLive'
        <4> SUFFICES ASSUME NEW g \in Procs, locked'[g] # None PROVE Alive(locked[g])'
          BY <2>k DEF LocksLive
        <4>1. locked'[g] = locked[g] /\ locked[g] \in Procs /\ Alive(locked[g])
          BY <1>t, <2>k DEF Numbered, LocksLive, TypeOK
        <4>2. CASE locked[g] = q
          <5>1. y # Ended
            BY <2>k, <4>1, <4>2
          <5> QED
            BY <5>1, <4>2, <2>b, <2>q, <2>w, <2>x DEF Alive
        <4>3. CASE locked[g] = p
          BY <4>3, <4>1, <2>b, <2>r DEF Alive
        <4>4. CASE locked[g] \notin {p, q}
          BY <4>4, <4>1, <2>b DEF Alive
        <4> QED
          BY <4>2, <4>3, <4>4
      <3> QED
        BY <3>1, <3>2, <3>3, <3>4 DEF Numbered
    <2>3. ASSUME "unlinked" \notin lapse' PROVE SameFile'
      <3>1. SameFile
        BY <1>t, <2>3 DEF DInv
      <3>2. ~Holds(p)' /\ (Holds(q)' => Holds(q) /\ y.file = proc[q].file)
        BY <2>b, <2>r, <2>w, <2>x, RecordType DEF Holds, IsDaemon
      <3> QED
        BY <1>t, <2>b, <3>1, <3>2 DEF SameFile, Holds, IsDaemon
    <2>4. ASSUME "overlap" \notin lapse PROVE /\ proc[q].at = "running"
                                              /\ \A s \in Procs \ {p, q} : ~Alive(s)
      <3>1. Solo
        BY <2>4 DEF DInv, InTurn
      <3> QED
        BY <1>t, <2>q, <3>1 DEF Solo, Busy, Alive
    <2>5. ASSUME "overlap" \notin lapse' PROVE InTurn'
      <3>1. y = x /\ \A s \in Procs \ {p, q} : proc'[s].at \in {"new", "ended"}
        BY <1>t, <2>4, <2>5, <2>b, <2>w DEF Alive
      <3>2. Solo'
        BY <2>b, <2>r, <2>x, <3>1 DEF Solo, Busy, Alive
      <3>4. InPlace(q)
        BY <1>t, <2>5, <2>q DEF DInv, InTurn
      <3>5. InPlace(q)'
        BY <1>t, <2>4, <2>5, <2>b, <2>x, <3>1, <3>4, <2>w DEF InPlace, Holds, IsDaemon
      <3>3. \A s \in Procs : InPlace(s)'
        BY <2>b, <2>r, <3>1, <3>5 DEF InPlace, Holds, IsDaemon
      <3> QED
        BY <3>2, <3>3 DEF InTurn
    <2>6. ASSUME lapse' = {} PROVE Owed'
      <3>1. Owed /\ y = x
        BY <1>t, <2>4, <2>6, <2>w, <2>q DEF DInv
      <3> QED
        BY <2>q, <2>b, <2>x, <3>1 DEF Owed, Holds, IsDaemon
    <2> QED
      BY <2>1, <2>2, <2>3, <2>5, <2>6 DEF DInv
  <1> QED
    BY <1>1, <1>2, <1>3

LEMMA WaitPreserves ==
  ASSUME DInv, NEW p \in Procs, Wait(p)
  PROVE  DInv'
  <1>t. /\ TypeOK /\ Known(p) /\ Unlocked(p) /\ Alive(p)
        /\ proc[p].at = "wait" /\ \A f \in Procs : locked[f] # p
        /\ UNCHANGED <<pidFile, recorded, locked, stateFile, sock, faults, lapse>> /\ faults' \in Nat
    BY DEF DInv, Numbered, Known, Unlocked, TypeOK, Wait, Alive
  <1>1. CASE IsRunning
    <2>1. Becomes(p, Ended) /\ proc'[p] = Ended
      BY <1>1, <1>t, EndType DEF Wait
    <2> QED
      BY <2>1, <1>t, EndPreserves DEF Holds, IsDaemon, TypeOK, Rewrites
  <1>2. CASE ~IsRunning
    <2>1. CleanThen(p, Cleanup, "ended") /\ "ended" \in Ats
      BY <1>2 DEF Wait, Ats
    <2>2. /\ Becomes(p, proc'[p]) /\ proc'[p].at = "cleanup" /\ proc'[p].next = "ended"
          /\ proc'[p].todo = Cleanup /\ proc'[p].stopping = proc[p].stopping
      BY <2>1, <1>t, CleanupType, CleanType
    <2>3. \E i, j, k \in 1..Len(proc'[p].todo) :
            /\ proc'[p].todo[i] = "pid" /\ proc'[p].todo[j] = "state" /\ proc'[p].todo[k] = "sock"
      <3>1. 1 \in 1..Len(Cleanup) /\ 2 \in 1..Len(Cleanup) /\ 3 \in 1..Len(Cleanup)
        BY CleanupType
      <3> QED
        BY <2>2, <3>1, CleanupType
    <2> QED
      BY <2>2, <2>3, <1>2, <1>t, CleanPreserves DEF Rewrites, TypeOK
  <1> QED
    BY <1>1, <1>2

LEMMA CrashPreserves ==
  ASSUME DInv, NEW p \in Procs, Crash(p)
  PROVE  DInv'
  <1>1. TypeOK /\ At(p, "ended") /\ Exit(p)
    BY DEF DInv, Crash
  <1>2. Becomes(p, Ended) /\ proc'[p] = Ended
    BY <1>1, EndType
  <1>3. /\ faults' \in Nat /\ lapse \subseteq lapse' /\ lapse' # {}
        /\ lapse' \subseteq {"overlap", "unlinked", "crash", "kept"}
        /\ UNCHANGED <<pidFile, stateFile, sock>> /\ Rewrites(p)
    BY <1>1 DEF Crash, TypeOK, Rewrites
  <1> QED
    BY <1>1, <1>2, <1>3, EndPreserves

LEMMA StutterPreserves ==
  ASSUME DInv, UNCHANGED vars
  PROVE  DInv'
  <1>1. TypeOK' /\ Numbered'
    BY DEF DInv, vars, TypeOK, Numbered, LocksLive, Known, Unlocked, Unbound, Holds, IsDaemon, Alive
  <1>2. ("unlinked" \notin lapse => SameFile)'
    BY DEF DInv, vars, SameFile, Holds, IsDaemon
  <1>3. ("overlap" \notin lapse => InTurn)'
    <2>1. (Solo' <=> Solo) /\ \A p \in Procs : InPlace(p)' <=> InPlace(p)
      BY DEF vars, Solo, Busy, InPlace, Holds, IsDaemon, Listening, Alive
    <2> QED
      BY <2>1 DEF DInv, vars, InTurn
  <1>4. (lapse = {} => Owed)'
    BY DEF DInv, vars, Owed, Holds, IsDaemon, Removes
  <1> QED
    BY <1>1, <1>2, <1>3, <1>4 DEF DInv

-----------------------------------------------------------------------------
(* The results *)

LEMMA InitHolds == Init => DInv
  <1> SUFFICES ASSUME Init PROVE DInv
    OBVIOUS
  <1>1. \A p \in Procs : /\ proc[p] \in ProcState /\ proc[p] = New /\ proc[p].at = "new"
                         /\ proc[p].next = "ended" /\ ~proc[p].stopping /\ p # None
                         /\ ~Alive(p) /\ ~Holds(p) /\ ~IsDaemon(p)
    <2> SUFFICES ASSUME NEW p \in Procs
                 PROVE  /\ proc[p] \in ProcState /\ proc[p] = New /\ proc[p].at = "new"
                        /\ proc[p].next = "ended" /\ ~proc[p].stopping /\ p # None
                        /\ ~Alive(p) /\ ~Holds(p) /\ ~IsDaemon(p)
      OBVIOUS
    <2>1. proc[p] = New
      BY DEF Init
    <2> QED
      BY <2>1, RecordType DEF Alive, Holds, IsDaemon, Procs, None
  <1>2. /\ pidFile = None /\ stateFile = None /\ sock = None /\ faults \in Nat /\ lapse = {}
        /\ \A f \in Procs : recorded[f] = None /\ locked[f] = None
        /\ recorded \in [Procs -> Procs \cup {None}] /\ locked \in [Procs -> Procs \cup {None}]
    BY DEF Init
  <1>3. TypeOK
    BY <1>1, <1>2 DEF TypeOK, Init
  <1>4. Numbered
    BY <1>1, <1>2 DEF Numbered, LocksLive, Known
  <1>5. SameFile /\ Owed
    BY <1>1, <1>2 DEF SameFile, Owed
  <1>6. InTurn
    <2>1. Solo
      BY <1>1 DEF Solo, Busy
    <2>2. \A p \in Procs : InPlace(p)
      BY <1>1 DEF InPlace
    <2> QED
      BY <2>1, <2>2 DEF InTurn
  <1> QED
    BY <1>3, <1>4, <1>5, <1>6 DEF DInv

LEMMA DaemonStep == DInv /\ [Next]_vars => DInv'
  <1> SUFFICES ASSUME DInv, [Next]_vars PROVE DInv'
    OBVIOUS
  <1>1. CASE UNCHANGED vars
    BY <1>1, StutterPreserves
  <1>2. CASE Next
    <2>1. PICK p \in Procs : Begin(p) \/ Step(p) \/ SentinelStops(p) \/ Fault(p)
      BY <1>2 DEF Next
    <2>2. CASE Begin(p)
      BY <2>2, BeginPreserves
    <2>3. CASE SentinelStops(p)
      BY <2>3, StopsPreserves
    <2>4. CASE Fault(p)
      BY <2>4, AcquirePreserves, SentinelPreserves, BindPreserves, CrashPreserves DEF Fault
    <2>5. CASE Step(p)
      <3>1. CASE Check(p)
        BY <3>1, CheckPreserves
      <3>2. CASE Spawn(p)
        BY <3>2, SpawnPreserves
      <3>3. CASE Unlink(p)
        BY <3>3, UnlinkPreserves
      <3>4. CASE Setup(p)
        BY <3>4, SetupPreserves
      <3>5. CASE Open(p)
        BY <3>5, OpenPreserves
      <3>6. CASE Flock(p)
        BY <3>6, FlockPreserves
      <3>7. CASE SentinelStarts(p)
        BY <3>7, SentinelPreserves
      <3>8. CASE Bind(p) \/ Probe(p) \/ Remove(p) \/ Rebind(p) \/ WriteState(p)
        BY <3>8, BindPreserves
      <3>9. CASE Stop(p)
        BY <3>9, StopPreserves
      <3>10. CASE Wait(p)
        BY <3>10, WaitPreserves
      <3>11. CASE ServerStops(p)
        BY <3>11, ServerPreserves
      <3> QED
        BY <2>5, <3>11, <3>1, <3>2, <3>3, <3>4, <3>5, <3>6, <3>7, <3>8, <3>9, <3>10 DEF Step
    <2> QED
      BY <2>1, <2>2, <2>3, <2>4, <2>5
  <1> QED
    BY <1>1, <1>2

LEMMA DaemonInv == Spec => []DInv
  <1>1. Init => DInv
    BY InitHolds
  <1>2. DInv /\ [Next]_vars => DInv'
    BY DaemonStep
  <1> QED
    BY <1>1, <1>2, PTL DEF Spec

\* Processes, files and locks keep their types, however commands overlap.
THEOREM DaemonTypeCorrect == Spec => []TypeOK
  <1>1. DInv => TypeOK
    BY DEF DInv
  <1> QED
    BY <1>1, DaemonInv, PTL

\* The lock that acquire_pid_file takes keeps two daemons apart, for any number of
\* commands, overlaps and crashes, until a cleanup removes the name of a PID file that
\* another process has open: two who hold the lock on one file are one.
THEOREM LockKeepsDaemonsApart == Spec => []OneDaemonUnlessUnlinked
  <1>1. DInv => OneDaemonUnlessUnlinked
    <2> SUFFICES ASSUME DInv, "unlinked" \notin lapse, NEW p \in Procs, NEW q \in Procs,
                        IsDaemon(p), IsDaemon(q)
                 PROVE  p = q
      BY DEF OneDaemonUnlessUnlinked
    <2>1. proc[p].file = pidFile /\ proc[q].file = pidFile
      BY DEF DInv, SameFile, Holds
    <2>2. locked[pidFile] = p /\ locked[pidFile] = q
      BY <2>1 DEF DInv, Numbered, Known
    <2> QED
      BY <2>2
  <1> QED
    BY <1>1, DaemonInv, PTL

\* Given one after the other, status and stop find the daemon that runs, by the number
\* in the PID file it has locked, and its socket and state file are its own: whatever
\* earlier daemons crashed with is cleared away or taken over by setup_daemon.
THEOREM StopFindsDaemon == Spec => []DaemonIsFound
  <1>1. DInv => DaemonIsFound
    BY DEF DInv, InTurn, InPlace, Holds, IsDaemon, DaemonIsFound
  <1> QED
    BY <1>1, DaemonInv, PTL

\* With no overlap, no crash and no start outside the CLI that fails between the creation
\* of the PID file and the start of the sentinel, the cleanups leave neither PID file nor socket nor state
\* file once nobody is left: each file has, as long as it is there, a process that will
\* remove it.
THEOREM CleanupsLeaveNothing == Spec => []NothingIsLeft
  <1>1. DInv => NothingIsLeft
    BY DEF DInv, Owed, Holds, IsDaemon, Removes, Alive, NothingIsLeft
  <1> QED
    BY <1>1, DaemonInv, PTL

\* What a crash left behind is in nobody's way: without overlap a start that got past
\* its first look gives up only beside a daemon or because the sentinel failed.
THEOREM StartsPastLeftovers == Spec => LeftoversBlockNobody
  <1> DEFINE A == \A p \in Procs :
                    (/\ "overlap" \notin lapse /\ faults' = faults
                     /\ proc[p].at \in StartSteps \ {"check", "spawn"}
                     /\ proc'[p].at \in {"cleanup", "halt", "ended"})
                       => \E q \in Procs \ {p} : IsDaemon(q)
  <1>1. DInv /\ [Next]_vars => [A]_vars
    <2> SUFFICES ASSUME DInv, Next, NEW p \in Procs, "overlap" \notin lapse, faults' = faults,
                        proc[p].at \in StartSteps \ {"check", "spawn"},
                        proc'[p].at \in {"cleanup", "halt", "ended"}
                 PROVE  \E q \in Procs \ {p} : IsDaemon(q)
      OBVIOUS
    <2>t. TypeOK /\ Numbered /\ InTurn /\ InPlace(p) /\ Known(p) /\ Busy(p) /\ Alive(p) /\ faults \in Nat
      BY DEF DInv, TypeOK, Numbered, InTurn, Busy, Alive, StartSteps
    <2>1. PICK o \in Procs : Begin(o) \/ Step(o) \/ SentinelStops(o) \/ Fault(o)
      BY DEF Next
    <2>2. ~Fault(o)
      <3>1. Fault(o) => faults' = faults + 1
        BY Zenon DEF Fault, AcquireFails, NewFails, SentinelFails, StateFails, Crash
      <3> QED
        BY <2>t, <3>1
    <2>7. CASE SentinelStops(o)
      <3>1. Busy(o) /\ proc[o].at = "halt"
        BY <2>7 DEF SentinelStops, Busy, Alive
      <3> QED
        BY <2>t, <3>1 DEF InTurn, Solo, StartSteps
    <2>3. CASE Begin(o)
      <3>1. proc'[p].at = proc[p].at
        BY <2>3, <2>t DEF Begin, Fresh, StartSteps, TypeOK
      <3> QED
        BY <3>1 DEF StartSteps
    <2>4. CASE Step(o) /\ o # p
      <3>1. Busy(o)
        BY <2>4 DEF Step, Check, Spawn, Unlink, Setup, Open, Flock, SentinelStarts, Bind, Probe,
                    Remove, Rebind, WriteState, Stop, ServerStops, Wait, Busy, Alive
      <3> QED
        BY <2>4, <2>t, <3>1 DEF InTurn, Solo, StartSteps
    <2>5. CASE Step(p) /\ proc[p].at = "setup"
      <3>1. Setup(p)
        BY <2>5 DEF Step, Check, Spawn, Unlink, Setup, Open, Flock, SentinelStarts, Bind, Probe,
                    Remove, Rebind, WriteState, Stop, ServerStops, Wait
      <3>2. IsRunning
        <4>1. SUFFICES ASSUME ~IsRunning PROVE FALSE
          OBVIOUS
        <4>2. At(p, "open") /\ "open" \in Ats \ {"ended"}
          BY <3>1, <4>1 DEF Setup, Ats, StartSteps
        <4> QED
          BY <2>t, <4>2, AtType
      <3>3. PICK q \in Procs \ {p} : Alive(q)
        BY <2>5, <2>t, <3>2, FoundOther DEF Unlocked
      <3>4. proc[q].at = "running"
        BY <2>5, <2>t, <3>3 DEF InTurn, Solo, Busy
      <3> QED
        BY <3>4 DEF IsDaemon
    <2>6. CASE Step(p) /\ proc[p].at # "setup"
      <3>1. \A q \in Procs \ {p} : ~Alive(q)
        BY <2>6, StartAlone
      <3>2. ASSUME NEW q \in Procs, Alive(q), q # p PROVE FALSE
        BY <3>1, <3>2
      <3>3. CASE Open(p)
        <4>1. proc'[p].at = "flock"
          BY <2>t, <3>3 DEF Open, TypeOK, ProcState
        <4> QED
          BY <4>1
      <3>4. CASE Flock(p)
        <4> DEFINE f == proc[p].file
        <4>1. f \in Procs /\ \A g \in Procs : locked[g] # p
          BY <2>t, <3>4 DEF TypeOK, ProcState, Known, Holds, Unlocked, Flock
        <4>2. locked[f] = None
          BY <2>t, <3>1, <4>1 DEF Numbered, LocksLive, TypeOK
        <4>3. At(p, "sentinel") /\ "sentinel" \in Ats \ {"ended"}
          BY <3>4, <4>2 DEF Flock, Ats, StartSteps
        <4> QED
          BY <2>t, <4>3, AtType
      <3>5. CASE SentinelStarts(p)
        <4>1. At(p, "bind") /\ "bind" \in Ats \ {"ended"}
          BY <3>5 DEF SentinelStarts, Ats, StartSteps
        <4> QED
          BY <2>t, <4>1, AtType
      <3>6. CASE Bind(p) \/ Probe(p) \/ Remove(p) \/ Rebind(p) \/ WriteState(p)
        <4>1. proc[p].at \in {"bind", "probe", "remove", "rebind"} => ~Listening(sock)
          BY <2>t, <3>1 DEF Listening, TypeOK, Known, Unbound
        <4>2. \E at \in {"state", "probe", "remove", "rebind", "running"} : At(p, at)
          BY <2>t, <3>6, <4>1 DEF Bind, Probe, Remove, Rebind, WriteState, InPlace
        <4>3. {"state", "probe", "remove", "rebind", "running"} \subseteq Ats \ {"ended"}
          BY DEF Ats, StartSteps
        <4>4. PICK at \in {"state", "probe", "remove", "rebind", "running"} : At(p, at)
          BY <4>2
        <4>5. proc'[p].at = at
          BY <2>t, <4>3, <4>4, AtType
        <4> QED
          BY <4>5
      <3>7. Open(p) \/ Flock(p) \/ SentinelStarts(p)
            \/ (Bind(p) \/ Probe(p) \/ Remove(p) \/ Rebind(p) \/ WriteState(p))
        BY <2>6 DEF Step, Check, Spawn, Unlink, Setup, Stop, ServerStops, Wait, StartSteps
      <3> QED
        BY <3>3, <3>4, <3>5, <3>6, <3>7
    <2> QED
      BY <2>1, <2>2, <2>3, <2>4, <2>5, <2>6, <2>7
  <1> QED
    BY <1>1, DaemonInv, PTL DEF Spec, LeftoversBlockNobody
=============================================================================
