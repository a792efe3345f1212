------------------------------- MODULE Daemon -------------------------------
(***************************************************************************)
(* Starting and stopping the daemon: the commands of the CLI and of the    *)
(* library, the daemon process, and the files they share, which are the    *)
(* locked PID file, the state file and the IPC socket.                     *)
(*                                                                         *)
(* Code: crates/cpoe/src/sentinel/daemon.rs, apps/cpoe_cli/src/            *)
(* cmd_daemon.rs, IpcServer in crates/cpoe/src/ipc/server.rs.              *)
(*                                                                         *)
(* A step is a system call, or a few whose order nobody else can see.      *)
(* Process numbers are given out in order and not used again.  A lock      *)
(* belongs to the file that was opened, not to its name: a file of the PID *)
(* file's name is called by the process that created it.                   *)
(***************************************************************************)
EXTENDS Integers, Sequences, FiniteSets

CONSTANTS MaxProcs,   \* bound on processes
          MaxFaults   \* bound on crashes and on failures during a start

ASSUME DaemonAssumption == MaxProcs \in Nat /\ MaxFaults \in Nat

Procs == 1..MaxProcs   \* processes, by their numbers

VARIABLES proc,      \* the processes
          pidFile,   \* the file that bears the name daemon.pid
          recorded,  \* the process number each such file holds
          locked,    \* the process that holds the lock of each such file
          stateFile, \* the process daemon.state describes
          sock,      \* the process that bound sentinel.sock
          faults,
          lapse      \* history: events after which less is promised

vars == <<proc, pidFile, recorded, locked, stateFile, sock, faults, lapse>>

-----------------------------------------------------------------------------

None == 0

Files == {"pid", "state", "sock"}

\* Mutant of Cleanup: the state file is forgotten.
CleanupLeavesState == <<"pid", "sock">>

\* DaemonManager::cleanup, in its order.
Cleanup == <<"pid", "state", "sock">>

StartSteps == {"check", "spawn", "setup", "open", "flock", "sentinel",
               "bind", "probe", "remove", "rebind", "state"}
StopSteps == {"stop", "wait", "halt"}
Ats == {"new", "cleanup", "running", "ended"} \cup StartSteps \cup StopSteps

\* "cli": the command came through the CLI.  "back": it starts a daemon in the
\* background.  "file": the PID file it has open.  "todo": files a cleanup, or the IPC
\* server at "halt", still has to remove; after a cleanup the process is at "next".
\* "halt": it waits in sentinel.stop().  "stopping": it was told to stop.
New == [at |-> "new", cli |-> FALSE, back |-> FALSE, file |-> None, todo |-> <<>>,
        next |-> "ended", stopping |-> FALSE]

Ended == [New EXCEPT !.at = "ended"]

Alive(p) == proc[p].at \notin {"new", "ended"}

\* is_running: the number in the PID file belongs to a process.
IsRunning ==
    /\ pidFile # None
    /\ recorded[pidFile] # None
    /\ Alive(recorded[pidFile])

\* The process has taken the lock and is, or is about to be, the daemon.
IsDaemon(p) ==
    proc[p].at \in {"sentinel", "bind", "probe", "remove", "rebind", "state", "running", "halt"}

Listening(p) == p # None /\ Alive(p)

Init ==
    /\ proc = [p \in Procs |-> New]
    /\ pidFile = None
    /\ recorded = [f \in Procs |-> None]
    /\ locked = [f \in Procs |-> None]
    /\ stateFile = None
    /\ sock = None
    /\ faults = 0
    /\ lapse = {}

At(p, at) ==
    proc' = [proc EXCEPT ![p] = IF at = "ended" THEN Ended
                                ELSE [@ EXCEPT !.at = at, !.todo = <<>>, !.next = "ended"]]

\* A cleanup of these files, then on to "next".
CleanThen(p, todo, next) ==
    proc' = [proc EXCEPT ![p] =
                [@ EXCEPT !.at = "cleanup", !.back = FALSE, !.todo = todo, !.next = next]]

\* The exit of a process releases its lock; the name of its socket stays.
Exit(p) == locked' = [f \in Procs |-> IF locked[f] = p THEN None ELSE locked[f]]

-----------------------------------------------------------------------------
(* Commands *)

\* A command begins while another one is under way, or a daemon is shutting down.
Overlap ==
    IF \E q \in Procs : Alive(q) /\ proc[q].at # "running" THEN {"overlap"} ELSE {}

\* The number of the next process.
Fresh(p) == proc[p].at = "new" /\ \A q \in 1..(p - 1) : proc[q].at # "new"

\* start, start --foreground and stop of the CLI; cmd_start_foreground and cmd_stop
\* of the library.
Begin(p) ==
    /\ Fresh(p)
    /\ \/ \E back \in BOOLEAN :
             proc' = [proc EXCEPT ![p] = [New EXCEPT !.at = "check", !.cli = TRUE, !.back = back]]
       \/ proc' = [proc EXCEPT ![p].at = "setup"]
       \/ \E cli \in BOOLEAN : proc' = [proc EXCEPT ![p] = [New EXCEPT !.at = "stop", !.cli = cli]]
    /\ lapse' = lapse \cup Overlap
    /\ UNCHANGED <<pidFile, recorded, locked, stateFile, sock, faults>>

\* CLI start: look for a daemon, clear away what a crashed one has left.
Check(p) ==
    /\ proc[p].at = "check"
    /\ IF IsRunning
       THEN At(p, "ended")
       ELSE CleanThen(p, Cleanup, IF proc[p].back THEN "spawn" ELSE "setup")
    /\ UNCHANGED <<pidFile, recorded, locked, stateFile, sock, faults, lapse>>

\* A background start runs the CLI again as a process of its own.
Spawn(p) ==
    \E q \in Procs :
        /\ proc[p].at = "spawn" /\ Fresh(q)
        /\ proc' = [proc EXCEPT ![p] = Ended,
                                ![q] = [New EXCEPT !.at = "check", !.cli = TRUE]]
        /\ UNCHANGED <<pidFile, recorded, locked, stateFile, sock, faults, lapse>>

\* Another process has the PID file open while its name is removed.
InUse(p) == \E q \in Procs \ {p} : Alive(q) /\ pidFile # None /\ proc[q].file = pidFile

Unlink(p) ==
    LET f == Head(proc[p].todo)
        rest == Tail(proc[p].todo)
    IN
    /\ proc[p].at = "cleanup" /\ proc[p].todo # <<>>
    /\ pidFile' = IF f = "pid" THEN None ELSE pidFile
    /\ stateFile' = IF f = "state" THEN None ELSE stateFile
    /\ sock' = IF f = "sock" THEN None ELSE sock
    /\ lapse' = IF f = "pid" /\ InUse(p) THEN lapse \cup {"unlinked"} ELSE lapse
    /\ IF rest # <<>>
       THEN CleanThen(p, rest, proc[p].next) /\ UNCHANGED locked
       ELSE IF proc[p].next = "ended"
       THEN At(p, "ended") /\ Exit(p)
       ELSE At(p, proc[p].next) /\ UNCHANGED locked
    /\ UNCHANGED <<recorded, faults>>

-----------------------------------------------------------------------------
(* setup_daemon *)

\* An error before the sentinel runs: setup_daemon just returns it, and the CLI
\* cleans up whatever the error is.
Refuse(p) ==
    IF proc[p].cli
    THEN CleanThen(p, Cleanup, "ended") /\ UNCHANGED locked
    ELSE At(p, "ended") /\ Exit(p)

\* What such an error leaves in a start that did not come through the CLI: the PID
\* file, which acquire_pid_file has created or taken over.
Kept(p) == IF proc[p].cli THEN {} ELSE {"kept"}

\* sentinel.stop(), with the IPC server removing these files beside it.
Halt(p, todo) ==
    proc' = [proc EXCEPT ![p] = [@ EXCEPT !.at = "halt", !.todo = todo, !.next = "ended"]]

\* The cleanup of setup_daemon, or of a daemon told to stop, then that of the CLI if
\* there was an error.
Retreat(p) ==
    CleanThen(p, proc[p].todo \o Cleanup
                   \o (IF proc[p].cli /\ ~proc[p].stopping THEN Cleanup ELSE <<>>), "ended")

\* The IPC server removes the socket's name when it is told to shut down, and again
\* when it is dropped.
Server == <<"sock", "sock">>

Setup(p) ==
    /\ proc[p].at = "setup"
    /\ IF IsRunning THEN Refuse(p) ELSE At(p, "open") /\ UNCHANGED locked
    /\ UNCHANGED <<pidFile, recorded, stateFile, sock, faults, lapse>>

\* acquire_pid_file: open or create ...
Open(p) ==
    LET f == IF pidFile = None THEN p ELSE pidFile IN
    /\ proc[p].at = "open"
    /\ pidFile' = f
    /\ proc' = [proc EXCEPT ![p].at = "flock", ![p].file = f]
    /\ UNCHANGED <<recorded, locked, stateFile, sock, faults, lapse>>

\* Mutant of Flock: the lock is asked for and its refusal ignored.
FlockIgnored(p) ==
    LET f == proc[p].file IN
    /\ proc[p].at = "flock"
    /\ locked' = [locked EXCEPT ![f] = p]
    /\ recorded' = [recorded EXCEPT ![f] = p]
    /\ At(p, "sentinel")
    /\ UNCHANGED <<pidFile, stateFile, sock, faults, lapse>>

\* Mutant of Flock: the number is written by the caller and before the lock is held.
FlockUnrecorded(p) ==
    LET f == proc[p].file IN
    /\ proc[p].at = "flock"
    /\ IF locked[f] = None
       THEN /\ locked' = [locked EXCEPT ![f] = p]
            /\ At(p, "sentinel")
            /\ UNCHANGED recorded
       ELSE Refuse(p) /\ UNCHANGED recorded
    /\ UNCHANGED <<pidFile, stateFile, sock, faults, lapse>>

\* ... lock, without waiting, and record the number ...
Flock(p) ==
    LET f == proc[p].file IN
    /\ proc[p].at = "flock"
    /\ IF locked[f] = None
       THEN /\ locked' = [locked EXCEPT ![f] = p]
            /\ recorded' = [recorded EXCEPT ![f] = p]
            /\ At(p, "sentinel")
       ELSE Refuse(p) /\ UNCHANGED recorded
    /\ UNCHANGED <<pidFile, stateFile, sock, faults, lapse>>

\* ... or fail to write it, which gives the lock up and returns the error.
AcquireFails(p) ==
    LET f == proc[p].file IN
    /\ proc[p].at = "flock" /\ locked[f] = None /\ faults < MaxFaults
    /\ \E number \in {recorded[f], None, p} : recorded' = [recorded EXCEPT ![f] = number]
    /\ Refuse(p)
    /\ faults' = faults + 1
    /\ lapse' = lapse \cup Kept(p)
    /\ UNCHANGED <<pidFile, stateFile, sock>>

\* Sentinel::new(config)? returns the error.
NewFails(p) ==
    /\ proc[p].at = "sentinel" /\ faults < MaxFaults
    /\ Refuse(p)
    /\ faults' = faults + 1
    /\ lapse' = lapse \cup Kept(p)
    /\ UNCHANGED <<pidFile, recorded, stateFile, sock>>

SentinelStarts(p) ==
    /\ proc[p].at = "sentinel"
    /\ At(p, "bind")
    /\ UNCHANGED <<pidFile, recorded, locked, stateFile, sock, faults, lapse>>

\* sentinel.start() fails: setup_daemon cleans up.
SentinelFails(p) ==
    /\ proc[p].at = "sentinel" /\ faults < MaxFaults
    /\ Retreat(p)
    /\ faults' = faults + 1
    /\ UNCHANGED <<pidFile, recorded, locked, stateFile, sock, lapse>>

\* IpcServer::bind: a name in use is tried, with someone listening the start fails and
\* setup_daemon stops the sentinel.
Bind(p) ==
    /\ proc[p].at = "bind"
    /\ IF sock = None
       THEN sock' = p /\ At(p, "state")
       ELSE UNCHANGED sock /\ (IF Listening(sock) THEN Halt(p, <<>>) ELSE At(p, "probe"))
    /\ UNCHANGED <<pidFile, recorded, locked, stateFile, faults, lapse>>

\* Mutant of Probe: a name in use is never taken over.
ProbeRefuses(p) ==
    /\ proc[p].at = "probe"
    /\ Halt(p, <<>>)
    /\ UNCHANGED <<pidFile, recorded, locked, stateFile, sock, faults, lapse>>

\* The name must still be there, and is tried again ...
Probe(p) ==
    /\ proc[p].at = "probe"
    /\ IF sock = None \/ Listening(sock) THEN Halt(p, <<>>) ELSE At(p, "remove")
    /\ UNCHANGED <<pidFile, recorded, locked, stateFile, sock, faults, lapse>>

\* ... then it is removed, whoever has bound it by now ...
Remove(p) ==
    /\ proc[p].at = "remove"
    /\ IF sock = None THEN Halt(p, <<>>) ELSE At(p, "rebind")
    /\ sock' = None
    /\ UNCHANGED <<pidFile, recorded, locked, stateFile, faults, lapse>>

\* ... and bound.
Rebind(p) ==
    /\ proc[p].at = "rebind"
    /\ IF sock = None THEN sock' = p /\ At(p, "state") ELSE UNCHANGED sock /\ Halt(p, <<>>)
    /\ UNCHANGED <<pidFile, recorded, locked, stateFile, faults, lapse>>

WriteState(p) ==
    /\ proc[p].at = "state"
    /\ stateFile' = p
    /\ At(p, "running")
    /\ UNCHANGED <<pidFile, recorded, locked, sock, faults, lapse>>

\* The IPC server, whose shutdown channel is dropped, ends too.
StateFails(p) ==
    /\ proc[p].at = "state" /\ faults < MaxFaults
    /\ stateFile' \in {stateFile, p}
    /\ Halt(p, Server)
    /\ faults' = faults + 1
    /\ UNCHANGED <<pidFile, recorded, locked, sock, lapse>>

-----------------------------------------------------------------------------
(* Stopping *)

\* SIGTERM of a running daemon: the IPC server is told to shut down, the sentinel to stop.
Term(q) == [proc[q] EXCEPT !.at = "halt", !.stopping = TRUE, !.next = "ended", !.todo = Server]

\* One that is still starting has no handler yet and ends, one that is stopping goes on.
Signal(q, p, next) ==
    /\ proc' = [proc EXCEPT
            ![p].at = next,
            ![q] = CASE proc[q].at = "running" -> Term(q)
                     [] proc[q].stopping -> @
                     [] OTHER -> Ended]
    /\ IF proc[q].at = "running" \/ proc[q].stopping THEN UNCHANGED locked ELSE Exit(q)

Stop(p) ==
    /\ proc[p].at = "stop"
    /\ IF IsRunning
       THEN Signal(recorded[pidFile], p, "wait")
       ELSE /\ UNCHANGED locked
            /\ IF proc[p].cli THEN CleanThen(p, Cleanup, "ended") ELSE At(p, "ended")
    /\ UNCHANGED <<pidFile, recorded, stateFile, sock, faults, lapse>>

ServerStops(p) ==
    /\ proc[p].at = "halt" /\ proc[p].todo # <<>>
    /\ sock' = None
    /\ proc' = [proc EXCEPT ![p].todo = Tail(@)]
    /\ UNCHANGED <<pidFile, recorded, locked, stateFile, faults, lapse>>

\* sentinel.stop() returns, if it does.
SentinelStops(p) ==
    /\ proc[p].at = "halt"
    /\ Retreat(p)
    /\ UNCHANGED <<pidFile, recorded, locked, stateFile, sock, faults, lapse>>

\* Mutant of Wait: there is no limit to the wait.
WaitForever(p) ==
    /\ proc[p].at = "wait"
    /\ ~IsRunning
    /\ CleanThen(p, Cleanup, "ended")
    /\ UNCHANGED <<pidFile, recorded, locked, stateFile, sock, faults, lapse>>

\* After half a second the CLI looks once more; wait_for_stop looks for ten seconds.
Wait(p) ==
    /\ proc[p].at = "wait"
    /\ IF IsRunning THEN At(p, "ended") ELSE CleanThen(p, Cleanup, "ended")
    /\ UNCHANGED <<pidFile, recorded, locked, stateFile, sock, faults, lapse>>

Crash(p) ==
    /\ Alive(p) /\ faults < MaxFaults
    /\ At(p, "ended")
    /\ Exit(p)
    /\ faults' = faults + 1
    /\ lapse' = lapse \cup {"crash"}
    /\ UNCHANGED <<pidFile, recorded, stateFile, sock>>

-----------------------------------------------------------------------------

Step(p) ==
    \/ Check(p) \/ Spawn(p) \/ Unlink(p)
    \/ Setup(p) \/ Open(p) \/ Flock(p) \/ SentinelStarts(p)
    \/ Bind(p) \/ Probe(p) \/ Remove(p) \/ Rebind(p) \/ WriteState(p)
    \/ Stop(p) \/ ServerStops(p) \/ Wait(p)

Fault(p) == AcquireFails(p) \/ NewFails(p) \/ SentinelFails(p) \/ StateFails(p) \/ Crash(p)

Next == \E p \in Procs : Begin(p) \/ Step(p) \/ SentinelStops(p) \/ Fault(p)

Spec == Init /\ [][Next]_vars

\* The operating system schedules every process.  Nothing is said of SentinelStops:
\* sentinel.stop() waits without limit for the locks on sessions and cached_store, and
\* for the bridge threads, and a deadlock of the sentinel can keep those for good.
FairSpec == Spec /\ \A p \in Procs : WF_vars(Step(p))

-----------------------------------------------------------------------------
(* Properties *)

ProcState == [at : Ats, cli : BOOLEAN, back : BOOLEAN, file : Procs \cup {None},
              todo : Seq(Files), next : Ats, stopping : BOOLEAN]

\* The types of the processes and of the three files.
TypeOK ==
    /\ proc \in [Procs -> ProcState]
    /\ pidFile \in Procs \cup {None}
    /\ recorded \in [Procs -> Procs \cup {None}]
    /\ locked \in [Procs -> Procs \cup {None}]
    /\ stateFile \in Procs \cup {None} /\ sock \in Procs \cup {None}
    /\ faults \in Nat
    /\ lapse \in SUBSET {"overlap", "unlinked", "crash", "kept"}

\* Whatever commands overlap and whatever crashes, two daemons run at a time only
\* after a process removed the PID file while another had it open.
OneDaemonUnlessUnlinked ==
    "unlinked" \notin lapse => \A p, q \in Procs : IsDaemon(p) /\ IsDaemon(q) => p = q

\* If commands were given one after the other, status and stop find the daemon that
\* runs, and its socket and state file are there, whatever crashed before.
DaemonIsFound ==
    "overlap" \notin lapse =>
        \A p \in Procs : proc[p].at = "running" =>
            /\ pidFile # None /\ recorded[pidFile] = p /\ locked[pidFile] = p
            /\ sock = p
            /\ stateFile = p

\* ... and what the last one leaves behind is nothing, unless a process crashed or a
\* start outside the CLI failed between creating the PID file and starting the sentinel.
NothingIsLeft ==
    (lapse = {} /\ \A p \in Procs : ~Alive(p)) => pidFile = None /\ sock = None /\ stateFile = None

\* ... and a start fails only if there is a daemon already or the sentinel does not
\* start: what a crash has left behind, PID file, lock or socket, is in nobody's way.
LeftoversBlockNobody ==
    [][\A p \in Procs :
          (/\ "overlap" \notin lapse /\ faults' = faults
           /\ proc[p].at \in StartSteps \ {"check", "spawn"}
           /\ proc'[p].at \in {"cleanup", "halt", "ended"})
              => \E q \in Procs \ {p} : IsDaemon(q)]_vars

\* Every command that is given ends, however they get in each other's way and though
\* the daemon one waits for may never leave sentinel.stop(); a daemon that has left it
\* ends too.  (A background start at the bound on processes cannot go on.)
CommandsEnd ==
    <>[](\A p \in Procs : Alive(p) => proc[p].at \in {"running", "spawn", "halt"})

\* acquire_pid_file: the lock on the PID file keeps daemons apart.
AtMostOneDaemon == \A p, q \in Procs : IsDaemon(p) /\ IsDaemon(q) => p = q
=============================================================================
