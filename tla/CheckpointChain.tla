-------------------------- MODULE CheckpointChain --------------------------
(***************************************************************************)
(* The checkpoint chain of one document: commits on copies in memory, the  *)
(* chain file with its MAC sidecar, and the verifier.                      *)
(*                                                                         *)
(* Code: crates/cpoe/src/checkpoint/chain.rs, chain_verification.rs and    *)
(* mmr.rs; handle_create_checkpoint in sentinel/ipc_handler.rs; ChainSigner *)
(* in keyhierarchy/manager.rs.                                             *)
(*                                                                         *)
(* The chain has two kinds of users.  A request of the daemon loads the    *)
(* chain, commits once and saves with a MAC; requests run on threads of    *)
(* their own.  A user of the library holds a chain for as long as it       *)
(* likes.  The lock on the document is held during a commit only, neither  *)
(* while the chain is loaded nor while it is saved.                        *)
(*                                                                         *)
(* A hash is the number of its commit, and stands for the output of the    *)
(* commit's VDF as well.  The document's content enters the hash, the      *)
(* genesis value and the VDF input of its own checkpoint only, so it is    *)
(* left out.  A Merkle root is the number of leaves under it.  A crash     *)
(* ends a process and loses no rename.                                     *)
(***************************************************************************)
EXTENDS Integers, Sequences, FiniteSets

CONSTANTS Requests,        \* create-checkpoint requests the daemon runs at a time
          Users,           \* users of the library
          Times,           \* seconds since the epoch the clock may show; it may be set at will
          MaxClockDrift,   \* MAX_CLOCK_DRIFT_SECS (2)
          VdfMinInterval,  \* VDF_MIN_INTERVAL_SECS (30)
          MaxCommits,      \* bound on commits
          MaxFaults        \* bound on crashes and failed renames

ASSUME ChainAssumption ==
    /\ Requests \cap Users = {}
    /\ Times \subseteq Nat
    /\ MaxClockDrift \in Nat /\ VdfMinInterval \in Nat
    /\ MaxCommits \in Nat /\ MaxFaults \in Nat

Holders == Requests \cup Users

VARIABLES file,     \* the chain file, NoChain when it does not exist
          mac,      \* the chain whose bytes the sidecar covers, NoChain when there is none
          lock,     \* the holders of the lock on the document, at most one
          mmr,      \* the number of leaves of the chain's MMR
          commits,  \* the number of hashes made so far
          hold,     \* what each user of the chain is doing
          kept,     \* history: the checkpoints some caller was told are saved
          faults,   \* crashes and failed renames so far
          lapse     \* history: events after which the chain keeps less of its promise

vars == <<file, mac, lock, mmr, commits, hold, kept, faults, lapse>>

-----------------------------------------------------------------------------
(* Values *)

Modes == {"Legacy", "Entangled"}
Policies == {"Required", "Optional"}

\* The VDF input was made from the checkpoint (chain_input) or from the VDF
\* output of checkpoint "from" and jitter (chain_input_entangled).
Checkpoint == [id : Nat, prev : Nat, ordinal : Nat, time : Int,
               vdf : {"none", "chain", "entangled"}, from : Nat,
               jitter : BOOLEAN, signed : BOOLEAN, root : Int, proof : Int]

None == -1     \* no mmr_root or no mmr_inclusion_proof
Genesis == 0   \* genesis_prev_hash, and the zeros before the first VDF output

Chain == [mode : Modes, policy : Policies, cps : Seq(Checkpoint)]
NoChain == [mode |-> "none", policy |-> "none", cps |-> <<>>]

NewChain(mode, policy) == [mode |-> mode, policy |-> policy, cps |-> <<>>]

Last(c) == c.cps[Len(c.cps)]
LastHash(c) == IF c.cps = <<>> THEN Genesis ELSE Last(c).id
Hashes(c) == [i \in DOMAIN c.cps |-> c.cps[i].id]
HashSet(c) == {c.cps[i].id : i \in DOMAIN c.cps}

\* The last steps of a commit and of a signature on the copy in memory.
Push(c, cp) == [c EXCEPT !.cps = Append(c.cps, cp)]
SignLast(c) == [c EXCEPT !.cps = [c.cps EXCEPT ![Len(c.cps)] = [Last(c) EXCEPT !.signed = TRUE]]]

Steps == {"idle", "loading", "open", "committing", "committed", "renamed"}

\* "anchored": an MMR is attached.  "seen": the MAC a loading holder has read.
\* "cp": the checkpoint under construction while the lock is held.
NoCp == [id |-> 0, prev |-> Genesis, ordinal |-> 0, time |-> 0, vdf |-> "none",
         from |-> Genesis, jitter |-> FALSE, signed |-> FALSE,
         root |-> None, proof |-> None]

Idle == [at |-> "idle", chain |-> NoChain, anchored |-> FALSE, seen |-> NoChain, cp |-> NoCp]

\* A user whose copy of the chain may still be saved.
Holding(h) == hold[h].at \in {"open", "committing", "committed", "renamed"}

-----------------------------------------------------------------------------
(* Verification: verify_detailed, in its order *)

TimestampVerifies(c, i) ==
    i > 1 => c.cps[i].time >= c.cps[i - 1].time - 1

OrdinalVerifies(c, i) == c.cps[i].ordinal = i - 1

LinkVerifies(c, i) ==
    c.cps[i].prev = IF i = 1 THEN Genesis ELSE c.cps[i - 1].id

SignatureVerifies(c, i) ==
    c.policy = "Required" => c.cps[i].signed

VdfVerifies(c, i) ==
    CASE c.mode = "Legacy" ->
            \/ c.cps[i].vdf = "none" /\ i = 1
            \/ c.cps[i].vdf = "chain"
      [] c.mode = "Entangled" ->
            /\ c.cps[i].vdf = "entangled"
            /\ c.cps[i].jitter
            /\ c.cps[i].from = IF i = 1 THEN Genesis ELSE c.cps[i - 1].id
            /\ i > 1 => c.cps[i - 1].vdf # "none"
      [] OTHER -> FALSE

\* The root of the inclusion proof is the next checkpoint's mmr_root.
AnchorVerifies(c, i) ==
    (c.cps[i].proof # None /\ i < Len(c.cps) /\ c.cps[i + 1].root # None)
        => c.cps[i].proof = c.cps[i + 1].root

VerifyHashChain(c) ==
    /\ c.cps # <<>>
    /\ \A i \in DOMAIN c.cps : LinkVerifies(c, i)

Verify(c) ==
    /\ c.cps # <<>>
    /\ \A i \in DOMAIN c.cps :
          /\ TimestampVerifies(c, i)
          /\ OrdinalVerifies(c, i)
          /\ LinkVerifies(c, i)
          /\ SignatureVerifies(c, i)
          /\ VdfVerifies(c, i)
          /\ AnchorVerifies(c, i)

-----------------------------------------------------------------------------

Init ==
    /\ file = NoChain /\ mac = NoChain
    /\ lock = {}
    /\ mmr = 0 /\ commits = 0
    /\ hold = [h \in Holders |-> Idle]
    /\ kept = {}
    /\ faults = 0
    /\ lapse = {}

\* A copy is taken while another user still works on one: two users collide.
Overlap(h) == IF \E g \in Holders \ {h} : Holding(g) THEN {"overlap"} ELSE {}

Take(h, c) ==
    /\ hold' = [hold EXCEPT ![h] = [Idle EXCEPT !.at = "open", !.chain = c]]
    /\ lapse' = lapse \cup Overlap(h)

-----------------------------------------------------------------------------
(* Opening the chain *)

\* handle_create_checkpoint finds no chain file and makes a new chain.
RequestNew(h) ==
    /\ hold[h].at = "idle" /\ file = NoChain
    /\ Take(h, NewChain("Legacy", "Required"))
    /\ UNCHANGED <<file, mac, lock, mmr, commits, kept, faults>>

\* load_with_mac reads the sidecar first.
ReadMac(h) ==
    /\ hold[h].at = "idle" /\ file # NoChain
    /\ hold' = [hold EXCEPT ![h].at = "loading", ![h].seen = mac]
    /\ UNCHANGED <<file, mac, lock, mmr, commits, kept, faults, lapse>>

\* What load_with_mac accepts when the sidecar it has read covers "seen".
Accepts(seen) ==
    IF seen = NoChain THEN file.cps = <<>> \/ Verify(file) ELSE seen = file

\* Then it reads the chain file.
ReadChain(h) ==
    /\ hold[h].at = "loading"
    /\ Accepts(hold[h].seen)
    /\ Take(h, file)
    /\ UNCHANGED <<file, mac, lock, mmr, commits, kept, faults>>

\* Mutant of ReadChainRefused: a chain that cannot be loaded is started again.
ReadChainRestarts(h) ==
    /\ hold[h].at = "loading"
    /\ ~Accepts(hold[h].seen)
    /\ Take(h, NewChain("Legacy", "Required"))
    /\ UNCHANGED <<file, mac, lock, mmr, commits, kept, faults>>

ReadChainRefused(h) ==
    /\ hold[h].at = "loading"
    /\ ~Accepts(hold[h].seen)
    /\ hold' = [hold EXCEPT ![h] = Idle]
    /\ UNCHANGED <<file, mac, lock, mmr, commits, kept, faults, lapse>>

\* get_or_create_chain loads without looking at the sidecar.
UserLoad(h) ==
    /\ h \in Users /\ hold[h].at = "idle" /\ file # NoChain
    /\ Take(h, file)
    /\ UNCHANGED <<file, mac, lock, mmr, commits, kept, faults>>

UserNew(h) ==
    /\ h \in Users /\ hold[h].at = "idle" /\ file = NoChain
    /\ \E mode \in Modes, policy \in Policies : Take(h, NewChain(mode, policy))
    /\ UNCHANGED <<file, mac, lock, mmr, commits, kept, faults>>

\* with_mmr; a chain's MMR has one handle at a time.
WithMmr(h) ==
    /\ h \in Users /\ hold[h].at = "open"
    /\ \A g \in Users : ~hold[g].anchored
    /\ hold' = [hold EXCEPT ![h].anchored = TRUE]
    /\ UNCHANGED <<file, mac, lock, mmr, commits, kept, faults, lapse>>

-----------------------------------------------------------------------------
(* Committing: under the document's lock, on the copy in memory *)

\* Mutant of NewBase: the ordinal counts commits instead of checkpoints.
NewBaseCounts(c, t) ==
    [id |-> 0, prev |-> LastHash(c), ordinal |-> commits, time |-> t, vdf |-> "none",
     from |-> Genesis, jitter |-> FALSE, signed |-> FALSE, root |-> None, proof |-> None]

\* Checkpoint::new_base
NewBase(c, t) ==
    [id |-> 0, prev |-> LastHash(c), ordinal |-> Len(c.cps), time |-> t, vdf |-> "none",
     from |-> Genesis, jitter |-> FALSE, signed |-> FALSE, root |-> None, proof |-> None]

\* acquire_lock, then the document is hashed and the VDF computed.
CommitBegin(h, cp) ==
    /\ hold[h].at = "open" /\ lock = {} /\ commits < MaxCommits
    /\ lock' = {h}
    /\ hold' = [hold EXCEPT ![h].at = "committing", ![h].cp = cp]
    /\ UNCHANGED <<file, mac, mmr, commits, kept, faults, lapse>>

\* commit: a clock set back by more than the drift is refused.  The mode of the
\* chain is not looked at, the request of the daemon asks for it before.
Commit(h) ==
    LET c == hold[h].chain IN
    \E t \in Times :
        /\ h \in Requests => c.mode # "Entangled"
        /\ c.cps # <<>> => t >= Last(c).time - MaxClockDrift
        /\ CommitBegin(h, [NewBase(c, t) EXCEPT !.vdf = "chain"])

\* commit_with_vdf_duration: no VDF of zero length for a long interval.
CommitWithVdfDuration(h) ==
    LET c == hold[h].chain IN
    \E t \in Times, zero \in BOOLEAN :
        /\ h \in Users
        /\ (zero /\ c.cps # <<>>) => t - Last(c).time < VdfMinInterval
        /\ CommitBegin(h, [NewBase(c, t) EXCEPT !.vdf = "chain"])

CommitEntangled(h) ==
    LET c == hold[h].chain IN
    \E t \in Times :
        /\ c.mode = "Entangled"
        /\ c.cps # <<>> => Last(c).vdf # "none"
        /\ CommitBegin(h, [NewBase(c, t) EXCEPT !.vdf = "entangled", !.from = LastHash(c),
                                               !.jitter = TRUE])

RfcCheckpoint(c, t, jitter) ==
    IF c.mode = "Entangled"
    THEN [NewBase(c, t) EXCEPT
             !.vdf = "entangled", !.jitter = jitter,
             !.from = IF c.cps # <<>> /\ Last(c).vdf # "none" THEN Last(c).id ELSE Genesis]
    ELSE [NewBase(c, t) EXCEPT
             !.vdf = IF c.cps = <<>> THEN "none" ELSE "chain", !.jitter = jitter]

CommitRfc(h) ==
    \E t \in Times, jitter \in BOOLEAN :
        /\ h \in Users
        /\ hold[h].chain.mode = "Entangled" => jitter
        /\ CommitBegin(h, RfcCheckpoint(hold[h].chain, t, jitter))

\* Mutant of Finalize: the root is taken after the append.
FinalizeLate(cp, anchored) ==
    LET hashed == [cp EXCEPT !.id = commits + 1] IN
    IF anchored THEN [hashed EXCEPT !.root = mmr + 1, !.proof = mmr + 1] ELSE hashed

\* finalize_checkpoint: the root before the append enters the hash, the proof is
\* for the tree after it.
Finalize(cp, anchored) ==
    LET hashed == [cp EXCEPT !.id = commits + 1] IN
    IF anchored THEN [hashed EXCEPT !.root = mmr, !.proof = mmr + 1] ELSE hashed

\* What the verifier will hold against the checkpoint just committed.
Doubts(c, cp) ==
    {d \in {"clock", "mode"} :
        \/ d = "clock" /\ c.cps # <<>> /\ cp.time < Last(c).time - 1
        \/ d = "mode" /\ c.mode = "Entangled" /\ cp.vdf # "entangled"}

\* commit_finish, and the lock is released.
CommitFinish(h) ==
    LET c == hold[h].chain
        cp == Finalize(hold[h].cp, hold[h].anchored)
    IN
    /\ hold[h].at = "committing"
    /\ hold' = [hold EXCEPT ![h] = [hold[h] EXCEPT
                    !.at = IF h \in Requests THEN "committed" ELSE "open",
                    !.chain = Push(c, cp), !.cp = NoCp]]
    /\ commits' = commits + 1
    /\ mmr' = IF hold[h].anchored THEN mmr + 1 ELSE mmr
    /\ lock' = {}
    /\ lapse' = lapse \cup Doubts(c, cp)
    /\ UNCHANGED <<file, mac, kept, faults>>

\* The request ends with an error; a user of the library keeps its copy.
GiveUp(h) == IF h \in Requests THEN Idle ELSE [hold[h] EXCEPT !.at = "open", !.cp = NoCp]

\* The integrity check or the VDF fails, or the MMR does: then the leaf may have
\* been appended.
CommitFails(h) ==
    /\ hold[h].at = "committing" /\ faults < MaxFaults
    /\ hold' = [hold EXCEPT ![h] = GiveUp(h)]
    /\ lock' = {}
    /\ \/ UNCHANGED <<mmr, lapse>>
       \/ /\ hold[h].anchored
          /\ mmr' = mmr + 1
          /\ lapse' = lapse \cup {"orphan"}
    /\ faults' = faults + 1
    /\ UNCHANGED <<file, mac, commits, kept>>

\* A request cannot commit: the document is locked or gone, or the clock was set
\* back.
CommitRefused(h) ==
    /\ h \in Requests /\ hold[h].at = "open"
    /\ hold' = [hold EXCEPT ![h] = Idle]
    /\ UNCHANGED <<file, mac, lock, mmr, commits, kept, faults, lapse>>

\* SessionManager::sign_checkpoint on the last checkpoint.
SignLastCheckpoint(h) ==
    LET c == hold[h].chain IN
    /\ h \in Users /\ hold[h].at = "open" /\ c.cps # <<>>
    /\ ~Last(c).signed
    /\ hold' = [hold EXCEPT ![h].chain = SignLast(c)]
    /\ UNCHANGED <<file, mac, lock, mmr, commits, kept, faults, lapse>>

-----------------------------------------------------------------------------
(* Saving *)

\* save: the sidecar is left as it is.
Save(h) ==
    /\ h \in Users /\ hold[h].at = "open"
    /\ file' = hold[h].chain
    /\ kept' = kept \cup HashSet(hold[h].chain)
    /\ lapse' = IF mac \in {NoChain, file'} THEN lapse ELSE lapse \cup {"unsealed"}
    /\ UNCHANGED <<mac, lock, mmr, commits, hold, faults>>

\* save_with_mac: both temporary files are written, the chain is renamed ...
RenameChain(h) ==
    /\ hold[h].at = IF h \in Requests THEN "committed" ELSE "open"
    /\ file' = hold[h].chain
    /\ hold' = [hold EXCEPT ![h].at = "renamed"]
    /\ UNCHANGED <<mac, lock, mmr, commits, kept, faults, lapse>>

\* A request reports the hash of its checkpoint, a user's save all of the chain.
Reported(h) ==
    IF h \in Requests THEN {Last(hold[h].chain).id} ELSE HashSet(hold[h].chain)

\* Mutant of RenameMac: a sidecar is written only where there is none.
RenameMacOnce(h) ==
    /\ hold[h].at = "renamed"
    /\ mac' = IF mac = NoChain THEN hold[h].chain ELSE mac
    /\ hold' = [hold EXCEPT ![h] = GiveUp(h)]
    /\ kept' = kept \cup Reported(h)
    /\ lapse' = IF mac' = file THEN lapse \ {"torn", "unsealed"} ELSE lapse
    /\ UNCHANGED <<file, lock, mmr, commits, faults>>

\* ... then the sidecar.
RenameMac(h) ==
    /\ hold[h].at = "renamed"
    /\ mac' = hold[h].chain
    /\ hold' = [hold EXCEPT ![h] = GiveUp(h)]
    /\ kept' = kept \cup Reported(h)
    /\ lapse' = IF mac' = file THEN lapse \ {"torn", "unsealed"} ELSE lapse
    /\ UNCHANGED <<file, lock, mmr, commits, faults>>

\* The first rename fails, or anything before it: the file is as before.
RenameChainFails(h) ==
    /\ h \in Requests /\ hold[h].at = "committed" /\ faults < MaxFaults
    /\ hold' = [hold EXCEPT ![h] = Idle]
    /\ faults' = faults + 1
    /\ UNCHANGED <<file, mac, lock, mmr, commits, kept, lapse>>

RenameMacFails(h) ==
    /\ hold[h].at = "renamed" /\ faults < MaxFaults
    /\ hold' = [hold EXCEPT ![h] = GiveUp(h)]
    /\ faults' = faults + 1
    /\ lapse' = lapse \cup {"torn"}
    /\ UNCHANGED <<file, mac, lock, mmr, commits, kept>>

-----------------------------------------------------------------------------
(* Ends *)

\* A leaf of the MMR is left whose checkpoint is not on file.
Orphans(h) ==
    \E i \in DOMAIN hold[h].chain.cps :
        /\ hold[h].chain.cps[i].proof # None
        /\ hold[h].chain.cps[i].id \notin HashSet(file)

\* A user of the library drops its chain.
Close(h) ==
    /\ h \in Users /\ hold[h].at = "open"
    /\ hold' = [hold EXCEPT ![h] = Idle]
    /\ lapse' = IF Orphans(h) THEN lapse \cup {"orphan"} ELSE lapse
    /\ UNCHANGED <<file, mac, lock, mmr, commits, kept, faults>>

\* The daemon runs all requests, each user of the library is a process.
Processes == {Requests} \cup {{u} : u \in Users}

Crash(p) ==
    /\ faults < MaxFaults
    /\ \E h \in p : hold[h].at # "idle"
    /\ hold' = [h \in Holders |-> IF h \in p THEN Idle ELSE hold[h]]
    /\ lock' = lock \ p
    /\ faults' = faults + 1
    /\ lapse' = lapse
           \cup (IF \E h \in p : hold[h].at = "renamed" THEN {"torn"} ELSE {})
           \cup (IF \E h \in p : Orphans(h) THEN {"orphan"} ELSE {})
    /\ UNCHANGED <<file, mac, mmr, commits, kept>>

-----------------------------------------------------------------------------

Step(h) ==
    \/ h \in Requests /\ RequestNew(h)
    \/ ReadMac(h) \/ ReadChain(h) \/ ReadChainRefused(h)
    \/ UserLoad(h) \/ UserNew(h) \/ WithMmr(h)
    \/ Commit(h) \/ CommitWithVdfDuration(h) \/ CommitEntangled(h) \/ CommitRfc(h)
    \/ CommitFinish(h) \/ CommitFails(h) \/ CommitRefused(h) \/ SignLastCheckpoint(h)
    \/ Save(h) \/ RenameChain(h) \/ RenameMac(h) \/ RenameChainFails(h) \/ RenameMacFails(h)
    \/ Close(h)

Next == (\E h \in Holders : Step(h)) \/ (\E p \in Processes : Crash(p))

Spec == Init /\ [][Next]_vars

-----------------------------------------------------------------------------
(* Properties *)

Lapses == {"overlap", "torn", "unsealed", "orphan", "clock", "mode"}

HoldState == [at : Steps, chain : Chain \cup {NoChain}, anchored : BOOLEAN,
              seen : Chain \cup {NoChain}, cp : Checkpoint]

TypeOK ==
    /\ file \in Chain \cup {NoChain}
    /\ mac \in Chain \cup {NoChain}
    /\ lock \in SUBSET Holders
    /\ mmr \in Nat /\ commits \in Nat /\ faults \in Nat
    /\ hold \in [Holders -> HoldState]
    /\ kept \in SUBSET Nat
    /\ lapse \in SUBSET Lapses

\* The chain as a log: append-only and complete, until two users collide.
Log == INSTANCE ChainLog WITH
           log <- Hashes(file),
           kept <- kept,
           exclusive <- "overlap" \notin lapse

\* save, save_with_mac, crashes and failed renames only ever extend the file by
\* whole commits, and a checkpoint reported as saved is in the file from then on,
\* for as long as no user loads the chain while another works on a copy.
ImplementsLog == Log!Spec

\* However users collide, fail and crash, the hashes of the file form one chain
\* that verify_hash_chain accepts, and their ordinals count up from zero.
FileIsLinked ==
    file.cps # <<>> =>
        /\ VerifyHashChain(file)
        /\ \A i \in DOMAIN file.cps : OrdinalVerifies(file, i)

\* A chain made without a collision, an abandoned MMR leaf, a clock set back by
\* two seconds or more and a commit of the wrong kind for its mode passes
\* verify_detailed once it has the signatures its policy asks for.
FileVerifies ==
    (/\ lapse \cap {"overlap", "orphan", "clock", "mode"} = {}
     /\ file.cps # <<>>
     /\ \A i \in DOMAIN file.cps : SignatureVerifies(file, i))
        => Verify(file)

\* Between saves the sidecar covers the chain file, so that load_with_mac accepts
\* what save_with_mac wrote, unless users collided, a save with MAC was torn, or a
\* save without MAC came after one with.
MacCoversFile ==
    (/\ lapse \cap {"overlap", "torn", "unsealed"} = {}
     /\ \A h \in Holders : hold[h].at # "renamed"
     /\ mac # NoChain)
        => mac = file
=============================================================================
