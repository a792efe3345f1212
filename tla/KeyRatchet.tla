----------------------------- MODULE KeyRatchet -----------------------------
(***************************************************************************)
(* The checkpoint signing ratchet of the key hierarchy: a session, the     *)
(* one-time keys it derives, the recovery states exported from it and the  *)
(* sessions recovered from them.                                           *)
(*                                                                         *)
(* Code: crates/cpoe/src/keyhierarchy/session.rs, recovery.rs and          *)
(* verification.rs, with the counter of crates/cpoe/src/tpm/software.rs.   *)
(*                                                                         *)
(* A ratchet key is a chain of HKDF calls, so two keys are equal exactly   *)
(* when they were derived from the same seed by the same inputs: a key is  *)
(* the record [base, steps] of its seed and its inputs.  A seed is the     *)
(* session it was drawn for and, for a continuation, the last checkpoint   *)
(* hash.  The signing key and the Lamport key are functions of the ratchet *)
(* key, and the AEAD blob of a recovery state is what it contains: only    *)
(* this program, on this device, writes one.                               *)
(***************************************************************************)
EXTENDS Integers, Sequences, FiniteSets

CONSTANTS Hashes,           \* checkpoint hashes; a checkpoint hash never recurs
          HardwareCounter,  \* FALSE: the software provider, whose counter is in memory
          MaxSessions,      \* bound on the sessions started
          MaxOrdinal,       \* bound on a session's ordinal
          MaxCounter,       \* bound on the monotonic counter
          MaxExports        \* bound on the recovery states kept

\* The last_hash of a continuation that follows no signature: 32 zero bytes.
ZeroHash == "zero"

ASSUME RatchetAssumption ==
    /\ ZeroHash \notin Hashes
    /\ HardwareCounter \in BOOLEAN
    /\ MaxSessions \in Nat /\ MaxOrdinal \in Nat
    /\ MaxCounter \in Nat /\ MaxExports \in Nat

VARIABLES session,   \* the live Session, or NoSession
          exports,   \* the recovery states the callers keep
          counter,   \* the provider's monotonic counter
          started,   \* how many sessions were started: the next session_id
          expired,   \* the sessions whose certificate is past expires_at
          used,      \* history: each use of a one-time key
          lapse      \* history: what happened outside the normal life of a session

vars == <<session, exports, counter, started, expired, used, lapse>>

-----------------------------------------------------------------------------
(* Values *)

NoSession == [live |-> FALSE]

\* Option<u64>: a counter that was not read.
NoCounter == -1
Counters == Nat \cup {NoCounter}

Lapses == {"stale", "metadata", "counter_reset"}

Sids == Nat \ {0}

\* The two seeds: "init" from the session key, "continuation" from the last hash.
Bases == [sid : Sids, kind : {"init", "continuation"}, last : Hashes \cup {ZeroHash}]

\* What an HKDF advance mixes in: a checkpoint hash with the counter delta, or
\* the payload of the chain metadata.
Steps == [kind : {"checkpoint"}, hash : Hashes, delta : Counters] \cup
         [kind : {"metadata"}, count : Nat]

Ratchets == [base : Bases, steps : Seq(Steps)]

Signatures == [ordinal : Nat, key : Ratchets, hash : Hashes,
               counter_value : Counters, counter_delta : Counters]

Certificates == [sid : Sids, start_counter : Counters, end_counter : Counters]

Sessions == [live : {TRUE}, cert : Certificates, ratchet : Ratchets, ordinal : Nat,
             wiped : BOOLEAN, signatures : Seq(Signatures), export_count : Nat]

\* blob = FALSE: last_ratchet_state is empty, and ratchet, ordinal and aad mean
\* nothing.
RecoveryStates == [cert : Certificates, signatures : Seq(Signatures), blob : BOOLEAN,
                   ratchet : Ratchets, ordinal : Nat, aad : Nat, export_count : Nat]

Uses == [sid : Sids, key : Ratchets, ordinal : Nat, hash : Hashes]

InitBase(sid) == [sid |-> sid, kind |-> "init", last |-> ZeroHash]

Fresh(base) == [base |-> base, steps |-> <<>>]

\* hkdf_expand(ratchet, RATCHET_ADVANCE_DOMAIN, input)
Advance(r, input) == [r EXCEPT !.steps = Append(@, input)]

\* Mutant of NextOrdinal: the position of the last signature instead of the
\* ordinal after it.
NextOrdinalNoIncrement(sigs) == Len(sigs) - 1

\* The ordinal that follows a list of signatures.
NextOrdinal(sigs) == IF sigs = <<>> THEN 0 ELSE sigs[Len(sigs)].ordinal + 1

\* A recovery state is stale when its session has since signed at its ordinal
\* or beyond it.
Stale(x) ==
    \E u \in used : u.sid = x.cert.sid /\ u.ordinal >= NextOrdinal(x.signatures)

-----------------------------------------------------------------------------
(* Verification: verification.rs *)

\* verify_checkpoint_signatures: ordinals count from 0; a counter is never below
\* an earlier one; next to a counter, the delta is the difference.
VerifyCheckpointSignatures(sigs) ==
    /\ \A i \in DOMAIN sigs : sigs[i].ordinal = i - 1
    /\ \A i, j \in DOMAIN sigs :
          (i < j /\ sigs[i].counter_value # NoCounter /\ sigs[j].counter_value # NoCounter)
             => sigs[i].counter_value <= sigs[j].counter_value
    /\ \A i \in DOMAIN sigs :
          ( /\ i > 1
            /\ sigs[i - 1].counter_value # NoCounter
            /\ sigs[i].counter_value # NoCounter
            /\ sigs[i].counter_delta # NoCounter )
             => sigs[i].counter_delta = sigs[i].counter_value - sigs[i - 1].counter_value

\* verify_session_binding: the closing counter is not below the opening one.
VerifySessionBinding(cert) ==
    (cert.start_counter # NoCounter /\ cert.end_counter # NoCounter)
       => cert.start_counter <= cert.end_counter

\* recover_ratchet_v2_aead's checks on a decrypted blob.
Recoverable(x) ==
    /\ x.aad = Len(x.signatures)
    /\ x.ordinal = NextOrdinal(x.signatures)

-----------------------------------------------------------------------------
(* Actions *)

Init ==
    /\ session = NoSession
    /\ exports = {}
    /\ counter = 0
    /\ started = 0
    /\ expired = {}
    /\ used = {}
    /\ lapse = {}

\* start_session_inner: a random session_id, a ratchet seeded from it.
StartSession ==
    /\ ~session.live
    /\ started < MaxSessions
    /\ started' = started + 1
    /\ session' = [live |-> TRUE,
                   cert |-> [sid |-> started + 1,
                             start_counter |-> NoCounter, end_counter |-> NoCounter],
                   ratchet |-> Fresh(InitBase(started + 1)),
                   ordinal |-> 0, wiped |-> FALSE,
                   signatures |-> <<>>, export_count |-> 0]
    /\ UNCHANGED <<exports, counter, expired, used, lapse>>

\* Mutant of Sign: the ratchet stays where it is.
SignNoAdvance(h, value, delta) ==
    LET sig == [ordinal |-> session.ordinal, key |-> session.ratchet, hash |-> h,
                counter_value |-> value, counter_delta |-> delta]
    IN  /\ session' = [session EXCEPT !.ordinal = @ + 1, !.signatures = Append(@, sig)]
        /\ used' = used \cup {[sid |-> session.cert.sid, key |-> session.ratchet,
                               ordinal |-> session.ordinal, hash |-> h]}

\* The shared body of the two signing calls.  The key signs before the ratchet
\* advances over the hash and the delta.
Sign(h, value, delta) ==
    LET sig == [ordinal |-> session.ordinal, key |-> session.ratchet, hash |-> h,
                counter_value |-> value, counter_delta |-> delta]
    IN  /\ session' = [session EXCEPT
              !.ratchet = Advance(@, [kind |-> "checkpoint", hash |-> h, delta |-> delta]),
              !.ordinal = @ + 1,
              !.signatures = Append(@, sig)]
        /\ used' = used \cup {[sid |-> session.cert.sid, key |-> session.ratchet,
                               ordinal |-> session.ordinal, hash |-> h]}

\* A session that may sign, and a hash no checkpoint has had before.
MaySign(h) ==
    /\ session.live
    /\ ~session.wiped
    /\ session.ordinal < MaxOrdinal
    /\ \A u \in used : u.hash # h

\* sign_checkpoint; also sign_checkpoint_with_counter when the provider's bind
\* fails and it falls back to software.
SignCheckpoint(h) ==
    /\ MaySign(h)
    /\ Sign(h, NoCounter, NoCounter)
    /\ UNCHANGED <<exports, counter, started, expired, lapse>>

\* Mutant of CounterDelta: the counter itself instead of the difference.
CounterDeltaAbsolute(sigs, current) == current

\* counter_delta: against the immediately preceding signature, 0 when it has no
\* counter, saturating at 0.
CounterDelta(sigs, current) ==
    IF sigs = <<>> \/ sigs[Len(sigs)].counter_value = NoCounter THEN 0
    ELSE IF current < sigs[Len(sigs)].counter_value THEN 0
    ELSE current - sigs[Len(sigs)].counter_value

\* sign_checkpoint_with_counter: bind increments the counter and returns it.
SignCheckpointWithCounter(h) ==
    /\ MaySign(h)
    /\ counter < MaxCounter
    /\ counter' = counter + 1
    /\ Sign(h, counter + 1, CounterDelta(session.signatures, counter + 1))
    /\ UNCHANGED <<exports, started, expired, lapse>>

\* sign_chain_metadata: signs under a key of its own domain, advances the ratchet
\* and the ordinal, and adds nothing to the signatures.
SignChainMetadata ==
    /\ session.live
    /\ ~session.wiped
    /\ session.ordinal < MaxOrdinal
    /\ session' = [session EXCEPT
          !.ratchet = Advance(@, [kind |-> "metadata", count |-> Len(session.signatures)]),
          !.ordinal = @ + 1]
    /\ lapse' = lapse \cup {"metadata"}
    /\ UNCHANGED <<exports, counter, started, expired, used>>

\* bind_start_quote; when bind fails nothing changes.  Callers bind the start of a
\* session before its end.
BindStartQuote ==
    /\ session.live
    /\ session.cert.end_counter = NoCounter
    /\ counter < MaxCounter
    /\ counter' = counter + 1
    /\ session' = [session EXCEPT !.cert.start_counter = counter + 1]
    /\ UNCHANGED <<exports, started, expired, used, lapse>>

\* end; also end_with_provider when bind fails.
End ==
    /\ session.live
    /\ session' = [session EXCEPT !.wiped = TRUE]
    /\ UNCHANGED <<exports, counter, started, expired, used, lapse>>

\* end_with_provider: it may be called again on a wiped session.
EndWithProvider ==
    /\ session.live
    /\ counter < MaxCounter
    /\ counter' = counter + 1
    /\ session' = [session EXCEPT !.cert.end_counter = counter + 1, !.wiped = TRUE]
    /\ UNCHANGED <<exports, started, expired, used, lapse>>

\* The SessionRecoveryState: the blob holds the ratchet, the ordinal and the
\* count, and authenticates the number of signatures.
SealedState(s) ==
    [cert |-> s.cert, signatures |-> s.signatures, blob |-> TRUE, ratchet |-> s.ratchet,
     ordinal |-> s.ordinal, aad |-> Len(s.signatures), export_count |-> s.export_count]

\* export_recovery_state: counts the export and seals the state.
ExportRecoveryState ==
    /\ session.live
    /\ ~session.wiped
    /\ Cardinality(exports) < MaxExports
    /\ session' = [session EXCEPT !.export_count = @ + 1]
    /\ exports' = exports \cup {SealedState(session')}
    /\ UNCHANGED <<counter, started, expired, used, lapse>>

\* The recovery state whose last_ratchet_state is empty.
UnsealedState(s) ==
    [cert |-> s.cert, signatures |-> s.signatures, blob |-> FALSE,
     ratchet |-> Fresh(InitBase(s.cert.sid)), ordinal |-> 0, aad |-> 0,
     export_count |-> s.export_count]

\* A caller keeps the certificate and signatures() with no ratchet.
KeepEvidence ==
    /\ session.live
    /\ Cardinality(exports) < MaxExports
    /\ exports' = exports \cup {UnsealedState(session)}
    /\ UNCHANGED <<session, counter, started, expired, used, lapse>>

\* Mutant of Recovered: the signatures of the recovery state are not restored.
RecoveredNoSignatures(x, ratchet, count) ==
    [live |-> TRUE, cert |-> x.cert, ratchet |-> ratchet,
     ordinal |-> NextOrdinal(x.signatures), wiped |-> FALSE,
     signatures |-> <<>>, export_count |-> count]

\* What recover_session returns in both branches, but for the ratchet.
Recovered(x, ratchet, count) ==
    [live |-> TRUE, cert |-> x.cert, ratchet |-> ratchet,
     ordinal |-> NextOrdinal(x.signatures), wiped |-> FALSE,
     signatures |-> x.signatures, export_count |-> count]

\* recover_session with the ratchet of the blob.
RecoverWithRatchet(x) ==
    /\ ~session.live
    /\ x.blob
    /\ x.cert.sid \notin expired
    /\ Recoverable(x)
    /\ session' = Recovered(x, x.ratchet, x.export_count)
    /\ lapse' = IF Stale(x) THEN lapse \cup {"stale"} ELSE lapse
    /\ UNCHANGED <<exports, counter, started, expired, used>>

ContinuationBase(x) ==
    [sid |-> x.cert.sid, kind |-> "continuation",
     last |-> IF x.signatures = <<>> THEN ZeroHash ELSE x.signatures[Len(x.signatures)].hash]

\* recover_session_with_new_ratchet: seeded from the device, the last hash and
\* the session_id.
RecoverWithNewRatchet(x) ==
    /\ ~session.live
    /\ ~x.blob
    /\ x.cert.sid \notin expired
    /\ session' = Recovered(x, Fresh(ContinuationBase(x)), 0)
    /\ lapse' = IF Stale(x) THEN lapse \cup {"stale"} ELSE lapse
    /\ UNCHANGED <<exports, counter, started, expired, used>>

\* verify_session_certificate starts to refuse: 24 hours have passed.
Expire(sid) ==
    /\ sid \in 1..started
    /\ expired' = expired \cup {sid}
    /\ UNCHANGED <<session, exports, counter, started, used, lapse>>

\* The process stops, or drops the Session.  A hardware counter survives; the
\* software provider starts again at 0.
Restart ==
    /\ session.live
    /\ session' = NoSession
    /\ \/ UNCHANGED <<counter, lapse>>
       \/ /\ ~HardwareCounter
          /\ counter' = 0
          /\ lapse' = lapse \cup {"counter_reset"}
    /\ UNCHANGED <<exports, started, expired, used>>

Next ==
    \/ StartSession
    \/ \E h \in Hashes : SignCheckpoint(h) \/ SignCheckpointWithCounter(h)
    \/ SignChainMetadata
    \/ BindStartQuote
    \/ End
    \/ EndWithProvider
    \/ ExportRecoveryState
    \/ KeepEvidence
    \/ \E x \in exports : RecoverWithRatchet(x) \/ RecoverWithNewRatchet(x)
    \/ \E sid \in 1..started : Expire(sid)
    \/ Restart

Spec == Init /\ [][Next]_vars

-----------------------------------------------------------------------------
(* Properties *)

\* Type invariant.
TypeOK ==
    /\ session \in Sessions \cup {NoSession}
    /\ exports \subseteq RecoveryStates
    /\ counter \in Nat
    /\ started \in Nat
    /\ expired \subseteq Sids
    /\ used \subseteq Uses
    /\ lapse \subseteq Lapses

\* A one-time key signs one checkpoint hash: across restarts and recoveries, no
\* two uses of one key (types.rs: signing a different message at the same
\* ordinal exposes the Lamport private key), as long as no caller recovered a
\* state that its session had already signed beyond.
OneHashPerKey ==
    "stale" \notin lapse => \A u, v \in used : u.key = v.key => u = v

\* A live session still lists every checkpoint ever signed under its
\* session_id, whichever exports it was recovered from, unless a stale one was.
NothingSignedIsForgotten ==
    (session.live /\ "stale" \notin lapse) =>
       \A u \in used : u.sid = session.cert.sid =>
          \E i \in DOMAIN session.signatures :
             /\ session.signatures[i].hash = u.hash
             /\ session.signatures[i].ordinal = u.ordinal
             /\ session.signatures[i].key = u.key

\* The verifier accepts the evidence of every session this code can produce,
\* with checkpoints with and without a counter, recovered or not, as long as no
\* chain metadata was signed and the counter never restarted.
EvidenceVerifies ==
    (session.live /\ lapse \cap {"metadata", "counter_reset"} = {}) =>
       /\ VerifyCheckpointSignatures(session.signatures)
       /\ VerifySessionBinding(session.cert)

\* recover_session accepts every blob export_recovery_state wrote, as long as no
\* chain metadata was signed.
ExportsRecoverable ==
    "metadata" \notin lapse => \A x \in exports : x.blob => Recoverable(x)

-----------------------------------------------------------------------------
(* The inductive invariant behind the safety properties *)

\* The use that a signature of session sid records.
UseOf(sid, sig) == [sid |-> sid, key |-> sig.key, ordinal |-> sig.ordinal, hash |-> sig.hash]

\* Every signature of the list is a recorded use.
Recorded(uses, sid, sigs) == \A i \in DOMAIN sigs : UseOf(sid, sigs[i]) \in uses

\* Use u is one of the signatures of the list.
Listed(u, sid, sigs) == \E i \in DOMAIN sigs : UseOf(sid, sigs[i]) = u

\* A ratchet key determines the ordinal it belongs to: as many steps past its
\* seed, and a continuation's seed follows the checkpoint it was seeded with.
RatchetAt(uses, r, ordinal) ==
    /\ r.base.last = ZeroHash => ordinal = Len(r.steps)
    /\ r.base.last # ZeroHash =>
          \E u \in uses : u.hash = r.base.last /\ ordinal = u.ordinal + 1 + Len(r.steps)

HashesUnique == \A u, v \in used : u.hash = v.hash => u = v

UsesPlaced ==
    \A u \in used :
       u.sid <= started /\ u.key.base.sid = u.sid /\ RatchetAt(used, u.key, u.ordinal)

SessionPlaced ==
    session.live =>
       /\ session.cert.sid <= started
       /\ session.ratchet.base.sid = session.cert.sid
       /\ RatchetAt(used, session.ratchet, session.ordinal)
       /\ Recorded(used, session.cert.sid, session.signatures)

ExportsPlaced ==
    \A x \in exports :
       /\ x.cert.sid <= started
       /\ x.blob => x.ratchet.base.sid = x.cert.sid /\ RatchetAt(used, x.ratchet, x.ordinal)
       /\ Recorded(used, x.cert.sid, x.signatures)

\* A session uses an ordinal once.
OrdinalsUsedOnce ==
    \A u, v \in used : (u.sid = v.sid /\ u.ordinal = v.ordinal) => u = v

\* A live session is past every use of its session_id and lists it.
SessionAhead ==
    session.live =>
       \A u \in used : u.sid = session.cert.sid =>
          /\ u.ordinal < session.ordinal
          /\ Listed(u, session.cert.sid, session.signatures)

\* A recovery state lists every use before its ordinal.
ExportsComplete ==
    \A x \in exports : \A u \in used :
       (u.sid = x.cert.sid /\ u.ordinal < NextOrdinal(x.signatures))
          => Listed(u, x.cert.sid, x.signatures)

UsesAhead ==
    "stale" \notin lapse => OrdinalsUsedOnce /\ SessionAhead /\ ExportsComplete

\* Without chain metadata the ordinal is the one after the last signature.
OrdinalsFollow ==
    "metadata" \notin lapse =>
       /\ session.live => session.ordinal = NextOrdinal(session.signatures)
       /\ ExportsRecoverable

KInv ==
    /\ HashesUnique
    /\ UsesPlaced
    /\ SessionPlaced
    /\ ExportsPlaced
    /\ UsesAhead
    /\ OrdinalsFollow

\* Evidence that verifies, none of whose counters is above c.
Sound(sigs, cert, c) ==
    /\ VerifyCheckpointSignatures(sigs)
    /\ VerifySessionBinding(cert)
    /\ \A i \in DOMAIN sigs : sigs[i].counter_value <= c
    /\ cert.start_counter <= c /\ cert.end_counter <= c

\* Without chain metadata and counter resets, the live session and every
\* recovery state hold such evidence.
EvidenceInv ==
    lapse \cap {"metadata", "counter_reset"} = {} =>
       /\ session.live =>
             /\ session.ordinal = Len(session.signatures)
             /\ Sound(session.signatures, session.cert, counter)
       /\ \A x \in exports : Sound(x.signatures, x.cert, counter)

-----------------------------------------------------------------------------
(* Properties the code does not have *)

\* docs/specs/ratchet-key-hierarchy.md: each checkpoint is signed with a unique
\* key.  Recovering an export older than the last signature repeats one.
UniqueKeys == \A u, v \in used : u.key = v.key => u = v

\* tests.rs, test_session_recovery_with_ratchet: an exported state recovers.  It
\* does not once sign_chain_metadata has moved the ordinal past the signatures.
EveryExportRecovers == \A x \in exports : x.blob => Recoverable(x)

\* types.rs: a checkpoint's counter is the hardware counter, so the chain of a
\* recovered session verifies.  The software provider's counter restarts at 0
\* and the verifier reports a rollback.
CountersVerify ==
    (session.live /\ "metadata" \notin lapse) => VerifyCheckpointSignatures(session.signatures)

\* tests.rs, test_recovery_export_count_detects_replay: export_count tells an
\* older export from a newer one.  Two different exports of a session can carry
\* the same count.
ExportCountDetectsReplay ==
    \A x, y \in exports :
       (x.blob /\ y.blob /\ x.cert.sid = y.cert.sid /\ x.export_count = y.export_count)
          => x = y

=============================================================================
