-------------------------- MODULE KeyRatchetProofs --------------------------
(***************************************************************************)
(* Theorems about KeyRatchet, for every set of hashes and every bound.     *)
(*                                                                         *)
(* OneHashPerKey is not inductive: it follows from KInv, which ties a      *)
(* ratchet key to one ordinal (RatchetAt), an ordinal to one use, and the  *)
(* uses to the signatures that a session and its exports list.             *)
(***************************************************************************)
EXTENDS KeyRatchet, TLAPS

(***************************************************************************)
(* Type correctness                                                        *)
(***************************************************************************)

\* A live session is one of Sessions.
LEMMA LiveTyped ==
    ASSUME TypeOK, session.live
    PROVE  session \in Sessions
BY DEF TypeOK, NoSession

\* NextOrdinal of a list of signatures is a number.
LEMMA NextOrdinalTyped ==
    ASSUME NEW sigs \in Seq(Signatures)
    PROVE  NextOrdinal(sigs) \in Nat
<1>1. CASE sigs = <<>>
      BY <1>1 DEF NextOrdinal
<1>2. CASE sigs # <<>>
  <2>1. sigs[Len(sigs)] \in Signatures
        BY <1>2
  <2>2. sigs[Len(sigs)].ordinal \in Nat
        BY <2>1 DEF Signatures
  <2> QED BY <1>2, <2>2 DEF NextOrdinal
<1> QED BY <1>1, <1>2

\* A counter delta is a number.
LEMMA CounterDeltaTyped ==
    ASSUME NEW sigs \in Seq(Signatures), NEW c \in Nat
    PROVE  CounterDelta(sigs, c) \in Nat
<1>1. CASE sigs = <<>>
      BY <1>1 DEF CounterDelta
<1>2. CASE sigs # <<>>
  <2>1. sigs[Len(sigs)] \in Signatures
        BY <1>2
  <2>2. sigs[Len(sigs)].counter_value \in Nat \cup {-1}
        BY <2>1 DEF Signatures, Counters, NoCounter
  <2> QED BY <1>2, <2>2 DEF CounterDelta, NoCounter
<1> QED BY <1>1, <1>2

\* Advancing a ratchet gives a ratchet of the same seed, one step further.
LEMMA AdvanceTyped ==
    ASSUME NEW r \in Ratchets, NEW s \in Steps
    PROVE  /\ Advance(r, s) \in Ratchets
           /\ Advance(r, s).base = r.base
           /\ Len(Advance(r, s).steps) = Len(r.steps) + 1
<1>1. r.steps \in Seq(Steps) /\ r.base \in Bases
      BY DEF Ratchets
<1>2. Append(r.steps, s) \in Seq(Steps) /\ Len(Append(r.steps, s)) = Len(r.steps) + 1
      BY <1>1
<1>3. Advance(r, s) = [base |-> r.base, steps |-> Append(r.steps, s)]
      BY DEF Advance, Ratchets
<1> QED BY <1>1, <1>2, <1>3 DEF Ratchets

\* The seed of a fresh ratchet, and its typing.
LEMMA FreshTyped ==
    ASSUME NEW b \in Bases
    PROVE  Fresh(b) \in Ratchets /\ Fresh(b).base = b /\ Len(Fresh(b).steps) = 0
BY DEF Fresh, Ratchets

\* The body of the signing calls: the new session and the new use, by fields.
LEMMA SignTyped ==
    ASSUME TypeOK, session.live, NEW h \in Hashes, NEW value \in Counters,
           NEW delta \in Counters, Sign(h, value, delta)
    PROVE  LET sig == [ordinal |-> session.ordinal, key |-> session.ratchet, hash |-> h,
                       counter_value |-> value, counter_delta |-> delta]
           IN  /\ sig \in Signatures
               /\ session' \in Sessions
               /\ session'.cert = session.cert
               /\ session'.ordinal = session.ordinal + 1
               /\ session'.ratchet.base = session.ratchet.base
               /\ Len(session'.ratchet.steps) = Len(session.ratchet.steps) + 1
               /\ session'.signatures = Append(session.signatures, sig)
               /\ used' = used \cup {UseOf(session.cert.sid, sig)}
               /\ UseOf(session.cert.sid, sig) \in Uses
<1> DEFINE sig == [ordinal |-> session.ordinal, key |-> session.ratchet, hash |-> h,
                   counter_value |-> value, counter_delta |-> delta]
           step == [kind |-> "checkpoint", hash |-> h, delta |-> delta]
<1>1. session \in Sessions
      BY LiveTyped
<1>2. /\ session.ordinal \in Nat /\ session.ratchet \in Ratchets
      /\ session.signatures \in Seq(Signatures) /\ session.cert \in Certificates
      BY <1>1 DEF Sessions
<1>3. sig \in Signatures
      BY <1>2 DEF Signatures
<1>4. step \in Steps
      BY DEF Steps
<1>5. /\ Advance(session.ratchet, step) \in Ratchets
      /\ Advance(session.ratchet, step).base = session.ratchet.base
      /\ Len(Advance(session.ratchet, step).steps) = Len(session.ratchet.steps) + 1
      BY <1>2, <1>4, AdvanceTyped
<1>6. Append(session.signatures, sig) \in Seq(Signatures)
      BY <1>2, <1>3
<1>7. session.ordinal + 1 \in Nat
      BY <1>2
<1>8. session' = [session EXCEPT !.ratchet = Advance(session.ratchet, step),
                                 !.ordinal = session.ordinal + 1,
                                 !.signatures = Append(session.signatures, sig)]
      BY <1>1 DEF Sign, Sessions
<1> HIDE DEF sig, step
<1>9. /\ session' \in Sessions
      /\ session'.cert = session.cert
      /\ session'.ordinal = session.ordinal + 1
      /\ session'.ratchet = Advance(session.ratchet, step)
      /\ session'.signatures = Append(session.signatures, sig)
      BY <1>1, <1>5, <1>6, <1>7, <1>8 DEF Sessions
<1>10. session.cert.sid \in Sids
      BY <1>2 DEF Certificates
<1>11. UseOf(session.cert.sid, sig) \in Uses
      BY <1>2, <1>10 DEF UseOf, Uses, sig
<1>12. used' = used \cup {UseOf(session.cert.sid, sig)}
      BY DEF Sign, UseOf, sig
<1> QED BY <1>3, <1>5, <1>9, <1>11, <1>12 DEF sig

\* The two recoveries, by the fields of the session they return.
LEMMA RecoveredTyped ==
    ASSUME NEW x \in RecoveryStates, NEW r \in Ratchets, NEW n \in Nat
    PROVE  Recovered(x, r, n) \in Sessions
<1>1. x.cert \in Certificates /\ x.signatures \in Seq(Signatures)
      BY DEF RecoveryStates
<1>2. NextOrdinal(x.signatures) \in Nat
      BY <1>1, NextOrdinalTyped
<1> QED BY <1>1, <1>2 DEF Recovered, Sessions

\* A continuation's seed.
LEMMA ContinuationBaseTyped ==
    ASSUME NEW x \in RecoveryStates
    PROVE  ContinuationBase(x) \in Bases
<1>1. x.cert \in Certificates /\ x.signatures \in Seq(Signatures)
      BY DEF RecoveryStates
<1>2. x.cert.sid \in Sids
      BY <1>1 DEF Certificates
<1>3. CASE x.signatures = <<>>
      BY <1>2, <1>3 DEF ContinuationBase, Bases
<1>4. CASE x.signatures # <<>>
  <2>1. x.signatures[Len(x.signatures)] \in Signatures
        BY <1>1, <1>4
  <2>2. x.signatures[Len(x.signatures)].hash \in Hashes
        BY <2>1 DEF Signatures
  <2> QED BY <1>2, <1>4, <2>2 DEF ContinuationBase, Bases
<1> QED BY <1>3, <1>4

\* The two kinds of recovery state.
LEMMA StatesTyped ==
    ASSUME NEW s \in Sessions
    PROVE  SealedState(s) \in RecoveryStates /\ UnsealedState(s) \in RecoveryStates
<1>1. /\ s.cert \in Certificates /\ s.signatures \in Seq(Signatures)
      /\ s.ratchet \in Ratchets /\ s.ordinal \in Nat /\ s.export_count \in Nat
      BY DEF Sessions
<1>2. Len(s.signatures) \in Nat
      BY <1>1
<1>3. InitBase(s.cert.sid) \in Bases
      BY <1>1 DEF Certificates, InitBase, Bases
<1>4. Fresh(InitBase(s.cert.sid)) \in Ratchets
      BY <1>3, FreshTyped
<1>5. SealedState(s) \in RecoveryStates
      BY <1>1, <1>2 DEF SealedState, RecoveryStates
<1>6. UnsealedState(s) \in RecoveryStates
      BY <1>1, <1>4 DEF UnsealedState, RecoveryStates
<1> QED BY <1>5, <1>6

\* Every step keeps the types.
LEMMA TypeStep == TypeOK /\ [Next]_vars => TypeOK'
<1> SUFFICES ASSUME TypeOK, [Next]_vars
             PROVE  TypeOK'
    OBVIOUS
<1>1. CASE UNCHANGED vars
      BY <1>1 DEF TypeOK, vars
<1>2. CASE StartSession
  <2>1. started + 1 \in Sids
        BY DEF TypeOK, Sids
  <2>2. InitBase(started + 1) \in Bases
        BY <2>1 DEF InitBase, Bases
  <2>3. Fresh(InitBase(started + 1)) \in Ratchets
        BY <2>2, FreshTyped
  <2>4. NoCounter \in Counters /\ <<>> \in Seq(Signatures)
        BY DEF Counters
  <2>5. session' \in Sessions
        BY <1>2, <2>1, <2>3, <2>4 DEF StartSession, Sessions, Certificates
  <2>6. started' \in Nat
        BY <1>2 DEF StartSession, TypeOK
  <2> QED BY <1>2, <2>5, <2>6 DEF StartSession, TypeOK
<1>3. ASSUME NEW h \in Hashes, SignCheckpoint(h)
      PROVE  TypeOK'
  <2>1. NoCounter \in Counters
        BY DEF Counters
  <2>2. session.live /\ Sign(h, NoCounter, NoCounter)
        BY <1>3 DEF SignCheckpoint, MaySign
  <2>3. session' \in Sessions /\ used' \subseteq Uses
        BY <2>1, <2>2, SignTyped DEF TypeOK
  <2> QED BY <1>3, <2>3 DEF SignCheckpoint, TypeOK
<1>4. ASSUME NEW h \in Hashes, SignCheckpointWithCounter(h)
      PROVE  TypeOK'
  <2>1. session \in Sessions
        BY <1>4, LiveTyped DEF SignCheckpointWithCounter, MaySign
  <2>2. session.signatures \in Seq(Signatures) /\ counter + 1 \in Nat
        BY <2>1 DEF Sessions, TypeOK
  <2>3. counter + 1 \in Counters /\ CounterDelta(session.signatures, counter + 1) \in Counters
        BY <2>2, CounterDeltaTyped DEF Counters
  <2>4. session.live /\ Sign(h, counter + 1, CounterDelta(session.signatures, counter + 1))
        BY <1>4 DEF SignCheckpointWithCounter, MaySign
  <2>5. session' \in Sessions /\ used' \subseteq Uses
        BY <2>3, <2>4, SignTyped DEF TypeOK
  <2>6. counter' \in Nat
        BY <1>4, <2>2 DEF SignCheckpointWithCounter
  <2> QED BY <1>4, <2>5, <2>6 DEF SignCheckpointWithCounter, TypeOK
<1>5. CASE SignChainMetadata
  <2>1. session \in Sessions
        BY <1>5, LiveTyped DEF SignChainMetadata
  <2> DEFINE step == [kind |-> "metadata", count |-> Len(session.signatures)]
  <2>2. session.signatures \in Seq(Signatures) /\ session.ratchet \in Ratchets
        /\ session.ordinal \in Nat
        BY <2>1 DEF Sessions
  <2>3. step \in Steps
        BY <2>2 DEF Steps
  <2>4. Advance(session.ratchet, step) \in Ratchets
        BY <2>2, <2>3, AdvanceTyped
  <2>5. session.ordinal + 1 \in Nat
        BY <2>2
  <2>6. session' = [session EXCEPT !.ratchet = Advance(session.ratchet, step),
                                   !.ordinal = session.ordinal + 1]
        BY <1>5, <2>1 DEF SignChainMetadata, Sessions
  <2> HIDE DEF step
  <2>7. session' \in Sessions
        BY <2>1, <2>4, <2>5, <2>6 DEF Sessions
  <2>8. lapse' \subseteq Lapses
        BY <1>5 DEF SignChainMetadata, TypeOK, Lapses
  <2> QED BY <1>5, <2>7, <2>8 DEF SignChainMetadata, TypeOK
<1>6. CASE BindStartQuote
  <2>1. session \in Sessions
        BY <1>6, LiveTyped DEF BindStartQuote
  <2>2. counter + 1 \in Nat /\ counter + 1 \in Counters
        BY DEF TypeOK, Counters
  <2>3. session' \in Sessions
        BY <1>6, <2>1, <2>2 DEF BindStartQuote, Sessions, Certificates
  <2> QED BY <1>6, <2>2, <2>3 DEF BindStartQuote, TypeOK
<1>7. CASE End
  <2>1. session \in Sessions
        BY <1>7, LiveTyped DEF End
  <2>2. session' \in Sessions
        BY <1>7, <2>1 DEF End, Sessions
  <2> QED BY <1>7, <2>2 DEF End, TypeOK
<1>8. CASE EndWithProvider
  <2>1. session \in Sessions
        BY <1>8, LiveTyped DEF EndWithProvider
  <2>2. counter + 1 \in Nat /\ counter + 1 \in Counters
        BY DEF TypeOK, Counters
  <2>3. session' \in Sessions
        BY <1>8, <2>1, <2>2 DEF EndWithProvider, Sessions, Certificates
  <2> QED BY <1>8, <2>2, <2>3 DEF EndWithProvider, TypeOK
<1>9. CASE ExportRecoveryState
  <2>1. session \in Sessions
        BY <1>9, LiveTyped DEF ExportRecoveryState
  <2>2. session.export_count + 1 \in Nat /\ Len(session.signatures) \in Nat
        BY <2>1 DEF Sessions
  <2>3. session' \in Sessions
        BY <1>9, <2>1, <2>2 DEF ExportRecoveryState, Sessions
  <2>4. exports' \subseteq RecoveryStates
        BY <1>9, <2>3, StatesTyped DEF ExportRecoveryState, TypeOK
  <2> QED BY <1>9, <2>3, <2>4 DEF ExportRecoveryState, TypeOK
<1>10. CASE KeepEvidence
  <2>1. session \in Sessions
        BY <1>10, LiveTyped DEF KeepEvidence
  <2>4. exports' \subseteq RecoveryStates
        BY <1>10, <2>1, StatesTyped DEF KeepEvidence, TypeOK
  <2> QED BY <1>10, <2>4 DEF KeepEvidence, TypeOK
<1>11. ASSUME NEW x \in exports, RecoverWithRatchet(x)
       PROVE  TypeOK'
  <2>1. x \in RecoveryStates
        BY DEF TypeOK
  <2>2. x.ratchet \in Ratchets /\ x.export_count \in Nat
        BY <2>1 DEF RecoveryStates
  <2>3. session' \in Sessions
        BY <1>11, <2>1, <2>2, RecoveredTyped DEF RecoverWithRatchet
  <2>4. lapse' \subseteq Lapses
        BY <1>11 DEF RecoverWithRatchet, TypeOK, Lapses
  <2> QED BY <1>11, <2>3, <2>4 DEF RecoverWithRatchet, TypeOK
<1>12. ASSUME NEW x \in exports, RecoverWithNewRatchet(x)
       PROVE  TypeOK'
  <2>1. x \in RecoveryStates
        BY DEF TypeOK
  <2>2. Fresh(ContinuationBase(x)) \in Ratchets
        BY <2>1, ContinuationBaseTyped, FreshTyped
  <2>3. session' \in Sessions
        BY <1>12, <2>1, <2>2, RecoveredTyped DEF RecoverWithNewRatchet
  <2>4. lapse' \subseteq Lapses
        BY <1>12 DEF RecoverWithNewRatchet, TypeOK, Lapses
  <2> QED BY <1>12, <2>3, <2>4 DEF RecoverWithNewRatchet, TypeOK
<1>13. ASSUME NEW sid \in 1..started, Expire(sid)
       PROVE  TypeOK'
  <2>1. sid \in Sids
        BY DEF TypeOK, Sids
  <2> QED BY <1>13, <2>1 DEF Expire, TypeOK
<1>14. CASE Restart
  <2>1. session' = NoSession /\ UNCHANGED <<exports, started, expired, used>>
        BY <1>14 DEF Restart
  <2>2. CASE UNCHANGED <<counter, lapse>>
        BY <2>1, <2>2 DEF TypeOK
  <2>3. CASE counter' = 0 /\ lapse' = lapse \cup {"counter_reset"}
        BY <2>1, <2>3 DEF TypeOK, Lapses
  <2> QED BY <1>14, <2>2, <2>3 DEF Restart
<1> QED BY <1>1, <1>2, <1>3, <1>4, <1>5, <1>6, <1>7, <1>8, <1>9, <1>10, <1>11, <1>12,
           <1>13, <1>14 DEF Next

\* Every state of the ratchet has the types of the Rust structures: ordinals and
\* counts are never negative, signatures and exports are well formed.
THEOREM RatchetTypeCorrect == Spec => []TypeOK
<1>1. Init => TypeOK
      BY DEF Init, TypeOK
<1>2. TypeOK /\ [Next]_vars => TypeOK'
      BY TypeStep
<1> QED BY <1>1, <1>2, PTL DEF Spec

-----------------------------------------------------------------------------
(***************************************************************************)
(* The inductive invariant                                                 *)
(***************************************************************************)

\* A ratchet key belongs to one ordinal.
LEMMA RatchetAtUnique ==
    ASSUME TypeOK, HashesUnique, NEW r \in Ratchets, NEW a, NEW b,
           RatchetAt(used, r, a), RatchetAt(used, r, b)
    PROVE  a = b
<1>1. CASE r.base.last = ZeroHash
      BY <1>1 DEF RatchetAt
<1>2. CASE r.base.last # ZeroHash
  <2>1. PICK u \in used : u.hash = r.base.last /\ a = u.ordinal + 1 + Len(r.steps)
        BY <1>2 DEF RatchetAt
  <2>2. PICK v \in used : v.hash = r.base.last /\ b = v.ordinal + 1 + Len(r.steps)
        BY <1>2 DEF RatchetAt
  <2>3. u = v
        BY <2>1, <2>2 DEF HashesUnique
  <2> QED BY <2>1, <2>2, <2>3
<1> QED BY <1>1, <1>2

\* More uses leave a key where it is.
LEMMA RatchetAtGrows ==
    ASSUME NEW S, NEW T, S \subseteq T, NEW r, NEW o, RatchetAt(S, r, o)
    PROVE  RatchetAt(T, r, o)
BY DEF RatchetAt

\* More uses leave a list recorded.
LEMMA RecordedGrows ==
    ASSUME NEW S, NEW T, S \subseteq T, NEW sid, NEW sigs, Recorded(S, sid, sigs)
    PROVE  Recorded(T, sid, sigs)
BY DEF Recorded

\* One more step, one more ordinal.
LEMMA RatchetAtAdvances ==
    ASSUME NEW S \in SUBSET Uses, NEW r \in Ratchets, NEW q \in Ratchets, NEW o \in Nat,
           q.base = r.base, Len(q.steps) = Len(r.steps) + 1, RatchetAt(S, r, o)
    PROVE  RatchetAt(S, q, o + 1)
<1>1. Len(r.steps) \in Nat
      BY DEF Ratchets
<1>2. CASE r.base.last = ZeroHash
      BY <1>1, <1>2 DEF RatchetAt
<1>3. CASE r.base.last # ZeroHash
  <2>1. PICK u \in S : u.hash = r.base.last /\ o = u.ordinal + 1 + Len(r.steps)
        BY <1>3 DEF RatchetAt
  <2>2. u.ordinal \in Nat
        BY DEF Uses
  <2>3. o + 1 = u.ordinal + 1 + Len(q.steps)
        BY <1>1, <2>1, <2>2
  <2> QED BY <1>3, <2>1, <2>3 DEF RatchetAt
<1> QED BY <1>2, <1>3

\* The last of a recorded list is the use one before its next ordinal.
LEMMA LastRecorded ==
    ASSUME NEW S \in SUBSET Uses, NEW sid, NEW sigs \in Seq(Signatures), sigs # <<>>,
           Recorded(S, sid, sigs)
    PROVE  /\ UseOf(sid, sigs[Len(sigs)]) \in S
           /\ NextOrdinal(sigs) = sigs[Len(sigs)].ordinal + 1
           /\ sigs[Len(sigs)].ordinal \in Nat
<1>1. Len(sigs) \in DOMAIN sigs /\ sigs[Len(sigs)] \in Signatures
      OBVIOUS
<1> QED BY <1>1 DEF Recorded, NextOrdinal, Signatures

\* Appending a signature keeps the list recorded and what it lists, adds the new
\* use, and moves the next ordinal past it.
LEMMA AppendSignature ==
    ASSUME NEW sigs \in Seq(Signatures), NEW sig \in Signatures, NEW sid
    PROVE  /\ \A S : Recorded(S, sid, sigs) =>
                 Recorded(S \cup {UseOf(sid, sig)}, sid, Append(sigs, sig))
           /\ \A u : Listed(u, sid, sigs) => Listed(u, sid, Append(sigs, sig))
           /\ Listed(UseOf(sid, sig), sid, Append(sigs, sig))
           /\ NextOrdinal(Append(sigs, sig)) = sig.ordinal + 1
<1> DEFINE app == Append(sigs, sig)
<1>1. /\ app \in Seq(Signatures) /\ Len(app) = Len(sigs) + 1
      /\ DOMAIN app = 1..(Len(sigs) + 1) /\ DOMAIN sigs = 1..Len(sigs) /\ Len(sigs) \in Nat
      OBVIOUS
<1>2. \A i \in DOMAIN sigs : i \in DOMAIN app /\ app[i] = sigs[i]
      BY <1>1
<1>3. Len(sigs) + 1 \in DOMAIN app /\ app[Len(sigs) + 1] = sig /\ app # <<>>
      BY <1>1
<1>4. \A i \in DOMAIN app : i \in DOMAIN sigs \/ i = Len(sigs) + 1
      BY <1>1
<1> HIDE DEF app
<1>5. ASSUME NEW S, Recorded(S, sid, sigs)
      PROVE  Recorded(S \cup {UseOf(sid, sig)}, sid, app)
      BY <1>2, <1>3, <1>4, <1>5 DEF Recorded
<1>6. ASSUME NEW u, Listed(u, sid, sigs)
      PROVE  Listed(u, sid, app)
      BY <1>2, <1>6 DEF Listed
<1>7. Listed(UseOf(sid, sig), sid, app)
      BY <1>3 DEF Listed
<1>8. NextOrdinal(app) = sig.ordinal + 1
      BY <1>1, <1>3 DEF NextOrdinal
<1> QED BY <1>5, <1>6, <1>7, <1>8 DEF app

\* A step that adds no use and no export, and leaves the session's identity,
\* ratchet and signatures alone or drops it, keeps the invariant.
LEMMA Framed ==
    ASSUME KInv, used' = used, exports' = exports, started' = started,
           lapse \subseteq lapse',
           session'.live => /\ session.live
                            /\ session'.cert.sid = session.cert.sid
                            /\ session'.ratchet = session.ratchet
                            /\ session'.ordinal = session.ordinal
                            /\ session'.signatures = session.signatures
    PROVE  KInv'
<1>1. HashesUnique'
      BY DEF KInv, HashesUnique
<1>2. UsesPlaced'
      BY DEF KInv, UsesPlaced
<1>3. SessionPlaced'
      BY DEF KInv, SessionPlaced
<1>4. ExportsPlaced'
      BY DEF KInv, ExportsPlaced
<1>5. UsesAhead'
  <2> SUFFICES ASSUME "stale" \notin lapse
               PROVE  OrdinalsUsedOnce' /\ SessionAhead' /\ ExportsComplete'
      BY DEF UsesAhead
  <2>1. OrdinalsUsedOnce /\ SessionAhead /\ ExportsComplete
        BY DEF KInv, UsesAhead
  <2> QED BY <2>1 DEF OrdinalsUsedOnce, SessionAhead, ExportsComplete
<1>6. OrdinalsFollow'
      BY DEF KInv, OrdinalsFollow, ExportsRecoverable
<1> QED BY <1>1, <1>2, <1>3, <1>4, <1>5, <1>6 DEF KInv

\* start_session_inner: nothing was signed under the new session_id.
LEMMA StartKeeps ==
    ASSUME TypeOK, KInv, StartSession
    PROVE  KInv'
<1>1. /\ started' = started + 1 /\ started \in Nat
      /\ UNCHANGED <<exports, used, lapse>>
      /\ session'.live /\ session'.cert.sid = started + 1
      /\ session'.ratchet = Fresh(InitBase(started + 1))
      /\ session'.ordinal = 0 /\ session'.signatures = <<>>
      BY DEF StartSession, TypeOK
<1>2. \A u \in used : u.sid \in Nat /\ u.sid <= started
      BY DEF KInv, UsesPlaced, TypeOK, Uses, Sids
<1>3. \A x \in exports : x.cert.sid \in Nat /\ x.cert.sid <= started
      BY DEF KInv, ExportsPlaced, TypeOK, RecoveryStates, Certificates, Sids
<1>4. HashesUnique'
      BY <1>1 DEF KInv, HashesUnique
<1>5. UsesPlaced'
      BY <1>1, <1>2 DEF KInv, UsesPlaced
<1>6. SessionPlaced'
  <2>1. /\ Fresh(InitBase(started + 1)).base = InitBase(started + 1)
        /\ Len(Fresh(InitBase(started + 1)).steps) = 0
        BY DEF Fresh
  <2>2. RatchetAt(used, Fresh(InitBase(started + 1)), 0)
        BY <2>1 DEF RatchetAt, InitBase
  <2>3. Recorded(used, started + 1, <<>>)
        BY DEF Recorded
  <2>4. InitBase(started + 1).sid = started + 1
        BY DEF InitBase
  <2> QED BY <1>1, <2>1, <2>2, <2>3, <2>4 DEF SessionPlaced
<1>7. ExportsPlaced'
      BY <1>1, <1>3 DEF KInv, ExportsPlaced
<1>8. UsesAhead'
  <2> SUFFICES ASSUME "stale" \notin lapse
               PROVE  OrdinalsUsedOnce' /\ SessionAhead' /\ ExportsComplete'
      BY <1>1 DEF UsesAhead
  <2>1. OrdinalsUsedOnce /\ ExportsComplete
        BY DEF KInv, UsesAhead
  <2>2. SessionAhead'
        BY <1>1, <1>2 DEF SessionAhead
  <2> QED BY <1>1, <2>1, <2>2 DEF OrdinalsUsedOnce, ExportsComplete
<1>9. OrdinalsFollow'
      BY <1>1 DEF KInv, OrdinalsFollow, ExportsRecoverable, NextOrdinal
<1> QED BY <1>4, <1>5, <1>6, <1>7, <1>8, <1>9 DEF KInv

\* Signing: the new use is at the session's ordinal, past every earlier one.
LEMMA SignKeeps ==
    ASSUME TypeOK, KInv, session.live, NEW h \in Hashes, \A u \in used : u.hash # h,
           NEW value \in Counters, NEW delta \in Counters, Sign(h, value, delta),
           UNCHANGED <<exports, started, lapse>>
    PROVE  KInv'
<1> DEFINE sig == [ordinal |-> session.ordinal, key |-> session.ratchet, hash |-> h,
                   counter_value |-> value, counter_delta |-> delta]
           sid == session.cert.sid
           new == UseOf(sid, sig)
<1>1. /\ sig \in Signatures
      /\ session' \in Sessions
      /\ session'.cert = session.cert
      /\ session'.ordinal = session.ordinal + 1
      /\ session'.ratchet.base = session.ratchet.base
      /\ Len(session'.ratchet.steps) = Len(session.ratchet.steps) + 1
      /\ session'.signatures = Append(session.signatures, sig)
      /\ used' = used \cup {new}
      /\ new \in Uses
      BY SignTyped
<1>2. session \in Sessions
      BY LiveTyped
<1>3. /\ session.ordinal \in Nat /\ session.ratchet \in Ratchets
      /\ session.signatures \in Seq(Signatures) /\ session'.ratchet \in Ratchets
      /\ session'.live
      BY <1>1, <1>2 DEF Sessions
<1>4. /\ new.sid = sid /\ new.key = session.ratchet
      /\ new.ordinal = session.ordinal /\ new.hash = h /\ sig.ordinal = session.ordinal
      BY DEF UseOf
<1>5. /\ sid <= started /\ session.ratchet.base.sid = sid
      /\ RatchetAt(used, session.ratchet, session.ordinal)
      /\ Recorded(used, sid, session.signatures)
      BY DEF KInv, SessionPlaced
<1>6. used \in SUBSET Uses /\ used' \in SUBSET Uses /\ used \subseteq used'
      BY <1>1 DEF TypeOK
<1>7. /\ Recorded(used', sid, session'.signatures)
      /\ \A u : Listed(u, sid, session.signatures) => Listed(u, sid, session'.signatures)
      /\ Listed(new, sid, session'.signatures)
      /\ NextOrdinal(session'.signatures) = session'.ordinal
      BY <1>1, <1>3, <1>4, <1>5, AppendSignature
<1>8. \A r, o : RatchetAt(used, r, o) => RatchetAt(used', r, o)
      BY <1>6, RatchetAtGrows
<1>9. \A x \in exports : x.signatures \in Seq(Signatures)
      BY DEF TypeOK, RecoveryStates
<1> HIDE DEF new, sig, sid
<1>10. HashesUnique'
      BY <1>1, <1>4 DEF KInv, HashesUnique
<1>11. UsesPlaced'
      BY <1>1, <1>4, <1>5, <1>8 DEF KInv, UsesPlaced
<1>12. SessionPlaced'
  <2>1. RatchetAt(used, session'.ratchet, session.ordinal + 1)
        BY <1>1, <1>3, <1>5, <1>6, RatchetAtAdvances
  <2>2. session'.cert.sid = sid
        BY <1>1 DEF sid
  <2> QED BY <1>1, <1>5, <1>7, <1>8, <2>1, <2>2 DEF SessionPlaced
<1>13. ExportsPlaced'
  <2>1. \A i, l : Recorded(used, i, l) => Recorded(used', i, l)
        BY <1>6, RecordedGrows
  <2> QED BY <1>8, <2>1 DEF KInv, ExportsPlaced
<1>14. UsesAhead'
  <2> SUFFICES ASSUME "stale" \notin lapse
               PROVE  OrdinalsUsedOnce' /\ SessionAhead' /\ ExportsComplete'
      BY DEF UsesAhead
  <2>1. OrdinalsUsedOnce /\ SessionAhead /\ ExportsComplete
        BY DEF KInv, UsesAhead
  <2>2. \A u \in used : u.ordinal \in Nat
        BY DEF TypeOK, Uses
  <2>3. \A u \in used : u.sid = sid => u.ordinal < session.ordinal
                                        /\ Listed(u, sid, session.signatures)
        BY <2>1 DEF SessionAhead, sid
  <2>4. OrdinalsUsedOnce'
    <3>1. \A u \in used : ~(u.sid = new.sid /\ u.ordinal = new.ordinal)
          BY <1>3, <1>4, <2>2, <2>3
    <3> QED BY <1>1, <2>1, <3>1 DEF OrdinalsUsedOnce
  <2>5. SessionAhead'
    <3>1. \A u \in used' : u.sid = sid =>
             u.ordinal < session.ordinal + 1 /\ Listed(u, sid, session'.signatures)
          BY <1>1, <1>3, <1>4, <1>7, <2>2, <2>3
    <3>2. session'.cert.sid = sid
          BY <1>1 DEF sid
    <3> QED BY <1>1, <3>1, <3>2 DEF SessionAhead
  <2>6. ExportsComplete'
    <3> SUFFICES ASSUME NEW x \in exports, NEW u \in used', u.sid = x.cert.sid,
                        u.ordinal < NextOrdinal(x.signatures)
                 PROVE  Listed(u, x.cert.sid, x.signatures)
        BY DEF ExportsComplete
    <3>1. CASE u \in used
          BY <2>1, <3>1 DEF ExportsComplete
    <3>2. CASE u = new
      <4>1. x.signatures # <<>>
            BY <1>3, <1>4, <3>2 DEF NextOrdinal
      <4> DEFINE last == x.signatures[Len(x.signatures)]
      <4>2. Recorded(used, x.cert.sid, x.signatures)
            BY DEF KInv, ExportsPlaced
      <4>3. /\ UseOf(x.cert.sid, last) \in used
            /\ NextOrdinal(x.signatures) = last.ordinal + 1 /\ last.ordinal \in Nat
            BY <1>6, <1>9, <4>1, <4>2, LastRecorded
      <4>4. UseOf(x.cert.sid, last).sid = x.cert.sid
            /\ UseOf(x.cert.sid, last).ordinal = last.ordinal
            BY DEF UseOf
      <4> HIDE DEF last
      <4>5. x.cert.sid = sid
            BY <1>4, <3>2
      <4>6. last.ordinal < session.ordinal
            BY <2>3, <4>3, <4>4, <4>5
      <4> QED BY <1>3, <1>4, <3>2, <4>3, <4>6
    <3> QED BY <1>1, <3>1, <3>2
  <2> QED BY <2>4, <2>5, <2>6
<1>15. OrdinalsFollow'
      BY <1>7 DEF KInv, OrdinalsFollow, ExportsRecoverable
<1> QED BY <1>10, <1>11, <1>12, <1>13, <1>14, <1>15 DEF KInv

\* Signing chain metadata moves the session one ordinal on without a use.
LEMMA MetadataKeeps ==
    ASSUME TypeOK, KInv, SignChainMetadata
    PROVE  KInv'
<1> DEFINE step == [kind |-> "metadata", count |-> Len(session.signatures)]
<1>1. session \in Sessions /\ session.live
      BY LiveTyped DEF SignChainMetadata
<1>2. /\ session.ordinal \in Nat /\ session.ratchet \in Ratchets
      /\ session.signatures \in Seq(Signatures)
      BY <1>1 DEF Sessions
<1>3. step \in Steps
      BY <1>2 DEF Steps
<1>4. /\ Advance(session.ratchet, step) \in Ratchets
      /\ Advance(session.ratchet, step).base = session.ratchet.base
      /\ Len(Advance(session.ratchet, step).steps) = Len(session.ratchet.steps) + 1
      BY <1>2, <1>3, AdvanceTyped
<1>5. /\ session'.live /\ session'.cert = session.cert
      /\ session'.ordinal = session.ordinal + 1
      /\ session'.signatures = session.signatures
      /\ session'.ratchet = Advance(session.ratchet, step)
      BY <1>1 DEF SignChainMetadata, Sessions
<1>6. lapse' = lapse \cup {"metadata"} /\ UNCHANGED <<exports, started, used>>
      BY DEF SignChainMetadata
<1> HIDE DEF step
<1>7. HashesUnique' /\ UsesPlaced' /\ ExportsPlaced'
      BY <1>6 DEF KInv, HashesUnique, UsesPlaced, ExportsPlaced
<1>8. SessionPlaced'
  <2>1. RatchetAt(used, session.ratchet, session.ordinal)
        BY <1>1 DEF KInv, SessionPlaced
  <2>2. used \in SUBSET Uses
        BY DEF TypeOK
  <2>3. RatchetAt(used, Advance(session.ratchet, step), session.ordinal + 1)
        BY <1>2, <1>4, <2>1, <2>2, RatchetAtAdvances
  <2> QED BY <1>1, <1>4, <1>5, <1>6, <2>3 DEF KInv, SessionPlaced
<1>9. UsesAhead'
  <2> SUFFICES ASSUME "stale" \notin lapse
               PROVE  OrdinalsUsedOnce' /\ SessionAhead' /\ ExportsComplete'
      BY <1>6 DEF UsesAhead
  <2>1. OrdinalsUsedOnce /\ SessionAhead /\ ExportsComplete
        BY DEF KInv, UsesAhead
  <2>2. \A u \in used : u.ordinal \in Nat
        BY DEF TypeOK, Uses
  <2>3. SessionAhead'
        BY <1>1, <1>2, <1>5, <1>6, <2>1, <2>2 DEF SessionAhead
  <2> QED BY <1>6, <2>1, <2>3 DEF OrdinalsUsedOnce, ExportsComplete
<1>10. OrdinalsFollow'
      BY <1>6 DEF OrdinalsFollow
<1> QED BY <1>7, <1>8, <1>9, <1>10 DEF KInv

\* Keeping a recovery state: it is placed and complete because its session is.
LEMMA ExportKeeps ==
    ASSUME TypeOK, KInv, session.live, NEW x \in RecoveryStates,
           exports' = exports \cup {x},
           x.cert = session.cert, x.signatures = session.signatures,
           x.blob => /\ x.ratchet = session.ratchet
                     /\ x.ordinal = session.ordinal
                     /\ x.aad = Len(session.signatures),
           session'.live, session'.cert = session.cert,
           session'.ratchet = session.ratchet, session'.ordinal = session.ordinal,
           session'.signatures = session.signatures,
           UNCHANGED <<started, used, lapse>>
    PROVE  KInv'
<1>1. HashesUnique' /\ UsesPlaced' /\ SessionPlaced'
      BY DEF KInv, HashesUnique, UsesPlaced, SessionPlaced
<1>2. ExportsPlaced'
      BY DEF KInv, ExportsPlaced, SessionPlaced
<1>3. UsesAhead'
  <2> SUFFICES ASSUME "stale" \notin lapse
               PROVE  OrdinalsUsedOnce' /\ SessionAhead' /\ ExportsComplete'
      BY DEF UsesAhead
  <2>1. OrdinalsUsedOnce /\ SessionAhead /\ ExportsComplete
        BY DEF KInv, UsesAhead
  <2>2. ExportsComplete'
        BY <2>1 DEF SessionAhead, ExportsComplete
  <2> QED BY <2>1, <2>2 DEF OrdinalsUsedOnce, SessionAhead
<1>4. OrdinalsFollow'
      BY DEF KInv, OrdinalsFollow, ExportsRecoverable, Recoverable
<1> QED BY <1>1, <1>2, <1>3, <1>4 DEF KInv

\* Recovering: the session stands at the ordinal after its last signature, and
\* unless the state is stale no use of it is at that ordinal or beyond.
LEMMA RecoverKeeps ==
    ASSUME TypeOK, KInv, NEW x \in exports, NEW r \in Ratchets, NEW n \in Nat,
           r.base.sid = x.cert.sid, RatchetAt(used, r, NextOrdinal(x.signatures)),
           session' = Recovered(x, r, n),
           lapse' = IF Stale(x) THEN lapse \cup {"stale"} ELSE lapse,
           UNCHANGED <<exports, started, used>>
    PROVE  KInv'
<1>1. /\ session'.live /\ session'.cert = x.cert /\ session'.ratchet = r
      /\ session'.ordinal = NextOrdinal(x.signatures) /\ session'.signatures = x.signatures
      BY DEF Recovered
<1>2. x.signatures \in Seq(Signatures)
      BY DEF TypeOK, RecoveryStates
<1>3. NextOrdinal(x.signatures) \in Nat
      BY <1>2, NextOrdinalTyped
<1>4. HashesUnique' /\ UsesPlaced' /\ ExportsPlaced'
      BY DEF KInv, HashesUnique, UsesPlaced, ExportsPlaced
<1>5. SessionPlaced'
      BY <1>1 DEF KInv, SessionPlaced, ExportsPlaced
<1>6. UsesAhead'
  <2> SUFFICES ASSUME "stale" \notin lapse'
               PROVE  OrdinalsUsedOnce' /\ SessionAhead' /\ ExportsComplete'
      BY DEF UsesAhead
  <2>1. ~Stale(x) /\ "stale" \notin lapse
        OBVIOUS
  <2>2. OrdinalsUsedOnce /\ ExportsComplete
        BY <2>1 DEF KInv, UsesAhead
  <2>3. \A u \in used : u.ordinal \in Nat
        BY DEF TypeOK, Uses
  <2>4. \A u \in used : u.sid = x.cert.sid => u.ordinal < NextOrdinal(x.signatures)
        BY <1>3, <2>1, <2>3 DEF Stale
  <2>5. SessionAhead'
        BY <1>1, <2>2, <2>4 DEF SessionAhead, ExportsComplete
  <2> QED BY <2>2, <2>5 DEF OrdinalsUsedOnce, ExportsComplete
<1>7. OrdinalsFollow'
      BY <1>1 DEF KInv, OrdinalsFollow, ExportsRecoverable
<1> QED BY <1>4, <1>5, <1>6, <1>7 DEF KInv

\* Every step keeps the invariant.
LEMMA InvariantStep == TypeOK /\ KInv /\ [Next]_vars => KInv'
<1> SUFFICES ASSUME TypeOK, KInv, [Next]_vars
             PROVE  KInv'
    OBVIOUS
<1>1. CASE UNCHANGED vars
      BY <1>1, Framed DEF vars
<1>2. CASE StartSession
      BY <1>2, StartKeeps
<1>3. ASSUME NEW h \in Hashes, SignCheckpoint(h)
      PROVE  KInv'
  <2>1. NoCounter \in Counters
        BY DEF Counters
  <2> QED BY <1>3, <2>1, SignKeeps DEF SignCheckpoint, MaySign
<1>4. ASSUME NEW h \in Hashes, SignCheckpointWithCounter(h)
      PROVE  KInv'
  <2>1. session \in Sessions
        BY <1>4, LiveTyped DEF SignCheckpointWithCounter, MaySign
  <2>2. session.signatures \in Seq(Signatures) /\ counter + 1 \in Nat
        BY <2>1 DEF Sessions, TypeOK
  <2>3. counter + 1 \in Counters /\ CounterDelta(session.signatures, counter + 1) \in Counters
        BY <2>2, CounterDeltaTyped DEF Counters
  <2> QED BY <1>4, <2>3, SignKeeps DEF SignCheckpointWithCounter, MaySign
<1>5. CASE SignChainMetadata
      BY <1>5, MetadataKeeps
<1>6. CASE BindStartQuote
  <2>1. session \in Sessions
        BY <1>6, LiveTyped DEF BindStartQuote
  <2>2. /\ session'.cert.sid = session.cert.sid /\ session'.ratchet = session.ratchet
        /\ session'.ordinal = session.ordinal /\ session'.signatures = session.signatures
        BY <1>6, <2>1 DEF BindStartQuote, Sessions, Certificates
  <2> QED BY <1>6, <2>2, Framed DEF BindStartQuote
<1>7. CASE End
  <2>1. session \in Sessions
        BY <1>7, LiveTyped DEF End
  <2>2. /\ session'.cert.sid = session.cert.sid /\ session'.ratchet = session.ratchet
        /\ session'.ordinal = session.ordinal /\ session'.signatures = session.signatures
        BY <1>7, <2>1 DEF End, Sessions
  <2> QED BY <1>7, <2>2, Framed DEF End
<1>8. CASE EndWithProvider
  <2>1. session \in Sessions
        BY <1>8, LiveTyped DEF EndWithProvider
  <2>2. /\ session'.cert.sid = session.cert.sid /\ session'.ratchet = session.ratchet
        /\ session'.ordinal = session.ordinal /\ session'.signatures = session.signatures
        BY <1>8, <2>1 DEF EndWithProvider, Sessions, Certificates
  <2> QED BY <1>8, <2>2, Framed DEF EndWithProvider
<1>9. CASE ExportRecoveryState
  <2>1. session \in Sessions /\ session.live
        BY <1>9, LiveTyped DEF ExportRecoveryState
  <2>2. session.export_count + 1 \in Nat
        BY <2>1 DEF Sessions
  <2>3. /\ session' \in Sessions /\ session'.live /\ session'.cert = session.cert
        /\ session'.ratchet = session.ratchet /\ session'.ordinal = session.ordinal
        /\ session'.signatures = session.signatures
        BY <1>9, <2>1, <2>2 DEF ExportRecoveryState, Sessions
  <2>4. SealedState(session') \in RecoveryStates
        BY <2>3, StatesTyped
  <2>5. /\ SealedState(session').cert = session.cert
        /\ SealedState(session').signatures = session.signatures
        /\ SealedState(session').ratchet = session.ratchet
        /\ SealedState(session').ordinal = session.ordinal
        /\ SealedState(session').aad = Len(session.signatures)
        BY <2>3 DEF SealedState
  <2>6. exports' = exports \cup {SealedState(session')} /\ UNCHANGED <<started, used, lapse>>
        BY <1>9 DEF ExportRecoveryState
  <2> QED BY <2>1, <2>3, <2>4, <2>5, <2>6, ExportKeeps
<1>10. CASE KeepEvidence
  <2>1. session \in Sessions /\ session.live
        BY <1>10, LiveTyped DEF KeepEvidence
  <2>2. UnsealedState(session) \in RecoveryStates
        BY <2>1, StatesTyped
  <2>3. /\ UnsealedState(session).cert = session.cert
        /\ UnsealedState(session).signatures = session.signatures
        /\ ~UnsealedState(session).blob
        BY DEF UnsealedState
  <2>4. exports' = exports \cup {UnsealedState(session)}
        /\ UNCHANGED <<session, started, used, lapse>>
        BY <1>10 DEF KeepEvidence
  <2> QED BY <2>1, <2>2, <2>3, <2>4, ExportKeeps
<1>11. ASSUME NEW x \in exports, RecoverWithRatchet(x)
       PROVE  KInv'
  <2>1. x.ratchet \in Ratchets /\ x.export_count \in Nat
        BY DEF TypeOK, RecoveryStates
  <2>2. x.ratchet.base.sid = x.cert.sid /\ RatchetAt(used, x.ratchet, NextOrdinal(x.signatures))
        BY <1>11 DEF RecoverWithRatchet, Recoverable, KInv, ExportsPlaced
  <2> QED BY <1>11, <2>1, <2>2, RecoverKeeps DEF RecoverWithRatchet
<1>12. ASSUME NEW x \in exports, RecoverWithNewRatchet(x)
       PROVE  KInv'
  <2>1. x \in RecoveryStates
        BY DEF TypeOK
  <2>2. ContinuationBase(x) \in Bases
        BY <2>1, ContinuationBaseTyped
  <2> DEFINE r == Fresh(ContinuationBase(x))
  <2>3. r \in Ratchets /\ r.base = ContinuationBase(x) /\ Len(r.steps) = 0
        BY <2>2, FreshTyped
  <2>4. r.base.sid = x.cert.sid
        BY <2>3 DEF ContinuationBase
  <2> HIDE DEF r
  <2>5. RatchetAt(used, r, NextOrdinal(x.signatures))
    <3>1. CASE x.signatures = <<>>
      <4>1. r.base.last = ZeroHash
            BY <2>3, <3>1 DEF ContinuationBase
      <4>2. NextOrdinal(x.signatures) = 0
            BY <3>1 DEF NextOrdinal
      <4> QED BY <2>3, <4>1, <4>2 DEF RatchetAt
    <3>2. CASE x.signatures # <<>>
      <4> DEFINE last == x.signatures[Len(x.signatures)]
      <4>1. /\ UseOf(x.cert.sid, last) \in used
            /\ NextOrdinal(x.signatures) = last.ordinal + 1 /\ last.ordinal \in Nat
        <5>1. x.signatures \in Seq(Signatures) /\ used \in SUBSET Uses
              BY DEF TypeOK, RecoveryStates
        <5>2. Recorded(used, x.cert.sid, x.signatures)
              BY DEF KInv, ExportsPlaced
        <5> QED BY <3>2, <5>1, <5>2, LastRecorded
      <4>2. UseOf(x.cert.sid, last).hash = last.hash
            /\ UseOf(x.cert.sid, last).ordinal = last.ordinal
            BY DEF UseOf
      <4>3. r.base.last = last.hash
            BY <2>3, <3>2 DEF ContinuationBase
      <4>4. last.hash \in Hashes
            BY <4>1, <4>2 DEF TypeOK, Uses
      <4> HIDE DEF last
      <4>5. r.base.last # ZeroHash
            BY <4>3, <4>4, RatchetAssumption
      <4>6. NextOrdinal(x.signatures) = UseOf(x.cert.sid, last).ordinal + 1 + Len(r.steps)
            BY <2>3, <4>1, <4>2
      <4> QED BY <4>1, <4>2, <4>3, <4>5, <4>6 DEF RatchetAt
    <3> QED BY <3>1, <3>2
  <2>6. session' = Recovered(x, r, 0) /\ UNCHANGED <<exports, started, used>>
        /\ lapse' = IF Stale(x) THEN lapse \cup {"stale"} ELSE lapse
        BY <1>12 DEF RecoverWithNewRatchet, r
  <2> QED BY <2>3, <2>4, <2>5, <2>6, RecoverKeeps
<1>13. ASSUME NEW sid \in 1..started, Expire(sid)
       PROVE  KInv'
      BY <1>13, Framed DEF Expire
<1>14. CASE Restart
  <2>1. ~session'.live /\ lapse \subseteq lapse' /\ UNCHANGED <<exports, started, used>>
        BY <1>14 DEF Restart, NoSession
  <2> QED BY <2>1, Framed
<1> QED BY <1>1, <1>2, <1>3, <1>4, <1>5, <1>6, <1>7, <1>8, <1>9, <1>10, <1>11, <1>12,
           <1>13, <1>14 DEF Next

\* TypeOK and KInv together are inductive.
LEMMA Invariance == Spec => [](TypeOK /\ KInv)
<1>1. Init => TypeOK /\ KInv
  <2> SUFFICES ASSUME Init
               PROVE  TypeOK /\ KInv
      OBVIOUS
  <2>1. ~session.live /\ exports = {} /\ used = {} /\ lapse = {}
        BY DEF Init, NoSession
  <2>2. TypeOK
        BY DEF Init, TypeOK
  <2>3. KInv
        BY <2>1 DEF KInv, HashesUnique, UsesPlaced, SessionPlaced, ExportsPlaced, UsesAhead,
                    OrdinalsUsedOnce, SessionAhead, ExportsComplete, OrdinalsFollow,
                    ExportsRecoverable
  <2> QED BY <2>2, <2>3
<1>2. TypeOK /\ KInv /\ [Next]_vars => (TypeOK /\ KInv)'
      BY TypeStep, InvariantStep
<1> QED BY <1>1, <1>2, PTL DEF Spec

\* However sign_checkpoint, sign_checkpoint_with_counter, sign_chain_metadata,
\* export_recovery_state and recover_session are interleaved with restarts, no
\* one-time key ever signs two checkpoint hashes, as long as no state is
\* recovered that its session has already signed beyond.
THEOREM KeysSignOnce == Spec => []OneHashPerKey
<1>1. TypeOK /\ KInv => OneHashPerKey
  <2> SUFFICES ASSUME TypeOK, KInv, "stale" \notin lapse,
                      NEW u \in used, NEW v \in used, u.key = v.key
               PROVE  u = v
      BY DEF OneHashPerKey
  <2>1. u.key \in Ratchets
        BY DEF TypeOK, Uses
  <2>2. u.sid = v.sid /\ RatchetAt(used, u.key, u.ordinal) /\ RatchetAt(used, u.key, v.ordinal)
        BY DEF KInv, UsesPlaced
  <2>3. u.ordinal = v.ordinal
        BY <2>1, <2>2, RatchetAtUnique DEF KInv
  <2> QED BY <2>2, <2>3 DEF KInv, UsesAhead, OrdinalsUsedOnce
<1> QED BY <1>1, Invariance, PTL

\* A live session lists every checkpoint ever signed under its session_id,
\* through any chain of exports and recoveries that were not stale.
THEOREM SignaturesSurvive == Spec => []NothingSignedIsForgotten
<1>1. TypeOK /\ KInv => NothingSignedIsForgotten
  <2> SUFFICES ASSUME TypeOK, KInv, session.live, "stale" \notin lapse,
                      NEW u \in used, u.sid = session.cert.sid
               PROVE  \E i \in DOMAIN session.signatures :
                         /\ session.signatures[i].hash = u.hash
                         /\ session.signatures[i].ordinal = u.ordinal
                         /\ session.signatures[i].key = u.key
      BY DEF NothingSignedIsForgotten
  <2>1. Listed(u, session.cert.sid, session.signatures)
        BY DEF KInv, UsesAhead, SessionAhead
  <2> QED BY <2>1 DEF Listed, UseOf
<1> QED BY <1>1, Invariance, PTL

\* recover_session accepts every blob that export_recovery_state wrote when no
\* chain metadata was signed.
THEOREM ExportsRecover == Spec => []ExportsRecoverable
<1>1. KInv => ExportsRecoverable
      BY DEF KInv, OrdinalsFollow, ExportsRecoverable
<1> QED BY <1>1, Invariance, PTL

-----------------------------------------------------------------------------
(***************************************************************************)
(* The evidence verifies                                                   *)
(***************************************************************************)

\* Where the ordinals count from 0, the next one is the length of the list.
LEMMA NextOrdinalIsLen ==
    ASSUME NEW sigs \in Seq(Signatures), VerifyCheckpointSignatures(sigs)
    PROVE  NextOrdinal(sigs) = Len(sigs)
<1>1. CASE sigs = <<>>
      BY <1>1 DEF NextOrdinal
<1>2. CASE sigs # <<>>
  <2>1. Len(sigs) \in DOMAIN sigs /\ Len(sigs) \in Nat
        BY <1>2
  <2>2. sigs[Len(sigs)].ordinal = Len(sigs) - 1
        BY <2>1 DEF VerifyCheckpointSignatures
  <2> QED BY <1>2, <2>1, <2>2 DEF NextOrdinal
<1> QED BY <1>1, <1>2

\* A larger counter leaves evidence sound.
LEMMA SoundGrows ==
    ASSUME NEW sigs \in Seq(Signatures), NEW cert \in Certificates,
           NEW c \in Nat, NEW d \in Nat, c <= d, Sound(sigs, cert, c)
    PROVE  Sound(sigs, cert, d)
<1>1. \A i \in DOMAIN sigs : sigs[i].counter_value \in Int
  <2>1. \A i \in DOMAIN sigs : sigs[i] \in Signatures
        OBVIOUS
  <2> QED BY <2>1 DEF Signatures, Counters, NoCounter
<1>2. cert.start_counter \in Int /\ cert.end_counter \in Int
      BY DEF Certificates, Counters, NoCounter
<1> QED BY <1>1, <1>2 DEF Sound

\* Appending the signature that the session's ordinal and the counter give.
LEMMA SoundAppend ==
    ASSUME NEW sigs \in Seq(Signatures), NEW cert \in Certificates,
           NEW c \in Nat, NEW d \in Nat, c <= d, Sound(sigs, cert, c),
           NEW sig \in Signatures, sig.ordinal = Len(sigs),
           \/ sig.counter_value = NoCounter
           \/ /\ sig.counter_value = d
              /\ sig.counter_delta = CounterDelta(sigs, d)
    PROVE  Sound(Append(sigs, sig), cert, d)
<1> DEFINE app == Append(sigs, sig)
           n == Len(sigs)
<1>1. /\ n \in Nat /\ DOMAIN sigs = 1..n /\ DOMAIN app = 1..(n + 1)
      /\ app[n + 1] = sig
      /\ \A i \in 1..n : app[i] = sigs[i] /\ sigs[i] \in Signatures
      OBVIOUS
<1>2. \A i \in 1..n : /\ app[i].counter_value \in Int
                      /\ app[i].counter_value <= c
                      /\ app[i].ordinal = i - 1
  <2>1. \A i \in 1..n : sigs[i].counter_value <= c /\ sigs[i].ordinal = i - 1
        BY <1>1 DEF Sound, VerifyCheckpointSignatures
  <2>2. \A i \in 1..n : sigs[i].counter_value \in Int
        BY <1>1 DEF Signatures, Counters, NoCounter
  <2> QED BY <1>1, <2>1, <2>2
<1>3. sig.counter_value \in Int /\ sig.counter_value <= d
      BY DEF Signatures, Counters, NoCounter
<1>4. Sound(sigs, cert, d)
      BY SoundGrows
<1> HIDE DEF app
<1>5. \A i \in DOMAIN app : app[i].counter_value <= d /\ app[i].ordinal = i - 1
      BY <1>1, <1>2, <1>3
<1>6. ASSUME NEW i \in DOMAIN app, NEW j \in DOMAIN app, i < j,
             app[i].counter_value # NoCounter, app[j].counter_value # NoCounter
      PROVE  app[i].counter_value <= app[j].counter_value
  <2>1. i \in 1..n
        BY <1>1, <1>6
  <2>2. CASE j \in 1..n
        BY <1>1, <1>6, <2>1, <2>2 DEF Sound, VerifyCheckpointSignatures
  <2>3. CASE j = n + 1
        BY <1>1, <1>2, <1>6, <2>1, <2>3
  <2> QED BY <1>1, <2>2, <2>3
<1>7. ASSUME NEW i \in DOMAIN app, i > 1, app[i - 1].counter_value # NoCounter,
             app[i].counter_value # NoCounter, app[i].counter_delta # NoCounter
      PROVE  app[i].counter_delta = app[i].counter_value - app[i - 1].counter_value
  <2>1. CASE i \in 1..n
    <3>1. i - 1 \in 1..n
          BY <1>1, <1>7, <2>1
    <3>2. app[i] = sigs[i] /\ app[i - 1] = sigs[i - 1] /\ i \in DOMAIN sigs
          BY <1>1, <2>1, <3>1
    <3> QED BY <1>7, <3>2 DEF Sound, VerifyCheckpointSignatures
  <2>2. CASE i = n + 1
    <3>1. n \in 1..n /\ app[i - 1] = sigs[n] /\ app[i] = sig /\ sigs # <<>>
          BY <1>1, <1>7, <2>2
    <3>2. sigs[n].counter_value # NoCounter /\ sig.counter_value # NoCounter
          BY <1>7, <3>1
    <3>3. sig.counter_value = d /\ sig.counter_delta = CounterDelta(sigs, d)
          BY <3>2
    <3>4. sigs[n].counter_value \in Int /\ sigs[n].counter_value <= d
          BY <1>1, <1>2, <3>1
    <3>5. CounterDelta(sigs, d) = d - sigs[n].counter_value
          BY <3>1, <3>2, <3>4 DEF CounterDelta
    <3> QED BY <3>1, <3>3, <3>5
  <2> QED BY <1>1, <2>1, <2>2
<1>8. VerifyCheckpointSignatures(app)
      BY <1>5, <1>6, <1>7 DEF VerifyCheckpointSignatures
<1>9. Sound(app, cert, d)
      BY <1>4, <1>5, <1>8 DEF Sound
<1> QED BY <1>9 DEF app

\* A step that appends nothing: the session's certificate may have been bound at
\* the new counter.
LEMMA EvidenceFramed ==
    ASSUME TypeOK, EvidenceInv, lapse \subseteq lapse', counter' \in Nat, counter <= counter',
           exports' = exports,
           session'.live => /\ session'.ordinal = Len(session'.signatures)
                            /\ Sound(session'.signatures, session'.cert, counter')
    PROVE  EvidenceInv'
<1> SUFFICES ASSUME lapse' \cap {"metadata", "counter_reset"} = {}
             PROVE  \A x \in exports : Sound(x.signatures, x.cert, counter')
    BY DEF EvidenceInv
<1>1. lapse \cap {"metadata", "counter_reset"} = {}
      OBVIOUS
<1>2. \A x \in exports : /\ x.signatures \in Seq(Signatures) /\ x.cert \in Certificates
                          /\ Sound(x.signatures, x.cert, counter)
      BY <1>1 DEF EvidenceInv, TypeOK, RecoveryStates
<1>3. counter \in Nat
      BY DEF TypeOK
<1> QED BY <1>2, <1>3, SoundGrows

\* Signing keeps the evidence sound.
LEMMA EvidenceSign ==
    ASSUME TypeOK, EvidenceInv, session.live, lapse \cap {"metadata", "counter_reset"} = {},
           NEW h \in Hashes, NEW value \in Counters, NEW delta \in Counters,
           Sign(h, value, delta), counter' \in Nat, counter <= counter',
           \/ value = NoCounter
           \/ value = counter' /\ delta = CounterDelta(session.signatures, counter')
    PROVE  /\ session'.ordinal = Len(session'.signatures)
           /\ Sound(session'.signatures, session'.cert, counter')
<1> DEFINE sig == [ordinal |-> session.ordinal, key |-> session.ratchet, hash |-> h,
                   counter_value |-> value, counter_delta |-> delta]
<1>1. /\ sig \in Signatures /\ session'.cert = session.cert
      /\ session'.ordinal = session.ordinal + 1
      /\ session'.signatures = Append(session.signatures, sig)
      BY SignTyped
<1>2. session.signatures \in Seq(Signatures) /\ session.cert \in Certificates
      BY LiveTyped DEF Sessions
<1>3. session.ordinal = Len(session.signatures) /\ Sound(session.signatures, session.cert, counter)
      BY DEF EvidenceInv
<1>4. /\ sig.ordinal = session.ordinal /\ sig.counter_value = value
      /\ sig.counter_delta = delta /\ counter \in Nat
      BY DEF TypeOK
<1> HIDE DEF sig
<1>5. Sound(Append(session.signatures, sig), session.cert, counter')
      BY <1>1, <1>2, <1>3, <1>4, SoundAppend
<1>6. Len(session'.signatures) = Len(session.signatures) + 1
      BY <1>1, <1>2
<1> QED BY <1>1, <1>3, <1>5, <1>6

\* Every step keeps the evidence of the session and of the exports sound.
LEMMA EvidenceStep == TypeOK /\ EvidenceInv /\ [Next]_vars => EvidenceInv'
<1> SUFFICES ASSUME TypeOK, EvidenceInv, [Next]_vars
             PROVE  EvidenceInv'
    OBVIOUS
<1>0. counter \in Nat /\ counter + 1 \in Nat /\ counter <= counter + 1
      BY DEF TypeOK
<1>1. SUFFICES ASSUME lapse' \cap {"metadata", "counter_reset"} = {}
               PROVE  EvidenceInv'
      BY DEF EvidenceInv
<1>2. CASE UNCHANGED vars
      BY <1>2 DEF vars, EvidenceInv
<1>3. CASE StartSession
  <2>1. /\ session'.ordinal = 0 /\ session'.signatures = <<>>
        /\ session'.cert.start_counter = -1 /\ session'.cert.end_counter = -1
        /\ UNCHANGED <<exports, counter, lapse>>
        BY <1>3 DEF StartSession, NoCounter
  <2>2. Sound(session'.signatures, session'.cert, counter')
        BY <1>0, <2>1 DEF Sound, VerifyCheckpointSignatures, VerifySessionBinding, NoCounter
  <2> QED BY <1>0, <2>1, <2>2, EvidenceFramed
<1>4. ASSUME NEW h \in Hashes, SignCheckpoint(h)
      PROVE  EvidenceInv'
  <2>1. NoCounter \in Counters /\ session.live /\ UNCHANGED <<exports, counter, lapse>>
        /\ Sign(h, NoCounter, NoCounter)
        BY <1>4 DEF Counters, SignCheckpoint, MaySign
  <2>2. /\ session'.ordinal = Len(session'.signatures)
        /\ Sound(session'.signatures, session'.cert, counter')
        BY <1>0, <1>1, <2>1, EvidenceSign
  <2> QED BY <1>0, <2>1, <2>2, EvidenceFramed
<1>5. ASSUME NEW h \in Hashes, SignCheckpointWithCounter(h)
      PROVE  EvidenceInv'
  <2>1. /\ session.live /\ counter' = counter + 1 /\ UNCHANGED <<exports, lapse>>
        /\ Sign(h, counter + 1, CounterDelta(session.signatures, counter + 1))
        BY <1>5 DEF SignCheckpointWithCounter, MaySign
  <2>2. session.signatures \in Seq(Signatures)
        BY <2>1, LiveTyped DEF Sessions
  <2>3. counter + 1 \in Counters /\ CounterDelta(session.signatures, counter + 1) \in Counters
        BY <1>0, <2>2, CounterDeltaTyped DEF Counters
  <2>4. /\ session'.ordinal = Len(session'.signatures)
        /\ Sound(session'.signatures, session'.cert, counter')
        BY <1>0, <1>1, <2>1, <2>3, EvidenceSign
  <2> QED BY <1>0, <2>1, <2>4, EvidenceFramed
<1>6. CASE SignChainMetadata
      BY <1>1, <1>6 DEF SignChainMetadata
<1>7. CASE BindStartQuote
  <2>1. session \in Sessions /\ session.live
        BY <1>7, LiveTyped DEF BindStartQuote
  <2>2. /\ session'.ordinal = session.ordinal /\ session'.signatures = session.signatures
        /\ session'.cert.start_counter = counter + 1
        /\ session'.cert.end_counter = session.cert.end_counter
        /\ session.cert.end_counter = -1
        /\ counter' = counter + 1 /\ UNCHANGED <<exports, lapse>>
        BY <1>7, <2>1 DEF BindStartQuote, Sessions, Certificates, NoCounter
  <2>3. session.signatures \in Seq(Signatures) /\ session.cert \in Certificates
        BY <2>1 DEF Sessions
  <2>4. session.ordinal = Len(session.signatures)
        /\ Sound(session.signatures, session.cert, counter')
        BY <1>0, <1>1, <2>1, <2>2, <2>3, SoundGrows DEF EvidenceInv
  <2>5. Sound(session'.signatures, session'.cert, counter')
        BY <1>0, <2>2, <2>4 DEF Sound, VerifySessionBinding, NoCounter
  <2> QED BY <1>0, <2>2, <2>4, <2>5, EvidenceFramed
<1>8. CASE End
  <2>1. session \in Sessions /\ session.live
        BY <1>8, LiveTyped DEF End
  <2>2. /\ session'.ordinal = session.ordinal /\ session'.signatures = session.signatures
        /\ session'.cert = session.cert /\ UNCHANGED <<exports, lapse, counter>>
        BY <1>8, <2>1 DEF End, Sessions
  <2> QED BY <1>0, <1>1, <2>1, <2>2, EvidenceFramed DEF EvidenceInv
<1>9. CASE EndWithProvider
  <2>1. session \in Sessions /\ session.live
        BY <1>9, LiveTyped DEF EndWithProvider
  <2>2. /\ session'.ordinal = session.ordinal /\ session'.signatures = session.signatures
        /\ session'.cert.end_counter = counter + 1
        /\ session'.cert.start_counter = session.cert.start_counter
        /\ counter' = counter + 1 /\ UNCHANGED <<exports, lapse>>
        BY <1>9, <2>1 DEF EndWithProvider, Sessions, Certificates
  <2>3. session.signatures \in Seq(Signatures) /\ session.cert \in Certificates
        BY <2>1 DEF Sessions
  <2>4. session.ordinal = Len(session.signatures)
        /\ Sound(session.signatures, session.cert, counter')
        BY <1>0, <1>1, <2>1, <2>2, <2>3, SoundGrows DEF EvidenceInv
  <2>5. Sound(session'.signatures, session'.cert, counter')
        BY <1>0, <2>2, <2>4 DEF Sound, VerifySessionBinding, NoCounter
  <2> QED BY <1>0, <2>2, <2>4, <2>5, EvidenceFramed
<1>10. CASE ExportRecoveryState
  <2>1. session \in Sessions /\ session.live
        BY <1>10, LiveTyped DEF ExportRecoveryState
  <2>2. /\ session'.live /\ session'.ordinal = session.ordinal
        /\ session'.signatures = session.signatures /\ session'.cert = session.cert
        /\ UNCHANGED <<lapse, counter>>
        BY <1>10, <2>1 DEF ExportRecoveryState, Sessions
  <2>3. /\ SealedState(session').cert = session.cert
        /\ SealedState(session').signatures = session.signatures
        BY <2>2 DEF SealedState
  <2>4. exports' = exports \cup {SealedState(session')}
        BY <1>10 DEF ExportRecoveryState
  <2> QED BY <1>1, <2>1, <2>2, <2>3, <2>4 DEF EvidenceInv
<1>11. CASE KeepEvidence
  <2>1. session.live /\ exports' = exports \cup {UnsealedState(session)}
        /\ UNCHANGED <<session, lapse, counter>>
        BY <1>11 DEF KeepEvidence
  <2>2. /\ UnsealedState(session).cert = session.cert
        /\ UnsealedState(session).signatures = session.signatures
        BY DEF UnsealedState
  <2> QED BY <1>1, <2>1, <2>2 DEF EvidenceInv
<1>12. ASSUME NEW x \in exports, RecoverWithRatchet(x) \/ RecoverWithNewRatchet(x)
       PROVE  EvidenceInv'
  <2>1. /\ session'.cert = x.cert /\ session'.signatures = x.signatures
        /\ session'.ordinal = NextOrdinal(x.signatures)
        BY <1>12 DEF RecoverWithRatchet, RecoverWithNewRatchet, Recovered
  <2>2. lapse \subseteq lapse' /\ UNCHANGED <<exports, counter>>
        BY <1>12 DEF RecoverWithRatchet, RecoverWithNewRatchet
  <2>3. x.signatures \in Seq(Signatures) /\ Sound(x.signatures, x.cert, counter)
        BY <1>1, <2>2 DEF EvidenceInv, TypeOK, RecoveryStates
  <2>4. session'.ordinal = Len(session'.signatures)
        BY <2>1, <2>3, NextOrdinalIsLen DEF Sound
  <2> QED BY <1>0, <2>1, <2>2, <2>3, <2>4, EvidenceFramed
<1>13. ASSUME NEW sid \in 1..started, Expire(sid)
       PROVE  EvidenceInv'
      BY <1>13 DEF Expire, EvidenceInv
<1>14. CASE Restart
  <2>1. ~session'.live /\ exports' = exports
        BY <1>14 DEF Restart, NoSession
  <2>2. CASE UNCHANGED <<counter, lapse>>
        BY <2>1, <2>2 DEF EvidenceInv
  <2>3. CASE lapse' = lapse \cup {"counter_reset"}
        BY <1>1, <2>3
  <2> QED BY <1>14, <2>2, <2>3 DEF Restart
<1> QED BY <1>2, <1>3, <1>4, <1>5, <1>6, <1>7, <1>8, <1>9, <1>10, <1>11, <1>12, <1>13,
           <1>14 DEF Next

\* verify_checkpoint_signatures and verify_session_binding accept the evidence of
\* every session, however checkpoints with and without a counter alternate and
\* however often it was recovered, when no chain metadata was signed and the
\* provider's counter did not restart.
THEOREM EvidenceIsVerifiable == Spec => []EvidenceVerifies
<1>1. Init => TypeOK /\ EvidenceInv
      BY DEF Init, TypeOK, EvidenceInv, NoSession
<1>2. TypeOK /\ EvidenceInv /\ [Next]_vars => (TypeOK /\ EvidenceInv)'
      BY TypeStep, EvidenceStep
<1>3. EvidenceInv => EvidenceVerifies
      BY DEF EvidenceInv, EvidenceVerifies, Sound
<1> QED BY <1>1, <1>2, <1>3, PTL DEF Spec

=============================================================================
