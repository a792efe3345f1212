-------------------------- MODULE OfflineQueueProofs --------------------------
(***************************************************************************)
(* No queued request is lost, and none is accepted twice but for a lapse,  *)
(* for every number of syncs, checkpoints and drains, every retry limit    *)
(* and every bound on faults.                                              *)
(*                                                                         *)
(* QueuedIsNotLost alone is not inductive: a drain removes a file on the   *)
(* strength of a retry count it read some steps ago, or of an answer it    *)
(* holds, while other drains go on.  The invariant says that what a drain  *)
(* holds stays true: a retry count never exceeds the refusals of its       *)
(* request, which only grow, and neither does the count of a file.         *)
(***************************************************************************)
EXTENDS OfflineQueue, FiniteSetTheorems, TLAPS

\* The retry count of a file, and of an entry a drain has listed, is at most the
\* number of refusals of the request.
FilesCounted == \A r \in Requests : file[r] <= refusals[r]

ListedCounted ==
    \A d \in Drains : \A e \in drain[d].todo : e.retry <= refusals[e.req]

\* What a drain knows of the entry in hand.
Holds(dr, acc, ref) ==
    /\ dr.pc \in {"sent", "submitted", "refused", "discard"} => dr.entry \in Listed
    /\ dr.pc = "sent" =>
          dr.entry.retry <= ref[dr.entry.req] /\ dr.entry.retry < RetryLimit(dr.entry.req)
    /\ dr.pc = "refused" => dr.entry.retry < ref[dr.entry.req]
    /\ dr.pc = "submitted" => acc[dr.entry.req] > 0
    /\ dr.pc = "discard" => ref[dr.entry.req] >= RetryLimit(dr.entry.req)

HeldRight == \A d \in Drains : Holds(drain[d], accepted, refusals)

QInv == TypeOK /\ FilesCounted /\ ListedCounted /\ HeldRight /\ QueuedIsNotLost

-----------------------------------------------------------------------------
(* Values *)

LEMMA RequestsFinite == IsFiniteSet(Requests)
  <1>1. IsFiniteSet(Syncs)
    BY QueueAssumption, FS_Subset DEF Jobs
  <1>2. IsFiniteSet({Text(s) : s \in Syncs})
    <2> DEFINE f == [s \in Syncs |-> Text(s)]
    <2>1. f \in Surjection(Syncs, {Text(s) : s \in Syncs})
      BY DEF Surjection
    <2> HIDE DEF f
    <2> QED
      BY <1>1, <2>1, FS_Surjection
  <1>3. IsFiniteSet({Anchor(j) : j \in Jobs})
    <2> DEFINE f == [j \in Jobs |-> Anchor(j)]
    <2>1. f \in Surjection(Jobs, {Anchor(j) : j \in Jobs})
      BY DEF Surjection
    <2> HIDE DEF f
    <2> QED
      BY <2>1, QueueAssumption, FS_Surjection
  <1>4. Requests = {Text(s) : s \in Syncs} \cup {Anchor(j) : j \in Jobs}
    BY DEF Requests, Text, Anchor
  <1> QED
    BY <1>2, <1>3, <1>4, FS_Union

LEMMA NowPositive == Now \in Nat /\ Now > 0
  <1>1. {r \in Requests : created[r] > 0} \subseteq Requests
    OBVIOUS
  <1>2. IsFiniteSet({r \in Requests : created[r] > 0})
    BY <1>1, RequestsFinite, FS_Subset
  <1>3. Cardinality({r \in Requests : created[r] > 0}) \in Nat
    BY <1>2, FS_CardinalityType
  <1> QED
    BY <1>3 DEF Now

LEMMA LimitPositive == \A r \in Requests : RetryLimit(r) \in Nat /\ RetryLimit(r) > 0
  BY QueueAssumption DEF RetryLimit, Requests

LEMMA RequestsOf ==
    /\ \A s \in Syncs : Text(s) \in Requests
    /\ \A j \in Jobs : Anchor(j) \in Requests
  BY DEF Text, Anchor, Requests

\* A drain's record after each of its moves.
LEMMA DrainTyped ==
  ASSUME NEW x \in DrainStates
  PROVE  /\ IdleDrain \in DrainStates
         /\ [x EXCEPT !.pc = "walk", !.entry = NoEntry] \in DrainStates
         /\ \A e \in x.todo : [x EXCEPT !.todo = @ \ {e}] \in DrainStates
         /\ \A e \in x.todo : \A p \in {"sent", "discard"} :
               [x EXCEPT !.pc = p, !.entry = e, !.todo = @ \ {e}] \in DrainStates
         /\ \A p \in {"submitted", "refused"} :
               [x EXCEPT !.pc = p, !.answered = TRUE] \in DrainStates
  BY DEF DrainStates, IdleDrain, NoEntry, Listed

\* Growing counts keep what a drain knows.
LEMMA HoldsGrow ==
  ASSUME NEW x \in DrainStates,
         NEW acc \in [Requests -> 0..2], NEW acc2 \in [Requests -> 0..2],
         NEW ref \in [Requests -> Nat], NEW ref2 \in [Requests -> Nat],
         \A r \in Requests : acc[r] <= acc2[r] /\ ref[r] <= ref2[r],
         Holds(x, acc, ref)
  PROVE  Holds(x, acc2, ref2)
  <1>1. ASSUME x.pc \in {"sent", "submitted", "refused", "discard"}
        PROVE  x.entry \in Listed /\ x.entry.req \in Requests /\ x.entry.retry \in Nat
    BY <1>1 DEF Holds, Listed
  <1>2. CASE x.pc \in {"sent", "submitted", "refused", "discard"}
    BY <1>1, <1>2, LimitPositive DEF Holds
  <1> QED
    BY <1>2 DEF Holds

\* A drain with no entry in hand knows nothing of one.
LEMMA HoldsNothing ==
  ASSUME NEW x, NEW acc, NEW ref, x.pc \in {"idle", "walk"}
  PROVE  Holds(x, acc, ref)
  BY DEF Holds

LEMMA AcceptedTyped ==
  ASSUME TypeOK, NEW r \in Requests
  PROVE  /\ AcceptedOnceMore(r) \in [Requests -> 0..2]
         /\ \A q \in Requests : accepted[q] <= AcceptedOnceMore(r)[q]
         /\ AcceptedOnceMore(r)[r] > 0
  BY DEF TypeOK, AcceptedOnceMore

LEMMA RefusedTyped ==
  ASSUME TypeOK, NEW r \in Requests
  PROVE  /\ RefusedOnceMore(r) \in [Requests -> Nat]
         /\ \A q \in Requests : refusals[q] <= RefusedOnceMore(r)[q]
         /\ \A n \in Nat : n <= refusals[r] /\ n < RetryLimit(r) => n < RefusedOnceMore(r)[r]
  <1>1. RetryLimit(r) \in Nat
    BY LimitPositive
  <1> QED
    BY <1>1 DEF TypeOK, RefusedOnceMore

LEMMA AttemptTyped ==
  ASSUME TypeOK, NEW r \in Requests, AttemptFails(r)
  PROVE  /\ accepted' \in [Requests -> 0..2]
         /\ \A q \in Requests : accepted[q] <= accepted'[q]
         /\ lapse' \in SUBSET Lapses
  <1>1. accepted \in [Requests -> 0..2] /\ lapse \in SUBSET Lapses
    BY DEF TypeOK
  <1>2. CASE UNCHANGED <<accepted, lapse>>
    BY <1>1, <1>2
  <1>3. CASE /\ accepted' = AcceptedOnceMore(r)
             /\ lapse' = lapse \cup {"unknown_outcome"}
    BY <1>1, <1>3, AcceptedTyped DEF Lapses
  <1> QED
    BY <1>2, <1>3 DEF AttemptFails

LEMMA EnqueueTyped ==
  ASSUME TypeOK, NEW r \in Requests, NEW b \in BOOLEAN,
         Enqueue(r, b) \/ NotEnqueued
  PROVE  /\ file' \in [Requests -> Nat \cup {Absent}]
         /\ created' \in [Requests -> Nat]
         /\ unsigned' \in SUBSET Requests
         /\ \A q \in Requests : file'[q] = file[q] \/ file'[q] = 0
         /\ \A q \in Requests : created'[q] > 0 => created[q] > 0 \/ file'[q] = 0
  BY NowPositive DEF TypeOK, Enqueue, NotEnqueued

LEMMA ListingTyped ==
  ASSUME QInv, NEW k, NEW todo \in Listings(k)
  PROVE  todo \in SUBSET Listed /\ \A e \in todo : e.retry <= refusals[e.req]
  <1>1. PICK S \in SUBSET OnDisk(k) :
           todo = {[req |-> r, retry |-> file[r], ripe |-> file[r] = 0 \/ r \notin waiting] :
                      r \in S}
    BY DEF Listings
  <1>2. ASSUME NEW r \in S
        PROVE  r \in Requests /\ file[r] \in Nat /\ file[r] <= refusals[r]
    BY <1>2 DEF OnDisk, Present, QInv, TypeOK, FilesCounted
  <1>3. ASSUME NEW e \in todo
        PROVE  e \in Listed /\ e.retry <= refusals[e.req]
    <2>1. PICK r \in S :
             e = [req |-> r, retry |-> file[r], ripe |-> file[r] = 0 \/ r \notin waiting]
      BY <1>1
    <2>2. (file[r] = 0 \/ r \notin waiting) \in BOOLEAN
      OBVIOUS
    <2> QED
      BY <1>2, <2>1, <2>2 DEF Listed
  <1> QED
    BY <1>3

-----------------------------------------------------------------------------
(* Steps *)

\* A step that leaves the drains and the refusals alone, adds entries or none,
\* and lets the service accept more: every step of a call.
LEMMA CallPreserves ==
  ASSUME QInv, job' \in [Jobs -> JobStates], faults' \in 0..MaxFaults,
         UNCHANGED <<waiting, drain, refusals>>,
         lapse' \in SUBSET Lapses,
         accepted' \in [Requests -> 0..2],
         \A q \in Requests : accepted[q] <= accepted'[q],
         file' \in [Requests -> Nat \cup {Absent}],
         created' \in [Requests -> Nat],
         unsigned' \in SUBSET Requests,
         \A q \in Requests : file'[q] = file[q] \/ file'[q] = 0,
         \A q \in Requests : created'[q] > 0 => created[q] > 0 \/ file'[q] = 0
  PROVE  QInv'
  <1>1. TypeOK'
    BY DEF QInv, TypeOK
  <1>2. FilesCounted'
    BY DEF QInv, TypeOK, FilesCounted
  <1>3. ListedCounted'
    BY DEF QInv, ListedCounted
  <1>4. HeldRight'
    <2> SUFFICES ASSUME NEW d \in Drains PROVE Holds(drain[d], accepted', refusals)
      BY DEF HeldRight
    <2> QED
      BY HoldsGrow DEF QInv, TypeOK, HeldRight
  <1>5. QueuedIsNotLost'
    <2> SUFFICES ASSUME NEW r \in Requests, created'[r] > 0
                 PROVE  file'[r] # Absent \/ accepted'[r] > 0 \/ refusals[r] >= RetryLimit(r)
      BY DEF QueuedIsNotLost, Present
    <2>1. CASE file'[r] = 0
      BY <2>1 DEF Absent
    <2>2. CASE file'[r] = file[r] /\ created[r] > 0
      BY <2>2 DEF QInv, TypeOK, QueuedIsNotLost, Present
    <2> QED
      BY <2>1, <2>2
  <1> QED
    BY <1>1, <1>2, <1>3, <1>4, <1>5 DEF QInv

LEMMA SyncPreserves ==
  ASSUME QInv, NEW s \in Syncs, SyncStep(s)
  PROVE  QInv'
  <1>t. TypeOK /\ s \in Jobs /\ Text(s) \in Requests /\ Anchor(s) \in Requests
    BY RequestsOf DEF QInv, Jobs
  <1>j. \A x \in JobStates : [job EXCEPT ![s] = x] \in [Jobs -> JobStates]
    BY <1>t DEF TypeOK
  <1>f. /\ faults \in 0..MaxFaults
        /\ MayFault => faults + 1 \in 0..MaxFaults
    BY <1>t, QueueAssumption DEF TypeOK, MayFault
  <1>k. \A q \in Requests : accepted[q] <= accepted[q]
    BY <1>t DEF TypeOK
  <1>1. CASE SyncText(s)
    <2>1. NotEnqueued /\ UNCHANGED <<waiting, drain, refusals, accepted, lapse, faults>>
      BY <1>1 DEF SyncText, NotEnqueued
    <2>2. job' \in [Jobs -> JobStates]
      BY <1>1, <1>j DEF SyncText, JobStates
    <2> QED
      BY <1>t, <1>f, <1>k, <2>1, <2>2, EnqueueTyped, CallPreserves DEF TypeOK
  <1>2. CASE SyncTextOk(s)
    <2>1. NotEnqueued /\ UNCHANGED <<waiting, drain, refusals, lapse, faults>>
      BY <1>2 DEF SyncTextOk, NotEnqueued
    <2>2. job' \in [Jobs -> JobStates]
      BY <1>2, <1>j DEF SyncTextOk, JobStates
    <2>3. accepted' = AcceptedOnceMore(Text(s))
      BY <1>2 DEF SyncTextOk
    <2> QED
      BY <1>t, <1>f, <2>1, <2>2, <2>3, AcceptedTyped, EnqueueTyped, CallPreserves DEF TypeOK
  <1>3. CASE SyncTextFails(s)
    <2>1. /\ AttemptFails(Text(s)) /\ UNCHANGED <<waiting, drain, refusals>>
          /\ Enqueue(Text(s), TRUE) \/ NotEnqueued
      BY <1>3 DEF SyncTextFails, EnqueueFails
    <2>2. job' \in [Jobs -> JobStates]
      BY <1>3, <1>j DEF SyncTextFails, JobStates
    <2>3. faults' \in 0..MaxFaults
      BY <1>3, <1>f DEF SyncTextFails, EnqueueFails
    <2> QED
      BY <1>t, <2>1, <2>2, <2>3, AttemptTyped, EnqueueTyped, CallPreserves
  <1>4. CASE SyncAnchorFails(s)
    <2>1. /\ AttemptFails(Anchor(s)) /\ UNCHANGED <<waiting, drain, refusals>>
          /\ Enqueue(Anchor(s), TRUE) \/ NotEnqueued
      BY <1>4 DEF SyncAnchorFails, EnqueueFails
    <2>2. job' \in [Jobs -> JobStates]
      BY <1>4, <1>j DEF SyncAnchorFails, JobStates
    <2>3. faults' \in 0..MaxFaults
      BY <1>4, <1>f DEF SyncAnchorFails, EnqueueFails
    <2> QED
      BY <1>t, <2>1, <2>2, <2>3, AttemptTyped, EnqueueTyped, CallPreserves
  <1> QED
    BY <1>1, <1>2, <1>3, <1>4 DEF SyncStep

LEMMA CheckpointPreserves ==
  ASSUME QInv, NEW c \in Checkpoints, CheckpointStep(c)
  PROVE  QInv'
  <1>t. TypeOK /\ c \in Jobs /\ Anchor(c) \in Requests
    BY RequestsOf DEF QInv, Jobs
  <1>j. \A x \in JobStates : [job EXCEPT ![c] = x] \in [Jobs -> JobStates]
    BY <1>t DEF TypeOK
  <1>f. /\ faults \in 0..MaxFaults
        /\ MayFault => faults + 1 \in 0..MaxFaults
    BY <1>t, QueueAssumption DEF TypeOK, MayFault
  <1>k. \A q \in Requests : accepted[q] <= accepted[q]
    BY <1>t DEF TypeOK
  <1>1. CASE CheckpointAnchor(c)
    <2>1. NotEnqueued /\ UNCHANGED <<waiting, drain, refusals, accepted, lapse, faults>>
      BY <1>1 DEF CheckpointAnchor, NotEnqueued
    <2>2. job' \in [Jobs -> JobStates]
      BY <1>1, <1>j DEF CheckpointAnchor, JobStates
    <2> QED
      BY <1>t, <1>f, <1>k, <2>1, <2>2, EnqueueTyped, CallPreserves DEF TypeOK
  <1>2. CASE CheckpointAnchorFails(c)
    <2>1. /\ AttemptFails(Anchor(c)) /\ UNCHANGED <<waiting, drain, refusals>>
          /\ Enqueue(Anchor(c), FALSE) \/ NotEnqueued
      BY <1>2 DEF CheckpointAnchorFails, EnqueueFails
    <2>2. job' \in [Jobs -> JobStates]
      BY <1>2, <1>j DEF CheckpointAnchorFails, JobStates
    <2>3. faults' \in 0..MaxFaults
      BY <1>2, <1>f DEF CheckpointAnchorFails, EnqueueFails
    <2> QED
      BY <1>t, <2>1, <2>2, <2>3, AttemptTyped, EnqueueTyped, CallPreserves
  <1> QED
    BY <1>1, <1>2 DEF CheckpointStep

LEMMA AnchorOkPreserves ==
  ASSUME QInv, NEW j \in Jobs, AnchorOk(j)
  PROVE  QInv'
  <1>t. TypeOK /\ Anchor(j) \in Requests
    BY RequestsOf DEF QInv
  <1>1. NotEnqueued /\ UNCHANGED <<waiting, drain, refusals, lapse, faults>>
    BY DEF AnchorOk, NotEnqueued
  <1>2. job' \in [Jobs -> JobStates]
    BY <1>t DEF TypeOK, AnchorOk, JobStates
  <1>3. accepted' = AcceptedOnceMore(Anchor(j))
    BY DEF AnchorOk
  <1> QED
    BY <1>t, <1>1, <1>2, <1>3, AcceptedTyped, EnqueueTyped, CallPreserves DEF TypeOK

\* A step of drain d that gives it the record x.
LEMMA DrainPreserves ==
  ASSUME QInv, NEW d \in Drains, NEW x \in DrainStates,
         drain' = [drain EXCEPT ![d] = x],
         UNCHANGED <<job, created, unsigned>>,
         waiting' \in SUBSET Requests, faults' \in 0..MaxFaults, lapse' \in SUBSET Lapses,
         accepted' \in [Requests -> 0..2], refusals' \in [Requests -> Nat],
         \A q \in Requests : accepted[q] <= accepted'[q] /\ refusals[q] <= refusals'[q],
         Holds(x, accepted', refusals'),
         \A e \in x.todo : e.retry <= refusals[e.req],
         file' \in [Requests -> Nat \cup {Absent}],
         \A q \in Requests : \/ file'[q] = file[q]
                             \/ file'[q] \in Nat /\ file'[q] <= refusals'[q]
                             \/ /\ file'[q] = Absent
                                /\ accepted'[q] > 0 \/ refusals'[q] >= RetryLimit(q)
  PROVE  QInv'
  <1>t. TypeOK
    BY DEF QInv
  <1>d. /\ drain'[d] = x
        /\ \A o \in Drains \ {d} : drain'[o] = drain[o]
    BY <1>t DEF TypeOK
  <1>1. TypeOK'
    BY <1>t DEF TypeOK
  <1>2. FilesCounted'
    <2> SUFFICES ASSUME NEW q \in Requests PROVE file'[q] <= refusals'[q]
      BY DEF FilesCounted
    <2>1. file[q] <= refusals[q] /\ file[q] \in Int /\ refusals[q] \in Nat /\ refusals'[q] \in Nat
      BY <1>t DEF QInv, FilesCounted, TypeOK, Absent
    <2> QED
      BY <2>1 DEF Absent
  <1>3. ListedCounted'
    <2> SUFFICES ASSUME NEW o \in Drains, NEW e \in drain'[o].todo
                 PROVE  e.retry <= refusals'[e.req]
      BY DEF ListedCounted
    <2>1. drain'[o] \in DrainStates
      BY <1>1 DEF TypeOK
    <2>2. e.retry \in Nat /\ e.req \in Requests
      BY <2>1 DEF DrainStates, Listed
    <2>3. e.retry <= refusals[e.req]
      BY <1>d DEF QInv, ListedCounted
    <2>4. refusals[e.req] \in Nat /\ refusals'[e.req] \in Nat
      BY <1>t, <2>2 DEF TypeOK
    <2> QED
      BY <2>2, <2>3, <2>4
  <1>4. HeldRight'
    <2> SUFFICES ASSUME NEW o \in Drains PROVE Holds(drain'[o], accepted', refusals')
      BY DEF HeldRight
    <2>1. CASE o = d
      BY <2>1, <1>d
    <2>2. CASE o # d
      <3>1. drain'[o] = drain[o] /\ drain[o] \in DrainStates
        BY <2>2, <1>d, <1>t DEF TypeOK
      <3>2. Holds(drain[o], accepted, refusals)
        BY DEF QInv, HeldRight
      <3>3. accepted \in [Requests -> 0..2] /\ refusals \in [Requests -> Nat]
        BY <1>t DEF TypeOK
      <3> QED
        BY <3>1, <3>2, <3>3, HoldsGrow
    <2> QED
      BY <2>1, <2>2
  <1>5. QueuedIsNotLost'
    <2> SUFFICES ASSUME NEW r \in Requests, created[r] > 0
                 PROVE  \/ file'[r] # Absent \/ accepted'[r] > 0
                        \/ refusals'[r] >= RetryLimit(r)
      BY DEF QueuedIsNotLost, Present
    <2>1. /\ accepted[r] \in 0..2 /\ accepted'[r] \in 0..2 /\ RetryLimit(r) \in Nat
          /\ refusals[r] \in Nat /\ refusals'[r] \in Nat
      BY <1>t, LimitPositive DEF TypeOK
    <2>2. file[r] # Absent \/ accepted[r] > 0 \/ refusals[r] >= RetryLimit(r)
      BY DEF QInv, QueuedIsNotLost, Present
    <2> QED
      BY <2>1, <2>2 DEF Absent
  <1> QED
    BY <1>1, <1>2, <1>3, <1>4, <1>5 DEF QInv

\* A step of drain d that touches neither files nor counts.
LEMMA DrainMoves ==
  ASSUME QInv, NEW d \in Drains, NEW x \in DrainStates,
         drain' = [drain EXCEPT ![d] = x],
         UNCHANGED <<job, file, created, unsigned, waiting, accepted, refusals>>,
         faults' \in 0..MaxFaults, lapse' \in SUBSET Lapses,
         Holds(x, accepted, refusals),
         \A e \in x.todo : e.retry <= refusals[e.req]
  PROVE  QInv'
  <1>1. /\ waiting \in SUBSET Requests /\ accepted \in [Requests -> 0..2]
        /\ refusals \in [Requests -> Nat] /\ file \in [Requests -> Nat \cup {Absent}]
    BY DEF QInv, TypeOK
  <1>2. \A q \in Requests : accepted[q] <= accepted[q] /\ refusals[q] <= refusals[q]
    BY <1>1
  <1> QED
    BY <1>1, <1>2, DrainPreserves

\* The records the moves of drain d give it, and what they leave to do.
LEMMA MovesTyped ==
  ASSUME QInv, NEW d \in Drains
  PROVE  /\ drain[d] \in DrainStates /\ IdleDrain \in DrainStates
         /\ Holds(drain[d], accepted, refusals)
         /\ \A e \in drain[d].todo : e \in Listed /\ e.retry <= refusals[e.req]
         /\ \A e \in IdleDrain.todo : e.retry <= refusals[e.req]
         /\ faults \in 0..MaxFaults /\ lapse \in SUBSET Lapses
         /\ MayFault => faults + 1 \in 0..MaxFaults
  <1>1. TypeOK /\ drain[d] \in DrainStates
    BY DEF QInv, TypeOK
  <1>2. faults \in 0..MaxFaults /\ lapse \in SUBSET Lapses
    BY <1>1 DEF TypeOK
  <1>3. MayFault => faults + 1 \in 0..MaxFaults
    BY <1>2, QueueAssumption DEF MayFault
  <1>4. IdleDrain \in DrainStates /\ IdleDrain.todo = {}
    BY <1>1, DrainTyped DEF IdleDrain
  <1>5. \A e \in drain[d].todo : e \in Listed
    BY <1>1 DEF DrainStates
  <1> QED
    BY <1>1, <1>2, <1>3, <1>4, <1>5 DEF QInv, HeldRight, ListedCounted

\* The drain goes back to the loop or ends, and files and counts stay.
LEMMA DrainReturns ==
  ASSUME QInv, NEW d \in Drains, GoOn(d) \/ EndDrain(d),
         UNCHANGED <<job, file, created, unsigned, waiting, accepted, refusals>>,
         faults' \in 0..MaxFaults, lapse' \in SUBSET Lapses
  PROVE  QInv'
  <1>t. drain[d] \in DrainStates /\ drain \in [Drains -> DrainStates]
    BY MovesTyped DEF QInv, TypeOK
  <1>1. CASE EndDrain(d)
    <2>1. IdleDrain.pc = "idle"
      BY DEF IdleDrain
    <2>2. Holds(IdleDrain, accepted, refusals)
      BY <2>1, HoldsNothing
    <2>3. drain' = [drain EXCEPT ![d] = IdleDrain]
      BY <1>1 DEF EndDrain
    <2>4. IdleDrain \in DrainStates /\ \A e \in IdleDrain.todo : e.retry <= refusals[e.req]
      BY MovesTyped
    <2> QED
      BY <2>2, <2>3, <2>4, DrainMoves
  <1>2. CASE GoOn(d)
    <2> DEFINE x == [drain[d] EXCEPT !.pc = "walk", !.entry = NoEntry]
    <2>1. x \in DrainStates
      BY <1>t, DrainTyped
    <2>2. x.pc = "walk" /\ x.todo = drain[d].todo
      BY <1>t DEF DrainStates
    <2>3. drain' = [drain EXCEPT ![d] = x]
      BY <1>2, <1>t DEF GoOn
    <2> HIDE DEF x
    <2>4. \A f \in x.todo : f.retry <= refusals[f.req]
      BY <2>2, MovesTyped
    <2>5. Holds(x, accepted, refusals)
      BY <2>2, HoldsNothing
    <2> QED
      BY <2>1, <2>3, <2>4, <2>5, DrainMoves
  <1> QED
    BY <1>1, <1>2

LEMMA ListStepPreserves ==
  ASSUME QInv, NEW d \in Drains,
         DrainBegin(d) \/ DrainAnchors(d) \/ ListAnchorsFails(d) \/ DrainEnds(d)
  PROVE  QInv'
  <1>t. drain[d] \in DrainStates /\ drain \in [Drains -> DrainStates]
    BY MovesTyped DEF QInv, TypeOK
  <1>1. CASE DrainBegin(d)
    <2>1. PICK todo \in Listings("text") :
             drain' = [drain EXCEPT ![d] = [IdleDrain EXCEPT !.pc = "walk", !.todo = todo]]
      BY <1>1 DEF DrainBegin
    <2>2. todo \in SUBSET Listed /\ \A e \in todo : e.retry <= refusals[e.req]
      BY <2>1, ListingTyped
    <2> DEFINE x == [IdleDrain EXCEPT !.pc = "walk", !.todo = todo]
    <2>3. x \in DrainStates /\ x.pc = "walk" /\ x.todo = todo
      BY <2>2 DEF IdleDrain, DrainStates
    <2>4. lapse' \in SUBSET Lapses
      BY <1>1, MovesTyped DEF DrainBegin, Lapses
    <2>5. UNCHANGED <<job, file, created, unsigned, waiting, accepted, refusals, faults>>
      BY <1>1 DEF DrainBegin
    <2>6. drain' = [drain EXCEPT ![d] = x]
      BY <2>1
    <2> HIDE DEF x
    <2>7. faults' \in 0..MaxFaults
      BY <2>5, MovesTyped
    <2>8. Holds(x, accepted, refusals)
      BY <2>3, HoldsNothing
    <2> QED
      BY <2>2, <2>3, <2>4, <2>5, <2>6, <2>7, <2>8, DrainMoves
  <1>2. CASE DrainAnchors(d)
    <2>1. PICK todo \in Listings("anchor") :
             drain' = [drain EXCEPT ![d].kind = "anchor", ![d].todo = todo]
      BY <1>2 DEF DrainAnchors
    <2>2. todo \in SUBSET Listed /\ \A e \in todo : e.retry <= refusals[e.req]
      BY <2>1, ListingTyped
    <2> DEFINE x == [drain[d] EXCEPT !.kind = "anchor", !.todo = todo]
    <2>3. x \in DrainStates /\ x.pc = drain[d].pc /\ x.todo = todo
      BY <1>t, <2>2 DEF DrainStates
    <2>4. /\ UNCHANGED <<job, file, created, unsigned, waiting, accepted, refusals, faults, lapse>>
          /\ drain[d].pc = "walk"
      BY <1>2 DEF DrainAnchors
    <2>5. drain' = [drain EXCEPT ![d] = x]
      BY <1>t, <2>1
    <2> HIDE DEF x
    <2>6. faults' \in 0..MaxFaults /\ lapse' \in SUBSET Lapses
      BY <2>4, MovesTyped
    <2>7. Holds(x, accepted, refusals)
      BY <2>3, <2>4, HoldsNothing
    <2> QED
      BY <2>2, <2>3, <2>4, <2>5, <2>6, <2>7, DrainMoves
  <1>3. CASE ListAnchorsFails(d)
    BY <1>3, MovesTyped, DrainReturns DEF ListAnchorsFails
  <1>4. CASE DrainEnds(d)
    BY <1>4, MovesTyped, DrainReturns DEF DrainEnds
  <1> QED
    BY <1>1, <1>2, <1>3, <1>4

LEMMA WalkStepPreserves ==
  ASSUME QInv, NEW d \in Drains, DiscardCheck(d) \/ Skip(d) \/ Send(d)
  PROVE  QInv'
  <1>t. drain[d] \in DrainStates /\ drain \in [Drains -> DrainStates]
    BY MovesTyped DEF QInv, TypeOK
  <1>u. UNCHANGED <<job, file, created, unsigned, waiting, accepted, refusals, faults, lapse>>
    BY DEF DiscardCheck, Skip, Send
  <1>v. faults' \in 0..MaxFaults /\ lapse' \in SUBSET Lapses
    BY <1>u, MovesTyped
  <1>1. ASSUME NEW e \in drain[d].todo, Reaches(d, e), Pass(d, e)
        PROVE  QInv'
    <2> DEFINE x == [drain[d] EXCEPT !.todo = @ \ {e}]
    <2>1. x \in DrainStates
      BY <1>t, DrainTyped
    <2>2. x.pc = "walk" /\ x.todo = drain[d].todo \ {e}
      BY <1>t, <1>1 DEF DrainStates, Reaches
    <2>3. drain' = [drain EXCEPT ![d] = x]
      BY <1>t, <1>1 DEF Pass
    <2> HIDE DEF x
    <2>4. \A f \in x.todo : f.retry <= refusals[f.req]
      BY <2>2, MovesTyped
    <2>5. Holds(x, accepted, refusals)
      BY <2>2, HoldsNothing
    <2> QED
      BY <1>u, <1>v, <2>1, <2>3, <2>4, <2>5, DrainMoves
  <1>2. ASSUME NEW e \in drain[d].todo, NEW p \in {"sent", "discard"}, Take(d, e, p),
               p = "sent" <=> ~Exhausted(e)
        PROVE  QInv'
    <2> DEFINE x == [drain[d] EXCEPT !.pc = p, !.entry = e, !.todo = @ \ {e}]
    <2>1. x \in DrainStates
      BY <1>t, DrainTyped
    <2>2. x.pc = p /\ x.entry = e /\ x.todo = drain[d].todo \ {e}
      BY <1>t DEF DrainStates
    <2>3. drain' = [drain EXCEPT ![d] = x]
      BY <1>t, <1>2 DEF Take
    <2>4. /\ e \in Listed /\ e.retry \in Nat /\ e.req \in Requests
          /\ e.retry <= refusals[e.req] /\ refusals[e.req] \in Nat
          /\ RetryLimit(e.req) \in Nat
      BY MovesTyped, LimitPositive DEF Listed, QInv, TypeOK
    <2> HIDE DEF x
    <2>5. Holds(x, accepted, refusals)
      BY <1>2, <2>2, <2>4 DEF Holds, Exhausted
    <2>6. \A f \in x.todo : f.retry <= refusals[f.req]
      BY <2>2, MovesTyped
    <2> QED
      BY <1>u, <1>v, <2>1, <2>3, <2>5, <2>6, DrainMoves
  <1>3. CASE DiscardCheck(d)
    <2>1. PICK e \in drain[d].todo :
             /\ Reaches(d, e) /\ Exhausted(e)
             /\ IF Present(e.req) THEN Take(d, e, "discard") ELSE Pass(d, e)
      BY <1>3 DEF DiscardCheck
    <2> QED
      BY <1>1, <1>2, <2>1
  <1>4. CASE Skip(d)
    BY <1>1, <1>4 DEF Skip
  <1>5. CASE Send(d)
    BY <1>2, <1>5 DEF Send
  <1> QED
    BY <1>3, <1>4, <1>5

\* The entry in hand, in every state in which there is one.
LEMMA InHand ==
  ASSUME QInv, NEW d \in Drains,
         drain[d].pc \in {"sent", "submitted", "refused", "discard"}
  PROVE  /\ drain[d].entry \in Listed
         /\ drain[d].entry.req \in Requests /\ drain[d].entry.retry \in Nat
  BY DEF QInv, HeldRight, Holds, Listed

LEMMA AnswerPreserves ==
  ASSUME QInv, NEW d \in Drains, ReplyOk(d) \/ ReplyErr(d) \/ DrainTimeout(d)
  PROVE  QInv'
  <1> DEFINE r == drain[d].entry.req
             Answer(p) == [drain[d] EXCEPT !.pc = p, !.answered = TRUE]
  <1>t. TypeOK /\ drain[d] \in DrainStates /\ drain \in [Drains -> DrainStates]
    BY MovesTyped DEF QInv, TypeOK
  <1>p. drain[d].pc = "sent"
    BY DEF ReplyOk, ReplyErr, DrainTimeout
  <1>r. /\ drain[d].entry \in Listed /\ r \in Requests /\ drain[d].entry.retry \in Nat
        /\ drain[d].entry.retry <= refusals[r] /\ drain[d].entry.retry < RetryLimit(r)
    BY <1>p, InHand DEF QInv, HeldRight, Holds
  <1>u. UNCHANGED <<job, file, created, unsigned, waiting, faults>>
    BY DEF ReplyOk, ReplyErr, DrainTimeout
  <1>v. /\ faults' \in 0..MaxFaults /\ waiting' \in SUBSET Requests
        /\ file' \in [Requests -> Nat \cup {Absent}]
        /\ accepted \in [Requests -> 0..2] /\ refusals \in [Requests -> Nat]
    BY <1>t, <1>u DEF TypeOK
  <1>w. \A q \in Requests : accepted[q] <= accepted[q] /\ refusals[q] <= refusals[q]
    BY <1>v
  <1>a. ASSUME NEW p \in {"submitted", "refused"}
        PROVE  /\ Answer(p) \in DrainStates /\ Answer(p).pc = p
               /\ Answer(p).entry = drain[d].entry
               /\ \A e \in Answer(p).todo : e.retry <= refusals[e.req]
               /\ Answered(d, p) => drain' = [drain EXCEPT ![d] = Answer(p)]
    <2>1. Answer(p) \in DrainStates
      BY <1>t, DrainTyped
    <2>2. Answer(p).pc = p /\ Answer(p).entry = drain[d].entry
          /\ Answer(p).todo = drain[d].todo
      BY <1>t DEF DrainStates
    <2>3. \A e \in Answer(p).todo : e.retry <= refusals[e.req]
      BY <2>2, MovesTyped
    <2>4. Answered(d, p) => drain' = [drain EXCEPT ![d] = Answer(p)]
      BY <1>t DEF Answered
    <2> QED
      BY <2>1, <2>2, <2>3, <2>4
  <1> HIDE DEF Answer
  <1>1. CASE ReplyOk(d)
    <2>1. /\ accepted' = AcceptedOnceMore(r) /\ UNCHANGED <<refusals, lapse>>
          /\ Answered(d, "submitted")
      BY <1>1 DEF ReplyOk
    <2>2. /\ accepted' \in [Requests -> 0..2] /\ accepted'[r] > 0
          /\ \A q \in Requests : accepted[q] <= accepted'[q]
      BY <1>t, <1>r, <2>1, AcceptedTyped
    <2>3. Holds(Answer("submitted"), accepted', refusals')
      BY <1>a, <1>r, <2>2 DEF Holds
    <2>4. lapse' \in SUBSET Lapses
      BY <2>1, MovesTyped
    <2> QED
      BY <1>a, <1>u, <1>v, <1>w, <2>1, <2>2, <2>3, <2>4, DrainPreserves
  <1>2. CASE ReplyErr(d)
    <2>1. /\ AttemptFails(r) /\ refusals' = RefusedOnceMore(r) /\ Answered(d, "refused")
      BY <1>2 DEF ReplyErr
    <2>2. /\ accepted' \in [Requests -> 0..2] /\ lapse' \in SUBSET Lapses
          /\ \A q \in Requests : accepted[q] <= accepted'[q]
      BY <1>t, <1>r, <2>1, AttemptTyped
    <2>3. /\ refusals' \in [Requests -> Nat] /\ drain[d].entry.retry < refusals'[r]
          /\ \A q \in Requests : refusals[q] <= refusals'[q]
      BY <1>t, <1>r, <2>1, RefusedTyped
    <2>4. Holds(Answer("refused"), accepted', refusals')
      BY <1>a, <1>r, <2>3 DEF Holds
    <2> QED
      BY <1>a, <1>u, <1>v, <2>1, <2>2, <2>3, <2>4, DrainPreserves
  <1>3. CASE DrainTimeout(d)
    <2>1. AttemptFails(r) /\ UNCHANGED refusals /\ drain' = [drain EXCEPT ![d] = IdleDrain]
      BY <1>3 DEF DrainTimeout, EndDrain
    <2>2. /\ accepted' \in [Requests -> 0..2] /\ lapse' \in SUBSET Lapses
          /\ \A q \in Requests : accepted[q] <= accepted'[q]
      BY <1>t, <1>r, <2>1, AttemptTyped
    <2>3. Holds(IdleDrain, accepted', refusals')
      BY HoldsNothing DEF IdleDrain
    <2>4. IdleDrain \in DrainStates /\ \A e \in IdleDrain.todo : e.retry <= refusals[e.req]
      BY MovesTyped
    <2> QED
      BY <1>u, <1>v, <1>w, <2>1, <2>2, <2>3, <2>4, DrainPreserves
  <1> QED
    BY <1>1, <1>2, <1>3

\* The drain goes back to the loop or ends, and one file is written or removed.
LEMMA DrainWrites ==
  ASSUME QInv, NEW d \in Drains, GoOn(d) \/ EndDrain(d),
         UNCHANGED <<job, created, unsigned, accepted, refusals, lapse>>,
         waiting' \in SUBSET Requests, faults' \in 0..MaxFaults,
         NEW r \in Requests, NEW v \in Nat \cup {Absent},
         file' = [file EXCEPT ![r] = v],
         \/ v \in Nat /\ v <= refusals[r]
         \/ v = Absent /\ (accepted[r] > 0 \/ refusals[r] >= RetryLimit(r))
  PROVE  QInv'
  <1>t. TypeOK /\ drain[d] \in DrainStates /\ drain \in [Drains -> DrainStates]
    BY MovesTyped DEF QInv, TypeOK
  <1>v. /\ accepted \in [Requests -> 0..2] /\ refusals \in [Requests -> Nat]
        /\ lapse \in SUBSET Lapses /\ file' \in [Requests -> Nat \cup {Absent}]
        /\ \A q \in Requests \ {r} : file'[q] = file[q]
        /\ file'[r] = v
    BY <1>t DEF TypeOK
  <1>w. \A q \in Requests : accepted[q] <= accepted[q] /\ refusals[q] <= refusals[q]
    BY <1>v
  <1>f. \A q \in Requests : \/ file'[q] = file[q]
                            \/ file'[q] \in Nat /\ file'[q] <= refusals[q]
                            \/ /\ file'[q] = Absent
                               /\ accepted[q] > 0 \/ refusals[q] >= RetryLimit(q)
    BY <1>v
  <1>1. CASE EndDrain(d)
    <2>1. Holds(IdleDrain, accepted, refusals)
      BY HoldsNothing DEF IdleDrain
    <2>2. drain' = [drain EXCEPT ![d] = IdleDrain]
      BY <1>1 DEF EndDrain
    <2>3. IdleDrain \in DrainStates /\ \A e \in IdleDrain.todo : e.retry <= refusals[e.req]
      BY MovesTyped
    <2> QED
      BY <1>v, <1>w, <1>f, <2>1, <2>2, <2>3, DrainPreserves
  <1>2. CASE GoOn(d)
    <2> DEFINE x == [drain[d] EXCEPT !.pc = "walk", !.entry = NoEntry]
    <2>1. x \in DrainStates
      BY <1>t, DrainTyped
    <2>2. x.pc = "walk" /\ x.todo = drain[d].todo
      BY <1>t DEF DrainStates
    <2>3. drain' = [drain EXCEPT ![d] = x]
      BY <1>2, <1>t DEF GoOn
    <2> HIDE DEF x
    <2>4. \A f \in x.todo : f.retry <= refusals[f.req]
      BY <2>2, MovesTyped
    <2>5. Holds(x, accepted, refusals)
      BY <2>2, HoldsNothing
    <2> QED
      BY <1>v, <1>w, <1>f, <2>1, <2>3, <2>4, <2>5, DrainPreserves
  <1> QED
    BY <1>1, <1>2

LEMMA FileStepPreserves ==
  ASSUME QInv, NEW d \in Drains,
         \/ DiscardRemove(d) \/ DiscardFails(d)
         \/ RemoveSubmitted(d) \/ RemoveSubmittedFails(d)
         \/ RecordFailure(d) \/ RecordFails(d)
  PROVE  QInv'
  <1> DEFINE r == drain[d].entry.req
  <1>t. TypeOK /\ waiting \in SUBSET Requests
    BY DEF QInv, TypeOK
  <1>h. Holds(drain[d], accepted, refusals)
    BY MovesTyped
  <1>1. CASE DiscardRemove(d)
    <2>1. drain[d].pc = "discard" /\ (GoOn(d) \/ EndDrain(d))
          /\ file' = [file EXCEPT ![r] = Absent] /\ waiting' = waiting \ {r}
          /\ UNCHANGED <<job, created, unsigned, accepted, refusals, faults, lapse>>
      BY <1>1 DEF DiscardRemove, RemoveFails, Removed
    <2>2. r \in Requests /\ refusals[r] >= RetryLimit(r)
      BY <1>h, <2>1, InHand DEF Holds
    <2>3. waiting' \in SUBSET Requests /\ faults' \in 0..MaxFaults
      BY <1>t, <2>1, MovesTyped
    <2> QED
      BY <2>1, <2>2, <2>3, DrainWrites
  <1>2. CASE DiscardFails(d)
    <2>1. GoOn(d) \/ EndDrain(d)
      BY <1>2 DEF DiscardFails, RemoveFails
    <2>2. /\ UNCHANGED <<job, file, created, unsigned, waiting, accepted, refusals, lapse>>
          /\ MayFault /\ faults' = faults + 1
      BY <1>2 DEF DiscardFails
    <2> QED
      BY <2>1, <2>2, MovesTyped, DrainReturns
  <1>3. CASE RemoveSubmitted(d)
    <2>1. /\ drain[d].pc = "submitted" /\ GoOn(d)
          /\ file' = [file EXCEPT ![r] = Absent] /\ waiting' = waiting \ {r}
          /\ UNCHANGED <<job, created, unsigned, accepted, refusals, faults, lapse>>
      BY <1>3 DEF RemoveSubmitted, Removed
    <2>2. r \in Requests /\ accepted[r] > 0
      BY <1>h, <2>1, InHand DEF Holds
    <2>3. waiting' \in SUBSET Requests /\ faults' \in 0..MaxFaults
      BY <1>t, <2>1, MovesTyped
    <2> QED
      BY <2>1, <2>2, <2>3, DrainWrites
  <1>4. CASE RemoveSubmittedFails(d)
    <2>1. /\ GoOn(d) \/ EndDrain(d)
          /\ UNCHANGED <<job, file, created, unsigned, waiting, accepted, refusals>>
          /\ MayFault /\ faults' = faults + 1
      BY <1>4 DEF RemoveSubmittedFails
    <2>2. lapse' \in SUBSET Lapses
      BY <1>4, MovesTyped DEF RemoveSubmittedFails, Lapses
    <2> QED
      BY <2>1, <2>2, MovesTyped, DrainReturns
  <1>5. ASSUME drain[d].pc = "refused", WriteFailure(drain[d].entry), GoOn(d) \/ EndDrain(d),
               UNCHANGED <<job, created, unsigned, accepted, refusals, lapse>>,
               faults' \in 0..MaxFaults
        PROVE  QInv'
    <2> DEFINE n == drain[d].entry.retry
    <2>1. r \in Requests /\ n \in Nat /\ n < refusals[r] /\ refusals[r] \in Nat
      BY <1>5, <1>h, <1>t, InHand DEF Holds, TypeOK
    <2>2. n + 1 \in Nat /\ n + 1 <= refusals[r]
      BY <2>1
    <2>3. file' = [file EXCEPT ![r] = n + 1] /\ waiting' \in SUBSET Requests
      BY <1>5, <1>t, <2>1 DEF WriteFailure
    <2> HIDE DEF n
    <2> QED
      BY <1>5, <2>1, <2>2, <2>3, DrainWrites
  <1>6. CASE RecordFailure(d)
    BY <1>5, <1>6, MovesTyped DEF RecordFailure
  <1>7. CASE RecordFails(d)
    <2>1. /\ drain[d].pc = "refused" /\ EndDrain(d)
          /\ UNCHANGED <<job, created, unsigned, accepted, refusals, lapse>>
          /\ faults' \in 0..MaxFaults /\ lapse' \in SUBSET Lapses
      BY <1>7, MovesTyped DEF RecordFails
    <2>2. CASE WriteFailure(drain[d].entry)
      BY <1>5, <2>1, <2>2
    <2>3. CASE UNCHANGED <<file, waiting>>
      BY <2>1, <2>3, DrainReturns
    <2> QED
      BY <1>7, <2>2, <2>3 DEF RecordFails
  <1> QED
    BY <1>1, <1>2, <1>3, <1>4, <1>6, <1>7

LEMMA CrashPreserves ==
  ASSUME QInv, Crash
  PROVE  QInv'
  <1>t. /\ TypeOK /\ accepted \in [Requests -> 0..2] /\ refusals \in [Requests -> Nat]
        /\ job \in [Jobs -> JobStates] /\ lapse \in SUBSET Lapses
    BY DEF QInv, TypeOK
  <1>u. /\ UNCHANGED <<file, created, unsigned, waiting, refusals>>
        /\ drain' = [d \in Drains |-> IdleDrain]
    BY DEF Crash
  <1>a. /\ accepted' \in [Requests -> 0..2]
        /\ \A q \in Requests : accepted[q] <= accepted'[q]
    <2>1. PICK S \in SUBSET InFlight :
             accepted' = [r \in Requests |->
                             IF r \in S /\ accepted[r] < 2 THEN accepted[r] + 1 ELSE accepted[r]]
      BY DEF Crash
    <2> QED
      BY <1>t, <2>1
  <1>i. IdleDrain \in DrainStates /\ IdleDrain.pc = "idle" /\ IdleDrain.todo = {}
    BY DEF IdleDrain, DrainStates, NoEntry
  <1>1. TypeOK'
    <2>1. job' \in [Jobs -> JobStates]
      BY <1>t DEF Crash, JobStates
    <2>2. faults' \in 0..MaxFaults
      BY <1>t, QueueAssumption DEF TypeOK, Crash, MayFault
    <2>3. lapse' \in SUBSET Lapses
      BY <1>t DEF Crash, Lapses
    <2>4. drain' \in [Drains -> DrainStates]
      BY <1>u, <1>i
    <2> QED
      BY <1>t, <1>u, <1>a, <2>1, <2>2, <2>3, <2>4 DEF TypeOK
  <1>2. FilesCounted'
    BY <1>u DEF QInv, FilesCounted
  <1>3. ListedCounted'
    BY <1>u, <1>i DEF ListedCounted
  <1>4. HeldRight'
    BY <1>u, <1>i, HoldsNothing DEF HeldRight
  <1>5. QueuedIsNotLost'
    <2> SUFFICES ASSUME NEW r \in Requests, created[r] > 0
                 PROVE  file[r] # Absent \/ accepted'[r] > 0 \/ refusals[r] >= RetryLimit(r)
      BY <1>u DEF QueuedIsNotLost, Present
    <2>1. accepted[r] \in 0..2 /\ accepted'[r] \in 0..2 /\ accepted[r] <= accepted'[r]
      BY <1>t, <1>a
    <2>2. file[r] # Absent \/ accepted[r] > 0 \/ refusals[r] >= RetryLimit(r)
      BY DEF QInv, QueuedIsNotLost, Present
    <2> QED
      BY <2>1, <2>2
  <1> QED
    BY <1>1, <1>2, <1>3, <1>4, <1>5 DEF QInv

LEMMA BackoffPreserves ==
  ASSUME QInv, NEW r \in Requests, BackoffElapses(r)
  PROVE  QInv'
  BY DEF BackoffElapses, QInv, TypeOK, FilesCounted, ListedCounted, HeldRight,
         QueuedIsNotLost, Present

LEMMA QueueInit == Init => QInv
  <1> SUFFICES ASSUME Init PROVE QInv
    OBVIOUS
  <1>i. IdleDrain \in DrainStates /\ IdleDrain.pc = "idle" /\ IdleDrain.todo = {}
    BY DEF IdleDrain, DrainStates, NoEntry
  <1>1. TypeOK
    BY <1>i, QueueAssumption DEF Init, TypeOK, JobStates, Absent
  <1>2. FilesCounted
    BY DEF Init, FilesCounted, Absent
  <1>3. ListedCounted
    BY <1>i DEF Init, ListedCounted
  <1>4. HeldRight
    BY <1>i, HoldsNothing DEF Init, HeldRight
  <1>5. QueuedIsNotLost
    BY DEF Init, QueuedIsNotLost
  <1> QED
    BY <1>1, <1>2, <1>3, <1>4, <1>5 DEF QInv

LEMMA QueueStep == QInv /\ [Next]_vars => QInv'
  <1> SUFFICES ASSUME QInv, [Next]_vars PROVE QInv'
    OBVIOUS
  <1>1. ASSUME NEW s \in Syncs, SyncStep(s) PROVE QInv'
    BY <1>1, SyncPreserves
  <1>2. ASSUME NEW c \in Checkpoints, CheckpointStep(c) PROVE QInv'
    BY <1>2, CheckpointPreserves
  <1>3. ASSUME NEW j \in Jobs, AnchorOk(j) PROVE QInv'
    BY <1>3, AnchorOkPreserves
  <1>4. ASSUME NEW d \in Drains, DrainBegin(d) \/ DrainStep(d) PROVE QInv'
    BY <1>4, ListStepPreserves, WalkStepPreserves, AnswerPreserves, FileStepPreserves
       DEF DrainStep
  <1>5. ASSUME NEW r \in Requests, BackoffElapses(r) PROVE QInv'
    BY <1>5, BackoffPreserves
  <1>6. CASE Crash
    BY <1>6, CrashPreserves
  <1>7. CASE UNCHANGED vars
    BY <1>7 DEF vars, QInv, TypeOK, FilesCounted, ListedCounted, HeldRight,
                QueuedIsNotLost, Present
  <1> QED
    BY <1>1, <1>2, <1>3, <1>4, <1>5, <1>6, <1>7 DEF Next

-----------------------------------------------------------------------------
(* Theorems *)

\* The model of queue.rs and its callers keeps its types.
THEOREM QueueTypeCorrect == Spec => []TypeOK
  <1>1. QInv => TypeOK
    BY DEF QInv
  <1> QED
    BY QueueInit, QueueStep, <1>1, PTL DEF Spec

\* A request queued by ffi_sync_text_attestation or submit_to_writersproof_anchor
\* stays on disk until the service accepted it or refused it as often as
\* MAX_TEXT_RETRIES or MAX_ANCHOR_RETRIES allows, however many drains overlap and
\* wherever they time out, fail or crash.
THEOREM QueueLosesNothing == Spec => []QueuedIsNotLost
  <1>1. QInv => QueuedIsNotLost
    BY DEF QInv
  <1> QED
    BY QueueInit, QueueStep, <1>1, PTL DEF Spec
-----------------------------------------------------------------------------
(* The service accepts a request once *)

\* The direct submission of request r is over: the call has gone past it.
Past(r) == job[r.job] \notin (IF r.kind = "text" THEN {"idle", "text"}
                              ELSE {"idle", "text", "anchor"})

\* Submitting it cannot be a second acceptance.
Fresh(r) == Past(r) /\ accepted[r] = 0

Holding == {"sent", "submitted", "refused", "discard"}

\* A request that its call still submits itself is not in the queue.
DirectFirst == \A r \in Requests : ~Past(r) => accepted[r] = 0 /\ ~Present(r)

\* An accepted request has no file but until the drain that submitted it removes it.
FilesFresh ==
    \A r \in Requests : Present(r) /\ accepted[r] # 0 =>
        \E d \in Drains : drain[d].pc = "submitted" /\ drain[d].entry.req = r

\* There is one drain at a time.
OneDrain == \A d, o \in Drains : drain[d].pc # "idle" /\ drain[o].pc # "idle" => d = o

\* What it listed is there once, and none of it was accepted; nor is what it sends.
Walks(d) ==
    /\ drain[d].pc = "idle" => drain[d].todo = {}
    /\ \A e \in drain[d].todo : Fresh(e.req)
    /\ \A e, f \in drain[d].todo : e.req = f.req => e = f
    /\ drain[d].pc \in Holding => \A e \in drain[d].todo : e.req # drain[d].entry.req
    /\ drain[d].pc \in {"sent", "refused"} => Fresh(drain[d].entry.req)

\* ... while no answer was lost, no removal failed and no drains overlapped.
OInv == /\ \A r \in Requests : accepted[r] <= 1
        /\ DirectFirst /\ FilesFresh /\ OneDrain
        /\ \A d \in Drains : Walks(d)

\* A call moves on from submitting request r: the service may have accepted it or
\* the call may have queued it, not both.
LEMMA CallOnce ==
  ASSUME QInv, OInv, NEW j \in Jobs, NEW v \in JobStates,
         job' = [job EXCEPT ![j] = v], UNCHANGED drain,
         NEW r \in Requests, r.job = j, ~Past(r),
         \A q \in Requests : q.job = j /\ Past(q) => Past(q)',
         \A q \in Requests \ {r} : accepted'[q] = accepted[q] /\ file'[q] = file[q],
         Past(r)' \/ (accepted'[r] = 0 /\ file'[r] = Absent),
         accepted'[r] \in {0, 1}, file'[r] = Absent \/ accepted'[r] = 0
  PROVE  OInv'
  <1>a. \A q \in Requests : accepted[q] \in 0..2
    BY DEF QInv, TypeOK
  <1>p. \A q \in Requests : Past(q) => Past(q)' /\ accepted'[q] = accepted[q] /\ file'[q] = file[q]
    <2> SUFFICES ASSUME NEW q \in Requests, Past(q) PROVE Past(q)'
      OBVIOUS
    <2>1. CASE q.job # j
      BY <2>1 DEF Past, QInv, TypeOK
    <2> QED
      BY <2>1
  <1>1. \A q \in Requests : accepted'[q] <= 1
    BY DEF OInv
  <1>2. DirectFirst'
    <2> SUFFICES ASSUME NEW q \in Requests, ~Past(q)' PROVE accepted'[q] = 0 /\ file'[q] = Absent
      BY DEF DirectFirst, Present
    <2> QED
      BY <1>p DEF OInv, DirectFirst, Present
  <1>3. FilesFresh'
    <2> SUFFICES ASSUME NEW q \in Requests, file'[q] # Absent, accepted'[q] # 0
                 PROVE  \E d \in Drains : drain[d].pc = "submitted" /\ drain[d].entry.req = q
      BY DEF FilesFresh, Present
    <2> QED
      BY DEF OInv, DirectFirst, FilesFresh, Present
  <1>4. ASSUME NEW d \in Drains PROVE Walks(d)'
    <2>1. Walks(d)
      BY DEF OInv
    <2>2. \A e \in drain[d].todo : e.req \in Requests
      BY DEF QInv, TypeOK, DrainStates, Listed
    <2>3. drain[d].pc \in {"sent", "refused"} => drain[d].entry.req \in Requests
      BY InHand
    <2> QED
      BY <1>p, <2>1, <2>2, <2>3 DEF Walks, Fresh
  <1>5. OneDrain'
    BY DEF OInv, OneDrain
  <1> QED
    BY <1>1, <1>2, <1>3, <1>4, <1>5 DEF OInv

LEMMA SyncOnce ==
  ASSUME QInv, OInv, NEW s \in Syncs, SyncStep(s), lapse' = {}
  PROVE  OInv'
  <1>t. /\ TypeOK /\ s \in Jobs /\ Text(s) \in Requests /\ Anchor(s) \in Requests
        /\ Text(s).job = s /\ Text(s).kind = "text"
        /\ Anchor(s).job = s /\ Anchor(s).kind = "anchor"
    BY RequestsOf DEF QInv, Jobs, Text, Anchor
  <1>q. \A q \in Requests : q.job = s => q = Text(s) \/ q = Anchor(s)
    BY DEF Requests, Text, Anchor
  <1>k. \A q \in Requests : q.job = s => job[s] \in JobStates /\ q.job \in Jobs
    BY <1>t DEF TypeOK
  <1>1. CASE SyncText(s)
    <2>1. job[s] = "idle" /\ job' = [job EXCEPT ![s] = "text"] /\ UNCHANGED <<drain, accepted, file>>
      BY <1>1 DEF SyncText
    <2>2. ~Past(Text(s)) /\ ~Past(Anchor(s))
      BY <1>t, <2>1 DEF Past
    <2>3. accepted[Text(s)] = 0 /\ file[Text(s)] = Absent
      BY <1>t, <2>2 DEF OInv, DirectFirst, Present
    <2> QED
      BY <1>t, <1>q, <2>1, <2>2, <2>3, CallOnce DEF JobStates
  <1>2. CASE SyncTextOk(s)
    <2>1. /\ job[s] = "text" /\ job' = [job EXCEPT ![s] = "anchor"]
          /\ accepted' = AcceptedOnceMore(Text(s)) /\ UNCHANGED <<drain, file>>
      BY <1>2 DEF SyncTextOk
    <2>2. ~Past(Text(s)) /\ ~Past(Anchor(s)) /\ Past(Text(s))'
      BY <1>t, <2>1 DEF Past, TypeOK
    <2>3. accepted[Text(s)] = 0 /\ file[Text(s)] = Absent
      BY <1>t, <2>2 DEF OInv, DirectFirst, Present
    <2>4. accepted'[Text(s)] = 1 /\ \A q \in Requests \ {Text(s)} : accepted'[q] = accepted[q]
      BY <1>t, <2>1, <2>3 DEF AcceptedOnceMore, TypeOK
    <2>5. "anchor" \in JobStates /\ \A q \in Requests : q.job = s => ~Past(q)
      BY <1>q, <2>2 DEF JobStates
    <2> QED
      BY <1>t, <2>1, <2>2, <2>3, <2>4, <2>5, CallOnce
  <1>3. CASE SyncTextFails(s)
    <2>1. /\ job[s] = "text" /\ UNCHANGED <<drain, accepted>>
          /\ Enqueue(Text(s), TRUE) \/ NotEnqueued
      BY <1>3 DEF SyncTextFails, EnqueueFails, AttemptFails
    <2>2. PICK v \in {"queued", "failed"} : job' = [job EXCEPT ![s] = v]
      BY <1>3 DEF SyncTextFails
    <2>3. ~Past(Text(s)) /\ ~Past(Anchor(s)) /\ Past(Text(s))'
      BY <1>t, <2>1, <2>2 DEF Past, TypeOK
    <2>4. accepted[Text(s)] = 0
      BY <1>t, <2>3 DEF OInv, DirectFirst
    <2>5. \A q \in Requests \ {Text(s)} : file'[q] = file[q]
      BY <1>t, <2>1 DEF Enqueue, NotEnqueued, TypeOK
    <2>6. v \in JobStates /\ \A q \in Requests : q.job = s => ~Past(q)
      BY <1>q, <2>3 DEF JobStates
    <2> QED
      BY <1>t, <2>1, <2>2, <2>3, <2>4, <2>5, <2>6, CallOnce
  <1>4. CASE SyncAnchorFails(s)
    <2>1. /\ job[s] = "anchor" /\ UNCHANGED <<drain, accepted>>
          /\ job' = [job EXCEPT ![s] = "synced"]
          /\ Enqueue(Anchor(s), TRUE) \/ NotEnqueued
      BY <1>4 DEF SyncAnchorFails, EnqueueFails, AttemptFails
    <2>2. ~Past(Anchor(s)) /\ Past(Text(s))' /\ Past(Anchor(s))'
      BY <1>t, <2>1 DEF Past, TypeOK
    <2>3. accepted[Anchor(s)] = 0
      BY <1>t, <2>2 DEF OInv, DirectFirst
    <2>4. \A q \in Requests \ {Anchor(s)} : file'[q] = file[q]
      BY <1>t, <2>1 DEF Enqueue, NotEnqueued, TypeOK
    <2> QED
      BY <1>t, <1>q, <2>1, <2>2, <2>3, <2>4, CallOnce DEF JobStates
  <1> QED
    BY <1>1, <1>2, <1>3, <1>4 DEF SyncStep

LEMMA CheckpointOnce ==
  ASSUME QInv, OInv, NEW c \in Checkpoints, CheckpointStep(c), lapse' = {}
  PROVE  OInv'
  <1>t. /\ TypeOK /\ c \in Jobs /\ Anchor(c) \in Requests
        /\ Anchor(c).job = c /\ Anchor(c).kind = "anchor"
    BY RequestsOf DEF QInv, Jobs, Anchor
  <1>q. \A q \in Requests : q.job = c => q = Anchor(c)
    BY QueueAssumption DEF Requests, Anchor
  <1>1. CASE CheckpointAnchor(c)
    <2>1. job[c] = "idle" /\ job' = [job EXCEPT ![c] = "anchor"] /\ UNCHANGED <<drain, accepted, file>>
      BY <1>1 DEF CheckpointAnchor
    <2>2. ~Past(Anchor(c))
      BY <1>t, <2>1 DEF Past
    <2>3. accepted[Anchor(c)] = 0 /\ file[Anchor(c)] = Absent
      BY <1>t, <2>2 DEF OInv, DirectFirst, Present
    <2> QED
      BY <1>t, <1>q, <2>1, <2>2, <2>3, CallOnce DEF JobStates
  <1>2. CASE CheckpointAnchorFails(c)
    <2>1. /\ job[c] = "anchor" /\ UNCHANGED <<drain, accepted>>
          /\ job' = [job EXCEPT ![c] = "anchored"]
          /\ Enqueue(Anchor(c), FALSE) \/ NotEnqueued
      BY <1>2 DEF CheckpointAnchorFails, EnqueueFails, AttemptFails
    <2>2. ~Past(Anchor(c)) /\ Past(Anchor(c))'
      BY <1>t, <2>1 DEF Past, TypeOK
    <2>3. accepted[Anchor(c)] = 0
      BY <1>t, <2>2 DEF OInv, DirectFirst
    <2>4. \A q \in Requests \ {Anchor(c)} : file'[q] = file[q]
      BY <1>t, <2>1 DEF Enqueue, NotEnqueued, TypeOK
    <2> QED
      BY <1>t, <1>q, <2>1, <2>2, <2>3, <2>4, CallOnce DEF JobStates
  <1> QED
    BY <1>1, <1>2 DEF CheckpointStep

LEMMA AnchorOnce ==
  ASSUME QInv, OInv, NEW j \in Jobs, AnchorOk(j)
  PROVE  OInv'
  <1>t. /\ TypeOK /\ Anchor(j) \in Requests
        /\ Anchor(j).job = j /\ Anchor(j).kind = "anchor"
    BY RequestsOf DEF QInv, Anchor
  <1>1. /\ job[j] = "anchor" /\ UNCHANGED <<drain, file>>
        /\ accepted' = AcceptedOnceMore(Anchor(j))
    BY DEF AnchorOk
  <1>2. PICK v \in {"synced", "anchored"} : job' = [job EXCEPT ![j] = v]
    BY DEF AnchorOk
  <1>3. ~Past(Anchor(j)) /\ \A q \in Requests : q.job = j => Past(q)'
    BY <1>t, <1>1, <1>2 DEF Past, TypeOK
  <1>4. accepted[Anchor(j)] = 0 /\ file[Anchor(j)] = Absent
    BY <1>t, <1>3 DEF OInv, DirectFirst, Present
  <1>5. accepted'[Anchor(j)] = 1 /\ \A q \in Requests \ {Anchor(j)} : accepted'[q] = accepted[q]
    BY <1>t, <1>1, <1>4 DEF AcceptedOnceMore, TypeOK
  <1> QED
    BY <1>t, <1>1, <1>2, <1>3, <1>4, <1>5, CallOnce DEF JobStates

\* A step of drain d while no other drain is under way.
LEMMA WalkOnce ==
  ASSUME QInv, OInv, NEW d \in Drains, NEW x \in DrainStates,
         drain' = [drain EXCEPT ![d] = x], UNCHANGED job,
         \A o \in Drains \ {d} : drain[o].pc = "idle",
         Walks(d)',
         \A q \in Requests : accepted'[q] <= 1,
         \A q \in Requests : ~Past(q) => accepted'[q] = accepted[q] /\ file'[q] = file[q],
         FilesFresh'
  PROVE  OInv'
  <1>d. drain'[d] = x /\ \A o \in Drains \ {d} : drain'[o] = drain[o]
    BY DEF QInv, TypeOK
  <1>1. DirectFirst'
    BY DEF OInv, DirectFirst, Past, Present
  <1>2. OneDrain'
    BY <1>d DEF OneDrain
  <1>3. \A o \in Drains \ {d} : Walks(o)'
    BY <1>d DEF OInv, Walks, Holding
  <1> QED
    BY <1>1, <1>2, <1>3 DEF OInv

\* ... one that changes no file and that the service takes no part in.
LEMMA MoveOnce ==
  ASSUME QInv, OInv, NEW d \in Drains, NEW x \in DrainStates,
         drain' = [drain EXCEPT ![d] = x], UNCHANGED <<job, file, accepted>>,
         \A o \in Drains \ {d} : drain[o].pc = "idle",
         Walks(d)',
         drain[d].pc = "submitted" => file[drain[d].entry.req] = Absent
  PROVE  OInv'
  <1>1. FilesFresh'
    <2> SUFFICES ASSUME NEW q \in Requests, file[q] # Absent, accepted[q] # 0 PROVE FALSE
      BY DEF FilesFresh, Present
    <2>1. PICK o \in Drains : drain[o].pc = "submitted" /\ drain[o].entry.req = q
      BY DEF OInv, FilesFresh, Present
    <2> QED
      BY <2>1
  <1> QED
    BY <1>1, WalkOnce DEF OInv

\* A drain under way is the only one.
LEMMA AloneOnce ==
  ASSUME OInv, NEW d \in Drains, drain[d].pc # "idle"
  PROVE  \A o \in Drains \ {d} : drain[o].pc = "idle"
  BY DEF OInv, OneDrain

\* A drain that goes back to its loop or ends keeps what is left to do.
LEMMA ReturnOnce ==
  ASSUME QInv, OInv, NEW d \in Drains, GoOn(d) \/ EndDrain(d), UNCHANGED <<job, accepted>>
  PROVE  /\ Walks(d)'
         /\ \E x \in DrainStates : drain' = [drain EXCEPT ![d] = x]
         /\ drain'[d].pc \in {"idle", "walk"}
  <1>t. drain[d] \in DrainStates /\ drain \in [Drains -> DrainStates] /\ Walks(d)
    BY MovesTyped DEF QInv, TypeOK, OInv
  <1>1. CASE EndDrain(d)
    <2>1. drain'[d] = IdleDrain /\ IdleDrain.pc = "idle" /\ IdleDrain.todo = {}
      BY <1>1, <1>t DEF EndDrain, IdleDrain
    <2> QED
      BY <1>1, <2>1, MovesTyped DEF Walks, Holding, EndDrain
  <1>2. CASE GoOn(d)
    <2> DEFINE x == [drain[d] EXCEPT !.pc = "walk", !.entry = NoEntry]
    <2>1. x \in DrainStates
      BY <1>t, DrainTyped
    <2>2. x.pc = "walk" /\ x.todo = drain[d].todo
      BY <1>t DEF DrainStates
    <2>3. drain' = [drain EXCEPT ![d] = x] /\ drain'[d] = x
      BY <1>2, <1>t DEF GoOn
    <2> HIDE DEF x
    <2>4. Walks(d)'
      BY <1>t, <2>2, <2>3 DEF Walks, Holding, Fresh, Past
    <2> QED
      BY <2>1, <2>2, <2>3, <2>4
  <1> QED
    BY <1>1, <1>2

\* What a drain lists while none holds an answer was never accepted.
LEMMA ListingFresh ==
  ASSUME QInv, OInv, NEW k, NEW todo \in Listings(k),
         \A o \in Drains : drain[o].pc # "submitted"
  PROVE  /\ \A e \in todo : Fresh(e.req)
         /\ \A e, f \in todo : e.req = f.req => e = f
  <1>1. PICK S \in SUBSET OnDisk(k) :
           todo = {[req |-> r, retry |-> file[r], ripe |-> file[r] = 0 \/ r \notin waiting] :
                      r \in S}
    BY DEF Listings
  <1>2. ASSUME NEW r \in S PROVE Fresh(r)
    <2>1. r \in Requests /\ Present(r)
      BY DEF OnDisk
    <2> QED
      BY <2>1 DEF Fresh, OInv, DirectFirst, FilesFresh
  <1> QED
    BY <1>1, <1>2

LEMMA ListOnce ==
  ASSUME QInv, OInv, NEW d \in Drains, lapse' = {},
         DrainBegin(d) \/ DrainAnchors(d) \/ ListAnchorsFails(d) \/ DrainEnds(d)
  PROVE  OInv'
  <1>t. drain[d] \in DrainStates /\ drain \in [Drains -> DrainStates]
    BY MovesTyped DEF QInv, TypeOK
  <1>1. ASSUME NEW k, NEW todo \in Listings(k), NEW x \in DrainStates,
               x.pc = "walk", x.todo = todo, drain[d].pc \in {"idle", "walk"},
               drain' = [drain EXCEPT ![d] = x], UNCHANGED <<job, file, accepted>>,
               \A o \in Drains \ {d} : drain[o].pc = "idle"
        PROVE  OInv'
    <2>1. \A o \in Drains : drain[o].pc # "submitted"
      BY <1>1
    <2>2. drain'[d] = x
      BY <1>1, <1>t
    <2>3. /\ \A e \in todo : Fresh(e.req)'
          /\ \A e, f \in todo : e.req = f.req => e = f
      BY <1>1, <2>1, ListingFresh DEF Fresh, Past
    <2>4. Walks(d)'
      BY <1>1, <2>2, <2>3 DEF Walks, Holding
    <2> QED
      BY <1>1, <2>4, MoveOnce
  <1>2. CASE DrainBegin(d)
    <2>1. PICK todo \in Listings("text") :
             drain' = [drain EXCEPT ![d] = [IdleDrain EXCEPT !.pc = "walk", !.todo = todo]]
      BY <1>2 DEF DrainBegin
    <2> DEFINE x == [IdleDrain EXCEPT !.pc = "walk", !.todo = todo]
    <2>2. todo \in SUBSET Listed
      BY ListingTyped
    <2>3. x \in DrainStates /\ x.pc = "walk" /\ x.todo = todo
      BY <2>2 DEF IdleDrain, DrainStates, NoEntry
    <2>4. /\ drain[d].pc = "idle" /\ UNCHANGED <<job, file, accepted>>
          /\ \A o \in Drains \ {d} : drain[o].pc = "idle"
      BY <1>2 DEF DrainBegin
    <2> HIDE DEF x
    <2> QED
      BY <1>1, <2>1, <2>3, <2>4 DEF x
  <1>3. CASE DrainAnchors(d)
    <2>1. PICK todo \in Listings("anchor") :
             drain' = [drain EXCEPT ![d].kind = "anchor", ![d].todo = todo]
      BY <1>3 DEF DrainAnchors
    <2> DEFINE x == [drain[d] EXCEPT !.kind = "anchor", !.todo = todo]
    <2>2. todo \in SUBSET Listed
      BY ListingTyped
    <2>3. drain[d].pc = "walk" /\ UNCHANGED <<job, file, accepted>>
      BY <1>3 DEF DrainAnchors
    <2>4. x \in DrainStates /\ x.pc = "walk" /\ x.todo = todo
      BY <1>t, <2>2, <2>3 DEF DrainStates
    <2>5. drain' = [drain EXCEPT ![d] = x]
      BY <1>t, <2>1
    <2> HIDE DEF x
    <2> QED
      BY <1>1, <2>3, <2>4, <2>5, AloneOnce
  <1>4. CASE ListAnchorsFails(d) \/ DrainEnds(d)
    <2>1. drain[d].pc = "walk" /\ EndDrain(d) /\ UNCHANGED <<job, file, accepted>>
      BY <1>4 DEF ListAnchorsFails, DrainEnds
    <2> QED
      BY <2>1, ReturnOnce, MoveOnce, AloneOnce
  <1> QED
    BY <1>2, <1>3, <1>4

LEMMA EntryOnce ==
  ASSUME QInv, OInv, NEW d \in Drains, DiscardCheck(d) \/ Skip(d) \/ Send(d)
  PROVE  OInv'
  <1>t. /\ drain[d] \in DrainStates /\ drain \in [Drains -> DrainStates] /\ Walks(d)
        /\ UNCHANGED <<job, file, accepted>>
    BY MovesTyped DEF QInv, TypeOK, OInv, DiscardCheck, Skip, Send
  <1>1. PICK e \in drain[d].todo :
           /\ drain[d].pc = "walk"
           /\ Pass(d, e) \/ Take(d, e, "discard") \/ Take(d, e, "sent")
    BY DEF DiscardCheck, Skip, Send, Reaches
  <1>2. CASE Pass(d, e)
    <2> DEFINE x == [drain[d] EXCEPT !.todo = @ \ {e}]
    <2>1. x \in DrainStates
      BY <1>t, DrainTyped
    <2>2. x.pc = "walk" /\ x.todo = drain[d].todo \ {e}
      BY <1>t, <1>1 DEF DrainStates
    <2>3. drain' = [drain EXCEPT ![d] = x] /\ drain'[d] = x
      BY <1>2, <1>t DEF Pass
    <2> HIDE DEF x
    <2>4. Walks(d)'
      BY <1>t, <2>2, <2>3 DEF Walks, Holding, Fresh, Past
    <2> QED
      BY <1>t, <1>1, <2>1, <2>2, <2>3, <2>4, MoveOnce, AloneOnce
  <1>3. ASSUME NEW p \in {"discard", "sent"}, Take(d, e, p)
        PROVE  OInv'
    <2> DEFINE x == [drain[d] EXCEPT !.pc = p, !.entry = e, !.todo = @ \ {e}]
    <2>1. x \in DrainStates
      BY <1>t, DrainTyped
    <2>2. x.pc = p /\ x.entry = e /\ x.todo = drain[d].todo \ {e}
      BY <1>t, <1>1 DEF DrainStates
    <2>3. drain' = [drain EXCEPT ![d] = x] /\ drain'[d] = x
      BY <1>3, <1>t DEF Take
    <2> HIDE DEF x
    <2>4. Walks(d)'
      BY <1>t, <2>2, <2>3 DEF Walks, Holding, Fresh, Past
    <2> QED
      BY <1>t, <1>1, <2>1, <2>2, <2>3, <2>4, MoveOnce, AloneOnce
  <1> QED
    BY <1>1, <1>2, <1>3

LEMMA AnswerOnce ==
  ASSUME QInv, OInv, NEW d \in Drains, lapse' = {},
         ReplyOk(d) \/ ReplyErr(d) \/ DrainTimeout(d)
  PROVE  OInv'
  <1> DEFINE r == drain[d].entry.req
             x(p) == [drain[d] EXCEPT !.pc = p, !.answered = TRUE]
  <1>t. /\ drain[d] \in DrainStates /\ drain \in [Drains -> DrainStates] /\ Walks(d)
        /\ drain[d].pc = "sent" /\ r \in Requests
        /\ \A o \in Drains \ {d} : drain[o].pc = "idle"
    BY MovesTyped, InHand, AloneOnce DEF QInv, TypeOK, OInv, ReplyOk, ReplyErr, DrainTimeout
  <1>u. UNCHANGED <<job, file>>
    BY DEF ReplyOk, ReplyErr, DrainTimeout
  <1>x. ASSUME NEW p \in {"submitted", "refused"}
        PROVE  /\ x(p) \in DrainStates /\ x(p).pc = p
               /\ x(p).entry = drain[d].entry /\ x(p).todo = drain[d].todo
               /\ Answered(d, p) => drain' = [drain EXCEPT ![d] = x(p)] /\ drain'[d] = x(p)
    <2>1. x(p) \in DrainStates
      BY <1>t, DrainTyped
    <2>2. x(p).pc = p /\ x(p).entry = drain[d].entry /\ x(p).todo = drain[d].todo
      BY <1>t DEF DrainStates
    <2>3. Answered(d, p) => drain' = [drain EXCEPT ![d] = x(p)] /\ drain'[d] = x(p)
      BY <1>t DEF Answered
    <2> QED
      BY <2>1, <2>2, <2>3
  <1> HIDE DEF x
  <1>1. CASE ReplyOk(d)
    <2>1. accepted' = AcceptedOnceMore(r) /\ Answered(d, "submitted")
      BY <1>1 DEF ReplyOk
    <2>2. Past(r) /\ accepted[r] = 0 /\ accepted \in [Requests -> 0..2]
      BY <1>t DEF Walks, Fresh, QInv, TypeOK
    <2>3. accepted'[r] = 1 /\ \A q \in Requests \ {r} : accepted'[q] = accepted[q]
      BY <1>t, <2>1, <2>2 DEF AcceptedOnceMore
    <2>4. \A e \in drain[d].todo : e.req \in Requests \ {r} /\ Fresh(e.req)
      BY <1>t DEF Walks, Holding, DrainStates, Listed
    <2>5. Walks(d)'
      BY <1>t, <1>u, <1>x, <2>1, <2>3, <2>4 DEF Walks, Holding, Fresh, Past
    <2>6. FilesFresh'
      <3> SUFFICES ASSUME NEW q \in Requests, file[q] # Absent, accepted'[q] # 0
                   PROVE  \E o \in Drains : drain'[o].pc = "submitted" /\ drain'[o].entry.req = q
        BY <1>u DEF FilesFresh, Present
      <3>1. CASE q = r
        BY <3>1, <1>x, <2>1
      <3>2. CASE q # r
        BY <3>2, <1>t, <2>3 DEF OInv, FilesFresh, Present
      <3> QED
        BY <3>1, <3>2
    <2>7. \A q \in Requests : accepted'[q] <= 1
      BY <2>3 DEF OInv
    <2> QED
      BY <1>t, <1>u, <1>x, <2>1, <2>2, <2>3, <2>5, <2>6, <2>7, WalkOnce
  <1>2. CASE ReplyErr(d)
    <2>1. UNCHANGED accepted /\ Answered(d, "refused")
      BY <1>2 DEF ReplyErr, AttemptFails
    <2>2. Walks(d)'
      BY <1>t, <1>u, <1>x, <2>1 DEF Walks, Holding, Fresh, Past
    <2> QED
      BY <1>t, <1>u, <1>x, <2>1, <2>2, MoveOnce
  <1>3. CASE DrainTimeout(d)
    <2>1. UNCHANGED accepted /\ EndDrain(d)
      BY <1>3 DEF DrainTimeout, AttemptFails
    <2> QED
      BY <1>t, <1>u, <2>1, ReturnOnce, MoveOnce
  <1> QED
    BY <1>1, <1>2, <1>3

\* The drain is done with its entry, and the file of it was written or removed.
LEMMA WriteOnce ==
  ASSUME QInv, OInv, NEW d \in Drains, GoOn(d) \/ EndDrain(d),
         UNCHANGED <<job, accepted>>, drain[d].pc # "idle",
         NEW r \in Requests, NEW v, file' = [file EXCEPT ![r] = v],
         v = Absent \/ Fresh(r),
         drain[d].pc = "submitted" => r = drain[d].entry.req /\ v = Absent
  PROVE  OInv'
  <1>f. file'[r] = v /\ \A q \in Requests \ {r} : file'[q] = file[q]
    BY DEF QInv, TypeOK
  <1>o. \A o \in Drains \ {d} : drain[o].pc = "idle"
    BY AloneOnce
  <1>1. FilesFresh'
    <2> SUFFICES ASSUME NEW q \in Requests, file'[q] # Absent, accepted[q] # 0 PROVE FALSE
      BY DEF FilesFresh, Present
    <2>1. q # r /\ file[q] # Absent
      BY <1>f DEF Fresh
    <2>2. PICK o \in Drains : drain[o].pc = "submitted" /\ drain[o].entry.req = q
      BY <2>1 DEF OInv, FilesFresh, Present
    <2> QED
      BY <1>o, <2>1, <2>2
  <1>2. \A q \in Requests : ~Past(q) => file'[q] = file[q]
    BY <1>f DEF Fresh, OInv, DirectFirst, Present
  <1>3. PICK x \in DrainStates : drain' = [drain EXCEPT ![d] = x]
    BY ReturnOnce
  <1> QED
    BY <1>o, <1>1, <1>2, <1>3, ReturnOnce, WalkOnce DEF OInv

LEMMA FileOnce ==
  ASSUME QInv, OInv, NEW d \in Drains, lapse' = {},
         \/ DiscardRemove(d) \/ DiscardFails(d)
         \/ RemoveSubmitted(d) \/ RemoveSubmittedFails(d)
         \/ RecordFailure(d) \/ RecordFails(d)
  PROVE  OInv'
  <1> DEFINE r == drain[d].entry.req
  <1>t. /\ GoOn(d) \/ EndDrain(d)
        /\ UNCHANGED <<job, accepted>>
        /\ drain[d].pc \in {"discard", "submitted", "refused"}
    BY DEF DiscardRemove, DiscardFails, RemoveSubmitted, RemoveSubmittedFails,
           RecordFailure, RecordFails, RemoveFails
  <1>r. r \in Requests
    BY <1>t, InHand
  <1>u. ASSUME UNCHANGED file, drain[d].pc = "submitted" => file[r] = Absent PROVE OInv'
    <2>1. PICK x \in DrainStates : drain' = [drain EXCEPT ![d] = x]
      BY <1>t, ReturnOnce
    <2> QED
      BY <1>t, <1>u, <2>1, ReturnOnce, AloneOnce, MoveOnce
  <1>w. ASSUME WriteFailure(drain[d].entry), drain[d].pc = "refused" PROVE OInv'
    <2>1. Fresh(r)
      BY <1>w DEF OInv, Walks
    <2> QED
      BY <1>t, <1>r, <1>w, <2>1, WriteOnce DEF WriteFailure
  <1>1. CASE DiscardRemove(d) \/ RemoveSubmitted(d)
    <2>1. file' = [file EXCEPT ![r] = Absent]
      BY <1>1 DEF DiscardRemove, RemoveSubmitted, Removed
    <2> QED
      BY <1>t, <1>r, <2>1, WriteOnce
  <1>2. CASE DiscardFails(d)
    BY <1>u, <1>2 DEF DiscardFails
  <1>3. CASE RemoveSubmittedFails(d)
    <2>1. UNCHANGED file /\ file[r] = Absent
      BY <1>3 DEF RemoveSubmittedFails, Present
    <2> QED
      BY <1>u, <2>1
  <1>4. CASE RecordFailure(d)
    BY <1>w, <1>4 DEF RecordFailure
  <1>5. CASE RecordFails(d)
    <2>1. drain[d].pc = "refused"
      BY <1>5 DEF RecordFails
    <2> QED
      BY <1>u, <1>w, <1>5, <2>1 DEF RecordFails
  <1> QED
    BY <1>1, <1>2, <1>3, <1>4, <1>5

\* A crash with no request under way changes nothing the service knows of.
LEMMA CrashOnce ==
  ASSUME QInv, OInv, Crash, lapse' = {}
  PROVE  OInv'
  <1>1. InFlight = {} /\ \A d \in Drains : drain[d].pc # "submitted"
    BY DEF Crash
  <1>2. accepted' = accepted
    <2>1. PICK S \in SUBSET InFlight :
             accepted' = [q \in Requests |->
                             IF q \in S /\ accepted[q] < 2 THEN accepted[q] + 1 ELSE accepted[q]]
      BY DEF Crash
    <2> QED
      BY <1>1, <2>1 DEF QInv, TypeOK
  <1>3. UNCHANGED file /\ \A q \in Requests : Past(q) => Past(q)'
    BY DEF Crash, Past, Requests, Jobs
  <1>4. drain' = [d \in Drains |-> IdleDrain] /\ IdleDrain.pc = "idle" /\ IdleDrain.todo = {}
    BY DEF Crash, IdleDrain
  <1>5. DirectFirst'
    BY <1>2, <1>3 DEF OInv, DirectFirst, Present
  <1>6. FilesFresh'
    BY <1>1, <1>2, <1>3 DEF OInv, FilesFresh, Present
  <1>7. OneDrain' /\ \A d \in Drains : Walks(d)'
    BY <1>4 DEF OneDrain, Walks, Holding
  <1> QED
    BY <1>2, <1>5, <1>6, <1>7 DEF OInv

\* Nothing takes a lapse back.
LEMMA LapsesStay == ASSUME [Next]_vars, lapse' = {} PROVE lapse = {}
  BY DEF Next, vars, SyncStep, SyncText, SyncTextOk, SyncTextFails, SyncAnchorFails,
         CheckpointStep, CheckpointAnchor, CheckpointAnchorFails, AnchorOk, AttemptFails,
         DrainBegin, DrainStep, DrainAnchors, ListAnchorsFails, DrainEnds, DiscardCheck,
         DiscardRemove, DiscardFails, Skip, Send, ReplyOk, ReplyErr, DrainTimeout,
         RemoveSubmitted, RemoveSubmittedFails, RecordFailure, RecordFails,
         BackoffElapses, Crash

OnceInv == QInv /\ (lapse = {} => OInv)

LEMMA OnceInit == Init => OnceInv
  <1> SUFFICES ASSUME Init PROVE OInv
    BY QueueInit DEF OnceInv
  <1>1. IdleDrain.pc = "idle" /\ IdleDrain.todo = {}
    BY DEF IdleDrain
  <1> QED
    BY <1>1 DEF Init, OInv, DirectFirst, FilesFresh, OneDrain, Walks, Holding, Present

LEMMA OnceStep == OnceInv /\ [Next]_vars => OnceInv'
  <1> SUFFICES ASSUME OnceInv, [Next]_vars, lapse' = {} PROVE OInv'
    BY QueueStep DEF OnceInv
  <1>0. QInv /\ OInv
    BY LapsesStay DEF OnceInv
  <1>1. ASSUME NEW s \in Syncs, SyncStep(s) PROVE OInv'
    BY <1>0, <1>1, SyncOnce
  <1>2. ASSUME NEW c \in Checkpoints, CheckpointStep(c) PROVE OInv'
    BY <1>0, <1>2, CheckpointOnce
  <1>3. ASSUME NEW j \in Jobs, AnchorOk(j) PROVE OInv'
    BY <1>0, <1>3, AnchorOnce
  <1>4. ASSUME NEW d \in Drains, DrainBegin(d) \/ DrainStep(d) PROVE OInv'
    BY <1>0, <1>4, ListOnce, EntryOnce, AnswerOnce, FileOnce DEF DrainStep
  <1>5. ASSUME NEW r \in Requests, BackoffElapses(r) PROVE OInv'
    BY <1>0, <1>5 DEF BackoffElapses, OInv, DirectFirst, FilesFresh, OneDrain, Walks,
                      Fresh, Past, Present
  <1>6. CASE Crash
    BY <1>0, <1>6, CrashOnce
  <1>7. CASE UNCHANGED vars
    BY <1>0, <1>7 DEF vars, OInv, DirectFirst, FilesFresh, OneDrain, Walks,
                      Fresh, Past, Present
  <1> QED
    BY <1>1, <1>2, <1>3, <1>4, <1>5, <1>6, <1>7 DEF Next

\* Unless an answer was lost, the file of a submitted entry could not be removed or
\* two drains overlapped, no request that queue.rs or its callers submit is accepted
\* a second time: what a drain sends was listed while its call was over and no
\* drain had submitted it.
THEOREM QueueSubmitsOnce == Spec => []AcceptedOnce
  <1>1. OnceInv => AcceptedOnce
    BY DEF OnceInv, OInv, AcceptedOnce
  <1> QED
    BY OnceInit, OnceStep, <1>1, PTL DEF Spec

=============================================================================
