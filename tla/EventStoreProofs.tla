-------------------------- MODULE EventStoreProofs --------------------------
(***************************************************************************)
(* Theorems about EventStore, for any number of handles, keys, events,     *)
(* days and failures.                                                      *)
(***************************************************************************)
EXTENDS EventStore, FiniteSetTheorems, WellFoundedInduction, TLAPS

-----------------------------------------------------------------------------
(* Extreme elements of sets of row numbers *)

LEMMA HasMin ==
  ASSUME NEW S \in SUBSET Nat, S # {}
  PROVE  /\ Min(S) \in S
         /\ \A y \in S : Min(S) <= y
<1> DEFINE R == {ss \in Nat \X Nat : ss[1] < ss[2]}
<1>1. IsWellFoundedOn(R, Nat)
  BY NatLessThanWellFounded, Zenon DEF OpToRel
<1>2. PICK x \in S : \A y \in S : ~(<<y, x>> \in R)
  <2> HIDE DEF R
  <2> QED BY <1>1, WFMin, Zenon
<1>3. \A y \in S : x <= y
  <2> SUFFICES ASSUME NEW y \in S PROVE x <= y
    OBVIOUS
  <2>1. x \in Nat /\ y \in Nat
    OBVIOUS
  <2>2. ~(y < x)
    BY <1>2, <2>1
  <2> QED BY <2>1, <2>2
<1>4. QED
  BY <1>3 DEF Min

LEMMA HasMax ==
  ASSUME NEW n \in Nat, NEW S \in SUBSET (0 .. n), S # {}
  PROVE  /\ Max(S) \in S
         /\ \A y \in S : y <= Max(S)
<1> DEFINE T == {n - x : x \in S}
<1>1. T \in SUBSET Nat /\ T # {}
  <2>1. \A x \in S : n - x \in Nat
    OBVIOUS
  <2>2. PICK x : x \in S
    OBVIOUS
  <2>3. n - x \in T
    BY <2>2
  <2> QED BY <2>1, <2>3
<1>2. Min(T) \in T /\ \A y \in T : Min(T) <= y
  <2> HIDE DEF T
  <2> QED BY <1>1, HasMin
<1>3. PICK x \in S : Min(T) = n - x
  BY <1>2
<1>4. \A y \in S : y <= x
  <2> SUFFICES ASSUME NEW y \in S PROVE y <= x
    OBVIOUS
  <2>1. n - y \in T
    OBVIOUS
  <2>2. n - x <= n - y
    BY <2>1, <1>2, <1>3
  <2> QED BY <2>2
<1>5. QED
  BY <1>4 DEF Max

LEMMA MaxIs ==
  ASSUME NEW S \in SUBSET Nat, NEW x \in S, \A y \in S : y <= x
  PROVE  Max(S) = x
<1>1. x \in Nat /\ \A y \in S : x >= y
  OBVIOUS
<1>2. Max(S) \in S /\ \A y \in S : Max(S) >= y
  BY <1>1 DEF Max
<1>3. Max(S) \in Nat /\ Max(S) >= x /\ x >= Max(S)
  BY <1>1, <1>2
<1> QED BY <1>1, <1>3

LEMMA MinIs ==
  ASSUME NEW S \in SUBSET Nat, NEW x \in S, \A y \in S : x <= y
  PROVE  Min(S) = x
<1>1. x \in Nat
  OBVIOUS
<1>2. Min(S) \in S /\ \A y \in S : Min(S) <= y
  BY <1>1 DEF Min
<1>3. Min(S) \in Nat /\ Min(S) >= x /\ x >= Min(S)
  BY <1>1, <1>2
<1> QED BY <1>1, <1>3

LEMMA LastType ==
  ASSUME NEW n \in Nat, NEW S \in SUBSET (0 .. n), NEW d \in Nat
  PROVE  Last(S, d) \in Nat
<1>1. CASE S = {}
  BY <1>1 DEF Last
<1>2. CASE S # {}
  <2>1. Max(S) \in S
    BY <1>2, HasMax
  <2>2. Max(S) \in Nat
    <3>1. \A y \in S : y \in Nat
      OBVIOUS
    <3> QED BY <2>1, <3>1, Zenon
  <2> QED BY <1>2, <2>2 DEF Last
<1> QED BY <1>1, <1>2

-----------------------------------------------------------------------------
(* Types *)

LEMMA FileTypes ==
  /\ NoFile \in File
  /\ Placeholder \in File
  /\ \A ids \in SUBSET Nat : Archive(ids) \in File
BY DEF NoFile, Placeholder, Archive, File

Jobs == [step : {"idle", "claimed", "prepared", "moved"}, cut : Nat,
         day : {0} \cup Days]

LEMMA IdleType == Idle \in Jobs
BY DEF Idle, Jobs

LEMMA LogTypes ==
  ASSUME TypeOK
  PROVE  /\ Len(log) \in Nat
         /\ DOMAIN log = 1 .. Len(log)
         /\ \A i \in 1 .. Len(log) : log[i] \in Event
         /\ Unverified \in SUBSET (0 .. Len(log))
         /\ \A c : Old(c) \in SUBSET (0 .. Len(log)) /\ Kept(c) \in SUBSET (0 .. Len(log))
         /\ \A c : Old(c) \subseteq 1 .. Len(log) /\ Kept(c) \subseteq 1 .. Len(log)
<1>1. Len(log) \in Nat /\ DOMAIN log = 1 .. Len(log)
  BY DEF TypeOK
<1>2. \A i \in 1 .. Len(log) : log[i] \in Event
  BY DEF TypeOK
<1>3. active \subseteq 1 .. Len(log) /\ active \subseteq 0 .. Len(log)
  BY <1>1 DEF TypeOK
<1>4. Unverified \subseteq active /\ \A c : Old(c) \subseteq active /\ Kept(c) \subseteq active
  BY DEF Unverified, Old, Kept
<1> QED BY <1>1, <1>2, <1>3, <1>4

\* The transaction of an archive keeps the types of what it changes.
LEMMA MoveOutType ==
  ASSUME TypeOK, MoveOut
  PROVE  /\ active' \subseteq 1 .. Len(log)
         /\ integ' \in [key : Keys \cup {NoKey}, count : Nat, lvs : Nat]
<1>1. Last(Kept(job.cut), 0) \in Nat
  BY LogTypes, LastType
<1> QED BY <1>1, LogTypes DEF MoveOut, TypeOK

LEMMA InitType == Init => TypeOK
BY StoreAssumption, FileTypes DEF Init, TypeOK, Days, Closed, Idle, Event

LEMMA NextType == TypeOK /\ [Next]_vars => TypeOK'
<1> SUFFICES ASSUME TypeOK, [Next]_vars PROVE TypeOK'
  OBVIOUS
<1> USE FileTypes
<1>1. ASSUME NEW s \in Stores, NEW k \in Keys, Open(s, k) PROVE TypeOK'
  <2>1. Last(Unverified, integ.lvs) \in Nat
    BY LogTypes, LastType DEF TypeOK
  <2> QED BY <1>1, <2>1 DEF Open, TypeOK
<1>2. ASSUME NEW s \in Stores, Close(s) PROVE TypeOK'
  BY <1>2 DEF Close, TypeOK, Closed
<1>3. ASSUME NEW s \in Stores, NEW t \in Times, AddSecureEvent(s, t) PROVE TypeOK'
  <2> DEFINE e == [prev |-> store[s].last, t |-> t, mac |-> store[s].key]
  <2>1. e \in Event
    BY DEF TypeOK, Event
  <2>2. log' = Append(log, e)
    BY <1>3 DEF AddSecureEvent
  <2>3. log' \in Seq(Event) /\ Len(log') = Len(log) + 1 /\ Len(log) \in Nat
    <3> HIDE DEF e
    <3> QED BY <2>1, <2>2 DEF TypeOK
  <2>4. active' \subseteq 1 .. Len(log')
    BY <1>3, <2>3 DEF AddSecureEvent, TypeOK
  <2> HIDE DEF e
  <2>5. integ' \in [key : Keys \cup {NoKey}, count : Nat, lvs : Nat]
    <3>1. integ' = [key |-> store[s].key, count |-> integ.count + 1, lvs |-> integ.lvs]
      BY <1>3 DEF AddSecureEvent, TypeOK
    <3>2. store[s].key \in Keys \cup {NoKey} /\ integ.count \in Nat /\ integ.lvs \in Nat
      BY DEF TypeOK
    <3> QED BY <3>1, <3>2
  <2>6. store' \in [Stores -> [key : Keys \cup {NoKey}, last : Nat]]
    BY <1>3, <2>3 DEF AddSecureEvent, TypeOK
  <2>7. UNCHANGED <<job, tmp, final, day, faults, lapse>>
    BY <1>3 DEF AddSecureEvent
  <2> QED BY <2>3, <2>4, <2>5, <2>6, <2>7 DEF TypeOK
<1>4. ASSUME NEW s \in Stores, UpdateFilePath(s) PROVE TypeOK'
  <2>1. \A i \in 1 .. Len(log) : Renamed[i] \in Event
    BY LogTypes DEF Renamed, Event
  <2>2. Renamed \in Seq(Event) /\ Len(Renamed) = Len(log)
    BY <2>1, LogTypes DEF Renamed
  <2> QED BY <1>4, <2>2 DEF UpdateFilePath, TypeOK
<1>5. ASSUME NEW s \in Stores, NEW c \in 2 .. MaxTime + 1, BeginArchive(s, c) PROVE TypeOK'
  <2>1. c \in Nat
    BY StoreAssumption
  <2>2. job' \in Jobs
    BY <1>5, <2>1 DEF BeginArchive, TypeOK, Jobs
  <2>3. final' \in [Days -> File]
    BY <1>5 DEF BeginArchive, TypeOK
  <2> QED BY <1>5, <2>2, <2>3 DEF BeginArchive, TypeOK, Jobs
<1>6. CASE PrepareArchive
  <2>1. job' \in Jobs
    BY <1>6, IdleType DEF PrepareArchive, TypeOK, Jobs
  <2>2. Archive({}) \in File
    OBVIOUS
  <2>3. /\ \/ tmp' = [tmp EXCEPT ![job.day] = Archive({})]
           \/ tmp' = [tmp EXCEPT ![job.day] = NoFile]
        /\ final' = [final EXCEPT ![job.day] = NoFile]
    BY <1>6 DEF PrepareArchive
  <2>4. tmp' \in [Days -> File] /\ final' \in [Days -> File]
    <3>1. tmp \in [Days -> File] /\ final \in [Days -> File] /\ NoFile \in File
      BY DEF TypeOK
    <3>2. final' \in [Days -> File]
      BY <2>3, <3>1, Zenon
    <3>3. tmp' \in [Days -> File]
      BY <2>2, <2>3, <3>1, Zenon
    <3> QED BY <3>2, <3>3
  <2> QED BY <1>6, <2>1, <2>4 DEF PrepareArchive, TypeOK, Jobs
<1>7. CASE CommitArchive
  <2>1. Archive(Old(job.cut)) \in File
    BY LogTypes
  <2> QED BY <1>7, <2>1, MoveOutType DEF CommitArchive, Emptied, TypeOK
<1>8. CASE PromoteArchive
  BY <1>8 DEF PromoteArchive, TypeOK, Idle
<1>9. CASE CommitFails
  <2>1. job' \in Jobs
    BY <1>9, IdleType DEF CommitFails
  <2>2. tmp' \in [Days -> File]
    BY <1>9 DEF CommitFails, TypeOK
  <2>3. faults' \in Nat
    BY <1>9 DEF CommitFails, Fault, TypeOK
  <2> QED BY <1>9, <2>1, <2>2, <2>3 DEF CommitFails, TypeOK, Jobs
<1>10. CASE PromoteFails
  BY <1>10 DEF PromoteFails, Fault, Stranded, TypeOK, Idle
<1>11. CASE Crash
  BY <1>11 DEF Crash, Fault, Stranded, TypeOK, Idle, Closed
<1>12. CASE CrashInCommit
  BY <1>12, MoveOutType DEF CrashInCommit, Fault, Emptied, TypeOK, Idle, Closed
<1>13. CASE Midnight
  <2>1. day' \in Days
    BY <1>13, StoreAssumption DEF Midnight, TypeOK, Days
  <2> QED BY <1>13, <2>1 DEF Midnight, TypeOK
<1>14. CASE UNCHANGED vars
  BY <1>14 DEF vars, TypeOK
<1> QED
  BY <1>1, <1>2, <1>3, <1>4, <1>5, <1>6, <1>7, <1>8, <1>9, <1>10, <1>11,
     <1>12, <1>13, <1>14 DEF Next

\* The tables, the handles, the archive job and the files keep their types.
THEOREM StoreTypeCorrect == Spec => []TypeOK
<1>1. Init => TypeOK
  BY InitType
<1>2. TypeOK /\ [Next]_vars => TypeOK'
  BY NextType
<1> QED BY <1>1, <1>2, PTL DEF Spec

-----------------------------------------------------------------------------
(***************************************************************************)
(* The inductive invariant.  As long as no archive has taken the whole     *)
(* table, the table holds an unbroken end of the history up to its last    *)
(* row, the integrity row counts the whole history and has verified a      *)
(* row of the table (or nothing, when nothing was archived), and the open  *)
(* handle, of which there is at most one, links to the last row.           *)
(***************************************************************************)
UpTo == Len(log)

Suffix == /\ \A i \in active : \A j \in i .. UpTo : j \in active
          /\ active = {} => UpTo = 0

Counted == /\ integ.count = UpTo
           /\ integ.lvs <= UpTo
           /\ integ.lvs > 0 => integ.lvs \in active
           /\ integ.lvs = 0 => active = 1 .. UpTo

Linked == /\ \A i \in 1 .. UpTo : log[i].prev = i - 1
          /\ \A i \in active : log[i].mac = integ.key
          /\ integ.key = NoKey => UpTo = 0

Handles == /\ \A s \in Stores : IsOpen(s) => store[s] = [key |-> integ.key, last |-> UpTo]
           /\ \A r, s \in Stores : IsOpen(r) /\ IsOpen(s) => r = s

\* An archive in the making has something to move and leaves a linked table.
Planned == /\ job.step \in {"claimed", "prepared"} => Old(job.cut) # {}
           /\ job.step = "prepared" => Continues(job.cut)

Sound == Suffix /\ Counted /\ Linked /\ Handles /\ Planned

IInv == TypeOK /\ ("emptied" \notin lapse => Sound)

LEMMA SoundVerifies ==
  ASSUME TypeOK, Sound
  PROVE  /\ Unverified = integ.lvs + 1 .. UpTo
         /\ Last(Unverified, integ.lvs) = UpTo
         /\ Verifies(integ.key)
<1>1. UpTo \in Nat /\ integ.lvs \in Nat /\ integ.lvs <= UpTo
  BY DEF TypeOK, Sound, Counted, UpTo
<1>2. Unverified = integ.lvs + 1 .. UpTo
  <2>1. ASSUME NEW i \in integ.lvs + 1 .. UpTo PROVE i \in active
    <3>1. CASE integ.lvs = 0
      BY <1>1, <2>1, <3>1 DEF Sound, Counted
    <3>2. CASE integ.lvs > 0
      <4>1. integ.lvs \in active /\ i \in integ.lvs .. UpTo
        BY <1>1, <2>1, <3>2 DEF Sound, Counted
      <4> QED BY <4>1 DEF Sound, Suffix
    <3> QED BY <1>1, <3>1, <3>2
  <2>2. ASSUME NEW i \in active, i > integ.lvs PROVE i \in integ.lvs + 1 .. UpTo
    BY <1>1, <2>2 DEF TypeOK, UpTo
  <2> QED BY <1>1, <2>1, <2>2 DEF Unverified
<1>3. ASSUME NEW n \in Nat, integ.lvs <= n
      PROVE  Last(integ.lvs + 1 .. n, integ.lvs) = n
  <2>1. CASE n = integ.lvs
    <3>1. integ.lvs + 1 .. n = {}
      BY <1>1, <2>1
    <3> QED BY <2>1, <3>1 DEF Last
  <2>2. CASE n > integ.lvs
    <3> DEFINE S == integ.lvs + 1 .. n
    <3>1. S \in SUBSET Nat /\ n \in S /\ \A y \in S : y <= n
      BY <1>1, <1>3, <2>2
    <3> HIDE DEF S
    <3>2. Max(S) = n
      BY <3>1, MaxIs
    <3>3. S # {}
      BY <3>1
    <3>4. Last(S, integ.lvs) = n
      BY <3>2, <3>3 DEF Last
    <3> QED BY <3>4 DEF S
  <2> QED BY <1>1, <1>3, <2>1, <2>2
<1>4. Last(Unverified, integ.lvs) = UpTo
  BY <1>1, <1>2, <1>3
<1>5. ASSUME NEW i \in Unverified
      PROVE  log[i].prev = Before(i) /\ log[i].mac = integ.key
  <2>1. i \in Nat /\ i > integ.lvs /\ i <= UpTo /\ i \in active
    BY <1>1, <1>2, <1>5 DEF Unverified
  <2>2. {j \in Unverified : j < i} = integ.lvs + 1 .. i - 1
    BY <1>1, <1>2, <2>1
  <2>3. i - 1 \in Nat /\ integ.lvs <= i - 1
    BY <1>1, <2>1
  <2>4. Before(i) = i - 1
    BY <1>3, <2>2, <2>3 DEF Before
  <2>5. log[i].prev = i - 1 /\ log[i].mac = integ.key
    BY <1>1, <2>1 DEF Sound, Linked
  <2> QED BY <2>4, <2>5
<1>6. integ.lvs + Cardinality(Unverified) = integ.count
  <2>1. integ.lvs + 1 \in Int /\ UpTo \in Int
    BY <1>1
  <2>2. Cardinality(integ.lvs + 1 .. UpTo)
          = IF integ.lvs + 1 > UpTo THEN 0 ELSE UpTo - (integ.lvs + 1) + 1
    BY <2>1, FS_Interval, Zenon
  <2> QED BY <1>1, <1>2, <2>2 DEF Sound, Counted
<1>7. Verifies(integ.key)
  BY <1>5, <1>6 DEF Verifies, Sound, Counted
<1> QED BY <1>2, <1>4, <1>7

\* The transaction leaves an end of the history, all of it verified.
LEMMA MoveOutSound ==
  ASSUME TypeOK, Sound, MoveOut, job.step = "prepared", Kept(job.cut) # {},
         UNCHANGED log
  PROVE  /\ Suffix' /\ Counted' /\ Linked' /\ integ'.key = integ.key
         /\ \A x \in Old(job.cut), y \in Kept(job.cut) : x < y
<1> DEFINE K == Kept(job.cut)
           O == Old(job.cut)
<1>1. UpTo \in Nat /\ UpTo' = UpTo
  BY DEF TypeOK, UpTo
<1>2. K \in SUBSET Nat /\ K \subseteq 1 .. UpTo /\ K # {}
  BY LogTypes DEF UpTo
<1>3. O \in SUBSET (0 .. UpTo) /\ O # {}
  BY LogTypes DEF UpTo, Sound, Planned
<1>4. active = K \cup O /\ K \subseteq active /\ active' = K
  BY DEF Kept, Old, MoveOut
<1>5. Min(K) \in K /\ \A y \in K : Min(K) <= y
  <2> HIDE DEF K
  <2> QED BY <1>2, HasMin
<1>6. Max(O) \in O /\ \A y \in O : y <= Max(O)
  <2> HIDE DEF O
  <2> QED BY <1>1, <1>3, HasMax
<1>7. Max(O) = Min(K) - 1
  <2>1. log[Min(K)].prev = Max(O)
    BY <1>2 DEF Sound, Planned, Continues
  <2>2. log[Min(K)].prev = Min(K) - 1
    BY <1>2, <1>5 DEF Sound, Linked
  <2> QED BY <2>1, <2>2
<1> HIDE DEF K, O
<1>8. ASSUME NEW i \in K, NEW j \in i .. UpTo PROVE j \in K
  <2>1. j \in active
    BY <1>4 DEF Sound, Suffix
  <2>2. i \in Nat /\ Min(K) \in Nat /\ Min(K) <= i /\ i <= j
    <3>1. i \in Nat /\ Min(K) \in Nat /\ Min(K) <= i
      BY <1>2, <1>5
    <3> QED BY <1>1, <3>1
  <2>3. j \notin O
    BY <1>6, <1>7, <2>2
  <2> QED BY <1>4, <2>1, <2>3
<1>9. UpTo \in K /\ UpTo > 0
  <2>1. Min(K) \in 1 .. UpTo
    BY <1>2, <1>5
  <2>2. UpTo \in Min(K) .. UpTo /\ UpTo > 0
    BY <1>1, <2>1
  <2> QED BY <1>5, <1>8, <2>2
<1>10. Max(K) = UpTo
  <2>1. \A y \in K : y <= UpTo
    BY <1>1, <1>2
  <2> QED BY <1>2, <1>9, <2>1, MaxIs
<1>11. Last(K, 0) = UpTo
  BY <1>2, <1>10 DEF Last
<1>12. integ' = [key |-> integ.key, count |-> UpTo, lvs |-> UpTo]
  BY <1>11 DEF MoveOut, TypeOK, K
<1>13. Suffix'
  BY <1>1, <1>2, <1>4, <1>8 DEF Suffix
<1>14. Counted'
  BY <1>1, <1>4, <1>9, <1>12 DEF Counted
<1>15. Linked'
  BY <1>1, <1>4, <1>12 DEF Linked, Sound
<1>16. ASSUME NEW x \in O, NEW y \in K PROVE x < y
  <2>1. x \in Nat /\ y \in Nat /\ Min(K) \in Nat
    <3>1. x \in 0 .. UpTo
      BY <1>3
    <3>2. x \in Nat
      BY <1>1, <3>1
    <3> QED BY <1>2, <1>5, <3>2
  <2> QED BY <1>5, <1>6, <1>7, <2>1
<1> QED BY <1>12, <1>13, <1>14, <1>15, <1>16 DEF K, O

LEMMA InitSound == Init => IInv
<1> SUFFICES ASSUME Init PROVE IInv
  OBVIOUS
<1>1. UpTo = 0 /\ 1 .. UpTo = {}
  BY DEF Init, UpTo
<1>2. Suffix /\ Counted /\ Linked
  BY <1>1 DEF Init, Suffix, Counted, Linked
<1>3. Handles /\ Planned
  BY DEF Init, Handles, Planned, IsOpen, Closed, Idle
<1> QED BY <1>2, <1>3, InitType DEF IInv, Sound

\* Steps that leave the tables alone.
LEMMA TablesKept ==
  ASSUME Sound, UNCHANGED <<log, active, integ>>
  PROVE  Suffix' /\ Counted' /\ Linked'
BY DEF Sound, Suffix, Counted, Linked, UpTo

LEMMA HandlesKept ==
  ASSUME Sound, UNCHANGED log, integ'.key = integ.key,
         store' = store \/ store' = [s \in Stores |-> Closed]
  PROVE  Handles'
BY DEF Sound, Handles, UpTo, IsOpen, Closed

LEMMA PlanKept ==
  ASSUME Sound, UNCHANGED <<log, active, job>>
  PROVE  Planned'
<1>1. \A c : Old(c)' = Old(c) /\ Kept(c)' = Kept(c)
  BY DEF Old, Kept
<1>2. \A c : Continues(c)' = Continues(c)
  BY <1>1 DEF Continues
<1> QED BY <1>1, <1>2 DEF Sound, Planned

LEMMA NoPlan ==
  ASSUME job'.step \notin {"claimed", "prepared"}
  PROVE  Planned'
BY DEF Planned

LEMMA NextSound ==
  ASSUME TypeOK, Sound, [Next]_vars, "emptied" \notin lapse'
  PROVE  Sound'
<1>1. ASSUME NEW s \in Stores, NEW k \in Keys, Open(s, k) PROVE Sound'
  <2>1. UNCHANGED <<log, active, job>>
    BY <1>1 DEF Open
  <2>2. UpTo' = UpTo /\ UpTo \in Nat
    BY <2>1 DEF UpTo, TypeOK
  <2>3. integ' = [key |-> k, count |-> integ.count, lvs |-> UpTo]
    BY <1>1, SoundVerifies DEF Open, TypeOK
  <2>4. k = integ.key \/ (integ.key = NoKey /\ UpTo = 0)
    BY <1>1 DEF Open, Verifies, Sound, Linked
  <2>5. Suffix'
    BY <2>1, <2>2 DEF Sound, Suffix
  <2>6. Counted'
    <3>1. UpTo > 0 => UpTo \in active
      <4> SUFFICES ASSUME UpTo > 0 PROVE UpTo \in active
        OBVIOUS
      <4>1. PICK i \in active : TRUE
        BY DEF Sound, Suffix
      <4>2. i \in 1 .. UpTo
        BY <4>1 DEF TypeOK, UpTo
      <4>3. UpTo \in i .. UpTo
        BY <2>2, <4>2
      <4> QED BY <4>1, <4>3 DEF Sound, Suffix
    <3>2. UpTo = 0 => active = 1 .. UpTo
      BY <2>2 DEF TypeOK, UpTo
    <3> QED BY <2>1, <2>2, <2>3, <3>1, <3>2 DEF Sound, Counted
  <2>7. Linked'
    <3>1. \A i \in active : log[i].mac = k
      BY <2>2, <2>4 DEF Sound, Linked, TypeOK, UpTo
    <3> QED BY <2>1, <2>2, <2>3, <3>1, StoreAssumption DEF Sound, Linked
  <2>8. Handles'
    <3>1. store' = [store EXCEPT ![s] = [key |-> k, last |-> UpTo]]
      BY <1>1, SoundVerifies DEF Open
    <3>2. store'[s] = [key |-> k, last |-> UpTo] /\ \A r \in Stores : r # s => store'[r] = store[r]
      BY <3>1 DEF TypeOK
    <3>3. \A r \in Stores : r # s => store'[r].key = NoKey
      BY <1>1, <3>2 DEF Open, Free, IsOpen
    <3> QED BY <2>2, <2>3, <3>2, <3>3 DEF Handles, IsOpen
  <2>9. Planned'
    BY <2>1, PlanKept
  <2> QED BY <2>5, <2>6, <2>7, <2>8, <2>9 DEF Sound
<1>2. ASSUME NEW s \in Stores, Close(s) PROVE Sound'
  <2>1. Suffix' /\ Counted' /\ Linked' /\ Planned'
    BY <1>2, TablesKept, PlanKept DEF Close
  <2>2. Handles'
    <3>1. \A r \in Stores : IsOpen(r)' => store'[r] = store[r] /\ IsOpen(r)
      BY <1>2 DEF Close, IsOpen, Closed, TypeOK
    <3>2. UpTo' = UpTo /\ integ' = integ
      BY <1>2 DEF Close, UpTo
    <3> QED BY <3>1, <3>2 DEF Sound, Handles
  <2> QED BY <2>1, <2>2 DEF Sound
<1>3. ASSUME NEW s \in Stores, NEW t \in Times, AddSecureEvent(s, t) PROVE Sound'
  <2> DEFINE e == [prev |-> store[s].last, t |-> t, mac |-> store[s].key]
  <2>1. store[s].last = UpTo /\ store[s].key = integ.key /\ integ.key # NoKey
    BY <1>3 DEF AddSecureEvent, Sound, Handles, IsOpen
  <2>2. log \in Seq(Event) /\ log' = Append(log, e) /\ UpTo \in Nat
    BY <1>3 DEF AddSecureEvent, TypeOK, UpTo
  <2>3. e.prev = UpTo /\ e.mac = integ.key
    BY <2>1
  <2>4. /\ UpTo' = UpTo + 1
        /\ \A i \in 1 .. UpTo : log'[i] = log[i]
        /\ log'[UpTo + 1] = e
    <3> HIDE DEF e
    <3> QED BY <2>2 DEF UpTo
  <2> HIDE DEF e
  <2>5. active' = active \cup {UpTo + 1} /\ active \subseteq 1 .. UpTo
    BY <1>3 DEF AddSecureEvent, TypeOK, UpTo
  <2>6. integ' = [key |-> integ.key, count |-> integ.count + 1, lvs |-> integ.lvs]
    BY <1>3, <2>1 DEF AddSecureEvent, TypeOK
  <2>7. Suffix'
    BY <2>2, <2>4, <2>5 DEF Sound, Suffix
  <2>8. Counted'
    <3>1. integ.count = UpTo /\ integ.lvs \in Nat /\ integ.lvs <= UpTo
      BY DEF Sound, Counted, TypeOK
    <3>2. integ.lvs = 0 => active' = 1 .. UpTo + 1
      BY <2>2, <2>5 DEF Sound, Counted
    <3> QED BY <2>2, <2>4, <2>5, <2>6, <3>1, <3>2 DEF Sound, Counted
  <2>9. Linked'
    BY <2>1, <2>2, <2>3, <2>4, <2>5, <2>6 DEF Sound, Linked
  <2>10. Handles'
    <3>1. store' = [store EXCEPT ![s].last = UpTo + 1]
      BY <1>3 DEF AddSecureEvent, UpTo
    <3>2. /\ store'[s] = [key |-> integ.key, last |-> UpTo + 1]
          /\ \A r \in Stores : r # s => store'[r] = store[r]
      BY <2>1, <3>1 DEF TypeOK
    <3>3. \A r \in Stores : IsOpen(r) => r = s
      BY <1>3 DEF AddSecureEvent, Sound, Handles
    <3> QED BY <2>4, <2>6, <3>2, <3>3 DEF Handles, IsOpen
  <2>11. Planned'
    BY <1>3, NoPlan DEF AddSecureEvent, Idle
  <2> QED BY <2>7, <2>8, <2>9, <2>10, <2>11 DEF Sound
<1>4. ASSUME NEW s \in Stores, UpdateFilePath(s) PROVE Sound'
  <2>1. Len(log) = 0
    BY <1>4 DEF UpdateFilePath, Sound, Counted, UpTo
  <2>2. log' = log
    <3>1. DOMAIN log = {} /\ log = [i \in DOMAIN log |-> log[i]]
      BY <2>1 DEF TypeOK
    <3>2. Renamed = log
      BY <3>1 DEF Renamed
    <3> QED BY <1>4, <3>2 DEF UpdateFilePath
  <2>3. UNCHANGED <<active, integ, store, job>>
    BY <1>4 DEF UpdateFilePath
  <2> QED BY <2>2, <2>3, TablesKept, HandlesKept, PlanKept DEF Sound
<1>5. ASSUME NEW s \in Stores, NEW c \in 2 .. MaxTime + 1, BeginArchive(s, c) PROVE Sound'
  <2>1. UNCHANGED <<log, active, integ, store>> /\ Old(c) # {} /\ job'.cut = c
         /\ job'.step = "claimed"
    BY <1>5 DEF BeginArchive
  <2>2. Planned'
    BY <2>1 DEF Planned, Old
  <2> QED BY <2>1, <2>2, TablesKept, HandlesKept DEF Sound
<1>6. CASE PrepareArchive
  <2>1. UNCHANGED <<log, active, integ, store>>
    BY <1>6 DEF PrepareArchive
  <2>2. CASE Continues(job.cut)
    <3>1. job' = [job EXCEPT !.step = "prepared"] /\ job.step = "claimed"
      BY <1>6, <2>2 DEF PrepareArchive
    <3>2. job'.cut = job.cut
      BY <3>1 DEF TypeOK
    <3>3. Old(job.cut) # {} /\ Old(job.cut)' = Old(job.cut) /\ Kept(job.cut)' = Kept(job.cut)
      BY <2>1, <3>1, <3>2 DEF Sound, Planned, Old, Kept
    <3>4. Planned'
      BY <2>1, <2>2, <3>2, <3>3 DEF Planned, Continues
    <3> QED BY <2>1, <3>4, TablesKept, HandlesKept DEF Sound
  <2>3. CASE ~Continues(job.cut)
    <3>1. Planned'
      BY <1>6, <2>3, NoPlan DEF PrepareArchive, Idle
    <3> QED BY <2>1, <3>1, TablesKept, HandlesKept DEF Sound
  <2> QED BY <2>2, <2>3
<1>7. CASE CommitArchive
  <2>1. Kept(job.cut) # {}
    BY <1>7 DEF CommitArchive, Emptied
  <2>2. Suffix' /\ Counted' /\ Linked' /\ integ'.key = integ.key
    BY <1>7, <2>1, MoveOutSound DEF CommitArchive
  <2>3. Handles'
    BY <1>7, <2>2, HandlesKept DEF CommitArchive
  <2>4. job'.step = "moved"
    BY <1>7 DEF CommitArchive, TypeOK
  <2> QED BY <2>2, <2>3, <2>4, NoPlan DEF Sound
<1>8. CASE PromoteArchive \/ CommitFails \/ PromoteFails \/ Crash
  <2>1. UNCHANGED <<log, active, integ>> /\ job' = Idle
    BY <1>8 DEF PromoteArchive, CommitFails, PromoteFails, Crash
  <2>2. store' = store \/ store' = [s \in Stores |-> Closed]
    BY <1>8 DEF PromoteArchive, CommitFails, PromoteFails, Crash
  <2> QED BY <2>1, <2>2, TablesKept, HandlesKept, NoPlan DEF Sound, Idle
<1>9. CASE CrashInCommit
  <2>1. Kept(job.cut) # {}
    BY <1>9 DEF CrashInCommit, Emptied
  <2>2. Suffix' /\ Counted' /\ Linked' /\ integ'.key = integ.key
    BY <1>9, <2>1, MoveOutSound DEF CrashInCommit
  <2>3. Handles'
    BY <1>9, <2>2, HandlesKept DEF CrashInCommit
  <2> QED BY <1>9, <2>2, <2>3, NoPlan DEF Sound, CrashInCommit, Idle
<1>10. CASE Midnight \/ UNCHANGED vars
  <2>1. UNCHANGED <<log, active, integ, store, job>>
    BY <1>10 DEF Midnight, vars
  <2> QED BY <2>1, TablesKept, HandlesKept, PlanKept DEF Sound
<1> QED
  BY <1>1, <1>2, <1>3, <1>4, <1>5, <1>6, <1>7, <1>8, <1>9, <1>10 DEF Next

\* A lapse is never forgotten.
LEMMA LapseStays == [Next]_vars => lapse \subseteq lapse'
BY DEF Next, vars, Open, Close, AddSecureEvent, UpdateFilePath, BeginArchive,
       PrepareArchive, CommitArchive, PromoteArchive, CommitFails, PromoteFails,
       Crash, CrashInCommit, Midnight

LEMMA NextIInv == IInv /\ [Next]_vars => IInv'
BY NextType, NextSound, LapseStays DEF IInv

\* Whatever inserts, reopens, archives and failures came before, the store
\* passes verify_integrity with its key, unless an archive emptied the table.
THEOREM StoreStaysVerifiable == Spec => []StoreVerifies
<1>1. Init => IInv
  BY InitSound
<1>2. IInv /\ [Next]_vars => IInv'
  BY NextIInv
<1>3. IInv => StoreVerifies
  BY SoundVerifies DEF IInv, StoreVerifies
<1> QED BY <1>1, <1>2, <1>3, PTL DEF Spec

-----------------------------------------------------------------------------
(***************************************************************************)
(* Where the rows are.  Archives and tmp files name only rows that exist,  *)
(* and the archive that is being made has no name yet.                     *)
(***************************************************************************)
Moving(i) == job.step = "moved" /\ i \in tmp[job.day].ids

Filed == /\ \A d \in Days : final[d].ids \subseteq 1 .. UpTo
         /\ \A i \in tmp[job.day].ids : job.step = "moved" => i \in 1 .. UpTo
         /\ job.step # "idle" => job.day \in Days /\ final[job.day].ids = {}

\* Row i is in exactly one of the table, one archive, and the tmp file.
Once(i) ==
  \/ /\ i \in active /\ ~Moving(i)
     /\ \A d \in Days : i \notin final[d].ids
  \/ /\ i \notin active /\ Moving(i)
     /\ \A d \in Days : i \notin final[d].ids
  \/ /\ i \notin active /\ ~Moving(i)
     /\ \E d \in Days : /\ i \in final[d].ids
                        /\ \A e \in Days : i \in final[e].ids => e = d

Placed == lapse \cap {"stranded", "split"} = {} => \A i \in 1 .. UpTo : Once(i)

\* What was archived, or is about to be, is older than what is left.
Older == "emptied" \notin lapse =>
           \A i \in active : /\ \A d \in Days : \A a \in final[d].ids : a < i
                            /\ \A a \in tmp[job.day].ids : Moving(a) => a < i

LEMMA OnceMeansOne ==
  ASSUME NEW i, Once(i), TypeOK, Filed
  PROVE  Cardinality(Copies(i)) = 1
<1>1. ASSUME NEW x, Copies(i) = {x} PROVE Cardinality(Copies(i)) = 1
  BY <1>1, FS_Singleton
<1>2. CASE i \in active
  <2>1. Copies(i) = {<<"table", 0>>}
    BY <1>2 DEF Once, Copies, Moving
  <2> QED BY <1>1, <2>1
<1>3. CASE i \notin active /\ Moving(i)
  <2>1. job.day \in Days
    BY <1>3 DEF Moving, Filed
  <2>2. Copies(i) = {<<"tmp", job.day>>}
    BY <1>3, <2>1 DEF Once, Copies, Moving
  <2> QED BY <1>1, <2>2
<1>4. CASE i \notin active /\ ~Moving(i)
  <2>1. PICK d \in Days : i \in final[d].ids /\ \A e \in Days : i \in final[e].ids => e = d
    BY <1>4 DEF Once
  <2>2. Copies(i) = {<<"archive", d>>}
    BY <1>4, <2>1 DEF Copies, Moving
  <2> QED BY <1>1, <2>2
<1> QED BY <1>2, <1>3, <1>4

LEMMA InitPlaced == Init => Filed /\ Placed /\ Older
BY DEF Init, Filed, Placed, Older, Idle, NoFile, UpTo, Moving

\* Steps that move nothing: no row is added, the table stays, and the files
\* differ only where they hold nothing.
LEMMA NothingMoves ==
  ASSUME Filed, Placed, Older, UpTo' = UpTo, active' = active, lapse \subseteq lapse',
         \A d \in Days : final'[d].ids = final[d].ids,
         \A i : Moving(i)' => Moving(i),
         \A i : Moving(i) => Moving(i)' \/ "stranded" \in lapse',
         job'.step # "idle" => job'.day \in Days /\ final'[job'.day].ids = {}
  PROVE  (Filed /\ Placed /\ Older)'
<1>1. Filed'
  BY DEF Filed, Moving
<1>2. Placed'
  <2> SUFFICES ASSUME lapse' \cap {"stranded", "split"} = {}, NEW i \in 1 .. UpTo
               PROVE  Once(i)'
    BY DEF Placed
  <2>1. Once(i)
    BY DEF Placed
  <2>2. Moving(i)' = Moving(i)
    BY DEF Moving
  <2> QED BY <2>1, <2>2 DEF Once
<1>3. Older'
  <2>1. \A a \in tmp'[job'.day].ids : Moving(a)' => a \in tmp[job.day].ids /\ Moving(a)
    BY DEF Moving
  <2> QED BY <2>1 DEF Older
<1> QED BY <1>1, <1>2, <1>3

LEMMA NextPlaced ==
  ASSUME IInv, Filed, Placed, Older, [Next]_vars
  PROVE  (Filed /\ Placed /\ Older)'
<1>0. TypeOK /\ UpTo \in Nat /\ lapse \subseteq lapse'
  BY LapseStays DEF IInv, TypeOK, UpTo
<1>1. ASSUME NEW s \in Stores, NEW k \in Keys, Open(s, k) PROVE (Filed /\ Placed /\ Older)'
  <2>1. UNCHANGED <<log, active, job, tmp, final, lapse>>
    BY <1>1 DEF Open
  <2> QED BY <2>1, NothingMoves DEF UpTo, Moving, Filed
<1>2. ASSUME NEW s \in Stores, Close(s) PROVE (Filed /\ Placed /\ Older)'
  <2>1. UNCHANGED <<log, active, job, tmp, final, lapse>>
    BY <1>2 DEF Close
  <2> QED BY <2>1, NothingMoves DEF UpTo, Moving, Filed
<1>3. ASSUME NEW s \in Stores, NEW t \in Times, AddSecureEvent(s, t)
      PROVE (Filed /\ Placed /\ Older)'
  <2>1. /\ UNCHANGED <<job, tmp, final, lapse>> /\ job.step = "idle"
        /\ active' = active \cup {UpTo + 1}
        /\ log' = Append(log, [prev |-> store[s].last, t |-> t, mac |-> store[s].key])
    BY <1>3 DEF AddSecureEvent, UpTo, Idle
  <2>2. UpTo' = UpTo + 1
    <3>1. [prev |-> store[s].last, t |-> t, mac |-> store[s].key] \in Event
      BY <1>0 DEF Event, TypeOK
    <3> QED BY <1>0, <2>1, <3>1 DEF TypeOK, UpTo
  <2>3. Filed'
    BY <1>0, <2>1, <2>2 DEF Filed
  <2>4. ASSUME lapse' \cap {"stranded", "split"} = {}, NEW i \in 1 .. UpTo + 1
        PROVE  Once(i)'
    <3>1. CASE i \in 1 .. UpTo
      <4>1. Once(i) /\ i # UpTo + 1
        BY <1>0, <2>1, <2>4, <3>1 DEF Placed
      <4> QED BY <2>1, <4>1 DEF Once, Moving
    <3>2. CASE i = UpTo + 1
      <4>1. \A d \in Days : i \notin final[d].ids
        BY <1>0, <3>2 DEF Filed
      <4> QED BY <2>1, <3>2, <4>1 DEF Once, Moving
    <3> QED BY <1>0, <3>1, <3>2
  <2>5. Placed'
    BY <2>2, <2>4 DEF Placed
  <2>6. Older'
    <3>1. \A d \in Days : \A a \in final[d].ids : a < UpTo + 1
      BY <1>0 DEF Filed
    <3> QED BY <2>1, <3>1 DEF Older, Moving
  <2> QED BY <2>3, <2>5, <2>6
<1>4. ASSUME NEW s \in Stores, UpdateFilePath(s) PROVE (Filed /\ Placed /\ Older)'
  <2>1. UNCHANGED <<active, job, tmp, final, lapse>> /\ log' = Renamed
    BY <1>4 DEF UpdateFilePath
  <2>2. UpTo' = UpTo
    <3>1. DOMAIN log = 1 .. Len(log) /\ Len(log) \in Nat
      BY <1>0, LogTypes
    <3>2. Len(Renamed) = Len(log)
      BY <3>1 DEF Renamed
    <3> QED BY <2>1, <3>2 DEF UpTo
  <2> QED BY <2>1, <2>2, NothingMoves DEF Moving, Filed
<1>5. ASSUME NEW s \in Stores, NEW c \in 2 .. MaxTime + 1, BeginArchive(s, c)
      PROVE (Filed /\ Placed /\ Older)'
  <2>1. /\ UNCHANGED <<log, active, tmp, lapse>>
        /\ job.step = "idle" /\ job'.step = "claimed" /\ job'.day = day
        /\ final[day] = NoFile /\ final' = [final EXCEPT ![day] = Placeholder]
    BY <1>5 DEF BeginArchive, Idle
  <2>2. day \in Days /\ \A d \in Days : final'[d].ids = final[d].ids
    <3>1. day \in Days /\ final \in [Days -> File]
      BY <1>0 DEF TypeOK
    <3>2. final'[day] = Placeholder /\ \A d \in Days : d # day => final'[d] = final[d]
      BY <2>1, <3>1, Zenon
    <3>3. NoFile.ids = {} /\ Placeholder.ids = {}
      BY DEF NoFile, Placeholder
    <3> QED BY <2>1, <3>1, <3>2, <3>3
  <2>3. final'[day].ids = {}
    BY <2>1, <2>2 DEF NoFile
  <2> QED BY <1>0, <2>1, <2>2, <2>3, NothingMoves DEF UpTo, Moving
<1>6. CASE PrepareArchive
  <2>1. /\ UNCHANGED <<log, active, lapse>> /\ job.step = "claimed"
        /\ final' = [final EXCEPT ![job.day] = NoFile]
        /\ job' = Idle \/ job' = [job EXCEPT !.step = "prepared"]
    BY <1>6 DEF PrepareArchive
  <2>2. job'.step \in {"idle", "prepared"} /\ (job'.step # "idle" => job'.day = job.day)
    BY <1>0, <2>1 DEF TypeOK, Idle
  <2>3. job.day \in Days /\ final[job.day].ids = {}
    BY <2>1 DEF Filed
  <2>4. \A d \in Days : final'[d].ids = final[d].ids
    BY <1>0, <2>1, <2>3 DEF TypeOK, NoFile
  <2> QED BY <1>0, <2>1, <2>2, <2>3, <2>4, NothingMoves DEF UpTo, Moving
<1>7. CASE CommitArchive
  <2> DEFINE O == Old(job.cut)
  <2>1. /\ UNCHANGED <<log, final>> /\ job.step = "prepared" /\ MoveOut
        /\ tmp' = [tmp EXCEPT ![job.day] = Archive(O)]
        /\ job' = [job EXCEPT !.step = "moved"]
    BY <1>7 DEF CommitArchive
  <2>2. job'.step = "moved" /\ job'.day = job.day
    BY <1>0, <2>1 DEF TypeOK
  <2>3. job.day \in Days /\ final[job.day].ids = {}
    BY <2>1 DEF Filed
  <2>4. tmp'[job'.day].ids = O
    BY <1>0, <2>1, <2>2, <2>3 DEF TypeOK, Archive
  <2>5. UpTo' = UpTo /\ active' = active \ O /\ O \subseteq active /\ active \subseteq 1 .. UpTo
    BY <1>0, <2>1 DEF UpTo, MoveOut, Kept, Old, TypeOK
  <2>6. \A i : ~Moving(i) /\ (Moving(i)' <=> i \in O)
    <3> HIDE DEF O
    <3> QED BY <2>1, <2>2, <2>4 DEF Moving
  <2>7. Filed'
    <3> HIDE DEF O
    <3> QED BY <2>1, <2>2, <2>3, <2>4, <2>5 DEF Filed
  <2>8. Placed'
    <3> SUFFICES ASSUME lapse' \cap {"stranded", "split"} = {}, NEW i \in 1 .. UpTo
                 PROVE  Once(i)'
      BY <2>5 DEF Placed
    <3>1. Once(i)
      BY <1>0 DEF Placed
    <3> HIDE DEF O
    <3> QED BY <2>1, <2>5, <2>6, <3>1 DEF Once
  <2>9. Older'
    <3> SUFFICES ASSUME "emptied" \notin lapse'
                 PROVE  \A i \in active' :
                          /\ \A d \in Days : \A a \in final[d].ids : a < i
                          /\ \A a \in O : a < i
      BY <2>1, <2>4 DEF Older
    <3>1. \A a \in O, i \in active' : a < i
      <4>1. Sound /\ Kept(job.cut) # {}
        BY <1>0, <1>7 DEF CommitArchive, Emptied, IInv
      <4>2. \A x \in Old(job.cut), y \in Kept(job.cut) : x < y
        BY <1>0, <2>1, <4>1, MoveOutSound
      <4>3. active' = Kept(job.cut)
        BY <2>1 DEF MoveOut
      <4> QED BY <4>2, <4>3
    <3>2. \A i \in active' : \A d \in Days : \A a \in final[d].ids : a < i
      BY <1>0, <2>5 DEF Older
    <3> QED BY <3>1, <3>2
  <2> QED BY <2>7, <2>8, <2>9
<1>8. CASE PromoteArchive
  <2>1. /\ UNCHANGED <<log, active, lapse>> /\ job.step = "moved"
        /\ final' = [final EXCEPT ![job.day] = tmp[job.day]]
        /\ job'.step = "idle"
    BY <1>8 DEF PromoteArchive, Idle
  <2>2. job.day \in Days /\ final[job.day].ids = {}
    BY <2>1 DEF Filed
  <2>3. /\ final'[job.day].ids = tmp[job.day].ids
        /\ \A d \in Days : d # job.day => final'[d] = final[d]
    BY <1>0, <2>1, <2>2 DEF TypeOK
  <2>4. UpTo' = UpTo
    BY <2>1 DEF UpTo
  <2>5. Filed'
    BY <2>1, <2>2, <2>3, <2>4 DEF Filed
  <2>6. Placed'
    <3> SUFFICES ASSUME lapse' \cap {"stranded", "split"} = {}, NEW i \in 1 .. UpTo
                 PROVE  Once(i)'
      BY <2>4 DEF Placed
    <3>1. Once(i)
      BY <2>1 DEF Placed
    <3>2. ~Moving(i)' /\ (Moving(i) <=> i \in tmp[job.day].ids)
      BY <2>1 DEF Moving
    <3>3. CASE Moving(i)
      BY <2>1, <2>2, <2>3, <3>1, <3>2, <3>3 DEF Once
    <3>4. CASE ~Moving(i)
      <4>1. \A d \in Days : i \in final'[d].ids <=> i \in final[d].ids
        BY <2>2, <2>3, <3>2, <3>4
      <4> QED BY <2>1, <3>1, <3>2, <3>4, <4>1 DEF Once
    <3> QED BY <3>3, <3>4
  <2>7. Older'
    BY <2>1, <2>2, <2>3 DEF Older, Moving
  <2> QED BY <2>5, <2>6, <2>7
<1>9. CASE CommitFails
  <2>1. UNCHANGED <<log, active, final, lapse>> /\ job.step = "prepared" /\ job'.step = "idle"
    BY <1>9 DEF CommitFails, Idle
  <2> QED BY <1>0, <2>1, NothingMoves DEF UpTo, Moving
<1>10. CASE PromoteFails \/ Crash
  <2>1. /\ UNCHANGED <<log, active, final>> /\ job'.step = "idle"
        /\ job.step = "moved" => "stranded" \in lapse'
    BY <1>10 DEF PromoteFails, Crash, Idle, Stranded
  <2> QED BY <1>0, <2>1, NothingMoves DEF UpTo, Moving
<1>11. CASE CrashInCommit
  <2>1. /\ UNCHANGED <<log, final>> /\ job'.step = "idle" /\ "split" \in lapse'
        /\ active' \subseteq active
    BY <1>11 DEF CrashInCommit, Idle, MoveOut, Kept
  <2> QED BY <1>0, <2>1 DEF Filed, Placed, Older, UpTo, Moving
<1>12. CASE Midnight \/ UNCHANGED vars
  <2>1. UNCHANGED <<log, active, job, tmp, final, lapse>>
    BY <1>12 DEF Midnight, vars
  <2> QED BY <2>1, NothingMoves DEF UpTo, Moving, Filed
<1> QED
  BY <1>1, <1>2, <1>3, <1>4, <1>5, <1>6, <1>7, <1>8, <1>9, <1>10, <1>11, <1>12 DEF Next

Inv == IInv /\ Filed /\ Placed /\ Older

LEMMA Inductive == Spec => []Inv
<1>1. Init => Inv
  BY InitSound, InitPlaced DEF Inv
<1>2. Inv /\ [Next]_vars => Inv'
  BY NextIInv, NextPlaced DEF Inv
<1> QED BY <1>1, <1>2, PTL DEF Spec

\* No step of an archive, no failure and no crash loses or doubles a row,
\* unless it strands the tmp file or splits the commit.
THEOREM RowsKeptOnce == Spec => []EachEventOnce
<1>1. Inv => EachEventOnce
  BY OnceMeansOne DEF Inv, IInv, Placed, EachEventOnce, UpTo
<1> QED BY <1>1, Inductive, PTL

\* The archives and the table are one linked history, oldest rows archived.
THEOREM HistoryStaysOneChain == Spec => []ChainSpans
<1>1. Inv => ChainSpans
  <2> SUFFICES ASSUME Inv, "emptied" \notin lapse, NEW i \in active
               PROVE  log[i].prev = i - 1 /\ \A a \in Archived : a < i
    BY DEF ChainSpans
  <2>1. log[i].prev = i - 1
    BY DEF Inv, IInv, Sound, Linked, TypeOK, UpTo
  <2>2. \A a \in Archived : a < i
    BY DEF Inv, Older, Archived
  <2> QED BY <2>1, <2>2
<1> QED BY <1>1, Inductive, PTL
=============================================================================
