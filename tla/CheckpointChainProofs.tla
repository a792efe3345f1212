----------------------- MODULE CheckpointChainProofs -----------------------
(***************************************************************************)
(* Theorems about CheckpointChain, for any number of requests and users    *)
(* and any clock.                                                          *)
(***************************************************************************)
EXTENDS CheckpointChain, TLAPS

Chains == Chain \cup {NoChain}

-----------------------------------------------------------------------------
(* What commits and signatures do to a chain *)

LEMMA LastType ==
    ASSUME NEW c \in Chains, c.cps # <<>>
    PROVE  /\ Last(c) \in Checkpoint
           /\ Len(c.cps) \in Nat \ {0}
           /\ Len(c.cps) \in DOMAIN c.cps
BY DEF Chains, Chain, NoChain, Last

LEMMA LastHashType ==
    ASSUME NEW c \in Chains
    PROVE  LastHash(c) \in Nat
BY LastType DEF LastHash, Genesis, Checkpoint

LEMMA NewBaseType ==
    ASSUME NEW c \in Chains, NEW t \in Times
    PROVE  /\ NewBase(c, t) \in Checkpoint
           /\ NewBase(c, t).prev = LastHash(c)
           /\ NewBase(c, t).ordinal = Len(c.cps)
           /\ NewBase(c, t).root = None
           /\ NewBase(c, t).proof = None
<1>1. Len(c.cps) \in Nat
  BY DEF Chains, Chain, NoChain
<1>2. t \in Int
  BY ChainAssumption
<1>3. LastHash(c) \in Nat
  BY LastHashType
<1>4. None \in Int /\ Genesis \in Nat
  BY DEF None, Genesis
<1> QED
  BY <1>1, <1>2, <1>3, <1>4 DEF Checkpoint, NewBase

LEMMA PushType ==
    ASSUME NEW c \in Chain, NEW cp \in Checkpoint
    PROVE  /\ Push(c, cp) \in Chain
           /\ Push(c, cp).mode = c.mode
           /\ Push(c, cp).policy = c.policy
           /\ Push(c, cp).cps = Append(c.cps, cp)
           /\ Len(Push(c, cp).cps) = Len(c.cps) + 1
           /\ \A i \in DOMAIN c.cps : Push(c, cp).cps[i] = c.cps[i]
           /\ Push(c, cp).cps[Len(c.cps) + 1] = cp
BY DEF Push, Chain

LEMMA SignType ==
    ASSUME NEW c \in Chain, c.cps # <<>>
    PROVE  /\ SignLast(c) \in Chain
           /\ SignLast(c).mode = c.mode
           /\ SignLast(c).policy = c.policy
           /\ Len(SignLast(c).cps) = Len(c.cps)
           /\ DOMAIN SignLast(c).cps = DOMAIN c.cps
           /\ \A i \in DOMAIN c.cps :
                 /\ SignLast(c).cps[i].id = c.cps[i].id
                 /\ SignLast(c).cps[i].prev = c.cps[i].prev
                 /\ SignLast(c).cps[i].ordinal = c.cps[i].ordinal
                 /\ SignLast(c).cps[i].time = c.cps[i].time
                 /\ SignLast(c).cps[i].vdf = c.cps[i].vdf
                 /\ SignLast(c).cps[i].from = c.cps[i].from
                 /\ SignLast(c).cps[i].jitter = c.cps[i].jitter
                 /\ SignLast(c).cps[i].root = c.cps[i].root
                 /\ SignLast(c).cps[i].proof = c.cps[i].proof
<1> DEFINE l == [Last(c) EXCEPT !.signed = TRUE]
<1>1. l \in Checkpoint
  BY LastType DEF Checkpoint, Chains
<1> DEFINE s == [c.cps EXCEPT ![Len(c.cps)] = l]
<1>2. s \in Seq(Checkpoint) /\ Len(s) = Len(c.cps) /\ DOMAIN s = DOMAIN c.cps
  BY <1>1 DEF Chain
<1>3. \A i \in DOMAIN c.cps : s[i] = IF i = Len(c.cps) THEN l ELSE c.cps[i]
  BY DEF Chain
<1>4. SignLast(c) = [c EXCEPT !.cps = s]
  BY DEF SignLast
<1>5. SignLast(c).cps = s /\ SignLast(c).mode = c.mode /\ SignLast(c).policy = c.policy
      /\ SignLast(c) \in Chain
  BY <1>2, <1>4 DEF Chain
<1>6. ASSUME NEW i \in DOMAIN c.cps
      PROVE  /\ s[i].id = c.cps[i].id /\ s[i].prev = c.cps[i].prev
             /\ s[i].ordinal = c.cps[i].ordinal /\ s[i].time = c.cps[i].time
             /\ s[i].vdf = c.cps[i].vdf /\ s[i].from = c.cps[i].from
             /\ s[i].jitter = c.cps[i].jitter /\ s[i].root = c.cps[i].root
             /\ s[i].proof = c.cps[i].proof
  <2>1. CASE i = Len(c.cps)
    BY <1>3, <2>1, LastType DEF Last, Checkpoint, Chains
  <2>2. CASE i # Len(c.cps)
    BY <1>3, <2>2
  <2> QED BY <2>1, <2>2
<1> QED
  BY <1>2, <1>5, <1>6

-----------------------------------------------------------------------------
(* Types *)

LEMMA IdleType == Idle \in HoldState /\ NoCp \in Checkpoint /\ NoChain \in Chains
<1>1. NoCp \in Checkpoint
  BY DEF NoCp, Checkpoint, Genesis, None
<1>2. NoChain \in Chains
  BY DEF Chains
<1> QED
  BY <1>1, <1>2 DEF Idle, HoldState, Steps, Chains

LEMMA NewChainType ==
    ASSUME NEW mode \in Modes, NEW policy \in Policies
    PROVE  NewChain(mode, policy) \in Chain /\ NewChain(mode, policy).cps = <<>>
BY DEF NewChain, Chain

\* The checkpoint a commit works on fits the copy it was made for.
Fits(c, cp) ==
    /\ cp.prev = LastHash(c)
    /\ cp.ordinal = Len(c.cps)
    /\ cp.root = None /\ cp.proof = None
    /\ cp.vdf = "none" => c.mode # "Entangled" /\ c.cps = <<>>
    /\ cp.vdf = "entangled" =>
          /\ c.mode = "Entangled"
          /\ cp.jitter
          /\ c.cps = <<>> => cp.from = Genesis
          /\ (c.cps # <<>> /\ Last(c).vdf # "none") => cp.from = LastHash(c)

LEMMA PlainFits ==
    ASSUME NEW c \in Chains, NEW t \in Times
    PROVE  LET cp == [NewBase(c, t) EXCEPT !.vdf = "chain"]
           IN cp \in Checkpoint /\ Fits(c, cp)
<1> DEFINE b == NewBase(c, t)
<1>1. b \in Checkpoint /\ b.prev = LastHash(c) /\ b.ordinal = Len(c.cps)
      /\ b.root = None /\ b.proof = None
  BY NewBaseType
<1> HIDE DEF b
<1>2. [b EXCEPT !.vdf = "chain"] \in Checkpoint
  BY <1>1 DEF Checkpoint
<1>3. Fits(c, [b EXCEPT !.vdf = "chain"])
  BY <1>1 DEF Checkpoint, Fits
<1> QED
  BY <1>2, <1>3 DEF b

LEMMA EntangledFits ==
    ASSUME NEW c \in Chains, NEW t \in Times, c.mode = "Entangled"
    PROVE  LET cp == [NewBase(c, t) EXCEPT !.vdf = "entangled", !.from = LastHash(c),
                                           !.jitter = TRUE]
           IN cp \in Checkpoint /\ Fits(c, cp)
<1> DEFINE b == NewBase(c, t)
           l == LastHash(c)
<1>1. b \in Checkpoint /\ b.prev = LastHash(c) /\ b.ordinal = Len(c.cps)
      /\ b.root = None /\ b.proof = None
  BY NewBaseType
<1>2. l \in Nat /\ (c.cps = <<>> => l = Genesis)
  BY LastHashType DEF LastHash
<1> HIDE DEF b
<1> DEFINE cp == [b EXCEPT !.vdf = "entangled", !.from = l, !.jitter = TRUE]
<1>3. cp \in Checkpoint
  BY <1>1, <1>2 DEF Checkpoint
<1>4. /\ cp.prev = b.prev /\ cp.ordinal = b.ordinal /\ cp.root = b.root /\ cp.proof = b.proof
      /\ cp.vdf = "entangled" /\ cp.from = l /\ cp.jitter = TRUE
  BY <1>1 DEF Checkpoint
<1> HIDE DEF cp
<1>5. Fits(c, cp)
  BY <1>1, <1>2, <1>4 DEF Fits
<1> QED
  BY <1>3, <1>5 DEF b, cp

LEMMA RfcFits ==
    ASSUME NEW c \in Chains, NEW t \in Times, NEW jitter \in BOOLEAN,
           c.mode = "Entangled" => jitter
    PROVE  RfcCheckpoint(c, t, jitter) \in Checkpoint /\ Fits(c, RfcCheckpoint(c, t, jitter))
<1> DEFINE b == NewBase(c, t)
           f == IF c.cps # <<>> /\ Last(c).vdf # "none" THEN Last(c).id ELSE Genesis
           v == IF c.cps = <<>> THEN "none" ELSE "chain"
<1>1. b \in Checkpoint /\ b.prev = LastHash(c) /\ b.ordinal = Len(c.cps)
      /\ b.root = None /\ b.proof = None
  BY NewBaseType
<1>2. f \in Nat /\ (c.cps = <<>> => f = Genesis)
      /\ ((c.cps # <<>> /\ Last(c).vdf # "none") => f = LastHash(c))
  BY LastType DEF LastHash, Checkpoint, Genesis
<1>3. v \in {"none", "chain"} /\ (v = "none" => c.cps = <<>>)
  OBVIOUS
<1>4. RfcCheckpoint(c, t, jitter) =
         IF c.mode = "Entangled" THEN [b EXCEPT !.vdf = "entangled", !.jitter = jitter, !.from = f]
         ELSE [b EXCEPT !.vdf = v, !.jitter = jitter]
  BY DEF RfcCheckpoint
<1> HIDE DEF b, f, v
<1>5. CASE c.mode = "Entangled"
  <2> DEFINE cp == [b EXCEPT !.vdf = "entangled", !.jitter = jitter, !.from = f]
  <2>1. cp \in Checkpoint
    BY <1>1, <1>2 DEF Checkpoint
  <2>2. /\ cp.prev = b.prev /\ cp.ordinal = b.ordinal /\ cp.root = b.root /\ cp.proof = b.proof
        /\ cp.vdf = "entangled" /\ cp.from = f /\ cp.jitter = jitter
    BY <1>1 DEF Checkpoint
  <2> HIDE DEF cp
  <2>3. Fits(c, cp)
    BY <1>1, <1>2, <1>5, <2>2 DEF Fits
  <2> QED BY <1>4, <1>5, <2>1, <2>3 DEF cp
<1>6. CASE c.mode # "Entangled"
  <2> DEFINE cp == [b EXCEPT !.vdf = v, !.jitter = jitter]
  <2>1. cp \in Checkpoint
    BY <1>1, <1>3 DEF Checkpoint
  <2>2. /\ cp.prev = b.prev /\ cp.ordinal = b.ordinal /\ cp.root = b.root /\ cp.proof = b.proof
        /\ cp.vdf = v
    BY <1>1 DEF Checkpoint
  <2> HIDE DEF cp
  <2>3. Fits(c, cp)
    BY <1>1, <1>3, <1>6, <2>2 DEF Fits
  <2> QED BY <1>4, <1>6, <2>1, <2>3 DEF cp
<1> QED BY <1>5, <1>6

LEMMA FinalizeType ==
    ASSUME NEW cp \in Checkpoint, NEW anchored \in BOOLEAN, commits \in Nat, mmr \in Nat
    PROVE  LET f == Finalize(cp, anchored) IN
           /\ f \in Checkpoint
           /\ f.id = commits + 1
           /\ f.prev = cp.prev /\ f.ordinal = cp.ordinal /\ f.time = cp.time
           /\ f.vdf = cp.vdf /\ f.from = cp.from /\ f.jitter = cp.jitter
           /\ f.root = IF anchored THEN mmr ELSE cp.root
           /\ f.proof = IF anchored THEN mmr + 1 ELSE cp.proof
<1> DEFINE g == [cp EXCEPT !.id = commits + 1]
           m == mmr
           n == mmr + 1
<1>1. /\ g \in Checkpoint /\ g.id = commits + 1
      /\ g.prev = cp.prev /\ g.ordinal = cp.ordinal /\ g.time = cp.time
      /\ g.vdf = cp.vdf /\ g.from = cp.from /\ g.jitter = cp.jitter
      /\ g.root = cp.root /\ g.proof = cp.proof
  BY DEF Checkpoint
<1>2. m \in Int /\ n \in Int
  OBVIOUS
<1>3. Finalize(cp, anchored) = IF anchored THEN [g EXCEPT !.root = m, !.proof = n] ELSE g
  BY DEF Finalize
<1> HIDE DEF g, m, n
<1> DEFINE f == [g EXCEPT !.root = m, !.proof = n]
<1>4. /\ f \in Checkpoint /\ f.id = g.id
      /\ f.prev = g.prev /\ f.ordinal = g.ordinal /\ f.time = g.time
      /\ f.vdf = g.vdf /\ f.from = g.from /\ f.jitter = g.jitter
      /\ f.root = m /\ f.proof = n
  BY <1>1, <1>2 DEF Checkpoint
<1> HIDE DEF f
<1> QED
  BY <1>1, <1>3, <1>4 DEF f, m, n


\* A user has a copy exactly while it holds one, and a commit fits the copy.
CopyOk(h) ==
    /\ Holding(h) => hold[h].chain \in Chain
    /\ ~Holding(h) => hold[h].chain = NoChain
    /\ hold[h].at = "committing" => Fits(hold[h].chain, hold[h].cp)
    /\ h \in Requests => ~hold[h].anchored
    /\ (h \in Requests /\ hold[h].at \in {"committed", "renamed"}) => hold[h].chain.cps # <<>>
    /\ hold[h].at = "loading" => file # NoChain

Copies == \A h \in Holders : CopyOk(h)

TInv == TypeOK /\ Copies

\* The state a holder may be left in; the others stay as they are.
HolderOk(h, r) ==
    LET holds == r.at \in {"open", "committing", "committed", "renamed"} IN
    /\ r \in HoldState
    /\ holds => r.chain \in Chain
    /\ ~holds => r.chain = NoChain
    /\ r.at = "committing" => Fits(r.chain, r.cp)
    /\ h \in Requests => ~r.anchored
    /\ (h \in Requests /\ r.at \in {"committed", "renamed"}) => r.chain.cps # <<>>
    /\ r.at = "loading" => file # NoChain

LEMMA NoChainApart == NoChain \notin Chain
BY DEF NoChain, Chain, Modes

LEMMA HolderStep ==
    ASSUME TInv, NEW h \in Holders, NEW r, HolderOk(h, r),
           hold' = [hold EXCEPT ![h] = r], file' = file \/ file' \in Chain
    PROVE  hold' \in [Holders -> HoldState] /\ Copies'
BY NoChainApart DEF TInv, TypeOK, Copies, CopyOk, HolderOk, Holding

LEMMA HolderFacts ==
    ASSUME TInv, NEW h \in Holders
    PROVE  HolderOk(h, hold[h])
BY DEF TInv, TypeOK, Copies, CopyOk, HolderOk, Holding

LEMMA IdleOk ==
    ASSUME NEW h
    PROVE  HolderOk(h, Idle)
BY IdleType DEF HolderOk, Idle

LEMMA OpenOk ==
    ASSUME NEW h, NEW c \in Chain
    PROVE  HolderOk(h, [Idle EXCEPT !.at = "open", !.chain = c])
BY IdleType DEF HolderOk, Idle, HoldState, Steps

LEMMA TakeTyped ==
    ASSUME TInv, NEW h \in Holders, NEW c \in Chain, Take(h, c),
           UNCHANGED <<file, mac, lock, mmr, commits, kept, faults>>
    PROVE  TInv'
<1>1. hold' \in [Holders -> HoldState] /\ Copies'
  BY OpenOk, HolderStep DEF Take
<1>2. lapse' \in SUBSET Lapses
  BY DEF Take, Overlap, Lapses, TInv, TypeOK
<1> QED
  BY <1>1, <1>2 DEF TInv, TypeOK

LEMMA FileIsChain ==
    ASSUME TInv, file # NoChain
    PROVE  file \in Chain
BY DEF TInv, TypeOK

LEMMA BeginTyped ==
    ASSUME TInv, NEW h \in Holders, NEW cp \in Checkpoint, Fits(hold[h].chain, cp),
           CommitBegin(h, cp)
    PROVE  TInv'
<1> DEFINE r == [hold[h] EXCEPT !.at = "committing", !.cp = cp]
<1>1. hold[h] \in HoldState /\ hold[h].chain \in Chain /\ (h \in Requests => ~hold[h].anchored)
  BY HolderFacts DEF HolderOk, CommitBegin
<1>2. /\ r \in HoldState /\ r.at = "committing" /\ r.cp = cp /\ r.chain = hold[h].chain
      /\ r.anchored = hold[h].anchored
  BY <1>1 DEF HoldState, Steps
<1>3. hold' = [hold EXCEPT ![h] = r]
  BY DEF CommitBegin, TInv, TypeOK
<1> HIDE DEF r
<1>4. HolderOk(h, r)
  BY <1>1, <1>2 DEF HolderOk
<1>5. hold' \in [Holders -> HoldState] /\ Copies'
  BY <1>3, <1>4, HolderStep DEF CommitBegin
<1> QED
  BY <1>5 DEF TInv, TypeOK, CommitBegin

LEMMA GiveUpOk ==
    ASSUME TInv, NEW h \in Holders, Holding(h)
    PROVE  HolderOk(h, GiveUp(h))
<1>1. CASE h \in Requests
  BY <1>1, IdleOk DEF GiveUp
<1>2. CASE h \notin Requests
  <2> DEFINE r == [hold[h] EXCEPT !.at = "open", !.cp = NoCp]
  <2>1. hold[h] \in HoldState /\ hold[h].chain \in Chain
    BY HolderFacts DEF HolderOk, Holding
  <2>2. r \in HoldState /\ r.at = "open" /\ r.chain = hold[h].chain
    BY <2>1, IdleType DEF HoldState, Steps
  <2> HIDE DEF r
  <2>3. HolderOk(h, r)
    BY <1>2, <2>1, <2>2 DEF HolderOk
  <2> QED BY <1>2, <2>3 DEF GiveUp, r
<1> QED BY <1>1, <1>2

LEMMA FinishTyped ==
    ASSUME TInv, NEW h \in Holders, CommitFinish(h)
    PROVE  TInv'
<1> DEFINE c == hold[h].chain
           cp == Finalize(hold[h].cp, hold[h].anchored)
           p == Push(c, cp)
           a == IF h \in Requests THEN "committed" ELSE "open"
           r == [hold[h] EXCEPT !.at = a, !.chain = p, !.cp = NoCp]
<1>1. hold[h] \in HoldState /\ c \in Chain /\ (h \in Requests => ~hold[h].anchored)
  BY HolderFacts DEF HolderOk, CommitFinish
<1>2. cp \in Checkpoint
  BY <1>1, FinalizeType DEF HoldState, TInv, TypeOK
<1>3. p \in Chain /\ p.cps # <<>>
  <2> HIDE DEF c, cp
  <2>1. p \in Chain /\ Len(p.cps) = Len(c.cps) + 1 /\ c \in Chain
    BY <1>1, <1>2, PushType
  <2>2. Len(c.cps) \in Nat
    BY <2>1 DEF Chain
  <2> HIDE DEF p
  <2> QED BY <2>1, <2>2
<1>4. hold' = [hold EXCEPT ![h] = r] /\ lapse' = lapse \cup Doubts(c, cp)
  BY DEF CommitFinish
<1>5. a \in {"committed", "open"} /\ (a = "committed" => h \in Requests)
  OBVIOUS
<1> HIDE DEF c, cp, p, a
<1>6. r \in HoldState /\ r.at = a /\ r.chain = p /\ r.anchored = hold[h].anchored
  BY <1>1, <1>3, <1>5, IdleType DEF HoldState, Steps
<1> HIDE DEF r
<1>7. HolderOk(h, r)
  BY <1>1, <1>3, <1>5, <1>6 DEF HolderOk
<1>8. hold' \in [Holders -> HoldState] /\ Copies'
  BY <1>4, <1>7, HolderStep DEF CommitFinish
<1>9. lapse' \in SUBSET Lapses
  BY <1>4 DEF Doubts, Lapses, TInv, TypeOK
<1>10. lock' \in SUBSET Holders /\ mmr' \in Nat /\ commits' \in Nat
  BY DEF CommitFinish, TInv, TypeOK
<1> QED
  BY <1>8, <1>9, <1>10 DEF TInv, TypeOK, CommitFinish

LEMMA HashSetType ==
    ASSUME NEW c \in Chains
    PROVE  HashSet(c) \in SUBSET Nat
<1>1. c.cps \in Seq(Checkpoint)
  <2>1. CASE c \in Chain
    BY <2>1 DEF Chain
  <2>2. CASE c = NoChain
    BY <2>2 DEF NoChain
  <2> QED BY <2>1, <2>2 DEF Chains
<1>2. \A i \in DOMAIN c.cps : c.cps[i] \in Checkpoint
  BY <1>1
<1>3. \A i \in DOMAIN c.cps : c.cps[i].id \in Nat
  BY <1>2 DEF Checkpoint
<1> QED
  BY <1>3 DEF HashSet


LEMMA TypeInit == Init => TInv
<1> SUFFICES ASSUME Init PROVE TInv
  OBVIOUS
<1>1. hold \in [Holders -> HoldState] /\ \A h \in Holders : hold[h] = Idle
  BY IdleType DEF Init
<1>2. Copies
  BY <1>1 DEF Copies, CopyOk, Holding, Idle
<1> QED
  BY <1>1, <1>2 DEF Init, TInv, TypeOK

LEMMA StepTyped ==
    ASSUME TInv, NEW h \in Holders, Step(h)
    PROVE  TInv'
<1>1. CASE RequestNew(h)
  BY <1>1, NewChainType, TakeTyped DEF RequestNew, Modes, Policies
<1>2. CASE ReadMac(h)
  <2> DEFINE r == [hold[h] EXCEPT !.at = "loading", !.seen = mac]
  <2>1. hold[h] \in HoldState /\ hold[h].chain = NoChain /\ (h \in Requests => ~hold[h].anchored)
    BY <1>2, HolderFacts DEF HolderOk, ReadMac
  <2>2. /\ r \in HoldState /\ r.at = "loading" /\ r.chain = hold[h].chain
        /\ r.anchored = hold[h].anchored
    BY <2>1 DEF HoldState, Steps, TInv, TypeOK
  <2>3. hold' = [hold EXCEPT ![h] = r]
    BY <1>2 DEF ReadMac, TInv, TypeOK
  <2> HIDE DEF r
  <2>4. HolderOk(h, r)
    BY <1>2, <2>1, <2>2 DEF HolderOk, ReadMac
  <2>5. hold' \in [Holders -> HoldState] /\ Copies'
    BY <1>2, <2>3, <2>4, HolderStep DEF ReadMac
  <2> QED BY <1>2, <2>5 DEF ReadMac, TInv, TypeOK
<1>3. CASE ReadChain(h)
  <2>1. file \in Chain
    BY <1>3, HolderFacts, FileIsChain DEF ReadChain, HolderOk
  <2> QED BY <1>3, <2>1, TakeTyped DEF ReadChain
<1>4. CASE ReadChainRefused(h) \/ CommitRefused(h)
  BY <1>4, IdleOk, HolderStep DEF ReadChainRefused, CommitRefused, TInv, TypeOK
<1>5. CASE UserLoad(h)
  BY <1>5, FileIsChain, TakeTyped DEF UserLoad
<1>6. CASE UserNew(h)
  BY <1>6, NewChainType, TakeTyped DEF UserNew
<1>7. CASE WithMmr(h)
  <2> DEFINE r == [hold[h] EXCEPT !.anchored = TRUE]
  <2>1. hold[h] \in HoldState /\ hold[h].chain \in Chain /\ h \notin Requests
    BY <1>7, HolderFacts, ChainAssumption DEF HolderOk, WithMmr
  <2>2. r \in HoldState /\ r.at = "open" /\ r.chain = hold[h].chain
    BY <1>7, <2>1 DEF HoldState, WithMmr
  <2>3. hold' = [hold EXCEPT ![h] = r]
    BY <1>7 DEF WithMmr, TInv, TypeOK
  <2> HIDE DEF r
  <2>4. HolderOk(h, r)
    BY <2>1, <2>2 DEF HolderOk
  <2>5. hold' \in [Holders -> HoldState] /\ Copies'
    BY <1>7, <2>3, <2>4, HolderStep DEF WithMmr
  <2> QED BY <1>7, <2>5 DEF WithMmr, TInv, TypeOK
<1>8. CASE Commit(h) \/ CommitWithVdfDuration(h)
  <2>1. PICK t \in Times : CommitBegin(h, [NewBase(hold[h].chain, t) EXCEPT !.vdf = "chain"])
    BY <1>8 DEF Commit, CommitWithVdfDuration
  <2>2. hold[h].chain \in Chains
    BY DEF TInv, TypeOK, HoldState, Chains
  <2> QED BY <2>1, <2>2, PlainFits, BeginTyped
<1>9. CASE CommitEntangled(h)
  <2>1. PICK t \in Times :
           /\ hold[h].chain.mode = "Entangled"
           /\ CommitBegin(h, [NewBase(hold[h].chain, t) EXCEPT !.vdf = "entangled",
                                 !.from = LastHash(hold[h].chain), !.jitter = TRUE])
    BY <1>9 DEF CommitEntangled
  <2>2. hold[h].chain \in Chains
    BY DEF TInv, TypeOK, HoldState, Chains
  <2> QED BY <2>1, <2>2, EntangledFits, BeginTyped
<1>10. CASE CommitRfc(h)
  <2>1. PICK t \in Times, jitter \in BOOLEAN :
           /\ hold[h].chain.mode = "Entangled" => jitter
           /\ CommitBegin(h, RfcCheckpoint(hold[h].chain, t, jitter))
    BY <1>10 DEF CommitRfc
  <2>2. hold[h].chain \in Chains
    BY DEF TInv, TypeOK, HoldState, Chains
  <2> QED BY <2>1, <2>2, RfcFits, BeginTyped
<1>11. CASE CommitFinish(h)
  BY <1>11, FinishTyped
<1>12. CASE CommitFails(h)
  <2>1. hold' \in [Holders -> HoldState] /\ Copies'
    BY <1>12, GiveUpOk, HolderStep DEF CommitFails, Holding
  <2>2. mmr' = mmr \/ mmr' = mmr + 1
    BY <1>12 DEF CommitFails
  <2>3. lapse' = lapse \/ lapse' = lapse \cup {"orphan"}
    BY <1>12 DEF CommitFails
  <2>4. mmr' \in Nat
    BY <2>2 DEF TInv, TypeOK
  <2>5. lapse' \in SUBSET Lapses
    BY <2>3 DEF TInv, TypeOK, Lapses
  <2> QED BY <1>12, <2>1, <2>4, <2>5 DEF CommitFails, TInv, TypeOK
<1>13. CASE SignLastCheckpoint(h)
  <2> DEFINE c == hold[h].chain
             r == [hold[h] EXCEPT !.chain = SignLast(c)]
  <2>1. hold[h] \in HoldState /\ c \in Chain /\ h \notin Requests
    BY <1>13, HolderFacts, ChainAssumption DEF HolderOk, SignLastCheckpoint
  <2>2. SignLast(c) \in Chain
    BY <1>13, <2>1, SignType DEF SignLastCheckpoint
  <2>3. r \in HoldState /\ r.at = "open" /\ r.chain = SignLast(c)
    BY <1>13, <2>1, <2>2 DEF HoldState, SignLastCheckpoint
  <2>4. hold' = [hold EXCEPT ![h] = r]
    BY <1>13 DEF SignLastCheckpoint, TInv, TypeOK
  <2> HIDE DEF r
  <2>5. HolderOk(h, r)
    BY <2>1, <2>2, <2>3 DEF HolderOk
  <2>6. hold' \in [Holders -> HoldState] /\ Copies'
    BY <1>13, <2>4, <2>5, HolderStep DEF SignLastCheckpoint
  <2> QED BY <1>13, <2>6 DEF SignLastCheckpoint, TInv, TypeOK
<1>14. CASE Save(h)
  <2>1. hold[h].chain \in Chain
    BY <1>14, HolderFacts DEF HolderOk, Save
  <2>2. kept' \in SUBSET Nat
    BY <1>14, <2>1, HashSetType DEF Save, TInv, TypeOK, Chains
  <2>3. lapse' \in SUBSET Lapses
    BY <1>14 DEF Save, TInv, TypeOK, Lapses
  <2>4. Copies'
    BY <1>14, <2>1, NoChainApart DEF Save, TInv, Copies, CopyOk, Holding
  <2> QED BY <1>14, <2>1, <2>2, <2>3, <2>4 DEF Save, TInv, TypeOK
<1>15. CASE RenameChain(h)
  <2> DEFINE r == [hold[h] EXCEPT !.at = "renamed"]
  <2>1. /\ hold[h] \in HoldState /\ hold[h].chain \in Chain
        /\ h \in Requests => hold[h].chain.cps # <<>> /\ ~hold[h].anchored
    BY <1>15, HolderFacts DEF HolderOk, RenameChain
  <2>2. r \in HoldState /\ r.at = "renamed" /\ r.chain = hold[h].chain
        /\ r.anchored = hold[h].anchored
    BY <2>1 DEF HoldState, Steps
  <2>3. hold' = [hold EXCEPT ![h] = r]
    BY <1>15 DEF RenameChain, TInv, TypeOK
  <2> HIDE DEF r
  <2>4. HolderOk(h, r)
    BY <2>1, <2>2 DEF HolderOk
  <2>5. hold' \in [Holders -> HoldState] /\ Copies'
    BY <1>15, <2>1, <2>3, <2>4, HolderStep DEF RenameChain
  <2> QED BY <1>15, <2>1, <2>5 DEF RenameChain, TInv, TypeOK
<1>16. CASE RenameMac(h)
  <2>1. hold[h].chain \in Chain /\ (h \in Requests => hold[h].chain.cps # <<>>)
    BY <1>16, HolderFacts DEF HolderOk, RenameMac
  <2>2. hold' \in [Holders -> HoldState] /\ Copies'
    BY <1>16, GiveUpOk, HolderStep DEF RenameMac, Holding
  <2>3. Reported(h) \in SUBSET Nat
    BY <2>1, HashSetType, LastType DEF Reported, Chains, Checkpoint
  <2>4. lapse' \in SUBSET Lapses
    BY <1>16 DEF RenameMac, TInv, TypeOK, Lapses
  <2> QED BY <1>16, <2>1, <2>2, <2>3, <2>4 DEF RenameMac, TInv, TypeOK
<1>17. CASE RenameChainFails(h)
  <2>1. hold' \in [Holders -> HoldState] /\ Copies'
    BY <1>17, IdleOk, HolderStep DEF RenameChainFails
  <2> QED BY <1>17, <2>1 DEF RenameChainFails, TInv, TypeOK
<1>18. CASE RenameMacFails(h)
  <2>1. hold' \in [Holders -> HoldState] /\ Copies'
    BY <1>18, GiveUpOk, HolderStep DEF RenameMacFails, Holding
  <2> QED BY <1>18, <2>1 DEF RenameMacFails, TInv, TypeOK, Lapses
<1>19. CASE Close(h)
  <2>1. hold' \in [Holders -> HoldState] /\ Copies'
    BY <1>19, IdleOk, HolderStep DEF Close
  <2> QED BY <1>19, <2>1 DEF Close, TInv, TypeOK, Lapses
<1> QED
  BY <1>1, <1>2, <1>3, <1>4, <1>5, <1>6, <1>7, <1>8, <1>9, <1>10, <1>11, <1>12, <1>13, <1>14,
     <1>15, <1>16, <1>17, <1>18, <1>19 DEF Step

LEMMA CrashTyped ==
    ASSUME TInv, NEW p \in Processes, Crash(p)
    PROVE  TInv'
<1>1. hold' \in [Holders -> HoldState]
  BY IdleType DEF Crash, TInv, TypeOK
<1>2. ASSUME NEW h \in Holders
      PROVE  CopyOk(h)'
  <2>1. CASE h \in p
    <3>1. hold'[h] = Idle
      BY <2>1 DEF Crash
    <3> QED BY <3>1 DEF CopyOk, Holding, Idle
  <2>2. CASE h \notin p
    <3>1. hold'[h] = hold[h]
      BY <2>2 DEF Crash
    <3> QED BY <3>1 DEF CopyOk, Holding, TInv, Copies, Crash
  <2> QED BY <2>1, <2>2
<1>3. lapse' \in SUBSET Lapses
  BY DEF Crash, TInv, TypeOK, Lapses
<1> QED
  BY <1>1, <1>2, <1>3 DEF Crash, TInv, TypeOK, Copies

LEMMA NextTyped == TInv /\ [Next]_vars => TInv'
<1> SUFFICES ASSUME TInv, [Next]_vars PROVE TInv'
  OBVIOUS
<1>1. CASE UNCHANGED vars
  BY <1>1 DEF vars, TInv, TypeOK, Copies, CopyOk, Holding
<1> QED
  BY <1>1, StepTyped, CrashTyped DEF Next

\* Every reachable state of the chain file, its sidecar, the copies in memory and
\* the lock is of the types the code gives them, for any users and any clock.
THEOREM ChainTypeCorrect == Spec => []TypeOK
<1>1. TInv => TypeOK
  BY DEF TInv
<1> QED
  BY <1>1, TypeInit, NextTyped, PTL DEF Spec


-----------------------------------------------------------------------------
(* The chains themselves: links, hashes, time stamps and VDF inputs *)

\* A checkpoint is in its place: its ordinal and its previous hash.
LinkOK(c, i) == OrdinalVerifies(c, i) /\ LinkVerifies(c, i)

\* What a chain owes to the commits that made it, given the lapses so far and the
\* number of hashes made.
Good(c, l, n) ==
    \A i \in DOMAIN c.cps :
        /\ LinkOK(c, i)
        /\ c.cps[i].id \in 1..n
        /\ "clock" \notin l => TimestampVerifies(c, i)
        /\ "mode" \notin l => VdfVerifies(c, i)

AllGood ==
    /\ Good(file, lapse, commits)
    /\ \A h \in Holders : Good(hold[h].chain, lapse, commits)

LEMMA GoodEmpty ==
    ASSUME NEW c, NEW l, NEW n, c.cps = <<>>
    PROVE  Good(c, l, n)
BY DEF Good

LEMMA GoodStays ==
    ASSUME NEW c, NEW l, NEW m, NEW n \in Nat, NEW k \in Nat, n <= k, Good(c, l, n),
           "clock" \in l => "clock" \in m, "mode" \in l => "mode" \in m
    PROVE  Good(c, m, k)
BY DEF Good

LEMMA GoodPush ==
    ASSUME NEW c \in Chain, NEW cp \in Checkpoint, NEW l, NEW n \in Nat,
           Good(c, l, n), Fits(c, [cp EXCEPT !.root = None, !.proof = None]),
           cp.id = n + 1
    PROVE  Good(Push(c, cp), l \cup Doubts(c, cp), n + 1)
<1> DEFINE p == Push(c, cp)
           m == l \cup Doubts(c, cp)
           k == Len(c.cps)
<1>0. /\ k \in Nat /\ DOMAIN c.cps = 1..k /\ DOMAIN p.cps = 1..(k + 1)
      /\ p.mode = c.mode /\ p \in Chain
      /\ \A i \in 1..k : p.cps[i] = c.cps[i]
      /\ p.cps[k + 1] = cp
  <2>1. k \in Nat /\ DOMAIN c.cps = 1..k
    BY DEF Chain
  <2>2. p \in Chain /\ Len(p.cps) = k + 1 /\ p.mode = c.mode /\ p.cps[k + 1] = cp
        /\ \A i \in DOMAIN c.cps : p.cps[i] = c.cps[i]
    BY PushType
  <2>3. DOMAIN p.cps = 1..(k + 1)
    BY <2>2 DEF Chain
  <2> QED BY <2>1, <2>2, <2>3
<1>F. /\ cp.prev = LastHash(c)
      /\ cp.ordinal = k
      /\ cp.vdf = "none" => c.mode # "Entangled" /\ c.cps = <<>>
      /\ cp.vdf = "entangled" =>
            /\ c.mode = "Entangled" /\ cp.jitter
            /\ c.cps = <<>> => cp.from = Genesis
            /\ (c.cps # <<>> /\ Last(c).vdf # "none") => cp.from = LastHash(c)
  BY DEF Fits, Checkpoint
<1>E. /\ c.cps = <<>> <=> k = 0
      /\ k > 0 => Last(c) = c.cps[k] /\ LastHash(c) = c.cps[k].id
      /\ k = 0 => LastHash(c) = Genesis
  BY <1>0 DEF Last, LastHash, Chain
<1>M. /\ "clock" \notin m => "clock" \notin l /\ (k > 0 => ~(cp.time < c.cps[k].time - 1))
      /\ "mode" \notin m => "mode" \notin l /\ (c.mode = "Entangled" => cp.vdf = "entangled")
  BY <1>E DEF Doubts
<1> HIDE DEF p, m, k
<1>1. ASSUME NEW i \in 1..k
      PROVE  /\ LinkOK(p, i) /\ p.cps[i].id \in 1..(n + 1)
             /\ "clock" \notin m => TimestampVerifies(p, i)
             /\ "mode" \notin m => VdfVerifies(p, i)
  <2>1. i - 1 \in 1..k \/ i = 1
    BY <1>0
  <2>2. p.cps[i] = c.cps[i] /\ (i > 1 => p.cps[i - 1] = c.cps[i - 1])
    BY <1>0, <2>1
  <2>3. /\ LinkOK(c, i) /\ c.cps[i].id \in 1..n
        /\ "clock" \notin m => TimestampVerifies(c, i)
        /\ "mode" \notin m => VdfVerifies(c, i)
    BY <1>0, <1>M DEF Good
  <2>4. LinkOK(p, i) /\ p.cps[i].id \in 1..(n + 1)
    BY <1>0, <2>2, <2>3 DEF LinkOK, OrdinalVerifies, LinkVerifies
  <2>5. "clock" \notin m => TimestampVerifies(p, i)
    BY <1>0, <2>2, <2>3 DEF TimestampVerifies
  <2>6. "mode" \notin m => VdfVerifies(p, i)
    BY <1>0, <2>2, <2>3 DEF VdfVerifies
  <2> QED BY <2>4, <2>5, <2>6
<1>2. LinkOK(p, k + 1) /\ p.cps[k + 1].id \in 1..(n + 1)
  BY <1>0, <1>F, <1>E DEF LinkOK, OrdinalVerifies, LinkVerifies
<1>3. "clock" \notin m => TimestampVerifies(p, k + 1)
  <2>0. \A i \in 1..k : c.cps[i] \in Checkpoint
    BY <1>0 DEF Chain
  <2>1. k > 0 => c.cps[k].time \in Int
    BY <1>0, <2>0 DEF Checkpoint
  <2>2. cp.time \in Int
    BY DEF Checkpoint
  <2>3. (k + 1) - 1 = k /\ (k > 0 => k \in 1..k) /\ (k + 1 > 1 => k > 0)
    BY <1>0
  <2>4. k > 0 => p.cps[k] = c.cps[k]
    BY <1>0, <2>3
  <2> SUFFICES ASSUME "clock" \notin m, k + 1 > 1
               PROVE  p.cps[k + 1].time >= p.cps[(k + 1) - 1].time - 1
    BY DEF TimestampVerifies
  <2>5. ~(cp.time < c.cps[k].time - 1)
    BY <1>M, <2>3
  <2> QED BY <1>0, <2>1, <2>2, <2>3, <2>4, <2>5
<1>4. "mode" \notin m => VdfVerifies(p, k + 1)
  <2> SUFFICES ASSUME "mode" \notin m PROVE VdfVerifies(p, k + 1)
    OBVIOUS
  <2>1. k > 0 => VdfVerifies(c, k)
    BY <1>0, <1>M DEF Good
  <2>2. c.mode \in Modes /\ cp.vdf \in {"none", "chain", "entangled"}
    BY DEF Chain, Checkpoint
  <2>3. CASE c.mode = "Legacy"
    <3>1. cp.vdf # "entangled" /\ (cp.vdf = "none" => k = 0)
      BY <1>F, <1>E, <2>3
    <3> QED BY <1>0, <2>2, <2>3, <3>1 DEF VdfVerifies
  <2>4. CASE c.mode = "Entangled"
    <3>1. cp.vdf = "entangled" /\ cp.jitter
      BY <1>F, <1>M, <2>4
    <3>2. k > 0 => c.cps[k].vdf = "entangled"
      BY <2>1, <2>4 DEF VdfVerifies
    <3>3. cp.from = IF k = 0 THEN Genesis ELSE c.cps[k].id
      BY <1>0, <1>F, <1>E, <3>1, <3>2
    <3>4. (k + 1) - 1 = k /\ (k > 0 => k \in 1..k) /\ (k + 1 > 1 => k > 0) /\ (k + 1 = 1 <=> k = 0)
      BY <1>0
    <3>5. k > 0 => p.cps[k] = c.cps[k]
      BY <1>0, <3>4
    <3>6. /\ p.cps[k + 1].vdf = "entangled" /\ p.cps[k + 1].jitter /\ p.mode = "Entangled"
          /\ p.cps[k + 1].from = IF k + 1 = 1 THEN Genesis ELSE p.cps[(k + 1) - 1].id
          /\ k + 1 > 1 => p.cps[(k + 1) - 1].vdf # "none"
      BY <1>0, <2>4, <3>1, <3>2, <3>3, <3>4, <3>5
    <3> QED BY <3>6 DEF VdfVerifies
  <2> QED BY <2>2, <2>3, <2>4 DEF Modes
<1> QED
  <2>1. \A i \in 1..(k + 1) : i \in 1..k \/ i = k + 1
    BY <1>0
  <2>2. Good(p, m, n + 1)
    BY <1>0, <1>1, <1>2, <1>3, <1>4, <2>1 DEF Good
  <2> QED BY <2>2 DEF p, m

LEMMA GoodSign ==
    ASSUME NEW c \in Chain, c.cps # <<>>, NEW l, NEW n, Good(c, l, n)
    PROVE  Good(SignLast(c), l, n)
<1> DEFINE s == SignLast(c)
<1>1. /\ s.mode = c.mode /\ DOMAIN s.cps = DOMAIN c.cps
      /\ \A i \in DOMAIN c.cps :
            /\ s.cps[i].id = c.cps[i].id /\ s.cps[i].prev = c.cps[i].prev
            /\ s.cps[i].ordinal = c.cps[i].ordinal /\ s.cps[i].time = c.cps[i].time
            /\ s.cps[i].vdf = c.cps[i].vdf /\ s.cps[i].from = c.cps[i].from
            /\ s.cps[i].jitter = c.cps[i].jitter
  BY SignType
<1>2. \A i \in DOMAIN c.cps : i > 1 => i - 1 \in DOMAIN c.cps
  BY DEF Chain
<1> HIDE DEF s
<1>3. ASSUME NEW i \in DOMAIN c.cps
      PROVE  /\ LinkOK(c, i) => LinkOK(s, i)
             /\ TimestampVerifies(c, i) => TimestampVerifies(s, i)
             /\ VdfVerifies(c, i) => VdfVerifies(s, i)
  <2>1. i \in Int /\ i >= 1
    BY DEF Chain
  <2>2. i # 1 => i > 1
    BY <2>1
  <2>3. LinkOK(c, i) => LinkOK(s, i)
    BY <1>1, <1>2, <2>2 DEF LinkOK, OrdinalVerifies, LinkVerifies
  <2>4. TimestampVerifies(c, i) => TimestampVerifies(s, i)
    BY <1>1, <1>2 DEF TimestampVerifies
  <2>5. VdfVerifies(c, i) => VdfVerifies(s, i)
    BY <1>1, <1>2, <2>2 DEF VdfVerifies
  <2> QED BY <2>3, <2>4, <2>5
<1> QED
  <2>1. Good(s, l, n)
    BY <1>1, <1>3 DEF Good
  <2> QED BY <2>1 DEF s


\* The ways the copy of a user changes in a step.
Same(h) == hold'[h].chain = hold[h].chain /\ commits' = commits
Dropped(h) == hold'[h].chain = NoChain /\ commits' = commits
Opened(h) == hold'[h].chain.cps = <<>> /\ commits' = commits
Loaded(h) == hold'[h].chain = file /\ commits' = commits
Pushed(h) ==
    LET cp == Finalize(hold[h].cp, hold[h].anchored) IN
    /\ hold[h].at = "committing"
    /\ hold'[h].chain = Push(hold[h].chain, cp)
    /\ commits' = commits + 1
    /\ lapse' = lapse \cup Doubts(hold[h].chain, cp)
SignedCopy(h) ==
    /\ hold[h].at = "open" /\ hold[h].chain.cps # <<>>
    /\ hold'[h].chain = SignLast(hold[h].chain)
    /\ commits' = commits

LEMMA Moves ==
    ASSUME TInv, NEW h \in Holders, Step(h)
    PROVE  /\ \A g \in Holders \ {h} : hold'[g] = hold[g]
           /\ file' = file \/ file' = hold[h].chain
           /\ "clock" \in lapse => "clock" \in lapse'
           /\ "mode" \in lapse => "mode" \in lapse'
           /\ Same(h) \/ Dropped(h) \/ Opened(h) \/ Loaded(h) \/ Pushed(h) \/ SignedCopy(h)
<1> DEFINE Goal == /\ \A g \in Holders \ {h} : hold'[g] = hold[g]
                   /\ file' = file \/ file' = hold[h].chain
                   /\ "clock" \in lapse => "clock" \in lapse'
                   /\ "mode" \in lapse => "mode" \in lapse'
                   /\ \/ Same(h) \/ Dropped(h) \/ Opened(h) \/ Loaded(h) \/ Pushed(h)
                      \/ SignedCopy(h)
<1>H. hold \in [Holders -> HoldState] /\ hold[h] \in HoldState
  BY DEF TInv, TypeOK
<1>1. CASE RequestNew(h)
  BY <1>1, <1>H DEF RequestNew, Take, Idle, NewChain, Opened
<1>2. CASE ReadMac(h)
  BY <1>2, <1>H DEF ReadMac, Same, HoldState
<1>3. CASE ReadChain(h)
  BY <1>3, <1>H DEF ReadChain, Take, Idle, Loaded
<1>4. CASE ReadChainRefused(h)
  BY <1>4, <1>H DEF ReadChainRefused, Dropped, Idle
<1>5. CASE UserLoad(h)
  BY <1>5, <1>H DEF UserLoad, Take, Idle, Loaded
<1>6. CASE UserNew(h)
  BY <1>6, <1>H DEF UserNew, Take, Idle, NewChain, Opened
<1>7. CASE WithMmr(h)
  BY <1>7, <1>H DEF WithMmr, Same, HoldState
<1>8. CASE Commit(h) \/ CommitWithVdfDuration(h) \/ CommitEntangled(h) \/ CommitRfc(h)
  <2>1. PICK cp : CommitBegin(h, cp)
    BY <1>8 DEF Commit, CommitWithVdfDuration, CommitEntangled, CommitRfc
  <2> QED BY <2>1, <1>H DEF CommitBegin, Same, HoldState
<1>9. CASE CommitFinish(h)
  <2>1. hold'[h].chain = Push(hold[h].chain, Finalize(hold[h].cp, hold[h].anchored))
    BY <1>9, <1>H DEF CommitFinish, HoldState
  <2> QED BY <1>9, <1>H, <2>1 DEF CommitFinish, Pushed
<1>10. CASE CommitFails(h)
  <2>1. hold'[h] = GiveUp(h) /\ commits' = commits
    BY <1>10, <1>H DEF CommitFails
  <2>2. Same(h) \/ Dropped(h)
    BY <1>H, <2>1 DEF GiveUp, Idle, HoldState, Same, Dropped
  <2> QED BY <1>10, <1>H, <2>2 DEF CommitFails
<1>11. CASE CommitRefused(h)
  BY <1>11, <1>H DEF CommitRefused, Dropped, Idle
<1>12. CASE SignLastCheckpoint(h)
  BY <1>12, <1>H DEF SignLastCheckpoint, SignedCopy, HoldState
<1>13. CASE Save(h)
  BY <1>13, <1>H DEF Save, Same
<1>14. CASE RenameChain(h)
  BY <1>14, <1>H DEF RenameChain, Same, HoldState
<1>15. CASE RenameMac(h)
  <2>1. hold'[h] = GiveUp(h) /\ commits' = commits
    BY <1>15, <1>H DEF RenameMac
  <2>2. Same(h) \/ Dropped(h)
    BY <1>H, <2>1 DEF GiveUp, Idle, HoldState, Same, Dropped
  <2> QED BY <1>15, <1>H, <2>2 DEF RenameMac
<1>16. CASE RenameChainFails(h)
  BY <1>16, <1>H DEF RenameChainFails, Dropped, Idle
<1>17. CASE RenameMacFails(h)
  <2>1. hold'[h] = GiveUp(h) /\ commits' = commits
    BY <1>17, <1>H DEF RenameMacFails
  <2>2. Same(h) \/ Dropped(h)
    BY <1>H, <2>1 DEF GiveUp, Idle, HoldState, Same, Dropped
  <2> QED BY <1>17, <1>H, <2>2 DEF RenameMacFails
<1>18. CASE Close(h)
  BY <1>18, <1>H DEF Close, Dropped, Idle
<1> QED
  BY <1>1, <1>2, <1>3, <1>4, <1>5, <1>6, <1>7, <1>8, <1>9, <1>10, <1>11, <1>12, <1>13, <1>14,
     <1>15, <1>16, <1>17, <1>18 DEF Step

\* The checkpoint of a commit that is finished.
LEMMA PushedFacts ==
    ASSUME TInv, NEW h \in Holders, hold[h].at = "committing"
    PROVE  LET c == hold[h].chain
               cp == Finalize(hold[h].cp, hold[h].anchored)
           IN /\ c \in Chain /\ cp \in Checkpoint /\ cp.id = commits + 1
              /\ Fits(c, [cp EXCEPT !.root = None, !.proof = None])
              /\ cp.root = IF hold[h].anchored THEN mmr ELSE None
              /\ cp.proof = IF hold[h].anchored THEN mmr + 1 ELSE None
<1> DEFINE c == hold[h].chain
           b == hold[h].cp
           a == hold[h].anchored
           cp == Finalize(b, a)
<1>1. c \in Chain /\ b \in Checkpoint /\ a \in BOOLEAN /\ Fits(c, b)
  BY HolderFacts DEF HolderOk, HoldState
<1>2. commits \in Nat /\ mmr \in Nat
  BY DEF TInv, TypeOK
<1>3. /\ cp \in Checkpoint /\ cp.id = commits + 1
      /\ cp.prev = b.prev /\ cp.ordinal = b.ordinal
      /\ cp.vdf = b.vdf /\ cp.from = b.from /\ cp.jitter = b.jitter
      /\ cp.root = IF a THEN mmr ELSE b.root
      /\ cp.proof = IF a THEN mmr + 1 ELSE b.proof
  BY <1>1, <1>2, FinalizeType
<1>4. b.root = None /\ b.proof = None
  BY <1>1 DEF Fits
<1> HIDE DEF c, b, a, cp
<1>5. Fits(c, [cp EXCEPT !.root = None, !.proof = None])
  <2> DEFINE d == [cp EXCEPT !.root = None, !.proof = None]
  <2>1. /\ d.prev = b.prev /\ d.ordinal = b.ordinal /\ d.vdf = b.vdf /\ d.from = b.from
        /\ d.jitter = b.jitter /\ d.root = None /\ d.proof = None
    BY <1>3 DEF Checkpoint
  <2> HIDE DEF d
  <2>2. Fits(c, d)
    BY <1>1, <2>1 DEF Fits
  <2> QED BY <2>2 DEF d
<1> QED
  BY <1>1, <1>3, <1>4, <1>5 DEF c, b, a, cp

LEMMA GoodStep ==
    ASSUME TInv, AllGood, NEW h \in Holders, Step(h)
    PROVE  AllGood'
<1>1. /\ \A g \in Holders \ {h} : hold'[g] = hold[g]
      /\ file' = file \/ file' = hold[h].chain
      /\ "clock" \in lapse => "clock" \in lapse'
      /\ "mode" \in lapse => "mode" \in lapse'
      /\ Same(h) \/ Dropped(h) \/ Opened(h) \/ Loaded(h) \/ Pushed(h) \/ SignedCopy(h)
  BY Moves
<1>2. commits \in Nat /\ commits' \in Nat /\ commits <= commits'
  BY <1>1 DEF TInv, TypeOK, Same, Dropped, Opened, Loaded, Pushed, SignedCopy
<1>3. ASSUME NEW c, Good(c, lapse, commits)
      PROVE  Good(c, lapse', commits')
  BY <1>1, <1>2, <1>3, GoodStays
<1>4. Good(file', lapse', commits')
  BY <1>1, <1>3 DEF AllGood
<1>5. \A g \in Holders \ {h} : Good(hold'[g].chain, lapse', commits')
  BY <1>1, <1>3 DEF AllGood
<1>6. Good(hold'[h].chain, lapse', commits')
  <2>1. CASE Same(h) \/ Loaded(h)
    BY <1>3, <2>1 DEF AllGood, Same, Loaded
  <2>2. CASE Dropped(h) \/ Opened(h)
    BY <2>2, GoodEmpty DEF Dropped, Opened, NoChain
  <2>3. CASE Pushed(h)
    <3> DEFINE c == hold[h].chain
               cp == Finalize(hold[h].cp, hold[h].anchored)
    <3>1. c \in Chain /\ cp \in Checkpoint /\ cp.id = commits + 1
          /\ Fits(c, [cp EXCEPT !.root = None, !.proof = None])
      BY <2>3, PushedFacts DEF Pushed
    <3>2. Good(c, lapse, commits)
      BY DEF AllGood
    <3>3. hold'[h].chain = Push(c, cp) /\ commits' = commits + 1
          /\ lapse' = lapse \cup Doubts(c, cp)
      BY <2>3 DEF Pushed
    <3> HIDE DEF c, cp
    <3> QED BY <1>2, <3>1, <3>2, <3>3, GoodPush
  <2>4. CASE SignedCopy(h)
    <3>1. hold[h].chain \in Chain
      BY <2>4, HolderFacts DEF HolderOk, SignedCopy
    <3>2. Good(SignLast(hold[h].chain), lapse, commits)
      BY <2>4, <3>1, GoodSign DEF SignedCopy, AllGood
    <3> QED BY <1>3, <2>4, <3>2 DEF SignedCopy
  <2> QED BY <1>1, <2>1, <2>2, <2>3, <2>4
<1> QED
  BY <1>4, <1>5, <1>6 DEF AllGood

LEMMA GoodCrash ==
    ASSUME TInv, AllGood, NEW p \in Processes, Crash(p)
    PROVE  AllGood'
<1>1. /\ file' = file /\ commits' = commits /\ commits \in Nat /\ lapse \subseteq lapse'
      /\ \A h \in Holders : hold'[h] = Idle \/ hold'[h] = hold[h]
  BY DEF Crash, TInv, TypeOK
<1>2. ASSUME NEW c, Good(c, lapse, commits)
      PROVE  Good(c, lapse', commits')
  BY <1>1, <1>2, GoodStays
<1>3. Good(Idle.chain, lapse', commits')
  BY GoodEmpty DEF Idle, NoChain
<1> QED
  BY <1>1, <1>2, <1>3 DEF AllGood

LEMMA GoodNext == TInv /\ AllGood /\ [Next]_vars => AllGood'
<1> SUFFICES ASSUME TInv, AllGood, [Next]_vars PROVE AllGood'
  OBVIOUS
<1>1. CASE UNCHANGED vars
  BY <1>1 DEF vars, AllGood
<1> QED
  BY <1>1, GoodStep, GoodCrash DEF Next

LEMMA GoodInit == Init => AllGood
<1> SUFFICES ASSUME Init PROVE AllGood
  OBVIOUS
<1>1. file.cps = <<>> /\ \A h \in Holders : hold[h].chain.cps = <<>>
  BY DEF Init, Idle, NoChain
<1> QED BY <1>1, GoodEmpty DEF AllGood

\* Whatever users do at the same time and wherever they crash, the chain file is
\* one chain of hashes with consecutive ordinals.
THEOREM FileStaysLinked == Spec => []FileIsLinked
<1>1. AllGood => FileIsLinked
  BY DEF AllGood, Good, LinkOK, FileIsLinked, VerifyHashChain
<1> QED
  BY <1>1, TypeInit, NextTyped, GoodInit, GoodNext, PTL DEF Spec


-----------------------------------------------------------------------------
(* Users who take turns, and the refinement of ChainLog *)

\* Chain c has every checkpoint of chain f, in its place.
Behind(f, c) ==
    /\ Len(f.cps) <= Len(c.cps)
    /\ \A i \in DOMAIN f.cps : c.cps[i].id = f.cps[i].id

\* As long as no user loaded the chain while another held a copy: one copy is
\* held at a time, it goes on from the file, and what was reported is on file.
Turns ==
    "overlap" \notin lapse =>
        /\ \A g, h \in Holders : Holding(g) /\ Holding(h) => g = h
        /\ \A h \in Holders : Holding(h) => Behind(file, hold[h].chain)
        /\ \A h \in Holders : hold[h].at = "renamed" => file = hold[h].chain
        /\ kept \subseteq HashSet(file)

\* What a step does to the file and to what was reported.
Extended ==
    "overlap" \notin lapse' =>
        /\ Behind(file, file')
        /\ kept \subseteq kept' /\ kept' \subseteq kept \cup HashSet(file')

LEMMA ChainDomain ==
    ASSUME NEW c \in Chains
    PROVE  Len(c.cps) \in Nat /\ DOMAIN c.cps = 1..Len(c.cps)
BY DEF Chains, Chain, NoChain

LEMMA BehindSelf ==
    ASSUME NEW c \in Chains
    PROVE  Behind(c, c)
BY ChainDomain DEF Behind

LEMMA BehindPush ==
    ASSUME NEW f \in Chains, NEW c \in Chain, NEW cp \in Checkpoint, Behind(f, c)
    PROVE  Behind(f, Push(c, cp))
<1>1. Len(Push(c, cp).cps) = Len(c.cps) + 1 /\ \A i \in DOMAIN c.cps : Push(c, cp).cps[i] = c.cps[i]
  BY PushType
<1>2. Len(f.cps) \in Nat /\ Len(c.cps) \in Nat
      /\ DOMAIN f.cps = 1..Len(f.cps) /\ DOMAIN c.cps = 1..Len(c.cps)
  BY ChainDomain DEF Chains
<1> QED
  BY <1>1, <1>2 DEF Behind

LEMMA BehindSign ==
    ASSUME NEW f \in Chains, NEW c \in Chain, c.cps # <<>>, Behind(f, c)
    PROVE  Behind(f, SignLast(c))
<1>1. /\ Len(SignLast(c).cps) = Len(c.cps)
      /\ \A i \in DOMAIN c.cps : SignLast(c).cps[i].id = c.cps[i].id
  BY SignType
<1>2. Len(f.cps) \in Nat /\ Len(c.cps) \in Nat
      /\ DOMAIN f.cps = 1..Len(f.cps) /\ DOMAIN c.cps = 1..Len(c.cps)
  BY ChainDomain DEF Chains
<1> QED
  BY <1>1, <1>2 DEF Behind

LEMMA BehindHashes ==
    ASSUME NEW f \in Chains, NEW c \in Chains, Behind(f, c)
    PROVE  HashSet(f) \subseteq HashSet(c)
<1>2. Len(f.cps) \in Nat /\ Len(c.cps) \in Nat
      /\ DOMAIN f.cps = 1..Len(f.cps) /\ DOMAIN c.cps = 1..Len(c.cps)
  BY ChainDomain
<1> QED
  BY <1>2 DEF Behind, HashSet

LEMMA BehindEmpty ==
    ASSUME NEW c \in Chains
    PROVE  Behind(NoChain, c)
<1>1. Len(NoChain.cps) = 0 /\ DOMAIN NoChain.cps = {}
  BY DEF NoChain
<1> QED
  BY <1>1, ChainDomain DEF Behind

LEMMA LastInHashes ==
    ASSUME NEW c \in Chains, c.cps # <<>>
    PROVE  Last(c).id \in HashSet(c)
BY LastType DEF Last, HashSet

\* A copy is taken.
LEMMA TakeTurns ==
    ASSUME TInv, Turns, NEW h \in Holders, NEW c \in Chain, Take(h, c), Behind(file, c),
           UNCHANGED <<file, mac, lock, mmr, commits, kept, faults>>
    PROVE  Turns' /\ Extended
<1>0. hold \in [Holders -> HoldState] /\ file \in Chains
  BY DEF TInv, TypeOK, Chains
<1>1. hold'[h].at = "open" /\ hold'[h].chain = c /\ \A g \in Holders \ {h} : hold'[g] = hold[g]
  BY <1>0 DEF Take, Idle
<1>2. Extended
  BY <1>0, BehindSelf DEF Extended
<1>3. Turns'
  <2> SUFFICES ASSUME "overlap" \notin lapse' PROVE Turns'
    BY DEF Turns
  <2>1. "overlap" \notin lapse /\ \A g \in Holders \ {h} : ~Holding(g)
    BY DEF Take, Overlap
  <2>2. \A g \in Holders \ {h} : ~Holding(g)'
    BY <1>1, <2>1 DEF Holding
  <2>3. \A g \in Holders \ {h} : hold'[g].at # "renamed"
    BY <2>2 DEF Holding
  <2>4. \A g1, g2 \in Holders : Holding(g1)' /\ Holding(g2)' => g1 = g2
    BY <2>2
  <2>5. \A g \in Holders : Holding(g)' => Behind(file', hold'[g].chain)
    BY <1>1, <2>2
  <2>6. \A g \in Holders : hold'[g].at = "renamed" => file' = hold'[g].chain
    BY <1>1, <2>3
  <2>7. (kept \subseteq HashSet(file))'
    BY <2>1 DEF Turns
  <2> QED BY <2>4, <2>5, <2>6, <2>7 DEF Turns
<1> QED BY <1>2, <1>3

\* The file stays as it is, and a copy that is held grows or is dropped.
LEMMA KeepTurns ==
    ASSUME TInv, Turns, NEW h \in Holders,
           file' = file, kept \subseteq kept',
           "overlap" \notin lapse => kept' \subseteq kept \cup HashSet(file),
           "overlap" \in lapse => "overlap" \in lapse',
           \A g \in Holders \ {h} : hold'[g] = hold[g],
           Holding(h)' => Holding(h),
           Holding(h)' => Same(h) \/ Pushed(h) \/ SignedCopy(h),
           hold'[h].at # "renamed"
    PROVE  Turns' /\ Extended
<1>0. file \in Chains
  BY DEF TInv, TypeOK, Chains
<1>1. Extended
  BY <1>0, BehindSelf DEF Extended
<1>2. Turns'
  <2> SUFFICES ASSUME "overlap" \notin lapse' PROVE Turns'
    BY DEF Turns
  <2>1. /\ \A g1, g2 \in Holders : Holding(g1) /\ Holding(g2) => g1 = g2
        /\ \A g \in Holders : Holding(g) => Behind(file, hold[g].chain)
        /\ \A g \in Holders : hold[g].at = "renamed" => file = hold[g].chain
        /\ kept \subseteq HashSet(file)
        /\ "overlap" \notin lapse
    BY DEF Turns
  <2>2. \A g \in Holders : Holding(g)' => Holding(g)
    BY DEF Holding
  <2>3. Holding(h)' => Behind(file, hold'[h].chain)
    <3> SUFFICES ASSUME Holding(h)' PROVE Behind(file, hold'[h].chain)
      OBVIOUS
    <3>1. hold[h].chain \in Chain /\ Behind(file, hold[h].chain)
      BY <2>1, HolderFacts DEF HolderOk, Holding
    <3>2. CASE Same(h)
      BY <3>1, <3>2 DEF Same
    <3>3. CASE Pushed(h)
      BY <1>0, <3>1, <3>3, PushedFacts, BehindPush DEF Pushed
    <3>4. CASE SignedCopy(h)
      BY <1>0, <3>1, <3>4, BehindSign DEF SignedCopy
    <3> QED BY <3>2, <3>3, <3>4
  <2>4. \A g \in Holders : Holding(g)' => Behind(file', hold'[g].chain)
    BY <2>1, <2>2, <2>3
  <2>5. \A g \in Holders : hold'[g].at = "renamed" => file' = hold'[g].chain
    BY <2>1
  <2>6. \A g1, g2 \in Holders : Holding(g1)' /\ Holding(g2)' => g1 = g2
    BY <2>1, <2>2
  <2>7. kept' \subseteq HashSet(file')
    BY <2>1
  <2> QED BY <2>4, <2>5, <2>6, <2>7 DEF Turns
<1> QED BY <1>1, <1>2

\* The file is replaced by the copy of h.
LEMMA ReplaceTurns ==
    ASSUME TInv, Turns, NEW h \in Holders, Holding(h),
           file' = hold[h].chain,
           kept \subseteq kept', kept' \subseteq kept \cup HashSet(file'),
           "overlap" \in lapse => "overlap" \in lapse',
           \A g \in Holders \ {h} : hold'[g] = hold[g],
           hold'[h].chain = hold[h].chain
    PROVE  Turns' /\ Extended
<1>0. file \in Chains /\ hold[h].chain \in Chains
  BY DEF TInv, TypeOK, Chains, HoldState
<1> SUFFICES ASSUME "overlap" \notin lapse' PROVE Turns' /\ Extended
  BY DEF Turns, Extended
<1>1. /\ \A g1, g2 \in Holders : Holding(g1) /\ Holding(g2) => g1 = g2
      /\ Behind(file, hold[h].chain)
      /\ kept \subseteq HashSet(file)
  BY DEF Turns
<1>2. \A g \in Holders \ {h} : ~Holding(g) /\ ~Holding(g)'
  BY <1>1 DEF Holding
<1>3. kept' \subseteq HashSet(file')
  BY <1>0, <1>1, BehindHashes
<1>4. Behind(file', hold'[h].chain)
  BY <1>0, BehindSelf
<1>5. \A g \in Holders \ {h} : hold'[g].at # "renamed"
  BY <1>2 DEF Holding
<1>6. Turns'
  <2>1. \A g \in Holders : hold'[g].at = "renamed" => file' = hold'[g].chain
    BY <1>5
  <2>2. \A g \in Holders : Holding(g)' => Behind(file', hold'[g].chain)
    BY <1>2, <1>4
  <2>3. \A g1, g2 \in Holders : Holding(g1)' /\ Holding(g2)' => g1 = g2
    BY <1>2
  <2> QED BY <1>3, <2>1, <2>2, <2>3 DEF Turns
<1> QED
  BY <1>1, <1>6 DEF Extended


LEMMA TurnsStep ==
    ASSUME TInv, Turns, NEW h \in Holders, Step(h)
    PROVE  Turns' /\ Extended
<1>H. hold \in [Holders -> HoldState] /\ hold[h] \in HoldState /\ file \in Chains
  BY DEF TInv, TypeOK, Chains
<1>O. /\ \A g \in Holders \ {h} : hold'[g] = hold[g]
      /\ Same(h) \/ Dropped(h) \/ Opened(h) \/ Loaded(h) \/ Pushed(h) \/ SignedCopy(h)
  BY Moves
<1>1. CASE RequestNew(h)
  <2>1. NewChain("Legacy", "Required") \in Chain
    BY NewChainType DEF Modes, Policies
  <2>2. Behind(file, NewChain("Legacy", "Required"))
    BY <1>1, <2>1, BehindEmpty DEF RequestNew, Chains
  <2> QED BY <1>1, <2>1, <2>2, TakeTurns DEF RequestNew
<1>2. CASE UserNew(h)
  <2>1. PICK mode \in Modes, policy \in Policies : Take(h, NewChain(mode, policy))
    BY <1>2 DEF UserNew
  <2>2. NewChain(mode, policy) \in Chain
    BY NewChainType
  <2>3. Behind(file, NewChain(mode, policy))
    BY <1>2, <2>2, BehindEmpty DEF UserNew, Chains
  <2> QED BY <1>2, <2>1, <2>2, <2>3, TakeTurns DEF UserNew
<1>3. CASE ReadChain(h)
  <2>1. file \in Chain
    BY <1>3, HolderFacts, FileIsChain DEF ReadChain, HolderOk
  <2> QED BY <1>3, <1>H, <2>1, BehindSelf, TakeTurns DEF ReadChain
<1>4. CASE UserLoad(h)
  BY <1>4, <1>H, FileIsChain, BehindSelf, TakeTurns DEF UserLoad
<1>5. CASE ReadMac(h)
  <2>1. hold'[h].at = "loading"
    BY <1>5, <1>H DEF ReadMac, HoldState
  <2> QED BY <1>5, <1>O, <2>1, KeepTurns DEF ReadMac, Holding
<1>6. CASE ReadChainRefused(h) \/ CommitRefused(h) \/ RenameChainFails(h) \/ Close(h)
  <2>1. hold'[h].at = "idle"
    BY <1>6, <1>H DEF ReadChainRefused, CommitRefused, RenameChainFails, Close, Idle
  <2> QED BY <1>6, <1>O, <2>1, KeepTurns
             DEF ReadChainRefused, CommitRefused, RenameChainFails, Close, Holding
<1>7. CASE WithMmr(h)
  <2>1. hold'[h].at = "open" /\ hold'[h].chain = hold[h].chain
    BY <1>7, <1>H DEF WithMmr, HoldState
  <2> QED BY <1>7, <1>O, <2>1, KeepTurns DEF WithMmr, Holding, Same
<1>8. CASE Commit(h) \/ CommitWithVdfDuration(h) \/ CommitEntangled(h) \/ CommitRfc(h)
  <2>1. PICK cp : CommitBegin(h, cp)
    BY <1>8 DEF Commit, CommitWithVdfDuration, CommitEntangled, CommitRfc
  <2>2. hold'[h].at = "committing" /\ hold'[h].chain = hold[h].chain
    BY <2>1, <1>H DEF CommitBegin, HoldState
  <2> QED BY <2>1, <1>O, <2>2, KeepTurns DEF CommitBegin, Holding, Same
<1>9. CASE CommitFinish(h)
  <2>1. hold'[h].at \in {"committed", "open"}
    BY <1>9, <1>H DEF CommitFinish, HoldState
  <2>2. Pushed(h)
    <3>1. hold'[h].chain = Push(hold[h].chain, Finalize(hold[h].cp, hold[h].anchored))
      BY <1>9, <1>H DEF CommitFinish, HoldState
    <3> QED BY <1>9, <3>1 DEF CommitFinish, Pushed
  <2> QED BY <1>9, <1>O, <2>1, <2>2, KeepTurns DEF CommitFinish, Holding
<1>10. CASE CommitFails(h) \/ RenameMacFails(h)
  <2>1. hold'[h] = GiveUp(h) /\ commits' = commits
    BY <1>10, <1>H DEF CommitFails, RenameMacFails
  <2>2. hold'[h].at # "renamed" /\ (Holding(h)' => Same(h))
    BY <1>H, <2>1 DEF GiveUp, Idle, HoldState, Same, Holding
  <2>3. "overlap" \in lapse => "overlap" \in lapse'
    BY <1>10 DEF CommitFails, RenameMacFails
  <2> QED BY <1>10, <1>O, <2>2, <2>3, KeepTurns DEF CommitFails, RenameMacFails, Holding
<1>11. CASE SignLastCheckpoint(h)
  <2>1. hold'[h].at = "open"
    BY <1>11, <1>H DEF SignLastCheckpoint, HoldState
  <2>2. SignedCopy(h)
    BY <1>11, <1>H DEF SignLastCheckpoint, SignedCopy, HoldState
  <2> QED BY <1>11, <1>O, <2>1, <2>2, KeepTurns DEF SignLastCheckpoint, Holding
<1>12. CASE Save(h)
  <2>1. kept \subseteq kept' /\ kept' \subseteq kept \cup HashSet(file')
    BY <1>12 DEF Save
  <2> QED BY <1>12, <1>O, <2>1, ReplaceTurns DEF Save, Holding
<1>13. CASE RenameChain(h)
  <2>1. hold'[h].chain = hold[h].chain
    BY <1>13, <1>H DEF RenameChain, HoldState
  <2> QED BY <1>13, <1>O, <2>1, ReplaceTurns DEF RenameChain, Holding
<1>14. CASE RenameMac(h)
  <2>1. hold'[h] = GiveUp(h) /\ commits' = commits
    BY <1>14, <1>H DEF RenameMac
  <2>2. hold'[h].at # "renamed" /\ (Holding(h)' => Same(h))
    BY <1>H, <2>1 DEF GiveUp, Idle, HoldState, Same, Holding
  <2>3. Reported(h) \subseteq HashSet(hold[h].chain)
    <3>1. hold[h].chain \in Chains /\ (h \in Requests => hold[h].chain.cps # <<>>)
      BY <1>14, HolderFacts DEF HolderOk, RenameMac, Chains
    <3> QED BY <3>1, LastInHashes DEF Reported
  <2>4. "overlap" \notin lapse => kept' \subseteq kept \cup HashSet(file)
    BY <1>14, <2>3 DEF RenameMac, Turns
  <2>5. "overlap" \in lapse => "overlap" \in lapse'
    BY <1>14 DEF RenameMac
  <2> QED BY <1>14, <1>O, <2>2, <2>4, <2>5, KeepTurns DEF RenameMac, Holding
<1> QED
  BY <1>1, <1>2, <1>3, <1>4, <1>5, <1>6, <1>7, <1>8, <1>9, <1>10, <1>11, <1>12, <1>13,
     <1>14 DEF Step

LEMMA TurnsCrash ==
    ASSUME TInv, Turns, NEW p \in Processes, Crash(p)
    PROVE  Turns' /\ Extended
<1>1. /\ file' = file /\ kept' = kept /\ lapse \subseteq lapse'
      /\ \A h \in Holders : hold'[h] = Idle \/ hold'[h] = hold[h]
  BY DEF Crash, TInv, TypeOK
<1>2. \A h \in Holders : Holding(h)' => hold'[h] = hold[h] /\ Holding(h)
  BY <1>1 DEF Holding, Idle
<1>3. \A h \in Holders : hold'[h].at = "renamed" => hold'[h] = hold[h]
  BY <1>1 DEF Idle
<1>4. Turns'
  BY <1>1, <1>2, <1>3 DEF Turns
<1>5. Behind(file, file')
  BY <1>1, BehindSelf DEF TInv, TypeOK, Chains
<1> QED
  BY <1>1, <1>4, <1>5 DEF Extended

LEMMA TurnsNext == TInv /\ Turns /\ [Next]_vars => Turns' /\ (Extended \/ UNCHANGED vars)
<1> SUFFICES ASSUME TInv, Turns, [Next]_vars PROVE Turns' /\ (Extended \/ UNCHANGED vars)
  OBVIOUS
<1>1. CASE UNCHANGED vars
  BY <1>1 DEF vars, Turns, Holding
<1> QED
  BY <1>1, TurnsStep, TurnsCrash DEF Next

LEMMA TurnsInit == Init => Turns
BY DEF Init, Turns, Holding, Idle

LEMMA ExtendsHashes ==
    ASSUME NEW f \in Chains, NEW c \in Chains, Behind(f, c)
    PROVE  Log!Extends(Hashes(f), Hashes(c))
<1>1. Len(f.cps) \in Nat /\ Len(c.cps) \in Nat
      /\ DOMAIN f.cps = 1..Len(f.cps) /\ DOMAIN c.cps = 1..Len(c.cps)
  BY ChainDomain
<1>2. Hashes(f) = [i \in 1..Len(f.cps) |-> f.cps[i].id]
      /\ Hashes(c) = [i \in 1..Len(c.cps) |-> c.cps[i].id]
  BY <1>1 DEF Hashes
<1>3. Len(Hashes(f)) = Len(f.cps) /\ Len(Hashes(c)) = Len(c.cps)
  BY <1>1, <1>2
<1> QED
  BY <1>1, <1>2, <1>3 DEF Behind, Log!Extends

LEMMA EntriesHashes ==
    ASSUME NEW c \in Chains
    PROVE  Log!Entries(Hashes(c)) = HashSet(c)
<1>1. DOMAIN Hashes(c) = DOMAIN c.cps /\ \A i \in DOMAIN c.cps : Hashes(c)[i] = c.cps[i].id
  BY DEF Hashes
<1> QED
  BY <1>1 DEF Log!Entries, HashSet

LEMMA OverlapStays ==
    ASSUME TInv, [Next]_vars, "overlap" \in lapse
    PROVE  "overlap" \in lapse'
<1>1. CASE UNCHANGED vars
  BY <1>1 DEF vars
<1>2. ASSUME NEW p \in Processes, Crash(p)
      PROVE  "overlap" \in lapse'
  BY <1>2 DEF Crash
<1>3. ASSUME NEW h \in Holders, Step(h)
      PROVE  "overlap" \in lapse'
  <2>1. CASE Commit(h) \/ CommitWithVdfDuration(h) \/ CommitEntangled(h) \/ CommitRfc(h)
    <3>1. PICK cp : CommitBegin(h, cp)
      BY <2>1 DEF Commit, CommitWithVdfDuration, CommitEntangled, CommitRfc
    <3> QED BY <3>1 DEF CommitBegin
  <2>2. CASE RequestNew(h) \/ ReadChain(h) \/ UserLoad(h) \/ UserNew(h)
    BY <2>2 DEF RequestNew, ReadChain, UserLoad, UserNew, Take
  <2>3. CASE ReadMac(h) \/ ReadChainRefused(h) \/ WithMmr(h) \/ CommitRefused(h)
             \/ SignLastCheckpoint(h) \/ RenameChain(h) \/ RenameChainFails(h)
    BY <2>3 DEF ReadMac, ReadChainRefused, WithMmr, CommitRefused, SignLastCheckpoint,
                RenameChain, RenameChainFails
  <2>4. CASE CommitFinish(h) \/ CommitFails(h) \/ RenameMacFails(h) \/ Close(h)
    BY <2>4 DEF CommitFinish, CommitFails, RenameMacFails, Close
  <2>5. CASE Save(h) \/ RenameMac(h)
    BY <2>5 DEF Save, RenameMac
  <2> QED BY <1>3, <2>1, <2>2, <2>3, <2>4, <2>5 DEF Step
<1> QED BY <1>1, <1>2, <1>3 DEF Next

LEMMA LogInit == Init => Log!Init
BY DEF Init, Log!Init, Hashes, NoChain

LEMMA LogNext ==
    ASSUME TInv, TInv', Turns, [Next]_vars
    PROVE  [Log!Next]_(Log!vars)
<1>1. Extended \/ UNCHANGED vars
  BY TurnsNext
<1>2. CASE UNCHANGED vars
  BY <1>2 DEF vars, Log!vars
<1>3. CASE Extended /\ "overlap" \notin lapse'
  <2>1. Log!Extends(Hashes(file), Hashes(file'))
    BY <1>3, ExtendsHashes DEF Extended, TInv, TypeOK, Chains
  <2>2. kept \subseteq kept' /\ kept' \subseteq kept \cup Log!Entries(Hashes(file'))
    BY <1>3, EntriesHashes DEF Extended, TInv, TypeOK, Chains
  <2>3. Hashes(file)' = Hashes(file')
    BY DEF Hashes
  <2>4. CASE "overlap" \notin lapse
    BY <1>3, <2>1, <2>2, <2>3, <2>4 DEF Log!Next, Log!Extend
  <2>5. CASE "overlap" \in lapse
    <3>1. "overlap" \in lapse'
      BY <2>5, OverlapStays
    <3> QED BY <1>3, <3>1
  <2> QED BY <2>4, <2>5
<1>4. CASE "overlap" \in lapse'
  BY <1>4 DEF Log!Next, Log!Collide
<1> QED BY <1>1, <1>2, <1>3, <1>4

\* The chain of the code implements the append-only log: whatever requests and
\* users do, as long as they take turns, the file is only extended, and what was
\* reported as saved is and stays on file.
THEOREM ChainImplementsLog == Spec => ImplementsLog
<1>1. TInv /\ Turns /\ [Next]_vars => TInv' /\ Turns'
  BY NextTyped, TurnsNext
<1>2. TInv /\ TInv' /\ Turns /\ [Next]_vars => [Log!Next]_(Log!vars)
  BY LogNext
<1> QED
  BY <1>1, <1>2, TypeInit, TurnsInit, LogInit, PTL DEF Spec, ImplementsLog, Log!Spec


-----------------------------------------------------------------------------
(* The sidecar *)

\* The sidecar is missing, covers the file, or is about to be replaced.
MacInv ==
    lapse \cap {"overlap", "torn", "unsealed"} = {} =>
        mac = NoChain \/ mac = file \/ \E h \in Holders : hold[h].at = "renamed"

LEMMA MacKeep ==
    ASSUME MacInv, NEW h \in Holders, hold[h].at # "renamed",
           \A g \in Holders \ {h} : hold'[g] = hold[g],
           file' = file, mac' = mac,
           lapse \cap {"overlap", "torn", "unsealed"} \subseteq lapse'
    PROVE  MacInv'
BY DEF MacInv

LEMMA MacStep ==
    ASSUME TInv, Turns, MacInv, NEW h \in Holders, Step(h)
    PROVE  MacInv'
<1>H. hold \in [Holders -> HoldState] /\ hold[h] \in HoldState
  BY DEF TInv, TypeOK
<1>O. \A g \in Holders \ {h} : hold'[g] = hold[g]
  BY Moves
<1>1. CASE Commit(h) \/ CommitWithVdfDuration(h) \/ CommitEntangled(h) \/ CommitRfc(h)
  <2>1. PICK cp : CommitBegin(h, cp)
    BY <1>1 DEF Commit, CommitWithVdfDuration, CommitEntangled, CommitRfc
  <2> QED BY <2>1, <1>O, MacKeep DEF CommitBegin
<1>2. CASE RequestNew(h) \/ ReadChain(h) \/ UserLoad(h) \/ UserNew(h)
  <2>1. hold[h].at # "renamed" /\ file' = file /\ mac' = mac /\ lapse \subseteq lapse'
    BY <1>2 DEF RequestNew, ReadChain, UserLoad, UserNew, Take
  <2> QED BY <1>O, <2>1, MacKeep
<1>3. CASE ReadMac(h) \/ ReadChainRefused(h) \/ WithMmr(h) \/ CommitRefused(h)
           \/ SignLastCheckpoint(h) \/ RenameChainFails(h)
  <2>1. hold[h].at # "renamed" /\ file' = file /\ mac' = mac /\ lapse' = lapse
    BY <1>3 DEF ReadMac, ReadChainRefused, WithMmr, CommitRefused, SignLastCheckpoint,
                RenameChainFails
  <2> QED BY <1>O, <2>1, MacKeep
<1>4. CASE CommitFinish(h) \/ CommitFails(h) \/ Close(h)
  <2>1. hold[h].at # "renamed" /\ file' = file /\ mac' = mac /\ lapse \subseteq lapse'
    BY <1>4 DEF CommitFinish, CommitFails, Close
  <2> QED BY <1>O, <2>1, MacKeep
<1>5. CASE RenameMacFails(h)
  BY <1>5 DEF RenameMacFails, MacInv
<1>6. CASE RenameMac(h)
  <2> SUFFICES ASSUME lapse' \cap {"overlap", "torn", "unsealed"} = {} PROVE mac' = file'
    BY DEF MacInv
  <2>1. "overlap" \notin lapse
    BY <1>6 DEF RenameMac
  <2> QED BY <1>6, <2>1 DEF RenameMac, Turns
<1>7. CASE RenameChain(h)
  <2>1. hold'[h].at = "renamed"
    BY <1>7, <1>H DEF RenameChain, HoldState
  <2> QED BY <2>1 DEF MacInv
<1>8. CASE Save(h)
  BY <1>8 DEF Save, MacInv
<1> QED
  BY <1>1, <1>2, <1>3, <1>4, <1>5, <1>6, <1>7, <1>8 DEF Step

LEMMA MacNext == TInv /\ Turns /\ MacInv /\ [Next]_vars => MacInv'
<1> SUFFICES ASSUME TInv, Turns, MacInv, [Next]_vars PROVE MacInv'
  OBVIOUS
<1>1. CASE UNCHANGED vars
  BY <1>1 DEF vars, MacInv
<1>2. ASSUME NEW p \in Processes, Crash(p)
      PROVE  MacInv'
  <2> SUFFICES ASSUME lapse' \cap {"overlap", "torn", "unsealed"} = {} PROVE MacInv'
    BY DEF MacInv
  <2>1. /\ file' = file /\ mac' = mac /\ lapse \subseteq lapse'
        /\ \A h \in p : hold[h].at # "renamed"
        /\ \A h \in Holders \ p : hold'[h] = hold[h]
    BY <1>2 DEF Crash
  <2> QED BY <2>1 DEF MacInv
<1> QED
  BY <1>1, <1>2, MacStep DEF Next

\* Between saves the sidecar covers the file, and load_with_mac accepts it, unless
\* users collided, a save was torn, or a save without MAC came after one with.
THEOREM SidecarCovers == Spec => []MacCoversFile
<1>1. MacInv => MacCoversFile
  BY DEF MacInv, MacCoversFile
<1>2. Init => MacInv
  BY DEF Init, MacInv
<1> QED
  BY <1>1, <1>2, TypeInit, NextTyped, TurnsInit, TurnsNext, MacNext, PTL DEF Spec

-----------------------------------------------------------------------------
(* The Merkle anchors, and verification *)

Anchored(c) == \A i \in DOMAIN c.cps : AnchorVerifies(c, i)

\* The next leaf of the MMR follows the last checkpoint of the chain.
LastOk(c, m) == c.cps # <<>> => Last(c).proof \in {None, m}

AnchorInv ==
    lapse \cap {"overlap", "orphan"} = {} =>
        /\ Anchored(file) /\ \A h \in Holders : Anchored(hold[h].chain)
        /\ \A h \in Holders : Holding(h) => LastOk(hold[h].chain, mmr)
        /\ LastOk(file, mmr) \/ \E h \in Holders : Orphans(h)
        /\ \A h \in Requests : ~Orphans(h)

LEMMA EmptyAnchored ==
    ASSUME NEW c, NEW m, c.cps = <<>>
    PROVE  Anchored(c) /\ LastOk(c, m)
BY DEF Anchored, LastOk

LEMMA SignAnchored ==
    ASSUME NEW c \in Chain, c.cps # <<>>, NEW m
    PROVE  /\ Anchored(c) => Anchored(SignLast(c))
           /\ LastOk(c, m) => LastOk(SignLast(c), m)
<1> DEFINE s == SignLast(c)
<1>1. /\ DOMAIN s.cps = DOMAIN c.cps /\ Len(s.cps) = Len(c.cps)
      /\ \A i \in DOMAIN c.cps : s.cps[i].proof = c.cps[i].proof /\ s.cps[i].root = c.cps[i].root
  BY SignType
<1>2. /\ DOMAIN c.cps = 1..Len(c.cps) /\ Len(c.cps) \in Nat \ {0}
      /\ Len(c.cps) \in DOMAIN c.cps
  BY LastType, ChainDomain DEF Chains
<1> HIDE DEF s
<1>3. \A i \in DOMAIN c.cps : i < Len(c.cps) => i + 1 \in DOMAIN c.cps
  BY <1>2
<1>4. Anchored(c) => Anchored(s)
  BY <1>1, <1>3 DEF Anchored, AnchorVerifies
<1>5. LastOk(c, m) => LastOk(s, m)
  BY <1>1, <1>2 DEF LastOk, Last
<1> QED BY <1>4, <1>5 DEF s

LEMMA PushAnchored ==
    ASSUME NEW c \in Chain, NEW cp \in Checkpoint, NEW m, NEW n,
           Anchored(c), LastOk(c, m), cp.root \in {None, m}, cp.proof \in {None, n}
    PROVE  Anchored(Push(c, cp)) /\ LastOk(Push(c, cp), n)
<1> DEFINE p == Push(c, cp)
           k == Len(c.cps)
<1>1. /\ k \in Nat /\ DOMAIN c.cps = 1..k /\ Len(p.cps) = k + 1 /\ DOMAIN p.cps = 1..(k + 1)
      /\ \A i \in 1..k : p.cps[i] = c.cps[i]
      /\ p.cps[k + 1] = cp
  <2>1. k \in Nat /\ DOMAIN c.cps = 1..k
    BY DEF Chain
  <2>2. p \in Chain /\ Len(p.cps) = k + 1 /\ p.cps[k + 1] = cp
        /\ \A i \in DOMAIN c.cps : p.cps[i] = c.cps[i]
    BY PushType
  <2>3. DOMAIN p.cps = 1..(k + 1)
    BY <2>2 DEF Chain
  <2> QED BY <2>1, <2>2, <2>3
<1>2. k > 0 => c.cps[k].proof \in {None, m}
  BY <1>1 DEF LastOk, Last
<1> HIDE DEF p, k
<1>3. ASSUME NEW i \in 1..(k + 1)
      PROVE  AnchorVerifies(p, i)
  <2>1. CASE i < k
    <3>1. p.cps[i] = c.cps[i] /\ p.cps[i + 1] = c.cps[i + 1] /\ i \in DOMAIN c.cps
      BY <1>1, <2>1
    <3>2. AnchorVerifies(c, i)
      BY <3>1 DEF Anchored
    <3> QED BY <1>1, <2>1, <3>1, <3>2 DEF AnchorVerifies, k
  <2>2. CASE i = k
    <3>0. k \in 1..k
      BY <1>1, <2>2
    <3>1. p.cps[i] = c.cps[k] /\ p.cps[i + 1] = cp
      BY <1>1, <2>2, <3>0
    <3> QED BY <1>1, <1>2, <2>2, <3>1 DEF AnchorVerifies
  <2>3. CASE i = k + 1
    BY <1>1, <2>3 DEF AnchorVerifies
  <2> QED BY <1>1, <2>1, <2>2, <2>3
<1>4. Anchored(p)
  BY <1>1, <1>3 DEF Anchored
<1>5. LastOk(p, n)
  BY <1>1 DEF LastOk, Last
<1> QED BY <1>4, <1>5 DEF p

\* Who holds no copy leaves no leaf behind, nor does who has saved.
LEMMA NoOrphans ==
    ASSUME NEW h, hold[h].chain = NoChain \/ hold[h].chain = file
    PROVE  ~Orphans(h)
BY DEF Orphans, NoChain, HashSet

LEMMA AnchorInit == Init => AnchorInv
<1> SUFFICES ASSUME Init PROVE AnchorInv
  OBVIOUS
<1>1. file.cps = <<>> /\ \A h \in Holders : hold[h].chain = NoChain
  BY DEF Init, Idle, NoChain
<1>2. NoChain.cps = <<>>
  BY DEF NoChain
<1>3. Anchored(file) /\ LastOk(file, mmr)
  BY <1>1, EmptyAnchored
<1>4. \A h \in Holders : Anchored(hold[h].chain) /\ LastOk(hold[h].chain, mmr)
  BY <1>1, <1>2, EmptyAnchored
<1>5. \A h \in Requests : ~Orphans(h)
  BY <1>1, NoOrphans DEF Holders
<1> QED BY <1>3, <1>4, <1>5 DEF AnchorInv


\* The file and the MMR stay as they are; a copy is kept, signed, or dropped
\* without leaving a leaf behind.
LEMMA AnchorKeep ==
    ASSUME TInv, AnchorInv, NEW h \in Holders,
           file' = file, mmr' = mmr,
           lapse \cap {"overlap", "orphan"} \subseteq lapse',
           \A g \in Holders \ {h} : hold'[g] = hold[g],
           lapse' \cap {"overlap", "orphan"} = {} =>
              Same(h) \/ SignedCopy(h) \/ (Dropped(h) /\ ~Orphans(h) /\ ~Holding(h)'),
           Same(h) => (Holding(h)' => Holding(h))
    PROVE  AnchorInv'
<1> SUFFICES ASSUME lapse' \cap {"overlap", "orphan"} = {} PROVE AnchorInv'
  BY DEF AnchorInv
<1>1. /\ Anchored(file) /\ \A g \in Holders : Anchored(hold[g].chain)
      /\ \A g \in Holders : Holding(g) => LastOk(hold[g].chain, mmr)
      /\ LastOk(file, mmr) \/ \E g \in Holders : Orphans(g)
      /\ \A g \in Requests : ~Orphans(g)
  BY DEF AnchorInv
<1>2. \A g \in Holders \ {h} : Orphans(g)' <=> Orphans(g)
  BY DEF Orphans
<1>3. \A g \in Holders \ {h} : Holding(g)' <=> Holding(g)
  BY DEF Holding
<1>4. CASE Same(h)
  <2>1. Orphans(h)' <=> Orphans(h)
    BY <1>4 DEF Orphans, Same
  <2>2. \A g \in Holders : hold'[g].chain = hold[g].chain /\ (Holding(g)' => Holding(g))
    BY <1>3, <1>4 DEF Same
  <2>3. \A g \in Holders : Orphans(g)' <=> Orphans(g)
    BY <1>2, <2>1
  <2>4. \A g \in Requests : g \in Holders
    BY DEF Holders
  <2> QED BY <1>1, <2>2, <2>3, <2>4 DEF AnchorInv
<1>5. CASE Dropped(h) /\ ~Orphans(h) /\ ~Holding(h)'
  <2>1. hold'[h].chain = NoChain /\ NoChain.cps = <<>>
    BY <1>5 DEF Dropped, NoChain
  <2>2. ~Orphans(h)'
    BY <2>1 DEF Orphans
  <2>3. \A g \in Holders : Orphans(g)' <=> Orphans(g)
    BY <1>2, <1>5, <2>2
  <2>4. \A g \in Requests : g \in Holders
    BY DEF Holders
  <2>5. Anchored(hold'[h].chain)
    BY <2>1, EmptyAnchored
  <2>6. \A g \in Holders : Anchored(hold'[g].chain)
    BY <1>1, <2>5
  <2>7. \A g \in Holders : Holding(g)' => LastOk(hold'[g].chain, mmr')
    BY <1>1, <1>3, <1>5
  <2> QED BY <1>1, <2>3, <2>4, <2>6, <2>7 DEF AnchorInv
<1>6. CASE SignedCopy(h)
  <2> DEFINE c == hold[h].chain
  <2>0. c \in Chain /\ c.cps # <<>> /\ Holding(h) /\ hold'[h].chain = SignLast(c)
    BY <1>6, HolderFacts DEF HolderOk, SignedCopy, Holding
  <2>1. /\ DOMAIN SignLast(c).cps = DOMAIN c.cps
        /\ \A i \in DOMAIN c.cps : SignLast(c).cps[i].id = c.cps[i].id
                                   /\ SignLast(c).cps[i].proof = c.cps[i].proof
    BY <2>0, SignType
  <2>2. Orphans(h)' <=> Orphans(h)
    BY <2>0, <2>1 DEF Orphans
  <2>3. \A g \in Holders : Orphans(g)' <=> Orphans(g)
    BY <1>2, <2>2
  <2>4. \A g \in Requests : g \in Holders
    BY DEF Holders
  <2>5. Anchored(hold'[h].chain) /\ LastOk(hold'[h].chain, mmr)
    BY <1>1, <2>0, SignAnchored
  <2>6. \A g \in Holders : Anchored(hold'[g].chain)
    BY <1>1, <2>5
  <2>7. \A g \in Holders : Holding(g)' => LastOk(hold'[g].chain, mmr')
    BY <1>1, <1>3, <2>5
  <2> QED BY <1>1, <2>3, <2>4, <2>6, <2>7 DEF AnchorInv
<1> QED BY <1>4, <1>5, <1>6

\* A copy is taken by the only user.
LEMMA AnchorTake ==
    ASSUME TInv, AnchorInv, NEW h \in Holders, NEW c \in Chain, Take(h, c), ~Holding(h),
           c = file \/ (c.cps = <<>> /\ file = NoChain),
           UNCHANGED <<file, mac, lock, mmr, commits, kept, faults>>
    PROVE  AnchorInv'
<1> SUFFICES ASSUME lapse' \cap {"overlap", "orphan"} = {} PROVE AnchorInv'
  BY DEF AnchorInv
<1>0. hold \in [Holders -> HoldState]
  BY DEF TInv, TypeOK
<1>1. hold'[h].chain = c /\ \A g \in Holders \ {h} : hold'[g] = hold[g]
  BY <1>0 DEF Take, Idle
<1>2. "overlap" \notin lapse' /\ "orphan" \notin lapse'
  OBVIOUS
<1>3. "overlap" \notin lapse /\ "orphan" \notin lapse /\ \A g \in Holders \ {h} : ~Holding(g)
  BY <1>2 DEF Take, Overlap
<1>4. \A g \in Holders : hold[g].chain = NoChain
  BY <1>3, HolderFacts DEF HolderOk, Holding
<1>5. \A g \in Holders : ~Orphans(g)
  BY <1>4, NoOrphans
<1>6. Anchored(file) /\ LastOk(file, mmr)
  BY <1>3, <1>5 DEF AnchorInv
<1>7. Anchored(c) /\ LastOk(c, mmr)
  BY <1>6, EmptyAnchored
<1>8. Anchored(NoChain) /\ NoChain.cps = <<>>
  BY EmptyAnchored DEF NoChain
<1>9. \A g \in Holders : Anchored(hold'[g].chain)
  BY <1>1, <1>4, <1>7, <1>8
<1>10. \A g \in Holders \ {h} : ~Holding(g)'
  BY <1>1, <1>3 DEF Holding
<1>11. ~Orphans(h)'
  BY <1>1 DEF Orphans, HashSet
<1>12. \A g \in Holders : ~Orphans(g)'
  BY <1>1, <1>5, <1>11 DEF Orphans
<1>13. \A g \in Requests : g \in Holders
  BY DEF Holders
<1> QED
  BY <1>1, <1>6, <1>7, <1>9, <1>10, <1>12, <1>13 DEF AnchorInv

\* The only user replaces the file.
LEMMA AnchorReplace ==
    ASSUME TInv, Turns, AnchorInv, NEW h \in Holders, Holding(h),
           file' = hold[h].chain, mmr' = mmr, hold'[h].chain = hold[h].chain,
           lapse \cap {"overlap", "orphan"} \subseteq lapse',
           \A g \in Holders \ {h} : hold'[g] = hold[g]
    PROVE  AnchorInv'
<1> SUFFICES ASSUME lapse' \cap {"overlap", "orphan"} = {} PROVE AnchorInv'
  BY DEF AnchorInv
<1>1. "overlap" \notin lapse /\ "orphan" \notin lapse
  OBVIOUS
<1>2. \A g \in Holders \ {h} : ~Holding(g)
  BY <1>1 DEF Turns
<1>3. \A g \in Holders \ {h} : hold[g].chain = NoChain
  BY <1>2, HolderFacts DEF HolderOk, Holding
<1>4. Anchored(hold[h].chain) /\ LastOk(hold[h].chain, mmr)
  BY <1>1 DEF AnchorInv
<1>5. Anchored(NoChain)
  BY EmptyAnchored DEF NoChain
<1>6. \A g \in Holders : Anchored(hold'[g].chain)
  BY <1>3, <1>4, <1>5
<1>7. \A g \in Holders \ {h} : ~Holding(g)'
  BY <1>2 DEF Holding
<1>8. \A g \in Holders : ~Orphans(g)'
  BY <1>3 DEF Orphans, HashSet, NoChain
<1>9. \A g \in Requests : g \in Holders
  BY DEF Holders
<1> QED
  BY <1>4, <1>6, <1>7, <1>8, <1>9 DEF AnchorInv


\* A commit is pushed on the only copy.
LEMMA AnchorFinish ==
    ASSUME TInv, AllGood, Turns, AnchorInv, NEW h \in Holders, CommitFinish(h)
    PROVE  AnchorInv'
<1> SUFFICES ASSUME lapse' \cap {"overlap", "orphan"} = {} PROVE AnchorInv'
  BY DEF AnchorInv
<1> DEFINE c == hold[h].chain
           cp == Finalize(hold[h].cp, hold[h].anchored)
           a == hold[h].anchored
           k == Len(c.cps)
<1>0. hold \in [Holders -> HoldState] /\ hold[h] \in HoldState /\ mmr \in Nat /\ a \in BOOLEAN
  BY DEF TInv, TypeOK, HoldState
<1>1. /\ "overlap" \notin lapse /\ "orphan" \notin lapse
      /\ file' = file
      /\ mmr' = IF a THEN mmr + 1 ELSE mmr
      /\ \A g \in Holders \ {h} : hold'[g] = hold[g]
      /\ hold'[h].chain = Push(c, cp)
      /\ Holding(h)
  BY <1>0 DEF CommitFinish, HoldState, Holding
<1>2. /\ c \in Chain /\ cp \in Checkpoint /\ cp.id = commits + 1
      /\ cp.root = IF a THEN mmr ELSE None
      /\ cp.proof = IF a THEN mmr + 1 ELSE None
  BY PushedFacts DEF CommitFinish
<1>3. \A g \in Holders \ {h} : ~Holding(g)
  BY <1>1 DEF Turns
<1>4. Anchored(c) /\ LastOk(c, mmr)
  BY <1>1 DEF AnchorInv
<1>5. Anchored(Push(c, cp)) /\ LastOk(Push(c, cp), mmr')
  BY <1>1, <1>2, <1>4, PushAnchored
<1>6. /\ k \in Nat /\ DOMAIN c.cps = 1..k /\ DOMAIN Push(c, cp).cps = 1..(k + 1)
      /\ \A i \in 1..k : Push(c, cp).cps[i] = c.cps[i]
      /\ Push(c, cp).cps[k + 1] = cp
  <2>1. k \in Nat /\ DOMAIN c.cps = 1..k
    BY <1>2 DEF Chain
  <2>2. Push(c, cp) \in Chain /\ Len(Push(c, cp).cps) = k + 1 /\ Push(c, cp).cps[k + 1] = cp
        /\ \A i \in DOMAIN c.cps : Push(c, cp).cps[i] = c.cps[i]
    BY <1>2, PushType
  <2>3. DOMAIN Push(c, cp).cps = 1..(k + 1)
    BY <2>2 DEF Chain
  <2> QED BY <2>1, <2>2, <2>3
<1>7. \A g \in Holders \ {h} : hold[g].chain = NoChain /\ hold'[g].chain = NoChain
  BY <1>1, <1>3, HolderFacts DEF HolderOk, Holding
<1>8. \A g \in Holders \ {h} : ~Orphans(g) /\ ~Orphans(g)'
  BY <1>7 DEF Orphans, NoChain
<1>9. \A g \in Holders : Anchored(hold'[g].chain)
  BY <1>1, <1>5, <1>7, EmptyAnchored DEF NoChain
<1>10. \A g \in Holders : Holding(g)' => LastOk(hold'[g].chain, mmr')
  BY <1>1, <1>3, <1>5 DEF Holding
<1>11. LastOk(file, mmr') \/ Orphans(h)'
  <2>1. CASE a
    <3>1. commits + 1 \notin HashSet(file)
      BY DEF AllGood, Good, HashSet, TInv, TypeOK
    <3>2. cp.proof # None
      BY <1>0, <1>2, <2>1 DEF None
    <3>3. k + 1 \in DOMAIN Push(c, cp).cps
      BY <1>6
    <3> QED BY <1>1, <1>2, <1>6, <3>1, <3>2, <3>3 DEF Orphans
  <2>2. CASE ~a /\ LastOk(file, mmr)
    BY <1>1, <2>2
  <2>3. CASE ~a /\ Orphans(h)
    <3>1. PICK i \in 1..k : c.cps[i].proof # None /\ c.cps[i].id \notin HashSet(file)
      BY <1>6, <2>3 DEF Orphans
    <3>2. i \in DOMAIN Push(c, cp).cps /\ Push(c, cp).cps[i] = c.cps[i]
      BY <1>6, <3>1
    <3> QED BY <1>1, <3>1, <3>2 DEF Orphans
  <2>4. LastOk(file, mmr) \/ Orphans(h)
    BY <1>1, <1>8 DEF AnchorInv
  <2> QED BY <1>0, <2>1, <2>2, <2>3, <2>4
<1>12. h \in Requests => ~Orphans(h)'
  <2> SUFFICES ASSUME h \in Requests PROVE ~Orphans(h)'
    OBVIOUS
  <2>1. ~a /\ ~Orphans(h)
    BY <1>1, HolderFacts DEF AnchorInv, HolderOk
  <2>2. cp.proof = None
    BY <1>2, <2>1
  <2>3. \A i \in 1..k : c.cps[i].proof = None \/ c.cps[i].id \in HashSet(file)
    BY <1>6, <2>1 DEF Orphans
  <2>4. ASSUME NEW i \in 1..(k + 1)
        PROVE  Push(c, cp).cps[i].proof = None \/ Push(c, cp).cps[i].id \in HashSet(file)
    <3>1. i \in 1..k \/ i = k + 1
      BY <1>6
    <3> QED BY <1>6, <2>2, <2>3, <3>1
  <2> QED BY <1>1, <1>6, <2>4 DEF Orphans
<1>13. \A g \in Requests : g \in Holders
  BY DEF Holders
<1>14. \A g \in Requests : ~Orphans(g)'
  BY <1>8, <1>12, <1>13
<1>15. Anchored(file)
  BY <1>1 DEF AnchorInv
<1> QED
  BY <1>1, <1>9, <1>10, <1>11, <1>14, <1>15 DEF AnchorInv

LEMMA AnchorStep ==
    ASSUME TInv, AllGood, Turns, AnchorInv, NEW h \in Holders, Step(h)
    PROVE  AnchorInv'
<1>H. hold \in [Holders -> HoldState] /\ hold[h] \in HoldState
  BY DEF TInv, TypeOK
<1>O. \A g \in Holders \ {h} : hold'[g] = hold[g]
  BY Moves
<1>R. lapse \cap {"overlap", "orphan"} = {} => (h \in Requests => ~Orphans(h))
  BY DEF AnchorInv
<1>1. CASE RequestNew(h)
  BY <1>1, NewChainType, AnchorTake DEF RequestNew, Modes, Policies, Holding
<1>2. CASE UserNew(h)
  BY <1>2, NewChainType, AnchorTake DEF UserNew, Holding
<1>3. CASE ReadChain(h)
  <2>1. file \in Chain
    BY <1>3, HolderFacts, FileIsChain DEF ReadChain, HolderOk
  <2> QED BY <1>3, <2>1, AnchorTake DEF ReadChain, Holding
<1>4. CASE UserLoad(h)
  BY <1>4, FileIsChain, AnchorTake DEF UserLoad, Holding
<1>5. CASE ReadMac(h)
  <2>1. Same(h) /\ hold'[h].at = "loading"
    BY <1>5, <1>H DEF ReadMac, Same, HoldState
  <2> QED BY <1>5, <1>O, <2>1, AnchorKeep DEF ReadMac, Holding
<1>6. CASE ReadChainRefused(h)
  <2>1. Dropped(h) /\ hold'[h].at = "idle"
    BY <1>6, <1>H DEF ReadChainRefused, Dropped, Idle
  <2>2. ~Orphans(h)
    BY <1>6, HolderFacts, NoOrphans DEF HolderOk, ReadChainRefused
  <2> QED BY <1>6, <1>O, <2>1, <2>2, AnchorKeep DEF ReadChainRefused, Holding
<1>7. CASE CommitRefused(h) \/ RenameChainFails(h)
  <2>1. Dropped(h) /\ hold'[h].at = "idle" /\ h \in Requests
    BY <1>7, <1>H DEF CommitRefused, RenameChainFails, Dropped, Idle
  <2>2. file' = file /\ mmr' = mmr /\ lapse' = lapse
    BY <1>7 DEF CommitRefused, RenameChainFails
  <2>3. ~Holding(h)'
    BY <2>1 DEF Holding
  <2> QED BY <1>O, <1>R, <2>1, <2>2, <2>3, AnchorKeep
<1>8. CASE WithMmr(h)
  <2>1. Same(h) /\ Holding(h)
    BY <1>8, <1>H DEF WithMmr, Same, HoldState, Holding
  <2> QED BY <1>8, <1>O, <2>1, AnchorKeep DEF WithMmr
<1>9. CASE Commit(h) \/ CommitWithVdfDuration(h) \/ CommitEntangled(h) \/ CommitRfc(h)
  <2>1. PICK cp : CommitBegin(h, cp)
    BY <1>9 DEF Commit, CommitWithVdfDuration, CommitEntangled, CommitRfc
  <2>2. Same(h) /\ Holding(h)
    BY <2>1, <1>H DEF CommitBegin, HoldState, Same, Holding
  <2> QED BY <2>1, <1>O, <2>2, AnchorKeep DEF CommitBegin
<1>10. CASE CommitFinish(h)
  BY <1>10, AnchorFinish
<1>11. CASE CommitFails(h)
  <2> SUFFICES ASSUME lapse' \cap {"overlap", "orphan"} = {} PROVE AnchorInv'
    BY DEF AnchorInv
  <2>1. mmr' = mmr /\ lapse' = lapse /\ file' = file /\ commits' = commits
    BY <1>11 DEF CommitFails
  <2>2. hold'[h] = GiveUp(h) /\ Holding(h)
    BY <1>11, <1>H DEF CommitFails, Holding
  <2>3. CASE h \in Requests
    <3>1. Dropped(h) /\ ~Holding(h)'
      BY <2>1, <2>2, <2>3 DEF GiveUp, Idle, Dropped, Holding
    <3> QED BY <1>O, <1>R, <2>1, <2>3, <3>1, AnchorKeep
  <2>4. CASE h \notin Requests
    <3>1. Same(h)
      BY <1>H, <2>1, <2>2, <2>4 DEF GiveUp, Same, HoldState
    <3> QED BY <1>O, <2>1, <2>2, <3>1, AnchorKeep
  <2> QED BY <2>3, <2>4
<1>12. CASE SignLastCheckpoint(h)
  <2>1. SignedCopy(h) /\ Holding(h)
    BY <1>12, <1>H DEF SignLastCheckpoint, SignedCopy, HoldState, Holding
  <2> QED BY <1>12, <1>O, <2>1, AnchorKeep DEF SignLastCheckpoint
<1>13. CASE Save(h)
  <2>1. lapse \cap {"overlap", "orphan"} \subseteq lapse'
    BY <1>13 DEF Save
  <2> QED BY <1>13, <1>O, <2>1, AnchorReplace DEF Save, Holding
<1>14. CASE RenameChain(h)
  <2>1. hold'[h].chain = hold[h].chain /\ Holding(h)
    BY <1>14, <1>H DEF RenameChain, HoldState, Holding
  <2> QED BY <1>14, <1>O, <2>1, AnchorReplace DEF RenameChain
<1>15. CASE RenameMac(h) \/ RenameMacFails(h)
  <2>1. hold'[h] = GiveUp(h) /\ Holding(h) /\ mmr' = mmr /\ file' = file /\ commits' = commits
    BY <1>15, <1>H DEF RenameMac, RenameMacFails, Holding
  <2>2. lapse \cap {"overlap", "orphan"} \subseteq lapse'
        /\ lapse' \cap {"overlap", "orphan"} \subseteq lapse
    BY <1>15 DEF RenameMac, RenameMacFails
  <2>3. CASE h \in Requests
    <3>1. Dropped(h) /\ ~Holding(h)'
      BY <2>1, <2>3 DEF GiveUp, Idle, Dropped, Holding
    <3>2. lapse' \cap {"overlap", "orphan"} = {} => ~Orphans(h)
      BY <1>R, <2>2, <2>3
    <3> QED BY <1>O, <2>1, <2>2, <3>1, <3>2, AnchorKeep
  <2>4. CASE h \notin Requests
    <3>1. Same(h)
      BY <1>H, <2>1, <2>4 DEF GiveUp, Same, HoldState
    <3> QED BY <1>O, <2>1, <2>2, <3>1, AnchorKeep
  <2> QED BY <2>3, <2>4
<1>16. CASE Close(h)
  <2>1. Dropped(h) /\ hold'[h].at = "idle" /\ file' = file /\ mmr' = mmr
    BY <1>16, <1>H DEF Close, Dropped, Idle
  <2>2. lapse \subseteq lapse' /\ (Orphans(h) => "orphan" \in lapse')
    BY <1>16 DEF Close
  <2>3. ~Holding(h)'
    BY <2>1 DEF Holding
  <2> QED BY <1>O, <2>1, <2>2, <2>3, AnchorKeep
<1> QED
  BY <1>1, <1>2, <1>3, <1>4, <1>5, <1>6, <1>7, <1>8, <1>9, <1>10, <1>11, <1>12, <1>13, <1>14,
     <1>15, <1>16 DEF Step

LEMMA AnchorCrash ==
    ASSUME TInv, AnchorInv, NEW p \in Processes, Crash(p)
    PROVE  AnchorInv'
<1> SUFFICES ASSUME lapse' \cap {"overlap", "orphan"} = {} PROVE AnchorInv'
  BY DEF AnchorInv
<1>1. /\ file' = file /\ mmr' = mmr /\ lapse \subseteq lapse'
      /\ \A h \in Holders : hold'[h] = IF h \in p THEN Idle ELSE hold[h]
      /\ \A h \in p : ~Orphans(h)
  BY DEF Crash
<1>2. /\ Anchored(file) /\ \A h \in Holders : Anchored(hold[h].chain)
      /\ \A h \in Holders : Holding(h) => LastOk(hold[h].chain, mmr)
      /\ LastOk(file, mmr) \/ \E h \in Holders : Orphans(h)
      /\ \A h \in Requests : ~Orphans(h)
  BY <1>1 DEF AnchorInv
<1>3. Idle.chain = NoChain /\ Idle.at = "idle" /\ NoChain.cps = <<>>
  BY DEF Idle, NoChain
<1>4. \A h \in Holders : Anchored(hold'[h].chain)
  BY <1>1, <1>2, <1>3, EmptyAnchored
<1>5. \A h \in Holders : Holding(h)' => Holding(h) /\ hold'[h] = hold[h]
  BY <1>1, <1>3 DEF Holding
<1>6. \A h \in Holders : Orphans(h)' <=> Orphans(h)
  <2> TAKE h \in Holders
  <2>1. CASE h \in p
    BY <1>1, <1>3, <2>1 DEF Orphans
  <2>2. CASE h \notin p
    BY <1>1, <2>2 DEF Orphans
  <2> QED BY <2>1, <2>2
<1>7. \A h \in Requests : h \in Holders
  BY DEF Holders
<1> QED
  BY <1>1, <1>2, <1>4, <1>5, <1>6, <1>7 DEF AnchorInv

LEMMA AnchorNext == TInv /\ AllGood /\ Turns /\ AnchorInv /\ [Next]_vars => AnchorInv'
<1> SUFFICES ASSUME TInv, AllGood, Turns, AnchorInv, [Next]_vars PROVE AnchorInv'
  OBVIOUS
<1>1. CASE UNCHANGED vars
  BY <1>1 DEF vars, AnchorInv, Orphans, Holding
<1> QED
  BY <1>1, AnchorStep, AnchorCrash DEF Next

\* A signed chain verifies, unless users collided, a leaf of its MMR was left
\* behind, the clock was set back by two seconds, or a commit did not fit its mode.
THEOREM SavedChainVerifies == Spec => []FileVerifies
<1>1. AllGood /\ AnchorInv => FileVerifies
  BY DEF AllGood, Good, LinkOK, AnchorInv, Anchored, FileVerifies, Verify
<1> QED
  BY <1>1, TypeInit, NextTyped, GoodInit, GoodNext, TurnsInit, TurnsNext, AnchorInit,
     AnchorNext, PTL DEF Spec

=============================================================================
