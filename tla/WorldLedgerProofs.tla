--------------------------- MODULE WorldLedgerProofs ---------------------------
(***************************************************************************)
(* Proofs about the World ledger: its type, that histories are tilings,    *)
(* that commit refuses nothing the ledger can lead to, that no commit      *)
(* changes what was true in the past, and what a commit does to evidence.  *)
(***************************************************************************)
EXTENDS JointValidity, TLAPS

-----------------------------------------------------------------------------
(* One commit *)

(* What commit does to the versions of a changed resource, one by one.       *)
LEMMA ClosedAtFacts ==
  ASSUME NEW v \in Version, NEW seq \in Nat
  PROVE  /\ ClosedAt(v, seq) \in Version
         /\ ClosedAt(v, seq).from = v.from
         /\ ClosedAt(v, seq).value = v.value
         /\ ClosedAt(v, seq).until = IF v.until = Open THEN seq ELSE v.until
  BY DEF ClosedAt, Version

LEMMA OpenedFacts ==
  ASSUME NEW value \in Values, NEW seq \in Nat
  PROVE  /\ Opened(value, seq) \in Version
         /\ Opened(value, seq).from = seq
         /\ Opened(value, seq).value = value
         /\ Opened(value, seq).until = Open
  BY DEF Opened, Version, Open

(* A version after a commit is an old one, an old one closed, or the new one. *)
LEMMA CommittedCases ==
  ASSUME NEW vs \in [Roles -> SUBSET Version], NEW seq \in Nat, NEW changes,
         NEW r \in Roles, NEW v \in Committed(vs, seq, changes)[r]
  PROVE  \/ r \notin DOMAIN changes /\ v \in vs[r]
         \/ r \in DOMAIN changes /\ \E o \in vs[r] : v = ClosedAt(o, seq)
         \/ r \in DOMAIN changes /\ v = Opened(changes[r], seq)
  BY DEF Committed

LEMMA CommittedType ==
  ASSUME NEW vs \in [Roles -> SUBSET Version], NEW seq \in Nat, NEW changes,
         \A r \in DOMAIN changes : changes[r] \in Values
  PROVE  Committed(vs, seq, changes) \in [Roles -> SUBSET Version]
<1>1. ASSUME NEW r \in Roles, NEW v \in Committed(vs, seq, changes)[r]
      PROVE  v \in Version
  <2>1. CASE v \in vs[r]
    BY <2>1
  <2>2. CASE \E o \in vs[r] : v = ClosedAt(o, seq)
    BY <2>2, ClosedAtFacts
  <2>3. CASE r \in DOMAIN changes /\ v = Opened(changes[r], seq)
    BY <2>3, OpenedFacts
  <2> QED
    BY <1>1, <2>1, <2>2, <2>3, CommittedCases
<1> QED
  BY <1>1 DEF Committed

(* A commit at the next head keeps a tiling a tiling. *)
LEMMA CommittedTiles ==
  ASSUME NEW vs \in [Roles -> SUBSET Version], NEW h \in Nat, Tiles(vs, h), NEW changes,
         \A r \in DOMAIN changes : changes[r] \in Values
  PROVE  Tiles(Committed(vs, h + 1, changes), h + 1)
<1> DEFINE seq == h + 1
           next == Committed(vs, seq, changes)
<1>0. seq \in Nat /\ next \in [Roles -> SUBSET Version]
  BY CommittedType
<1> HIDE DEF next
<1>1. ASSUME NEW r \in Roles, NEW v \in next[r]
      PROVE  \/ r \notin DOMAIN changes /\ v \in vs[r]
             \/ r \in DOMAIN changes /\ \E o \in vs[r] : v = ClosedAt(o, seq)
             \/ r \in DOMAIN changes /\ v = Opened(changes[r], seq)
  BY <1>0, <1>1, CommittedCases DEF next
<1>2. ASSUME NEW r \in Roles, NEW o \in vs[r]
      PROVE  /\ o \in Version
             /\ 0 < o.from /\ o.from <= h
             /\ o.until # Open => o.from < o.until /\ o.until <= h
  BY <1>2 DEF Tiles, WithinHistory
<1>3. WithinHistory(next, seq)
  <2> SUFFICES ASSUME NEW r \in Roles, NEW v \in next[r]
               PROVE  /\ 0 < v.from /\ v.from <= seq
                      /\ v.until # Open => v.from < v.until /\ v.until <= seq
    BY DEF WithinHistory
  <2>1. CASE v \in vs[r]
    BY <2>1, <1>2 DEF Version
  <2>2. CASE \E o \in vs[r] : v = ClosedAt(o, seq)
    <3> PICK o \in vs[r] : v = ClosedAt(o, seq)
      BY <2>2
    <3>1. v.from = o.from /\ v.until = IF o.until = Open THEN seq ELSE o.until
      BY <1>0, <1>2, ClosedAtFacts
    <3> QED
      BY <3>1, <1>2 DEF Version, Open
  <2>3. CASE r \in DOMAIN changes /\ v = Opened(changes[r], seq)
    BY <2>3, <1>0, OpenedFacts
  <2> QED
    BY <1>1, <2>1, <2>2, <2>3
<1>4. NoOverlap(next)
  <2> SUFFICES ASSUME NEW r \in Roles, NEW v \in next[r], NEW w \in next[r], v # w
               PROVE  Disjoint(v, w)
    BY DEF NoOverlap
  <2>1. ASSUME NEW o \in vs[r], NEW p \in vs[r], o # p
        PROVE  Disjoint(o, p)
    BY <2>1 DEF Tiles, NoOverlap
  <2>2. CASE r \notin DOMAIN changes
    BY <2>2, <2>1, <1>1
  <2>3. CASE r \in DOMAIN changes
    <3>1. CASE v = Opened(changes[r], seq)
      <4> PICK p \in vs[r] : w = ClosedAt(p, seq)
        BY <3>1, <2>3, <1>1
      <4>1. w.from = p.from /\ w.until = IF p.until = Open THEN seq ELSE p.until
        BY <1>0, <1>2, ClosedAtFacts
      <4>2. v.from = seq
        BY <3>1, <2>3, <1>0, OpenedFacts
      <4> QED
        BY <4>1, <4>2, <1>2 DEF Disjoint, Version, Open
    <3>2. CASE w = Opened(changes[r], seq)
      <4> PICK p \in vs[r] : v = ClosedAt(p, seq)
        BY <3>2, <2>3, <1>1
      <4>1. v.from = p.from /\ v.until = IF p.until = Open THEN seq ELSE p.until
        BY <1>0, <1>2, ClosedAtFacts
      <4>2. w.from = seq
        BY <3>2, <2>3, <1>0, OpenedFacts
      <4> QED
        BY <4>1, <4>2, <1>2 DEF Disjoint, Version, Open
    <3>3. CASE /\ \E o \in vs[r] : v = ClosedAt(o, seq)
               /\ \E p \in vs[r] : w = ClosedAt(p, seq)
      <4> PICK o \in vs[r], p \in vs[r] : v = ClosedAt(o, seq) /\ w = ClosedAt(p, seq)
        BY <3>3
      <4>1. Disjoint(o, p)
        BY <2>1
      <4>2. /\ v.from = o.from /\ v.until = IF o.until = Open THEN seq ELSE o.until
            /\ w.from = p.from /\ w.until = IF p.until = Open THEN seq ELSE p.until
        BY <1>0, <1>2, ClosedAtFacts
      <4> QED
        BY <4>1, <4>2, <1>2 DEF Disjoint, Version, Open
    <3> QED
      BY <2>3, <3>1, <3>2, <3>3, <1>1
  <2> QED
    BY <2>2, <2>3
<1>5. NoGap(next)
  <2> SUFFICES ASSUME NEW r \in Roles, NEW v \in next[r], v.until # Open
               PROVE  \E w \in next[r] : w.from = v.until
    BY DEF NoGap
  <2>1. ASSUME NEW o \in vs[r], o.until # Open
        PROVE  \E p \in vs[r] : p.from = o.until
    BY <2>1 DEF Tiles, NoGap
  <2>2. CASE r \notin DOMAIN changes
    <3>1. next[r] = vs[r]
      BY <2>2 DEF next, Committed
    <3> QED
      BY <3>1, <2>1
  <2>3. CASE r \in DOMAIN changes
    <3>1. /\ Opened(changes[r], seq) \in next[r]
          /\ \A p \in vs[r] : ClosedAt(p, seq) \in next[r]
      BY <2>3 DEF next, Committed
    <3>2. Opened(changes[r], seq).from = seq /\ Opened(changes[r], seq).until = Open
      BY <2>3, <1>0, OpenedFacts
    <3> PICK o \in vs[r] : v = ClosedAt(o, seq)
      BY <2>3, <3>2, <1>1
    <3>3. CASE o.until = Open
      BY <3>3, <3>1, <3>2, <1>0, <1>2, ClosedAtFacts
    <3>4. CASE o.until # Open
      <4> PICK p \in vs[r] : p.from = o.until
        BY <3>4, <2>1
      <4> QED
        BY <3>4, <3>1, <1>0, <1>2, ClosedAtFacts
    <3> QED
      BY <3>3, <3>4
  <2> QED
    BY <2>2, <2>3
<1> QED
  BY <1>3, <1>4, <1>5 DEF Tiles, next

-----------------------------------------------------------------------------
(* The ledger *)

LedgerInv == LedgerTypeOK /\ HistoryTiles

LEMMA ChangesAreJudged ==
  ASSUME NEW changes \in Changes
  PROVE  \A r \in DOMAIN changes : r \in Roles /\ changes[r] \in Values
  BY DEF Changes

LEMMA CommitKeepsInv ==
  ASSUME LedgerInv, NEW changes, Commit(changes),
         \A r \in DOMAIN changes : changes[r] \in Values
  PROVE  LedgerInv'
<1> USE DEF LedgerInv, LedgerTypeOK, Commit
<1>1. head' = head + 1 /\ head + 1 \in Nat
  OBVIOUS
<1>2. versions' \in [Roles -> SUBSET Version]
  BY <1>1, CommittedType
<1>3. HistoryTiles'
  BY <1>1, CommittedTiles DEF HistoryTiles
<1> QED
  BY <1>1, <1>2, <1>3

LEMMA InitKeepsInv == LedgerInit => LedgerInv
<1> SUFFICES ASSUME LedgerInit PROVE LedgerInv
  OBVIOUS
<1>1. head = 0 /\ versions = NoHistory
  BY DEF LedgerInit
<1>2. LedgerTypeOK
  BY <1>1 DEF LedgerTypeOK, NoHistory
<1>3. HistoryTiles
  BY <1>1 DEF HistoryTiles, Tiles, WithinHistory, NoOverlap, NoGap, NoHistory
<1> QED
  BY <1>2, <1>3 DEF LedgerInv

LEMMA BootstrapKeepsInv ==
  ASSUME LedgerInv, NEW bootstrap \in Heads, InitializeFixtureWorld(bootstrap)
  PROVE  LedgerInv'
<1>1. /\ versions' = versions /\ versions = NoHistory
      /\ head' \in Nat
  BY HeadsAreNaturals DEF InitializeFixtureWorld
<1>2. LedgerTypeOK'
  BY <1>1 DEF LedgerInv, LedgerTypeOK
<1>3. HistoryTiles'
  BY <1>1 DEF HistoryTiles, Tiles, WithinHistory, NoOverlap, NoGap, NoHistory
<1> QED
  BY <1>2, <1>3 DEF LedgerInv

LEMMA NextKeepsInv ==
  ASSUME LedgerInv, [LedgerNext]_ledgerVars
  PROVE  LedgerInv'
<1>1. CASE \E bootstrap \in Heads : InitializeFixtureWorld(bootstrap)
  BY <1>1, BootstrapKeepsInv
<1>2. CASE \E changes \in Changes : Commit(changes)
  BY <1>2, CommitKeepsInv, ChangesAreJudged
<1>3. CASE UNCHANGED ledgerVars
  BY <1>3 DEF ledgerVars, LedgerInv, LedgerTypeOK, HistoryTiles
<1> QED
  BY <1>1, <1>2, <1>3 DEF LedgerNext

(* The ledger keeps its types, and its histories are tilings, for any bound  *)
(* on the head (world-ledger.ts commit, initializeFixtureWorld).             *)
THEOREM LedgerIsATiling == LedgerSpec => [](LedgerTypeOK /\ HistoryTiles)
<1>1. LedgerInit => LedgerInv
  BY InitKeepsInv
<1>2. LedgerInv /\ [LedgerNext]_ledgerVars => LedgerInv'
  BY NextKeepsInv
<1>3. LedgerInv => LedgerTypeOK /\ HistoryTiles
  BY DEF LedgerInv
<1> QED
  BY <1>1, <1>2, <1>3, PTL DEF LedgerSpec

LEMMA TilesAccept ==
  ASSUME LedgerInv
  PROVE  CommitNeverRefused
<1> SUFFICES ASSUME NEW r \in Roles PROVE Accepts(versions, r, head + 1)
  BY DEF CommitNeverRefused
<1>1. ASSUME NEW v \in versions[r]
      PROVE  /\ v \in Version
             /\ 0 < v.from /\ v.from <= head
  BY <1>1 DEF LedgerInv, LedgerTypeOK, HistoryTiles, Tiles, WithinHistory
<1>2. head \in Nat
  BY DEF LedgerInv, LedgerTypeOK
<1>3. OpenIsUnique(versions, r)
  <2> SUFFICES ASSUME NEW v \in OpenVersions(versions, r), NEW w \in OpenVersions(versions, r)
               PROVE  v = w
    BY DEF OpenIsUnique
  <2>1. v = w \/ Disjoint(v, w)
    BY DEF OpenVersions, LedgerInv, HistoryTiles, Tiles, NoOverlap
  <2> QED
    BY <2>1 DEF OpenVersions, Disjoint
<1>4. \A v \in versions[r] : v.from < head + 1 /\ v.from # head + 1
  BY <1>1, <1>2 DEF Version
<1> QED
  BY <1>3, <1>4 DEF Accepts, OpenVersions

(* No commit that the ledger can lead to is refused by its own consistency   *)
(* checks (world-ledger.ts commit: several open versions, a version opening  *)
(* at or after the commit, a repeated revision).                             *)
THEOREM LedgerNeverRefuses == LedgerSpec => []CommitNeverRefused
<1>1. LedgerInit => LedgerInv
  BY InitKeepsInv
<1>2. LedgerInv /\ [LedgerNext]_ledgerVars => LedgerInv'
  BY NextKeepsInv
<1>3. LedgerInv => CommitNeverRefused
  BY TilesAccept
<1> QED
  BY <1>1, <1>2, <1>3, PTL DEF LedgerSpec

-----------------------------------------------------------------------------
(* The past *)

(* Closing a version at a later sequence does not change where it held until *)
(* then, and a version that opens later did not hold before.                 *)
LEMMA CommittedPast ==
  ASSUME NEW vs \in [Roles -> SUBSET Version], NEW h \in Nat, NEW changes,
         \A r \in DOMAIN changes : changes[r] \in Values,
         NEW r \in Roles, NEW s \in 1..h
  PROVE  ValuesAt(Committed(vs, h + 1, changes), r, s) = ValuesAt(vs, r, s)
<1> DEFINE seq == h + 1
           next == Committed(vs, seq, changes)
           Is(v) == [from |-> v.from, value |-> v.value]
<1>0. seq \in Nat
  OBVIOUS
<1>1. CASE r \notin DOMAIN changes
  BY <1>1 DEF Committed, ValuesAt, VersionsAt
<1>2. CASE r \in DOMAIN changes
  <2>1. ASSUME NEW o \in vs[r]
        PROVE  /\ ClosedAt(o, seq) \in next[r]
               /\ Is(ClosedAt(o, seq)) = Is(o)
               /\ Contains(ClosedAt(o, seq), s) <=> Contains(o, s)
    <3>1. o \in Version
      BY <2>1
    <3>2. /\ ClosedAt(o, seq).from = o.from
          /\ ClosedAt(o, seq).value = o.value
          /\ ClosedAt(o, seq).until = IF o.until = Open THEN seq ELSE o.until
      BY <3>1, <1>0, ClosedAtFacts
    <3>3. ClosedAt(o, seq) \in next[r]
      BY <1>2, <2>1 DEF Committed
    <3>4. Contains(ClosedAt(o, seq), s) <=> Contains(o, s)
      BY <3>1, <3>2 DEF Contains, Version, Open
    <3> QED
      BY <3>2, <3>3, <3>4
  <2>2. ASSUME NEW v \in next[r], Contains(v, s)
        PROVE  \E o \in vs[r] : v = ClosedAt(o, seq)
    <3>1. CASE v = Opened(changes[r], seq)
      <4>1. v.from = seq
        BY <3>1, <1>2, <1>0, OpenedFacts
      <4> QED
        BY <4>1, <2>2 DEF Contains
    <3> QED
      BY <3>1, <1>2, <1>0, <2>2, CommittedCases
  <2>3. ValuesAt(next, r, s) = {Is(v) : v \in {v \in next[r] : Contains(v, s)}}
    BY DEF ValuesAt, VersionsAt
  <2>4. ValuesAt(vs, r, s) = {Is(v) : v \in {v \in vs[r] : Contains(v, s)}}
    BY DEF ValuesAt, VersionsAt
  <2>5. ASSUME NEW x \in ValuesAt(next, r, s)
        PROVE  x \in ValuesAt(vs, r, s)
    <3> HIDE DEF next, Is, seq
    <3> PICK v \in next[r] : Contains(v, s) /\ x = Is(v)
      BY <2>3, <2>5
    <3> PICK o \in vs[r] : v = ClosedAt(o, seq)
      BY <2>2
    <3> QED
      BY <2>1, <2>4
  <2>6. ASSUME NEW x \in ValuesAt(vs, r, s)
        PROVE  x \in ValuesAt(next, r, s)
    <3> HIDE DEF next, Is, seq
    <3> PICK o \in vs[r] : Contains(o, s) /\ x = Is(o)
      BY <2>4, <2>6
    <3> QED
      BY <2>1, <2>3
  <2> QED
    BY <2>5, <2>6
<1> QED
  BY <1>1, <1>2

(* No step of the ledger changes what any resource was at a sequence that    *)
(* had been reached, although commit rewrites the end of a version           *)
(* (world-ledger.ts commit, resolveResourceAt).                              *)
THEOREM LedgerKeepsThePast == LedgerSpec => PastNeverChanges
<1> DEFINE Same == \A r \in Roles : \A seq \in 1..head :
                     ValuesAt(versions', r, seq) = ValuesAt(versions, r, seq)
<1>1. LedgerInit => LedgerInv
  BY InitKeepsInv
<1>2. LedgerInv /\ [LedgerNext]_ledgerVars => LedgerInv'
  BY NextKeepsInv
<1>3. LedgerInv /\ [LedgerNext]_ledgerVars => [Same]_ledgerVars
  <2> SUFFICES ASSUME LedgerInv, LedgerNext PROVE Same
    BY DEF LedgerNext
  <2>1. CASE \E bootstrap \in Heads : InitializeFixtureWorld(bootstrap)
    BY <2>1 DEF InitializeFixtureWorld
  <2>2. ASSUME NEW changes \in Changes, Commit(changes)
        PROVE  Same
    <3>1. versions \in [Roles -> SUBSET Version] /\ head \in Nat
      BY DEF LedgerInv, LedgerTypeOK
    <3>2. versions' = Committed(versions, head + 1, changes)
      BY <2>2 DEF Commit
    <3>3. \A r \in DOMAIN changes : changes[r] \in Values
      BY ChangesAreJudged
    <3> QED
      BY <3>1, <3>2, <3>3, CommittedPast
  <2> QED
    BY <2>1, <2>2 DEF LedgerNext
<1> QED
  BY <1>1, <1>2, <1>3, PTL DEF LedgerSpec, PastNeverChanges

-----------------------------------------------------------------------------
(* Evidence *)

(* A version that held up to the head is still there after a commit. *)
LEMMA CommitKeepsVersion ==
  ASSUME NEW vs \in [Roles -> SUBSET Version], NEW h \in Nat, NEW changes,
         NEW r \in Roles, NEW v \in vs[r]
  PROVE  \E w \in Committed(vs, h + 1, changes)[r] :
           /\ w.from = v.from /\ w.value = v.value
           /\ \A s \in 0..h : Contains(v, s) => Contains(w, s)
<1>1. CASE r \notin DOMAIN changes
  BY <1>1 DEF Committed
<1>2. CASE r \in DOMAIN changes
  <2> DEFINE w == ClosedAt(v, h + 1)
  <2>1. w \in Committed(vs, h + 1, changes)[r]
    BY <1>2 DEF Committed
  <2>2. v \in Version /\ h + 1 \in Nat
    OBVIOUS
  <2>3. /\ w.from = v.from /\ w.value = v.value
        /\ w.until = IF v.until = Open THEN h + 1 ELSE v.until
    BY <2>2, ClosedAtFacts
  <2>4. \A s \in 0..h : Contains(v, s) => Contains(w, s)
    BY <2>2, <2>3 DEF Contains, Version, Open
  <2> HIDE DEF w
  <2> QED
    BY <2>1, <2>3, <2>4
<1> QED
  BY <1>1, <1>2

(* Closing a version later than a moment does not change whether it held then. *)
LEMMA ClosingLater ==
  ASSUME NEW v \in Version, NEW seq \in Nat, NEW s \in Nat, s < seq
  PROVE  Contains(ClosedAt(v, seq), s) <=> Contains(v, s)
<1>1. /\ ClosedAt(v, seq).from = v.from
      /\ ClosedAt(v, seq).until = IF v.until = Open THEN seq ELSE v.until
  BY ClosedAtFacts
<1> QED
  BY <1>1 DEF Contains, Version, Open

(* A commit after the observation keeps a receipt resolvable. *)
LEMMA CommittedResolves ==
  ASSUME NEW vs \in [Roles -> SUBSET Version], NEW h \in Nat, NEW changes,
         NEW r \in Roles, NEW receipt \in Receipt, Resolves(vs, r, receipt, h)
  PROVE  Resolves(Committed(vs, h + 1, changes), r, receipt, h + 1)
<1>1. receipt.at \in Nat /\ receipt.at <= h
  BY DEF Resolves, Receipt
<1> PICK v \in vs[r] : v.from = receipt.rev /\ Contains(v, receipt.at)
  BY DEF Resolves
<1>2. v \in Version
  OBVIOUS
<1>3. CASE r \notin DOMAIN changes
  <2>1. v \in Committed(vs, h + 1, changes)[r]
    BY <1>3 DEF Committed
  <2> QED
    BY <2>1, <1>1 DEF Resolves
<1>4. CASE r \in DOMAIN changes
  <2>1. ClosedAt(v, h + 1) \in Committed(vs, h + 1, changes)[r]
    BY <1>4 DEF Committed
  <2>2. ClosedAt(v, h + 1).from = receipt.rev
    BY <1>2, ClosedAtFacts
  <2>3. Contains(ClosedAt(v, h + 1), receipt.at)
    BY <1>1, <1>2, ClosingLater
  <2> QED
    BY <2>1, <2>2, <2>3, <1>1 DEF Resolves
<1> QED
  BY <1>3, <1>4

(* What is issued is a receipt of the version that is current at the head. *)
LEMMA ObservationResolves ==
  ASSUME LedgerInv, NEW r \in Roles, VersionsAt(versions, r, head) # {}
  PROVE  /\ Observation(versions, r, head) \in Receipt
         /\ Resolves(versions, r, Observation(versions, r, head), head)
<1> DEFINE v == VersionAt(versions, r, head)
<1>1. head \in Nat /\ versions[r] \subseteq Version
  BY DEF LedgerInv, LedgerTypeOK
<1>2. v \in versions[r] /\ Contains(v, head)
  BY DEF VersionsAt, VersionAt
<1>3. v.from \in Nat
  BY <1>1, <1>2 DEF Version
<1> HIDE DEF v
<1>4. Observation(versions, r, head) = [rev |-> v.from, at |-> head]
  BY DEF Observation, v
<1> QED
  BY <1>1, <1>2, <1>3, <1>4 DEF Receipt, Resolves

-----------------------------------------------------------------------------
(* Bounds of evidence *)

(* Three versions of a ledger whose head is h. *)
IsEvidence(evidence, h) ==
  \A r \in Roles :
    /\ evidence[r].from \in Nat /\ evidence[r].from <= h
    /\ evidence[r].until \in Nat /\ evidence[r].until <= h

(* Up to the head, a version holds from its opening to its effective end. *)
LEMMA ContainsByBounds ==
  ASSUME NEW evidence, NEW h \in Nat, IsEvidence(evidence, h), NEW r \in Roles,
         NEW s \in 0..h
  PROVE  /\ EffectiveUntil(evidence[r], h) \in Nat
         /\ Contains(evidence[r], s) <=>
              evidence[r].from <= s /\ s < EffectiveUntil(evidence[r], h)
  BY DEF IsEvidence, EffectiveUntil, Contains, Open

(* Of three numbers one is the largest and one the smallest. *)
LEMMA LargestOfThree ==
  ASSUME NEW a \in Nat, NEW b \in Nat, NEW c \in Nat
  PROVE  /\ \E n \in {a, b, c} : a <= n /\ b <= n /\ c <= n
         /\ \E n \in {a, b, c} : n <= a /\ n <= b /\ n <= c
  OBVIOUS

LEMMA LowerBoundIsLargest ==
  ASSUME NEW evidence, NEW h \in Nat, IsEvidence(evidence, h)
  PROVE  /\ \E r \in Roles : LowerBound(evidence) = evidence[r].from
         /\ \A r \in Roles : evidence[r].from <= LowerBound(evidence)
<1>1. \A r \in Roles : evidence[r].from \in Nat
  BY DEF IsEvidence
<1>2. \E n \in {evidence[r].from : r \in Roles} : \A r \in Roles : evidence[r].from <= n
  <2>1. PICK n \in {evidence[Inventory].from, evidence[Budget].from, evidence[Policy].from} :
          /\ evidence[Inventory].from <= n
          /\ evidence[Budget].from <= n
          /\ evidence[Policy].from <= n
    BY <1>1, LargestOfThree DEF Roles
  <2> QED
    BY <2>1 DEF Roles
<1>3. /\ LowerBound(evidence) \in {evidence[r].from : r \in Roles}
      /\ \A r \in Roles : evidence[r].from <= LowerBound(evidence)
  BY <1>2 DEF LowerBound
<1> QED
  BY <1>3

LEMMA UpperBoundIsSmallest ==
  ASSUME NEW evidence, NEW h \in Nat, IsEvidence(evidence, h)
  PROVE  /\ \E r \in Roles : UpperBound(evidence, h) = EffectiveUntil(evidence[r], h)
         /\ \A r \in Roles : UpperBound(evidence, h) <= EffectiveUntil(evidence[r], h)
<1>1. \A r \in Roles : EffectiveUntil(evidence[r], h) \in Nat
  BY ContainsByBounds
<1>2. \E n \in {EffectiveUntil(evidence[r], h) : r \in Roles} :
        \A r \in Roles : n <= EffectiveUntil(evidence[r], h)
  BY <1>1, LargestOfThree DEF Roles
<1>3. /\ UpperBound(evidence, h) \in {EffectiveUntil(evidence[r], h) : r \in Roles}
      /\ \A r \in Roles : UpperBound(evidence, h) <= EffectiveUntil(evidence[r], h)
  BY <1>2 DEF UpperBound
<1> QED
  BY <1>3

(* The bounds depend on where the intervals begin and end, and on no more. *)
LEMMA BoundsAgree ==
  ASSUME NEW evidence, NEW other, NEW h \in Nat, IsEvidence(evidence, h),
         \A r \in Roles : other[r].from = evidence[r].from /\ other[r].until = evidence[r].until
  PROVE  /\ LowerBound(other) = LowerBound(evidence)
         /\ UpperBound(other, h) = UpperBound(evidence, h)
         /\ CurrentInvalidOwners(other, h) = CurrentInvalidOwners(evidence, h)
<1>1. IsEvidence(other, h)
  BY DEF IsEvidence
<1>2. \A r \in Roles : EffectiveUntil(other[r], h) = EffectiveUntil(evidence[r], h)
  BY DEF EffectiveUntil
<1>3. /\ \E r \in Roles : LowerBound(evidence) = evidence[r].from
      /\ \A r \in Roles : evidence[r].from <= LowerBound(evidence)
      /\ \E r \in Roles : LowerBound(other) = evidence[r].from
      /\ \A r \in Roles : evidence[r].from <= LowerBound(other)
  BY <1>1, LowerBoundIsLargest
<1>4. /\ \E r \in Roles : UpperBound(evidence, h) = EffectiveUntil(evidence[r], h)
      /\ \A r \in Roles : UpperBound(evidence, h) <= EffectiveUntil(evidence[r], h)
  BY UpperBoundIsSmallest
<1>5. /\ \E r \in Roles : UpperBound(other, h) = EffectiveUntil(evidence[r], h)
      /\ \A r \in Roles : UpperBound(other, h) <= EffectiveUntil(evidence[r], h)
  BY <1>1, <1>2, UpperBoundIsSmallest
<1>6. \A r \in Roles : evidence[r].from \in Nat /\ EffectiveUntil(evidence[r], h) \in Nat
  BY ContainsByBounds DEF IsEvidence
<1>7. LowerBound(other) = LowerBound(evidence)
  BY <1>3, <1>6
<1>8. UpperBound(other, h) = UpperBound(evidence, h)
  BY <1>4, <1>5, <1>6
<1>9. CurrentInvalidOwners(other, h) = CurrentInvalidOwners(evidence, h)
  BY DEF CurrentInvalidOwners, Contains
<1> QED
  BY <1>7, <1>8, <1>9

(* Evidence all of which holds at the head has its bounds around the head. *)
LEMMA BoundsAroundHead ==
  ASSUME NEW evidence, NEW h \in Nat, IsEvidence(evidence, h),
         CurrentInvalidOwners(evidence, h) = {}
  PROVE  LowerBound(evidence) <= h /\ h < UpperBound(evidence, h)
<1>1. \A r \in Roles : Contains(evidence[r], h)
  BY DEF CurrentInvalidOwners
<1>2. \A r \in Roles : evidence[r].from <= h /\ h < EffectiveUntil(evidence[r], h)
  BY <1>1, ContainsByBounds
<1> QED
  BY <1>2, LowerBoundIsLargest, UpperBoundIsSmallest

=============================================================================
