---------------------------- MODULE ReceiptProofs ----------------------------
(***************************************************************************)
(* Proofs about receipts and joint validity: a receipt once issued stays   *)
(* resolvable whatever is committed after it, and the validator's bounds   *)
(* decide whether a common cut exists, for any bound on the head.          *)
(***************************************************************************)
EXTENDS ReceiptIssuer, WorldLedgerProofs

-----------------------------------------------------------------------------
(* Receipts *)

ReceiptInv == LedgerInv /\ ReceiptsResolve

SeenOK == seen \in [Roles -> Receipt]

LEMMA NextKeepsReceipts ==
  ASSUME ReceiptInv, SeenOK, [ReceiptNext]_receiptVars
  PROVE  ReceiptInv' /\ SeenOK'
<1>1. /\ LedgerInv /\ SeenOK
      /\ head \in Nat /\ versions \in [Roles -> SUBSET Version]
  BY DEF ReceiptInv, LedgerInv, LedgerTypeOK
<1>2. ASSUME NEW r \in Roles, seen[r] # NotSeen
      PROVE  seen[r] \in Receipt /\ Resolves(versions, r, seen[r], head)
  BY <1>1, <1>2 DEF ReceiptInv, ReceiptsResolve, SeenOK
<1>3. CASE LedgerNext /\ UNCHANGED seen
  <2>1. LedgerInv' /\ SeenOK'
    BY <1>1, <1>3, NextKeepsInv DEF SeenOK
  <2>2. ASSUME NEW bootstrap \in Heads, InitializeFixtureWorld(bootstrap)
        PROVE  ReceiptsResolve'
    <3>1. \A r \in Roles : versions[r] = {}
      BY <2>2 DEF InitializeFixtureWorld, NoHistory
    <3>2. \A r \in Roles : seen[r] = NotSeen
      BY <3>1, <1>2 DEF Resolves
    <3> QED
      BY <3>2, <1>3 DEF ReceiptsResolve, NotSeen
  <2>3. ASSUME NEW changes \in Changes, Commit(changes)
        PROVE  ReceiptsResolve'
    <3>1. head' = head + 1 /\ versions' = Committed(versions, head + 1, changes)
      BY <2>3 DEF Commit
    <3> QED
      BY <3>1, <1>1, <1>2, <1>3, CommittedResolves DEF ReceiptsResolve, NotSeen
  <2> QED
    BY <2>1, <2>2, <2>3, <1>3 DEF LedgerNext, ReceiptInv
<1>4. ASSUME NEW r \in Roles, Issue(r)
      PROVE  ReceiptInv' /\ SeenOK'
  <2>1. /\ Observation(versions, r, head) \in Receipt
        /\ Resolves(versions, r, Observation(versions, r, head), head)
    BY <1>1, <1>4, ObservationResolves DEF Issue
  <2>2. /\ head' = head /\ versions' = versions
        /\ seen' = [seen EXCEPT ![r] = Observation(versions, r, head)]
    BY <1>4 DEF Issue, ledgerVars
  <2>3. LedgerInv'
    BY <2>2, <1>1 DEF LedgerInv, LedgerTypeOK, HistoryTiles
  <2>4. SeenOK'
    BY <2>1, <2>2, <1>1 DEF SeenOK
  <2>5. ASSUME NEW q \in Roles, seen'[q] # NotSeen
        PROVE  Resolves(versions', q, seen'[q], head')
    <3>1. CASE q = r
      BY <3>1, <2>1, <2>2, <1>1 DEF SeenOK
    <3>2. CASE q # r
      <4>1. seen'[q] = seen[q]
        BY <3>2, <2>2, <1>1 DEF SeenOK
      <4> QED
        BY <4>1, <2>2, <2>5, <1>2
    <3> QED
      BY <3>1, <3>2
  <2>6. ReceiptsResolve'
    BY <2>5 DEF ReceiptsResolve, NotSeen
  <2> QED
    BY <2>3, <2>4, <2>6 DEF ReceiptInv
<1>5. CASE UNCHANGED receiptVars
  BY <1>5, <1>1 DEF receiptVars, ReceiptInv, LedgerInv, LedgerTypeOK, HistoryTiles,
                    ReceiptsResolve, SeenOK, NotSeen
<1> QED
  BY <1>3, <1>4, <1>5 DEF ReceiptNext

LEMMA InitKeepsReceipts ==
  ASSUME ReceiptInit
  PROVE  ReceiptInv /\ SeenOK
<1>1. LedgerInv
  BY InitKeepsInv DEF ReceiptInit
<1>2. seen = [r \in Roles |-> NotSeen] /\ NotSeen \in Receipt
  BY DEF ReceiptInit, NotSeen, Receipt
<1> QED
  BY <1>1, <1>2 DEF ReceiptInv, ReceiptsResolve, SeenOK

(* A receipt once issued resolves for ever, whatever is committed after it:  *)
(* the validator's HISTORY_UNVERIFIABLE refusals have nothing to refuse      *)
(* (receipt-issuer.ts issue, joint-validity-validator.ts resolveIntervals).  *)
THEOREM ReceiptsStayResolvable == ReceiptSpec => []ReceiptsResolve
<1>1. ReceiptInit => ReceiptInv /\ SeenOK
  BY InitKeepsReceipts
<1>2. ReceiptInv /\ SeenOK /\ [ReceiptNext]_receiptVars => (ReceiptInv /\ SeenOK)'
  BY NextKeepsReceipts
<1>3. ReceiptInv => ReceiptsResolve
  BY DEF ReceiptInv
<1> QED
  BY <1>1, <1>2, <1>3, PTL DEF ReceiptSpec

-----------------------------------------------------------------------------
(* Joint validity *)

(* Intervals intersect exactly when the latest opening precedes the earliest *)
(* end, and when they do not, whatever ended first had ended by the head.    *)
LEMMA BoundsDecideCut ==
  ASSUME NEW evidence, NEW h \in Nat, IsEvidence(evidence, h)
  PROVE  /\ LowerBound(evidence) >= UpperBound(evidence, h)
              <=> ~\E seq \in 0..h : IsCut(evidence, seq)
         /\ LowerBound(evidence) >= UpperBound(evidence, h) =>
              \A r \in Roles :
                EffectiveUntil(evidence[r], h) = UpperBound(evidence, h)
                  => ~Contains(evidence[r], h)
<1> DEFINE low == LowerBound(evidence)
           up == UpperBound(evidence, h)
           end(r) == EffectiveUntil(evidence[r], h)
<1>1. /\ \E r \in Roles : low = evidence[r].from
      /\ \A r \in Roles : evidence[r].from <= low
  BY LowerBoundIsLargest
<1>2. /\ \E r \in Roles : up = end(r)
      /\ \A r \in Roles : up <= end(r)
  BY UpperBoundIsSmallest
<1>3. \A r \in Roles :
        /\ evidence[r].from \in Nat /\ evidence[r].from <= h
        /\ end(r) \in Nat
        /\ \A s \in 0..h : Contains(evidence[r], s) <=> evidence[r].from <= s /\ s < end(r)
  BY ContainsByBounds DEF IsEvidence
<1> HIDE DEF low, up, end
<1>4. low \in 0..h /\ up \in Nat
  BY <1>1, <1>2, <1>3
<1>5. ASSUME NEW seq \in 0..h, IsCut(evidence, seq)
      PROVE  low < up
  <2>1. \A r \in Roles : evidence[r].from <= seq /\ seq < end(r)
    BY <1>3, <1>5 DEF IsCut
  <2> QED
    BY <2>1, <1>1, <1>2, <1>3
<1>6. ASSUME low < up
      PROVE  IsCut(evidence, low)
  <2> SUFFICES ASSUME NEW r \in Roles PROVE Contains(evidence[r], low)
    BY DEF IsCut
  <2>1. evidence[r].from <= low /\ low < end(r)
    BY <1>1, <1>2, <1>3, <1>4, <1>6
  <2> QED
    BY <2>1, <1>3, <1>4
<1>7. ASSUME low >= up, NEW r \in Roles, end(r) = up, Contains(evidence[r], h)
      PROVE  FALSE
  <2>1. h < end(r)
    BY <1>3, <1>7
  <2> QED
    BY <2>1, <1>4, <1>7
<1>8. low >= up <=> ~\E seq \in 0..h : IsCut(evidence, seq)
  BY <1>4, <1>5, <1>6
<1>9. low >= up => \A r \in Roles : end(r) = up => ~Contains(evidence[r], h)
  BY <1>7
<1> QED
  BY <1>8, <1>9 DEF low, up, end

(* What the receipts name are versions of the ledger. *)
LEMMA SeenIsEvidence ==
  ASSUME ReceiptInv, Observed
  PROVE  head \in Nat /\ IsEvidence(EvidenceSeen, head)
<1>1. head \in Nat /\ versions \in [Roles -> SUBSET Version]
  BY DEF ReceiptInv, LedgerInv, LedgerTypeOK
<1>2. ASSUME NEW r \in Roles
      PROVE  EvidenceSeen[r] \in versions[r]
  <2>1. \E v \in versions[r] : v.from = seen[r].rev
    BY DEF ReceiptInv, ReceiptsResolve, Observed, Resolves
  <2>2. VersionOf(versions, r, seen[r].rev) \in versions[r]
    BY <2>1 DEF VersionOf
  <2> QED
    BY <2>2 DEF EvidenceSeen
<1>3. ASSUME NEW r \in Roles, NEW v \in versions[r]
      PROVE  /\ v.from \in Nat /\ v.from <= head
             /\ v.until \in Nat /\ v.until <= head
  <2>1. v \in Version
    BY <1>1
  <2>2. v.from <= head /\ (v.until # Open => v.until <= head)
    BY DEF ReceiptInv, LedgerInv, HistoryTiles, Tiles, WithinHistory
  <2> QED
    BY <2>1, <2>2, <1>1 DEF Version, Open
<1> QED
  BY <1>1, <1>2, <1>3 DEF IsEvidence

LEMMA BoundsDecideOutcome ==
  ASSUME ReceiptInv
  PROVE  OutcomeDecidesCut
<1> SUFFICES ASSUME Observed
             PROVE  /\ (OutcomeNow = "NO_VALID_OBSERVED_WORLD_CUT")
                         <=> ~\E seq \in 0..head : IsCut(EvidenceSeen, seq)
                    /\ (OutcomeNow \in {"CONSISTENT_DENY", "VALID_CURRENT_ALLOW"})
                         <=> IsCut(EvidenceSeen, head)
                    /\ OutcomeNow = "NO_VALID_OBSERVED_WORLD_CUT" =>
                         \A r \in Roles :
                           EffectiveUntil(EvidenceSeen[r], head) = UpperBound(EvidenceSeen, head)
                             => r \in CurrentInvalidOwners(EvidenceSeen, head)
  BY DEF OutcomeDecidesCut
<1> DEFINE E == EvidenceSeen
           noCut == LowerBound(E) >= UpperBound(E, head)
<1>1. head \in Nat /\ IsEvidence(E, head)
  BY SeenIsEvidence
<1>2. /\ noCut <=> ~\E seq \in 0..head : IsCut(E, seq)
      /\ noCut => \A r \in Roles :
           EffectiveUntil(E[r], head) = UpperBound(E, head) => ~Contains(E[r], head)
  BY <1>1, BoundsDecideCut
<1>3. CurrentInvalidOwners(E, head) = {} <=> IsCut(E, head)
  BY DEF CurrentInvalidOwners, IsCut
<1>4. IsCut(E, head) => ~noCut
  BY <1>1, <1>2
<1>5. OutcomeNow = ValidationOutcome(E, VerdictSeen, head)
  BY DEF OutcomeNow
<1> HIDE DEF E
<1>6. (OutcomeNow = "NO_VALID_OBSERVED_WORLD_CUT") <=> noCut
  BY <1>5 DEF ValidationOutcome
<1>7. (OutcomeNow \in {"CONSISTENT_DENY", "VALID_CURRENT_ALLOW"})
        <=> ~noCut /\ CurrentInvalidOwners(E, head) = {}
  BY <1>5 DEF ValidationOutcome
<1>8. \A r \in Roles : ~Contains(E[r], head) => r \in CurrentInvalidOwners(E, head)
  BY DEF CurrentInvalidOwners
<1> QED
  BY <1>2, <1>3, <1>4, <1>6, <1>7, <1>8 DEF E

(* The arithmetic of the validator decides whether the observations had a    *)
(* common cut: it finds none exactly when none exists, reports currency      *)
(* exactly when the head is one, and a no-cut verdict always names somebody  *)
(* to observe again (joint-validity-validator.ts validateJointValidity).     *)
THEOREM ValidatorDecidesCuts == ReceiptSpec => []OutcomeDecidesCut
<1>1. ReceiptInit => ReceiptInv /\ SeenOK
  BY InitKeepsReceipts
<1>2. ReceiptInv /\ SeenOK /\ [ReceiptNext]_receiptVars => (ReceiptInv /\ SeenOK)'
  BY NextKeepsReceipts
<1>3. ReceiptInv => OutcomeDecidesCut
  BY BoundsDecideOutcome
<1> QED
  BY <1>1, <1>2, <1>3, PTL DEF ReceiptSpec

=============================================================================
