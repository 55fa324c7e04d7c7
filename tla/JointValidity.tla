---------------------------- MODULE JointValidity ----------------------------
(***************************************************************************)
(* Joint validity of evidence.  Three receipts, one for each Role, name    *)
(* versions of three resources; the validator intersects the intervals of  *)
(* these versions, the open ones ended just after the current head, and    *)
(* classifies the result.                                                  *)
(***************************************************************************)
EXTENDS WorldLedger

Receipt == [rev : Nat, at : Nat]

(* ReceiptIssuer.issue: the version current at the head, and the head. *)
Observation(vs, r, h) == [rev |-> VersionAt(vs, r, h).from, at |-> h]

(* The checks of resolveReceiptResourceVersion and of resolveIntervals. *)
Resolves(vs, r, receipt, h) ==
  /\ receipt.at <= h
  /\ \E v \in vs[r] : v.from = receipt.rev /\ Contains(v, receipt.at)

(* An item of evidence is the version a receipt names. *)
(* Mutation of EffectiveUntil: an open version does not hold at the head. *)
EffectiveUntilHead(v, h) == IF v.until = Open THEN h ELSE v.until

EffectiveUntil(v, h) == IF v.until = Open THEN h + 1 ELSE v.until

LowerBound(evidence) ==
  CHOOSE n \in {evidence[r].from : r \in Roles} :
    \A r \in Roles : evidence[r].from <= n

UpperBound(evidence, h) ==
  CHOOSE n \in {EffectiveUntil(evidence[r], h) : r \in Roles} :
    \A r \in Roles : n <= EffectiveUntil(evidence[r], h)

CurrentInvalidOwners(evidence, h) == {r \in Roles : ~Contains(evidence[r], h)}

Outcomes == {"NO_VALID_OBSERVED_WORLD_CUT", "HISTORICAL_BUT_STALE_NOW",
             "CONSISTENT_DENY", "VALID_CURRENT_ALLOW"}

ValidationOutcome(evidence, verdict, h) ==
  IF LowerBound(evidence) >= UpperBound(evidence, h)
    THEN "NO_VALID_OBSERVED_WORLD_CUT"
  ELSE IF CurrentInvalidOwners(evidence, h) # {}
    THEN "HISTORICAL_BUT_STALE_NOW"
  ELSE IF \E r \in Roles : verdict[r] = "DENY"
    THEN "CONSISTENT_DENY"
  ELSE "VALID_CURRENT_ALLOW"

(* The reference definition: a sequence number at which all the evidence held. *)
IsCut(evidence, seq) == \A r \in Roles : Contains(evidence[r], seq)

=============================================================================
