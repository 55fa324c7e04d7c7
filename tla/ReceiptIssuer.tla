---------------------------- MODULE ReceiptIssuer ----------------------------
(***************************************************************************)
(* The ledger together with the receipts issued from it: the three Roles   *)
(* observe the World at heads of their own, commits fall between the       *)
(* observations, and at any later head the evidence is validated.          *)
(***************************************************************************)
EXTENDS JointValidity

VARIABLE seen   \* database.receipts, the last one of each Role

receiptVars == <<head, versions, seen>>

NotSeen == [rev |-> 0, at |-> 0]

Issue(r) ==
  /\ VersionsAt(versions, r, head) # {}
  /\ seen' = [seen EXCEPT ![r] = Observation(versions, r, head)]
  /\ UNCHANGED ledgerVars

ReceiptInit == LedgerInit /\ seen = [r \in Roles |-> NotSeen]

ReceiptNext ==
  \/ LedgerNext /\ UNCHANGED seen
  \/ \E r \in Roles : Issue(r)

ReceiptSpec == ReceiptInit /\ [][ReceiptNext]_receiptVars

-----------------------------------------------------------------------------
(* Properties *)

Observed == \A r \in Roles : seen[r] # NotSeen

EvidenceSeen == [r \in Roles |-> VersionOf(versions, r, seen[r].rev)]

VerdictSeen == [r \in Roles |-> EvidenceSeen[r].value]

OutcomeNow == ValidationOutcome(EvidenceSeen, VerdictSeen, head)

(* A receipt once issued resolves for ever: no later commit makes its revision *)
(* unknown or moves the moment of the observation out of the interval, so the  *)
(* HISTORY_UNVERIFIABLE refusals of the validator have nothing to refuse.      *)
ReceiptsResolve ==
  \A r \in Roles : seen[r] # NotSeen => Resolves(versions, r, seen[r], head)

(* The validator's arithmetic on bounds decides the existence of a common cut:  *)
(* it says NO_VALID_OBSERVED_WORLD_CUT exactly when no sequence number up to    *)
(* the head had all three versions valid at once, and reports currency exactly  *)
(* when the head itself is such a number.  A no-cut verdict always names        *)
(* somebody to observe again, the owner whose evidence ended first among them:  *)
(* the refusal "a No-Cut result must have at least one invalid owner" never     *)
(* fires.                                                                       *)
OutcomeDecidesCut ==
  Observed =>
    /\ (OutcomeNow = "NO_VALID_OBSERVED_WORLD_CUT")
         <=> ~\E seq \in 0..head : IsCut(EvidenceSeen, seq)
    /\ (OutcomeNow \in {"CONSISTENT_DENY", "VALID_CURRENT_ALLOW"})
         <=> IsCut(EvidenceSeen, head)
    /\ OutcomeNow = "NO_VALID_OBSERVED_WORLD_CUT" =>
         \A r \in Roles :
           EffectiveUntil(EvidenceSeen[r], head) = UpperBound(EvidenceSeen, head)
             => r \in CurrentInvalidOwners(EvidenceSeen, head)

=============================================================================
