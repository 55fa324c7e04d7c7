------------------------------ MODULE EffectGate ------------------------------
(***************************************************************************)
(* commitProtectedEffect: the only way to an Effect.  It re-derives, from  *)
(* the ledger and the evidence in the store and at the head of this very   *)
(* mutation, everything that the permit was issued for.                    *)
(***************************************************************************)
EXTENDS SessionState

(* The evidence of every Role's current Decision held at the cut, was accepted  *)
(* from a bound Run, and allows the action by the authoritative rule.           *)
(* Mutation of EvidenceAllowsAt: a repeated commit looks at the World of today. *)
EvidenceAllowsNow(cut) ==
  \A r \in Roles :
    /\ current[r] # None
    /\ decision[current[r]].verdict = "ALLOW"
    /\ \E v \in versions[r] : v.from = receipt[current[r]].rev /\ Contains(v, head)

EvidenceAllowsAt(cut) ==
  \A r \in Roles :
    LET t == current[r] IN
    /\ t # None
    /\ decision[t].status = "ACTIVE"
    /\ decision[t].verdict = "ALLOW"
    /\ assignment[t] = "CONSUMED"
    /\ attempt[t] = "ACCEPTED"
    /\ receipt[t].at <= cut
    /\ \E v \in versions[r] :
         /\ v.from = receipt[t].rev
         /\ Contains(v, receipt[t].at)
         /\ Contains(v, cut)
         /\ v.value = "ALLOW"

(* The validation was of this evidence at this head, and found it valid. *)
ValidationBinds(cut) ==
  /\ validation.outcome = "VALID_CURRENT_ALLOW"
  /\ validation.head = cut
  /\ validation.decisions = current

(* A validation after a re-observation binds the plan it completed: only the    *)
(* Budget Decision was replaced, by the one the claimed Attempt produced.       *)
(* Mutation of CompletedPlanClosure: the revisions that bind an AVAILABLE plan. *)
AvailablePlanClosure ==
  IF ~validation.refreshed THEN ~plan.active
  ELSE plan.active /\ plan.status = "COMPLETED" /\ validation.base + 1 = plan.base

CompletedPlanClosure ==
  IF ~validation.refreshed THEN ~plan.active
  ELSE /\ plan.active
       /\ plan.status = "COMPLETED"
       /\ plan.base < validation.base /\ validation.base < rev
       /\ plan.head = validation.head
       /\ \A r \in Roles \ {Budget} :
            plan.decisions[r] = current[r] /\ decision[current[r]].status = "ACTIVE"
       /\ plan.decisions[Budget] # current[Budget]
       /\ decision[plan.decisions[Budget]].status = "SUPERSEDED"
       /\ attempt[plan.attempt] = "ACCEPTED"
       /\ plan.attempt = current[Budget]

NothingInFlight ==
  active = NoAttempts /\ plan.status \notin {"AVAILABLE", "CLAIMED"}

(* The Session's own side of a commit, before the World is looked at. *)
PermitHeld ==
  /\ effects = <<>>
  /\ state = "READY_AT_CURRENT_HEAD"
  /\ NothingInFlight
  /\ permit.active
  /\ permit.status = "ISSUED"

EvidenceClosure(cut) ==
  /\ ValidationBinds(cut)
  /\ EvidenceAllowsAt(cut)
  /\ CompletedPlanClosure

CurrentReceipts == [r \in Roles |-> receipt[current[r]]]

(* returnExistingEffect: what a repeated commit must find in order to be        *)
(* answered with the Effect that exists, whatever revision it sends.            *)
ExistingEffectClosure ==
  /\ Len(effects) = 1
  /\ state = "COMMITTED"
  /\ NothingInFlight
  /\ permit.active
  /\ permit.status = "CONSUMED"
  /\ permit.head = effects[1].cut
  /\ permit.head <= head
  /\ CurrentReceipts = effects[1].evidence
  /\ EvidenceClosure(permit.head)

-----------------------------------------------------------------------------
(* Every other request is answered, by a rejection or by the existing Effect,  *)
(* and changes nothing.                                                        *)

(* Mutation of CommitRace: the revision is not advanced. *)
CommitRaceSilent(expected) ==
  /\ up
  /\ expected = rev
  /\ PermitHeld
  /\ head # permit.head
  /\ permit' = [permit EXCEPT !.status = "REVOKED", !.active = FALSE]
  /\ state' = "COMMIT_RACE"
  /\ UNCHANGED <<head, versions, scenario, rev, active, current, validation, plan,
                 recordVars, effects, processVars, faults>>

CommitRace(expected) ==
  /\ up
  /\ expected = rev
  /\ PermitHeld
  /\ head # permit.head
  /\ permit' = [permit EXCEPT !.status = "REVOKED", !.active = FALSE]
  /\ state' = "COMMIT_RACE"
  /\ rev' = rev + 1
  /\ UNCHANGED <<head, versions, scenario, active, current, validation, plan, recordVars,
                 effects, processVars, faults>>

(* Mutations of CommitEffect: the permit is trusted without the evidence, and  *)
(* the evidence is checked at the head of the permit.                          *)
CommitOnPermit(expected) ==
  /\ up
  /\ expected = rev
  /\ PermitHeld
  /\ effects' = Append(effects, [cut |-> head, evidence |-> CurrentReceipts])
  /\ permit' = [permit EXCEPT !.status = "CONSUMED"]
  /\ state' = "COMMITTED"
  /\ rev' = rev + 1
  /\ UNCHANGED <<head, versions, scenario, active, current, validation, plan, recordVars,
                 processVars, faults>>

CommitAtPermitHead(expected) ==
  /\ up
  /\ expected = rev
  /\ PermitHeld
  /\ EvidenceClosure(permit.head)
  /\ effects' = Append(effects, [cut |-> permit.head, evidence |-> CurrentReceipts])
  /\ permit' = [permit EXCEPT !.status = "CONSUMED"]
  /\ state' = "COMMITTED"
  /\ rev' = rev + 1
  /\ UNCHANGED <<head, versions, scenario, active, current, validation, plan, recordVars,
                 processVars, faults>>

CommitEffect(expected) ==
  /\ up
  /\ expected = rev
  /\ PermitHeld
  /\ head = permit.head
  /\ EvidenceClosure(head)
  /\ effects' = Append(effects, [cut |-> head, evidence |-> CurrentReceipts])
  /\ permit' = [permit EXCEPT !.status = "CONSUMED"]
  /\ state' = "COMMITTED"
  /\ rev' = rev + 1
  /\ UNCHANGED <<head, versions, scenario, active, current, validation, plan, recordVars,
                 processVars, faults>>

=============================================================================
