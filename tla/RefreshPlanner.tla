---------------------------- MODULE RefreshPlanner ----------------------------
(***************************************************************************)
(* The RefreshPlan of a blocked Session: when it may be built, whether a   *)
(* plan still is what would be built now, and the compare-and-set by which *)
(* one refresh request claims it and thereby owns the one re-observation.  *)
(***************************************************************************)
EXTENDS SessionState

(* P0 supports exactly one refresh owner, the Budget Agent. *)
BudgetOwns(evidence, h) == CurrentInvalidOwners(evidence, h) = {Budget}

(* buildRefreshPlan's conditions, once the Session's state, Attempts and       *)
(* revision have been put back to those of the blocked Session.                *)
BuildsFrom(v, pointers, h) ==
  /\ v.outcome = "NO_VALID_OBSERVED_WORLD_CUT"
  /\ v.head = h
  /\ v.decisions = pointers
  /\ \A r \in Roles :
       LET t == pointers[r] IN
       /\ t # None
       /\ decision[t].status = "ACTIVE"
       /\ Resolves(versions, r, receipt[t], v.head)
  /\ LowerBound(EvidenceOf(pointers)) >= UpperBound(EvidenceOf(pointers), v.head)
  /\ BudgetOwns(EvidenceOf(pointers), v.head)

(* Mutation of ActiveValidationBindsPlan: off by the revision of VALIDATING. *)
ValidationAtPlanRevision == validation.refreshed /\ validation.base = plan.base

ActiveValidationBindsPlan ==
  /\ validation.refreshed
  /\ validation.base + 1 = plan.base

SamePlan == plan.head = validation.head /\ plan.decisions = current

PlanStillMatches ==
  /\ plan.status = "AVAILABLE" /\ plan.attempt = None
  /\ ActiveValidationBindsPlan
  /\ state = "BLOCKED_NO_CUT"
  /\ active = NoAttempts
  /\ ~permit.active
  /\ BuildsFrom(validation, current, head)
  /\ SamePlan
  /\ plan.base = rev

(* assertClaimedPlanClosure: what a second request must find in the store for   *)
(* it to be answered ALREADY_REOBSERVING; otherwise it is answered by an error. *)
ActiveAttemptStates == {"ASSIGNMENT_CREATED", "DISPATCHING", "QUEUED", "RUNNING"}
TerminalAttemptStates == {"FAILED", "INTERRUPTED", "OUTPUT_REJECTED"}

ClaimedLifecycle(t) ==
  \/ /\ state \in {"REOBSERVING", "COLLECTING"}
     /\ attempt[t] \in ActiveAttemptStates
     /\ assignment[t] \in {"CREATED", "BOUND"}
  \/ /\ state \in {"FAILED", "INTERRUPTED"}
     /\ attempt[t] \in TerminalAttemptStates
     /\ assignment[t] \in {"CREATED", "BOUND", "REJECTED"}

ClaimedPlanClosure ==
  /\ plan.attempt # None
  /\ rev > plan.base
  /\ plan.active
  /\ ~permit.active
  /\ active = [NoAttempts EXCEPT ![Budget] = plan.attempt]
  /\ head = plan.head
  /\ ActiveValidationBindsPlan
  /\ BuildsFrom(validation, current, head)
  /\ SamePlan
  /\ ClaimedLifecycle(plan.attempt)

-----------------------------------------------------------------------------
(* claimRefreshPlan.  A plan that is claimed, completed or invalidated, or a   *)
(* revision that is not the Session's, answers the request and changes nothing.*)

(* Mutation of Claimable: any plan may be claimed. *)
ClaimableAlways(expected) ==
  up /\ plan.status # "NONE" /\ RefreshHead[scenario] # 0 /\ expected = rev

Claimable(expected) ==
  /\ up
  /\ plan.status = "AVAILABLE"
  /\ RefreshHead[scenario] # 0
  /\ expected = rev

InvalidatePlan(expected) ==
  /\ Claimable(expected)
  /\ ~(plan.active /\ PlanStillMatches)
  /\ plan' = [plan EXCEPT !.status = "INVALIDATED", !.attempt = None, !.active = FALSE]
  /\ permit' = [permit EXCEPT !.active = FALSE]
  /\ state' = "UNSTABLE_WORLD"
  /\ rev' = rev + 1
  /\ UNCHANGED <<head, versions, scenario, active, current, validation, recordVars,
                 effects, processVars, faults>>

ClaimPlan(expected) ==
  /\ Claimable(expected)
  /\ plan.active /\ PlanStillMatches
  /\ active[Budget] = None
  /\ assignment' = [assignment EXCEPT ![Reobs] = "CREATED"]
  /\ attempt' = [attempt EXCEPT ![Reobs] = "ASSIGNMENT_CREATED"]
  /\ plan' = [plan EXCEPT !.status = "CLAIMED", !.attempt = Reobs]
  /\ active' = [active EXCEPT ![Budget] = Reobs]
  /\ state' = "REOBSERVING"
  /\ rev' = rev + 1
  /\ reobs' = "capture"
  /\ UNCHANGED <<head, versions, scenario, current, validation, permit, receipt, decision,
                 effects, up, task, pc, faults>>

=============================================================================
