-------------------------- MODULE SessionViewBuilder --------------------------
(***************************************************************************)
(* What a client can see of a Session.  A read takes one snapshot of the   *)
(* store, resolves every record the Session points to, and has the result  *)
(* checked by the snapshot schema.  Whatever does not fit is not shown: the *)
(* read is answered PROJECTION_MISMATCH, and the client has no revision to *)
(* act on.                                                                 *)
(*                                                                         *)
(* Left out: identifiers, digests, times and texts, and the audit events.  *)
(***************************************************************************)
EXTENDS SafetyDiagnostics

-----------------------------------------------------------------------------
(* The builder: records the Session points to *)

CoversHead(r) == Contains(VersionOf(versions, r, receipt[current[r]].rev), head)

RunCount(r) == Cardinality({t \in Task : RoleOf(t) = r /\ attempt[t] # "NONE"})

DecisionResolves(r, t, allowed) ==
  /\ RoleOf(t) = r
  /\ decision[t].status \in allowed
  /\ assignment[t] = "CONSUMED"
  /\ attempt[t] = "ACCEPTED"
  /\ Resolves(versions, r, receipt[t], head)

(* The Assignment of an Attempt that was not consumed: which of its states go  *)
(* with the state of the Attempt.  One that ended may have had no Run.         *)
PreConsumption(t) ==
  \/ attempt[t] \in {"ASSIGNMENT_CREATED", "DISPATCHING"} /\ assignment[t] \in {"CREATED", "REJECTED"}
  \/ attempt[t] \in {"QUEUED", "RUNNING"} /\ assignment[t] = "BOUND"
  \/ attempt[t] = "COMPLETED" /\ assignment[t] \in {"BOUND", "REJECTED"}
  \/ attempt[t] \in TerminalAttemptStates /\ assignment[t] \in {"CREATED", "BOUND", "REJECTED"}

AgentResolves(r) ==
  /\ current[r] # None => DecisionResolves(r, current[r], {"ACTIVE"})
  /\ active[r] # None =>
       RoleOf(active[r]) = r /\ PreConsumption(active[r]) /\ active[r] # current[r]

ValidationResolves == validation.outcome # "NONE" => validation.head <= head

-----------------------------------------------------------------------------
(* The builder: joint validity *)

ThreeDecisions == \A r \in Roles : current[r] # None

BindsDecisions == ThreeDecisions /\ validation.decisions = current

JointPending ==
  \/ validation.outcome = "NONE"
  \/ state \in {"DISPATCHING", "COMMIT_RACE", "UNSTABLE_WORLD"}
  \/ state = "COLLECTING" /\ ~BindsDecisions

JointState ==
  CASE JointPending -> "PENDING"
    [] ~JointPending /\ validation.outcome = "NO_VALID_OBSERVED_WORLD_CUT" -> "NO_CUT"
    [] ~JointPending /\ validation.outcome = "HISTORICAL_BUT_STALE_NOW" -> "HISTORICAL_STALE"
    [] OTHER -> "VALID_CURRENT"

(* Mutation of JointHolds: the outcome is shown whatever head it was found at.  *)
JointHoldsAtAnyHead ==
  JointPending \/ BindsDecisions

(* What each shown state asks of the evidence at the head of today. *)
RetainedHolds(lower, upper, covered) ==
  /\ JointState = "NO_CUT" => lower >= upper
  /\ JointState = "HISTORICAL_STALE" => lower < upper /\ ~covered

CurrentHolds(lower, upper, covered) ==
  /\ JointState = "VALID_CURRENT" => lower < upper /\ covered /\ \A r \in Roles : CoversHead(r)
  /\ validation.outcome = "VALID_CURRENT_ALLOW" =>
       \A r \in Roles : decision[current[r]].verdict = "ALLOW"
  /\ validation.outcome = "CONSISTENT_DENY" =>
       \E r \in Roles : decision[current[r]].verdict = "DENY"

(* The bounds that the validation recorded are those of today exactly when it   *)
(* was made at the head of today.                                               *)
JointHolds ==
  \/ JointPending
  \/ LET evidence == EvidenceOf(current)
         lower == LowerBound(evidence)
         upper == UpperBound(evidence, head)
         covered == lower <= head /\ head < upper
     IN
     /\ BindsDecisions
     /\ validation.head = head
     /\ RetainedHolds(lower, upper, covered)
     /\ CurrentHolds(lower, upper, covered)

-----------------------------------------------------------------------------
(* The builder: plan and gate *)

PlanOwners == {Budget}

(* The validation a plan was built from stays in the store under the plan's    *)
(* name, with the head and the Decisions the plan has.                         *)
PlanResolves ==
  plan.active =>
    /\ plan.status # "INVALIDATED"
    /\ \A r \in Roles :
         /\ plan.decisions[r] # None
         /\ DecisionResolves(r, plan.decisions[r], {"ACTIVE", "SUPERSEDED"})
    /\ CurrentInvalidOwners(EvidenceOf(plan.decisions), plan.head) = PlanOwners
    /\ plan.status = "CLAIMED" =>
         /\ plan.attempt # None
         /\ attempt[plan.attempt] # "ACCEPTED"
         /\ RoleOf(plan.attempt) \in PlanOwners
         /\ active[RoleOf(plan.attempt)] = plan.attempt
    /\ plan.status = "AVAILABLE" => plan.attempt = None

EffectLedgerCloses ==
  /\ Len(effects) <= 1
  /\ permit.status = "CONSUMED" <=> effects # <<>>

PermitAllowed == state \in {"READY_AT_CURRENT_HEAD", "COMMITTED"}

GateResolves ==
  /\ EffectLedgerCloses
  /\ effects # <<>> => state = "COMMITTED"
  /\ PermitAllowed =>
       /\ permit.active
       /\ permit.head = head /\ validation.head = permit.head
       /\ permit.status = IF state = "COMMITTED" THEN "CONSUMED" ELSE "ISSUED"

(* A failed Session is shown with the reason of its latest diagnostic. *)
DiagnosticsResolve ==
  /\ CausalChainsClose
  /\ state \in {"FAILED", "INTERRUPTED"} => diagnostics # <<>>

BuilderAccepts ==
  /\ DiagnosticsResolve
  /\ \A r \in Roles : AgentResolves(r)
  /\ ValidationResolves
  /\ JointHolds
  /\ PlanResolves
  /\ GateResolves

AvailableActions ==
  {a \in {"REOBSERVE_INVALID", "COMMIT"} :
     \/ /\ a = "REOBSERVE_INVALID"
        /\ state \in {"BLOCKED_NO_CUT", "HISTORICAL_STALE"}
        /\ plan.active /\ plan.status = "AVAILABLE"
     \/ a = "COMMIT" /\ state = "READY_AT_CURRENT_HEAD"}

-----------------------------------------------------------------------------
(* The schema: Agents *)

CurrentValid(r) == current[r] # None /\ CoversHead(r)

InvalidAtHead(r) == current[r] # None /\ ~CoversHead(r)

InvalidRoles == {r \in Roles : InvalidAtHead(r)}

InFlightRoles == {r \in Roles : active[r] # None}

ReobservedRoles == {r \in Roles : RunCount(r) > 1}

NewRefreshAttempt(r, statuses) ==
  /\ current[r] # None /\ active[r] # None
  /\ attempt[active[r]] \in statuses
  /\ RunCount(r) > 1
  /\ active[r] # current[r]

(* A contradicted verdict alone keeps its Attempt COMPLETED; the latest         *)
(* diagnostic names the Attempt, the Assignment and the Run.                   *)
RejectedCompletedAttempt(r) ==
  /\ state = "FAILED"
  /\ NewRefreshAttempt(r, {"COMPLETED"})
  /\ diagnostics # <<>>
  /\ LET d == diagnostics[Len(diagnostics)] IN
     d.stage = "VALIDATE" /\ d.reason = "DECISION_INVALID" /\ d.task = active[r] /\ d.run

RepresentedRuns(r) ==
  (IF current[r] = None THEN 0 ELSE 1) + (IF active[r] = None THEN 0 ELSE 1)

-----------------------------------------------------------------------------
(* The schema: authoritative states *)

Rule(joint, allowsPermit, hasEffect, planStatus, actions) ==
  [joint |-> joint, permit |-> allowsPermit, effect |-> hasEffect, plan |-> planStatus,
   actions |-> actions]

AuthoritativeRules ==
  [BLOCKED_NO_CUT |-> Rule("NO_CUT", FALSE, FALSE, "AVAILABLE", {"REOBSERVE_INVALID"}),
   HISTORICAL_STALE |-> Rule("HISTORICAL_STALE", FALSE, FALSE, "AVAILABLE", {"REOBSERVE_INVALID"}),
   CONSISTENT_DENY |-> Rule("VALID_CURRENT", FALSE, FALSE, "COMPLETED", {}),
   READY_AT_CURRENT_HEAD |-> Rule("VALID_CURRENT", TRUE, FALSE, "COMPLETED", {"COMMIT"}),
   COMMITTED |-> Rule("VALID_CURRENT", TRUE, TRUE, "COMPLETED", {})]

Authoritative == state \in DOMAIN AuthoritativeRules

Verdicts == {decision[current[r]].verdict : r \in Roles}

DecisionsMatchRule ==
  /\ ThreeDecisions
  /\ state \in {"READY_AT_CURRENT_HEAD", "COMMITTED"} => InvalidRoles = {} /\ Verdicts = {"ALLOW"}
  /\ state = "CONSISTENT_DENY" => InvalidRoles = {} /\ "DENY" \in Verdicts

(* The one reason a plan is built for is a No-Cut. *)
PlanMatchesRule ==
  IF AuthoritativeRules[state].plan = "AVAILABLE"
    THEN /\ plan.active /\ plan.status = "AVAILABLE"
         /\ PlanOwners = InvalidRoles
         /\ state = "BLOCKED_NO_CUT"
  ELSE IF ReobservedRoles = {} THEN ~plan.active
  ELSE plan.active /\ plan.status = "COMPLETED" /\ PlanOwners = ReobservedRoles

FollowsRule ==
  Authoritative =>
    LET rule == AuthoritativeRules[state] IN
    /\ JointState = rule.joint
    /\ rule.permit <=> PermitAllowed /\ permit.active
    /\ rule.effect <=> effects # <<>>
    /\ InFlightRoles = {}
    /\ DecisionsMatchRule
    /\ PlanMatchesRule

ActionsMatchRule ==
  AvailableActions = IF Authoritative THEN AuthoritativeRules[state].actions ELSE {}

-----------------------------------------------------------------------------
(* The schema: plans *)

Retained == JointState \in {"NO_CUT", "HISTORICAL_STALE"}

PlanFitsState ==
  /\ Retained => plan.active /\ JointState = "NO_CUT"
  /\ plan.active =>
       CASE plan.status = "AVAILABLE" -> state \in {"BLOCKED_NO_CUT", "HISTORICAL_STALE"}
         [] plan.status = "CLAIMED" -> state \in {"REOBSERVING", "COLLECTING", "FAILED", "INTERRUPTED"}
         [] plan.status = "COMPLETED" ->
              /\ state \in {"CONSISTENT_DENY", "READY_AT_CURRENT_HEAD", "COMMITTED",
                            "COMMIT_RACE", "FAILED", "INTERRUPTED"}
              /\ ThreeDecisions /\ InvalidRoles = {}
              /\ InFlightRoles = {}
              /\ PlanOwners = ReobservedRoles

(* REOBSERVING: the owners are those whose evidence is invalid, and each has a  *)
(* new Attempt at work.                                                         *)
ReobservingFits ==
  state = "REOBSERVING" =>
    /\ plan.active /\ plan.status = "CLAIMED"
    /\ ThreeDecisions /\ Retained
    /\ PlanOwners = InvalidRoles
    /\ PlanOwners = InFlightRoles
    /\ PlanOwners = ReobservedRoles
    /\ \A r \in PlanOwners : NewRefreshAttempt(r, ActiveAttemptStates)

CollectingFits ==
  state = "COLLECTING" =>
    IF ~plan.active THEN ReobservedRoles = {}
    ELSE /\ plan.status = "CLAIMED"
         /\ ThreeDecisions
         /\ InFlightRoles # {} /\ InFlightRoles = InvalidRoles
         /\ PlanOwners = ReobservedRoles
         /\ \A r \in Roles \ PlanOwners : CurrentValid(r) /\ active[r] = None
         /\ \A r \in PlanOwners : NewRefreshAttempt(r, ActiveAttemptStates)

(* A Session that failed under a claimed plan shows the Attempt that ended.     *)
ClaimedTerminalFits ==
  state \in {"FAILED", "INTERRUPTED"} /\ plan.active /\ plan.status = "CLAIMED" =>
    /\ ThreeDecisions
    /\ InFlightRoles # {} /\ InFlightRoles = InvalidRoles
    /\ PlanOwners = ReobservedRoles
    /\ \A r \in Roles \ PlanOwners : CurrentValid(r) /\ active[r] = None
    /\ \A r \in PlanOwners \cap InFlightRoles :
         NewRefreshAttempt(r, TerminalAttemptStates) \/ RejectedCompletedAttempt(r)

SchemaAccepts ==
  /\ \A r \in Roles : RunCount(r) >= RepresentedRuns(r)
  /\ FollowsRule
  /\ ActionsMatchRule
  /\ PlanFitsState
  /\ ReobservingFits
  /\ CollectingFits
  /\ ClaimedTerminalFits

(* A read of the Session is answered with a snapshot. *)
Readable == BuilderAccepts /\ SchemaAccepts

-----------------------------------------------------------------------------
(* Properties *)

(* A Run given up while it was queued or running: its Assignment is rejected,  *)
(* its Attempt keeps the last status it was seen in.                           *)
RunGivenUp == \E t \in Task : assignment[t] = "REJECTED" /\ attempt[t] \in {"QUEUED", "RUNNING"}

(* The Run of the re-observation ended and the Session has not taken note yet. *)
ClaimedRunEnded == state = "REOBSERVING" /\ attempt[Reobs] \notin ActiveAttemptStates

(* Between any two mutations of any owner, after every crash, recovery and     *)
(* failing write, what the store holds of a Session whose World stands still   *)
(* where it was validated can be shown: no mutation leaves half of what the    *)
(* builder and the schema demand of the other half.  The two windows that are  *)
(* excluded, and HISTORICAL_STALE, are not readable.                           *)
SteadyWorldIsReadable ==
  /\ state \notin {"NONE", "HISTORICAL_STALE"}
  /\ validation.outcome # "NONE" /\ state # "UNSTABLE_WORLD" => head = validation.head
  /\ ~RunGivenUp
  /\ ~ClaimedRunEnded
  => Readable

(* An action that a snapshot offers is one that the gate or the planner carries *)
(* out while nothing changes, also after the World moved on: a commit that is   *)
(* shown does not end in a commit race, a refresh that is shown claims its plan.*)
OfferedActionsAreAccepted ==
  Readable =>
    /\ "COMMIT" \in AvailableActions =>
         PermitHeld /\ head = permit.head /\ EvidenceClosure(head)
    /\ "REOBSERVE_INVALID" \in AvailableActions => PlanStillMatches

-----------------------------------------------------------------------------
(* What the repository says of a Session's projection *)

(* types.ts: retained NO_CUT or HISTORICAL_STALE evidence requires a            *)
(* RefreshPlan.  Closing a claimed plan must not keep the one without the other.*)
RetainedEvidenceHasPlan == Retained => plan.active

=============================================================================
