-------------------------- MODULE EpochGuardService --------------------------
(***************************************************************************)
(* The EpochGuard service: a Session from its creation, through the        *)
(* concurrent Role Runs, the acceptance and validation of their Decisions  *)
(* and at most one re-observation, to an Effect or to a closed Session,    *)
(* with crashes of the server, its recovery, failing writes, and commits to *)
(* the World from outside.                                                 *)
(***************************************************************************)
EXTENDS RunObserver, RefreshPlanner, EffectGate

-----------------------------------------------------------------------------
(* createSession *)

(* One mutation replays the fixture into the ledger and issues the receipts;   *)
(* the continuation is scheduled before anything else can run.                 *)
CreateSession(s) ==
  /\ up
  /\ state = "NONE" /\ task = "none"
  /\ head = 0 /\ versions = NoHistory
  /\ head' = Fixture[s].head
  /\ versions' = Fixture[s].versions
  /\ scenario' = s
  /\ state' = "DISPATCHING"
  /\ rev' = 1
  /\ active' = [r \in Roles |-> r]
  /\ assignment' = [t \in Task |-> IF t = Reobs THEN "NONE" ELSE "CREATED"]
  /\ attempt' = [t \in Task |-> IF t = Reobs THEN "NONE" ELSE "ASSIGNMENT_CREATED"]
  /\ receipt' = [t \in Task |-> IF t = Reobs THEN NoReceipt ELSE Fixture[s].seen[t]]
  /\ task' = "packs"
  /\ UNCHANGED <<current, validation, plan, permit, decision, effects, up, reobs, pc, faults>>

-----------------------------------------------------------------------------
(* failSession *)

(* closeClaimedRefreshFailure(preserve).  Its branch for a claimed plan whose   *)
(* binding is invalid is left out: the claim binds the plan, its Attempt and    *)
(* its Assignment in one mutation and nothing unbinds them while it is CLAIMED. *)
ClaimOpen == plan.active /\ plan.status = "CLAIMED"

CanCloseTerminally(status) == status \notin {"QUEUED", "RUNNING"}

(* Mutation of OnlyClaimedAttempt: the Session forgets the Attempt that ended.  *)
NoClaimedAttempt == NoAttempts

OnlyClaimedAttempt == [NoAttempts EXCEPT ![Budget] = plan.attempt]

CloseClaim(preserve) ==
  LET t == plan.attempt IN
  /\ SetAssignment(t, "REJECTED")
  /\ IF preserve /\ attempt[t] = "COMPLETED"
       THEN UNCHANGED <<plan, active, attempt>>
     ELSE IF CanCloseTerminally(attempt[t])
       THEN /\ SetAttempt(t, IF attempt[t] \in TerminalAttemptStates THEN attempt[t] ELSE "FAILED")
            /\ active' = OnlyClaimedAttempt
            /\ UNCHANGED plan
     ELSE /\ plan' = [plan EXCEPT !.status = "INVALIDATED", !.attempt = None, !.active = FALSE]
          /\ active' = NoAttempts
          /\ UNCHANGED attempt

FailSession(preserve) ==
  IF state \in Terminal
    THEN UNCHANGED <<state, rev, permit, plan, active, assignment, attempt>>
  ELSE /\ state' = "FAILED"
       /\ rev' = rev + 1
       /\ permit' = [permit EXCEPT !.active = FALSE]
       /\ IF ClaimOpen
            THEN CloseClaim(preserve)
          ELSE active' = NoAttempts /\ UNCHANGED <<plan, assignment, attempt>>

failUnchanged ==
  UNCHANGED <<head, versions, scenario, current, validation, receipt, decision, effects, up>>

-----------------------------------------------------------------------------
(* acceptAndValidate: one mutation consumes the outputs of the given tasks,    *)
(* validates the current Decisions and persists the outcome.                   *)

Output == Values \cup {"MALFORMED", "MISBOUND"}

(* normalizeAndConsumeDecision: the checks made before the output is parsed. *)
Consumable(t) ==
  /\ assignment[t] = "BOUND"
  /\ attempt[t] = "COMPLETED"
  /\ active[RoleOf(t)] = t

TaskOf(tasks, r) == CHOOSE t \in tasks : RoleOf(t) = r

Replaced(tasks) ==
  [r \in Roles |->
    IF \E t \in tasks : RoleOf(t) = r THEN TaskOf(tasks, r) ELSE current[r]]

(* Mutations of Consume: every output counts as well-formed, and every other   *)
(* Assignment is rejected along with the malformed ones.                       *)
ConsumeUnparsed(tasks, output) ==
  /\ assignment' = [t \in Task |-> IF t \in tasks THEN "CONSUMED" ELSE assignment[t]]
  /\ attempt' = [t \in Task |-> IF t \in tasks THEN "ACCEPTED" ELSE attempt[t]]
  /\ decision' = [t \in Task |->
       IF t \in tasks THEN [status |-> "ACTIVE", verdict |-> output[t]] ELSE decision[t]]
  /\ current' = Replaced(tasks)

ConsumeExclusively(tasks, output) ==
  LET accepted == {t \in tasks : output[t] \in Values} IN
  /\ assignment' = [t \in Task |-> IF t \in accepted THEN "CONSUMED" ELSE "REJECTED"]
  /\ attempt' = [t \in Task |-> IF t \in accepted THEN "ACCEPTED" ELSE attempt[t]]
  /\ decision' = [t \in Task |->
       IF t \in accepted THEN [status |-> "ACTIVE", verdict |-> output[t]] ELSE decision[t]]
  /\ current' = Replaced(accepted)

(* Consumption of well-formed outputs, rejection of malformed ones. *)
Consume(tasks, output) ==
  LET accepted == {t \in tasks : output[t] \in Values} IN
  /\ assignment' = [t \in Task |->
       IF t \notin tasks THEN assignment[t]
       ELSE IF t \in accepted THEN "CONSUMED" ELSE "REJECTED"]
  /\ attempt' = [t \in Task |->
       IF t \notin tasks THEN attempt[t]
       ELSE IF t \in accepted THEN "ACCEPTED" ELSE "OUTPUT_REJECTED"]
  /\ decision' = [t \in Task |->
       IF t \in accepted THEN [status |-> "ACTIVE", verdict |-> output[t]]
       ELSE IF \E u \in accepted : current[RoleOf(u)] = t
         THEN [decision[t] EXCEPT !.status = "SUPERSEDED"]
       ELSE decision[t]]
  /\ current' = Replaced(accepted)

VerdictOf(pointers, output) ==
  [r \in Roles |->
    IF pointers[r] \in DOMAIN output THEN output[pointers[r]] ELSE decision[pointers[r]].verdict]

(* resolveIntervals: a Decision that contradicts the authoritative value of the *)
(* evidence it cites aborts the mutation.                                       *)
Mismatch(tasks, output) ==
  LET pointers == Replaced(tasks) IN
  \E r \in Roles : VerdictOf(pointers, output)[r] # EvidenceOf(pointers)[r].value

OutcomeOf(tasks, output) ==
  ValidationOutcome(EvidenceOf(Replaced(tasks)), VerdictOf(Replaced(tasks), output), head)

(* buildRefreshPlan in persistValidation: the owner must be the Budget alone,   *)
(* and the Session may not already point to another plan.                       *)
PlanBuildable(tasks) ==
  /\ ~plan.active
  /\ BudgetOwns(EvidenceOf(Replaced(tasks)), head)

Wellformed(tasks, output) == \A t \in tasks : output[t] \in Values

Persistable(tasks, output) ==
  /\ Wellformed(tasks, output)
  /\ ~Mismatch(tasks, output)
  /\ OutcomeOf(tasks, output) = "NO_VALID_OBSERVED_WORLD_CUT" => PlanBuildable(tasks)

RejectsOutput(tasks, output) ==
  /\ \E t \in tasks : output[t] = "MALFORMED"
  /\ \A t \in tasks : output[t] # "MISBOUND"

PersistRejection(tasks, output) ==
  /\ \A t \in tasks : Consumable(t)
  /\ RejectsOutput(tasks, output)
  /\ Consume(tasks, output)
  /\ state' = "FAILED"
  /\ rev' = rev + 1
  /\ permit' = [permit EXCEPT !.active = FALSE]
  /\ active' = IF ClaimOpen THEN OnlyClaimedAttempt ELSE NoAttempts
  /\ UNCHANGED <<validation, plan>>

StateFor(outcome) ==
  CASE outcome = "VALID_CURRENT_ALLOW" -> "READY_AT_CURRENT_HEAD"
    [] outcome = "NO_VALID_OBSERVED_WORLD_CUT" -> "BLOCKED_NO_CUT"
    [] outcome = "CONSISTENT_DENY" -> "CONSISTENT_DENY"
    [] OTHER -> "HISTORICAL_STALE"

(* VALIDATING and the state of the outcome each take a revision. *)
PersistValidation(tasks, output) ==
  LET pointers == Replaced(tasks)
      outcome == OutcomeOf(tasks, output)
      closes == ClaimOpen /\ outcome \in {"VALID_CURRENT_ALLOW", "CONSISTENT_DENY"}
      blocks == outcome = "NO_VALID_OBSERVED_WORLD_CUT"
  IN
  /\ \A t \in tasks : Consumable(t)
  /\ Persistable(tasks, output)
  /\ Consume(tasks, output)
  /\ active' = [r \in Roles |-> IF \E t \in tasks : RoleOf(t) = r THEN None ELSE active[r]]
  /\ state' = StateFor(outcome)
  /\ rev' = rev + 2
  /\ validation' = [outcome |-> outcome, base |-> rev + 1, head |-> head,
                    decisions |-> pointers, refreshed |-> closes \/ blocks]
  /\ plan' = IF closes THEN [plan EXCEPT !.status = "COMPLETED"]
             ELSE IF blocks
               THEN [status |-> "AVAILABLE", active |-> TRUE, base |-> rev + 2,
                     head |-> head, decisions |-> pointers, attempt |-> None]
             ELSE plan
  /\ permit' = IF outcome = "VALID_CURRENT_ALLOW"
                 THEN [status |-> "ISSUED", active |-> TRUE, head |-> head]
                 ELSE [permit EXCEPT !.active = FALSE]

(* A misbound envelope, a contradicted verdict or a plan that cannot be built   *)
(* throws, and nothing of the mutation is published.                            *)
AcceptThrows(tasks, output) ==
  ~RejectsOutput(tasks, output) /\ ~Persistable(tasks, output)

-----------------------------------------------------------------------------
(* The background continuation of createSession *)

backgroundUnchanged == UNCHANGED <<up, reobs, faults>>

TransitionToCollecting ==
  /\ up /\ task = "packs"
  /\ state = "DISPATCHING"
  /\ state' = "COLLECTING"
  /\ rev' = rev + 1
  /\ task' = "fanout"
  /\ pc' = [t \in Task |-> IF t \in Roles THEN "start" ELSE pc[t]]
  /\ UNCHANGED <<head, versions, scenario, active, current, validation, plan, permit,
                 recordVars, effects>>
  /\ backgroundUnchanged

(* An Evidence Pack cannot be written into its workspace. *)
PackFails ==
  /\ up /\ task = "packs"
  /\ task' = "closing"
  /\ UNCHANGED <<head, versions, pointerVars, recordVars, effects, pc>>
  /\ backgroundUnchanged

FanOutSettled == task = "fanout" /\ \A r \in Roles : Settled(r)

AdapterFailed == \E r \in Roles : pc[r] = "failed"

(* runInitialFanOut closes the Session before the join rejects its siblings. *)
CloseBeforeJoin ==
  /\ up /\ FanOutSettled
  /\ AdapterFailed
  /\ FailSession(FALSE)
  /\ failUnchanged
  /\ task' = "join"
  /\ UNCHANGED <<pc, reobs, faults>>

(* Mutations of JoinBegins: no join after the Session was closed, and one       *)
(* before it is.                                                                *)
JoinOfLiveSession == FanOutSettled /\ ~AdapterFailed

JoinOfAnyFanOut == task = "join" \/ FanOutSettled

JoinBegins == task = "join" \/ (FanOutSettled /\ ~AdapterFailed)

(* joinRoleRunObservations accepts three outputs together or rejects every      *)
(* Assignment that is not consumed.                                             *)
JoinAccepts ==
  /\ up /\ JoinBegins
  /\ \A r \in Roles : pc[r] = "ok" /\ Consumable(r)
  /\ task' = "accept"
  /\ UNCHANGED <<head, versions, pointerVars, recordVars, effects, pc>>
  /\ backgroundUnchanged

JoinRejects ==
  /\ up /\ JoinBegins
  /\ \E r \in Roles : pc[r] # "ok" \/ ~Consumable(r)
  /\ assignment' = [t \in Task |->
       IF t \in Roles /\ assignment[t] # "CONSUMED" THEN "REJECTED" ELSE assignment[t]]
  /\ task' = "closing"
  /\ UNCHANGED <<head, versions, pointerVars, attempt, receipt, decision, effects, pc>>
  /\ backgroundUnchanged

AcceptInitial ==
  /\ up /\ task = "accept"
  /\ \E output \in [Roles -> Output] :
       \/ PersistValidation(Roles, output)
       \/ PersistRejection(Roles, output)
  /\ task' = "settled"
  /\ UNCHANGED <<head, versions, scenario, receipt, effects, pc>>
  /\ backgroundUnchanged

AcceptInitialThrows ==
  /\ up /\ task = "accept"
  /\ \E output \in [Roles -> Output] : AcceptThrows(Roles, output)
  /\ task' = "closing"
  /\ UNCHANGED <<head, versions, pointerVars, recordVars, effects, pc>>
  /\ backgroundUnchanged

(* closeBackgroundFailure tries twice to close the Session. *)
CloseBackgroundFailure ==
  /\ up /\ task \in {"closing", "closing2"}
  /\ FailSession(FALSE)
  /\ failUnchanged
  /\ task' = "settled"
  /\ UNCHANGED <<pc, reobs, faults>>

(* Mutation of AfterFault: the closing is not repeated. *)
AfterFaultStuck == IF task \in {"closing", "closing2"} THEN "stuck" ELSE "closing"

(* A mutation of the continuation cannot be written: the failure is to be       *)
(* closed; when that cannot be written twice, ownership is retained.            *)
AfterFault ==
  CASE task = "closing" -> "closing2"
    [] task = "closing2" -> "stuck"
    [] OTHER -> "closing"

BackgroundWriteFails ==
  /\ up
  /\ \/ task \in {"packs", "join", "accept"}
     \/ FanOutSettled
     \/ task \in {"closing", "closing2"} /\ state \notin Terminal
  /\ task' = AfterFault
  /\ StoreFault
  /\ UNCHANGED <<head, versions, pointerVars, recordVars, effects, up, reobs, pc>>

(* The continuation's finally clause releases its entry in backgroundTasks. *)
ReleaseOwnership ==
  /\ up /\ task = "settled"
  /\ task' = "none"
  /\ pc' = [t \in Task |-> IF t \in Roles THEN "idle" ELSE pc[t]]
  /\ UNCHANGED <<head, versions, pointerVars, recordVars, effects>>
  /\ backgroundUnchanged

-----------------------------------------------------------------------------
(* The refresh request, after it claimed the plan *)

refreshUnchanged == UNCHANGED <<up, task>>

CaptureRefreshObservation ==
  /\ up /\ reobs = "capture"
  /\ head = RefreshHead[scenario]
  /\ assignment[Reobs] = "CREATED"
  /\ VersionsAt(versions, Budget, head) # {}
  /\ receipt' = [receipt EXCEPT ![Reobs] = Observation(versions, Budget, head)]
  /\ reobs' = "pack"
  /\ UNCHANGED <<head, versions, pointerVars, assignment, attempt, decision, effects, pc, faults>>
  /\ refreshUnchanged

(* Mutation of CaptureThrows: a head that moved on is not noticed. *)
CaptureThrowsEarly ==
  /\ up /\ reobs = "capture"
  /\ head < RefreshHead[scenario]
  /\ reobs' = "failing"
  /\ UNCHANGED <<head, versions, pointerVars, recordVars, effects, pc, faults>>
  /\ refreshUnchanged

CaptureThrows ==
  /\ up /\ reobs = "capture"
  /\ head # RefreshHead[scenario]
  /\ reobs' = "failing"
  /\ UNCHANGED <<head, versions, pointerVars, recordVars, effects, pc, faults>>
  /\ refreshUnchanged

RefreshPack ==
  /\ up /\ reobs = "pack"
  /\ \/ reobs' = "run" /\ pc' = [pc EXCEPT ![Reobs] = "start"]
     \/ reobs' = "failing" /\ UNCHANGED pc
  /\ UNCHANGED <<head, versions, pointerVars, recordVars, effects, faults>>
  /\ refreshUnchanged

RefreshRunFailed ==
  /\ up /\ reobs = "run"
  /\ pc[Reobs] \in {"failed", "error"}
  /\ reobs' = "failing"
  /\ UNCHANGED <<head, versions, pointerVars, recordVars, effects, pc, faults>>
  /\ refreshUnchanged

AcceptRefresh ==
  /\ up /\ reobs = "run" /\ pc[Reobs] = "ok"
  /\ \E output \in [{Reobs} -> Output] :
       \/ PersistValidation({Reobs}, output)
       \/ PersistRejection({Reobs}, output)
  /\ reobs' = "idle"
  /\ pc' = [pc EXCEPT ![Reobs] = "idle"]
  /\ UNCHANGED <<head, versions, scenario, receipt, effects, faults>>
  /\ refreshUnchanged

(* The verdict mismatch alone keeps the completed Attempt as it is. *)
AcceptRefreshThrows ==
  /\ up /\ reobs = "run" /\ pc[Reobs] = "ok"
  /\ \E output \in [{Reobs} -> Output] :
       /\ AcceptThrows({Reobs}, output)
       /\ reobs' = IF Wellformed({Reobs}, output) /\ Mismatch({Reobs}, output)
                     THEN "failingMismatch" ELSE "failing"
  /\ UNCHANGED <<head, versions, pointerVars, recordVars, effects, pc, faults>>
  /\ refreshUnchanged

FailRefresh ==
  /\ up /\ reobs \in {"failing", "failingMismatch"}
  /\ FailSession(reobs = "failingMismatch")
  /\ failUnchanged
  /\ reobs' = "idle"
  /\ pc' = [pc EXCEPT ![Reobs] = "idle"]
  /\ UNCHANGED <<task, faults>>

(* The request closes its failure once: when that cannot be written it ends. *)
RefreshWriteFails ==
  /\ up
  /\ \/ /\ reobs = "capture" \/ (reobs = "run" /\ pc[Reobs] = "ok")
        /\ reobs' = "failing" /\ UNCHANGED pc
     \/ /\ reobs \in {"failing", "failingMismatch"}
        /\ reobs' = "idle" /\ pc' = [pc EXCEPT ![Reobs] = "idle"]
  /\ StoreFault
  /\ UNCHANGED <<head, versions, pointerVars, recordVars, effects>>
  /\ refreshUnchanged

-----------------------------------------------------------------------------
(* resetDemo, the process, and the World *)

(* Mutation of ResetDemo: the Effects are forgotten about. *)
ResetKeepsEffects ==
  /\ up
  /\ state \in Terminal /\ task = "none"
  /\ head' = 0 /\ versions' = NoHistory
  /\ scenario' = None /\ state' = "NONE" /\ rev' = 0
  /\ active' = NoAttempts /\ current' = NoDecisions
  /\ validation' = NoValidation /\ plan' = NoPlan /\ permit' = NoPermit
  /\ assignment' = [t \in Task |-> "NONE"]
  /\ attempt' = [t \in Task |-> "NONE"]
  /\ receipt' = [t \in Task |-> NoReceipt]
  /\ decision' = [t \in Task |-> NoDecision]
  /\ UNCHANGED <<effects, processVars, faults>>

(* Refused while a Session is not terminal or has a background continuation. *)
ResetDemo ==
  /\ up
  /\ state \in Terminal /\ task = "none"
  /\ head' = 0 /\ versions' = NoHistory
  /\ scenario' = None /\ state' = "NONE" /\ rev' = 0
  /\ active' = NoAttempts /\ current' = NoDecisions
  /\ validation' = NoValidation /\ plan' = NoPlan /\ permit' = NoPermit
  /\ assignment' = [t \in Task |-> "NONE"]
  /\ attempt' = [t \in Task |-> "NONE"]
  /\ receipt' = [t \in Task |-> NoReceipt]
  /\ decision' = [t \in Task |-> NoDecision]
  /\ effects' = <<>>
  /\ UNCHANGED <<processVars, faults>>

Crash ==
  /\ up
  /\ up' = FALSE /\ task' = "none" /\ reobs' = "idle" /\ pc' = Idle
  /\ UNCHANGED <<head, versions, pointerVars, recordVars, effects, faults>>

Referenced == {active[r] : r \in Roles} \ {None}

(* What recoverInFlightSession checks before and while it closes a Session; it *)
(* throws, and the server does not start, when any of it does not hold.        *)
RecoveryAccepts ==
  /\ \A r, s \in Roles : active[r] = active[s] /\ active[r] # None => r = s
  /\ \A r \in Roles : active[r] # None =>
       LET t == active[r] IN
       /\ RoleOf(t) = r
       /\ assignment[t] # "NONE" /\ attempt[t] # "NONE"
       /\ assignment[t] = "CREATED" => attempt[t] \notin {"QUEUED", "RUNNING", "COMPLETED"}
       /\ assignment[t] = "BOUND" => attempt[t] \notin {"ASSIGNMENT_CREATED", "DISPATCHING"}
       /\ assignment[t] = "CONSUMED" => attempt[t] = "ACCEPTED"
  /\ plan.active =>
       plan.status = "CLAIMED" /\ state \in {"REOBSERVING", "COLLECTING"}
         /\ plan.attempt \in Referenced
  /\ state = "REOBSERVING" => plan.active
  /\ ~permit.active

RecoverInFlightSession ==
  /\ RecoveryAccepts
  /\ assignment' = [t \in Task |->
       IF t \in Referenced /\ assignment[t] \in {"CREATED", "BOUND"}
         THEN "REJECTED" ELSE assignment[t]]
  /\ attempt' = [t \in Task |->
       IF t \in Referenced /\ attempt[t] \in ActiveAttemptStates
         THEN "INTERRUPTED" ELSE attempt[t]]
  /\ plan' = IF plan.active
               THEN [plan EXCEPT !.status = "INVALIDATED", !.attempt = None, !.active = FALSE]
               ELSE plan
  /\ active' = NoAttempts
  /\ validation' = NoValidation
  /\ state' = "INTERRUPTED"
  /\ rev' = rev + 1

(* initialize, in a new process on the file the last one left. *)
Restart ==
  /\ ~up
  /\ up' = TRUE
  /\ IF state \in InFlight
       THEN RecoverInFlightSession
       ELSE UNCHANGED <<assignment, attempt, plan, active, validation, state, rev>>
  /\ UNCHANGED <<head, versions, scenario, current, permit, receipt, decision, effects,
                 task, reobs, pc, faults>>

(* A commit to the World from outside, of one resource. *)
WorldCommit(r, value) ==
  /\ state # "NONE"
  /\ Commit([q \in {r} |-> value])
  /\ UNCHANGED <<pointerVars, recordVars, effects, processVars, faults>>

-----------------------------------------------------------------------------
(* Specification *)

Background ==
  \/ TransitionToCollecting
  \/ PackFails
  \/ CloseBeforeJoin
  \/ JoinAccepts
  \/ JoinRejects
  \/ AcceptInitial
  \/ AcceptInitialThrows
  \/ CloseBackgroundFailure
  \/ ReleaseOwnership

Refresh ==
  \/ CaptureRefreshObservation
  \/ CaptureThrows
  \/ RefreshPack
  \/ RefreshRunFailed
  \/ AcceptRefresh
  \/ AcceptRefreshThrows
  \/ FailRefresh

Client ==
  \/ \E s \in Scenarios : CreateSession(s)
  \/ \E expected \in Revisions : InvalidatePlan(expected)
  \/ \E expected \in Revisions : ClaimPlan(expected)
  \/ \E expected \in Revisions : CommitRace(expected)
  \/ \E expected \in Revisions : CommitEffect(expected)
  \/ ResetDemo

Environment ==
  \/ Crash
  \/ \E r \in Roles, value \in Values : WorldCommit(r, value)
  \/ \E t \in Task : ObserverWriteFails(t)
  \/ BackgroundWriteFails
  \/ RefreshWriteFails

Next ==
  \/ Client
  \/ Background
  \/ Refresh
  \/ \E t \in Task : DispatchBindPoll(t)
  \/ Restart
  \/ Environment

Spec == Init /\ [][Next]_vars

=============================================================================
