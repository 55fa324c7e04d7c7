--------------------------- MODULE SafetyDiagnostics ---------------------------
(***************************************************************************)
(* The SafetyDiagnostics of a Session.  The mutations that block, fail,    *)
(* interrupt or deny a Session append a record that says why, and names    *)
(* the records it rests on; the diagnostic of a commit race is appended by *)
(* a mutation of its own, after the gate's.  Every later read re-derives   *)
(* the whole chain from the store as it is then, and shows nothing when    *)
(* one link does not close.                                                *)
(*                                                                         *)
(* The module superposes this on the service: every action of the service  *)
(* is one of Deciding, Failing, Interrupting, Racing, Resetting and Quiet. *)
(* Left out: identifiers, digests, times and texts, the proof of a No-Cut  *)
(* and its two witnesses, which are functions of the validation.           *)
(***************************************************************************)
EXTENDS EpochGuardService, FiniteSets

VARIABLES
  validations,  \* database.validations, with the intervals each one recorded
  diagnostics,  \* database.diagnostics, in the order of their auditSeq
  bound,        \* tasks whose Assignment and Attempt carry a Run
  racing        \* a commit was answered COMMIT_RACE and has yet to record it

diagnosticVars == <<validations, diagnostics, bound, racing>>
diagnosedVars == <<vars, diagnosticVars>>

SystemFailure == {"OUTPUT_MALFORMED", "RUN_FAILED", "DECISION_INVALID"}

-----------------------------------------------------------------------------
(* Intervals as of a head: an end that came later does not count *)

(* Mutation of IntervalAt: the end the version has today. *)
IntervalToday(v, h) == [from |-> v.from, until |-> v.until]

IntervalAt(v, h) ==
  [from |-> v.from, until |-> IF v.until # Open /\ v.until <= h THEN v.until ELSE Open]

IntervalsAt(pointers, h) == [r \in Roles |-> IntervalAt(EvidenceOf(pointers)[r], h)]

-----------------------------------------------------------------------------
(* Diagnostics, as the service builds them *)

(* The records a diagnostic may name are its validation, by its place in the    *)
(* database, the Session's plan, and a task with or without its Run.            *)
Diagnostic(reason, stage) ==
  [reason |-> reason, stage |-> stage, rev |-> rev', validation |-> 0, plan |-> FALSE,
   task |-> None, run |-> FALSE]

About(reason, stage, i, citesPlan) ==
  [Diagnostic(reason, stage) EXCEPT !.validation = i, !.plan = citesPlan]

Naming(reason, stage, t) ==
  [Diagnostic(reason, stage) EXCEPT !.task = t, !.run = t \in bound]

InRoleOrder(t) == CASE RoleOf(t) = Inventory -> 1 [] RoleOf(t) = Budget -> 2 [] OTHER -> 3

FirstOf(tasks) ==
  IF tasks = {} THEN None
  ELSE CHOOSE t \in tasks : \A u \in tasks : InRoleOrder(t) <= InRoleOrder(u)

NewlyRejected == {t \in Task : attempt'[t] = "OUTPUT_REJECTED" /\ attempt[t] # "OUTPUT_REJECTED"}

(* The diagnostic of an outcome; a valid one has none, and that of a stale one  *)
(* cites no plan.                                                               *)
OutcomeDiagnostic(v) ==
  CASE v.outcome = "VALID_CURRENT_ALLOW" -> <<>>
    [] v.outcome = "HISTORICAL_BUT_STALE_NOW" ->
         <<About(v.outcome, "VALIDATE", Len(validations) + 1, FALSE)>>
    [] OTHER -> <<About(v.outcome, "VALIDATE", Len(validations) + 1, v.refreshed)>>

PersistsValidation ==
  /\ validations' = Append(validations,
       [record |-> validation', intervals |-> IntervalsAt(validation'.decisions, head)])
  /\ diagnostics' = diagnostics \o OutcomeDiagnostic(validation')

PersistsRejection ==
  /\ diagnostics' = Append(diagnostics, Naming("OUTPUT_MALFORMED", "PARSE", FirstOf(NewlyRejected)))
  /\ UNCHANGED validations

(* failSession names the Attempt of the claimed plan, or the one the adapter    *)
(* reported; a Run that ended by itself makes it a failure of the Run.  (Its    *)
(* reason then is that of the Run: a binding mismatch, which a diagnostic of    *)
(* that stage may not have, needs a Run that contradicts what was seen of it,   *)
(* and the outcome of a Run is final.)                                          *)
Blamed(reported) == IF ClaimOpen THEN plan.attempt ELSE reported

EndedInFailure(t) ==
  t # None /\ t \in bound /\ attempt'[t] \in {"FAILED", "INTERRUPTED"}

FailureOf(t, contradicted) ==
  CASE contradicted -> Naming("DECISION_INVALID", "VALIDATE", t)
    [] ~contradicted /\ EndedInFailure(t) -> Naming("RUN_FAILED", "RUN", t)
    [] OTHER -> Naming("RUN_FAILED", "DISPATCH", t)

(* Mutation of RecordsFailure: a Session that ended is given another reason. *)
RecordsFailureAlways(reported, contradicted) ==
  diagnostics' = Append(diagnostics, FailureOf(Blamed(reported), contradicted))

RecordsFailure(reported, contradicted) ==
  diagnostics' = IF state \in Terminal THEN diagnostics
                 ELSE Append(diagnostics, FailureOf(Blamed(reported), contradicted))

-----------------------------------------------------------------------------
(* The service's actions and what they record *)

boundMirrors == bound' = bound \cup {t \in Task : assignment'[t] = "BOUND"}

Deciding ==
  /\ AcceptInitial \/ AcceptRefresh
  /\ IF state' = "FAILED" THEN PersistsRejection ELSE PersistsValidation
  /\ UNCHANGED <<bound, racing>>

AdapterFailures == {r \in Roles : pc[r] = "failed"}

(* The background failure of a contradicted verdict names no task, and is told  *)
(* from the others by its stage alone, which nothing reads.                     *)
Failing ==
  /\ \/ CloseBeforeJoin /\ RecordsFailure(FirstOf(AdapterFailures), FALSE)
     \/ CloseBackgroundFailure /\ RecordsFailure(None, FALSE)
     \/ FailRefresh /\ RecordsFailure(IF pc[Reobs] = "failed" THEN Reobs ELSE None,
                                      reobs = "failingMismatch")
  /\ UNCHANGED <<validations, bound, racing>>

Interrupting ==
  /\ Restart
  /\ diagnostics' = IF state \in InFlight
                      THEN Append(diagnostics, Diagnostic("RUN_FAILED", "DISPATCH"))
                      ELSE diagnostics
  /\ UNCHANGED <<validations, bound, racing>>

Racing ==
  /\ \E expected \in Revisions : CommitRace(expected)
  /\ racing' = TRUE
  /\ UNCHANGED <<validations, diagnostics, bound>>

IsRace(d) == d.reason = "COMMIT_RACE" /\ d.rev = rev

RaceRecordable ==
  /\ state = "COMMIT_RACE"
  /\ validation.outcome # "NONE"
  /\ permit.status # "NONE"
  /\ \A i \in DOMAIN diagnostics : ~IsRace(diagnostics[i])

(* recordCommitRace; a second request is refused before it comes here. *)
RecordCommitRace ==
  /\ up /\ racing
  /\ racing' = FALSE
  /\ UNCHANGED <<vars, validations, bound>>
  /\ diagnostics' = IF RaceRecordable
                      THEN Append(diagnostics, About("COMMIT_RACE", "COMMIT", Len(validations), FALSE))
                      ELSE diagnostics

(* The bound on failing writes leaves this one out: a Session races once. *)
RaceWriteFails ==
  /\ up /\ racing
  /\ racing' = FALSE
  /\ UNCHANGED <<vars, validations, diagnostics, bound>>

(* After a reset the request finds no Session to record the race of. *)
Resetting ==
  /\ ResetDemo
  /\ validations' = <<>> /\ diagnostics' = <<>> /\ bound' = {} /\ racing' = FALSE

Stopping ==
  /\ Crash
  /\ racing' = FALSE
  /\ UNCHANGED <<validations, diagnostics, bound>>

QuietClient ==
  \/ \E s \in Scenarios : CreateSession(s)
  \/ \E expected \in Revisions : InvalidatePlan(expected) \/ ClaimPlan(expected)
  \/ \E expected \in Revisions : CommitEffect(expected)

QuietOwner ==
  \/ TransitionToCollecting \/ PackFails \/ JoinAccepts \/ JoinRejects
  \/ AcceptInitialThrows \/ ReleaseOwnership
  \/ CaptureRefreshObservation \/ CaptureThrows \/ RefreshPack \/ RefreshRunFailed
  \/ AcceptRefreshThrows

QuietEnvironment ==
  \/ \E r \in Roles, value \in Values : WorldCommit(r, value)
  \/ \E t \in Task : ObserverWriteFails(t)
  \/ BackgroundWriteFails
  \/ RefreshWriteFails

Quiet ==
  /\ QuietClient \/ QuietOwner \/ (\E t \in Task : DispatchBindPoll(t)) \/ QuietEnvironment
  /\ boundMirrors
  /\ UNCHANGED <<validations, diagnostics, racing>>

DiagnosedInit ==
  Init /\ validations = <<>> /\ diagnostics = <<>> /\ bound = {} /\ racing = FALSE

DiagnosedNext ==
  \/ Deciding
  \/ Failing
  \/ Interrupting
  \/ Racing
  \/ RecordCommitRace
  \/ RaceWriteFails
  \/ Resetting
  \/ Stopping
  \/ Quiet

DiagnosedSpec == DiagnosedInit /\ [][DiagnosedNext]_diagnosedVars

-----------------------------------------------------------------------------
(* Closure: what a read demands of every diagnostic, in the store of today *)

Record(i) == validations[i].record

DecisionCloses(r, t, validatedHead) ==
  /\ t # None
  /\ RoleOf(t) = r
  /\ decision[t].status \in {"ACTIVE", "SUPERSEDED"}
  /\ assignment[t] = "CONSUMED" /\ t \in bound
  /\ attempt[t] = "ACCEPTED"
  /\ Resolves(versions, r, receipt[t], head)
  /\ receipt[t].at <= validatedHead /\ receipt[t].rev <= validatedHead

Lower(i) == LowerBound(IntervalsAt(Record(i).decisions, Record(i).head))

Upper(i) == UpperBound(IntervalsAt(Record(i).decisions, Record(i).head), Record(i).head)

(* The bounds that the validation recorded are those of the evidence still. *)
EvidenceCloses(i) ==
  /\ Record(i).head <= head
  /\ \A r \in Roles : DecisionCloses(r, Record(i).decisions[r], Record(i).head)
  /\ LowerBound(validations[i].intervals) = Lower(i)
  /\ UpperBound(validations[i].intervals, Record(i).head) = Upper(i)

(* The JointValidityCertificate lists every interval, and its cut is the head. *)
CertificateCloses(i) ==
  /\ validations[i].intervals = IntervalsAt(Record(i).decisions, Record(i).head)
  /\ Lower(i) <= Record(i).head /\ Record(i).head < Upper(i)

(* A plan claimed or completed has its Attempt, as one that is AVAILABLE has none. *)
PlanStatusCloses ==
  /\ plan.status = "AVAILABLE" => plan.attempt = None
  /\ plan.status \in {"CLAIMED", "COMPLETED"} => plan.attempt # None

OriginPlanCloses(d, i) ==
  /\ d.plan /\ Record(i).refreshed
  /\ plan.base = Record(i).base + 1
  /\ plan.head = Record(i).head
  /\ plan.decisions = Record(i).decisions
  /\ CurrentInvalidOwners(EvidenceOf(Record(i).decisions), Record(i).head) = {Budget}
  /\ PlanStatusCloses

NoCutCloses(d, i) ==
  /\ Record(i).outcome = "NO_VALID_OBSERVED_WORLD_CUT"
  /\ EvidenceCloses(i)
  /\ OriginPlanCloses(d, i)
  /\ Lower(i) >= Upper(i)

(* As long as the race is the last thing that happened to the Session, it also  *)
(* is what the Session points to.                                               *)
RaceIsTheSessions(i) ==
  /\ state = "COMMIT_RACE"
  /\ validation = Record(i)
  /\ current = Record(i).decisions

CommitRaceCloses(d, i) ==
  /\ Record(i).outcome = "VALID_CURRENT_ALLOW"
  /\ Record(i).head < head
  /\ permit.head = Record(i).head /\ permit.status = "REVOKED"
  /\ d.rev = rev => RaceIsTheSessions(i)
  /\ EvidenceCloses(i) /\ CertificateCloses(i)
  /\ \A r \in Roles : decision[Record(i).decisions[r]].verdict = "ALLOW"
  /\ effects = <<>>

(* The one validation that the plan of a refreshed one was built for. *)
Origins ==
  {j \in DOMAIN validations :
     /\ Record(j).refreshed
     /\ Record(j).outcome \in {"NO_VALID_OBSERVED_WORLD_CUT", "HISTORICAL_BUT_STALE_NOW"}}

RefreshCloses(d, i, j) ==
  /\ EvidenceCloses(j) /\ OriginPlanCloses(d, j)
  /\ plan.status = "COMPLETED"
  /\ {r \in Roles : Record(i).decisions[r] # Record(j).decisions[r]} = {Budget}
  /\ plan.attempt = Record(i).decisions[Budget]

ConsistentDenyCloses(d, i) ==
  /\ Record(i).outcome = "CONSISTENT_DENY"
  /\ EvidenceCloses(i) /\ CertificateCloses(i)
  /\ \E r \in Roles : decision[Record(i).decisions[r]].verdict = "DENY"
  /\ IF Record(i).refreshed
       THEN Cardinality(Origins) = 1 /\ \A j \in Origins : RefreshCloses(d, i, j)
       ELSE ~d.plan

(* A stale validation is asked for the plan of its refresh, and has none. *)
ReasonCloses(d) ==
  CASE d.reason = "NO_VALID_OBSERVED_WORLD_CUT" -> NoCutCloses(d, d.validation)
    [] d.reason = "COMMIT_RACE" -> CommitRaceCloses(d, d.validation)
    [] d.reason = "HISTORICAL_BUT_STALE_NOW" -> d.plan
    [] d.reason = "CONSISTENT_DENY" -> ConsistentDenyCloses(d, d.validation)
    [] OTHER -> TRUE

DirectProvenance(d) ==
  d.task # None =>
    /\ assignment[d.task] # "NONE" /\ attempt[d.task] # "NONE"
    /\ d.run => d.task \in bound
    /\ d.stage = "RUN" => d.task \in bound /\ attempt[d.task] \in {"FAILED", "INTERRUPTED"}

Closes(d) ==
  /\ d.rev <= rev
  /\ d.validation \in {0} \cup DOMAIN validations
  /\ d.stage = "RUN" => d.task # None
  /\ DirectProvenance(d)
  /\ ReasonCloses(d)

CausalChainsClose == \A i \in DOMAIN diagnostics : Closes(diagnostics[i])

-----------------------------------------------------------------------------
(* Properties *)

Failed == state \in {"FAILED", "INTERRUPTED"}

Failures == {i \in DOMAIN diagnostics : diagnostics[i].reason \in SystemFailure}

(* A diagnostic is built from one mutation's view of the store, and every later *)
(* read checks it against records that changed since: the plan was claimed,     *)
(* completed or invalidated, the Decision superseded, the Attempt closed, the   *)
(* World moved on.  None of it breaks a chain that was complete once, whoever   *)
(* interleaves, crashes or recovers; a chain that breaks hides the Session for  *)
(* ever.  (The diagnostic of stale evidence never was complete.)                *)
DiagnosticsStayClosed ==
  \A i \in DOMAIN diagnostics :
    diagnostics[i].reason # "HISTORICAL_BUT_STALE_NOW" => Closes(diagnostics[i])

(* A Session that failed or was interrupted says why, once and last, at the     *)
(* revision at which it ended: the join, the background continuation and the    *)
(* refresh request each try to close it, and only the first to do so explains.  *)
(* No Session that did not fail carries the reason of a failure.                *)
EndIsExplained ==
  /\ Failures = IF Failed THEN {Len(diagnostics)} ELSE {}
  /\ Failed => Len(diagnostics) > 0 /\ diagnostics[Len(diagnostics)].rev = rev

(* The workflow: a commit race ends the Session COMMIT_RACE and writes a        *)
(* diagnostic of it.  Here, once the request that lost the race is answered.    *)
RaceIsDiagnosed ==
  state = "COMMIT_RACE" /\ ~racing =>
    \E i \in DOMAIN diagnostics : diagnostics[i].reason = "COMMIT_RACE"

=============================================================================
