---------------------------- MODULE DiagnosisProofs ----------------------------
(***************************************************************************)
(* Proofs about the diagnostics and the view: that they only add to the    *)
(* service, so that what is proved of the service holds beside them; that  *)
(* every end is explained once; that the actions a snapshot offers are     *)
(* ones that the gate and the planner carry out; that the causal chain of  *)
(* a diagnostic stays closed (ChainInv); and that a Session whose World    *)
(* stands still can be shown (ShownInv).                                   *)
(***************************************************************************)
EXTENDS EvidenceProofs, SessionViewBuilder, FiniteSetTheorems

-----------------------------------------------------------------------------
(* The diagnostics are superposed on the service *)

LEMMA DiagnosedSteps == [DiagnosedNext]_diagnosedVars => [Next]_vars
<1> SUFFICES ASSUME [DiagnosedNext]_diagnosedVars PROVE [Next]_vars
  OBVIOUS
<1>1. CASE Deciding
  BY <1>1 DEF Deciding, Next, Background, Refresh
<1>2. CASE Failing
  BY <1>2 DEF Failing, Next, Background, Refresh
<1>3. CASE Interrupting
  BY <1>3 DEF Interrupting, Next
<1>4. CASE Racing
  BY <1>4 DEF Racing, Next, Client
<1>5. CASE RecordCommitRace \/ RaceWriteFails
  BY <1>5 DEF RecordCommitRace, RaceWriteFails
<1>6. CASE Resetting
  BY <1>6 DEF Resetting, Next, Client
<1>7. CASE Stopping
  BY <1>7 DEF Stopping, Next, Environment
<1>8. CASE Quiet
  BY <1>8 DEF Quiet, QuietClient, QuietOwner, QuietEnvironment, Next, Client, Background,
              Refresh, Environment
<1>9. CASE UNCHANGED diagnosedVars
  BY <1>9 DEF diagnosedVars
<1> QED
  BY <1>1, <1>2, <1>3, <1>4, <1>5, <1>6, <1>7, <1>8, <1>9 DEF DiagnosedNext

(* Diagnostics explain decisions and make none: each mutation that records one *)
(* is a mutation of the service, or touches nothing else                       *)
(* (epochguard-service.ts recordCommitRace, safety-diagnostics.ts).  So every  *)
(* theorem of Spec holds of DiagnosedSpec.                                     *)
THEOREM DiagnosticsOnlyExplain == DiagnosedSpec => Spec
<1>1. DiagnosedInit => Init
  BY DEF DiagnosedInit
<1> QED
  BY <1>1, DiagnosedSteps, PTL DEF DiagnosedSpec, Spec

LEMMA InitDiagnosed == DiagnosedInit => BackedInv
  BY InitBacked DEF DiagnosedInit

LEMMA NextDiagnosed == BackedInv /\ [DiagnosedNext]_diagnosedVars => BackedInv'
  BY DiagnosedSteps, NextBacked

-----------------------------------------------------------------------------
(* Ends are explained once *)

IsSequence(s) == \E S : s \in Seq(S)

LEMMA AppendFacts ==
  ASSUME NEW s, IsSequence(s), NEW e
  PROVE  /\ IsSequence(Append(s, e))
         /\ Len(s) \in Nat /\ Len(Append(s, e)) = Len(s) + 1
         /\ DOMAIN s = 1..Len(s) /\ DOMAIN Append(s, e) = 1..(Len(s) + 1)
         /\ \A i \in DOMAIN s : Append(s, e)[i] = s[i]
         /\ Append(s, e)[Len(s) + 1] = e
<1>1. PICK S : s \in Seq(S)
  BY DEF IsSequence
<1> DEFINE T == S \cup {e}
<1>2. s \in Seq(T) /\ e \in T
  <2>1. /\ Len(s) \in Nat /\ DOMAIN s = 1..Len(s)
        /\ \A i \in 1..Len(s) : s[i] \in S
        /\ s = [i \in 1..Len(s) |-> s[i]]
    BY <1>1
  <2>2. [i \in 1..Len(s) |-> s[i]] \in Seq(T)
    BY <2>1
  <2> QED
    BY <2>1, <2>2
<1> HIDE DEF T
<1> QED
  BY <1>2 DEF IsSequence

Explained == IsSequence(diagnostics) /\ EndIsExplained

LEMMA KeepsExplained ==
  ASSUME Explained, diagnostics' = diagnostics, Failed' <=> Failed, Failed => rev' = rev
  PROVE  Explained'
BY DEF Explained, EndIsExplained, Failures

(* A diagnostic that is no failure's goes with a Session that did not fail, *)
(* before and after.                                                        *)
LEMMA ReasonExplained ==
  ASSUME Explained, NEW d, diagnostics' = Append(diagnostics, d),
         d.reason \notin SystemFailure, ~Failed, ~Failed'
  PROVE  Explained'
<1>1. /\ IsSequence(diagnostics')
      /\ Len(diagnostics) \in Nat
      /\ DOMAIN diagnostics = 1..Len(diagnostics)
      /\ DOMAIN diagnostics' = 1..(Len(diagnostics) + 1)
      /\ \A i \in DOMAIN diagnostics : diagnostics'[i] = diagnostics[i]
      /\ diagnostics'[Len(diagnostics) + 1] = d
  BY AppendFacts DEF Explained
<1>2. \A i \in DOMAIN diagnostics : diagnostics[i].reason \notin SystemFailure
  BY DEF Explained, EndIsExplained, Failures
<1>3. \A i \in DOMAIN diagnostics' : diagnostics'[i].reason \notin SystemFailure
  BY <1>1, <1>2
<1> QED
  BY <1>1, <1>3 DEF Explained, EndIsExplained, Failures

(* The step that ends a Session in failure is the one that says why. *)
LEMMA FailureExplained ==
  ASSUME Explained, NEW d, diagnostics' = Append(diagnostics, d),
         d.reason \in SystemFailure, d.rev = rev', ~Failed, Failed'
  PROVE  Explained'
<1>1. /\ IsSequence(diagnostics')
      /\ Len(diagnostics) \in Nat /\ Len(diagnostics') = Len(diagnostics) + 1
      /\ DOMAIN diagnostics = 1..Len(diagnostics)
      /\ DOMAIN diagnostics' = 1..(Len(diagnostics) + 1)
      /\ \A i \in DOMAIN diagnostics : diagnostics'[i] = diagnostics[i]
      /\ diagnostics'[Len(diagnostics) + 1] = d
  BY AppendFacts DEF Explained
<1>2. \A i \in DOMAIN diagnostics : diagnostics[i].reason \notin SystemFailure
  BY DEF Explained, EndIsExplained, Failures
<1>3. {i \in DOMAIN diagnostics' : diagnostics'[i].reason \in SystemFailure} = {Len(diagnostics')}
  BY <1>1, <1>2
<1> QED
  BY <1>1, <1>3 DEF Explained, EndIsExplained, Failures

LEMMA DecidingExplained ==
  ASSUME BackedInv, Explained, Deciding
  PROVE  Explained'
<1>1. PICK tasks, output :
        PersistValidation(tasks, output) \/ PersistRejection(tasks, output)
  BY DEF Deciding, AcceptInitial, AcceptRefresh
<1>2. ~Failed
  BY DEF BackedInv, OwnedInv, OwnerInv, Deciding, AcceptInitial, AcceptRefresh, Failed
<1>3. CASE state' = "FAILED"
  <2> DEFINE d == Naming("OUTPUT_MALFORMED", "PARSE", FirstOf(NewlyRejected))
  <2>1. diagnostics' = Append(diagnostics, d)
    BY <1>3 DEF Deciding, PersistsRejection
  <2>2. d.reason \in SystemFailure /\ d.rev = rev'
    BY DEF Naming, Diagnostic, SystemFailure
  <2> HIDE DEF d
  <2> QED
    BY <1>2, <1>3, <2>1, <2>2, FailureExplained DEF Failed
<1>4. CASE state' # "FAILED"
  <2>1. /\ PersistValidation(tasks, output)
        /\ diagnostics' = diagnostics \o OutcomeDiagnostic(validation')
    BY <1>1, <1>4 DEF Deciding, PersistsValidation, PersistRejection
  <2>2. /\ ~Failed'
        /\ validation'.outcome \in Outcomes
    BY <2>1, OutcomeType DEF PersistValidation, StateFor, Failed
  <2>3. CASE validation'.outcome = "VALID_CURRENT_ALLOW"
    <3>1. diagnostics' = diagnostics
      BY <2>1, <2>3 DEF OutcomeDiagnostic, Explained, IsSequence
    <3> QED
      BY <1>2, <2>2, <3>1, KeepsExplained
  <2>4. CASE validation'.outcome # "VALID_CURRENT_ALLOW"
    <3>1. PICK i, cites : OutcomeDiagnostic(validation') = <<About(validation'.outcome, "VALIDATE", i, cites)>>
      BY <2>4 DEF OutcomeDiagnostic
    <3> DEFINE d == About(validation'.outcome, "VALIDATE", i, cites)
    <3>2. d.reason = validation'.outcome
      BY DEF About, Diagnostic
    <3>3. d.reason \notin SystemFailure
      BY <2>2, <3>2 DEF SystemFailure, Outcomes
    <3> HIDE DEF d
    <3>4. diagnostics' = Append(diagnostics, d)
      BY <2>1, <3>1 DEF Explained, IsSequence, d
    <3> QED
      BY <1>2, <2>2, <3>3, <3>4, ReasonExplained
  <2> QED
    BY <2>3, <2>4
<1> QED
  BY <1>3, <1>4

LEMMA FailingExplained ==
  ASSUME BackedInv, Explained, Failing
  PROVE  Explained'
<1>1. PICK preserve, reported, contradicted :
        /\ FailSession(preserve)
        /\ RecordsFailure(reported, contradicted)
  BY DEF Failing, CloseBeforeJoin, CloseBackgroundFailure, FailRefresh
<1>2. CASE state \in Terminal
  <2>1. diagnostics' = diagnostics /\ UNCHANGED <<state, rev>>
    BY <1>1, <1>2 DEF RecordsFailure, FailSession
  <2> QED
    BY <2>1, KeepsExplained DEF Failed
<1>3. CASE state \notin Terminal
  <2> DEFINE d == FailureOf(Blamed(reported), contradicted)
  <2>1. diagnostics' = Append(diagnostics, d) /\ state' = "FAILED"
    BY <1>1, <1>3 DEF RecordsFailure, FailSession
  <2>2. d.reason \in SystemFailure /\ d.rev = rev'
    BY DEF FailureOf, Naming, Diagnostic, SystemFailure
  <2>3. ~Failed /\ Failed'
    BY <1>3, <2>1 DEF Failed, Terminal
  <2> HIDE DEF d
  <2> QED
    BY <2>1, <2>2, <2>3, FailureExplained
<1> QED
  BY <1>2, <1>3

LEMMA InterruptingExplained ==
  ASSUME Explained, Interrupting
  PROVE  Explained'
<1>1. CASE state \in InFlight
  <2> DEFINE d == Diagnostic("RUN_FAILED", "DISPATCH")
  <2>1. diagnostics' = Append(diagnostics, d) /\ state' = "INTERRUPTED"
    BY <1>1 DEF Interrupting, Restart, RecoverInFlightSession
  <2>2. d.reason \in SystemFailure /\ d.rev = rev'
    BY DEF Diagnostic, SystemFailure
  <2>3. ~Failed /\ Failed'
    BY <1>1, <2>1 DEF Failed, InFlight
  <2> HIDE DEF d
  <2> QED
    BY <2>1, <2>2, <2>3, FailureExplained
<1>2. CASE state \notin InFlight
  <2>1. diagnostics' = diagnostics /\ UNCHANGED <<state, rev>>
    BY <1>2 DEF Interrupting, Restart
  <2> QED
    BY <2>1, KeepsExplained DEF Failed
<1> QED
  BY <1>1, <1>2

LEMMA RacingExplained ==
  ASSUME Explained, Racing \/ RecordCommitRace \/ RaceWriteFails
  PROVE  Explained'
<1>1. CASE Racing
  BY <1>1, KeepsExplained DEF Racing, CommitRace, PermitHeld, Failed
<1>2. CASE RecordCommitRace
  <2> DEFINE d == About("COMMIT_RACE", "COMMIT", Len(validations), FALSE)
  <2>1. UNCHANGED <<state, rev>>
    BY <1>2 DEF RecordCommitRace, vars
  <2>2. CASE RaceRecordable
    <3>1. d.reason \notin SystemFailure
      BY DEF About, Diagnostic, SystemFailure
    <3>2. ~Failed /\ ~Failed'
      BY <2>1, <2>2 DEF RaceRecordable, Failed
    <3>3. diagnostics' = Append(diagnostics, d)
      BY <1>2, <2>2 DEF RecordCommitRace
    <3> HIDE DEF d
    <3> QED
      BY <3>1, <3>2, <3>3, ReasonExplained
  <2>3. CASE ~RaceRecordable
    BY <1>2, <2>1, <2>3, KeepsExplained DEF RecordCommitRace, Failed
  <2> QED
    BY <2>2, <2>3
<1>3. CASE RaceWriteFails
  BY <1>3, KeepsExplained DEF RaceWriteFails, vars, Failed
<1> QED
  BY <1>1, <1>2, <1>3

(* A step that records nothing neither fails a Session nor changes a failed one. *)
LEMMA QuietEnds ==
  ASSUME BackedInv, Quiet, Failed \/ Failed'
  PROVE  UNCHANGED <<state, rev>>
<1>1. CASE QuietClient
  <2>1. state \notin {"FAILED", "INTERRUPTED"}
    BY <1>1 DEF QuietClient, CreateSession, InvalidatePlan, ClaimPlan, Claimable, CommitEffect,
                PermitHeld, BackedInv, OwnedInv, OwnerInv
  <2>2. state' \notin {"FAILED", "INTERRUPTED"}
    BY <1>1 DEF QuietClient, CreateSession, InvalidatePlan, ClaimPlan, CommitEffect
  <2> QED
    BY <2>1, <2>2 DEF Failed
<1>2. CASE QuietOwner
  <2>1. CASE TransitionToCollecting
    BY <2>1 DEF TransitionToCollecting, Failed
  <2>2. CASE ~TransitionToCollecting
    BY <1>2, <2>2 DEF QuietOwner, PackFails, JoinAccepts, JoinRejects, AcceptInitialThrows,
         ReleaseOwnership, CaptureRefreshObservation, CaptureThrows, RefreshPack,
         RefreshRunFailed, AcceptRefreshThrows, pointerVars
  <2> QED
    BY <2>1, <2>2
<1>3. CASE \E t \in Task : DispatchBindPoll(t)
  BY <1>3 DEF DispatchBindPoll, TransitionToDispatching, FailUnbound, BindRunOnce, MirrorRunning,
       MirrorCompleted, MirrorStopped, FailBound, ReturnOutput, RejectCompletedOutput,
       observerUnchanged, pointerVars
<1>4. CASE QuietEnvironment
  BY <1>4 DEF QuietEnvironment, WorldCommit, ObserverWriteFails, BackgroundWriteFails,
       RefreshWriteFails, observerUnchanged, pointerVars
<1> QED
  BY <1>1, <1>2, <1>3, <1>4 DEF Quiet

LEMMA QuietExplained ==
  ASSUME BackedInv, Explained, Quiet
  PROVE  Explained'
<1>1. diagnostics' = diagnostics
  BY DEF Quiet
<1> QED
  BY <1>1, QuietEnds, KeepsExplained DEF Failed

(* Every step that ends a Session in failure says why, once, and none after it *)
(* says more (epochguard-service.ts failSession, recoverInFlightSession,       *)
(* persistRejection): the join, the continuation, the refresh request and the  *)
(* recovery may each try to close a Session.                                   *)
THEOREM EndsAreExplained == DiagnosedSpec => []EndIsExplained
<1> DEFINE Inv == BackedInv /\ Explained
<1>1. DiagnosedInit => Inv
  <2> SUFFICES ASSUME DiagnosedInit PROVE Explained
    BY InitDiagnosed
  <2>1. diagnostics = <<>> /\ state = "NONE"
    BY DEF DiagnosedInit, Init, NoSession
  <2> QED
    BY <2>1 DEF Explained, IsSequence, EndIsExplained, Failures, Failed
<1>2. Inv /\ [DiagnosedNext]_diagnosedVars => Inv'
  <2> SUFFICES ASSUME Inv, [DiagnosedNext]_diagnosedVars PROVE Explained'
    BY NextDiagnosed
  <2>1. CASE Resetting
    <3>1. diagnostics' = <<>> /\ state' = "NONE"
      BY <2>1 DEF Resetting, ResetDemo
    <3> QED
      BY <3>1 DEF Explained, IsSequence, EndIsExplained, Failures, Failed
  <2>2. CASE Stopping
    BY <2>2, KeepsExplained DEF Stopping, Crash, pointerVars, Failed
  <2>3. CASE UNCHANGED diagnosedVars
    BY <2>3, KeepsExplained DEF diagnosedVars, diagnosticVars, vars, Failed
  <2> QED
    BY <2>1, <2>2, <2>3, DecidingExplained, FailingExplained, InterruptingExplained,
       RacingExplained, QuietExplained DEF DiagnosedNext
<1>3. Inv => EndIsExplained
  BY DEF Explained
<1> QED
  BY <1>1, <1>2, <1>3, PTL DEF DiagnosedSpec

-----------------------------------------------------------------------------
(* What a snapshot offers is carried out *)

(* A snapshot offers nothing that a request would be refused for as things are *)
(* (session-view-builder.ts, types.ts snapshot rules, effect-gate.ts,          *)
(* refresh-planner.ts planStillMatches): what the view resolves for display    *)
(* and what the gate and the planner check again agree.                        *)
THEOREM OffersAreHonoured == DiagnosedSpec => []OfferedActionsAreAccepted
<1>1. BackedInv => OfferedActionsAreAccepted
  <2> SUFFICES ASSUME BackedInv, Readable PROVE
        /\ "COMMIT" \in AvailableActions =>
             PermitHeld /\ head = permit.head /\ EvidenceClosure(head)
        /\ "REOBSERVE_INVALID" \in AvailableActions => PlanStillMatches
    BY DEF OfferedActionsAreAccepted
  <2>0. GateResolves /\ JointHolds /\ FollowsRule
    BY DEF Readable, BuilderAccepts, SchemaAccepts
  <2>1. ASSUME "COMMIT" \in AvailableActions
        PROVE  PermitHeld /\ head = permit.head /\ EvidenceClosure(head)
    <3>1. state = "READY_AT_CURRENT_HEAD"
      BY <2>1 DEF AvailableActions
    <3>2. permit.head = head
      BY <2>0, <3>1 DEF GateResolves, PermitAllowed
    <3>3. effects = <<>>
      BY <3>1 DEF BackedInv, PromiseInv, EffectMeansCommitted
    <3>4. PermitHeld
      BY <3>1, <3>3 DEF BackedInv, EvidenceInv, ReadyInv, PermitHeld
    <3>5. EvidenceClosure(permit.head)
      BY <3>1, ReadyEvidence
    <3> QED
      BY <3>2, <3>4, <3>5
  <2>2. ASSUME "REOBSERVE_INVALID" \in AvailableActions
        PROVE  PlanStillMatches
    <3>1. state \in {"BLOCKED_NO_CUT", "HISTORICAL_STALE"}
      BY <2>2 DEF AvailableActions
    <3>2. PlanMatchesRule
      BY <2>0, <3>1 DEF FollowsRule, Authoritative, AuthoritativeRules
    <3>3. state = "BLOCKED_NO_CUT"
      BY <3>1, <3>2 DEF PlanMatchesRule, AuthoritativeRules, Rule
    <3>4. JointState = "NO_CUT"
      BY <2>0, <3>3 DEF FollowsRule, Authoritative, AuthoritativeRules, Rule
    <3>5. ~JointPending
      BY <3>4 DEF JointState
    <3>6. validation.head = head
      BY <2>0, <3>5 DEF JointHolds
    <3> QED
      BY <3>3, <3>6 DEF BackedInv, EvidenceInv, BlockedInv
  <2> QED
    BY <2>1, <2>2
<1> QED
  BY <1>1, InitDiagnosed, NextDiagnosed, PTL DEF DiagnosedSpec

-----------------------------------------------------------------------------
(* Chains stay closed: the records a diagnostic rests on *)

NoCut == "NO_VALID_OBSERVED_WORLD_CUT"

RestsOn(R, r) ==
  LET t == R.decisions[r] IN
  t \in Task /\ RoleOf(t) = r /\ assignment[t] = "CONSUMED"

(* What an outcome says of the intervals and the verdicts it was found for.  *)
Judged(R, intervals) ==
  /\ R.outcome = NoCut =>
       /\ LowerBound(intervals) >= UpperBound(intervals, R.head)
       /\ CurrentInvalidOwners(intervals, R.head) = {Budget}
  /\ R.outcome \in {"VALID_CURRENT_ALLOW", "CONSISTENT_DENY"} =>
       LowerBound(intervals) <= R.head /\ R.head < UpperBound(intervals, R.head)
  /\ R.outcome = "VALID_CURRENT_ALLOW" =>
       \A r \in Roles : decision[R.decisions[r]].verdict = "ALLOW"
  /\ R.outcome = "CONSISTENT_DENY" =>
       \E r \in Roles : decision[R.decisions[r]].verdict = "DENY"

(* A validation's head lies in the World of today, its Decisions were        *)
(* consumed for good, and its intervals are those of their evidence still.   *)
StillHolds(entry) ==
  LET R == entry.record IN
  /\ R \in ValidationRecord
  /\ Prepared <= R.head /\ R.head <= head
  /\ \A r \in Roles : RestsOn(R, r)
  /\ entry.intervals = IntervalsAt(R.decisions, R.head)
  /\ Judged(R, entry.intervals)

Persisted == {validations[i] : i \in DOMAIN validations}

EvidenceLasts == \A entry \in Persisted : StillHolds(entry)

(* At most one validation is of a No-Cut, the first; only after it is there  *)
(* another, of the re-observed evidence.                                     *)
OneOrigin ==
  /\ state \in {"NONE", "DISPATCHING", "COLLECTING"} => validations = <<>>
  /\ state \in {"BLOCKED_NO_CUT", "REOBSERVING"} =>
       Len(validations) = 1 /\ Record(1).outcome = NoCut
  /\ \A i \in DOMAIN validations :
       /\ i = 1 => (Record(i).refreshed <=> Record(i).outcome = NoCut)
       /\ i # 1 => Record(1).outcome = NoCut /\ Record(i).outcome # NoCut
       /\ Record(i).outcome = "HISTORICAL_BUT_STALE_NOW" => ~Record(i).refreshed

(* The plan of the Session is the one built for that No-Cut, and is COMPLETED *)
(* by the Decision that replaced the Budget's.                                *)
PlanRests ==
  /\ PlanStatusCloses
  /\ 1 \in DOMAIN validations /\ Record(1).outcome = NoCut =>
       /\ plan.base = Record(1).base + 1
       /\ plan.head = Record(1).head
       /\ plan.decisions = Record(1).decisions
  /\ \A i \in DOMAIN validations : i # 1 /\ Record(i).refreshed =>
       /\ plan.status = "COMPLETED"
       /\ plan.attempt = Record(i).decisions[Budget]
       /\ {r \in Roles : Record(i).decisions[r] # Record(1).decisions[r]} = {Budget}

LatestIsLast ==
  validation.outcome # "NONE" =>
    Len(validations) \in DOMAIN validations /\ validation = Record(Len(validations))

(* A Session that raced still points to what it had been READY with.         *)
RaceHeld ==
  state = "COMMIT_RACE" =>
    /\ Len(validations) \in DOMAIN validations
    /\ validation = Record(Len(validations))
    /\ current = validation.decisions
    /\ validation.outcome = "VALID_CURRENT_ALLOW"
    /\ validation.head < head
    /\ permit.head = validation.head /\ permit.status = "REVOKED"
    /\ effects = <<>>

BoundKnown == \A t \in Task : assignment[t] \in {"BOUND", "CONSUMED"} => t \in bound

(* What every diagnostic names exists, and is of the kind its reason needs.  *)
Names(d) ==
  /\ d.rev \in Nat /\ d.rev <= rev
  /\ d.task \in Task \cup {None}
  /\ d.validation \in {0} \cup DOMAIN validations
  /\ d.stage = "RUN" => d.task # None
  /\ DirectProvenance(d)
  /\ d.reason \in {NoCut, "CONSISTENT_DENY"} =>
       /\ d.validation \in DOMAIN validations
       /\ Record(d.validation).outcome = d.reason
       /\ d.plan = Record(d.validation).refreshed
  /\ d.reason = "COMMIT_RACE" => state = "COMMIT_RACE" /\ d.validation = Len(validations)

Written == {diagnostics[k] : k \in DOMAIN diagnostics}

NamesHold == \A d \in Written : Names(d)

LinksInv == OneOrigin /\ PlanRests /\ LatestIsLast /\ RaceHeld

ChainInv ==
  /\ BackedInv
  /\ IsSequence(validations) /\ IsSequence(diagnostics)
  /\ EvidenceLasts /\ LinksInv /\ BoundKnown /\ NamesHold

-----------------------------------------------------------------------------
(* Intervals of the past *)

(* After a commit a receipt names the version it named, ended at the commit  *)
(* when it was open and not later.                                           *)
LEMMA CommitEndsVersion ==
  ASSUME LedgerInv, LedgerInv', NEW changes, head' = head + 1,
         versions' = Committed(versions, head + 1, changes),
         NEW r \in Roles, NEW seen \in Receipt, Resolves(versions, r, seen, head)
  PROVE  LET v == VersionOf(versions, r, seen.rev)
             w == VersionOf(versions', r, seen.rev)
         IN  /\ v \in Version /\ w.from = v.from
             /\ w.until = v.until \/ (v.until = Open /\ w.until = head + 1)
<1> DEFINE v == VersionOf(versions, r, seen.rev)
           w == VersionOf(versions', r, seen.rev)
           u == IF r \in DOMAIN changes THEN ClosedAt(v, head + 1) ELSE v
<1>0. head \in Nat /\ versions \in [Roles -> SUBSET Version]
  BY DEF LedgerInv, LedgerTypeOK
<1>1. v \in versions[r] /\ v.from = seen.rev /\ v \in Version
  BY <1>0, ReceiptNamesVersion
<1>2. Resolves(versions', r, seen, head')
  BY <1>0, CommittedResolves
<1>3. w \in versions'[r] /\ w.from = seen.rev
  <2>1. PICK x \in versions'[r] : x.from = seen.rev
    BY <1>2 DEF Resolves
  <2> QED
    BY <2>1 DEF VersionOf
<1> HIDE DEF v, w
<1>4. /\ u \in versions'[r] /\ u.from = v.from
      /\ u.until = v.until \/ (v.until = Open /\ u.until = head + 1)
  <2>1. CASE r \in DOMAIN changes
    <3>1. ClosedAt(v, head + 1) \in versions'[r]
      BY <1>1, <2>1 DEF Committed
    <3>2. /\ ClosedAt(v, head + 1).from = v.from
          /\ ClosedAt(v, head + 1).until = IF v.until = Open THEN head + 1 ELSE v.until
      BY <1>0, <1>1, ClosedAtFacts
    <3> QED
      BY <2>1, <3>1, <3>2
  <2>2. CASE r \notin DOMAIN changes
    BY <1>1, <2>2 DEF Committed
  <2> QED
    BY <2>1, <2>2
<1> HIDE DEF u
<1>5. /\ w \in Version /\ u \in Version
      /\ w = u \/ Disjoint(w, u)
      /\ w.until # Open => w.from < w.until
      /\ u.until # Open => u.from < u.until
  BY <1>3, <1>4 DEF LedgerInv, LedgerTypeOK, HistoryTiles, Tiles, NoOverlap, WithinHistory
<1>6. w = u
  BY <1>1, <1>3, <1>4, <1>5 DEF Disjoint, Version
<1> QED
  BY <1>1, <1>4, <1>6 DEF v, w

(* The interval of a version as of a head is what it was, whatever ends it later. *)
LEMMA LaterEndsDoNotCount ==
  ASSUME NEW v \in Version, NEW w, w.from = v.from, NEW h \in Nat, NEW H \in Nat, h <= H,
         w.until = v.until \/ (v.until = Open /\ w.until = H + 1)
  PROVE  IntervalAt(w, h) = IntervalAt(v, h)
BY DEF IntervalAt, Version, Open

(* The receipts of consumed tasks resolve. *)
LEMMA ConsumedIsObserved ==
  ASSUME BackedInv, state # "NONE", NEW t \in Task, assignment[t] = "CONSUMED"
  PROVE  receipt[t] \in Receipt /\ Observed(RoleOf(t), receipt[t])
<1>0. HeldInv /\ RecordsAgree(t) /\ receipt \in [Task -> Receipt]
  BY DEF BackedInv, EvidenceInv, OwnedInv, RecordInv, TypeOK
<1>1. CASE t \in Roles
  BY <1>0, <1>1, TaskFacts DEF HeldInv
<1>2. CASE t = Reobs
  BY <1>0, <1>2, TaskFacts DEF HeldInv, RecordsAgree
<1> QED
  BY <1>0, <1>1, <1>2 DEF Task

(* The World moves on or stays, and never back. *)
LEMMA HeadsGrow ==
  ASSUME head \in Nat,
         \/ UNCHANGED <<head, versions>>
         \/ \E r \in Roles, value \in Values : WorldCommit(r, value)
  PROVE  head' \in Nat /\ head <= head'
<1>1. CASE UNCHANGED <<head, versions>>
  BY <1>1
<1>2. CASE \E r \in Roles, value \in Values : WorldCommit(r, value)
  <2>1. head' = head + 1
    BY <1>2 DEF WorldCommit, Commit
  <2> QED
    BY <2>1
<1> QED
  BY <1>1, <1>2

(* A commit to the World leaves the intervals of consumed evidence as of any   *)
(* earlier head.                                                               *)
LEMMA CommitKeepsIntervals ==
  ASSUME BackedInv, BackedInv', NEW q \in Roles, NEW value \in Values, WorldCommit(q, value),
         NEW R \in ValidationRecord, R.head <= head, \A r \in Roles : RestsOn(R, r)
  PROVE  IntervalsAt(R.decisions, R.head)' = IntervalsAt(R.decisions, R.head)
<1>0. LedgerInv /\ LedgerInv' /\ head \in Nat /\ R.head \in Nat
  BY DEF BackedInv, PromiseInv, ServiceInv, TypeOK, LedgerInv, LedgerTypeOK, ValidationRecord
<1>1. /\ head' = head + 1
      /\ versions' = Committed(versions, head + 1, [p \in {q} |-> value])
      /\ state # "NONE" /\ receipt' = receipt
  BY DEF WorldCommit, Commit, recordVars
<1>2. ASSUME NEW r \in Roles
      PROVE  IntervalAt(EvidenceOf(R.decisions)[r], R.head)'
               = IntervalAt(EvidenceOf(R.decisions)[r], R.head)
  <2> DEFINE seen == receipt[R.decisions[r]]
             v == VersionOf(versions, r, seen.rev)
             w == VersionOf(versions', r, seen.rev)
  <2>1. seen \in Receipt /\ Resolves(versions, r, seen, head)
    BY <1>1, ConsumedIsObserved DEF RestsOn, Observed
  <2>2. /\ v \in Version /\ w.from = v.from
        /\ w.until = v.until \/ (v.until = Open /\ w.until = head + 1)
    BY <1>0, <1>1, <2>1, CommitEndsVersion
  <2>3. /\ EvidenceOf(R.decisions)[r] = v
        /\ EvidenceOf(R.decisions)'[r] = w
    BY <1>1 DEF EvidenceOf
  <2> HIDE DEF v, w
  <2> QED
    BY <1>0, <2>2, <2>3, LaterEndsDoNotCount DEF IntervalAt
<1> QED
  BY <1>2 DEF IntervalsAt

-----------------------------------------------------------------------------
(* What a step leaves of the records that diagnostics name *)

Lasts(t) ==
  /\ assignment[t] # "NONE" => assignment'[t] # "NONE"
  /\ attempt[t] \in {"FAILED", "INTERRUPTED"} => attempt'[t] = attempt[t]
  /\ assignment[t] = "CONSUMED" =>
       /\ assignment'[t] = "CONSUMED"
       /\ receipt'[t] = receipt[t]
       /\ decision'[t].verdict = decision[t].verdict

LEMMA ObserverLasts ==
  ASSUME OwnedInv, NEW u \in Task, DispatchBindPoll(u) \/ ObserverWriteFails(u), NEW t \in Task
  PROVE  Lasts(t)
<1>0. TypeOK /\ ObserverAgrees(u) /\ UNCHANGED <<receipt, decision>>
  BY DEF OwnedInv, RecordInv, DispatchBindPoll, TransitionToDispatching, FailUnbound,
         BindRunOnce, MirrorRunning, MirrorCompleted, MirrorStopped, FailBound, ReturnOutput,
         RejectCompletedOutput, ObserverWriteFails, observerUnchanged
<1>1. pc[u] \in {"start", "send", "poll", "recheck"}
  BY DEF DispatchBindPoll, TransitionToDispatching, FailUnbound, BindRunOnce,
         MirrorRunning, MirrorCompleted, MirrorStopped, FailBound, ReturnOutput,
         RejectCompletedOutput, ObserverWriteFails, Step
<1>2. /\ assignment[u] \in {"CREATED", "BOUND"}
      /\ attempt[u] \notin {"FAILED", "INTERRUPTED"}
  BY <1>0, <1>1 DEF ObserverAgrees, NotDispatched
<1>3. /\ assignment' = [assignment EXCEPT ![u] = assignment'[u]]
      /\ assignment'[u] \in {assignment[u], "BOUND", "REJECTED"}
      /\ attempt' = [attempt EXCEPT ![u] = attempt'[u]]
  BY <1>0 DEF TypeOK, DispatchBindPoll, TransitionToDispatching, FailUnbound, BindRunOnce,
         MirrorRunning, MirrorCompleted, MirrorStopped, FailBound, ReturnOutput,
         RejectCompletedOutput, ObserverWriteFails, SetAssignment, SetAttempt
<1>4. t = u \/ (assignment'[t] = assignment[t] /\ attempt'[t] = attempt[t])
  BY <1>0, <1>3 DEF TypeOK
<1> QED
  BY <1>0, <1>2, <1>3, <1>4 DEF Lasts

LEMMA AcceptLasts ==
  ASSUME OwnedInv, NEW tasks, Accepting(tasks), NEW output \in [tasks -> Output],
         PersistValidation(tasks, output) \/ PersistRejection(tasks, output),
         UNCHANGED receipt, NEW t \in Task
  PROVE  Lasts(t)
<1> DEFINE accepted == {u \in tasks : output[u] \in Values}
<1>0. TypeOK /\ RecordsAgree(t) /\ decision[t] \in DecisionRecord
  BY DEF OwnedInv, RecordInv, TypeOK
<1>1. Consume(tasks, output) /\ \A u \in tasks : Consumable(u)
  BY DEF PersistValidation, PersistRejection
<1>2. /\ t \notin tasks => assignment'[t] = assignment[t] /\ attempt'[t] = attempt[t]
      /\ t \in tasks => /\ assignment[t] = "BOUND" /\ attempt[t] = "COMPLETED"
                        /\ assignment'[t] \in {"CONSUMED", "REJECTED"}
  BY <1>1 DEF Consume, Consumable
<1>3. decision'[t] = IF t \in accepted THEN [status |-> "ACTIVE", verdict |-> output[t]]
                     ELSE IF \E u \in accepted : current[RoleOf(u)] = t
                       THEN [decision[t] EXCEPT !.status = "SUPERSEDED"]
                     ELSE decision[t]
  BY <1>1 DEF Consume
<1>4. t \notin accepted => decision'[t].verdict = decision[t].verdict
  BY <1>0, <1>3 DEF DecisionRecord
<1> HIDE DEF accepted
<1>5. t \in accepted => t \in tasks
  BY DEF accepted
<1> QED
  BY <1>2, <1>4, <1>5 DEF Lasts

LEMMA FailLasts ==
  ASSUME OwnedInv, NEW preserve, FailSession(preserve), UNCHANGED <<receipt, decision>>,
         state \in Terminal \cup {"DISPATCHING", "COLLECTING", "REOBSERVING"}, NEW t \in Task
  PROVE  Lasts(t)
<1>0. TypeOK /\ SessionInv
  BY DEF OwnedInv
<1>1. CASE state # "REOBSERVING"
  BY <1>1, FailOwned DEF Lasts
<1>2. CASE state = "REOBSERVING"
  <2>1. assignment' = [assignment EXCEPT ![Reobs] = "REJECTED"]
    BY <1>2, FailOwned
  <2>2. assignment[Reobs] # "CONSUMED" /\ ClaimOpen /\ plan.attempt = Reobs
    BY <1>0, <1>2 DEF SessionInv, ClaimHeld, ClaimOpen
  <2>3. CloseClaim(preserve)
    BY <1>2, <2>2 DEF FailSession, Terminal
  <2>4. attempt'[t] = attempt[t] \/ (t = Reobs /\ attempt[t] \notin TerminalAttemptStates)
    BY <1>0, <2>2, <2>3 DEF CloseClaim, SetAttempt, TypeOK
  <2>5. /\ t = Reobs \/ assignment'[t] = assignment[t]
        /\ t = Reobs => assignment'[t] = "REJECTED"
    BY <1>0, <2>1 DEF TypeOK
  <2> QED
    BY <2>2, <2>4, <2>5 DEF Lasts, TerminalAttemptStates
<1> QED
  BY <1>1, <1>2

(* An Assignment and a failed Attempt stay until a reset; what was consumed    *)
(* keeps its receipt and its verdict.                                          *)
LEMMA NextLasts ==
  ASSUME OwnedInv, [Next]_vars, state' # "NONE", NEW t \in Task
  PROVE  Lasts(t)
<1>0. TypeOK /\ OwnerInv /\ SessionInv /\ RecordsAgree(t)
  BY DEF OwnedInv, RecordInv
<1> USE DEF pointerVars, recordVars, processVars, backgroundUnchanged, refreshUnchanged,
            failUnchanged
<1>1. CASE Client
  <2>1. ASSUME NEW s \in Scenarios, CreateSession(s)
        PROVE  Lasts(t)
    BY <1>0, <2>1 DEF SessionInv, CreateSession, RecordsAgree, Lasts
  <2>2. ASSUME NEW expected, ClaimPlan(expected)
        PROVE  Lasts(t)
    <3>1. /\ assignment[Reobs] = "NONE" /\ UNCHANGED <<receipt, decision>>
          /\ assignment' = [assignment EXCEPT ![Reobs] = "CREATED"]
          /\ attempt' = [attempt EXCEPT ![Reobs] = "ASSIGNMENT_CREATED"]
      BY <1>0, <2>2 DEF ClaimPlan, Claimable, SessionInv
    <3>2. t = Reobs \/ (assignment'[t] = assignment[t] /\ attempt'[t] = attempt[t])
      BY <1>0, <3>1 DEF TypeOK
    <3> QED
      BY <1>0, <3>1, <3>2 DEF Lasts, RecordsAgree
  <2>3. ASSUME NEW expected,
               InvalidatePlan(expected) \/ CommitRace(expected) \/ CommitEffect(expected)
        PROVE  Lasts(t)
    BY <2>3 DEF InvalidatePlan, CommitRace, CommitEffect, Lasts
  <2>4. CASE ResetDemo
    BY <2>4 DEF ResetDemo
  <2> QED
    BY <1>1, <2>1, <2>2, <2>3, <2>4 DEF Client
<1>2. CASE Background
  <2>1. CASE CloseBeforeJoin \/ CloseBackgroundFailure
    <3>1. /\ FailSession(FALSE) /\ UNCHANGED <<receipt, decision>>
          /\ state \in Terminal \cup {"DISPATCHING", "COLLECTING"}
      BY <1>0, <2>1
      DEF CloseBeforeJoin, CloseBackgroundFailure, FanOutSettled, OwnerInv, Terminal
    <3> QED
      BY <3>1, FailLasts
  <2>2. CASE JoinRejects
    BY <2>2 DEF JoinRejects, Lasts
  <2>3. CASE AcceptInitial
    <3>1. Accepting(Roles)
      BY <1>0, <2>3 DEF AcceptInitial, OwnerInv, Accepting
    <3> QED
      BY <2>3, <3>1, AcceptLasts DEF AcceptInitial
  <2>4. CASE \/ TransitionToCollecting \/ PackFails \/ JoinAccepts \/ AcceptInitialThrows
             \/ ReleaseOwnership
    BY <2>4 DEF TransitionToCollecting, PackFails, JoinAccepts, AcceptInitialThrows,
                ReleaseOwnership, Lasts
  <2> QED
    BY <1>2, <2>1, <2>2, <2>3, <2>4 DEF Background
<1>3. CASE Refresh
  <2>1. reobs # "idle" => state = "REOBSERVING"
    BY <1>0 DEF OwnerInv
  <2>2. CASE FailRefresh
    BY <2>1, <2>2, FailLasts DEF FailRefresh
  <2>3. CASE AcceptRefresh
    <3>1. Accepting({Reobs})
      BY <2>1, <2>3 DEF AcceptRefresh, Accepting
    <3> QED
      BY <2>3, <3>1, AcceptLasts DEF AcceptRefresh
  <2>4. CASE CaptureRefreshObservation
    <3>1. /\ assignment[Reobs] = "CREATED" /\ UNCHANGED <<assignment, attempt, decision>>
          /\ t = Reobs \/ receipt'[t] = receipt[t]
      BY <1>0, <2>4 DEF CaptureRefreshObservation, TypeOK
    <3> QED
      BY <3>1 DEF Lasts
  <2>5. CASE CaptureThrows \/ RefreshPack \/ RefreshRunFailed \/ AcceptRefreshThrows
    BY <2>5 DEF CaptureThrows, RefreshPack, RefreshRunFailed, AcceptRefreshThrows, Lasts
  <2> QED
    BY <1>3, <2>2, <2>3, <2>4, <2>5 DEF Refresh
<1>4. CASE \E u \in Task : DispatchBindPoll(u) \/ ObserverWriteFails(u)
  BY <1>4, ObserverLasts
<1>5. CASE Restart
  <2>1. CASE state \notin InFlight
    BY <2>1, <1>5 DEF Restart, Lasts
  <2>2. CASE state \in InFlight
    BY <2>2, <1>5 DEF Restart, RecoverInFlightSession, Lasts, ActiveAttemptStates
  <2> QED
    BY <2>1, <2>2
<1>6. CASE Environment
  BY <1>4, <1>6 DEF Environment, Crash, WorldCommit, BackgroundWriteFails, RefreshWriteFails,
                    Lasts
<1>7. CASE UNCHANGED vars
  BY <1>7 DEF vars, Lasts
<1> QED
  BY <1>1, <1>2, <1>3, <1>4, <1>5, <1>6, <1>7 DEF Next

-----------------------------------------------------------------------------
(* What a step leaves of the Session, when it persists no validation *)

Proceeds ==
  \/ Still \/ Collects \/ GivesUp \/ Recovers \/ CaptureRefreshObservation
  \/ \E r \in Roles, value \in Values : WorldCommit(r, value)
  \/ \E expected \in Revisions : InvalidatePlan(expected) \/ ClaimPlan(expected)
  \/ \E expected \in Revisions : CommitRace(expected) \/ CommitEffect(expected)

LEMMA FailingKinds ==
  ASSUME OwnedInv, Failing
  PROVE  Proceeds
<1>0. OwnerInv
  BY DEF OwnedInv
<1>1. PICK preserve :
        /\ FailSession(preserve) /\ failUnchanged /\ reobs' = "idle"
        /\ state \in Terminal \cup {"DISPATCHING", "COLLECTING", "REOBSERVING"}
  <2>1. CASE CloseBeforeJoin \/ CloseBackgroundFailure
    <3>1. /\ FailSession(FALSE) /\ failUnchanged /\ reobs' = reobs
          /\ state \in Terminal \cup {"DISPATCHING", "COLLECTING"}
      BY <1>0, <2>1
      DEF CloseBeforeJoin, CloseBackgroundFailure, FanOutSettled, OwnerInv, Terminal
    <3>2. reobs = "idle"
      BY <1>0, <3>1 DEF OwnerInv, Terminal
    <3> QED
      BY <3>1, <3>2
  <2>2. CASE FailRefresh
    BY <1>0, <2>2 DEF FailRefresh, OwnerInv
  <2> QED
    BY <2>1, <2>2 DEF Failing
<1> QED
  BY <1>1, FailKinds DEF Proceeds

LEMMA QuietKinds ==
  ASSUME OwnedInv, Quiet, ~\E s \in Scenarios : CreateSession(s)
  PROVE  Proceeds
<1>1. CASE QuietClient
  BY <1>1 DEF QuietClient, Proceeds
<1>2. CASE QuietOwner
  <2>1. CASE TransitionToCollecting
    <3>1. Collects
      BY <2>1 DEF OwnedInv, OwnerInv, TransitionToCollecting, recordVars, Collects,
                  backgroundUnchanged
    <3> QED
      BY <3>1 DEF Proceeds
  <2>2. CASE CaptureRefreshObservation
    BY <2>2 DEF Proceeds
  <2>3. CASE \/ PackFails \/ JoinAccepts \/ JoinRejects \/ AcceptInitialThrows
             \/ ReleaseOwnership \/ CaptureThrows \/ RefreshPack \/ RefreshRunFailed
             \/ AcceptRefreshThrows
    <3>1. Still
      BY <2>3 DEF PackFails, JoinAccepts, JoinRejects, AcceptInitialThrows, ReleaseOwnership,
                  CaptureThrows, RefreshPack, RefreshRunFailed, AcceptRefreshThrows,
                  recordVars, backgroundUnchanged, Still
    <3> QED
      BY <3>1 DEF Proceeds
  <2> QED
    BY <1>2, <2>1, <2>2, <2>3 DEF QuietOwner
<1>3. CASE QuietEnvironment \/ \E t \in Task : DispatchBindPoll(t)
  BY <1>3, OtherKinds DEF QuietEnvironment, Environment, Proceeds
<1> QED
  BY <1>1, <1>2, <1>3 DEF Quiet

LEMMA OtherDiagnosedKinds ==
  ASSUME OwnedInv, \/ Interrupting \/ Racing \/ RecordCommitRace \/ RaceWriteFails
                   \/ Stopping \/ UNCHANGED diagnosedVars
  PROVE  Proceeds
<1>1. CASE Racing
  BY <1>1 DEF Racing, Proceeds
<1>2. CASE ~Racing
  <2>1. Restart \/ Environment \/ UNCHANGED vars
    BY <1>2 DEF Interrupting, RecordCommitRace, RaceWriteFails, Stopping, Environment,
                diagnosedVars
  <2> QED
    BY <2>1, OtherKinds DEF Proceeds
<1> QED
  BY <1>1, <1>2

(* The plan afterwards: the one it was, or claimed or given up before it was   *)
(* COMPLETED.                                                                  *)
PlanFollows ==
  /\ plan'.base = plan.base /\ plan'.head = plan.head /\ plan'.decisions = plan.decisions
  /\ plan' = plan \/ (plan.status # "COMPLETED" /\ plan'.status # "COMPLETED")
  /\ PlanStatusCloses => PlanStatusCloses'

Follows ==
  /\ scenario' = scenario /\ rev <= rev'
  /\ \/ UNCHANGED <<head, versions>>
     \/ \E r \in Roles, value \in Values : WorldCommit(r, value)
  /\ PlanFollows
  /\ validation' \in {validation, NoValidation}
  /\ state \in {"NONE", "COMMIT_RACE"} => UNCHANGED <<state, current, validation, permit, effects>>
  /\ \/ state' \in {state, "FAILED", "INTERRUPTED"}
     \/ state = "DISPATCHING" /\ state' = "COLLECTING"
     \/ state = "BLOCKED_NO_CUT" /\ state' \in {"REOBSERVING", "UNSTABLE_WORLD"}
     \/ state = "READY_AT_CURRENT_HEAD" /\ state' = "COMMITTED"
     \/ \E expected \in Revisions : CommitRace(expected)

LEMMA ProceedsFollows ==
  ASSUME BackedInv, Proceeds
  PROVE  Follows
<1>0. /\ TypeOK /\ rev \in Nat /\ plan \in RefreshPlan /\ OwnerInv /\ SessionInv
      /\ None \notin Task
  BY NamesDistinct DEF BackedInv, OwnedInv, TypeOK
<1>1. CASE \/ Still \/ CaptureRefreshObservation
           \/ \E r \in Roles, value \in Values : WorldCommit(r, value)
  <2>1. UNCHANGED <<pointerVars, effects>>
    BY <1>1 DEF Still, CaptureRefreshObservation, WorldCommit
  <2>2. PlanFollows
    BY <2>1 DEF PlanFollows, PlanStatusCloses, pointerVars
  <2>3. UNCHANGED <<head, versions>> \/ \E r \in Roles, value \in Values : WorldCommit(r, value)
    BY <1>1 DEF Still, CaptureRefreshObservation
  <2> QED
    BY <1>0, <2>1, <2>2, <2>3 DEF Follows, pointerVars
<1>2. CASE Collects
  BY <1>0, <1>2 DEF Collects, Follows, PlanFollows, PlanStatusCloses
<1>3. CASE GivesUp
  <2>1. PICK preserve : FailSession(preserve)
    BY <1>3 DEF GivesUp
  <2>2. state \notin Terminal /\ state' = "FAILED" /\ rev' = rev + 1
    BY <1>3, <2>1 DEF GivesUp, FailSession, Terminal
  <2>3. \/ plan' = plan
        \/ /\ plan.status = "CLAIMED"
           /\ plan' = [plan EXCEPT !.status = "INVALIDATED", !.attempt = None, !.active = FALSE]
    <3>1. CASE ClaimOpen
      BY <2>1, <2>2, <3>1 DEF FailSession, CloseClaim, ClaimOpen
    <3>2. CASE ~ClaimOpen
      BY <2>1, <2>2, <3>2 DEF FailSession
    <3> QED
      BY <3>1, <3>2
  <2>4. PlanFollows
    BY <1>0, <2>3 DEF PlanFollows, PlanStatusCloses, RefreshPlan
  <2> QED
    BY <1>0, <1>3, <2>2, <2>4 DEF GivesUp, Follows, Terminal
<1>4. CASE Recovers
  <2>1. plan.active => plan.status = "CLAIMED"
    BY <1>4 DEF Recovers, RecoverInFlightSession, RecoveryAccepts
  <2>2. PlanFollows
    BY <1>0, <1>4, <2>1 DEF Recovers, RecoverInFlightSession, PlanFollows, PlanStatusCloses,
                            RefreshPlan
  <2> QED
    BY <1>0, <1>4, <2>2 DEF Recovers, RecoverInFlightSession, Follows, InFlight
<1>5. ASSUME NEW expected \in Revisions, InvalidatePlan(expected)
      PROVE  Follows
  <2>1. plan.status = "AVAILABLE" /\ state = "BLOCKED_NO_CUT"
    BY <1>0, <1>5 DEF InvalidatePlan, Claimable, OwnerInv
  <2> QED
    BY <1>0, <1>5, <2>1 DEF InvalidatePlan, Follows, PlanFollows, PlanStatusCloses, RefreshPlan
<1>6. ASSUME NEW expected \in Revisions, ClaimPlan(expected)
      PROVE  Follows
  <2>1. plan.status = "AVAILABLE" /\ state = "BLOCKED_NO_CUT"
    BY <1>0, <1>6 DEF ClaimPlan, Claimable, OwnerInv
  <2> QED
    BY <1>0, <1>6, <2>1, TaskFacts
    DEF ClaimPlan, Follows, PlanFollows, PlanStatusCloses, RefreshPlan
<1>7. ASSUME NEW expected \in Revisions, CommitRace(expected) \/ CommitEffect(expected)
      PROVE  Follows
  BY <1>0, <1>7 DEF CommitRace, CommitEffect, PermitHeld, Follows, PlanFollows, PlanStatusCloses
<1> QED
  BY <1>1, <1>2, <1>3, <1>4, <1>5, <1>6, <1>7 DEF Proceeds

-----------------------------------------------------------------------------
(* The parts of the invariant, over steps that persist no validation *)

LEMMA LinksKept ==
  ASSUME ChainInv, Follows, validations' = validations
  PROVE  LinksInv'
<1>0. /\ OneOrigin /\ PlanRests /\ LatestIsLast /\ RaceHeld
      /\ head \in Nat /\ validation.head \in Nat
  BY DEF ChainInv, LinksInv, BackedInv, OwnedInv, TypeOK, LedgerTypeOK, ValidationRecord
<1>1. state' \notin {state, "COMMIT_RACE"} =>
        /\ state' \notin {"NONE", "DISPATCHING", "BLOCKED_NO_CUT"}
        /\ state' = "COLLECTING" => state = "DISPATCHING"
        /\ state' = "REOBSERVING" => state = "BLOCKED_NO_CUT"
  BY DEF Follows, CommitRace
<1>2. OneOrigin'
  BY <1>0, <1>1 DEF OneOrigin, Record
<1>3. PlanRests'
  BY <1>0 DEF PlanRests, Record, Follows, PlanFollows
<1>4. LatestIsLast'
  BY <1>0 DEF LatestIsLast, Record, Follows, NoValidation
<1>5. RaceHeld'
  <2> SUFFICES ASSUME state' = "COMMIT_RACE" PROVE RaceHeld'
    BY DEF RaceHeld
  <2>1. CASE state = "COMMIT_RACE"
    <3>1. head' \in Nat /\ head <= head'
      BY <1>0, HeadsGrow DEF Follows
    <3>2. UNCHANGED <<state, current, validation, permit, effects>>
      BY <2>1 DEF Follows
    <3> QED
      BY <1>0, <2>1, <3>1, <3>2 DEF RaceHeld, Record
  <2>2. CASE state # "COMMIT_RACE"
    <3>1. PICK expected : CommitRace(expected)
      BY <2>2 DEF Follows
    <3>2. /\ state = "READY_AT_CURRENT_HEAD" /\ effects = <<>> /\ head # permit.head
          /\ permit' = [permit EXCEPT !.status = "REVOKED", !.active = FALSE]
          /\ UNCHANGED <<head, current, validation, effects>>
      BY <3>1 DEF CommitRace, PermitHeld
    <3>3. /\ permit.head <= head /\ validation.head = permit.head
          /\ validation.outcome = "VALID_CURRENT_ALLOW" /\ validation.decisions = current
      BY <3>2 DEF ChainInv, BackedInv, EvidenceInv, ReadyInv, ValidationBinds
    <3>4. permit'.head = permit.head /\ permit'.status = "REVOKED"
      BY <3>2 DEF ChainInv, BackedInv, OwnedInv, TypeOK, EffectPermit
    <3>5. validation.head < head
      BY <1>0, <3>2, <3>3
    <3> QED
      BY <1>0, <3>2, <3>3, <3>4, <3>5 DEF RaceHeld, LatestIsLast, Record
  <2> QED
    BY <2>1, <2>2
<1> QED
  BY <1>2, <1>3, <1>4, <1>5 DEF LinksInv

(* What was validated stays what it was found to be, although the World moves  *)
(* on and the Decisions are superseded.                                        *)
LEMMA EvidenceKept ==
  ASSUME BackedInv, BackedInv', \A t \in Task : Lasts(t), scenario' = scenario,
         state # "NONE",
         \/ UNCHANGED <<head, versions>>
         \/ \E r \in Roles, value \in Values : WorldCommit(r, value),
         NEW entry, StillHolds(entry)
  PROVE  StillHolds(entry)'
<1> DEFINE R == entry.record
<1>1. /\ R \in ValidationRecord /\ R.head \in Nat /\ Prepared \in Nat /\ head \in Nat
      /\ Prepared <= R.head /\ R.head <= head
      /\ \A r \in Roles : RestsOn(R, r)
      /\ entry.intervals = IntervalsAt(R.decisions, R.head)
      /\ Judged(R, entry.intervals)
  <2>1. scenario \in Scenarios
    BY DEF BackedInv, EvidenceInv, WorldInv
  <2> QED
    BY <2>1, FixturesPrepared
    DEF StillHolds, ValidationRecord, Prepared, FixtureIsPrepared, BackedInv, OwnedInv, TypeOK,
        LedgerTypeOK
<1> HIDE DEF R
<1>2. Prepared' = Prepared /\ R.head <= head'
  <2>1. head' \in Nat /\ head <= head'
    BY <1>1, HeadsGrow
  <2> QED
    BY <1>1, <2>1 DEF Prepared
<1>3. \A r \in Roles :
        LET t == R.decisions[r] IN
        /\ receipt'[t] = receipt[t] /\ decision'[t].verdict = decision[t].verdict
        /\ RestsOn(R, r)'
  BY <1>1 DEF RestsOn, Lasts
<1>4. IntervalsAt(R.decisions, R.head)' = IntervalsAt(R.decisions, R.head)
  <2>1. CASE UNCHANGED <<head, versions>>
    BY <1>3, <2>1 DEF IntervalsAt, EvidenceOf
  <2>2. CASE \E r \in Roles, value \in Values : WorldCommit(r, value)
    BY <1>1, <2>2, CommitKeepsIntervals
  <2> QED
    BY <2>1, <2>2
<1>5. Judged(R, entry.intervals)'
  BY <1>1, <1>3 DEF Judged
<1> QED
  BY <1>1, <1>2, <1>3, <1>4, <1>5 DEF StillHolds, R

LEMMA NamesKept ==
  ASSUME BackedInv', \A t \in Task : Lasts(t), rev <= rev', rev \in Nat, bound \subseteq bound',
         DOMAIN validations \subseteq DOMAIN validations',
         \A i \in DOMAIN validations : validations'[i] = validations[i],
         state = "COMMIT_RACE" => state' = "COMMIT_RACE" /\ validations' = validations,
         NEW d, Names(d)
  PROVE  Names(d)'
<1>1. d.rev \in Nat /\ d.rev <= rev'
  <2>1. rev' \in Nat
    BY DEF BackedInv, OwnedInv, TypeOK
  <2> QED
    BY <2>1 DEF Names
<1>2. DirectProvenance(d)'
  <2> SUFFICES ASSUME d.task # None PROVE DirectProvenance(d)'
    BY DEF DirectProvenance
  <2>1. d.task \in Task /\ Lasts(d.task)
    BY DEF Names
  <2>2. RecordsAgree(d.task)'
    BY <2>1 DEF BackedInv, OwnedInv, RecordInv
  <2> QED
    BY <2>1, <2>2 DEF Names, DirectProvenance, Lasts, RecordsAgree
<1> QED
  BY <1>1, <1>2 DEF Names, Record

LEMMA BoundKept ==
  ASSUME BackedInv, BackedInv', BoundKnown, DiagnosedNext \/ UNCHANGED diagnosedVars, ~Resetting
  PROVE  BoundKnown' /\ bound \subseteq bound'
<1>0. /\ TypeOK
      /\ \A t \in Task : RecordsAgree(t) /\ RecordsAgree(t)'
  BY DEF BackedInv, OwnedInv, RecordInv
<1> USE DEF pointerVars, recordVars
<1>1. CASE Quiet
  <2>1. UNCHANGED decision /\ bound' = bound \cup {t \in Task : assignment'[t] = "BOUND"}
    <3>1. CASE QuietClient
      BY <1>1, <3>1 DEF Quiet, boundMirrors, QuietClient, CreateSession, InvalidatePlan,
                        ClaimPlan, CommitEffect
    <3>2. CASE QuietOwner
      BY <1>1, <3>2 DEF Quiet, boundMirrors, QuietOwner, TransitionToCollecting, PackFails,
           JoinAccepts, JoinRejects, AcceptInitialThrows, ReleaseOwnership,
           CaptureRefreshObservation, CaptureThrows, RefreshPack, RefreshRunFailed,
           AcceptRefreshThrows
    <3>3. CASE \E t \in Task : DispatchBindPoll(t)
      BY <1>1, <3>3 DEF Quiet, boundMirrors, DispatchBindPoll, TransitionToDispatching,
           FailUnbound, BindRunOnce, MirrorRunning, MirrorCompleted, MirrorStopped, FailBound,
           ReturnOutput, RejectCompletedOutput, observerUnchanged
    <3>4. CASE QuietEnvironment
      BY <1>1, <3>4 DEF Quiet, boundMirrors, QuietEnvironment, WorldCommit, ObserverWriteFails,
           BackgroundWriteFails, RefreshWriteFails, observerUnchanged
    <3> QED
      BY <1>1, <3>1, <3>2, <3>3, <3>4 DEF Quiet
  <2>2. \A t \in Task : assignment'[t] = "CONSUMED" => assignment[t] = "CONSUMED"
    BY <1>0, <2>1 DEF RecordsAgree
  <2> QED
    BY <2>1, <2>2 DEF BoundKnown
<1>2. CASE Deciding
  <2>1. PICK tasks, output : Consume(tasks, output) /\ \A u \in tasks : Consumable(u)
    BY <1>2 DEF Deciding, AcceptInitial, AcceptRefresh, PersistValidation, PersistRejection
  <2>2. \A t \in Task : assignment'[t] \in {"BOUND", "CONSUMED"} =>
          assignment[t] \in {"BOUND", "CONSUMED"}
    BY <2>1 DEF Consume, Consumable
  <2> QED
    BY <1>2, <2>2 DEF BoundKnown, Deciding
<1>3. CASE Failing
  <2>1. PICK preserve : FailSession(preserve)
    BY <1>3 DEF Failing, CloseBeforeJoin, CloseBackgroundFailure, FailRefresh
  <2>2. \A t \in Task : assignment'[t] \in {assignment[t], "REJECTED"}
    BY <1>0, <2>1 DEF FailSession, CloseClaim, SetAssignment, TypeOK
  <2> QED
    BY <1>3, <2>2 DEF BoundKnown, Failing
<1>4. CASE Interrupting
  <2>1. \A t \in Task : assignment'[t] \in {assignment[t], "REJECTED"}
    BY <1>4 DEF Interrupting, Restart, RecoverInFlightSession
  <2> QED
    BY <1>4, <2>1 DEF BoundKnown, Interrupting
<1>5. CASE Racing \/ RecordCommitRace \/ RaceWriteFails \/ Stopping \/ UNCHANGED diagnosedVars
  BY <1>5 DEF Racing, CommitRace, RecordCommitRace, RaceWriteFails, Stopping, Crash, vars,
              diagnosedVars, diagnosticVars, BoundKnown
<1> QED
  BY <1>1, <1>2, <1>3, <1>4, <1>5 DEF DiagnosedNext

-----------------------------------------------------------------------------
(* What a step appends *)

(* The records of every task last over each step but a reset. *)
LEMMA StepLasts ==
  ASSUME BackedInv, [DiagnosedNext]_diagnosedVars, state' = "NONE" => state = "NONE",
         NEW t \in Task
  PROVE  Lasts(t)
<1>1. CASE state = "NONE"
  <2>1. assignment[t] = "NONE" /\ RecordsAgree(t)
    BY <1>1 DEF BackedInv, OwnedInv, SessionInv, RecordInv
  <2> QED
    BY <2>1 DEF RecordsAgree, Lasts
<1>2. CASE state # "NONE"
  BY <1>2, DiagnosedSteps, NextLasts DEF BackedInv
<1> QED
  BY <1>1, <1>2

(* The elements of a sequence, after one more was appended. *)
LEMMA AppendedElements ==
  ASSUME NEW s, IsSequence(s), NEW e
  PROVE  {Append(s, e)[i] : i \in DOMAIN Append(s, e)} = {s[i] : i \in DOMAIN s} \cup {e}
<1>1. /\ Len(s) \in Nat
      /\ DOMAIN s = 1..Len(s) /\ DOMAIN Append(s, e) = 1..(Len(s) + 1)
      /\ \A i \in DOMAIN s : Append(s, e)[i] = s[i]
      /\ Append(s, e)[Len(s) + 1] = e
  BY AppendFacts
<1>2. DOMAIN Append(s, e) = DOMAIN s \cup {Len(s) + 1}
  BY <1>1
<1> QED
  BY <1>1, <1>2

(* The diagnostics stay, or one is appended that names what it has to. *)
Adds ==
  \/ diagnostics' = diagnostics
  \/ \E e : diagnostics' = Append(diagnostics, e) /\ Names(e)'

LEMMA AddsNames ==
  ASSUME IsSequence(diagnostics), \A d \in Written : Names(d)', Adds
  PROVE  IsSequence(diagnostics') /\ NamesHold'
<1>1. CASE diagnostics' = diagnostics
  BY <1>1 DEF NamesHold, Written
<1>2. ASSUME NEW e, diagnostics' = Append(diagnostics, e), Names(e)'
      PROVE  IsSequence(diagnostics') /\ NamesHold'
  <2>1. Written' = Written \cup {e}
    BY <1>2, AppendedElements DEF Written
  <2>2. IsSequence(diagnostics')
    BY <1>2, AppendFacts
  <2> QED
    BY <1>2, <2>1, <2>2 DEF NamesHold
<1> QED
  BY <1>1, <1>2 DEF Adds

LEMMA FirstIsOne ==
  ASSUME NEW tasks, tasks \subseteq Task
  PROVE  FirstOf(tasks) \in tasks \cup {None}
<1>1. CASE tasks = {}
  BY <1>1 DEF FirstOf
<1>2. CASE tasks # {}
  <2>1. \A t \in tasks : InRoleOrder(t) \in {1, 2, 3}
    BY DEF InRoleOrder
  <2>2. \E t \in tasks : \A u \in tasks : InRoleOrder(t) <= InRoleOrder(u)
    <3>1. CASE \E t \in tasks : InRoleOrder(t) = 1
      BY <2>1, <3>1
    <3>2. CASE ~(\E t \in tasks : InRoleOrder(t) = 1) /\ \E t \in tasks : InRoleOrder(t) = 2
      BY <2>1, <3>2
    <3>3. CASE \A t \in tasks : InRoleOrder(t) \notin {1, 2}
      BY <1>2, <2>1, <3>3
    <3> QED
      BY <3>1, <3>2, <3>3
  <2> QED
    BY <1>2, <2>2 DEF FirstOf
<1> QED
  BY <1>1, <1>2

(* A rejection names the first task whose output it rejected. *)
LEMMA RejectionAdds ==
  ASSUME BackedInv', PersistsRejection, bound \subseteq bound'
  PROVE  Adds
<1>1. PICK t : t = FirstOf(NewlyRejected)
  OBVIOUS
<1>2. PICK e : e = Naming("OUTPUT_MALFORMED", "PARSE", t)
  OBVIOUS
<1>3. t \in NewlyRejected \cup {None}
  BY <1>1, FirstIsOne DEF NewlyRejected
<1>4. /\ e.reason = "OUTPUT_MALFORMED" /\ e.stage = "PARSE" /\ e.rev = rev'
      /\ e.validation = 0 /\ e.task = t /\ (e.run => t \in bound)
  BY <1>2 DEF Naming, Diagnostic
<1>5. t # None => t \in Task /\ assignment'[t] # "NONE" /\ attempt'[t] # "NONE"
  <2> SUFFICES ASSUME t # None
               PROVE  t \in Task /\ assignment'[t] # "NONE" /\ attempt'[t] # "NONE"
    OBVIOUS
  <2>1. t \in Task /\ attempt'[t] = "OUTPUT_REJECTED"
    BY <1>3 DEF NewlyRejected
  <2> QED
    BY <2>1 DEF BackedInv, OwnedInv, RecordInv, RecordsAgree
<1>6. rev' \in Nat /\ rev' <= rev'
  <2>1. rev' \in Nat
    BY DEF BackedInv, OwnedInv, TypeOK
  <2> QED
    BY <2>1
<1>7. Names(e)'
  BY <1>4, <1>5, <1>6 DEF Names, DirectProvenance, NoCut
<1> QED
  BY <1>1, <1>2, <1>7 DEF PersistsRejection, Adds

(* The diagnostic of an outcome names the validation that is persisted with it. *)
LEMMA OutcomeAdds ==
  ASSUME BackedInv', PersistsValidation, IsSequence(validations), IsSequence(diagnostics),
         state' # "COMMIT_RACE", validation'.outcome \in Outcomes
  PROVE  Adds
<1>1. PICK R : R = validation'
  OBVIOUS
<1>2. CASE R.outcome = "VALID_CURRENT_ALLOW"
  <2>1. diagnostics' = diagnostics
    BY <1>1, <1>2 DEF PersistsValidation, OutcomeDiagnostic, IsSequence
  <2> QED
    BY <2>1 DEF Adds
<1>3. CASE R.outcome # "VALID_CURRENT_ALLOW"
  <2>1. PICK cites :
          /\ OutcomeDiagnostic(R) = <<About(R.outcome, "VALIDATE", Len(validations) + 1, cites)>>
          /\ R.outcome # "HISTORICAL_BUT_STALE_NOW" => cites = R.refreshed
    BY <1>3 DEF OutcomeDiagnostic
  <2>2. PICK e : e = About(R.outcome, "VALIDATE", Len(validations) + 1, cites)
    OBVIOUS
  <2>3. /\ e.reason = R.outcome /\ e.stage = "VALIDATE" /\ e.rev = rev'
        /\ e.validation = Len(validations) + 1 /\ e.task = None /\ e.plan = cites
    BY <2>2 DEF About, Diagnostic
  <2>4. /\ Len(validations) + 1 \in DOMAIN validations'
        /\ validations'[Len(validations) + 1].record = R
    BY <1>1, AppendFacts DEF PersistsValidation
  <2>5. rev' \in Nat /\ rev' <= rev'
    <3>1. rev' \in Nat
      BY DEF BackedInv, OwnedInv, TypeOK
    <3> QED
      BY <3>1
  <2>6. R.outcome # "COMMIT_RACE"
    BY <1>1 DEF Outcomes
  <2>7. Names(e)'
    BY <1>1, <2>1, <2>3, <2>4, <2>5, <2>6 DEF Names, DirectProvenance, NoCut, Record
  <2>8. diagnostics' = Append(diagnostics, e)
    BY <1>1, <2>1, <2>2 DEF PersistsValidation, IsSequence
  <2> QED
    BY <2>7, <2>8 DEF Adds
<1> QED
  BY <1>2, <1>3

(* Whoever closes a Session blames the Attempt of the claimed plan or a Run of *)
(* its own, and these exist.                                                   *)
LEMMA BlameIsKnown ==
  ASSUME BackedInv, NEW reported \in Task \cup {None},
         \/ reported \in Roles \cup {None} /\ state \in {"DISPATCHING", "COLLECTING"}
         \/ state = "REOBSERVING",
         Blamed(reported) # None
  PROVE  Blamed(reported) \in Task /\ assignment[Blamed(reported)] # "NONE"
<1>0. SessionInv /\ Reobs \in Task /\ Roles \subseteq Task
  BY TaskFacts DEF BackedInv, OwnedInv
<1>1. CASE state = "REOBSERVING"
  BY <1>0, <1>1 DEF SessionInv, ClaimHeld, Blamed, ClaimOpen
<1>2. CASE state \in {"DISPATCHING", "COLLECTING"}
  BY <1>0, <1>2 DEF SessionInv, NothingDecided, NoPlan, Blamed, ClaimOpen
<1> QED
  BY <1>1, <1>2

LEMMA FailingAdds ==
  ASSUME BackedInv, BackedInv', Failing, \A t \in Task : Lasts(t)
  PROVE  Adds
<1>0. OwnerInv /\ Roles \subseteq Task
  BY TaskFacts DEF BackedInv, OwnedInv
<1>1. PICK reported, contradicted :
        /\ reported \in Task \cup {None}
        /\ RecordsFailure(reported, contradicted)
        /\ \/ reported \in Roles \cup {None} /\ state \in {"DISPATCHING", "COLLECTING"}
           \/ state = "REOBSERVING"
           \/ state \in Terminal
  <2>1. CASE CloseBeforeJoin /\ RecordsFailure(FirstOf(AdapterFailures), FALSE)
    <3>1. FirstOf(AdapterFailures) \in Roles \cup {None}
      BY <1>0, FirstIsOne DEF AdapterFailures
    <3>2. state = "COLLECTING"
      BY <1>0, <2>1 DEF CloseBeforeJoin, FanOutSettled, OwnerInv
    <3> QED
      BY <1>0, <2>1, <3>1, <3>2
  <2>2. CASE CloseBackgroundFailure /\ RecordsFailure(None, FALSE)
    BY <1>0, <2>2 DEF CloseBackgroundFailure, OwnerInv, Terminal
  <2>3. CASE FailRefresh /\ RecordsFailure(IF pc[Reobs] = "failed" THEN Reobs ELSE None,
                                           reobs = "failingMismatch")
    <3>1. state = "REOBSERVING"
      BY <1>0, <2>3 DEF FailRefresh, OwnerInv
    <3>2. (IF pc[Reobs] = "failed" THEN Reobs ELSE None) \in Task \cup {None}
      BY TaskFacts
    <3> QED
      BY <2>3, <3>1, <3>2
  <2> QED
    BY <2>1, <2>2, <2>3 DEF Failing
<1>2. CASE state \in Terminal
  BY <1>1, <1>2 DEF RecordsFailure, Adds
<1>3. CASE state \notin Terminal
  <2>1. PICK t : t = Blamed(reported)
    OBVIOUS
  <2>2. PICK e : e = FailureOf(t, contradicted)
    OBVIOUS
  <2>3. t # None => t \in Task /\ assignment[t] # "NONE" /\ Lasts(t)
    BY <1>1, <1>3, <2>1, BlameIsKnown
  <2>4. t # None => assignment'[t] # "NONE" /\ attempt'[t] # "NONE"
    <3> SUFFICES ASSUME t # None PROVE assignment'[t] # "NONE" /\ attempt'[t] # "NONE"
      OBVIOUS
    <3>1. assignment'[t] # "NONE"
      BY <2>3 DEF Lasts
    <3> QED
      BY <2>3, <3>1 DEF BackedInv, OwnedInv, RecordInv, RecordsAgree
  <2>5. /\ e.reason \in SystemFailure /\ e.rev = rev' /\ e.validation = 0 /\ e.task = t
        /\ e.run => t \in bound
        /\ e.stage = "RUN" => EndedInFailure(t)
    BY <2>2 DEF FailureOf, Naming, Diagnostic, SystemFailure
  <2>6. bound' = bound
    BY DEF Failing
  <2>7. rev' \in Nat /\ rev' <= rev'
    <3>1. rev' \in Nat
      BY DEF BackedInv, OwnedInv, TypeOK
    <3> QED
      BY <3>1
  <2>8. Names(e)'
    BY <2>3, <2>4, <2>5, <2>6, <2>7
    DEF Names, DirectProvenance, NoCut, SystemFailure, EndedInFailure
  <2> QED
    BY <1>1, <1>3, <2>1, <2>2, <2>8 DEF RecordsFailure, Adds
<1> QED
  BY <1>2, <1>3

LEMMA InterruptingAdds ==
  ASSUME BackedInv', Interrupting
  PROVE  Adds
<1>1. CASE state \in InFlight
  <2>1. PICK e : e = Diagnostic("RUN_FAILED", "DISPATCH")
    OBVIOUS
  <2>2. rev' \in Nat /\ rev' <= rev'
    <3>1. rev' \in Nat
      BY DEF BackedInv, OwnedInv, TypeOK
    <3> QED
      BY <3>1
  <2>3. Names(e)'
    BY <2>1, <2>2 DEF Diagnostic, Names, DirectProvenance, NoCut
  <2> QED
    BY <1>1, <2>1, <2>3 DEF Interrupting, Adds
<1>2. CASE state \notin InFlight
  BY <1>2 DEF Interrupting, Adds
<1> QED
  BY <1>1, <1>2

LEMMA RaceAdds ==
  ASSUME ChainInv, RecordCommitRace
  PROVE  Adds
<1>1. CASE RaceRecordable
  <2>1. PICK e : e = About("COMMIT_RACE", "COMMIT", Len(validations), FALSE)
    OBVIOUS
  <2>2. UNCHANGED <<rev, state, validations>>
    BY DEF RecordCommitRace, vars
  <2>3. /\ rev \in Nat /\ rev <= rev /\ state = "COMMIT_RACE"
        /\ Len(validations) \in DOMAIN validations
    <3>1. rev \in Nat
      BY DEF ChainInv, BackedInv, OwnedInv, TypeOK
    <3> QED
      BY <1>1, <3>1 DEF RaceRecordable, ChainInv, LinksInv, RaceHeld
  <2>4. /\ e.reason = "COMMIT_RACE" /\ e.stage = "COMMIT" /\ e.rev = rev
        /\ e.validation = Len(validations) /\ e.task = None
    BY <2>1, <2>2 DEF About, Diagnostic
  <2>5. Names(e)'
    BY <2>2, <2>3, <2>4 DEF Names, DirectProvenance, NoCut
  <2> QED
    BY <1>1, <2>1, <2>5 DEF RecordCommitRace, Adds
<1>2. CASE ~RaceRecordable
  BY <1>2 DEF RecordCommitRace, Adds
<1> QED
  BY <1>1, <1>2

-----------------------------------------------------------------------------
(* What an acceptance leaves *)

(* The interval of a version that ends, if it does, by the head.             *)
LEMMA IntervalsOfEvidence ==
  ASSUME LedgerInv, NEW pointers,
         \A r \in Roles : EvidenceOf(pointers)[r] \in versions[r]
  PROVE  /\ head \in Nat /\ IsEvidence(EvidenceOf(pointers), head)
         /\ \A r \in Roles :
              /\ IntervalsAt(pointers, head)[r].from = EvidenceOf(pointers)[r].from
              /\ IntervalsAt(pointers, head)[r].until = EvidenceOf(pointers)[r].until
<1> DEFINE E == EvidenceOf(pointers)
<1>1. \A r \in Roles :
        /\ E[r] \in Version /\ 0 < E[r].from /\ E[r].from <= head
        /\ E[r].until # Open => E[r].from < E[r].until /\ E[r].until <= head
  BY DEF LedgerInv, LedgerTypeOK, HistoryTiles, Tiles, WithinHistory
<1>2. head \in Nat
  BY DEF LedgerInv, LedgerTypeOK
<1>3. \A r \in Roles : IntervalsAt(pointers, head)[r] = IntervalAt(E[r], head)
  BY DEF IntervalsAt
<1> HIDE DEF E
<1>4. IsEvidence(E, head)
  BY <1>1, <1>2 DEF IsEvidence, Version, Open
<1>5. ASSUME NEW r \in Roles
      PROVE  IntervalAt(E[r], head).from = E[r].from /\ IntervalAt(E[r], head).until = E[r].until
  BY <1>1, <1>5 DEF IntervalAt
<1> QED
  BY <1>2, <1>3, <1>4, <1>5 DEF E

(* What the validator says, and why.                                         *)
LEMMA OutcomeJudges ==
  ASSUME NEW evidence, NEW verdict, NEW h \in Nat, IsEvidence(evidence, h)
  PROVE  /\ ValidationOutcome(evidence, verdict, h) \in {"VALID_CURRENT_ALLOW", "CONSISTENT_DENY"} =>
              LowerBound(evidence) <= h /\ h < UpperBound(evidence, h)
         /\ ValidationOutcome(evidence, verdict, h) = "CONSISTENT_DENY" =>
              \E r \in Roles : verdict[r] = "DENY"
<1>1. ValidationOutcome(evidence, verdict, h) \in {"VALID_CURRENT_ALLOW", "CONSISTENT_DENY"} =>
        CurrentInvalidOwners(evidence, h) = {}
  BY DEF ValidationOutcome
<1>2. ValidationOutcome(evidence, verdict, h) = "CONSISTENT_DENY" =>
        \E r \in Roles : verdict[r] = "DENY"
  BY DEF ValidationOutcome
<1> QED
  BY <1>1, <1>2, BoundsAroundHead

(* A validation holds when it is persisted. *)
LEMMA EntryHolds ==
  ASSUME BackedInv, BackedInv', NEW tasks, NEW output \in [tasks -> Output],
         Settles(tasks, output), PersistValidation(tasks, output), NEW entry,
         entry = [record |-> validation', intervals |-> IntervalsAt(validation'.decisions, head)]
  PROVE  StillHolds(entry)'
<1> DEFINE P == Replaced(tasks)
           E == EvidenceOf(P)
           I == IntervalsAt(P, head)
           R == entry.record
           outcome == OutcomeOf(tasks, output)
<1>0. LedgerInv /\ TypeOK /\ TypeOK' /\ state # "NONE" /\ Prepared <= head /\ Prepared' = Prepared
  <2>1. state # "NONE"
    BY DEF Settles, Accepting
  <2> QED
    BY <2>1, HeldAfterAccept DEF BackedInv, PromiseInv, ServiceInv, OwnedInv, TypeOK, LedgerInv,
                                 EvidenceInv, WorldInv
<1>1. /\ R = validation' /\ R \in ValidationRecord
      /\ R.decisions = P /\ R.head = head /\ R.outcome = outcome
      /\ entry.intervals = I
  BY <1>0 DEF PersistValidation, TypeOK
<1>2. UNCHANGED <<head, versions, scenario, receipt>>
  BY DEF Settles
<1>3. \A r \in Roles :
        /\ P[r] \in Task /\ RoleOf(P[r]) = r
        /\ decision'[P[r]].status = "ACTIVE" /\ decision'[P[r]].verdict = E[r].value
        /\ VerdictOf(P, output)[r] = E[r].value
        /\ E[r] \in versions[r]
  BY ValidatedEvidence, AcceptedPointers DEF Settles
<1>4. IntervalsAt(R.decisions, R.head)' = I
  BY <1>1, <1>2 DEF IntervalsAt, EvidenceOf
<1>5. /\ head \in Nat /\ IsEvidence(E, head)
      /\ LowerBound(I) = LowerBound(E)
      /\ UpperBound(I, head) = UpperBound(E, head)
      /\ CurrentInvalidOwners(I, head) = CurrentInvalidOwners(E, head)
  <2>1. /\ head \in Nat /\ IsEvidence(E, head)
        /\ \A r \in Roles : I[r].from = E[r].from /\ I[r].until = E[r].until
    BY <1>0, <1>3, IntervalsOfEvidence
  <2> HIDE DEF E, I
  <2> QED
    BY <2>1, BoundsAgree
<1>6. \A r \in Roles : RestsOn(R, r)'
  <2> SUFFICES ASSUME NEW r \in Roles
               PROVE  /\ R.decisions[r] \in Task /\ RoleOf(R.decisions[r]) = r
                      /\ assignment'[R.decisions[r]] = "CONSUMED"
    BY DEF RestsOn
  <2>1. P[r] \in Task /\ decision'[P[r]].status = "ACTIVE"
    BY <1>3
  <2> HIDE DEF P
  <2>2. assignment'[P[r]] = "CONSUMED"
    BY <2>1 DEF BackedInv, OwnedInv, RecordInv, RecordsAgree
  <2> QED
    BY <1>1, <1>3, <2>2
<1>7. outcome = ValidationOutcome(E, VerdictOf(P, output), head)
  BY DEF OutcomeOf
<1>8. outcome = NoCut => LowerBound(E) >= UpperBound(E, head) /\ CurrentInvalidOwners(E, head) = {Budget}
  BY <1>7, OutcomeMeans DEF PersistValidation, Persistable, PlanBuildable, BudgetOwns, NoCut
<1>9. outcome \in {"VALID_CURRENT_ALLOW", "CONSISTENT_DENY"} =>
         LowerBound(E) <= head /\ head < UpperBound(E, head)
  BY <1>5, <1>7, OutcomeJudges
<1>10. outcome = "VALID_CURRENT_ALLOW" => \A r \in Roles : decision'[P[r]].verdict = "ALLOW"
  <2> SUFFICES ASSUME outcome = "VALID_CURRENT_ALLOW", NEW r \in Roles
               PROVE  decision'[P[r]].verdict = "ALLOW"
    OBVIOUS
  <2>1. VerdictOf(P, output)[r] # "DENY"
    BY <1>7, OutcomeMeans
  <2>2. E[r].value \in Values
    BY <1>0, <1>3 DEF LedgerInv, LedgerTypeOK, Version
  <2> QED
    BY <1>3, <2>1, <2>2 DEF Values
<1>11. outcome = "CONSISTENT_DENY" => \E r \in Roles : decision'[P[r]].verdict = "DENY"
  <2> SUFFICES ASSUME outcome = "CONSISTENT_DENY"
               PROVE  \E r \in Roles : decision'[P[r]].verdict = "DENY"
    OBVIOUS
  <2>1. PICK r \in Roles : VerdictOf(P, output)[r] = "DENY"
    BY <1>5, <1>7, OutcomeJudges
  <2> QED
    BY <1>3, <2>1
<1> HIDE DEF P, E, I, outcome
<1>12. Judged(R, entry.intervals)'
  <2>1. \A r \in Roles : decision'[R.decisions[r]] = decision'[P[r]]
    BY <1>1
  <2> QED
    BY <1>1, <1>5, <1>8, <1>9, <1>10, <1>11, <2>1 DEF Judged
<1>13. Prepared' <= R.head /\ R.head <= head'
  BY <1>0, <1>1, <1>2, <1>5
<1> QED
  BY <1>1, <1>4, <1>6, <1>12, <1>13 DEF StillHolds

(* The initial acceptance makes a plan when it finds a No-Cut, the only outcome *)
(* that it marks as refreshed.                                                *)
LEMMA FirstValidation ==
  ASSUME BackedInv, NEW output \in [Roles -> Output], Settles(Roles, output),
         PersistValidation(Roles, output)
  PROVE  LET outcome == OutcomeOf(Roles, output)
             P == Replaced(Roles)
         IN  /\ outcome \in Outcomes /\ state' = StateFor(outcome)
             /\ validation' = [outcome |-> outcome, base |-> rev + 1, head |-> head,
                               decisions |-> P,
                               refreshed |-> IF outcome = NoCut THEN TRUE ELSE FALSE]
             /\ plan' = IF outcome = NoCut
                          THEN [status |-> "AVAILABLE", active |-> TRUE, base |-> rev + 2,
                                head |-> head, decisions |-> P, attempt |-> None]
                          ELSE NoPlan
<1> DEFINE outcome == OutcomeOf(Roles, output)
<1>0. plan = NoPlan /\ ~ClaimOpen
  BY AcceptanceBegins
<1>1. CASE outcome = NoCut
  BY <1>0, <1>1, OutcomeType DEF PersistValidation, NoCut
<1>2. CASE outcome # NoCut
  BY <1>0, <1>2, OutcomeType DEF PersistValidation, NoCut
<1> QED
  BY <1>1, <1>2

(* The initial acceptance persists the first validation, and with a No-Cut the *)
(* plan that is built for it.                                                  *)
LEMMA LinksBegin ==
  ASSUME ChainInv, NEW output \in [Roles -> Output], Settles(Roles, output),
         PersistValidation(Roles, output), NEW entry, entry.record = validation',
         validations' = Append(validations, entry)
  PROVE  LinksInv'
<1> DEFINE outcome == OutcomeOf(Roles, output)
           P == Replaced(Roles)
<1>0. BackedInv /\ TypeOK /\ rev \in Nat /\ plan = NoPlan /\ ~ClaimOpen
  BY AcceptanceBegins DEF ChainInv, BackedInv, OwnedInv, TypeOK
<1>1. validations' = <<entry>> /\ Len(validations') = 1 /\ DOMAIN validations' = {1}
  <2>1. state = "COLLECTING"
    BY TaskFacts, NamesDistinct DEF Settles, Accepting
  <2>2. validations = <<>>
    BY <2>1 DEF ChainInv, LinksInv, OneOrigin
  <2> QED
    BY <2>2
<1>2. validations'[1].record = validation'
  BY <1>1
<1>3. /\ outcome \in Outcomes /\ state' = StateFor(outcome)
      /\ validation' = [outcome |-> outcome, base |-> rev + 1, head |-> head, decisions |-> P,
                        refreshed |-> IF outcome = NoCut THEN TRUE ELSE FALSE]
      /\ plan' = IF outcome = NoCut
                   THEN [status |-> "AVAILABLE", active |-> TRUE, base |-> rev + 2,
                         head |-> head, decisions |-> P, attempt |-> None]
                   ELSE NoPlan
  BY <1>0, FirstValidation
<1> HIDE DEF outcome, P
<1>4. /\ validation'.outcome = outcome /\ (validation'.refreshed <=> outcome = NoCut)
      /\ state' \in {"READY_AT_CURRENT_HEAD", "BLOCKED_NO_CUT", "CONSISTENT_DENY", "HISTORICAL_STALE"}
      /\ state' = "BLOCKED_NO_CUT" => outcome = NoCut
  BY <1>3 DEF StateFor, NoCut
<1>5. OneOrigin'
  BY <1>1, <1>2, <1>4 DEF OneOrigin, Record, NoCut
<1>6. PlanRests'
  <2>1. PlanStatusCloses'
    BY <1>3 DEF PlanStatusCloses, NoPlan
  <2>2. outcome = NoCut => /\ plan'.base = validation'.base + 1
                           /\ plan'.head = validation'.head
                           /\ plan'.decisions = validation'.decisions
    BY <1>0, <1>3
  <2> QED
    BY <1>1, <1>2, <1>4, <2>1, <2>2 DEF PlanRests, Record
<1>7. LatestIsLast' /\ RaceHeld'
  BY <1>1, <1>2, <1>4 DEF LatestIsLast, RaceHeld, Record
<1> QED
  BY <1>5, <1>6, <1>7 DEF LinksInv

(* The acceptance of the re-observation finds no No-Cut, and completes the plan *)
(* unless the evidence is stale.                                              *)
LEMMA SecondValidation ==
  ASSUME BackedInv, NEW output \in [{Reobs} -> Output], Settles({Reobs}, output),
         PersistValidation({Reobs}, output)
  PROVE  LET outcome == OutcomeOf({Reobs}, output)
             P == Replaced({Reobs})
         IN  /\ outcome \in Outcomes /\ outcome # NoCut /\ state' = StateFor(outcome)
             /\ validation'.outcome = outcome /\ validation'.decisions = P
             /\ validation'.refreshed <=> outcome \in {"VALID_CURRENT_ALLOW", "CONSISTENT_DENY"}
             /\ plan' = IF outcome \in {"VALID_CURRENT_ALLOW", "CONSISTENT_DENY"}
                          THEN [plan EXCEPT !.status = "COMPLETED"] ELSE plan
<1> DEFINE outcome == OutcomeOf({Reobs}, output)
           P == Replaced({Reobs})
<1>0. ClaimOpen /\ ClaimHeld
  BY AcceptanceBegins, TaskFacts, NamesDistinct
<1>1. outcome \in Outcomes /\ outcome # NoCut
  BY <1>0, OutcomeType DEF PersistValidation, Persistable, PlanBuildable, ClaimHeld, NoCut
<1>2. state' = StateFor(outcome) /\ validation'.outcome = outcome /\ validation'.decisions = P
  BY DEF PersistValidation
<1>3. CASE outcome = "VALID_CURRENT_ALLOW"
  <2>1. /\ validation' = [outcome |-> "VALID_CURRENT_ALLOW", base |-> rev + 1, head |-> head,
                          decisions |-> P, refreshed |-> TRUE]
        /\ plan' = [plan EXCEPT !.status = "COMPLETED"]
    BY <1>0, <1>3 DEF PersistValidation
  <2> QED
    BY <1>1, <1>2, <1>3, <2>1
<1>4. CASE outcome = "CONSISTENT_DENY"
  <2>1. /\ validation' = [outcome |-> "CONSISTENT_DENY", base |-> rev + 1, head |-> head,
                          decisions |-> P, refreshed |-> TRUE]
        /\ plan' = [plan EXCEPT !.status = "COMPLETED"]
    BY <1>0, <1>4 DEF PersistValidation
  <2> QED
    BY <1>1, <1>2, <1>4, <2>1
<1>5. CASE outcome = "HISTORICAL_BUT_STALE_NOW"
  <2>1. /\ validation' = [outcome |-> "HISTORICAL_BUT_STALE_NOW", base |-> rev + 1,
                          head |-> head, decisions |-> P, refreshed |-> FALSE]
        /\ plan' = plan
    BY <1>5 DEF PersistValidation
  <2> QED
    BY <1>1, <1>2, <1>5, <2>1
<1> QED
  BY <1>1, <1>3, <1>4, <1>5 DEF Outcomes, NoCut

(* The acceptance of the re-observation persists the second one, and completes *)
(* the plan unless the evidence is stale.                                      *)
LEMMA LinksGoOn ==
  ASSUME ChainInv, NEW output \in [{Reobs} -> Output], Settles({Reobs}, output),
         PersistValidation({Reobs}, output), NEW entry, entry.record = validation',
         validations' = Append(validations, entry)
  PROVE  LinksInv'
<1> DEFINE outcome == OutcomeOf({Reobs}, output)
           P == Replaced({Reobs})
<1>0. /\ BackedInv /\ TypeOK /\ plan \in RefreshPlan /\ LinksInv
      /\ state = "REOBSERVING" /\ ClaimOpen /\ ClaimHeld /\ plan.decisions = current
      /\ Reobs # None
  BY AcceptanceBegins, TaskFacts, NamesDistinct
  DEF ChainInv, BackedInv, OwnedInv, TypeOK
<1>1. /\ Len(validations) = 1 /\ Record(1).outcome = NoCut
      /\ DOMAIN validations = {1} /\ DOMAIN validations' = {1, 2} /\ Len(validations') = 2
      /\ validations'[1] = validations[1] /\ validations'[2] = entry
  <2>1. Len(validations) = 1 /\ Record(1).outcome = NoCut
    BY <1>0 DEF LinksInv, OneOrigin
  <2>2. /\ DOMAIN validations = 1..1 /\ DOMAIN validations' = 1..2 /\ Len(validations') = 2
        /\ \A i \in DOMAIN validations : validations'[i] = validations[i]
        /\ validations'[2] = entry
    <3>1. IsSequence(validations)
      BY DEF ChainInv
    <3>2. /\ DOMAIN validations = 1..Len(validations)
          /\ DOMAIN validations' = 1..(Len(validations) + 1)
          /\ Len(validations') = Len(validations) + 1
          /\ \A i \in DOMAIN validations : validations'[i] = validations[i]
          /\ validations'[Len(validations) + 1] = entry
      BY <3>1, AppendFacts
    <3>3. Len(validations) + 1 = 2
      BY <2>1
    <3> QED
      BY <2>1, <3>2, <3>3
  <2>3. 1..1 = {1} /\ 1..2 = {1, 2}
    OBVIOUS
  <2> QED
    BY <2>1, <2>2, <2>3
<1>2. /\ outcome \in Outcomes /\ outcome # NoCut /\ state' = StateFor(outcome)
      /\ validation'.outcome = outcome /\ validation'.decisions = P
      /\ validation'.refreshed <=> outcome \in {"VALID_CURRENT_ALLOW", "CONSISTENT_DENY"}
      /\ plan' = IF outcome \in {"VALID_CURRENT_ALLOW", "CONSISTENT_DENY"}
                   THEN [plan EXCEPT !.status = "COMPLETED"] ELSE plan
  BY <1>0, SecondValidation
<1>3. {r \in Roles : P[r] # plan.decisions[r]} = {Budget} /\ P[Budget] = Reobs
  <2>1. \A r \in Roles \ {Budget} : P[r] = current[r]
    BY TaskFacts DEF Replaced
  <2>2. P[Budget] = Reobs
    BY TaskFacts DEF Replaced, TaskOf
  <2>3. current[Budget] # Reobs
    BY <1>0, NotYetReobserved, TaskFacts DEF BackedInv
  <2> HIDE DEF P
  <2> QED
    BY <1>0, <2>1, <2>2, <2>3, TaskFacts
<1> HIDE DEF outcome, P
<1>4. /\ plan'.base = plan.base /\ plan'.head = plan.head /\ plan'.decisions = plan.decisions
      /\ plan'.attempt = Reobs
      /\ plan'.status \in {"CLAIMED", "COMPLETED"}
      /\ outcome \in {"VALID_CURRENT_ALLOW", "CONSISTENT_DENY"} => plan'.status = "COMPLETED"
  BY <1>0, <1>2 DEF RefreshPlan, ClaimHeld
<1>5. state' \in {"READY_AT_CURRENT_HEAD", "CONSISTENT_DENY", "HISTORICAL_STALE"}
  BY <1>2 DEF StateFor, NoCut
<1>6. OneOrigin'
  <2>1. Record(1).refreshed <=> Record(1).outcome = NoCut
    BY <1>0, <1>1 DEF LinksInv, OneOrigin
  <2> QED
    BY <1>1, <1>2, <1>5, <2>1 DEF OneOrigin, Record, NoCut
<1>7. PlanRests'
  <2>1. /\ plan.base = Record(1).base + 1 /\ plan.head = Record(1).head
        /\ plan.decisions = Record(1).decisions
    BY <1>0, <1>1 DEF LinksInv, PlanRests
  <2>2. PlanStatusCloses'
    BY <1>0, <1>4 DEF PlanStatusCloses
  <2>3. \A i \in DOMAIN validations' : i # 1 => validations'[i].record = validation'
    BY <1>1
  <2>4. validation'.refreshed =>
          /\ plan'.status = "COMPLETED" /\ plan'.attempt = validation'.decisions[Budget]
          /\ {r \in Roles : validation'.decisions[r] # Record(1).decisions[r]} = {Budget}
    BY <1>2, <1>3, <1>4, <2>1
  <2> QED
    BY <1>1, <1>4, <2>1, <2>2, <2>3, <2>4 DEF PlanRests, Record
<1>8. LatestIsLast' /\ RaceHeld'
  BY <1>1, <1>5 DEF LatestIsLast, RaceHeld, Record
<1> QED
  BY <1>6, <1>7, <1>8 DEF LinksInv

-----------------------------------------------------------------------------
(* Every step keeps the chains *)

(* What a step that deletes nothing does to the diagnostics. *)
LEMMA NamesGoOn ==
  ASSUME ChainInv, BackedInv', [DiagnosedNext]_diagnosedVars, ~Resetting, Adds,
         state' = "NONE" => state = "NONE", rev <= rev',
         DOMAIN validations \subseteq DOMAIN validations',
         \A i \in DOMAIN validations : validations'[i] = validations[i],
         state = "COMMIT_RACE" => state' = "COMMIT_RACE" /\ validations' = validations
  PROVE  IsSequence(diagnostics') /\ NamesHold' /\ BoundKnown'
<1>1. BoundKnown' /\ bound \subseteq bound'
  BY BoundKept DEF ChainInv
<1>2. \A t \in Task : Lasts(t)
  BY StepLasts DEF ChainInv
<1>3. rev \in Nat
  BY DEF ChainInv, BackedInv, OwnedInv, TypeOK
<1>4. \A d \in Written : Names(d)'
  BY <1>1, <1>2, <1>3, NamesKept DEF ChainInv, NamesHold
<1> QED
  BY <1>1, <1>4, AddsNames DEF ChainInv

(* What is persisted lasts, over every step that persists nothing. *)
LEMMA EvidenceGoesOn ==
  ASSUME ChainInv, BackedInv', \A t \in Task : Lasts(t), scenario' = scenario,
         \/ UNCHANGED <<head, versions>>
         \/ \E r \in Roles, value \in Values : WorldCommit(r, value)
  PROVE  \A entry \in Persisted : StillHolds(entry)'
<1> SUFFICES ASSUME NEW entry \in Persisted PROVE StillHolds(entry)'
  OBVIOUS
<1>1. state # "NONE"
  <2>1. \E i : i \in DOMAIN validations
    BY DEF Persisted
  <2> QED
    BY <2>1 DEF ChainInv, LinksInv, OneOrigin
<1>2. StillHolds(entry)
  BY DEF ChainInv, EvidenceLasts
<1> QED
  BY <1>1, <1>2, EvidenceKept DEF ChainInv

LEMMA ProceedingKeeps ==
  ASSUME ChainInv, BackedInv', [DiagnosedNext]_diagnosedVars, ~Resetting, Proceeds, Adds,
         validations' = validations
  PROVE  ChainInv'
<1>1. Follows
  BY ProceedsFollows DEF ChainInv
<1>2. /\ state' = "NONE" => state = "NONE"
      /\ state = "COMMIT_RACE" => state' = "COMMIT_RACE"
      /\ rev <= rev' /\ scenario' = scenario
      /\ \/ UNCHANGED <<head, versions>>
         \/ \E r \in Roles, value \in Values : WorldCommit(r, value)
  <2>1. state' = "NONE" => state = "NONE"
    BY <1>1 DEF Follows, CommitRace
  <2> QED
    BY <1>1, <2>1 DEF Follows
<1>3. IsSequence(diagnostics') /\ NamesHold' /\ BoundKnown'
  BY <1>2, NamesGoOn
<1>4. LinksInv'
  BY <1>1, LinksKept
<1>5. \A t \in Task : Lasts(t)
  BY <1>2, StepLasts DEF ChainInv
<1>6. EvidenceLasts'
  <2>1. \A entry \in Persisted : StillHolds(entry)'
    BY <1>2, <1>5, EvidenceGoesOn
  <2>2. Persisted' = Persisted
    BY DEF Persisted
  <2> QED
    BY <2>1, <2>2 DEF EvidenceLasts
<1> QED
  BY <1>3, <1>4, <1>6 DEF ChainInv

LEMMA CreatingKeeps ==
  ASSUME ChainInv, BackedInv', Quiet, \E s \in Scenarios : CreateSession(s)
  PROVE  ChainInv'
<1>1. /\ state = "NONE" /\ state' = "DISPATCHING" /\ rev' = 1
      /\ UNCHANGED <<validations, diagnostics, plan, validation>>
  BY DEF CreateSession, Quiet
<1>2. validations = <<>> /\ rev = 0 /\ plan = NoPlan /\ validation = NoValidation
  BY <1>1 DEF ChainInv, LinksInv, OneOrigin, BackedInv, OwnedInv, SessionInv, NothingDecided
<1>3. IsSequence(diagnostics') /\ NamesHold' /\ BoundKnown'
  <2>1. DiagnosedNext /\ ~Resetting /\ Adds
    BY <1>1 DEF DiagnosedNext, Resetting, ResetDemo, Adds
  <2>2. rev <= rev'
    BY <1>1, <1>2
  <2> QED
    BY <1>1, <2>1, <2>2, NamesGoOn
<1>4. EvidenceLasts' /\ LinksInv'
  BY <1>1, <1>2 DEF EvidenceLasts, Persisted, LinksInv, OneOrigin, PlanRests, PlanStatusCloses,
                    LatestIsLast, RaceHeld, NoPlan, NoValidation
<1> QED
  BY <1>1, <1>3, <1>4 DEF ChainInv

LEMMA EmptyChains ==
  ASSUME BackedInv, validations = <<>>, diagnostics = <<>>, state = "NONE"
  PROVE  ChainInv
<1>1. /\ plan = NoPlan /\ validation = NoValidation
      /\ \A t \in Task : assignment[t] = "NONE"
  BY DEF BackedInv, OwnedInv, SessionInv, NothingDecided
<1>2. IsSequence(validations) /\ IsSequence(diagnostics)
  BY DEF IsSequence
<1>3. EvidenceLasts /\ NamesHold
  BY DEF EvidenceLasts, Persisted, NamesHold, Written
<1>4. LinksInv /\ BoundKnown
  BY <1>1 DEF LinksInv, OneOrigin, PlanRests, PlanStatusCloses, LatestIsLast, RaceHeld,
              NoPlan, NoValidation, BoundKnown
<1> QED
  BY <1>2, <1>3, <1>4 DEF ChainInv

LEMMA DecidingSettles ==
  ASSUME OwnedInv, Deciding
  PROVE  \E tasks \in {Roles, {Reobs}} : \E output \in [tasks -> Output] : Settles(tasks, output)
<1>0. OwnerInv
  BY DEF OwnedInv
<1>1. CASE AcceptInitial
  <2> PICK output \in [Roles -> Output] :
        PersistValidation(Roles, output) \/ PersistRejection(Roles, output)
    BY <1>1 DEF AcceptInitial
  <2>1. /\ Accepting(Roles) /\ reobs' = "idle"
        /\ UNCHANGED <<head, versions, scenario, receipt, effects>>
    BY <1>0, <1>1 DEF AcceptInitial, OwnerInv, Accepting, backgroundUnchanged
  <2>2. Roles # {Reobs}
    BY TaskFacts, NamesDistinct
  <2>3. Settles(Roles, output)
    BY <2>1, <2>2 DEF Settles
  <2> QED
    BY <2>3
<1>2. CASE AcceptRefresh
  <2> PICK output \in [{Reobs} -> Output] :
        PersistValidation({Reobs}, output) \/ PersistRejection({Reobs}, output)
    BY <1>2 DEF AcceptRefresh
  <2>1. Settles({Reobs}, output)
    BY <1>0, <1>2 DEF AcceptRefresh, Settles, Accepting, OwnerInv
  <2> QED
    BY <2>1
<1> QED
  BY <1>1, <1>2 DEF Deciding

LEMMA DecidingKeeps ==
  ASSUME ChainInv, BackedInv', Deciding
  PROVE  ChainInv'
<1>0. OwnedInv /\ BackedInv /\ rev \in Nat /\ IsSequence(validations) /\ IsSequence(diagnostics)
  BY DEF ChainInv, BackedInv, OwnedInv, TypeOK
<1>1. PICK tasks \in {Roles, {Reobs}} : \E output \in [tasks -> Output] : Settles(tasks, output)
  BY <1>0, DecidingSettles
<1>2. PICK output \in [tasks -> Output] : Settles(tasks, output)
  BY <1>1
<1>3. /\ UNCHANGED <<head, versions, scenario, receipt>>
      /\ state \in {"COLLECTING", "REOBSERVING"}
      /\ PersistValidation(tasks, output) \/ PersistRejection(tasks, output)
  BY <1>2 DEF Settles, Accepting
<1>4. rev <= rev' /\ ~Resetting /\ DiagnosedNext /\ state' \notin {"NONE", "COMMIT_RACE"}
  <2>1. rev' \in {rev + 1, rev + 2}
    BY <1>3 DEF PersistValidation, PersistRejection
  <2>2. state' \notin {"NONE", "COMMIT_RACE"}
    BY <1>3 DEF PersistValidation, PersistRejection, StateFor
  <2> QED
    BY <1>0, <2>1, <2>2 DEF Resetting, ResetDemo, DiagnosedNext
<1>5. \A t \in Task : Lasts(t)
  BY <1>0, <1>4, StepLasts
<1>6. \A entry \in Persisted : StillHolds(entry)'
  BY <1>3, <1>5, EvidenceGoesOn
<1>7. bound \subseteq bound'
  BY DEF Deciding
<1>8. CASE state' = "FAILED"
  <2>1. PersistsRejection /\ UNCHANGED <<validations, validation, plan>>
    <3>1. PersistRejection(tasks, output)
      BY <1>3, <1>8 DEF PersistValidation, StateFor
    <3> QED
      BY <1>8, <3>1 DEF Deciding, PersistsRejection, PersistRejection
  <2>2. IsSequence(diagnostics') /\ NamesHold' /\ BoundKnown'
    BY <1>3, <1>4, <1>7, <2>1, RejectionAdds, NamesGoOn
  <2>3. EvidenceLasts'
    BY <1>6, <2>1 DEF EvidenceLasts, Persisted
  <2>4. LinksInv'
    BY <1>8, <2>1 DEF ChainInv, LinksInv, OneOrigin, PlanRests, PlanStatusCloses, LatestIsLast,
                      RaceHeld, Record
  <2> QED
    BY <1>0, <2>1, <2>2, <2>3, <2>4 DEF ChainInv
<1>9. CASE state' # "FAILED"
  <2>1. PersistsValidation /\ PersistValidation(tasks, output)
    BY <1>3, <1>9 DEF Deciding, PersistRejection
  <2>2. PICK entry : entry = [record |-> validation',
                              intervals |-> IntervalsAt(validation'.decisions, head)]
    OBVIOUS
  <2>3. /\ validations' = Append(validations, entry) /\ entry.record = validation'
        /\ validation'.outcome \in Outcomes
    BY <2>1, <2>2, OutcomeType DEF PersistsValidation, PersistValidation
  <2>4. /\ IsSequence(validations')
        /\ DOMAIN validations \subseteq DOMAIN validations'
        /\ \A i \in DOMAIN validations : validations'[i] = validations[i]
    BY <1>0, <2>3, AppendFacts
  <2>5. IsSequence(diagnostics') /\ NamesHold' /\ BoundKnown'
    BY <1>0, <1>3, <1>4, <2>1, <2>3, <2>4, OutcomeAdds, NamesGoOn
  <2>6. EvidenceLasts'
    <3>1. StillHolds(entry)'
      BY <1>0, <1>2, <2>1, <2>2, EntryHolds
    <3>2. Persisted' = Persisted \cup {entry}
      BY <1>0, <2>3, AppendedElements DEF Persisted
    <3> QED
      BY <1>6, <3>1, <3>2 DEF EvidenceLasts
  <2>7. LinksInv'
    <3>1. CASE tasks = Roles
      BY <1>2, <2>1, <2>3, <3>1, LinksBegin
    <3>2. CASE tasks = {Reobs}
      BY <1>2, <2>1, <2>3, <3>2, LinksGoOn
    <3> QED
      BY <3>1, <3>2
  <2> QED
    BY <2>4, <2>5, <2>6, <2>7 DEF ChainInv
<1> QED
  BY <1>8, <1>9

LEMMA InitChains == DiagnosedInit => ChainInv
<1>1. DiagnosedInit => validations = <<>> /\ diagnostics = <<>> /\ state = "NONE"
  BY DEF DiagnosedInit, Init, NoSession
<1> QED
  BY <1>1, InitDiagnosed, EmptyChains

LEMMA NextChains == ChainInv /\ [DiagnosedNext]_diagnosedVars => ChainInv'
<1> SUFFICES ASSUME ChainInv, [DiagnosedNext]_diagnosedVars PROVE ChainInv'
  OBVIOUS
<1>0. BackedInv /\ OwnedInv /\ BackedInv'
  BY NextDiagnosed DEF ChainInv, BackedInv
<1>1. CASE Resetting
  <2>1. validations' = <<>> /\ diagnostics' = <<>> /\ state' = "NONE"
    BY <1>1 DEF Resetting, ResetDemo
  <2>2. (BackedInv /\ validations = <<>> /\ diagnostics = <<>> /\ state = "NONE" => ChainInv)'
    BY EmptyChains, PTL
  <2> QED
    BY <1>0, <2>1, <2>2
<1>2. CASE Deciding
  BY <1>0, <1>2, DecidingKeeps
<1>3. CASE Quiet /\ \E s \in Scenarios : CreateSession(s)
  BY <1>0, <1>3, CreatingKeeps
<1>4. CASE /\ ~Resetting /\ ~Deciding
           /\ ~(Quiet /\ \E s \in Scenarios : CreateSession(s))
  <2>1. Proceeds
    BY <1>0, <1>4, FailingKinds, QuietKinds, OtherDiagnosedKinds DEF DiagnosedNext
  <2>2. validations' = validations
    BY <1>4 DEF DiagnosedNext, Failing, Interrupting, Racing, RecordCommitRace, RaceWriteFails,
                Stopping, Quiet, diagnosedVars, diagnosticVars
  <2>3. Adds
    <3>1. CASE Failing
      <4>1. \A t \in Task : Lasts(t)
        <5>1. state' = "NONE" => state = "NONE"
          BY <1>0, <2>1, ProceedsFollows DEF Follows, CommitRace
        <5> QED
          BY <1>0, <5>1, StepLasts
      <4> QED
        BY <1>0, <3>1, <4>1, FailingAdds
    <3>2. CASE Interrupting
      BY <1>0, <3>2, InterruptingAdds
    <3>3. CASE RecordCommitRace
      BY <3>3, RaceAdds
    <3>4. CASE Racing \/ RaceWriteFails \/ Stopping \/ Quiet \/ UNCHANGED diagnosedVars
      BY <3>4 DEF Racing, RaceWriteFails, Stopping, Quiet, diagnosedVars, diagnosticVars, Adds
    <3> QED
      BY <1>4, <3>1, <3>2, <3>3, <3>4 DEF DiagnosedNext
  <2> QED
    BY <1>0, <1>4, <2>1, <2>2, <2>3, ProceedingKeeps
<1> QED
  BY <1>1, <1>2, <1>3, <1>4

-----------------------------------------------------------------------------
(* Chains that are kept close *)

(* An interval holds at its head exactly when the version did. *)
LEMMA IntervalHoldsAtHead ==
  ASSUME NEW v \in Version, NEW h \in Nat
  PROVE  Contains(IntervalAt(v, h), h) <=> Contains(v, h)
<1>1. CASE v.until # Open /\ v.until <= h
  BY <1>1 DEF IntervalAt, Contains, Version, Open
<1>2. CASE v.until = Open \/ h < v.until
  BY <1>2 DEF IntervalAt, Contains, Version, Open
<1> QED
  BY <1>1, <1>2 DEF Version, Open

(* What a read derives from a persisted validation is what was recorded.     *)
LEMMA PersistedCloses ==
  ASSUME ChainInv, NEW i \in DOMAIN validations
  PROVE  /\ EvidenceCloses(i)
         /\ validations[i].intervals = IntervalsAt(Record(i).decisions, Record(i).head)
         /\ Judged(Record(i), IntervalsAt(Record(i).decisions, Record(i).head))
         /\ CurrentInvalidOwners(EvidenceOf(Record(i).decisions), Record(i).head) =
              CurrentInvalidOwners(validations[i].intervals, Record(i).head)
<1> DEFINE R == Record(i)
<1>0. BackedInv /\ TypeOK /\ LedgerInv /\ state # "NONE"
  <2>1. state # "NONE"
    BY DEF ChainInv, LinksInv, OneOrigin
  <2> QED
    BY <2>1 DEF ChainInv, BackedInv, OwnedInv, PromiseInv, ServiceInv, TypeOK, LedgerInv
<1>1. /\ R \in ValidationRecord /\ Prepared <= R.head /\ R.head <= head
      /\ \A r \in Roles : RestsOn(R, r)
      /\ validations[i].intervals = IntervalsAt(R.decisions, R.head)
      /\ Judged(R, validations[i].intervals)
  BY DEF ChainInv, EvidenceLasts, Persisted, StillHolds, Record
<1> HIDE DEF R
<1>2. R.head \in Nat /\ Prepared \in Nat
  <2>1. scenario \in Scenarios
    BY <1>0 DEF BackedInv, EvidenceInv, WorldInv
  <2> QED
    BY <1>1, <2>1, FixturesPrepared DEF ValidationRecord, Prepared, FixtureIsPrepared
<1>3. ASSUME NEW r \in Roles
      PROVE  /\ DecisionCloses(r, R.decisions[r], R.head)
             /\ EvidenceOf(R.decisions)[r] \in Version
  <2> DEFINE t == R.decisions[r]
             seen == receipt[t]
  <2>1. t \in Task /\ t # None /\ RoleOf(t) = r /\ assignment[t] = "CONSUMED"
    BY <1>1, NamesDistinct DEF RestsOn
  <2>2. /\ t \in bound /\ attempt[t] = "ACCEPTED"
        /\ decision[t].status \in {"ACTIVE", "SUPERSEDED"}
    <3>1. RecordsAgree(t) /\ t \in bound /\ decision[t] \in DecisionRecord
      BY <2>1 DEF ChainInv, BackedInv, OwnedInv, RecordInv, BoundKnown, TypeOK
    <3> QED
      BY <2>1, <3>1 DEF RecordsAgree, DecisionRecord
  <2>3. seen \in Receipt /\ Observed(r, seen)
    BY <1>0, <2>1, ConsumedIsObserved
  <2>4. EvidenceOf(R.decisions)[r] = VersionOf(versions, r, seen.rev)
    BY DEF EvidenceOf
  <2> HIDE DEF t, seen
  <2>5. LET v == VersionOf(versions, r, seen.rev) IN
        v \in versions[r] /\ v.from = seen.rev /\ Contains(v, seen.at)
    BY <1>0, <2>3, ReceiptNamesVersion DEF Observed
  <2>6. seen.rev <= seen.at /\ seen.at <= Prepared /\ Resolves(versions, r, seen, head)
    BY <2>3, <2>5 DEF Observed, Contains
  <2>7. seen.at <= R.head /\ seen.rev <= R.head
    BY <1>1, <1>2, <2>3, <2>6 DEF Receipt
  <2>8. EvidenceOf(R.decisions)[r] \in Version
    BY <1>0, <2>4, <2>5 DEF LedgerInv, LedgerTypeOK
  <2>9. DecisionCloses(r, t, R.head)
    BY <2>1, <2>2, <2>6, <2>7 DEF DecisionCloses, seen
  <2> QED
    BY <2>8, <2>9 DEF t
<1>4. EvidenceCloses(i)
  BY <1>1, <1>3 DEF EvidenceCloses, Lower, Upper, R
<1>5. CurrentInvalidOwners(EvidenceOf(R.decisions), R.head) =
        CurrentInvalidOwners(validations[i].intervals, R.head)
  <2>1. \A r \in Roles : Contains(validations[i].intervals[r], R.head) <=>
                           Contains(EvidenceOf(R.decisions)[r], R.head)
    BY <1>1, <1>2, <1>3, IntervalHoldsAtHead DEF IntervalsAt
  <2> QED
    BY <2>1 DEF CurrentInvalidOwners
<1> QED
  BY <1>1, <1>4, <1>5 DEF R

(* The plan that a diagnostic cites is the one of the first validation.      *)
LEMMA OriginCloses ==
  ASSUME ChainInv, 1 \in DOMAIN validations, Record(1).outcome = NoCut, NEW d, d.plan
  PROVE  OriginPlanCloses(d, 1)
<1>1. /\ Record(1).refreshed
      /\ plan.base = Record(1).base + 1 /\ plan.head = Record(1).head
      /\ plan.decisions = Record(1).decisions
      /\ PlanStatusCloses
  BY DEF ChainInv, LinksInv, OneOrigin, PlanRests
<1>2. CurrentInvalidOwners(EvidenceOf(Record(1).decisions), Record(1).head) = {Budget}
  BY PersistedCloses DEF Judged
<1> QED
  BY <1>1, <1>2 DEF OriginPlanCloses

LEMMA CertificatesClose ==
  ASSUME ChainInv, NEW i \in DOMAIN validations,
         Record(i).outcome \in {"VALID_CURRENT_ALLOW", "CONSISTENT_DENY"}
  PROVE  EvidenceCloses(i) /\ CertificateCloses(i)
<1>1. /\ EvidenceCloses(i)
      /\ validations[i].intervals = IntervalsAt(Record(i).decisions, Record(i).head)
      /\ Lower(i) <= Record(i).head /\ Record(i).head < Upper(i)
  BY PersistedCloses DEF Judged, Lower, Upper
<1> QED
  BY <1>1 DEF CertificateCloses

LEMMA BlockingCloses ==
  ASSUME ChainInv, NEW d \in Written, d.reason = NoCut
  PROVE  NoCutCloses(d, d.validation)
<1>1. /\ d.validation \in DOMAIN validations
      /\ Record(d.validation).outcome = NoCut
      /\ d.plan = Record(d.validation).refreshed
  BY DEF ChainInv, NamesHold, Names
<1>2. d.validation = 1 /\ Record(1).refreshed
  BY <1>1 DEF ChainInv, LinksInv, OneOrigin
<1>3. OriginPlanCloses(d, 1)
  BY <1>1, <1>2, OriginCloses
<1>4. EvidenceCloses(1) /\ Lower(1) >= Upper(1)
  BY <1>1, <1>2, PersistedCloses DEF Judged, Lower, Upper
<1> QED
  BY <1>1, <1>2, <1>3, <1>4 DEF NoCutCloses, NoCut

LEMMA RaceCloses ==
  ASSUME ChainInv, NEW d \in Written, d.reason = "COMMIT_RACE"
  PROVE  CommitRaceCloses(d, d.validation)
<1>1. state = "COMMIT_RACE" /\ d.validation = Len(validations)
  BY DEF ChainInv, NamesHold, Names
<1>2. RaceHeld
  BY DEF ChainInv, LinksInv
<1> DEFINE i == d.validation
<1>3. /\ i \in DOMAIN validations
      /\ validation = Record(i) /\ current = Record(i).decisions
      /\ Record(i).outcome = "VALID_CURRENT_ALLOW" /\ Record(i).head < head
      /\ permit.head = Record(i).head /\ permit.status = "REVOKED"
      /\ effects = <<>>
  BY <1>1, <1>2 DEF RaceHeld
<1> HIDE DEF i
<1>4. EvidenceCloses(i) /\ CertificateCloses(i)
  BY <1>3, CertificatesClose
<1>5. \A r \in Roles : decision[Record(i).decisions[r]].verdict = "ALLOW"
  BY <1>3, PersistedCloses DEF Judged
<1>6. RaceIsTheSessions(i)
  BY <1>1, <1>3 DEF RaceIsTheSessions
<1> QED
  BY <1>3, <1>4, <1>5, <1>6 DEF CommitRaceCloses, i

LEMMA DenialCloses ==
  ASSUME ChainInv, NEW d \in Written, d.reason = "CONSISTENT_DENY"
  PROVE  ConsistentDenyCloses(d, d.validation)
<1> DEFINE i == d.validation
<1>1. /\ i \in DOMAIN validations
      /\ Record(i).outcome = "CONSISTENT_DENY"
      /\ d.plan = Record(i).refreshed
  BY DEF ChainInv, NamesHold, Names
<1> HIDE DEF i
<1>2. EvidenceCloses(i) /\ CertificateCloses(i)
  BY <1>1, CertificatesClose
<1>3. \E r \in Roles : decision[Record(i).decisions[r]].verdict = "DENY"
  BY <1>1, PersistedCloses DEF Judged
<1>4. ASSUME Record(i).refreshed
      PROVE  Cardinality(Origins) = 1 /\ \A j \in Origins : RefreshCloses(d, i, j)
  <2>1. OneOrigin /\ PlanRests
    BY DEF ChainInv, LinksInv
  <2>2. i # 1 /\ Record(1).outcome = NoCut
    BY <1>1, <1>4, <2>1 DEF OneOrigin, NoCut
  <2>3. 1 \in DOMAIN validations
    <3>1. DOMAIN validations = 1..Len(validations) /\ Len(validations) \in Nat
      BY AppendFacts DEF ChainInv
    <3> QED
      BY <1>1, <3>1
  <2>4. Record(1).refreshed
    BY <2>1, <2>2, <2>3 DEF OneOrigin
  <2>5. Origins = {1}
    BY <2>1, <2>2, <2>3, <2>4 DEF OneOrigin, Origins, NoCut
  <2>6. Cardinality(Origins) = 1
    BY <2>5, FS_Singleton
  <2>7. EvidenceCloses(1) /\ OriginPlanCloses(d, 1)
    BY <1>1, <1>4, <2>2, <2>3, PersistedCloses, OriginCloses
  <2>8. /\ plan.status = "COMPLETED" /\ plan.attempt = Record(i).decisions[Budget]
        /\ {r \in Roles : Record(i).decisions[r] # Record(1).decisions[r]} = {Budget}
    BY <1>1, <1>4, <2>1, <2>2 DEF PlanRests
  <2>9. RefreshCloses(d, i, 1)
    BY <2>7, <2>8 DEF RefreshCloses
  <2> QED
    BY <2>5, <2>6, <2>9
<1>5. CASE Record(i).refreshed
  BY <1>1, <1>2, <1>3, <1>4, <1>5 DEF ConsistentDenyCloses, i
<1>6. CASE ~Record(i).refreshed
  BY <1>1, <1>2, <1>3, <1>6 DEF ConsistentDenyCloses, i
<1> QED
  BY <1>5, <1>6

LEMMA ChainsClose == ChainInv => DiagnosticsStayClosed
<1> SUFFICES ASSUME ChainInv, NEW k \in DOMAIN diagnostics,
                    diagnostics[k].reason # "HISTORICAL_BUT_STALE_NOW"
             PROVE  Closes(diagnostics[k])
  BY DEF DiagnosticsStayClosed
<1> DEFINE d == diagnostics[k]
<1>1. d \in Written /\ Names(d) /\ d.reason # "HISTORICAL_BUT_STALE_NOW"
  BY DEF ChainInv, NamesHold, Written
<1> HIDE DEF d
<1>2. ReasonCloses(d)
  <2>1. CASE d.reason = NoCut
    BY <1>1, <2>1, BlockingCloses DEF ReasonCloses, NoCut
  <2>2. CASE d.reason = "COMMIT_RACE"
    BY <1>1, <2>2, RaceCloses DEF ReasonCloses
  <2>3. CASE d.reason = "CONSISTENT_DENY"
    BY <1>1, <2>3, DenialCloses DEF ReasonCloses
  <2>4. CASE d.reason \notin {NoCut, "COMMIT_RACE", "CONSISTENT_DENY"}
    BY <1>1, <2>4 DEF ReasonCloses, NoCut
  <2> QED
    BY <2>1, <2>2, <2>3, <2>4
<1> QED
  BY <1>1, <1>2 DEF Closes, Names, d

(* A chain of records that was complete when its diagnostic was written stays  *)
(* complete (safety-diagnostics.ts, which rebuilds it at every read;           *)
(* epochguard-service.ts persistValidation, failSession, recordCommitRace,     *)
(* which write its parts in mutations of their own): no claim, re-observation, *)
(* commit, crash, recovery or later failure takes away or changes a record     *)
(* that a diagnostic names, whatever the World becomes meanwhile.              *)
THEOREM ChainsStayClosed == DiagnosedSpec => []DiagnosticsStayClosed
BY InitChains, NextChains, ChainsClose, PTL DEF DiagnosedSpec

-----------------------------------------------------------------------------
(* Steady Sessions are shown: what a Session points to in each of its states *)

OutcomesOf(s) ==
  CASE s \in {"BLOCKED_NO_CUT", "REOBSERVING", "UNSTABLE_WORLD"} -> {NoCut}
    [] s \in {"READY_AT_CURRENT_HEAD", "COMMITTED", "COMMIT_RACE"} -> {"VALID_CURRENT_ALLOW"}
    [] s = "CONSISTENT_DENY" -> {"CONSISTENT_DENY"}
    [] s = "HISTORICAL_STALE" -> {"HISTORICAL_BUT_STALE_NOW"}
    [] s = "FAILED" -> {"NONE", NoCut}
    [] OTHER -> {"NONE"}

OutcomeFits ==
  /\ validation.outcome \in OutcomesOf(state)
  /\ validation.outcome # "NONE" =>
       validation.decisions = current /\ \A r \in Roles : current[r] # None

ReobservationOnly == [NoAttempts EXCEPT ![Budget] = Reobs]

(* An Attempt is pointed to while it is at work, and the one that ended a    *)
(* claimed plan for as long as the plan is.                                  *)
ActiveFits ==
  /\ \A r \in Roles : active[r] # None =>
       RoleOf(active[r]) = r /\ assignment[active[r]] \notin {"NONE", "CONSUMED"}
  /\ state \notin InFlight =>
       active = IF state = "FAILED" /\ ClaimOpen THEN ReobservationOnly ELSE NoAttempts

PlanFits ==
  /\ plan.active <=> plan.status \in {"AVAILABLE", "CLAIMED", "COMPLETED"}
  /\ plan.status = "CLAIMED" => state \in {"REOBSERVING", "FAILED", "HISTORICAL_STALE"}
  /\ plan.status = "COMPLETED" =>
       state \in {"CONSISTENT_DENY", "READY_AT_CURRENT_HEAD", "COMMITTED", "COMMIT_RACE"}
  /\ plan.status \in {"CLAIMED", "COMPLETED"} =>
       plan.attempt = Reobs /\ assignment[Reobs] # "NONE"
  /\ state \in {"CONSISTENT_DENY", "READY_AT_CURRENT_HEAD", "COMMITTED"}
       /\ assignment[Reobs] # "NONE" => plan.status = "COMPLETED"
  /\ plan.active => 1 \in DOMAIN validations /\ Record(1).outcome = NoCut

(* The latest diagnostic is that of the contradicted verdict.                *)
ContradictionNamed ==
  /\ diagnostics # <<>>
  /\ LET d == diagnostics[Len(diagnostics)] IN
     d.stage = "VALIDATE" /\ d.reason = "DECISION_INVALID" /\ d.task = Reobs /\ d.run

(* How a re-observation that failed leaves its Attempt.                      *)
ClaimClosed ==
  state = "FAILED" =>
    /\ plan.status = "CLAIMED" =>
         /\ validation.outcome = NoCut
         /\ \/ attempt[Reobs] \in TerminalAttemptStates
            \/ attempt[Reobs] = "COMPLETED" /\ ContradictionNamed
    /\ validation.outcome = NoCut =>
         \/ plan.status = "CLAIMED"
         \/ assignment[Reobs] = "REJECTED" /\ attempt[Reobs] \in {"QUEUED", "RUNNING"}

Awaited == reobs = "failingMismatch" => pc[Reobs] = "ok"

GateFits == permit.status = "CONSUMED" => state = "COMMITTED"

StaleNamed ==
  \A d \in Written : d.reason = "HISTORICAL_BUT_STALE_NOW" => state = "HISTORICAL_STALE"

ShownInv ==
  /\ ChainInv
  /\ OutcomeFits /\ ActiveFits /\ PlanFits /\ ClaimClosed
  /\ Awaited /\ GateFits /\ StaleNamed

-----------------------------------------------------------------------------
(* The records of the re-observation outside of it *)

LEMMA ReobsRests ==
  ASSUME OwnedInv, [Next]_vars, state # "REOBSERVING", state' # "NONE",
         ~\E expected \in Revisions : ClaimPlan(expected)
  PROVE  assignment'[Reobs] = assignment[Reobs] /\ attempt'[Reobs] = attempt[Reobs]
<1>0. /\ TypeOK /\ OwnerInv /\ SessionInv
      /\ reobs = "idle" /\ pc[Reobs] = "idle"
      /\ Reobs \in Task /\ Reobs \notin Roles
  BY TaskFacts, NamesDistinct DEF OwnedInv, OwnerInv, ObserverInv
<1>1. ASSUME NEW t \in Task, DispatchBindPoll(t)
      PROVE  assignment'[Reobs] = assignment[Reobs] /\ attempt'[Reobs] = attempt[Reobs]
  <2>1. t # Reobs
    BY <1>0, <1>1
    DEF DispatchBindPoll, TransitionToDispatching, FailUnbound, BindRunOnce, MirrorRunning,
        MirrorCompleted, MirrorStopped, FailBound, ReturnOutput, RejectCompletedOutput, Step
  <2> QED
    BY <1>0, <1>1, <2>1
    DEF DispatchBindPoll, TransitionToDispatching, FailUnbound, BindRunOnce, MirrorRunning,
        MirrorCompleted, MirrorStopped, FailBound, ReturnOutput, RejectCompletedOutput,
        SetAttempt, SetAssignment, TypeOK
<1>2. CASE Background
  <2>1. CASE CloseBeforeJoin \/ CloseBackgroundFailure
    <3>1. state \in Terminal \cup {"DISPATCHING", "COLLECTING"} /\ FailSession(FALSE)
      BY <1>0, <2>1 DEF CloseBeforeJoin, CloseBackgroundFailure, FanOutSettled, OwnerInv, Terminal
    <3>2. state \notin Terminal => ~ClaimOpen
      BY <1>0, <3>1 DEF SessionInv, NothingDecided, NoPlan, ClaimOpen
    <3> QED
      BY <3>1, <3>2 DEF FailSession
  <2>2. CASE AcceptInitial
    <3>1. PICK output : Consume(Roles, output)
      BY <2>2 DEF AcceptInitial, PersistValidation, PersistRejection
    <3> QED
      BY <1>0, <3>1 DEF Consume
  <2>3. CASE JoinRejects
    BY <1>0, <2>3 DEF JoinRejects
  <2>4. CASE \/ TransitionToCollecting \/ PackFails \/ JoinAccepts
             \/ AcceptInitialThrows \/ ReleaseOwnership
    BY <2>4 DEF TransitionToCollecting, PackFails, JoinAccepts, AcceptInitialThrows,
                ReleaseOwnership, recordVars
  <2> QED
    BY <1>2, <2>1, <2>2, <2>3, <2>4 DEF Background
<1>3. CASE Refresh
  BY <1>0, <1>3 DEF Refresh, CaptureRefreshObservation, CaptureThrows, RefreshPack,
                    RefreshRunFailed, AcceptRefresh, AcceptRefreshThrows, FailRefresh
<1>4. CASE Restart
  <2>1. CASE state \in InFlight
    <3>1. active = [r \in Roles |-> r]
      BY <1>0, <2>1 DEF InFlight, SessionInv
    <3>2. Reobs \notin Referenced
      BY <1>0, <3>1 DEF Referenced
    <3> QED
      BY <1>0, <1>4, <2>1, <3>2 DEF Restart, RecoverInFlightSession
  <2> QED
    BY <1>4, <2>1 DEF Restart
<1>5. CASE Client
  <2>1. CASE \E s \in Scenarios : CreateSession(s)
    <3>1. assignment[Reobs] = "NONE" /\ RecordsAgree(Reobs)
      BY <1>0, <2>1 DEF CreateSession, SessionInv, OwnedInv, RecordInv
    <3> QED
      BY <1>0, <2>1, <3>1 DEF CreateSession, RecordsAgree
  <2> QED
    BY <1>5, <2>1 DEF Client, InvalidatePlan, CommitRace, CommitEffect, ResetDemo, recordVars
<1>6. CASE Environment \/ UNCHANGED vars
  BY <1>6 DEF Environment, Crash, WorldCommit, ObserverWriteFails, BackgroundWriteFails,
              RefreshWriteFails, recordVars, vars
<1> QED
  BY <1>1, <1>2, <1>3, <1>4, <1>5, <1>6 DEF Next

(* The refresh request waits for nothing else once a verdict was contradicted. *)
LEMMA AwaitedKept ==
  ASSUME OwnedInv, Awaited, [Next]_vars
  PROVE  Awaited'
<1>0. TypeOK /\ Reobs \in Task /\ Reobs \notin Roles
  BY TaskFacts, NamesDistinct DEF OwnedInv
<1> SUFFICES ASSUME reobs' = "failingMismatch" PROVE pc'[Reobs] = "ok"
  BY DEF Awaited
<1>1. ASSUME NEW t \in Task, DispatchBindPoll(t) \/ ObserverWriteFails(t)
      PROVE  pc'[Reobs] = "ok"
  <2>1. /\ reobs' = reobs
        /\ \E from, to : from \in {"start", "send", "poll", "recheck"} /\ Step(t, from, to)
    BY <1>1
    DEF DispatchBindPoll, TransitionToDispatching, FailUnbound, BindRunOnce, MirrorRunning,
        MirrorCompleted, MirrorStopped, FailBound, ReturnOutput, RejectCompletedOutput,
        ObserverWriteFails, observerUnchanged
  <2>2. pc[Reobs] = "ok"
    BY <2>1 DEF Awaited
  <2> QED
    BY <1>0, <2>1, <2>2 DEF Step, TypeOK
<1>2. CASE Background
  BY <1>0, <1>2
  DEF Background, TransitionToCollecting, PackFails, CloseBeforeJoin, JoinAccepts, JoinRejects,
      AcceptInitial, AcceptInitialThrows, CloseBackgroundFailure, ReleaseOwnership,
      backgroundUnchanged, Awaited
<1>3. CASE Refresh
  BY <1>0, <1>3
  DEF Refresh, CaptureRefreshObservation, CaptureThrows, RefreshPack, RefreshRunFailed,
      AcceptRefresh, AcceptRefreshThrows, FailRefresh, Awaited
<1>4. CASE Client
  BY <1>0, <1>4
  DEF Client, CreateSession, InvalidatePlan, ClaimPlan, CommitRace, CommitEffect, ResetDemo,
      processVars, Awaited
<1>5. CASE Restart \/ Crash \/ BackgroundWriteFails \/ RefreshWriteFails
  BY <1>0, <1>5
  DEF Restart, Crash, BackgroundWriteFails, RefreshWriteFails, Awaited
<1>6. CASE UNCHANGED vars \/ \E r \in Roles, value \in Values : WorldCommit(r, value)
  BY <1>6 DEF WorldCommit, processVars, vars, Awaited
<1> QED
  BY <1>1, <1>2, <1>3, <1>4, <1>5, <1>6 DEF Next, Environment

-----------------------------------------------------------------------------
(* What the steps leave of it *)

StateFits == OutcomeFits /\ ActiveFits /\ PlanFits /\ ClaimClosed /\ GateFits

(* While nothing is decided a Session points to nothing but its Attempts. *)
LEMMA UndecidedFits ==
  ASSUME SessionInv, state \in {"NONE", "DISPATCHING", "COLLECTING"}
  PROVE  OutcomeFits /\ PlanFits /\ ClaimClosed /\ GateFits
<1>1. plan = NoPlan /\ permit = NoPermit /\ validation = NoValidation
  BY DEF SessionInv, NothingDecided
<1> QED
  BY <1>1 DEF OutcomeFits, OutcomesOf, PlanFits, ClaimClosed, GateFits, NoPlan, NoPermit,
              NoValidation

LEMMA UndecidedFitsNext ==
  ASSUME SessionInv', state' \in {"NONE", "DISPATCHING", "COLLECTING"}
  PROVE  OutcomeFits' /\ PlanFits' /\ ClaimClosed' /\ GateFits'
<1>1. (SessionInv /\ state \in {"NONE", "DISPATCHING", "COLLECTING"} =>
         OutcomeFits /\ PlanFits /\ ClaimClosed /\ GateFits)'
  BY UndecidedFits, PTL
<1> QED
  BY <1>1

(* Steps that leave the Session and its Decisions alone. *)
LEMMA RestingFits ==
  ASSUME ShownInv, ChainInv', [DiagnosedNext]_diagnosedVars,
         UNCHANGED <<pointerVars, decision, validations>>,
         state = "FAILED" => diagnostics' = diagnostics
  PROVE  StateFits'
<1>0. /\ BackedInv /\ OwnedInv /\ OwnedInv' /\ StateFits /\ TypeOK /\ rev \in Nat
      /\ Reobs \in Task
  BY TaskFacts DEF ShownInv, StateFits, ChainInv, BackedInv, OwnedInv, TypeOK
<1>1. UNCHANGED <<state, rev, active, current, validation, plan, permit>>
  BY DEF pointerVars
<1>2. \A t \in Task :
        /\ assignment[t] # "NONE" => assignment'[t] # "NONE"
        /\ assignment'[t] = "CONSUMED" <=> assignment[t] = "CONSUMED"
  <2> SUFFICES ASSUME NEW t \in Task
               PROVE  /\ assignment[t] # "NONE" => assignment'[t] # "NONE"
                      /\ assignment'[t] = "CONSUMED" <=> assignment[t] = "CONSUMED"
    OBVIOUS
  <2>1. Lasts(t)
    BY <1>0, <1>1, StepLasts
  <2>2. RecordsAgree(t) /\ RecordsAgree(t)'
    BY <1>0 DEF OwnedInv, RecordInv
  <2> QED
    BY <2>1, <2>2 DEF Lasts, RecordsAgree
<1>3. state \notin {"NONE", "REOBSERVING"} =>
        assignment'[Reobs] = assignment[Reobs] /\ attempt'[Reobs] = attempt[Reobs]
  <2>1. ~\E expected \in Revisions : ClaimPlan(expected)
    BY <1>0, <1>1 DEF ClaimPlan
  <2> QED
    BY <1>0, <1>1, <2>1, DiagnosedSteps, ReobsRests
<1>4. OutcomeFits' /\ GateFits'
  BY <1>0, <1>1 DEF StateFits, OutcomeFits, GateFits
<1>5. ActiveFits'
  <2>1. \A r \in Roles : active[r] # None => active[r] \in Task
    BY <1>0 DEF TypeOK, Pointers
  <2> QED
    BY <1>0, <1>1, <1>2, <2>1 DEF StateFits, ActiveFits, ClaimOpen
<1>6. PlanFits'
  BY <1>0, <1>1, <1>2, <1>3 DEF StateFits, PlanFits, Record
<1>7. ClaimClosed'
  BY <1>0, <1>1, <1>3 DEF StateFits, ClaimClosed, ContradictionNamed
<1> QED
  BY <1>4, <1>5, <1>6, <1>7 DEF StateFits

(* The collection begins. *)
LEMMA CollectingFitsNext ==
  ASSUME ShownInv, ChainInv', Collects
  PROVE  StateFits'
<1>0. SessionInv /\ SessionInv' /\ RecordInv /\ RecordInv' /\ Roles \subseteq Task
  BY TaskFacts DEF ShownInv, ChainInv, BackedInv, OwnedInv
<1>1. /\ state = "DISPATCHING" /\ state' = "COLLECTING" /\ UNCHANGED decision
      /\ active = [r \in Roles |-> r] /\ active' = [r \in Roles |-> r]
      /\ \A r \in Roles : assignment'[r] # "NONE"
  BY <1>0 DEF Collects, SessionInv
<1>2. \A r \in Roles : assignment[r] # "CONSUMED"
  <2>1. \A r \in Roles : r # None
    BY NamesDistinct DEF Task
  <2> QED
    BY <1>1, <2>1 DEF ShownInv, ActiveFits
<1>3. \A r \in Roles : assignment'[r] # "CONSUMED"
  BY <1>0, <1>1, <1>2 DEF RecordInv, RecordsAgree
<1>4. ActiveFits'
  BY <1>1, <1>3, TaskFacts DEF ActiveFits, InFlight
<1> QED
  BY <1>0, <1>1, <1>4, UndecidedFitsNext DEF StateFits

(* A Session in flight that is recovered points to nothing but its Decisions. *)
LEMMA RecoveryFits ==
  ASSUME ShownInv, ChainInv', Recovers, validations' = validations
  PROVE  StateFits'
<1>0. /\ plan \in RefreshPlan /\ SessionInv /\ StateFits
      /\ state \in InFlight /\ state' = "INTERRUPTED"
      /\ active' = NoAttempts /\ validation' = NoValidation
      /\ UNCHANGED permit
  BY DEF ShownInv, StateFits, ChainInv, BackedInv, OwnedInv, TypeOK, Recovers,
         RecoverInFlightSession
<1>1. ~plan'.active /\ plan'.status \in {"NONE", "INVALIDATED"}
  <2>1. CASE state = "REOBSERVING"
    <3>1. plan.active
      BY <1>0, <2>1 DEF SessionInv, ClaimHeld
    <3> QED
      BY <1>0, <3>1 DEF Recovers, RecoverInFlightSession, RefreshPlan
  <2>2. CASE state # "REOBSERVING"
    <3>1. plan = NoPlan
      BY <1>0, <2>2 DEF SessionInv, NothingDecided, InFlight
    <3> QED
      BY <3>1 DEF Recovers, RecoverInFlightSession, NoPlan
  <2> QED
    BY <2>1, <2>2
<1>2. OutcomeFits' /\ ActiveFits' /\ PlanFits' /\ ClaimClosed' /\ GateFits'
  BY <1>0, <1>1 DEF OutcomeFits, OutcomesOf, NoValidation, ActiveFits, NoAttempts, InFlight,
                    PlanFits, ClaimClosed, StateFits, GateFits
<1> QED
  BY <1>2 DEF StateFits

(* Whoever closes a Session leaves its validation only with the claimed plan, or *)
(* with the Attempt that was given up in the midst.                              *)
LEMMA FailingFits ==
  ASSUME ShownInv, ChainInv', Failing
  PROVE  StateFits'
<1>0. /\ BackedInv /\ OwnedInv /\ OwnerInv /\ SessionInv /\ TypeOK /\ StateFits
      /\ plan \in RefreshPlan /\ permit \in EffectPermit /\ Reobs \in Task /\ OwnedInv'
  BY TaskFacts DEF ShownInv, StateFits, ChainInv, BackedInv, OwnedInv, TypeOK
<1>1. CASE state \in Terminal
  <2>1. /\ UNCHANGED <<state, rev, permit, plan, active, assignment, attempt, scenario, current,
                       validation, decision, validations, diagnostics>>
    BY <1>1 DEF Failing, CloseBeforeJoin, CloseBackgroundFailure, FailRefresh, FailSession,
                failUnchanged, RecordsFailure
  <2>2. DiagnosedNext
    BY DEF DiagnosedNext
  <2> QED
    BY <2>1, <2>2, RestingFits DEF pointerVars
<1>2. CASE state \notin Terminal /\ (CloseBeforeJoin \/ CloseBackgroundFailure)
  <2>1. state \in {"DISPATCHING", "COLLECTING"}
    BY <1>0, <1>2 DEF CloseBeforeJoin, CloseBackgroundFailure, FanOutSettled, OwnerInv, Terminal
  <2>2. plan = NoPlan /\ validation = NoValidation /\ permit = NoPermit
    BY <1>0, <2>1 DEF SessionInv, NothingDecided
  <2>3. ~ClaimOpen
    BY <2>2 DEF ClaimOpen, NoPlan
  <2>4. /\ state' = "FAILED" /\ active' = NoAttempts /\ plan' = NoPlan
        /\ validation' = NoValidation /\ permit' = [permit EXCEPT !.active = FALSE]
    BY <1>2, <2>2, <2>3 DEF CloseBeforeJoin, CloseBackgroundFailure, FailSession, failUnchanged
  <2>5. permit'.status = "NONE"
    BY <2>2, <2>4 DEF NoPermit
  <2>6. OutcomeFits' /\ ActiveFits' /\ PlanFits' /\ ClaimClosed' /\ GateFits'
    BY <2>4, <2>5 DEF OutcomeFits, OutcomesOf, NoValidation, ActiveFits, NoAttempts, InFlight,
                      PlanFits, ClaimClosed, ClaimOpen, NoPlan, GateFits, NoCut
  <2> QED
    BY <2>6 DEF StateFits
<1>3. CASE /\ state \notin Terminal
           /\ FailRefresh
           /\ RecordsFailure(IF pc[Reobs] = "failed" THEN Reobs ELSE None,
                             reobs = "failingMismatch")
  <2>1. /\ state = "REOBSERVING" /\ ClaimHeld /\ ClaimOpen
        /\ FailSession(reobs = "failingMismatch") /\ failUnchanged
    BY <1>0, <1>3 DEF FailRefresh, OwnerInv, SessionInv, ClaimHeld, ClaimOpen
  <2>2. /\ plan.attempt = Reobs /\ plan.active /\ plan.status = "CLAIMED"
        /\ active = ReobservationOnly /\ OnlyClaimedAttempt = ReobservationOnly
    BY <2>1 DEF ClaimHeld, ReobservationOnly, OnlyClaimedAttempt
  <2>3. /\ state' = "FAILED" /\ CloseClaim(reobs = "failingMismatch")
        /\ permit' = [permit EXCEPT !.active = FALSE]
        /\ UNCHANGED <<validation, current>>
        /\ assignment'[Reobs] = "REJECTED"
    BY <1>0, <1>3, <2>1, <2>2
    DEF FailSession, failUnchanged, CloseClaim, SetAssignment, TypeOK
  <2>4. validations' = validations /\ 1 \in DOMAIN validations /\ Record(1).outcome = NoCut
    BY <1>0, <2>2 DEF Failing, StateFits, PlanFits
  <2>5. /\ validation.outcome = NoCut /\ permit'.status # "CONSUMED"
        /\ validation.decisions = current /\ \A r \in Roles : current[r] # None
    <3>1. /\ validation.outcome = NoCut /\ permit.status # "CONSUMED"
          /\ validation.decisions = current /\ \A r \in Roles : current[r] # None
      BY <1>0, <2>1 DEF StateFits, OutcomeFits, OutcomesOf, GateFits, NoCut
    <3> QED
      BY <1>0, <2>3, <3>1 DEF EffectPermit
  <2>6. OutcomeFits' /\ GateFits'
    BY <2>3, <2>5 DEF OutcomeFits, OutcomesOf, GateFits
  <2>7. CASE reobs = "failingMismatch" /\ attempt[Reobs] = "COMPLETED"
    <3>1. UNCHANGED <<plan, active, attempt>>
      BY <2>2, <2>3, <2>7 DEF CloseClaim
    <3>2. Reobs \in bound
      <4>1. pc[Reobs] = "ok" /\ OutputWaits(Reobs)
        BY <2>7, NamesDistinct DEF ShownInv, Awaited, OutputWaits
      <4>2. assignment[Reobs] = "BOUND"
        BY <1>0, <4>1 DEF OwnedInv, RecordInv, ObserverAgrees
      <4> QED
        BY <1>0, <4>2 DEF ShownInv, ChainInv, BoundKnown
    <3>3. ContradictionNamed'
      <4>1. PICK e : e = Naming("DECISION_INVALID", "VALIDATE", Reobs)
        OBVIOUS
      <4>2. /\ e.stage = "VALIDATE" /\ e.reason = "DECISION_INVALID" /\ e.task = Reobs
            /\ e.run = (Reobs \in bound)
        BY <4>1 DEF Naming, Diagnostic
      <4>3. diagnostics' = Append(diagnostics, e)
        BY <1>3, <2>1, <2>2, <2>7, <4>1 DEF RecordsFailure, FailureOf, Blamed
      <4>4. /\ Len(diagnostics) \in Nat /\ Len(diagnostics') = Len(diagnostics) + 1
            /\ DOMAIN diagnostics' = 1..(Len(diagnostics) + 1)
            /\ diagnostics'[Len(diagnostics) + 1] = e
        BY <4>3, AppendFacts DEF ShownInv, ChainInv
      <4>5. diagnostics' # <<>> /\ diagnostics'[Len(diagnostics')] = e
        BY <4>4
      <4> QED
        BY <3>2, <4>2, <4>5 DEF ContradictionNamed
    <3>4. ActiveFits'
      BY <2>2, <2>3, <3>1, TaskFacts
      DEF ActiveFits, ReobservationOnly, NoAttempts, ClaimOpen, InFlight
    <3>5. PlanFits' /\ ClaimClosed'
      BY <2>2, <2>3, <2>4, <2>5, <2>7, <3>1, <3>3 DEF PlanFits, ClaimClosed, Record
    <3> QED
      BY <2>6, <3>4, <3>5 DEF StateFits
  <2>8. CASE /\ ~(reobs = "failingMismatch" /\ attempt[Reobs] = "COMPLETED")
             /\ CanCloseTerminally(attempt[Reobs])
    <3>1. /\ plan' = plan /\ active' = ReobservationOnly
          /\ attempt'[Reobs] \in TerminalAttemptStates
      BY <1>0, <2>2, <2>3, <2>8 DEF CloseClaim, SetAttempt, TypeOK, TerminalAttemptStates
    <3>2. ActiveFits'
      BY <2>2, <2>3, <3>1, TaskFacts
      DEF ActiveFits, ReobservationOnly, NoAttempts, ClaimOpen, InFlight
    <3>3. PlanFits' /\ ClaimClosed'
      BY <2>2, <2>3, <2>4, <2>5, <3>1 DEF PlanFits, ClaimClosed, Record
    <3> QED
      BY <2>6, <3>2, <3>3 DEF StateFits
  <2>9. CASE ~CanCloseTerminally(attempt[Reobs])
    <3>1. attempt[Reobs] \in {"QUEUED", "RUNNING"}
      BY <2>9 DEF CanCloseTerminally
    <3>2. /\ plan' = [plan EXCEPT !.status = "INVALIDATED", !.attempt = None, !.active = FALSE]
          /\ active' = NoAttempts /\ UNCHANGED attempt
      BY <2>2, <2>3, <2>9, <3>1 DEF CloseClaim
    <3>3. plan'.status = "INVALIDATED" /\ ~plan'.active
      BY <1>0, <3>2 DEF RefreshPlan
    <3>4. ActiveFits' /\ PlanFits' /\ ClaimClosed'
      BY <2>3, <3>1, <3>2, <3>3
      DEF ActiveFits, NoAttempts, ClaimOpen, InFlight, PlanFits, ClaimClosed
    <3> QED
      BY <2>6, <3>4 DEF StateFits
  <2> QED
    BY <2>7, <2>8, <2>9
<1> QED
  BY <1>1, <1>2, <1>3 DEF Failing

(* A plan that does not match any more. *)
LEMMA InvalidatingFits ==
  ASSUME ShownInv, ChainInv', NEW expected, InvalidatePlan(expected), validations' = validations
  PROVE  StateFits'
<1>0. /\ StateFits /\ OwnerInv /\ plan \in RefreshPlan /\ permit \in EffectPermit
  BY DEF ShownInv, StateFits, ChainInv, BackedInv, OwnedInv, TypeOK
<1>1. /\ plan.status = "AVAILABLE" /\ state = "BLOCKED_NO_CUT" /\ state' = "UNSTABLE_WORLD"
      /\ permit' = [permit EXCEPT !.active = FALSE]
      /\ plan' = [plan EXCEPT !.status = "INVALIDATED", !.attempt = None, !.active = FALSE]
      /\ UNCHANGED <<active, current, validation, assignment, attempt>>
  BY <1>0 DEF InvalidatePlan, Claimable, OwnerInv, recordVars
<1>2. /\ plan'.status = "INVALIDATED" /\ ~plan'.active
      /\ permit'.status = permit.status /\ permit.status # "CONSUMED"
  BY <1>0, <1>1 DEF RefreshPlan, EffectPermit, StateFits, GateFits
<1>3. OutcomeFits' /\ GateFits'
  BY <1>0, <1>1, <1>2 DEF StateFits, OutcomeFits, OutcomesOf, GateFits
<1>4. ActiveFits'
  BY <1>0, <1>1 DEF StateFits, ActiveFits, InFlight
<1>5. PlanFits' /\ ClaimClosed'
  BY <1>1, <1>2 DEF PlanFits, ClaimClosed
<1> QED
  BY <1>3, <1>4, <1>5 DEF StateFits

(* The claim. *)
LEMMA ClaimingFits ==
  ASSUME ShownInv, ChainInv', NEW expected, ClaimPlan(expected), validations' = validations
  PROVE  StateFits'
<1>0. /\ StateFits /\ OwnerInv /\ SessionInv' /\ RecordInv' /\ TypeOK /\ Reobs \in Task
      /\ RoleOf(Reobs) = Budget /\ None \notin Task
  BY TaskFacts, NamesDistinct
  DEF ShownInv, StateFits, ChainInv, BackedInv, OwnedInv, RoleOf
<1>1. /\ plan.status = "AVAILABLE" /\ plan.active
      /\ state = "BLOCKED_NO_CUT" /\ state' = "REOBSERVING"
      /\ assignment' = [assignment EXCEPT ![Reobs] = "CREATED"]
      /\ UNCHANGED <<current, validation, permit>>
  BY <1>0 DEF ClaimPlan, Claimable, OwnerInv, PlanStillMatches
<1>2. /\ plan'.active /\ plan'.status = "CLAIMED" /\ plan'.attempt = Reobs
      /\ active' = ReobservationOnly /\ assignment'[Reobs] = "CREATED"
  BY <1>0, <1>1 DEF SessionInv, ClaimHeld, ReobservationOnly, TypeOK
<1>3. OutcomeFits' /\ GateFits'
  BY <1>0, <1>1 DEF StateFits, OutcomeFits, OutcomesOf, GateFits
<1>4. ActiveFits'
  <2>1. ASSUME NEW r \in Roles, active'[r] # None
        PROVE  r = Budget /\ active'[r] = Reobs
    BY <1>2, <2>1 DEF ReobservationOnly, NoAttempts
  <2> QED
    BY <1>0, <1>1, <1>2, <2>1 DEF ActiveFits, InFlight
<1>5. PlanFits' /\ ClaimClosed'
  BY <1>0, <1>1, <1>2 DEF StateFits, PlanFits, ClaimClosed, Record
<1> QED
  BY <1>3, <1>4, <1>5 DEF StateFits

(* The gate. *)
LEMMA GateKeepsFits ==
  ASSUME ShownInv, ChainInv', NEW expected, CommitRace(expected) \/ CommitEffect(expected),
         validations' = validations
  PROVE  StateFits'
<1>0. StateFits /\ permit \in EffectPermit
  BY DEF ShownInv, StateFits, ChainInv, BackedInv, OwnedInv, TypeOK
<1>1. /\ state = "READY_AT_CURRENT_HEAD" /\ active = NoAttempts
      /\ state' \in {"COMMIT_RACE", "COMMITTED"}
      /\ UNCHANGED <<active, current, validation, plan, assignment, attempt>>
  BY DEF CommitRace, CommitEffect, PermitHeld, NothingInFlight, recordVars
<1>2. permit'.status = "CONSUMED" => state' = "COMMITTED"
  BY <1>0 DEF CommitRace, CommitEffect, EffectPermit
<1>3. OutcomeFits' /\ GateFits'
  BY <1>0, <1>1, <1>2 DEF StateFits, OutcomeFits, OutcomesOf, GateFits
<1>4. ActiveFits'
  BY <1>0, <1>1 DEF StateFits, ActiveFits, InFlight
<1>5. PlanFits' /\ ClaimClosed'
  BY <1>0, <1>1 DEF StateFits, PlanFits, ClaimClosed, Record
<1> QED
  BY <1>3, <1>4, <1>5 DEF StateFits

(* A new Session, and none. *)
LEMMA CreatingFits ==
  ASSUME ChainInv', NEW s \in Scenarios, CreateSession(s)
  PROVE  StateFits'
<1>1. /\ state' = "DISPATCHING" /\ active' = [r \in Roles |-> r]
      /\ \A r \in Roles : assignment'[r] = "CREATED"
  BY TaskFacts, NamesDistinct DEF CreateSession
<1>2. SessionInv'
  BY DEF ChainInv, BackedInv, OwnedInv
<1>3. ActiveFits'
  BY <1>1, TaskFacts DEF ActiveFits, InFlight
<1> QED
  BY <1>1, <1>2, <1>3, UndecidedFitsNext DEF StateFits

LEMMA NoSessionFits ==
  ASSUME SessionInv, state = "NONE"
  PROVE  StateFits
<1>1. active = NoAttempts /\ plan = NoPlan
  BY DEF SessionInv, NothingDecided
<1>2. ActiveFits
  BY <1>1 DEF ActiveFits, NoAttempts, InFlight, ClaimOpen, NoPlan
<1> QED
  BY <1>2, UndecidedFits DEF StateFits

-----------------------------------------------------------------------------
(* What an acceptance leaves of it *)

LEMMA OutcomeOfState ==
  ASSUME NEW outcome \in Outcomes
  PROVE  outcome \in OutcomesOf(StateFor(outcome)) /\ StateFor(outcome) \notin InFlight
BY DEF Outcomes, StateFor, OutcomesOf, NoCut, InFlight

(* Consumption of well-formed outputs, and what is left active. *)
LEMMA AcceptanceDecides ==
  ASSUME BackedInv, NEW tasks, NEW output \in [tasks -> Output], Settles(tasks, output),
         PersistValidation(tasks, output)
  PROVE  /\ current' = Replaced(tasks) /\ \A r \in Roles : current'[r] # None
         /\ active' = NoAttempts /\ state' # "FAILED"
         /\ assignment'[Reobs] = IF tasks = {Reobs} THEN "CONSUMED" ELSE assignment[Reobs]
<1>1. /\ Accepting(tasks) /\ Wellformed(tasks, output) /\ Consume(tasks, output)
      /\ Reobs \in Task /\ Reobs \notin Roles
  BY TaskFacts, NamesDistinct DEF Settles, PersistValidation, Persistable
<1>2. current' = Replaced(tasks)
  BY <1>1, ConsumeDecides
<1>3. \A r \in Roles : current'[r] # None
  BY <1>2, ValidatedEvidence
<1>4. active' = NoAttempts
  <2>1. active' = [r \in Roles |-> IF \E t \in tasks : RoleOf(t) = r THEN None ELSE active[r]]
    BY DEF PersistValidation
  <2>2. CASE tasks = Roles
    BY <2>1, <2>2, TaskFacts DEF NoAttempts
  <2>3. CASE tasks # Roles
    <3>1. tasks = {Reobs} /\ active = [NoAttempts EXCEPT ![Budget] = Reobs]
      BY <2>3, AcceptanceBegins DEF ClaimHeld
    <3>2. RoleOf(Reobs) = Budget
      BY DEF RoleOf
    <3> QED
      BY <2>1, <3>1, <3>2 DEF NoAttempts
  <2> QED
    BY <2>2, <2>3
<1>5. assignment'[Reobs] = IF tasks = {Reobs} THEN "CONSUMED" ELSE assignment[Reobs]
  <2>1. tasks = Roles \/ tasks = {Reobs}
    BY <1>1 DEF Accepting
  <2> QED
    BY <1>1, <2>1 DEF Consume, Wellformed
<1>6. state' # "FAILED"
  BY DEF PersistValidation, StateFor
<1> QED
  BY <1>2, <1>3, <1>4, <1>5, <1>6

LEMMA FirstValidationFits ==
  ASSUME ShownInv, ChainInv', NEW output \in [Roles -> Output], Settles(Roles, output),
         PersistValidation(Roles, output), NEW entry, validations' = Append(validations, entry)
  PROVE  StateFits'
<1> DEFINE outcome == OutcomeOf(Roles, output)
           P == Replaced(Roles)
<1>0. /\ BackedInv /\ IsSequence(validations) /\ permit = NoPermit /\ assignment[Reobs] = "NONE"
      /\ OneOrigin'
  <2>1. state = "COLLECTING"
    BY NamesDistinct DEF Settles, Accepting, Roles
  <2> QED
    BY <2>1 DEF ShownInv, ChainInv, LinksInv, BackedInv, OwnedInv, SessionInv, NothingDecided
<1>1. /\ outcome \in Outcomes /\ state' = StateFor(outcome)
      /\ validation'.outcome = outcome /\ validation'.decisions = P
      /\ plan' = IF outcome = NoCut
                   THEN [status |-> "AVAILABLE", active |-> TRUE, base |-> rev + 2,
                         head |-> head, decisions |-> P, attempt |-> None]
                   ELSE NoPlan
  BY <1>0, FirstValidation
<1>2. /\ current' = P /\ \A r \in Roles : current'[r] # None
      /\ active' = NoAttempts /\ assignment'[Reobs] = "NONE"
  BY <1>0, AcceptanceDecides, NamesDistinct
<1>3. permit'.status # "CONSUMED"
  BY <1>0 DEF PersistValidation, NoPermit
<1> HIDE DEF outcome, P
<1>4. OutcomeFits' /\ GateFits'
  BY <1>1, <1>2, <1>3, OutcomeOfState DEF OutcomeFits, GateFits
<1>5. ActiveFits'
  BY <1>1, <1>2, OutcomeOfState DEF ActiveFits, NoAttempts, StateFor
<1>6. PlanFits' /\ ClaimClosed'
  <2>1. CASE outcome = NoCut
    <3>1. state' = "BLOCKED_NO_CUT"
      BY <1>1, <2>1 DEF StateFor, NoCut
    <3>2. 1 \in DOMAIN validations' /\ Record(1)'.outcome = NoCut
      <4>1. Len(validations) \in Nat /\ DOMAIN validations' = 1..(Len(validations) + 1)
        BY <1>0, AppendFacts
      <4> QED
        BY <1>0, <3>1, <4>1 DEF OneOrigin
    <3> QED
      BY <1>1, <2>1, <3>1, <3>2 DEF PlanFits, ClaimClosed
  <2>2. CASE outcome # NoCut
    <3>1. plan' = NoPlan /\ state' # "FAILED"
      BY <1>1, <2>2 DEF StateFor
    <3> QED
      BY <1>2, <3>1 DEF PlanFits, ClaimClosed, NoPlan
  <2> QED
    BY <2>1, <2>2
<1> QED
  BY <1>4, <1>5, <1>6 DEF StateFits

LEMMA SecondValidationFits ==
  ASSUME ShownInv, ChainInv', NEW output \in [{Reobs} -> Output], Settles({Reobs}, output),
         PersistValidation({Reobs}, output), NEW entry, validations' = Append(validations, entry)
  PROVE  StateFits'
<1> DEFINE outcome == OutcomeOf({Reobs}, output)
           P == Replaced({Reobs})
<1>0. /\ BackedInv /\ StateFits /\ IsSequence(validations) /\ plan \in RefreshPlan
      /\ permit \in EffectPermit /\ ClaimHeld /\ state = "REOBSERVING"
  <2>1. state = "REOBSERVING"
    BY NamesDistinct DEF Settles, Accepting
  <2> QED
    BY <2>1 DEF ShownInv, StateFits, ChainInv, BackedInv, OwnedInv, SessionInv, TypeOK
<1>1. /\ outcome \in Outcomes /\ outcome # NoCut /\ state' = StateFor(outcome)
      /\ validation'.outcome = outcome /\ validation'.decisions = P
      /\ plan' = IF outcome \in {"VALID_CURRENT_ALLOW", "CONSISTENT_DENY"}
                   THEN [plan EXCEPT !.status = "COMPLETED"] ELSE plan
  BY <1>0, SecondValidation
<1>2. /\ current' = P /\ \A r \in Roles : current'[r] # None
      /\ active' = NoAttempts /\ assignment'[Reobs] = "CONSUMED"
  BY <1>0, AcceptanceDecides
<1>3. permit'.status # "CONSUMED"
  <2>1. permit.status # "CONSUMED"
    BY <1>0 DEF StateFits, GateFits
  <2> QED
    BY <1>0, <2>1 DEF PersistValidation, EffectPermit
<1> HIDE DEF outcome, P
<1>4. OutcomeFits' /\ GateFits'
  BY <1>1, <1>2, <1>3, OutcomeOfState DEF OutcomeFits, GateFits
<1>5. ActiveFits'
  BY <1>1, <1>2, OutcomeOfState DEF ActiveFits, NoAttempts, StateFor
<1>6. PlanFits' /\ ClaimClosed'
  <2>1. 1 \in DOMAIN validations' /\ Record(1)'.outcome = NoCut
    BY <1>0, AppendFacts DEF ClaimHeld, StateFits, PlanFits, Record
  <2>2. CASE outcome \in {"VALID_CURRENT_ALLOW", "CONSISTENT_DENY"}
    <3>1. plan'.status = "COMPLETED" /\ plan'.active /\ plan'.attempt = Reobs
      BY <1>0, <1>1, <2>2 DEF RefreshPlan, ClaimHeld
    <3>2. state' \in {"CONSISTENT_DENY", "READY_AT_CURRENT_HEAD"}
      BY <1>1, <2>2 DEF StateFor
    <3> QED
      BY <1>2, <2>1, <3>1, <3>2 DEF PlanFits, ClaimClosed
  <2>3. CASE outcome = "HISTORICAL_BUT_STALE_NOW"
    <3>1. plan' = plan /\ state' = "HISTORICAL_STALE"
      BY <1>1, <2>3 DEF StateFor
    <3> QED
      BY <1>0, <1>2, <2>1, <3>1 DEF PlanFits, ClaimClosed, ClaimHeld
  <2> QED
    BY <1>1, <2>2, <2>3 DEF Outcomes, NoCut
<1> QED
  BY <1>4, <1>5, <1>6 DEF StateFits

(* A malformed output closes the Session like a Run that ended. *)
LEMMA RejectionFits ==
  ASSUME ShownInv, ChainInv', NEW tasks, NEW output \in [tasks -> Output],
         Settles(tasks, output), PersistRejection(tasks, output), validations' = validations
  PROVE  StateFits'
<1>0. /\ BackedInv /\ StateFits /\ SessionInv /\ TypeOK /\ permit \in EffectPermit
      /\ Accepting(tasks) /\ Reobs \notin Roles /\ Reobs \in Task
  BY TaskFacts, NamesDistinct DEF ShownInv, StateFits, ChainInv, BackedInv, OwnedInv, TypeOK, Settles
<1>1. /\ state' = "FAILED" /\ UNCHANGED <<validation, plan>>
      /\ permit' = [permit EXCEPT !.active = FALSE]
      /\ active' = IF ClaimOpen THEN OnlyClaimedAttempt ELSE NoAttempts
      /\ Consume(tasks, output)
  BY DEF PersistRejection
<1>2. CASE tasks = Roles
  <2>1. /\ plan = NoPlan /\ ~ClaimOpen /\ permit = NoPermit /\ validation = NoValidation
    BY <1>0, <1>2, AcceptanceBegins DEF SessionInv, NothingDecided, Accepting
  <2>2. permit'.status = "NONE" /\ active' = NoAttempts
    BY <1>1, <2>1 DEF NoPermit
  <2>3. OutcomeFits' /\ ActiveFits' /\ PlanFits' /\ ClaimClosed' /\ GateFits'
    BY <1>1, <2>1, <2>2 DEF OutcomeFits, OutcomesOf, NoValidation, ActiveFits, NoAttempts, InFlight,
                            PlanFits, ClaimClosed, ClaimOpen, NoPlan, GateFits, NoCut
  <2> QED
    BY <2>3 DEF StateFits
<1>3. CASE tasks # Roles
  <2>1. tasks = {Reobs} /\ state = "REOBSERVING" /\ ClaimOpen /\ ClaimHeld
    BY <1>0, <1>3, AcceptanceBegins
  <2>2. output[Reobs] \notin Values
    BY <2>1 DEF PersistRejection, RejectsOutput, Values
  <2>3. /\ assignment'[Reobs] = "REJECTED" /\ attempt'[Reobs] = "OUTPUT_REJECTED"
        /\ current' = current
    BY <1>0, <1>1, <2>1, <2>2 DEF Consume, Replaced, TypeOK, Pointers
  <2>4. active' = ReobservationOnly
    BY <1>1, <2>1 DEF ClaimHeld, OnlyClaimedAttempt, ReobservationOnly
  <2>5. permit'.status # "CONSUMED"
    BY <1>0, <1>1, <2>1 DEF StateFits, GateFits, EffectPermit
  <2>6. OutcomeFits' /\ GateFits'
    BY <1>0, <1>1, <2>1, <2>3, <2>5 DEF StateFits, OutcomeFits, OutcomesOf, GateFits
  <2>7. ActiveFits'
    BY <1>1, <2>1, <2>3, <2>4, TaskFacts
    DEF ActiveFits, ReobservationOnly, NoAttempts, ClaimOpen, InFlight, RoleOf
  <2>8. PlanFits' /\ ClaimClosed'
    BY <1>0, <1>1, <2>1, <2>3
    DEF StateFits, OutcomeFits, OutcomesOf, PlanFits, ClaimClosed, ClaimHeld, Record,
        TerminalAttemptStates
  <2> QED
    BY <2>6, <2>7, <2>8 DEF StateFits
<1> QED
  BY <1>2, <1>3

LEMMA DecidingFits ==
  ASSUME ShownInv, ChainInv', Deciding
  PROVE  StateFits'
<1>0. BackedInv /\ OwnedInv
  BY DEF ShownInv, ChainInv, BackedInv
<1>1. PICK tasks \in {Roles, {Reobs}} : \E output \in [tasks -> Output] : Settles(tasks, output)
  BY <1>0, DecidingSettles
<1>2. PICK output \in [tasks -> Output] : Settles(tasks, output)
  BY <1>1
<1>3. CASE PersistRejection(tasks, output)
  <2>1. validations' = validations
    BY <1>3 DEF PersistRejection, Deciding, PersistsRejection
  <2> QED
    BY <1>2, <1>3, <2>1, RejectionFits
<1>4. CASE PersistValidation(tasks, output)
  <2>1. state' # "FAILED"
    BY <1>4 DEF PersistValidation, StateFor
  <2>2. PICK entry : validations' = Append(validations, entry)
    BY <2>1 DEF Deciding, PersistsValidation
  <2>3. CASE tasks = Roles
    BY <1>2, <1>4, <2>2, <2>3, FirstValidationFits
  <2>4. CASE tasks = {Reobs}
    BY <1>2, <1>4, <2>2, <2>4, SecondValidationFits
  <2> QED
    BY <2>3, <2>4
<1> QED
  BY <1>2, <1>3, <1>4 DEF Settles

LEMMA GivingUpFails ==
  ASSUME GivesUp
  PROVE  state \notin Terminal /\ state' = "FAILED"
BY DEF GivesUp, FailSession, Terminal

LEMMA ProceedingFits ==
  ASSUME ShownInv, ChainInv', [DiagnosedNext]_diagnosedVars, Proceeds, ~GivesUp,
         validations' = validations, state = "FAILED" => diagnostics' = diagnostics
  PROVE  StateFits'
<1>1. CASE \/ Still \/ CaptureRefreshObservation
           \/ \E r \in Roles, value \in Values : WorldCommit(r, value)
  <2>1. UNCHANGED <<pointerVars, decision>>
    BY <1>1 DEF Still, CaptureRefreshObservation, WorldCommit, recordVars
  <2> QED
    BY <2>1, RestingFits
<1>2. CASE Collects
  BY <1>2, CollectingFitsNext
<1>3. CASE Recovers
  BY <1>3, RecoveryFits
<1>4. CASE \E expected \in Revisions : InvalidatePlan(expected) \/ ClaimPlan(expected)
  BY <1>4, InvalidatingFits, ClaimingFits
<1>5. CASE \E expected \in Revisions : CommitRace(expected) \/ CommitEffect(expected)
  BY <1>5, GateKeepsFits
<1> QED
  BY <1>1, <1>2, <1>3, <1>4, <1>5 DEF Proceeds

(* A stale Session stays one until it is reset. *)
LEMMA StaleStays ==
  ASSUME OwnerInv, Proceeds, state = "HISTORICAL_STALE"
  PROVE  state' = "HISTORICAL_STALE"
<1>1. ~Collects /\ ~GivesUp /\ ~Recovers
  BY DEF Collects, GivesUp, Recovers, InFlight
<1>2. ASSUME NEW expected
      PROVE  /\ ~InvalidatePlan(expected) /\ ~ClaimPlan(expected)
             /\ ~CommitRace(expected) /\ ~CommitEffect(expected)
  BY DEF InvalidatePlan, ClaimPlan, CommitRace, CommitEffect, Claimable, PermitHeld, OwnerInv
<1> QED
  BY <1>1, <1>2 DEF Proceeds, Still, CaptureRefreshObservation, WorldCommit, pointerVars

LEMMA StaleAdds ==
  ASSUME IsSequence(diagnostics), StaleNamed,
         state = "HISTORICAL_STALE" => state' = "HISTORICAL_STALE",
         \/ diagnostics' = diagnostics
         \/ \E e : /\ diagnostics' = Append(diagnostics, e)
                   /\ e.reason = "HISTORICAL_BUT_STALE_NOW" => state' = "HISTORICAL_STALE"
  PROVE  StaleNamed'
<1>1. CASE diagnostics' = diagnostics
  BY <1>1 DEF StaleNamed, Written
<1>2. ASSUME NEW e, diagnostics' = Append(diagnostics, e),
             e.reason = "HISTORICAL_BUT_STALE_NOW" => state' = "HISTORICAL_STALE"
      PROVE  StaleNamed'
  <2>1. Written' = Written \cup {e}
    BY <1>2, AppendedElements DEF Written
  <2> QED
    BY <1>2, <2>1 DEF StaleNamed
<1> QED
  BY <1>1, <1>2

LEMMA DecidingNames ==
  ASSUME ShownInv, Deciding
  PROVE  StaleNamed'
<1>0. OwnedInv /\ IsSequence(diagnostics) /\ StaleNamed
  BY DEF ShownInv, ChainInv, BackedInv
<1>1. PICK tasks \in {Roles, {Reobs}} : \E output \in [tasks -> Output] : Settles(tasks, output)
  BY <1>0, DecidingSettles
<1>2. PICK output \in [tasks -> Output] : Settles(tasks, output)
  BY <1>1
<1>3. state # "HISTORICAL_STALE"
  BY <1>2 DEF Settles, Accepting
<1>4. CASE state' = "FAILED"
  <2>1. PICK e : e = Naming("OUTPUT_MALFORMED", "PARSE", FirstOf(NewlyRejected))
    OBVIOUS
  <2>2. diagnostics' = Append(diagnostics, e) /\ e.reason = "OUTPUT_MALFORMED"
    BY <1>4, <2>1 DEF Deciding, PersistsRejection, Naming, Diagnostic
  <2> QED
    BY <1>0, <1>3, <2>2, StaleAdds
<1>5. CASE state' # "FAILED"
  <2>1. PersistsValidation /\ PersistValidation(tasks, output)
    BY <1>2, <1>5 DEF Deciding, Settles, PersistRejection
  <2>2. state' = StateFor(validation'.outcome)
    BY <2>1 DEF PersistValidation
  <2>3. PICK R : R = validation'
    OBVIOUS
  <2>4. CASE R.outcome = "VALID_CURRENT_ALLOW"
    <3>1. diagnostics' = diagnostics
      BY <1>0, <2>1, <2>3, <2>4 DEF PersistsValidation, OutcomeDiagnostic, IsSequence
    <3> QED
      BY <1>0, <1>3, <3>1, StaleAdds
  <2>5. CASE R.outcome # "VALID_CURRENT_ALLOW"
    <3>1. PICK cites :
            OutcomeDiagnostic(R) = <<About(R.outcome, "VALIDATE", Len(validations) + 1, cites)>>
      BY <2>5 DEF OutcomeDiagnostic
    <3>2. PICK e : e = About(R.outcome, "VALIDATE", Len(validations) + 1, cites)
      OBVIOUS
    <3>3. e.reason = R.outcome
      BY <3>2 DEF About, Diagnostic
    <3>4. diagnostics' = Append(diagnostics, e)
      BY <1>0, <2>1, <2>3, <3>1, <3>2 DEF PersistsValidation, IsSequence
    <3>5. e.reason = "HISTORICAL_BUT_STALE_NOW" => state' = "HISTORICAL_STALE"
      BY <2>2, <2>3, <3>3 DEF StateFor
    <3> QED
      BY <1>0, <1>3, <3>4, <3>5, StaleAdds
  <2> QED
    BY <2>4, <2>5
<1> QED
  BY <1>4, <1>5

LEMMA InitShown == DiagnosedInit => ShownInv
<1> SUFFICES ASSUME DiagnosedInit PROVE ShownInv
  OBVIOUS
<1>1. ChainInv
  BY InitChains
<1>2. /\ state = "NONE" /\ reobs = "idle" /\ diagnostics = <<>>
  BY DEF DiagnosedInit, Init, NoSession
<1>3. StateFits
  BY <1>1, <1>2, NoSessionFits DEF ChainInv, BackedInv, OwnedInv
<1>4. Awaited /\ StaleNamed
  BY <1>2 DEF Awaited, StaleNamed, Written
<1> QED
  BY <1>1, <1>3, <1>4 DEF ShownInv, StateFits

LEMMA NextShown == ShownInv /\ [DiagnosedNext]_diagnosedVars => ShownInv'
<1> SUFFICES ASSUME ShownInv, [DiagnosedNext]_diagnosedVars PROVE ShownInv'
  OBVIOUS
<1>0. /\ ChainInv' /\ BackedInv /\ OwnedInv /\ OwnerInv /\ IsSequence(diagnostics) /\ StaleNamed
      /\ SessionInv'
  BY NextChains DEF ShownInv, ChainInv, BackedInv, OwnedInv
<1>1. Awaited'
  BY <1>0, AwaitedKept, DiagnosedSteps DEF ShownInv
<1>2. StateFits' /\ StaleNamed'
  <2>1. CASE Resetting
    <3>1. state' = "NONE" /\ diagnostics' = <<>>
      BY <2>1 DEF Resetting, ResetDemo
    <3>2. (SessionInv /\ state = "NONE" => StateFits)'
      BY NoSessionFits, PTL
    <3> QED
      BY <1>0, <3>1, <3>2 DEF StaleNamed, Written
  <2>2. CASE Deciding
    BY <1>0, <2>2, DecidingFits, DecidingNames
  <2>3. CASE Quiet /\ \E s \in Scenarios : CreateSession(s)
    <3>1. StateFits'
      BY <1>0, <2>3, CreatingFits
    <3>2. state # "HISTORICAL_STALE" /\ diagnostics' = diagnostics
      BY <2>3 DEF Quiet, CreateSession
    <3> QED
      BY <1>0, <3>1, <3>2, StaleAdds
  <2>4. CASE Failing
    <3>1. StateFits'
      BY <1>0, <2>4, FailingFits
    <3>2. state = "HISTORICAL_STALE" => state' = "HISTORICAL_STALE"
      BY <1>0, <2>4, FailingKinds, StaleStays
    <3>3. PICK reported, contradicted : RecordsFailure(reported, contradicted)
      BY <2>4 DEF Failing
    <3>4. PICK e : e = FailureOf(Blamed(reported), contradicted)
      OBVIOUS
    <3>5. /\ e.reason # "HISTORICAL_BUT_STALE_NOW"
          /\ diagnostics' = diagnostics \/ diagnostics' = Append(diagnostics, e)
      BY <3>3, <3>4 DEF RecordsFailure, FailureOf, Naming, Diagnostic
    <3> QED
      BY <1>0, <3>1, <3>2, <3>5, StaleAdds
  <2>5. CASE \/ Interrupting \/ Racing \/ RecordCommitRace \/ RaceWriteFails \/ Stopping
             \/ UNCHANGED diagnosedVars
             \/ Quiet /\ ~\E s \in Scenarios : CreateSession(s)
    <3>1. Proceeds
      BY <1>0, <2>5, QuietKinds, OtherDiagnosedKinds
    <3>2. /\ validations' = validations
          /\ state = "FAILED" => diagnostics' = diagnostics
      BY <2>5 DEF Interrupting, Racing, RecordCommitRace, RaceWriteFails, Stopping, Quiet,
                  diagnosedVars, diagnosticVars, RaceRecordable, InFlight
    <3>3. ~GivesUp
      <4>1. CASE Quiet
        BY <1>0, <4>1, QuietEnds, GivingUpFails DEF Failed, Terminal
      <4>2. CASE ~Quiet
        <5>1. state' \in {state, "COMMIT_RACE", "INTERRUPTED"}
          BY <2>5, <4>2
          DEF Interrupting, Racing, RecordCommitRace, RaceWriteFails, Stopping, diagnosedVars,
              vars, Restart, RecoverInFlightSession, CommitRace, Crash, pointerVars
        <5> QED
          BY <5>1, GivingUpFails DEF Terminal
      <4> QED
        BY <4>1, <4>2
    <3>4. StateFits'
      BY <1>0, <3>1, <3>2, <3>3, ProceedingFits
    <3>5. \/ diagnostics' = diagnostics
          \/ \E e : /\ diagnostics' = Append(diagnostics, e)
                    /\ e.reason # "HISTORICAL_BUT_STALE_NOW"
      <4>1. CASE Interrupting
        <5>1. PICK e : e = Diagnostic("RUN_FAILED", "DISPATCH")
          OBVIOUS
        <5>2. e.reason = "RUN_FAILED"
          BY <5>1 DEF Diagnostic
        <5> QED
          BY <4>1, <5>1, <5>2 DEF Interrupting
      <4>2. CASE RecordCommitRace
        <5>1. PICK e : e = About("COMMIT_RACE", "COMMIT", Len(validations), FALSE)
          OBVIOUS
        <5>2. e.reason = "COMMIT_RACE"
          BY <5>1 DEF About, Diagnostic
        <5> QED
          BY <4>2, <5>1, <5>2 DEF RecordCommitRace
      <4> QED
        BY <2>5, <4>1, <4>2 DEF Racing, RaceWriteFails, Stopping, Quiet, diagnosedVars,
                                diagnosticVars
    <3>6. state = "HISTORICAL_STALE" => state' = "HISTORICAL_STALE"
      BY <1>0, <3>1, StaleStays
    <3> QED
      BY <1>0, <3>4, <3>5, <3>6, StaleAdds
  <2> QED
    BY <2>1, <2>2, <2>3, <2>4, <2>5 DEF DiagnosedNext
<1> QED
  BY <1>0, <1>1, <1>2 DEF ShownInv, StateFits

-----------------------------------------------------------------------------
(* What a Session that is kept so shows *)

(* A Session that a client may expect to read: its World stands where it was  *)
(* validated, and no owner is in the midst of giving up.                      *)
Showable ==
  /\ state \notin {"NONE", "HISTORICAL_STALE"}
  /\ validation.outcome # "NONE" /\ state # "UNSTABLE_WORLD" => head = validation.head
  /\ ~RunGivenUp
  /\ ~ClaimedRunEnded

(* The Decisions and the Attempts. *)
LEMMA DecisionsResolve ==
  ASSUME BackedInv, state # "NONE", NEW r \in Roles, current[r] # None
  PROVE  DecisionResolves(r, current[r], {"ACTIVE"})
<1>1. current[r] \in Task /\ RoleOf(current[r]) = r
  BY DEF BackedInv, OwnedInv, TypeOK, Pointers, RecordInv
<1>2. /\ decision[current[r]].status = "ACTIVE"
      /\ assignment[current[r]] = "CONSUMED" /\ attempt[current[r]] = "ACCEPTED"
  BY CurrentRecords
<1>3. Resolves(versions, r, receipt[current[r]], head)
  BY <1>1, <1>2, ConsumedIsObserved DEF Observed
<1> QED
  BY <1>1, <1>2, <1>3 DEF DecisionResolves

LEMMA AttemptsResolve ==
  ASSUME ShownInv, Showable, NEW r \in Roles, active[r] # None
  PROVE  /\ active[r] \in Task /\ RoleOf(active[r]) = r /\ PreConsumption(active[r])
         /\ active[r] # current[r] /\ attempt[active[r]] # "NONE"
<1> DEFINE t == active[r]
<1>0. TypeOK /\ RecordInv /\ BackedInv
  BY DEF ShownInv, ChainInv, BackedInv, OwnedInv
<1>1. t \in Task /\ RoleOf(t) = r /\ assignment[t] \notin {"NONE", "CONSUMED"}
  BY <1>0 DEF ShownInv, ActiveFits, TypeOK, Pointers
<1> HIDE DEF t
<1>2. /\ RecordsAgree(t) /\ assignment[t] \in AssignmentStatus /\ attempt[t] \in AttemptStatus
      /\ ~(assignment[t] = "REJECTED" /\ attempt[t] \in {"QUEUED", "RUNNING"})
  BY <1>0, <1>1 DEF RecordInv, TypeOK, Showable, RunGivenUp
<1>3. attempt[t] # "NONE" /\ PreConsumption(t)
  BY <1>1, <1>2 DEF RecordsAgree, PreConsumption, AssignmentStatus, AttemptStatus,
                    TerminalAttemptStates
<1>4. t # current[r]
  BY <1>0, <1>1, CurrentRecords, NamesDistinct
<1> QED
  BY <1>1, <1>3, <1>4 DEF t

LEMMA AgentsResolve ==
  ASSUME ShownInv, Showable, NEW r \in Roles
  PROVE  AgentResolves(r)
BY DecisionsResolve, AttemptsResolve DEF AgentResolves, ShownInv, ChainInv, Showable

(* The Runs of a Role are its initial one and, of the Budget, the re-observation. *)
LEMMA RunsOfRoles ==
  ASSUME ShownInv, Showable, NEW r \in Roles
  PROVE  RunCount(r) = IF r = Budget /\ assignment[Reobs] # "NONE" THEN 2 ELSE 1
<1>0. RecordInv /\ SessionInv /\ state # "NONE" /\ Reobs \in Task /\ Roles \subseteq Task
  BY TaskFacts DEF ShownInv, ChainInv, BackedInv, OwnedInv, Showable
<1>1. /\ attempt[r] # "NONE"
      /\ attempt[Reobs] # "NONE" <=> assignment[Reobs] # "NONE"
  BY <1>0 DEF RecordInv, RecordsAgree, SessionInv
<1>2. \A t \in Task : RoleOf(t) = r <=> t = r \/ (t = Reobs /\ r = Budget)
  BY NamesDistinct DEF RoleOf, Task
<1>3. CASE r = Budget /\ assignment[Reobs] # "NONE"
  <2>1. {t \in Task : RoleOf(t) = r /\ attempt[t] # "NONE"} = {Reobs} \cup {r}
    BY <1>0, <1>1, <1>2, <1>3
  <2>2. Cardinality({Reobs}) = 1 /\ IsFiniteSet({Reobs})
    BY FS_Singleton
  <2>3. r \notin {Reobs}
    BY NamesDistinct
  <2>4. Cardinality({Reobs} \cup {r}) = 2
    BY <2>2, <2>3, FS_AddElement
  <2> QED
    BY <1>3, <2>1, <2>4 DEF RunCount
<1>4. CASE ~(r = Budget /\ assignment[Reobs] # "NONE")
  <2>1. {t \in Task : RoleOf(t) = r /\ attempt[t] # "NONE"} = {r}
    BY <1>0, <1>1, <1>2, <1>4
  <2> QED
    BY <1>4, <2>1, FS_Singleton DEF RunCount
<1> QED
  BY <1>3, <1>4

LEMMA ReobservedIsBudget ==
  ASSUME ShownInv, Showable
  PROVE  ReobservedRoles = IF assignment[Reobs] # "NONE" THEN {Budget} ELSE {}
<1>1. \A r \in Roles : RunCount(r) > 1 <=> r = Budget /\ assignment[Reobs] # "NONE"
  BY RunsOfRoles
<1>2. Budget \in Roles
  BY DEF Roles
<1> QED
  BY <1>1, <1>2 DEF ReobservedRoles

(* No Run is shown that was not counted. *)
LEMMA RunsAreCounted ==
  ASSUME ShownInv, Showable, NEW r \in Roles
  PROVE  RunCount(r) >= RepresentedRuns(r)
<1>1. CASE current[r] # None /\ active[r] # None
  <2>1. /\ active[r] \in Task /\ RoleOf(active[r]) = r /\ active[r] # current[r]
        /\ attempt[active[r]] # "NONE"
    BY <1>1, AttemptsResolve
  <2>2. /\ current[r] \in Task /\ RoleOf(current[r]) = r
        /\ attempt[current[r]] = "ACCEPTED" /\ RecordInv /\ Reobs \in Task
    BY <1>1, CurrentRecords, TaskFacts
    DEF ShownInv, ChainInv, BackedInv, OwnedInv, TypeOK, Pointers, RecordInv
  <2>3. r = Budget /\ (active[r] = Reobs \/ current[r] = Reobs)
    BY <2>1, <2>2 DEF RoleOf, Task
  <2>4. assignment[Reobs] # "NONE"
    BY <2>1, <2>2, <2>3 DEF RecordInv, RecordsAgree
  <2> QED
    BY <2>3, <2>4, RunsOfRoles DEF RepresentedRuns
<1>2. CASE ~(current[r] # None /\ active[r] # None)
  BY <1>2, RunsOfRoles DEF RepresentedRuns
<1> QED
  BY <1>1, <1>2

(* The evidence of the Decisions at the head they were validated at. *)
LEMMA EvidenceIsJudged ==
  ASSUME ShownInv, Showable, validation.outcome # "NONE", state # "UNSTABLE_WORLD"
  PROVE  LET E == EvidenceOf(current) IN
         /\ BindsDecisions /\ validation.head = head
         /\ validation.outcome = NoCut =>
              LowerBound(E) >= UpperBound(E, head) /\ InvalidRoles = {Budget}
         /\ validation.outcome \in {"VALID_CURRENT_ALLOW", "CONSISTENT_DENY"} =>
              /\ LowerBound(E) <= head /\ head < UpperBound(E, head)
              /\ LowerBound(E) < UpperBound(E, head)
              /\ InvalidRoles = {} /\ \A r \in Roles : CoversHead(r)
         /\ validation.outcome = "VALID_CURRENT_ALLOW" =>
              \A r \in Roles : decision[current[r]].verdict = "ALLOW"
         /\ validation.outcome = "CONSISTENT_DENY" =>
              \E r \in Roles : decision[current[r]].verdict = "DENY"
<1> DEFINE E == EvidenceOf(current)
           I == IntervalsAt(current, head)
<1>0. /\ BackedInv /\ LedgerInv /\ state # "NONE" /\ validation.head = head
      /\ validation.decisions = current /\ \A r \in Roles : current[r] # None
  BY DEF ShownInv, ChainInv, BackedInv, PromiseInv, ServiceInv, OwnedInv, TypeOK, LedgerInv,
         Showable, OutcomeFits
<1>1. BindsDecisions
  BY <1>0 DEF BindsDecisions, ThreeDecisions
<1>2. Judged(validation, I) /\ CurrentInvalidOwners(E, head) = CurrentInvalidOwners(I, head)
  <2>1. PICK i \in DOMAIN validations : validation = Record(i)
    BY DEF ShownInv, ChainInv, LinksInv, LatestIsLast
  <2>2. /\ validations[i].intervals = IntervalsAt(Record(i).decisions, Record(i).head)
        /\ Judged(Record(i), IntervalsAt(Record(i).decisions, Record(i).head))
        /\ CurrentInvalidOwners(EvidenceOf(Record(i).decisions), Record(i).head) =
              CurrentInvalidOwners(validations[i].intervals, Record(i).head)
    BY PersistedCloses DEF ShownInv
  <2> QED
    BY <1>0, <2>1, <2>2
<1>3. ASSUME NEW r \in Roles
      PROVE  E[r] \in versions[r] /\ E[r] = VersionOf(versions, r, receipt[current[r]].rev)
  <2>1. Resolves(versions, r, receipt[current[r]], head)
    BY <1>0, DecisionsResolve DEF DecisionResolves
  <2>2. LET v == VersionOf(versions, r, receipt[current[r]].rev) IN v \in versions[r]
    BY <1>0, <2>1, ReceiptNamesVersion
  <2> QED
    BY <2>2 DEF EvidenceOf
<1>4. /\ head \in Nat /\ IsEvidence(E, head)
      /\ \A r \in Roles : I[r].from = E[r].from /\ I[r].until = E[r].until
  BY <1>0, <1>3, IntervalsOfEvidence
<1>5. LowerBound(I) = LowerBound(E) /\ UpperBound(I, head) = UpperBound(E, head)
  BY <1>4, BoundsAgree
<1>6. InvalidRoles = CurrentInvalidOwners(E, head)
      /\ \A r \in Roles : CoversHead(r) <=> r \notin CurrentInvalidOwners(E, head)
  <2>1. \A r \in Roles : CoversHead(r) <=> Contains(E[r], head)
    BY <1>3 DEF CoversHead
  <2> QED
    BY <1>0, <2>1 DEF InvalidRoles, InvalidAtHead, CurrentInvalidOwners
<1> HIDE DEF E, I
<1>7. LowerBound(E) <= head /\ head < UpperBound(E, head) => CurrentInvalidOwners(E, head) = {}
  <2> SUFFICES ASSUME LowerBound(E) <= head, head < UpperBound(E, head), NEW r \in Roles
               PROVE  Contains(E[r], head)
    BY DEF CurrentInvalidOwners
  <2>1. /\ E[r].from <= LowerBound(E) /\ UpperBound(E, head) <= EffectiveUntil(E[r], head)
        /\ \E q \in Roles : LowerBound(E) = E[q].from
        /\ \E q \in Roles : UpperBound(E, head) = EffectiveUntil(E[q], head)
    BY <1>4, LowerBoundIsLargest, UpperBoundIsSmallest
  <2>2. LowerBound(E) \in Nat /\ UpperBound(E, head) \in Nat /\ E[r].from \in Nat
    BY <1>4, <2>1, ContainsByBounds DEF IsEvidence
  <2>3. EffectiveUntil(E[r], head) \in Nat
    BY <1>4, ContainsByBounds
  <2>4. E[r].from <= head /\ head < EffectiveUntil(E[r], head)
    BY <1>4, <2>1, <2>2, <2>3
  <2> QED
    BY <1>4, <2>4, ContainsByBounds
<1>8. /\ validation.outcome = NoCut =>
           LowerBound(E) >= UpperBound(E, head) /\ InvalidRoles = {Budget}
      /\ validation.outcome \in {"VALID_CURRENT_ALLOW", "CONSISTENT_DENY"} =>
           /\ LowerBound(E) <= head /\ head < UpperBound(E, head)
           /\ LowerBound(E) < UpperBound(E, head)
           /\ InvalidRoles = {} /\ \A r \in Roles : CoversHead(r)
  <2>1. LowerBound(E) \in Nat /\ UpperBound(E, head) \in Nat
    BY <1>4, LowerBoundIsLargest, UpperBoundIsSmallest, ContainsByBounds DEF IsEvidence
  <2>2. LowerBound(E) <= head /\ head < UpperBound(E, head) =>
          LowerBound(E) < UpperBound(E, head)
    BY <1>4, <2>1
  <2> QED
    BY <1>0, <1>2, <1>5, <1>6, <1>7, <2>2 DEF Judged
<1> QED
  BY <1>0, <1>1, <1>2, <1>8 DEF Judged, E

(* A commit race is one with the World, and a stale Session shows nothing. *)
LEMMA JointStates ==
  ASSUME ShownInv, Showable
  PROVE  /\ JointPending <=> validation.outcome = "NONE" \/ state = "UNSTABLE_WORLD"
         /\ validation.outcome \in {"NONE", NoCut, "VALID_CURRENT_ALLOW", "CONSISTENT_DENY"}
         /\ state # "COMMIT_RACE"
         /\ JointState = IF JointPending THEN "PENDING"
                         ELSE IF validation.outcome = NoCut THEN "NO_CUT" ELSE "VALID_CURRENT"
<1>0. /\ head \in Nat /\ state \in SessionState /\ validation.outcome \in OutcomesOf(state)
      /\ state \notin {"NONE", "HISTORICAL_STALE"}
  BY DEF ShownInv, ChainInv, BackedInv, OwnedInv, TypeOK, LedgerTypeOK, OutcomeFits, Showable
<1>1. state # "COMMIT_RACE"
  BY <1>0 DEF ShownInv, ChainInv, LinksInv, RaceHeld, Showable
<1>2. validation.outcome \in {"NONE", NoCut, "VALID_CURRENT_ALLOW", "CONSISTENT_DENY"}
  BY <1>0 DEF OutcomesOf, NoCut
<1>3. JointPending <=> validation.outcome = "NONE" \/ state = "UNSTABLE_WORLD"
  BY <1>0, <1>1 DEF JointPending, OutcomesOf
<1>4. JointState = IF JointPending THEN "PENDING"
                   ELSE IF validation.outcome = NoCut THEN "NO_CUT" ELSE "VALID_CURRENT"
  <2>1. validation.outcome # "HISTORICAL_BUT_STALE_NOW"
    BY <1>2 DEF NoCut
  <2> QED
    BY <2>1 DEF JointState, NoCut
<1> QED
  BY <1>1, <1>2, <1>3, <1>4

LEMMA JointIsShown ==
  ASSUME ShownInv, Showable
  PROVE  JointHolds
<1> SUFFICES ASSUME ~JointPending PROVE JointHolds
  BY DEF JointHolds
<1>1. /\ validation.outcome # "NONE" /\ state # "UNSTABLE_WORLD"
      /\ validation.outcome \in {NoCut, "VALID_CURRENT_ALLOW", "CONSISTENT_DENY"}
      /\ JointState = IF validation.outcome = NoCut THEN "NO_CUT" ELSE "VALID_CURRENT"
  BY JointStates
<1> DEFINE E == EvidenceOf(current)
<1>2. /\ BindsDecisions /\ validation.head = head
      /\ validation.outcome = NoCut => LowerBound(E) >= UpperBound(E, head)
      /\ validation.outcome \in {"VALID_CURRENT_ALLOW", "CONSISTENT_DENY"} =>
           /\ LowerBound(E) <= head /\ head < UpperBound(E, head)
           /\ LowerBound(E) < UpperBound(E, head)
           /\ \A r \in Roles : CoversHead(r)
      /\ validation.outcome = "VALID_CURRENT_ALLOW" =>
           \A r \in Roles : decision[current[r]].verdict = "ALLOW"
      /\ validation.outcome = "CONSISTENT_DENY" =>
           \E r \in Roles : decision[current[r]].verdict = "DENY"
  BY <1>1, EvidenceIsJudged
<1> HIDE DEF E
<1> DEFINE covered == LowerBound(E) <= head /\ head < UpperBound(E, head)
<1>3. RetainedHolds(LowerBound(E), UpperBound(E, head), covered)
  BY <1>1, <1>2 DEF RetainedHolds, NoCut
<1>4. CurrentHolds(LowerBound(E), UpperBound(E, head), covered)
  <2>1. JointState = "VALID_CURRENT" =>
          validation.outcome \in {"VALID_CURRENT_ALLOW", "CONSISTENT_DENY"}
    BY <1>1 DEF NoCut
  <2> QED
    BY <1>1, <1>2, <2>1 DEF CurrentHolds, NoCut
<1> QED
  BY <1>2, <1>3, <1>4 DEF JointHolds, E

(* A claimed plan has its Attempt shown, at work or ended. *)
LEMMA ClaimIsShown ==
  ASSUME ShownInv, Showable, plan.status = "CLAIMED"
  PROVE  /\ state \in {"REOBSERVING", "FAILED"} /\ plan.active /\ plan.attempt = Reobs
         /\ active = ReobservationOnly /\ active[Budget] = Reobs
         /\ \A r \in Roles \ {Budget} : active[r] = None
         /\ InFlightRoles = {Budget}
         /\ assignment[Reobs] # "NONE" /\ attempt[Reobs] # "ACCEPTED"
         /\ validation.outcome = NoCut
<1>0. /\ SessionInv /\ RecordInv /\ Reobs \in Task /\ Reobs # None /\ Budget \in Roles
  BY TaskFacts, NamesDistinct DEF ShownInv, ChainInv, BackedInv, OwnedInv, Roles
<1>1. state \in {"REOBSERVING", "FAILED"} /\ plan.active /\ plan.attempt = Reobs
  BY DEF ShownInv, PlanFits, Showable
<1>2. active = ReobservationOnly
  BY <1>0, <1>1 DEF ShownInv, ActiveFits, ClaimOpen, InFlight, SessionInv, ClaimHeld,
                    ReobservationOnly
<1>3. /\ active[Budget] = Reobs /\ \A r \in Roles \ {Budget} : active[r] = None
      /\ InFlightRoles = {Budget}
  BY <1>0, <1>2 DEF ReobservationOnly, NoAttempts, InFlightRoles
<1>4. assignment[Reobs] # "NONE" /\ attempt[Reobs] # "ACCEPTED"
  BY <1>0, <1>3 DEF ShownInv, ActiveFits, RecordInv, RecordsAgree
<1>5. validation.outcome = NoCut
  BY <1>1 DEF ShownInv, OutcomeFits, OutcomesOf, ClaimClosed
<1> QED
  BY <1>1, <1>2, <1>3, <1>4, <1>5

LEMMA PlanIsShown ==
  ASSUME ShownInv, Showable
  PROVE  PlanResolves
<1> SUFFICES ASSUME plan.active PROVE PlanResolves
  BY DEF PlanResolves
<1>1. /\ plan.status \in {"AVAILABLE", "CLAIMED", "COMPLETED"}
      /\ 1 \in DOMAIN validations /\ Record(1).outcome = NoCut
  BY DEF ShownInv, PlanFits
<1>2. /\ plan.decisions = Record(1).decisions /\ plan.head = Record(1).head
      /\ PlanStatusCloses
  BY <1>1 DEF ShownInv, ChainInv, LinksInv, PlanRests
<1>3. CurrentInvalidOwners(EvidenceOf(plan.decisions), plan.head) = PlanOwners
  BY <1>1, <1>2, PersistedCloses DEF ShownInv, Judged, PlanOwners
<1>4. \A r \in Roles :
        /\ plan.decisions[r] # None
        /\ DecisionResolves(r, plan.decisions[r], {"ACTIVE", "SUPERSEDED"})
  BY <1>1, <1>2, PersistedCloses DEF ShownInv, EvidenceCloses, DecisionCloses, DecisionResolves
<1>5. plan.status = "CLAIMED" =>
        /\ plan.attempt # None /\ attempt[plan.attempt] # "ACCEPTED"
        /\ RoleOf(plan.attempt) \in PlanOwners
        /\ active[RoleOf(plan.attempt)] = plan.attempt
  BY ClaimIsShown, NamesDistinct DEF RoleOf, PlanOwners, Task
<1> QED
  BY <1>1, <1>2, <1>3, <1>4, <1>5 DEF PlanResolves, PlanStatusCloses

LEMMA GateIsShown ==
  ASSUME ShownInv, Showable
  PROVE  GateResolves
<1>0. EffectMeansCommitted /\ ReadyInv /\ GateFits /\ effects \in Seq(EffectRecord)
  BY DEF ShownInv, ChainInv, BackedInv, PromiseInv, EvidenceInv, OwnedInv, TypeOK
<1>1. EffectLedgerCloses
  BY <1>0 DEF EffectLedgerCloses, EffectMeansCommitted, ReadyInv, GateFits
<1>2. ASSUME PermitAllowed
      PROVE  /\ permit.active /\ permit.head = head /\ validation.head = permit.head
             /\ permit.status = IF state = "COMMITTED" THEN "CONSUMED" ELSE "ISSUED"
  <2>1. /\ state \in {"READY_AT_CURRENT_HEAD", "COMMITTED"}
        /\ permit.active /\ validation.head = permit.head
        /\ validation.outcome = "VALID_CURRENT_ALLOW"
        /\ permit.status = IF state = "COMMITTED" THEN "CONSUMED" ELSE "ISSUED"
    BY <1>0, <1>2 DEF PermitAllowed, ReadyInv, ValidationBinds
  <2> QED
    BY <2>1 DEF Showable
<1> QED
  BY <1>0, <1>1, <1>2 DEF GateResolves, EffectMeansCommitted

LEMMA DiagnosticsAreShown ==
  ASSUME ShownInv, EndIsExplained, Showable
  PROVE  DiagnosticsResolve
<1>1. ASSUME NEW i \in DOMAIN diagnostics
      PROVE  Closes(diagnostics[i])
  <2>1. diagnostics[i].reason # "HISTORICAL_BUT_STALE_NOW"
    BY DEF ShownInv, StaleNamed, Written, Showable
  <2> QED
    BY <2>1, ChainsClose DEF ShownInv, DiagnosticsStayClosed
<1>2. state \in {"FAILED", "INTERRUPTED"} => diagnostics # <<>>
  BY DEF EndIsExplained, Failed
<1> QED
  BY <1>1, <1>2 DEF DiagnosticsResolve, CausalChainsClose

LEMMA BuilderShows ==
  ASSUME ShownInv, EndIsExplained, Showable
  PROVE  BuilderAccepts
<1>1. ValidationResolves
  <2>1. ASSUME validation.outcome # "NONE"
        PROVE  validation.head <= head
    <3>1. PICK i \in DOMAIN validations : validation = Record(i)
      BY <2>1 DEF ShownInv, ChainInv, LinksInv, LatestIsLast
    <3> QED
      BY <3>1, PersistedCloses DEF ShownInv, EvidenceCloses
  <2> QED
    BY <2>1 DEF ValidationResolves
<1> QED
  BY <1>1, DiagnosticsAreShown, AgentsResolve, JointIsShown, PlanIsShown, GateIsShown
  DEF BuilderAccepts

-----------------------------------------------------------------------------
(* What the schema asks of it *)

LEMMA RuleIsFollowed ==
  ASSUME ShownInv, Showable
  PROVE  FollowsRule
<1> SUFFICES ASSUME Authoritative PROVE FollowsRule
  BY DEF FollowsRule
<1>0. /\ BackedInv /\ OwnerInv /\ ReadyInv /\ BlockedInv /\ EffectMeansCommitted
      /\ plan \in RefreshPlan /\ PlanFits
  BY DEF ShownInv, ChainInv, BackedInv, OwnedInv, TypeOK, EvidenceInv, PromiseInv
<1>1. state \in {"BLOCKED_NO_CUT", "CONSISTENT_DENY", "READY_AT_CURRENT_HEAD", "COMMITTED"}
  BY DEF Authoritative, AuthoritativeRules, Showable
<1>2. validation.outcome = CASE state = "BLOCKED_NO_CUT" -> NoCut
                             [] state = "CONSISTENT_DENY" -> "CONSISTENT_DENY"
                             [] OTHER -> "VALID_CURRENT_ALLOW"
  BY <1>1 DEF ShownInv, OutcomeFits, OutcomesOf
<1>3. /\ ThreeDecisions /\ validation.head = head
      /\ state = "BLOCKED_NO_CUT" => InvalidRoles = {Budget}
      /\ state # "BLOCKED_NO_CUT" => InvalidRoles = {}
      /\ state \in {"READY_AT_CURRENT_HEAD", "COMMITTED"} => Verdicts = {"ALLOW"}
      /\ state = "CONSISTENT_DENY" => "DENY" \in Verdicts
      /\ JointState = IF state = "BLOCKED_NO_CUT" THEN "NO_CUT" ELSE "VALID_CURRENT"
  <2>1. validation.outcome # "NONE" /\ state # "UNSTABLE_WORLD"
    BY <1>1, <1>2 DEF NoCut
  <2>2. /\ BindsDecisions /\ validation.head = head
        /\ validation.outcome = NoCut => InvalidRoles = {Budget}
    BY <2>1, EvidenceIsJudged
  <2>3. /\ validation.outcome \in {"VALID_CURRENT_ALLOW", "CONSISTENT_DENY"} => InvalidRoles = {}
        /\ validation.outcome = "VALID_CURRENT_ALLOW" =>
             \A r \in Roles : decision[current[r]].verdict = "ALLOW"
        /\ validation.outcome = "CONSISTENT_DENY" =>
             \E r \in Roles : decision[current[r]].verdict = "DENY"
    BY <2>1, EvidenceIsJudged
  <2>4. JointState = IF state = "BLOCKED_NO_CUT" THEN "NO_CUT" ELSE "VALID_CURRENT"
    BY <1>1, <1>2, <2>1, JointStates DEF NoCut
  <2>5. /\ state \in {"READY_AT_CURRENT_HEAD", "COMMITTED"} => Verdicts = {"ALLOW"}
        /\ state = "CONSISTENT_DENY" => "DENY" \in Verdicts
    BY <1>2, <2>3 DEF Verdicts, Roles
  <2>6. ThreeDecisions
    BY <2>2 DEF BindsDecisions
  <2>7. /\ state = "BLOCKED_NO_CUT" => InvalidRoles = {Budget}
        /\ state # "BLOCKED_NO_CUT" => InvalidRoles = {}
    BY <1>2, <2>2, <2>3
  <2> QED
    BY <2>2, <2>4, <2>5, <2>6, <2>7
<1>4. InFlightRoles = {}
  BY <1>1 DEF ShownInv, ActiveFits, InFlight, NoAttempts, InFlightRoles
<1>5. DecisionsMatchRule
  BY <1>1, <1>3 DEF DecisionsMatchRule
<1>6. PlanMatchesRule
  <2>1. CASE state = "BLOCKED_NO_CUT"
    <3>1. plan.active /\ plan.status = "AVAILABLE"
      BY <1>0, <1>3, <2>1 DEF BlockedInv, PlanStillMatches
    <3>2. AuthoritativeRules[state].plan = "AVAILABLE"
      BY <2>1 DEF AuthoritativeRules, Rule
    <3> QED
      BY <1>3, <2>1, <3>1, <3>2 DEF PlanMatchesRule, PlanOwners
  <2>2. CASE state # "BLOCKED_NO_CUT"
    <3>1. AuthoritativeRules[state].plan = "COMPLETED"
      BY <1>1, <2>2 DEF AuthoritativeRules, Rule
    <3>2. assignment[Reobs] = "NONE" => ~plan.active
      BY <1>0, <2>2 DEF PlanFits, OwnerInv
    <3>3. assignment[Reobs] # "NONE" => plan.active /\ plan.status = "COMPLETED"
      BY <1>0, <1>1, <2>2 DEF PlanFits
    <3> QED
      BY <3>1, <3>2, <3>3, ReobservedIsBudget DEF PlanMatchesRule, PlanOwners
  <2> QED
    BY <2>1, <2>2
<1>7. /\ AuthoritativeRules[state].joint = JointState
      /\ AuthoritativeRules[state].permit <=> PermitAllowed /\ permit.active
      /\ AuthoritativeRules[state].effect <=> effects # <<>>
  <2>1. PermitAllowed => permit.active
    BY <1>0 DEF PermitAllowed, ReadyInv
  <2>2. effects # <<>> <=> state = "COMMITTED"
    BY <1>0 DEF EffectMeansCommitted
  <2>3. CASE state = "BLOCKED_NO_CUT"
    BY <1>3, <2>2, <2>3 DEF AuthoritativeRules, Rule, PermitAllowed
  <2>4. CASE state = "CONSISTENT_DENY"
    BY <1>3, <2>2, <2>4 DEF AuthoritativeRules, Rule, PermitAllowed
  <2>5. CASE state = "READY_AT_CURRENT_HEAD"
    BY <1>3, <2>1, <2>2, <2>5 DEF AuthoritativeRules, Rule, PermitAllowed
  <2>6. CASE state = "COMMITTED"
    BY <1>3, <2>1, <2>2, <2>6 DEF AuthoritativeRules, Rule, PermitAllowed
  <2> QED
    BY <1>1, <2>3, <2>4, <2>5, <2>6
<1> QED
  BY <1>4, <1>5, <1>6, <1>7 DEF FollowsRule

LEMMA ActionsAreShown ==
  ASSUME ShownInv, Showable
  PROVE  ActionsMatchRule
<1>0. BlockedInv
  BY DEF ShownInv, ChainInv, BackedInv, EvidenceInv
<1>1. CASE state = "BLOCKED_NO_CUT"
  <2>1. validation.head = head
    <3>1. validation.outcome # "NONE"
      BY <1>1 DEF ShownInv, OutcomeFits, OutcomesOf, NoCut
    <3> QED
      BY <1>1, <3>1 DEF Showable
  <2>2. plan.active /\ plan.status = "AVAILABLE"
    BY <1>0, <1>1, <2>1 DEF BlockedInv, PlanStillMatches
  <2>3. AvailableActions = {"REOBSERVE_INVALID"}
    BY <1>1, <2>2 DEF AvailableActions
  <2>4. Authoritative /\ AuthoritativeRules[state].actions = {"REOBSERVE_INVALID"}
    BY <1>1 DEF Authoritative, AuthoritativeRules, Rule
  <2> QED
    BY <2>3, <2>4 DEF ActionsMatchRule
<1>2. CASE state = "READY_AT_CURRENT_HEAD"
  <2>1. AvailableActions = {"COMMIT"}
    BY <1>2 DEF AvailableActions
  <2>2. Authoritative /\ AuthoritativeRules[state].actions = {"COMMIT"}
    BY <1>2 DEF Authoritative, AuthoritativeRules, Rule
  <2> QED
    BY <2>1, <2>2 DEF ActionsMatchRule
<1>3. CASE state \notin {"BLOCKED_NO_CUT", "READY_AT_CURRENT_HEAD"}
  <2>1. AvailableActions = {}
    BY <1>3 DEF AvailableActions, Showable
  <2>2. Authoritative => AuthoritativeRules[state].actions = {}
    BY <1>3 DEF Authoritative, AuthoritativeRules, Rule, Showable
  <2> QED
    BY <2>1, <2>2 DEF ActionsMatchRule
<1> QED
  BY <1>1, <1>2, <1>3

LEMMA PlanFitsItsState ==
  ASSUME ShownInv, Showable
  PROVE  PlanFitsState
<1>0. /\ SessionInv /\ OwnerInv /\ BlockedInv /\ PlanFits /\ state \in SessionState
  BY DEF ShownInv, ChainInv, BackedInv, OwnedInv, TypeOK, EvidenceInv
<1>1. ASSUME Retained
      PROVE  plan.active /\ JointState = "NO_CUT"
  <2>1. /\ JointState = "NO_CUT" /\ validation.outcome = NoCut /\ state # "UNSTABLE_WORLD"
    BY <1>1, JointStates DEF Retained
  <2>2. state \in {"BLOCKED_NO_CUT", "REOBSERVING", "FAILED"}
    BY <1>0, <2>1 DEF ShownInv, OutcomeFits, OutcomesOf, NoCut, SessionState, InFlight, Terminal,
                      Showable
  <2>3. state = "FAILED" => plan.status = "CLAIMED"
    <3>1. Reobs \in Task
      BY TaskFacts
    <3> QED
      BY <2>1, <3>1 DEF ShownInv, ClaimClosed, Showable, RunGivenUp
  <2>4. plan.active
    BY <1>0, <2>2, <2>3 DEF BlockedInv, SessionInv, ClaimHeld, PlanFits
  <2> QED
    BY <2>1, <2>4
<1>2. ASSUME plan.active, plan.status = "COMPLETED"
      PROVE  /\ state \in {"CONSISTENT_DENY", "READY_AT_CURRENT_HEAD", "COMMITTED"}
             /\ ThreeDecisions /\ InvalidRoles = {} /\ InFlightRoles = {}
             /\ PlanOwners = ReobservedRoles
  <2>1. state \in {"CONSISTENT_DENY", "READY_AT_CURRENT_HEAD", "COMMITTED"}
    BY <1>0, <1>2, JointStates DEF PlanFits
  <2>2. validation.outcome \in {"VALID_CURRENT_ALLOW", "CONSISTENT_DENY"}
    BY <2>1 DEF ShownInv, OutcomeFits, OutcomesOf
  <2>3. ThreeDecisions /\ InvalidRoles = {}
    BY <2>1, <2>2, EvidenceIsJudged DEF BindsDecisions
  <2>4. InFlightRoles = {}
    BY <2>1 DEF ShownInv, ActiveFits, InFlight, NoAttempts, InFlightRoles
  <2>5. PlanOwners = ReobservedRoles
    BY <1>0, <1>2, ReobservedIsBudget DEF PlanFits, PlanOwners
  <2> QED
    BY <2>1, <2>3, <2>4, <2>5
<1>3. plan.active /\ plan.status = "AVAILABLE" => state = "BLOCKED_NO_CUT"
  BY <1>0 DEF OwnerInv
<1>4. plan.active /\ plan.status = "CLAIMED" => state \in {"REOBSERVING", "FAILED"}
  BY ClaimIsShown
<1>5. plan.active => plan.status \in {"AVAILABLE", "CLAIMED", "COMPLETED"}
  BY <1>0 DEF PlanFits
<1> QED
  BY <1>1, <1>2, <1>3, <1>4, <1>5 DEF PlanFitsState

(* The evidence and the Attempts under a claimed plan. *)
LEMMA ClaimedRolesAreShown ==
  ASSUME ShownInv, Showable, plan.status = "CLAIMED"
  PROVE  /\ ThreeDecisions /\ Retained
         /\ InvalidRoles = {Budget} /\ InFlightRoles = {Budget} /\ ReobservedRoles = {Budget}
         /\ \A r \in Roles \ {Budget} : CurrentValid(r) /\ active[r] = None
         /\ \A statuses : attempt[Reobs] \in statuses => NewRefreshAttempt(Budget, statuses)
<1>1. /\ state \in {"REOBSERVING", "FAILED"} /\ active[Budget] = Reobs
      /\ \A r \in Roles \ {Budget} : active[r] = None
      /\ InFlightRoles = {Budget} /\ assignment[Reobs] # "NONE" /\ attempt[Reobs] # "ACCEPTED"
      /\ validation.outcome = NoCut
  BY ClaimIsShown
<1>2. validation.outcome # "NONE" /\ state # "UNSTABLE_WORLD"
  BY <1>1 DEF NoCut
<1>3. BindsDecisions /\ InvalidRoles = {Budget}
  BY <1>1, <1>2, EvidenceIsJudged
<1>4. ThreeDecisions
  BY <1>3 DEF BindsDecisions
<1>5. Retained
  BY <1>1, <1>2, JointStates DEF Retained
<1>6. \A r \in Roles \ {Budget} : CurrentValid(r)
  BY <1>3, <1>4 DEF ThreeDecisions, InvalidRoles, InvalidAtHead, CurrentValid
<1>7. ReobservedRoles = {Budget}
  BY <1>1, ReobservedIsBudget
<1>8. ASSUME NEW statuses, attempt[Reobs] \in statuses
      PROVE  NewRefreshAttempt(Budget, statuses)
  <2>1. Budget \in Roles /\ RunCount(Budget) = 2
    BY <1>1, RunsOfRoles DEF Roles
  <2>2. active[Budget] # None /\ active[Budget] # current[Budget]
    BY <1>1, <2>1, AttemptsResolve, NamesDistinct DEF Task
  <2> QED
    BY <1>1, <1>4, <1>8, <2>1, <2>2 DEF NewRefreshAttempt, ThreeDecisions
<1> QED
  BY <1>1, <1>3, <1>4, <1>5, <1>6, <1>7, <1>8

LEMMA ReobservationIsShown ==
  ASSUME ShownInv, Showable
  PROVE  ReobservingFits
<1> SUFFICES ASSUME state = "REOBSERVING" PROVE ReobservingFits
  BY DEF ReobservingFits
<1>1. plan.active /\ plan.status = "CLAIMED"
  BY DEF ShownInv, ChainInv, BackedInv, OwnedInv, SessionInv, ClaimHeld
<1>2. attempt[Reobs] \in ActiveAttemptStates
  BY DEF Showable, ClaimedRunEnded
<1> QED
  BY <1>1, <1>2, ClaimedRolesAreShown DEF ReobservingFits, PlanOwners

LEMMA CollectionIsShown ==
  ASSUME ShownInv, Showable
  PROVE  CollectingFits
<1> SUFFICES ASSUME state = "COLLECTING" PROVE CollectingFits
  BY DEF CollectingFits
<1>1. plan = NoPlan /\ assignment[Reobs] = "NONE"
  BY DEF ShownInv, ChainInv, BackedInv, OwnedInv, SessionInv, NothingDecided
<1> QED
  BY <1>1, ReobservedIsBudget DEF CollectingFits, NoPlan

LEMMA EndedClaimIsShown ==
  ASSUME ShownInv, Showable
  PROVE  ClaimedTerminalFits
<1> SUFFICES ASSUME state \in {"FAILED", "INTERRUPTED"}, plan.active, plan.status = "CLAIMED"
             PROVE  ClaimedTerminalFits
  BY DEF ClaimedTerminalFits
<1>1. state = "FAILED" /\ active[Budget] = Reobs
  BY ClaimIsShown
<1>2. \/ attempt[Reobs] \in TerminalAttemptStates
      \/ attempt[Reobs] = "COMPLETED" /\ ContradictionNamed
  BY <1>1 DEF ShownInv, ClaimClosed
<1>3. /\ ThreeDecisions
      /\ InvalidRoles = {Budget} /\ InFlightRoles = {Budget} /\ ReobservedRoles = {Budget}
      /\ \A r \in Roles \ {Budget} : CurrentValid(r) /\ active[r] = None
      /\ \A statuses : attempt[Reobs] \in statuses => NewRefreshAttempt(Budget, statuses)
  BY ClaimedRolesAreShown
<1>4. NewRefreshAttempt(Budget, TerminalAttemptStates) \/ RejectedCompletedAttempt(Budget)
  BY <1>1, <1>2, <1>3 DEF RejectedCompletedAttempt, ContradictionNamed
<1> QED
  BY <1>3, <1>4 DEF ClaimedTerminalFits, PlanOwners

LEMMA SchemaShows ==
  ASSUME ShownInv, Showable
  PROVE  SchemaAccepts
BY RunsAreCounted, RuleIsFollowed, ActionsAreShown, PlanFitsItsState, ReobservationIsShown,
   CollectionIsShown, EndedClaimIsShown
DEF SchemaAccepts

LEMMA ShownIsReadable == ShownInv /\ EndIsExplained => SteadyWorldIsReadable
<1> SUFFICES ASSUME ShownInv, EndIsExplained, Showable PROVE Readable
  BY DEF SteadyWorldIsReadable, Showable
<1> QED
  BY BuilderShows, SchemaShows DEF Readable

(* Whatever the interleaving, the crashes, the recoveries and the failing     *)
(* writes, no mutation of the service leaves half of what a read demands of   *)
(* the other half: session-view-builder.ts resolves every record the Session  *)
(* points to, safety-diagnostics.ts closes every chain, and the snapshot      *)
(* schema of types.ts accepts the result, as long as the World stands where   *)
(* the Session was validated, it did not end as HISTORICAL_STALE, which is    *)
(* never shown, and nobody is in the midst of giving up.                      *)
THEOREM SteadySessionsAreShown == DiagnosedSpec => []SteadyWorldIsReadable
<1>1. DiagnosedSpec => []ShownInv
  BY InitShown, NextShown, PTL DEF DiagnosedSpec
<1> QED
  BY <1>1, EndsAreExplained, ShownIsReadable, PTL

=============================================================================
