--------------------------- MODULE EpochGuardProofs ---------------------------
(***************************************************************************)
(* Proofs about the EpochGuard service: its types; who may move a Session  *)
(* from one state to another; that the World stays a tiling under the      *)
(* service, that every Effect has a common cut for ever, and that the      *)
(* service implements what it promises.                                    *)
(***************************************************************************)
EXTENDS EpochGuard, WorldLedgerProofs

-----------------------------------------------------------------------------
(* Types *)

LEMMA TaskFacts ==
  /\ Roles \subseteq Task /\ Reobs \in Task /\ Budget \in Roles
  /\ \A t \in Task : RoleOf(t) \in Roles
  /\ \A r \in Roles : RoleOf(r) = r
  /\ RoleOf(Reobs) = Budget
  BY NamesDistinct DEF Task, RoleOf, Roles

LEMMA RecordsSet ==
  ASSUME TypeOK, NEW t \in Task
  PROVE  /\ \A s \in AttemptStatus : SetAttempt(t, s) => attempt' \in [Task -> AttemptStatus]
         /\ \A s \in AssignmentStatus :
              SetAssignment(t, s) => assignment' \in [Task -> AssignmentStatus]
         /\ \A from, to \in DispatchStep : Step(t, from, to) => pc' \in [Task -> DispatchStep]
  BY DEF TypeOK, SetAttempt, SetAssignment, Step

(* What an observer changes. *)
LEMMA ObserverTypes ==
  ASSUME TypeOK, NEW t \in Task, DispatchBindPoll(t)
  PROVE  TypeOK'
<1>1. /\ assignment' \in [Task -> AssignmentStatus]
      /\ attempt' \in [Task -> AttemptStatus]
      /\ pc' \in [Task -> DispatchStep]
      /\ UNCHANGED faults
      /\ observerUnchanged
  <2> USE DEF TypeOK, DispatchStep, AttemptStatus, AssignmentStatus
  <2>1. CASE TransitionToDispatching(t)
    BY <2>1, RecordsSet DEF TransitionToDispatching
  <2>2. CASE FailUnbound(t)
    BY <2>2, RecordsSet DEF FailUnbound
  <2>3. CASE BindRunOnce(t)
    BY <2>3, RecordsSet DEF BindRunOnce
  <2>4. CASE MirrorRunning(t)
    BY <2>4, RecordsSet DEF MirrorRunning
  <2>5. CASE MirrorCompleted(t)
    BY <2>5, RecordsSet DEF MirrorCompleted
  <2>6. CASE \E status \in {"FAILED", "INTERRUPTED"} : MirrorStopped(t, status)
    BY <2>6, RecordsSet DEF MirrorStopped
  <2>7. CASE \E status \in {attempt[t], "RUNNING", "FAILED"} : FailBound(t, status)
    BY <2>7, RecordsSet DEF FailBound
  <2>8. CASE ReturnOutput(t)
    BY <2>8, RecordsSet DEF ReturnOutput
  <2>9. CASE RejectCompletedOutput(t)
    BY <2>9, RecordsSet DEF RejectCompletedOutput
  <2> QED
    BY <2>1, <2>2, <2>3, <2>4, <2>5, <2>6, <2>7, <2>8, <2>9 DEF DispatchBindPoll
<1> QED
  BY <1>1 DEF TypeOK, LedgerTypeOK, observerUnchanged, pointerVars

LEMMA PointerFacts ==
  ASSUME TypeOK
  PROVE  /\ NoAttempts \in Pointers /\ NoDecisions \in Pointers
         /\ OnlyClaimedAttempt \in Pointers
         /\ [permit EXCEPT !.active = FALSE] \in EffectPermit
         /\ Terminal \subseteq SessionState /\ InFlight \subseteq SessionState
<1>1. NoAttempts \in Pointers /\ NoDecisions \in Pointers
  BY DEF NoAttempts, NoDecisions, Pointers
<1>2. OnlyClaimedAttempt \in Pointers
  BY <1>1, TaskFacts DEF TypeOK, OnlyClaimedAttempt, Pointers, RefreshPlan
<1>3. [permit EXCEPT !.active = FALSE] \in EffectPermit
  BY DEF TypeOK, EffectPermit
<1>4. Terminal \subseteq SessionState /\ InFlight \subseteq SessionState
  BY DEF SessionState
<1> QED
  BY <1>1, <1>2, <1>3, <1>4

(* What failSession changes. *)
LEMMA FailSessionTypes ==
  ASSUME TypeOK, NEW preserve, FailSession(preserve)
  PROVE  /\ state' \in SessionState
         /\ rev' \in Nat
         /\ permit' \in EffectPermit
         /\ plan' \in RefreshPlan
         /\ active' \in Pointers
         /\ assignment' \in [Task -> AssignmentStatus]
         /\ attempt' \in [Task -> AttemptStatus]
<1> USE DEF TypeOK
<1>1. NoAttempts \in Pointers /\ OnlyClaimedAttempt \in Pointers
  BY PointerFacts
<1>2. CASE state \in Terminal
  BY <1>2 DEF FailSession
<1>3. CASE state \notin Terminal
  <2>1. state' \in SessionState /\ rev' \in Nat /\ permit' \in EffectPermit
    <3>1. /\ state' = "FAILED" /\ rev' = rev + 1
          /\ permit' = [permit EXCEPT !.active = FALSE]
      BY <1>3 DEF FailSession
    <3> QED
      BY <3>1, PointerFacts DEF Terminal
  <2>2. CASE ~ClaimOpen
    <3>1. active' = NoAttempts /\ UNCHANGED <<plan, assignment, attempt>>
      BY <2>2, <1>3 DEF FailSession
    <3> QED
      BY <2>1, <3>1, <1>1
  <2>3. CASE ClaimOpen
    <3>1. CloseClaim(preserve)
      BY <2>3, <1>3 DEF FailSession
    <3>2. assignment' \in [Task -> AssignmentStatus]
      BY <3>1 DEF CloseClaim, SetAssignment, AssignmentStatus
    <3>3. attempt' \in [Task -> AttemptStatus]
      BY <3>1 DEF CloseClaim, SetAttempt, AttemptStatus, TerminalAttemptStates
    <3>4. plan' \in RefreshPlan /\ active' \in Pointers
      BY <3>1, <1>1 DEF CloseClaim, RefreshPlan
    <3> QED
      BY <2>1, <3>2, <3>3, <3>4
  <2> QED
    BY <2>2, <2>3
<1> QED
  BY <1>2, <1>3

(* What the acceptance of outputs changes. *)
LEMMA ConsumeTypes ==
  ASSUME TypeOK, NEW tasks \in SUBSET Task, NEW output \in [tasks -> Output],
         Consume(tasks, output)
  PROVE  /\ assignment' \in [Task -> AssignmentStatus]
         /\ attempt' \in [Task -> AttemptStatus]
         /\ decision' \in [Task -> DecisionRecord]
         /\ current' \in Pointers
<1> USE DEF TypeOK
<1>1. assignment' \in [Task -> AssignmentStatus]
  BY DEF Consume, AssignmentStatus
<1>2. attempt' \in [Task -> AttemptStatus]
  BY DEF Consume, AttemptStatus
<1>3. decision' \in [Task -> DecisionRecord]
  BY DEF Consume, DecisionRecord
<1>4. current' \in Pointers
  <2> DEFINE accepted == {t \in tasks : output[t] \in Values}
  <2>1. Replaced(accepted) \in Pointers
    <3> SUFFICES ASSUME NEW r \in Roles
                 PROVE  Replaced(accepted)[r] \in Task \cup {None}
      BY DEF Replaced, Pointers
    <3>1. CASE \E t \in accepted : RoleOf(t) = r
      BY <3>1 DEF Replaced, TaskOf
    <3>2. CASE ~\E t \in accepted : RoleOf(t) = r
      BY <3>2 DEF Replaced, Pointers
    <3> QED
      BY <3>1, <3>2
  <2> QED
    BY <2>1 DEF Consume
<1> QED
  BY <1>1, <1>2, <1>3, <1>4

LEMMA ReplacedTypes ==
  ASSUME TypeOK, NEW tasks \in SUBSET Task
  PROVE  Replaced(tasks) \in Pointers
<1> SUFFICES ASSUME NEW r \in Roles
             PROVE  Replaced(tasks)[r] \in Task \cup {None}
  BY DEF Replaced, Pointers
<1>1. CASE \E t \in tasks : RoleOf(t) = r
  BY <1>1 DEF Replaced, TaskOf
<1>2. CASE ~\E t \in tasks : RoleOf(t) = r
  BY <1>2 DEF Replaced, Pointers, TypeOK
<1> QED
  BY <1>1, <1>2

LEMMA OutcomeType ==
  ASSUME NEW tasks, NEW output
  PROVE  OutcomeOf(tasks, output) \in Outcomes
  BY DEF OutcomeOf, ValidationOutcome, Outcomes

LEMMA AcceptTypes ==
  ASSUME TypeOK, NEW tasks \in SUBSET Task, NEW output \in [tasks -> Output],
         PersistValidation(tasks, output) \/ PersistRejection(tasks, output)
  PROVE  /\ state' \in SessionState
         /\ rev' \in Nat
         /\ active' \in Pointers
         /\ current' \in Pointers
         /\ validation' \in ValidationRecord
         /\ plan' \in RefreshPlan
         /\ permit' \in EffectPermit
         /\ assignment' \in [Task -> AssignmentStatus]
         /\ attempt' \in [Task -> AttemptStatus]
         /\ decision' \in [Task -> DecisionRecord]
<1>1. /\ assignment' \in [Task -> AssignmentStatus]
      /\ attempt' \in [Task -> AttemptStatus]
      /\ decision' \in [Task -> DecisionRecord]
      /\ current' \in Pointers
  BY ConsumeTypes DEF PersistValidation, PersistRejection
<1>2. CASE PersistRejection(tasks, output)
  <2>1. /\ state' = "FAILED" /\ rev' = rev + 1
        /\ permit' = [permit EXCEPT !.active = FALSE]
        /\ active' \in {OnlyClaimedAttempt, NoAttempts}
        /\ UNCHANGED <<validation, plan>>
    BY <1>2 DEF PersistRejection
  <2>2. /\ state' \in SessionState /\ permit' \in EffectPermit /\ active' \in Pointers
    BY <2>1, PointerFacts DEF Terminal
  <2> QED
    BY <1>1, <2>1, <2>2 DEF TypeOK
<1>3. CASE PersistValidation(tasks, output)
  <2> DEFINE outcome == OutcomeOf(tasks, output)
  <2>1. outcome \in Outcomes /\ Replaced(tasks) \in Pointers
    BY OutcomeType, ReplacedTypes
  <2>2. /\ state' = StateFor(outcome)
        /\ rev' = rev + 2
        /\ active' \in Pointers
    BY <1>3 DEF PersistValidation, TypeOK, Pointers
  <2>3. StateFor(outcome) \in SessionState
    BY <2>1 DEF StateFor, Outcomes, SessionState, Terminal
  <2>4. validation' \in ValidationRecord
    BY <1>3, <2>1 DEF PersistValidation, TypeOK, LedgerTypeOK, ValidationRecord
  <2>5. plan' \in RefreshPlan
    <3>1. plan \in RefreshPlan /\ rev + 2 \in Nat /\ head \in Nat
      BY DEF TypeOK, LedgerTypeOK
    <3>2. [plan EXCEPT !.status = "COMPLETED"] \in RefreshPlan
      BY <3>1 DEF RefreshPlan
    <3>3. [status |-> "AVAILABLE", active |-> TRUE, base |-> rev + 2, head |-> head,
           decisions |-> Replaced(tasks), attempt |-> None] \in RefreshPlan
      BY <2>1, <3>1 DEF RefreshPlan
    <3> QED
      BY <1>3, <3>1, <3>2, <3>3 DEF PersistValidation
  <2>6. permit' \in EffectPermit
    BY <1>3, <2>1 DEF PersistValidation, TypeOK, LedgerTypeOK, EffectPermit
  <2> QED
    BY <1>1, <2>2, <2>3, <2>4, <2>5, <2>6 DEF TypeOK
<1> QED
  BY <1>2, <1>3

(* What a commit publishes. *)
LEMMA EffectTypes ==
  ASSUME TypeOK, EvidenceAllowsAt(head)
  PROVE  [cut |-> head, evidence |-> CurrentReceipts] \in EffectRecord
<1>1. ASSUME NEW r \in Roles PROVE current[r] \in Task
  BY DEF EvidenceAllowsAt, TypeOK, Pointers
<1>2. CurrentReceipts \in [Roles -> Receipt]
  BY <1>1 DEF CurrentReceipts, TypeOK
<1> QED
  BY <1>2 DEF TypeOK, LedgerTypeOK, EffectRecord

-----------------------------------------------------------------------------
(* Types: the actions *)

LEMMA ObservationType ==
  ASSUME LedgerTypeOK, NEW r \in Roles, VersionsAt(versions, r, head) # {}
  PROVE  Observation(versions, r, head) \in Receipt
<1>1. VersionAt(versions, r, head) \in versions[r]
  BY DEF VersionAt, VersionsAt
<1>2. VersionAt(versions, r, head) \in Version
  BY <1>1 DEF LedgerTypeOK
<1> QED
  BY <1>2 DEF Observation, Receipt, Version, LedgerTypeOK

LEMMA CreateTypes ==
  ASSUME TypeOK, NEW s \in Scenarios, CreateSession(s)
  PROVE  TypeOK'
<1>1. /\ Fixture[s].head \in Nat
      /\ Fixture[s].versions \in [Roles -> SUBSET Version]
      /\ Fixture[s].seen \in [Roles -> Receipt]
  BY FixturesPrepared DEF FixtureIsPrepared
<1>2. LedgerTypeOK'
  BY <1>1 DEF CreateSession, LedgerTypeOK
<1>3. /\ active' \in Pointers
      /\ assignment' \in [Task -> AssignmentStatus]
      /\ attempt' \in [Task -> AttemptStatus]
  BY TaskFacts DEF CreateSession, Pointers, AssignmentStatus, AttemptStatus
<1>4. receipt' \in [Task -> Receipt]
  BY <1>1 DEF CreateSession, Task, NoReceipt, Receipt
<1>5. /\ scenario' \in Scenarios /\ state' \in SessionState /\ rev' \in Nat
      /\ task' \in BackgroundStep
  BY DEF CreateSession, SessionState, InFlight, BackgroundStep
<1> QED
  BY <1>2, <1>3, <1>4, <1>5 DEF TypeOK, CreateSession

LEMMA PlannerTypes ==
  ASSUME TypeOK, NEW expected,
         InvalidatePlan(expected) \/ ClaimPlan(expected)
  PROVE  TypeOK'
<1>1. CASE InvalidatePlan(expected)
  <2>1. plan' \in RefreshPlan
    BY <1>1 DEF InvalidatePlan, TypeOK, RefreshPlan
  <2>2. permit' \in EffectPermit
    BY <1>1, PointerFacts DEF InvalidatePlan
  <2>3. state' \in SessionState /\ rev' \in Nat
    BY <1>1 DEF InvalidatePlan, TypeOK, SessionState, Terminal
  <2> QED
    BY <1>1, <2>1, <2>2, <2>3 DEF TypeOK, LedgerTypeOK, InvalidatePlan, recordVars, processVars
<1>2. CASE ClaimPlan(expected)
  <2>1. plan' \in RefreshPlan
    BY <1>2, TaskFacts DEF ClaimPlan, TypeOK, RefreshPlan
  <2>2. active' \in Pointers
    BY <1>2, TaskFacts DEF ClaimPlan, TypeOK, Pointers
  <2>3. state' \in SessionState /\ rev' \in Nat
    BY <1>2 DEF ClaimPlan, TypeOK, SessionState, InFlight
  <2>4. /\ assignment' \in [Task -> AssignmentStatus]
        /\ attempt' \in [Task -> AttemptStatus]
        /\ reobs' \in RefreshStep
    BY <1>2 DEF ClaimPlan, TypeOK, AssignmentStatus, AttemptStatus, RefreshStep
  <2> QED
    BY <1>2, <2>1, <2>2, <2>3, <2>4 DEF TypeOK, LedgerTypeOK, ClaimPlan
<1> QED
  BY <1>1, <1>2

LEMMA GateTypes ==
  ASSUME TypeOK, NEW expected, CommitRace(expected) \/ CommitEffect(expected)
  PROVE  TypeOK'
<1>1. permit' \in EffectPermit
  <2>1. CASE CommitRace(expected)
    BY <2>1 DEF CommitRace, TypeOK, EffectPermit
  <2>2. CASE CommitEffect(expected)
    BY <2>2 DEF CommitEffect, TypeOK, EffectPermit
  <2> QED
    BY <2>1, <2>2
<1>2. state' \in SessionState /\ rev' \in Nat
  BY DEF CommitRace, CommitEffect, TypeOK, SessionState, Terminal
<1>3. effects' \in Seq(EffectRecord)
  <2>1. CASE CommitRace(expected)
    BY <2>1 DEF CommitRace, TypeOK
  <2>2. CASE CommitEffect(expected)
    <3>1. [cut |-> head, evidence |-> CurrentReceipts] \in EffectRecord
      BY <2>2, EffectTypes DEF CommitEffect, EvidenceClosure
    <3> QED
      BY <2>2, <3>1 DEF CommitEffect, TypeOK
  <2> QED
    BY <2>1, <2>2
<1> QED
  BY <1>1, <1>2, <1>3
  DEF TypeOK, LedgerTypeOK, CommitRace, CommitEffect, recordVars, processVars

LEMMA ResetTypes ==
  ASSUME TypeOK, ResetDemo
  PROVE  TypeOK'
<1>1. LedgerTypeOK'
  BY DEF ResetDemo, LedgerTypeOK, NoHistory
<1>2. /\ active' \in Pointers /\ current' \in Pointers
      /\ validation' \in ValidationRecord /\ plan' \in RefreshPlan
      /\ permit' \in EffectPermit
  BY DEF ResetDemo, Pointers, NoAttempts, NoDecisions, NoValidation, ValidationRecord,
         NoPlan, RefreshPlan, NoPermit, EffectPermit
<1>3. /\ assignment' \in [Task -> AssignmentStatus]
      /\ attempt' \in [Task -> AttemptStatus]
      /\ receipt' \in [Task -> Receipt]
      /\ decision' \in [Task -> DecisionRecord]
  BY DEF ResetDemo, AssignmentStatus, AttemptStatus, NoReceipt, Receipt, NoDecision,
         DecisionRecord
<1>4. effects' \in Seq(EffectRecord)
  BY DEF ResetDemo
<1> QED
  BY <1>1, <1>2, <1>3, <1>4 DEF TypeOK, ResetDemo, processVars, SessionState

LEMMA BackgroundTypes ==
  ASSUME TypeOK, Background
  PROVE  TypeOK'
<1> USE DEF TypeOK, LedgerTypeOK, BackgroundStep, DispatchStep, pointerVars, recordVars,
            backgroundUnchanged, failUnchanged
<1>1. CASE TransitionToCollecting
  BY <1>1 DEF TransitionToCollecting, SessionState, InFlight
<1>2. CASE PackFails
  BY <1>2 DEF PackFails
<1>3. CASE CloseBeforeJoin
  BY <1>3, FailSessionTypes DEF CloseBeforeJoin
<1>4. CASE JoinAccepts
  BY <1>4 DEF JoinAccepts
<1>5. CASE JoinRejects
  BY <1>5 DEF JoinRejects, AssignmentStatus
<1>6. CASE AcceptInitial
  BY <1>6, AcceptTypes, TaskFacts DEF AcceptInitial
<1>7. CASE AcceptInitialThrows
  BY <1>7 DEF AcceptInitialThrows
<1>8. CASE CloseBackgroundFailure
  BY <1>8, FailSessionTypes DEF CloseBackgroundFailure
<1>9. CASE ReleaseOwnership
  BY <1>9 DEF ReleaseOwnership
<1> QED
  BY <1>1, <1>2, <1>3, <1>4, <1>5, <1>6, <1>7, <1>8, <1>9 DEF Background

LEMMA RefreshTypes ==
  ASSUME TypeOK, Refresh
  PROVE  TypeOK'
<1> USE DEF TypeOK, LedgerTypeOK, RefreshStep, DispatchStep, pointerVars, recordVars,
            refreshUnchanged, failUnchanged
<1>1. CASE CaptureRefreshObservation
  BY <1>1, ObservationType, TaskFacts DEF CaptureRefreshObservation
<1>2. CASE CaptureThrows
  BY <1>2 DEF CaptureThrows
<1>3. CASE RefreshPack
  BY <1>3 DEF RefreshPack
<1>4. CASE RefreshRunFailed
  BY <1>4 DEF RefreshRunFailed
<1>5. CASE AcceptRefresh
  <2>1. PICK output \in [{Reobs} -> Output] :
          PersistValidation({Reobs}, output) \/ PersistRejection({Reobs}, output)
    BY <1>5 DEF AcceptRefresh
  <2>2. {Reobs} \in SUBSET Task
    BY TaskFacts
  <2>3. /\ state' \in SessionState /\ rev' \in Nat
        /\ active' \in Pointers /\ current' \in Pointers
        /\ validation' \in ValidationRecord
        /\ plan' \in RefreshPlan
        /\ permit' \in EffectPermit
        /\ assignment' \in [Task -> AssignmentStatus]
        /\ attempt' \in [Task -> AttemptStatus]
        /\ decision' \in [Task -> DecisionRecord]
    BY <2>1, <2>2, AcceptTypes
  <2> QED
    BY <1>5, <2>3 DEF AcceptRefresh
<1>6. CASE AcceptRefreshThrows
  BY <1>6 DEF AcceptRefreshThrows
<1>7. CASE FailRefresh
  BY <1>7, FailSessionTypes DEF FailRefresh
<1> QED
  BY <1>1, <1>2, <1>3, <1>4, <1>5, <1>6, <1>7 DEF Refresh

LEMMA RestartTypes ==
  ASSUME TypeOK, Restart
  PROVE  TypeOK'
<1>1. CASE state \notin InFlight
  BY <1>1 DEF TypeOK, LedgerTypeOK, Restart
<1>2. CASE state \in InFlight
  <2>1. RecoverInFlightSession
    BY <1>2 DEF Restart
  <2>2. /\ assignment' \in [Task -> AssignmentStatus]
        /\ attempt' \in [Task -> AttemptStatus]
    BY <2>1 DEF RecoverInFlightSession, TypeOK, AssignmentStatus, AttemptStatus
  <2>3. /\ plan' \in RefreshPlan /\ validation' \in ValidationRecord
    BY <2>1 DEF RecoverInFlightSession, TypeOK, RefreshPlan, ValidationRecord,
                NoValidation, NoDecisions, Pointers
  <2>4. /\ active' \in Pointers /\ state' \in SessionState /\ rev' \in Nat
    BY <2>1, PointerFacts DEF RecoverInFlightSession, TypeOK, Terminal
  <2> QED
    BY <2>2, <2>3, <2>4 DEF TypeOK, LedgerTypeOK, Restart
<1> QED
  BY <1>1, <1>2

LEMMA EnvironmentTypes ==
  ASSUME TypeOK, Environment
  PROVE  TypeOK'
<1> USE DEF TypeOK, pointerVars, recordVars, processVars
<1>0. StoreFault => faults' \in 0..MaxStoreFaults
  BY BoundsAreNaturals DEF StoreFault
<1>1. CASE Crash
  BY <1>1 DEF Crash, LedgerTypeOK, BackgroundStep, RefreshStep, DispatchStep, Idle
<1>2. CASE \E r \in Roles, value \in Values : WorldCommit(r, value)
  <2> PICK r \in Roles, value \in Values : WorldCommit(r, value)
    BY <1>2
  <2> DEFINE changes == [q \in {r} |-> value]
  <2>1. /\ head' = head + 1
        /\ versions' = Committed(versions, head + 1, changes)
    BY DEF WorldCommit, Commit
  <2>2. LedgerTypeOK'
    BY <2>1, CommittedType DEF LedgerTypeOK
  <2> QED
    BY <2>2 DEF WorldCommit
<1>3. CASE \E t \in Task : ObserverWriteFails(t)
  BY <1>3, <1>0 DEF ObserverWriteFails, observerUnchanged, Step, DispatchStep, LedgerTypeOK
<1>4. CASE BackgroundWriteFails
  BY <1>4, <1>0 DEF BackgroundWriteFails, AfterFault, BackgroundStep, LedgerTypeOK
<1>5. CASE RefreshWriteFails
  BY <1>5, <1>0
  DEF RefreshWriteFails, refreshUnchanged, RefreshStep, DispatchStep, LedgerTypeOK
<1> QED
  BY <1>1, <1>2, <1>3, <1>4, <1>5 DEF Environment

LEMMA InitTypes == Init => TypeOK
<1> SUFFICES ASSUME Init PROVE TypeOK
  OBVIOUS
<1>1. LedgerTypeOK
  BY DEF Init, NoSession, LedgerTypeOK, NoHistory
<1>2. /\ active \in Pointers /\ current \in Pointers
      /\ validation \in ValidationRecord /\ plan \in RefreshPlan
      /\ permit \in EffectPermit
  BY DEF Init, NoSession, Pointers, NoAttempts, NoDecisions, NoValidation,
         ValidationRecord, NoPlan, RefreshPlan, NoPermit, EffectPermit
<1>3. /\ assignment \in [Task -> AssignmentStatus]
      /\ attempt \in [Task -> AttemptStatus]
      /\ receipt \in [Task -> Receipt]
      /\ decision \in [Task -> DecisionRecord]
  BY DEF Init, NoSession, AssignmentStatus, AttemptStatus, NoReceipt, Receipt, NoDecision,
         DecisionRecord
<1>4. /\ up \in BOOLEAN /\ task \in BackgroundStep /\ reobs \in RefreshStep
      /\ pc \in [Task -> DispatchStep]
      /\ faults \in 0..MaxStoreFaults
  BY BoundsAreNaturals DEF Init, BackgroundStep, RefreshStep, DispatchStep, Idle
<1> QED
  BY <1>1, <1>2, <1>3, <1>4 DEF TypeOK, Init, NoSession, SessionState

LEMMA NextTypes ==
  ASSUME TypeOK, [Next]_vars
  PROVE  TypeOK'
<1>1. CASE Client
  BY <1>1, CreateTypes, PlannerTypes, GateTypes, ResetTypes DEF Client
<1>2. CASE Background
  BY <1>2, BackgroundTypes
<1>3. CASE Refresh
  BY <1>3, RefreshTypes
<1>4. CASE \E t \in Task : DispatchBindPoll(t)
  BY <1>4, ObserverTypes
<1>5. CASE Restart
  BY <1>5, RestartTypes
<1>6. CASE Environment
  BY <1>6, EnvironmentTypes
<1>7. CASE UNCHANGED vars
  BY <1>7 DEF TypeOK, LedgerTypeOK, vars
<1> QED
  BY <1>1, <1>2, <1>3, <1>4, <1>5, <1>6, <1>7 DEF Next

(* The database and the process keep their types, for any scenarios whose    *)
(* World is prepared, any heads, revisions and number of failing writes.     *)
THEOREM TypeCorrect == Spec => []TypeOK
<1>1. Init => TypeOK
  BY InitTypes
<1>2. TypeOK /\ [Next]_vars => TypeOK'
  BY NextTypes
<1> QED
  BY <1>1, <1>2, PTL DEF Spec

-----------------------------------------------------------------------------
(* Owners *)

(* Which owner may be at work in which state of the Session.  No step of an    *)
(* owner looks at the state of the Session before it accepts outputs, so that  *)
(* what those steps do to a Session follows only from where the owner is.      *)
OwnerInv ==
  /\ ~up => task = "none" /\ reobs = "idle"
  /\ task = "packs" => state = "DISPATCHING"
  /\ task \in {"fanout", "accept"} => state = "COLLECTING"
  /\ task = "join" => state = "FAILED" /\ AdapterFailed
  /\ task \in {"closing", "closing2", "stuck"} =>
       state \in {"DISPATCHING", "COLLECTING", "FAILED"}
  /\ reobs # "idle" => state = "REOBSERVING"
  /\ plan.status = "AVAILABLE" => state = "BLOCKED_NO_CUT"
  /\ state = "NONE" => task = "none"

Undecided == SessionState \ (Terminal \cup {"NONE"})

(* What a step that neither makes, commits nor deletes a Session does to its   *)
(* state: nothing, or it takes an undecided Session on, short of COMMITTED.    *)
Moves ==
  \/ UNCHANGED state
  \/ state \in Undecided /\ state' \in SessionState \ {"NONE", "COMMITTED"}

EffectsKept == UNCHANGED <<head, versions, effects>>

LEMMA FailMoves ==
  ASSUME TypeOK, NEW preserve, FailSession(preserve), state # "NONE"
  PROVE  /\ Moves
         /\ state' = IF state \in Terminal THEN state ELSE "FAILED"
         /\ plan'.status = "AVAILABLE" => plan.status = "AVAILABLE"
<1>1. CASE state \in Terminal
  BY <1>1 DEF FailSession, Moves
<1>2. CASE state \notin Terminal
  <2>1. state' = "FAILED"
    BY <1>2 DEF FailSession
  <2>2. state \in Undecided
    BY <1>2 DEF Undecided, TypeOK
  <2>3. CASE ~ClaimOpen
    BY <1>2, <2>1, <2>2, <2>3 DEF FailSession, Moves, SessionState, Terminal
  <2>4. CASE ClaimOpen
    <3>1. CloseClaim(preserve)
      BY <1>2, <2>4 DEF FailSession
    <3>2. plan'.status = "AVAILABLE" => plan.status = "AVAILABLE"
      BY <3>1 DEF CloseClaim, TypeOK, RefreshPlan
    <3> QED
      BY <1>2, <2>1, <2>2, <3>2 DEF Moves, SessionState, Terminal
  <2> QED
    BY <2>3, <2>4
<1> QED
  BY <1>1, <1>2

LEMMA AcceptMoves ==
  ASSUME TypeOK, NEW tasks \in SUBSET Task, NEW output \in [tasks -> Output],
         PersistValidation(tasks, output) \/ PersistRejection(tasks, output),
         state \in {"COLLECTING", "REOBSERVING"}, plan.status # "AVAILABLE"
  PROVE  /\ Moves
         /\ state' \notin InFlight
         /\ plan'.status = "AVAILABLE" => state' = "BLOCKED_NO_CUT"
<1>1. state \in Undecided
  BY DEF Undecided, SessionState, InFlight, Terminal
<1>2. CASE PersistRejection(tasks, output)
  <2>1. state' = "FAILED" /\ plan' = plan
    BY <1>2 DEF PersistRejection
  <2> QED
    BY <1>1, <2>1 DEF Moves, SessionState, InFlight, Terminal
<1>3. CASE PersistValidation(tasks, output)
  <2> DEFINE outcome == OutcomeOf(tasks, output)
  <2>1. state' = StateFor(outcome) /\ outcome \in Outcomes
    BY <1>3, OutcomeType DEF PersistValidation
  <2>2. state' \in {"READY_AT_CURRENT_HEAD", "BLOCKED_NO_CUT", "CONSISTENT_DENY",
                    "HISTORICAL_STALE"}
    BY <2>1 DEF StateFor
  <2>3. plan'.status = "AVAILABLE" => outcome = "NO_VALID_OBSERVED_WORLD_CUT"
    BY <1>3 DEF PersistValidation, TypeOK, RefreshPlan
  <2>4. outcome = "NO_VALID_OBSERVED_WORLD_CUT" => state' = "BLOCKED_NO_CUT"
    BY <2>1 DEF StateFor
  <2> QED
    BY <1>1, <2>2, <2>3, <2>4 DEF Moves, SessionState, InFlight, Terminal
<1> QED
  BY <1>2, <1>3

(* Every step creates or deletes the Session, publishes the Effect, commits to *)
(* the World, or leaves World and Effects alone and only moves the Session on. *)
Steady == EffectsKept /\ Moves

LEMMA BackgroundMoves ==
  ASSUME TypeOK, OwnerInv, Background
  PROVE  Steady /\ OwnerInv'
<1> USE DEF OwnerInv, Steady, EffectsKept, pointerVars, recordVars, backgroundUnchanged,
            failUnchanged
<1>1. CASE TransitionToCollecting
  BY <1>1 DEF TransitionToCollecting, Moves, Undecided, SessionState, InFlight, Terminal
<1>2. CASE PackFails
  BY <1>2 DEF PackFails, Moves
<1>3. CASE CloseBeforeJoin
  <2>1. /\ Moves /\ state' = "FAILED"
        /\ plan'.status = "AVAILABLE" => plan.status = "AVAILABLE"
    BY <1>3, FailMoves DEF CloseBeforeJoin, FanOutSettled, Terminal
  <2>2. AdapterFailed'
    BY <1>3 DEF CloseBeforeJoin, AdapterFailed
  <2> QED
    BY <1>3, <2>1, <2>2 DEF CloseBeforeJoin, FanOutSettled
<1>4. CASE JoinAccepts
  <2>1. task = "fanout"
    BY <1>4 DEF JoinAccepts, JoinBegins, FanOutSettled, AdapterFailed
  <2> QED
    BY <1>4, <2>1 DEF JoinAccepts, Moves
<1>5. CASE JoinRejects
  BY <1>5 DEF JoinRejects, JoinBegins, FanOutSettled, Moves
<1>6. CASE AcceptInitial
  <2>1. PICK output \in [Roles -> Output] :
          PersistValidation(Roles, output) \/ PersistRejection(Roles, output)
    BY <1>6 DEF AcceptInitial
  <2>2. /\ Moves /\ state' \notin InFlight
        /\ plan'.status = "AVAILABLE" => state' = "BLOCKED_NO_CUT"
    BY <1>6, <2>1, AcceptMoves, TaskFacts DEF AcceptInitial
  <2>3. state # "NONE" /\ reobs = "idle"
    BY <1>6 DEF AcceptInitial
  <2>4. state' # "NONE"
    BY <2>2, <2>3 DEF Moves
  <2> QED
    BY <1>6, <2>2, <2>3, <2>4 DEF AcceptInitial
<1>7. CASE AcceptInitialThrows
  BY <1>7 DEF AcceptInitialThrows, Moves
<1>8. CASE CloseBackgroundFailure
  <2>1. /\ Moves /\ state' = "FAILED"
        /\ plan'.status = "AVAILABLE" => plan.status = "AVAILABLE"
    BY <1>8, FailMoves DEF CloseBackgroundFailure, Terminal
  <2> QED
    BY <1>8, <2>1 DEF CloseBackgroundFailure
<1>9. CASE ReleaseOwnership
  BY <1>9 DEF ReleaseOwnership, Moves
<1> QED
  BY <1>1, <1>2, <1>3, <1>4, <1>5, <1>6, <1>7, <1>8, <1>9 DEF Background


LEMMA RefreshMoves ==
  ASSUME TypeOK, OwnerInv, Refresh
  PROVE  Steady /\ OwnerInv'
<1> USE DEF OwnerInv, Steady, EffectsKept, pointerVars, recordVars, refreshUnchanged,
            failUnchanged
<1>0. /\ state = "REOBSERVING" /\ plan.status # "AVAILABLE" /\ up
      /\ task \in {"none", "settled"}
  BY DEF Refresh, TypeOK, BackgroundStep, CaptureRefreshObservation, CaptureThrows,
         RefreshPack, RefreshRunFailed, AcceptRefresh, AcceptRefreshThrows, FailRefresh
<1>1. CASE CaptureRefreshObservation
  BY <1>0, <1>1 DEF CaptureRefreshObservation, Moves
<1>2. CASE CaptureThrows
  BY <1>0, <1>2 DEF CaptureThrows, Moves
<1>3. CASE RefreshPack
  BY <1>0, <1>3 DEF RefreshPack, Moves
<1>4. CASE RefreshRunFailed
  BY <1>0, <1>4 DEF RefreshRunFailed, Moves
<1>5. CASE AcceptRefresh
  <2>1. PICK output \in [{Reobs} -> Output] :
          PersistValidation({Reobs}, output) \/ PersistRejection({Reobs}, output)
    BY <1>5 DEF AcceptRefresh
  <2>2. {Reobs} \in SUBSET Task
    BY TaskFacts
  <2>3. /\ Moves
        /\ plan'.status = "AVAILABLE" => state' = "BLOCKED_NO_CUT"
    BY <1>0, <2>1, <2>2, AcceptMoves
  <2>4. state' # "NONE"
    BY <1>0, <2>3 DEF Moves
  <2> QED
    BY <1>0, <1>5, <2>3, <2>4 DEF AcceptRefresh
<1>6. CASE AcceptRefreshThrows
  BY <1>0, <1>6 DEF AcceptRefreshThrows, Moves
<1>7. CASE FailRefresh
  <2>1. /\ Moves /\ state' = "FAILED"
        /\ plan'.status = "AVAILABLE" => plan.status = "AVAILABLE"
    BY <1>0, <1>7, FailMoves DEF FailRefresh, Terminal
  <2> QED
    BY <1>0, <1>7, <2>1 DEF FailRefresh
<1> QED
  BY <1>1, <1>2, <1>3, <1>4, <1>5, <1>6, <1>7 DEF Refresh

LEMMA ObserverMoves ==
  ASSUME TypeOK, OwnerInv, NEW t \in Task, DispatchBindPoll(t) \/ ObserverWriteFails(t)
  PROVE  Steady /\ OwnerInv'
<1>1. PICK from \in {"start", "send", "poll", "recheck"}, to \in DispatchStep :
        Step(t, from, to)
  BY DEF DispatchBindPoll, TransitionToDispatching, FailUnbound, BindRunOnce,
         MirrorRunning, MirrorCompleted, MirrorStopped, FailBound, ReturnOutput,
         RejectCompletedOutput, ObserverWriteFails, DispatchStep
<1>2. observerUnchanged
  BY DEF DispatchBindPoll, TransitionToDispatching, FailUnbound, BindRunOnce,
         MirrorRunning, MirrorCompleted, MirrorStopped, FailBound, ReturnOutput,
         RejectCompletedOutput, ObserverWriteFails
<1>3. AdapterFailed => AdapterFailed'
  BY <1>1, TaskFacts DEF AdapterFailed, Step, TypeOK
<1> QED
  BY <1>2, <1>3 DEF observerUnchanged, pointerVars, OwnerInv, Steady, EffectsKept, Moves

LEMMA RestartMoves ==
  ASSUME TypeOK, OwnerInv, Restart
  PROVE  Steady /\ OwnerInv'
<1>1. EffectsKept /\ task' = "none" /\ reobs' = "idle" /\ up'
  BY DEF Restart, OwnerInv, EffectsKept
<1>2. CASE state \notin InFlight
  BY <1>1, <1>2 DEF Restart, OwnerInv, Steady, Moves
<1>3. CASE state \in InFlight
  <2>1. state' = "INTERRUPTED" /\ plan.status # "AVAILABLE"
    BY <1>3 DEF Restart, RecoverInFlightSession, OwnerInv, InFlight
  <2>2. plan'.status # "AVAILABLE"
    BY <1>3, <2>1 DEF Restart, RecoverInFlightSession, TypeOK, RefreshPlan
  <2>3. Moves
    BY <1>3, <2>1 DEF Moves, Undecided, SessionState, InFlight, Terminal
  <2> QED
    BY <1>1, <2>1, <2>2, <2>3 DEF Steady, OwnerInv
<1> QED
  BY <1>2, <1>3

LEMMA EnvironmentMoves ==
  ASSUME TypeOK, OwnerInv, Environment
  PROVE  /\ OwnerInv'
         /\ \/ Steady
            \/ \E r \in Roles, value \in Values : WorldCommit(r, value)
<1> USE DEF OwnerInv, pointerVars, recordVars, processVars
<1>1. CASE Crash
  BY <1>1 DEF Crash, Steady, EffectsKept, Moves
<1>2. CASE \E r \in Roles, value \in Values : WorldCommit(r, value)
  <2>1. UNCHANGED <<state, plan, up, task, reobs, pc>>
    BY <1>2 DEF WorldCommit
  <2> QED
    BY <1>2, <2>1 DEF AdapterFailed
<1>3. CASE \E t \in Task : ObserverWriteFails(t)
  BY <1>3, ObserverMoves
<1>4. CASE BackgroundWriteFails
  <2>1. Steady
    BY <1>4 DEF BackgroundWriteFails, Steady, EffectsKept, Moves
  <2>2. task' \in {"closing", "closing2", "stuck"}
    BY <1>4 DEF BackgroundWriteFails, AfterFault
  <2>3. state \in {"DISPATCHING", "COLLECTING", "FAILED"}
    BY <1>4 DEF BackgroundWriteFails, FanOutSettled
  <2> QED
    BY <1>4, <2>1, <2>2, <2>3 DEF BackgroundWriteFails
<1>5. CASE RefreshWriteFails
  <2>1. AdapterFailed => AdapterFailed'
    <3> SUFFICES ASSUME NEW r \in Roles, pc[r] = "failed" PROVE pc'[r] = "failed"
      BY DEF AdapterFailed
    <3>1. r # Reobs /\ r \in Task
      BY NamesDistinct, TaskFacts
    <3> QED
      BY <1>5, <3>1 DEF RefreshWriteFails, TypeOK
  <2> QED
    BY <1>5, <2>1 DEF RefreshWriteFails, refreshUnchanged, Steady, EffectsKept, Moves
<1> QED
  BY <1>1, <1>2, <1>3, <1>4, <1>5 DEF Environment

LEMMA ClientMoves ==
  ASSUME TypeOK, OwnerInv, Client
  PROVE  /\ OwnerInv'
         /\ \/ Steady
            \/ \E s \in Scenarios : CreateSession(s)
            \/ \E expected \in Revisions : CommitEffect(expected)
            \/ ResetDemo
<1> USE DEF OwnerInv
<1>1. CASE \E s \in Scenarios : CreateSession(s)
  BY <1>1 DEF CreateSession
<1>2. ASSUME NEW expected \in Revisions, InvalidatePlan(expected)
      PROVE  OwnerInv' /\ Steady
  <2>1. state = "BLOCKED_NO_CUT" /\ state' = "UNSTABLE_WORLD"
    BY <1>2 DEF InvalidatePlan, Claimable
  <2>2. plan'.status # "AVAILABLE"
    BY <1>2 DEF InvalidatePlan, TypeOK, RefreshPlan
  <2>3. Steady
    BY <1>2, <2>1
    DEF InvalidatePlan, Steady, EffectsKept, Moves, Undecided, SessionState, InFlight, Terminal
  <2> QED
    BY <1>2, <2>1, <2>2, <2>3 DEF InvalidatePlan, processVars
<1>3. ASSUME NEW expected \in Revisions, ClaimPlan(expected)
      PROVE  OwnerInv' /\ Steady
  <2>1. state = "BLOCKED_NO_CUT" /\ state' = "REOBSERVING"
    BY <1>3 DEF ClaimPlan, Claimable
  <2>2. plan'.status # "AVAILABLE"
    BY <1>3 DEF ClaimPlan, TypeOK, RefreshPlan
  <2>3. Steady
    BY <1>3, <2>1
    DEF ClaimPlan, Steady, EffectsKept, Moves, Undecided, SessionState, InFlight, Terminal
  <2> QED
    BY <1>3, <2>1, <2>2, <2>3 DEF ClaimPlan, Claimable
<1>4. ASSUME NEW expected \in Revisions, CommitRace(expected)
      PROVE  OwnerInv' /\ Steady
  <2>1. state = "READY_AT_CURRENT_HEAD" /\ state' = "COMMIT_RACE"
    BY <1>4 DEF CommitRace, PermitHeld
  <2>2. Steady
    BY <1>4, <2>1
    DEF CommitRace, Steady, EffectsKept, Moves, Undecided, SessionState, InFlight, Terminal
  <2> QED
    BY <1>4, <2>1, <2>2 DEF CommitRace, processVars
<1>5. ASSUME NEW expected \in Revisions, CommitEffect(expected)
      PROVE  OwnerInv'
  BY <1>5 DEF CommitEffect, PermitHeld, processVars
<1>6. CASE ResetDemo
  BY <1>6 DEF ResetDemo, NoPlan, processVars, Terminal
<1> QED
  BY <1>1, <1>2, <1>3, <1>4, <1>5, <1>6 DEF Client

LEMMA NextMoves ==
  ASSUME TypeOK, OwnerInv, [Next]_vars
  PROVE  /\ OwnerInv'
         /\ \/ Steady
            \/ \E s \in Scenarios : CreateSession(s)
            \/ \E expected \in Revisions : CommitEffect(expected)
            \/ ResetDemo
            \/ \E r \in Roles, value \in Values : WorldCommit(r, value)
<1>1. CASE Client
  BY <1>1, ClientMoves
<1>2. CASE Background
  BY <1>2, BackgroundMoves
<1>3. CASE Refresh
  BY <1>3, RefreshMoves
<1>4. CASE \E t \in Task : DispatchBindPoll(t)
  BY <1>4, ObserverMoves
<1>5. CASE Restart
  BY <1>5, RestartMoves
<1>6. CASE Environment
  BY <1>6, EnvironmentMoves
<1>7. CASE UNCHANGED vars
  BY <1>7 DEF vars, OwnerInv, AdapterFailed, Steady, EffectsKept, Moves
<1> QED
  BY <1>1, <1>2, <1>3, <1>4, <1>5, <1>6, <1>7 DEF Next


LEMMA InitOwners == Init => OwnerInv
  BY DEF Init, NoSession, NoPlan, OwnerInv

-----------------------------------------------------------------------------
(* The World under the service *)

(* The one change of a commit from outside, as the lemmas on commits take it. *)
LEMMA WorldCommitFacts ==
  ASSUME TypeOK, NEW r \in Roles, NEW value \in Values, WorldCommit(r, value)
  PROVE  LET changes == [q \in {r} |-> value] IN
         /\ head' = head + 1 /\ head + 1 \in Nat
         /\ versions' = Committed(versions, head + 1, changes)
         /\ DOMAIN changes = {r} /\ changes[r] = value
         /\ UNCHANGED <<effects, state>>
         /\ state # "NONE"
  BY DEF WorldCommit, Commit, TypeOK, LedgerTypeOK, pointerVars

LEMMA NextKeepsTiles ==
  ASSUME TypeOK, OwnerInv, HistoryTiles, [Next]_vars
  PROVE  HistoryTiles'
<1>1. CASE Steady
  BY <1>1 DEF Steady, EffectsKept, HistoryTiles
<1>2. ASSUME NEW s \in Scenarios, CreateSession(s)
      PROVE  HistoryTiles'
  BY <1>2, FixturesPrepared DEF CreateSession, FixtureIsPrepared, HistoryTiles
<1>3. ASSUME NEW expected \in Revisions, CommitEffect(expected)
      PROVE  HistoryTiles'
  BY <1>3 DEF CommitEffect, HistoryTiles
<1>4. CASE ResetDemo
  BY <1>4 DEF ResetDemo, HistoryTiles, Tiles, WithinHistory, NoOverlap, NoGap, NoHistory
<1>5. ASSUME NEW r \in Roles, NEW value \in Values, WorldCommit(r, value)
      PROVE  HistoryTiles'
  <2> DEFINE changes == [q \in {r} |-> value]
  <2>1. /\ head' = head + 1
        /\ versions' = Committed(versions, head + 1, changes)
    BY <1>5, WorldCommitFacts
  <2>2. \A q \in DOMAIN changes : changes[q] \in Values
    OBVIOUS
  <2>3. /\ head \in Nat /\ versions \in [Roles -> SUBSET Version]
        /\ Tiles(versions, head)
    BY DEF TypeOK, LedgerTypeOK, HistoryTiles
  <2> HIDE DEF changes
  <2>4. Tiles(Committed(versions, head + 1, changes), head + 1)
    BY <2>2, <2>3, CommittedTiles
  <2> QED
    BY <2>1, <2>4 DEF HistoryTiles
<1> QED
  BY <1>1, <1>2, <1>3, <1>4, <1>5, NextMoves

-----------------------------------------------------------------------------
(* The Effect has a common cut *)

(* The inductive form of EffectAtCommonCut: the receipts an Effect names were  *)
(* issued before its cut, so that the past that later commits keep covers them.*)
CutInv ==
  \A i \in DOMAIN effects :
    /\ effects[i].cut <= head
    /\ \A r \in Roles :
         /\ effects[i].evidence[r].at <= effects[i].cut
         /\ \E v \in versions[r] :
              /\ v.from = effects[i].evidence[r].rev
              /\ Contains(v, effects[i].evidence[r].at)
              /\ Contains(v, effects[i].cut)
              /\ v.value = "ALLOW"

LEMMA EffectTyped ==
  ASSUME TypeOK, NEW i \in DOMAIN effects
  PROVE  /\ effects[i].cut \in Nat
         /\ \A r \in Roles : effects[i].evidence[r] \in Receipt
<1>1. effects \in Seq(EffectRecord)
  BY DEF TypeOK
<1>2. effects[i] \in EffectRecord
  BY <1>1
<1> QED
  BY <1>2 DEF EffectRecord

LEMMA NextKeepsCuts ==
  ASSUME TypeOK, OwnerInv, CutInv, [Next]_vars
  PROVE  CutInv'
<1>1. CASE Steady
  BY <1>1 DEF Steady, EffectsKept, CutInv
<1>2. ASSUME NEW s \in Scenarios, CreateSession(s)
      PROVE  CutInv'
  <2>1. versions = NoHistory /\ effects' = effects
    BY <1>2 DEF CreateSession
  <2>2. DOMAIN effects = {}
    BY <2>1, TaskFacts DEF CutInv, NoHistory
  <2> QED
    BY <2>1, <2>2 DEF CutInv
<1>3. ASSUME NEW expected \in Revisions, CommitEffect(expected)
      PROVE  CutInv'
  <2> DEFINE e == [cut |-> head, evidence |-> CurrentReceipts]
  <2>1. /\ effects = <<>> /\ effects' = Append(effects, e)
        /\ UNCHANGED <<head, versions>>
        /\ EvidenceAllowsAt(head)
    BY <1>3 DEF CommitEffect, PermitHeld, EvidenceClosure
  <2>2. effects' = <<e>>
    BY <2>1
  <2>3. ASSUME NEW r \in Roles
        PROVE  /\ e.evidence[r].at <= e.cut
               /\ \E v \in versions[r] :
                    /\ v.from = e.evidence[r].rev
                    /\ Contains(v, e.evidence[r].at)
                    /\ Contains(v, e.cut)
                    /\ v.value = "ALLOW"
    BY <2>1 DEF EvidenceAllowsAt, CurrentReceipts
  <2>4. e.cut <= head
    BY DEF TypeOK, LedgerTypeOK
  <2> HIDE DEF e
  <2>5. DOMAIN effects' = {1} /\ effects'[1] = e
    BY <2>2
  <2> QED
    BY <2>1, <2>3, <2>4, <2>5 DEF CutInv
<1>4. CASE ResetDemo
  BY <1>4 DEF ResetDemo, CutInv
<1>5. ASSUME NEW q \in Roles, NEW value \in Values, WorldCommit(q, value)
      PROVE  CutInv'
  <2> DEFINE changes == [p \in {q} |-> value]
  <2>1. /\ head' = head + 1 /\ head \in Nat /\ effects' = effects
        /\ versions \in [Roles -> SUBSET Version]
        /\ versions' = Committed(versions, head + 1, changes)
    BY <1>5, WorldCommitFacts DEF TypeOK, LedgerTypeOK
  <2> HIDE DEF changes
  <2> SUFFICES ASSUME NEW i \in DOMAIN effects
               PROVE  /\ effects[i].cut <= head'
                      /\ \A r \in Roles :
                           /\ effects[i].evidence[r].at <= effects[i].cut
                           /\ \E w \in versions'[r] :
                                /\ w.from = effects[i].evidence[r].rev
                                /\ Contains(w, effects[i].evidence[r].at)
                                /\ Contains(w, effects[i].cut)
                                /\ w.value = "ALLOW"
    BY <2>1 DEF CutInv
  <2>2. effects[i].cut \in Nat /\ effects[i].cut <= head
    BY EffectTyped DEF CutInv
  <2>3. ASSUME NEW r \in Roles
        PROVE  \E w \in versions'[r] :
                 /\ w.from = effects[i].evidence[r].rev
                 /\ Contains(w, effects[i].evidence[r].at)
                 /\ Contains(w, effects[i].cut)
                 /\ w.value = "ALLOW"
    <3>1. /\ effects[i].evidence[r].at \in Nat
          /\ effects[i].evidence[r].at <= effects[i].cut
      BY EffectTyped DEF CutInv, Receipt
    <3>2. PICK v \in versions[r] :
            /\ v.from = effects[i].evidence[r].rev
            /\ Contains(v, effects[i].evidence[r].at)
            /\ Contains(v, effects[i].cut)
            /\ v.value = "ALLOW"
      BY DEF CutInv
    <3>3. effects[i].evidence[r].at \in 0..head /\ effects[i].cut \in 0..head
      BY <2>1, <2>2, <3>1
    <3>4. PICK w \in Committed(versions, head + 1, changes)[r] :
            /\ w.from = v.from /\ w.value = v.value
            /\ \A s \in 0..head : Contains(v, s) => Contains(w, s)
      BY <2>1, CommitKeepsVersion
    <3> QED
      BY <2>1, <3>2, <3>3, <3>4
  <2> QED
    BY <2>1, <2>2, <2>3 DEF CutInv
<1> QED
  BY <1>1, <1>2, <1>3, <1>4, <1>5, NextMoves

ServiceInv == TypeOK /\ OwnerInv /\ HistoryTiles /\ CutInv

LEMMA InitService == Init => ServiceInv
<1> SUFFICES ASSUME Init PROVE ServiceInv
  OBVIOUS
<1>1. TypeOK /\ OwnerInv
  BY InitTypes, InitOwners
<1>2. HistoryTiles
  BY DEF Init, NoSession, HistoryTiles, Tiles, WithinHistory, NoOverlap, NoGap, NoHistory
<1>3. CutInv
  BY DEF Init, NoSession, CutInv
<1> QED
  BY <1>1, <1>2, <1>3 DEF ServiceInv

LEMMA NextService == ServiceInv /\ [Next]_vars => ServiceInv'
<1> SUFFICES ASSUME ServiceInv, [Next]_vars PROVE ServiceInv'
  OBVIOUS
<1>1. TypeOK'
  BY NextTypes DEF ServiceInv
<1>2. OwnerInv'
  BY NextMoves DEF ServiceInv
<1>3. HistoryTiles'
  BY NextKeepsTiles DEF ServiceInv
<1>4. CutInv'
  BY NextKeepsCuts DEF ServiceInv
<1> QED
  BY <1>1, <1>2, <1>3, <1>4 DEF ServiceInv

(* Whatever crashes, fails to be written, or is committed to the World later,  *)
(* every Effect keeps a sequence number at which the evidence of all three     *)
(* Roles was valid together and allowed it (effect-gate.ts                     *)
(* commitProtectedEffect).                                                     *)
THEOREM EffectsAreSafe == Spec => []EffectAtCommonCut
<1>1. ServiceInv => EffectAtCommonCut
  BY DEF ServiceInv, CutInv, EffectAtCommonCut
<1> QED
  BY <1>1, InitService, NextService, PTL DEF Spec

(* No late continuation, retry, crash or recovery reopens a Session that ended *)
(* (epochguard-service.ts failSession, runInitialFanOut, refresh).             *)
THEOREM EndedSessionsStayEnded == Spec => TerminalIsFinal
<1>1. ServiceInv /\ [Next]_vars => [(state \in Terminal) => state' \in {state, "NONE"}]_vars
  <2> SUFFICES ASSUME ServiceInv, [Next]_vars, state \in Terminal
               PROVE  state' \in {state, "NONE"}
    OBVIOUS
  <2>1. CASE Steady
    BY <2>1 DEF Steady, Moves, Undecided
  <2>2. ASSUME NEW s \in Scenarios, CreateSession(s) PROVE FALSE
    BY <2>2 DEF CreateSession, Terminal
  <2>3. ASSUME NEW expected \in Revisions, CommitEffect(expected) PROVE FALSE
    BY <2>3 DEF CommitEffect, PermitHeld, Terminal
  <2>4. CASE ResetDemo
    BY <2>4 DEF ResetDemo
  <2>5. ASSUME NEW r \in Roles, NEW value \in Values, WorldCommit(r, value)
        PROVE  state' = state
    BY <2>5, WorldCommitFacts DEF ServiceInv
  <2> QED
    BY <2>1, <2>2, <2>3, <2>4, <2>5, NextMoves DEF ServiceInv
<1> QED
  BY <1>1, InitService, NextService, PTL DEF Spec, TerminalIsFinal


-----------------------------------------------------------------------------
(* A Session has an Effect exactly when it is COMMITTED *)

LEMMA NextKeepsCommitted ==
  ASSUME ServiceInv, EffectMeansCommitted, [Next]_vars
  PROVE  EffectMeansCommitted'
<1> USE DEF EffectMeansCommitted
<1>1. CASE Steady
  BY <1>1 DEF Steady, EffectsKept, Moves, Undecided, Terminal
<1>2. ASSUME NEW s \in Scenarios, CreateSession(s)
      PROVE  EffectMeansCommitted'
  BY <1>2 DEF CreateSession
<1>3. ASSUME NEW expected \in Revisions, CommitEffect(expected)
      PROVE  EffectMeansCommitted'
  <2>1. effects = <<>> /\ state' = "COMMITTED"
    BY <1>3 DEF CommitEffect, PermitHeld
  <2>2. effects' = <<[cut |-> head, evidence |-> CurrentReceipts]>>
    BY <1>3, <2>1 DEF CommitEffect
  <2>3. Len(effects') = 1 /\ effects' # <<>>
    BY <2>2
  <2> QED
    BY <2>1, <2>3
<1>4. CASE ResetDemo
  BY <1>4 DEF ResetDemo
<1>5. ASSUME NEW r \in Roles, NEW value \in Values, WorldCommit(r, value)
      PROVE  EffectMeansCommitted'
  BY <1>5, WorldCommitFacts DEF ServiceInv
<1> QED
  BY <1>1, <1>2, <1>3, <1>4, <1>5, NextMoves DEF ServiceInv

PromiseInv == ServiceInv /\ EffectMeansCommitted

LEMMA InitPromiseInv == Init => PromiseInv
<1> SUFFICES ASSUME Init PROVE PromiseInv
  OBVIOUS
<1>1. EffectMeansCommitted
  BY DEF Init, NoSession, EffectMeansCommitted
<1> QED
  BY <1>1, InitService DEF PromiseInv

LEMMA NextPromiseInv == PromiseInv /\ [Next]_vars => PromiseInv'
  BY NextService, NextKeepsCommitted DEF PromiseInv

(* No crash, late continuation or second request leaves an Effect without a    *)
(* COMMITTED Session, or the other way round, and none adds a second Effect    *)
(* (effect-gate.ts commitProtectedEffect, epochguard-service.ts resetDemo).    *)
THEOREM EffectsAreCommitted == Spec => []EffectMeansCommitted
<1>1. PromiseInv => EffectMeansCommitted
  BY DEF PromiseInv
<1> QED
  BY <1>1, InitPromiseInv, NextPromiseInv, PTL DEF Spec

-----------------------------------------------------------------------------
(* The truth of the World *)

LEMMA TruthAfterCommit ==
  ASSUME NEW vs \in [Roles -> SUBSET Version], NEW h \in Nat, WithinHistory(vs, h),
         NEW r \in Roles, NEW value \in Values,
         NEW changes, DOMAIN changes = {r}, changes[r] = value
  PROVE  Truth(Committed(vs, h + 1, changes), h + 1)
           = [Truth(vs, h) EXCEPT ![r] = {[from |-> h + 1, value |-> value]}]
<1> DEFINE next == Committed(vs, h + 1, changes)
           new == Opened(value, h + 1)
<1>0. h + 1 \in Nat
  OBVIOUS
<1>1. /\ new.from = h + 1 /\ new.value = value /\ new.until = Open
      /\ new \in Version
  BY <1>0, OpenedFacts
<1>2. ASSUME NEW q \in Roles, NEW v \in vs[q]
      PROVE  /\ v \in Version
             /\ v.from <= h
             /\ v.until # Open => v.until <= h
  BY <1>2 DEF WithinHistory
<1>3. ASSUME NEW q \in Roles, q # r
      PROVE  ValuesAt(next, q, h + 1) = ValuesAt(vs, q, h)
  <2>1. next[q] = vs[q]
    BY <1>0, <1>3 DEF Committed
  <2>2. ASSUME NEW v \in vs[q]
        PROVE  Contains(v, h + 1) <=> Contains(v, h)
    BY <1>2 DEF Contains, Version, Open
  <2> QED
    BY <2>1, <2>2 DEF ValuesAt, VersionsAt
<1>4. ValuesAt(next, r, h + 1) = {[from |-> h + 1, value |-> value]}
  <2>1. next[r] = {ClosedAt(v, h + 1) : v \in vs[r]} \cup {new}
    BY <1>0 DEF Committed
  <2>2. ASSUME NEW v \in vs[r]
        PROVE  ~Contains(ClosedAt(v, h + 1), h + 1)
    <3>1. ClosedAt(v, h + 1).until = IF v.until = Open THEN h + 1 ELSE v.until
      BY <1>0, <1>2, ClosedAtFacts
    <3> QED
      BY <1>2, <3>1 DEF Contains, Version, Open
  <2>3. Contains(new, h + 1)
    BY <1>0, <1>1 DEF Contains
  <2> HIDE DEF next, new
  <2>4. VersionsAt(next, r, h + 1) = {new}
    BY <2>1, <2>2, <2>3 DEF VersionsAt
  <2> QED
    BY <1>1, <2>4 DEF ValuesAt
<1> HIDE DEF next
<1>5. /\ Truth(next, h + 1) = [q \in Roles |-> ValuesAt(next, q, h + 1)]
      /\ Truth(vs, h) = [q \in Roles |-> ValuesAt(vs, q, h)]
  BY DEF Truth
<1>6. Truth(next, h + 1) = [Truth(vs, h) EXCEPT ![r] = {[from |-> h + 1, value |-> value]}]
  BY <1>3, <1>4, <1>5
<1> QED
  BY <1>6 DEF next

LEMMA TruthType ==
  ASSUME NEW vs \in [Roles -> SUBSET Version], NEW h
  PROVE  Truth(vs, h) \in [Roles -> SUBSET Promise!Fact]
<1>1. ASSUME NEW r \in Roles, NEW x \in ValuesAt(vs, r, h)
      PROVE  x \in Promise!Fact
  <2>1. PICK v \in vs[r] : x = [from |-> v.from, value |-> v.value]
    BY DEF ValuesAt, VersionsAt
  <2>2. v \in Version
    OBVIOUS
  <2> QED
    BY <2>1, <2>2 DEF Promise!Fact, Version, Values
<1> QED
  BY <1>1 DEF Truth

LEMMA NoTruth == \A h : Truth(NoHistory, h) = Promise!Unknown
  BY DEF Truth, NoHistory, ValuesAt, VersionsAt, Promise!Unknown

-----------------------------------------------------------------------------
(* Steps *)

LEMMA StatusFacts ==
  /\ state = "NONE" => CaseStatus = "closed"
  /\ state = "COMMITTED" => CaseStatus = "published"
  /\ state \in Terminal \ {"COMMITTED"} => CaseStatus = "refused"
  /\ state \in Undecided => CaseStatus = "undecided"
  BY DEF CaseStatus, Terminal, Undecided

LEMMA StatusFactsNext ==
  /\ state' = "NONE" => CaseStatus' = "closed"
  /\ state' = "COMMITTED" => CaseStatus' = "published"
  /\ state' \in Terminal \ {"COMMITTED"} => CaseStatus' = "refused"
  /\ state' \in Undecided => CaseStatus' = "undecided"
  BY DEF CaseStatus, Terminal, Undecided

LEMMA NothingPublished == effects = <<>> => PublishedEffects = {}
  BY DEF PublishedEffects

LEMMA QuietStep ==
  ASSUME PromiseInv, Steady
  PROVE  Promise!Refuse \/ UNCHANGED Promise!promiseVars
<1>1. /\ UNCHANGED <<head, Truth(versions, head), PublishedEffects>>
  BY DEF Steady, EffectsKept, Truth, ValuesAt, VersionsAt, PublishedEffects
<1>2. CASE UNCHANGED state
  <2>1. UNCHANGED CaseStatus
    BY <1>2 DEF CaseStatus
  <2> QED
    BY <1>1, <2>1 DEF Promise!promiseVars
<1>3. CASE state \in Undecided /\ state' \in SessionState \ {"NONE", "COMMITTED"}
  <2>1. CaseStatus = "undecided"
    BY <1>3, StatusFacts
  <2>2. CASE state' \in Undecided
    BY <1>1, <2>1, <2>2, StatusFactsNext DEF Promise!promiseVars
  <2>3. CASE state' \in Terminal \ {"COMMITTED"}
    BY <1>1, <2>1, <2>3, StatusFactsNext DEF Promise!Refuse
  <2> QED
    BY <1>3, <2>2, <2>3 DEF Undecided
<1> QED
  BY <1>2, <1>3 DEF Steady, Moves

LEMMA CreateStep ==
  ASSUME PromiseInv, NEW s \in Scenarios, CreateSession(s)
  PROVE  Promise!OpenCase
<1>1. CaseStatus = "closed"
  BY StatusFacts DEF CreateSession
<1>2. CaseStatus' = "undecided"
  BY StatusFactsNext DEF CreateSession, Undecided, SessionState, InFlight, Terminal
<1>3. head' \in Nat /\ versions' \in [Roles -> SUBSET Version]
  BY FixturesPrepared DEF CreateSession, FixtureIsPrepared
<1>4. Truth(versions', head') \in [Roles -> SUBSET Promise!Fact]
  BY <1>3, TruthType
<1>5. UNCHANGED PublishedEffects
  BY DEF CreateSession, PublishedEffects
<1> QED
  BY <1>1, <1>2, <1>3, <1>4, <1>5 DEF Promise!OpenCase, Promise!Fact, Truth

LEMMA ResetStep ==
  ASSUME PromiseInv, ResetDemo
  PROVE  Promise!CloseCase
<1>1. CaseStatus \in {"published", "refused"}
  BY StatusFacts DEF ResetDemo
<1>2. CaseStatus' = "closed"
  BY StatusFactsNext DEF ResetDemo
<1>3. head' = 0 /\ Truth(versions, head)' = Promise!Unknown
  BY NoTruth DEF ResetDemo
<1>4. PublishedEffects' = {}
  BY DEF ResetDemo, PublishedEffects
<1> QED
  BY <1>1, <1>2, <1>3, <1>4 DEF Promise!CloseCase

LEMMA CommitStep ==
  ASSUME PromiseInv, NEW expected, CommitEffect(expected)
  PROVE  Promise!Publish
<1> DEFINE e == [cut |-> head, evidence |-> CurrentReceipts]
<1>1. /\ effects = <<>> /\ state = "READY_AT_CURRENT_HEAD"
      /\ effects' = <<e>> /\ state' = "COMMITTED"
      /\ UNCHANGED <<head, versions>>
      /\ EvidenceAllowsAt(head)
  BY DEF CommitEffect, PermitHeld, EvidenceClosure
<1>2. CaseStatus = "undecided" /\ CaseStatus' = "published"
  BY <1>1, StatusFacts, StatusFactsNext DEF Undecided, SessionState, Terminal
<1>3. UNCHANGED <<head, Truth(versions, head)>>
  BY <1>1 DEF Truth, ValuesAt, VersionsAt
<1>4. ASSUME NEW r \in Roles
      PROVE  Basis(e)[r] \in Truth(versions, head)[r] /\ Basis(e)[r].value = "ALLOW"
  <2>1. PICK v \in versions[r] :
          v.from = receipt[current[r]].rev /\ Contains(v, head) /\ v.value = "ALLOW"
    BY <1>1 DEF EvidenceAllowsAt
  <2>2. [from |-> v.from, value |-> v.value] \in Truth(versions, head)[r]
    BY <2>1 DEF Truth, ValuesAt, VersionsAt
  <2>3. Basis(e)[r] = [from |-> v.from, value |-> v.value]
    BY <2>1 DEF Basis, CurrentReceipts
  <2> QED
    BY <2>2, <2>3 DEF Basis
<1>5. Basis(e) \in [Roles -> UNION {Truth(versions, head)[r] : r \in Roles}]
  BY <1>4 DEF Basis
<1>6. PublishedEffects = {}
  BY <1>1, NothingPublished
<1>7. PublishedEffects' = {[cut |-> head, basis |-> Basis(e)]}
  <2>1. PublishedEffects' =
          {[cut |-> effects'[i].cut, basis |-> Basis(effects'[i])] : i \in DOMAIN effects'}
    BY DEF PublishedEffects, Basis
  <2>2. DOMAIN effects' = {1} /\ effects'[1] = e /\ e.cut = head
    BY <1>1
  <2> HIDE DEF e
  <2> QED
    BY <2>1, <2>2
<1> HIDE DEF e
<1> QED
  BY <1>2, <1>3, <1>4, <1>5, <1>6, <1>7 DEF Promise!Publish

LEMMA WorldStep ==
  ASSUME PromiseInv, NEW r \in Roles, NEW value \in Values, WorldCommit(r, value)
  PROVE  Promise!WorldMoves(r)
<1> DEFINE changes == [q \in {r} |-> value]
<1>1. /\ head' = head + 1
      /\ versions' = Committed(versions, head + 1, changes)
      /\ DOMAIN changes = {r} /\ changes[r] = value
      /\ UNCHANGED <<effects, state>>
      /\ state # "NONE"
  BY WorldCommitFacts DEF PromiseInv, ServiceInv
<1> HIDE DEF changes
<1>2. /\ versions \in [Roles -> SUBSET Version] /\ head \in Nat
      /\ WithinHistory(versions, head)
      /\ state \in SessionState
  BY DEF PromiseInv, ServiceInv, TypeOK, LedgerTypeOK, HistoryTiles, Tiles
<1>3. Truth(versions, head)'
        = [Truth(versions, head) EXCEPT ![r] = {[from |-> head + 1, value |-> value]}]
  <2>1. Truth(Committed(versions, head + 1, changes), head + 1)
          = [Truth(versions, head) EXCEPT ![r] = {[from |-> head + 1, value |-> value]}]
    BY <1>1, <1>2, TruthAfterCommit
  <2>2. Truth(versions, head)' = Truth(versions', head')
    BY DEF Truth
  <2> QED
    BY <1>1, <2>1, <2>2
<1>4. UNCHANGED <<CaseStatus, PublishedEffects>>
  BY <1>1 DEF CaseStatus, PublishedEffects
<1>5. CaseStatus # "closed"
  BY <1>1 DEF CaseStatus
<1> QED
  BY <1>1, <1>3, <1>4, <1>5 DEF Promise!WorldMoves, Values

(* The service keeps the promise of ProtectedEffect under any interleaving,    *)
(* crash, failing write and commit from outside: an Effect is published in a   *)
(* step in which the World allows it, once, and an ended case stays ended      *)
(* (epochguard-service.ts, effect-gate.ts as a whole).                         *)
THEOREM ServiceKeepsPromise == Spec => KeepsPromise
<1>1. Init => Promise!Init
  <2> SUFFICES ASSUME Init PROVE Promise!Init
    OBVIOUS
  <2>1. head = 0 /\ versions = NoHistory /\ state = "NONE" /\ effects = <<>>
    BY DEF Init, NoSession
  <2> QED
    BY <2>1, NoTruth, StatusFacts, NothingPublished DEF Promise!Init
<1>2. PromiseInv /\ [Next]_vars => [Promise!Next]_(Promise!promiseVars)
  <2> SUFFICES ASSUME PromiseInv, [Next]_vars
               PROVE  Promise!Next \/ UNCHANGED Promise!promiseVars
    OBVIOUS
  <2>1. CASE Steady
    BY <2>1, QuietStep DEF Promise!Next
  <2>2. ASSUME NEW s \in Scenarios, CreateSession(s) PROVE Promise!Next
    BY <2>2, CreateStep DEF Promise!Next
  <2>3. ASSUME NEW expected \in Revisions, CommitEffect(expected) PROVE Promise!Next
    BY <2>3, CommitStep DEF Promise!Next
  <2>4. CASE ResetDemo
    BY <2>4, ResetStep DEF Promise!Next
  <2>5. ASSUME NEW r \in Roles, NEW value \in Values, WorldCommit(r, value)
        PROVE  Promise!Next
    BY <2>5, WorldStep DEF Promise!Next
  <2> QED
    BY <2>1, <2>2, <2>3, <2>4, <2>5, NextMoves DEF PromiseInv, ServiceInv
<1> QED
  BY <1>1, <1>2, InitPromiseInv, NextPromiseInv, PTL DEF Spec, KeepsPromise, Promise!Spec

=============================================================================
