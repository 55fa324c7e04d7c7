---------------------------- MODULE EvidenceProofs ----------------------------
(***************************************************************************)
(* Proofs about the records behind a Session: where the owners find them,  *)
(* that recovery accepts whatever a crash leaves, that evidence is used    *)
(* once and revisions fence clients, and that what validation persists is  *)
(* what the planner and the gate check later.                              *)
(***************************************************************************)
EXTENDS EpochGuardProofs

-----------------------------------------------------------------------------
(* Where the owners are and what they find *)

(* Which steps of the observers go with which step of their owner.           *)
ObserverInv ==
  /\ \A r \in Roles :
       /\ task \in {"none", "packs"} => pc[r] = "idle"
       /\ task # "fanout" => pc[r] \in {"idle", "ok", "failed", "error"}
       /\ task = "fanout" => pc[r] # "idle"
       /\ task = "accept" => pc[r] = "ok"
  /\ reobs # "run" => pc[Reobs] \in {"idle", "ok", "failed", "error"}
  /\ reobs \in {"idle", "capture", "pack"} => pc[Reobs] = "idle"

(* The Assignment, the Attempt and the Decision of one task.                 *)
RecordsAgree(t) ==
  /\ assignment[t] = "NONE" <=> attempt[t] = "NONE"
  /\ assignment[t] = "CREATED" => attempt[t] \in {"ASSIGNMENT_CREATED", "DISPATCHING"}
  /\ assignment[t] = "BOUND" => attempt[t] \in {"QUEUED", "RUNNING", "COMPLETED"}
  /\ assignment[t] = "CONSUMED" <=> attempt[t] = "ACCEPTED"
  /\ assignment[t] = "CONSUMED" <=> decision[t].status # "NONE"
  /\ decision[t].status = "ACTIVE" <=> current[RoleOf(t)] = t

(* An initial output waits for the join; once it is settled nobody reads it. *)
OutputWaits(t) == t \in Roles => task \in {"fanout", "accept"}

(* A task whose Assignment was made and whose observer did nothing yet.       *)
NotDispatched(t) ==
  \/ pc[t] = "start"
  \/ t \in Roles /\ task = "packs"
  \/ t = Reobs /\ reobs \in {"capture", "pack"}

(* What the last mutation of an observer left for the next one.              *)
ObserverAgrees(t) ==
  /\ NotDispatched(t) => assignment[t] = "CREATED" /\ attempt[t] = "ASSIGNMENT_CREATED"
  /\ pc[t] = "send" => assignment[t] = "CREATED" /\ attempt[t] = "DISPATCHING"
  /\ pc[t] = "poll" => assignment[t] = "BOUND" /\ attempt[t] \in {"QUEUED", "RUNNING"}
  /\ pc[t] = "recheck" => assignment[t] = "BOUND" /\ attempt[t] = "COMPLETED"
  /\ pc[t] = "ok" /\ OutputWaits(t) => assignment[t] = "BOUND" /\ attempt[t] = "COMPLETED"

RecordInv ==
  /\ \A t \in Task : RecordsAgree(t) /\ ObserverAgrees(t)
  /\ \A r \in Roles : current[r] # None => RoleOf(current[r]) = r

(* What a Session points to while nothing is decided, and while the claimed  *)
(* plan is worked on.                                                        *)
NothingDecided ==
  /\ plan = NoPlan /\ permit = NoPermit /\ validation = NoValidation
  /\ current = NoDecisions
  /\ assignment[Reobs] = "NONE"

ClaimHeld ==
  /\ plan.active /\ plan.status = "CLAIMED" /\ plan.attempt = Reobs
  /\ active = [NoAttempts EXCEPT ![Budget] = Reobs]
  /\ ~permit.active
  /\ assignment[Reobs] \in {"CREATED", "BOUND", "REJECTED"}

SessionInv ==
  /\ state = "NONE" =>
       /\ NothingDecided
       /\ rev = 0 /\ active = NoAttempts
       /\ \A t \in Task : assignment[t] = "NONE"
  /\ state # "NONE" => \A r \in Roles : assignment[r] # "NONE"
  /\ state \in {"DISPATCHING", "COLLECTING"} =>
       /\ NothingDecided
       /\ active = [r \in Roles |-> r]
       /\ up => task \notin {"none", "settled"}
  /\ state = "REOBSERVING" => ClaimHeld
  /\ plan.status = "AVAILABLE" => assignment[Reobs] = "NONE"

OwnedInv == TypeOK /\ OwnerInv /\ ObserverInv /\ RecordInv /\ SessionInv

-----------------------------------------------------------------------------
(* The observers *)

LEMMA ObserverOwned ==
  ASSUME OwnedInv, NEW t \in Task, DispatchBindPoll(t) \/ ObserverWriteFails(t)
  PROVE  ObserverInv' /\ RecordInv' /\ SessionInv'
<1>0. /\ TypeOK /\ observerUnchanged
      /\ UNCHANGED <<task, reobs, current, decision, state, plan, permit, validation, active,
                     rev, up>>
  BY DEF OwnedInv, DispatchBindPoll, TransitionToDispatching, FailUnbound, BindRunOnce,
         MirrorRunning, MirrorCompleted, MirrorStopped, FailBound, ReturnOutput,
         RejectCompletedOutput, ObserverWriteFails, observerUnchanged, pointerVars
<1>1. /\ pc[t] \in {"start", "send", "poll", "recheck"}
      /\ pc' = [pc EXCEPT ![t] = pc'[t]]
      /\ pc'[t] \in {"send", "poll", "recheck", "ok", "failed", "error"}
  BY <1>0 DEF TypeOK, DispatchBindPoll, TransitionToDispatching, FailUnbound, BindRunOnce,
         MirrorRunning, MirrorCompleted, MirrorStopped, FailBound, ReturnOutput,
         RejectCompletedOutput, ObserverWriteFails, Step
<1>2. /\ t \in Roles => task = "fanout"
      /\ t = Reobs => reobs = "run"
  BY <1>1 DEF OwnedInv, ObserverInv
<1>3. ObserverInv'
  BY <1>0, <1>1, <1>2, TaskFacts, NamesDistinct DEF OwnedInv, ObserverInv, TypeOK
<1>4. /\ assignment' = [assignment EXCEPT ![t] = assignment'[t]]
      /\ attempt' = [attempt EXCEPT ![t] = attempt'[t]]
  BY <1>0 DEF TypeOK, DispatchBindPoll, TransitionToDispatching, FailUnbound, BindRunOnce,
         MirrorRunning, MirrorCompleted, MirrorStopped, FailBound, ReturnOutput,
         RejectCompletedOutput, ObserverWriteFails, SetAssignment, SetAttempt
<1>5. /\ RecordsAgree(t) /\ ObserverAgrees(t)
      /\ pc[t] = "start" => NotDispatched(t)
      /\ ~NotDispatched(t)'
  <2>1. RecordsAgree(t) /\ ObserverAgrees(t)
    BY DEF OwnedInv, RecordInv
  <2>2. ~NotDispatched(t)'
    BY <1>0, <1>1, <1>2 DEF NotDispatched, TypeOK
  <2> QED
    BY <2>1, <2>2 DEF NotDispatched
<1>6. /\ assignment[t] \in {"CREATED", "BOUND"}
      /\ assignment'[t] \in {"CREATED", "BOUND", "REJECTED"}
      /\ RecordsAgree(t)' /\ ObserverAgrees(t)'
  <2> USE DEF RecordsAgree, ObserverAgrees, SetAssignment, SetAttempt, Step, TypeOK
  <2>1. CASE TransitionToDispatching(t)
    BY <2>1, <1>0, <1>5 DEF TransitionToDispatching
  <2>2. CASE FailUnbound(t)
    BY <2>2, <1>0, <1>5 DEF FailUnbound
  <2>3. CASE BindRunOnce(t)
    BY <2>3, <1>0, <1>5 DEF BindRunOnce
  <2>4. CASE MirrorRunning(t)
    BY <2>4, <1>0, <1>5 DEF MirrorRunning
  <2>5. CASE MirrorCompleted(t)
    BY <2>5, <1>0, <1>5 DEF MirrorCompleted
  <2>6. CASE \E status \in {"FAILED", "INTERRUPTED"} : MirrorStopped(t, status)
    BY <2>6, <1>0, <1>5 DEF MirrorStopped
  <2>7. CASE \E status \in {attempt[t], "RUNNING", "FAILED"} : FailBound(t, status)
    BY <2>7, <1>0, <1>5 DEF FailBound
  <2>8. CASE ReturnOutput(t)
    BY <2>8, <1>0, <1>5 DEF ReturnOutput
  <2>9. CASE RejectCompletedOutput(t)
    BY <2>9, <1>0, <1>5 DEF RejectCompletedOutput
  <2>10. CASE ObserverWriteFails(t)
    BY <2>10, <1>0, <1>5 DEF ObserverWriteFails
  <2> QED
    BY <2>1, <2>2, <2>3, <2>4, <2>5, <2>6, <2>7, <2>8, <2>9, <2>10 DEF DispatchBindPoll
<1>7. ASSUME NEW u \in Task, u # t
      PROVE  RecordsAgree(u)' /\ ObserverAgrees(u)'
  <2>1. /\ assignment'[u] = assignment[u] /\ attempt'[u] = attempt[u] /\ pc'[u] = pc[u]
    BY <1>0, <1>1, <1>4, <1>7 DEF TypeOK
  <2>2. RecordsAgree(u) /\ ObserverAgrees(u)
    BY DEF OwnedInv, RecordInv
  <2> QED
    BY <1>0, <2>1, <2>2 DEF RecordsAgree, ObserverAgrees, OutputWaits, NotDispatched
<1>8. RecordInv'
  BY <1>0, <1>6, <1>7 DEF OwnedInv, RecordInv
<1>9. SessionInv'
  <2>1. t = Reobs => state = "REOBSERVING"
    BY <1>2 DEF OwnedInv, OwnerInv
  <2>2. state # "NONE"
    BY <1>6 DEF OwnedInv, SessionInv
  <2>3. state # "REOBSERVING" => assignment'[Reobs] = assignment[Reobs]
    BY <1>4, <2>1, TaskFacts, <1>0 DEF TypeOK
  <2>4. \A r \in Roles : assignment[r] # "NONE" => assignment'[r] # "NONE"
    BY <1>4, <1>6, <1>0, TaskFacts DEF TypeOK
  <2>5. state = "REOBSERVING" => assignment'[Reobs] \in {"CREATED", "BOUND", "REJECTED"}
    BY <1>4, <1>6, <1>0, TaskFacts DEF TypeOK, OwnedInv, SessionInv, ClaimHeld
  <2>6. plan.status = "AVAILABLE" => state # "REOBSERVING"
    BY DEF OwnedInv, OwnerInv
  <2> QED
    BY <1>0, <2>2, <2>3, <2>4, <2>5, <2>6 DEF OwnedInv, SessionInv, NothingDecided, ClaimHeld
<1> QED
  BY <1>3, <1>8, <1>9

-----------------------------------------------------------------------------
(* Closing a Session, and accepting outputs *)

(* failSession touches the records only while the re-observation is open.    *)
LEMMA FailOwned ==
  ASSUME OwnedInv, NEW preserve, FailSession(preserve),
         state \in Terminal \cup {"DISPATCHING", "COLLECTING", "REOBSERVING"}
  PROVE  /\ state # "REOBSERVING" => UNCHANGED <<assignment, attempt>>
         /\ state = "REOBSERVING" =>
              /\ assignment' = [assignment EXCEPT ![Reobs] = "REJECTED"]
              /\ \E s \in AttemptStatus \ {"NONE", "ACCEPTED"} :
                   attempt' = [attempt EXCEPT ![Reobs] = s]
         /\ state' \in Terminal
         /\ plan'.status # "AVAILABLE"
<1>0. TypeOK /\ OwnerInv /\ SessionInv
  BY DEF OwnedInv
<1>1. plan.status # "AVAILABLE"
  BY <1>0 DEF OwnerInv, Terminal
<1>2. CASE state \in Terminal
  BY <1>1, <1>2 DEF FailSession, Terminal
<1>3. CASE state \in {"DISPATCHING", "COLLECTING"}
  <2>1. ~ClaimOpen /\ state \notin Terminal
    BY <1>0, <1>3 DEF SessionInv, NothingDecided, NoPlan, ClaimOpen, Terminal
  <2> QED
    BY <1>1, <1>3, <2>1 DEF FailSession, Terminal
<1>4. CASE state = "REOBSERVING"
  <2>1. ClaimOpen /\ state \notin Terminal /\ plan.attempt = Reobs
    BY <1>0, <1>4 DEF SessionInv, ClaimHeld, ClaimOpen, Terminal
  <2>2. CloseClaim(preserve) /\ state' = "FAILED"
    BY <2>1 DEF FailSession
  <2>3. assignment' = [assignment EXCEPT ![Reobs] = "REJECTED"]
    BY <2>1, <2>2 DEF CloseClaim, SetAssignment
  <2>4. attempt[Reobs] \in AttemptStatus \ {"NONE", "ACCEPTED"}
    BY <1>0, <1>4, TaskFacts
    DEF TypeOK, SessionInv, ClaimHeld, OwnedInv, RecordInv, RecordsAgree
  <2>5. \E s \in AttemptStatus \ {"NONE", "ACCEPTED"} : attempt' = [attempt EXCEPT ![Reobs] = s]
    <3>1. CASE UNCHANGED attempt
      <4>1. attempt' = [attempt EXCEPT ![Reobs] = attempt[Reobs]]
        BY <1>0, <3>1 DEF TypeOK
      <4> QED
        BY <2>4, <4>1
    <3>2. CASE SetAttempt(Reobs, IF attempt[Reobs] \in TerminalAttemptStates
                                   THEN attempt[Reobs] ELSE "FAILED")
      BY <2>4, <3>2 DEF SetAttempt, AttemptStatus
    <3> QED
      BY <2>1, <2>2, <3>1, <3>2 DEF CloseClaim
  <2>6. plan'.status # "AVAILABLE"
    BY <1>0, <1>1, <2>2 DEF CloseClaim, TypeOK, RefreshPlan
  <2> QED
    BY <1>4, <2>2, <2>3, <2>5, <2>6 DEF Terminal
<1> QED
  BY <1>2, <1>3, <1>4

(* Outputs of different Roles are accepted one by one: each takes the place  *)
(* of its Role's Decision, and no other record changes.                      *)
LEMMA ConsumeAgrees ==
  ASSUME OwnedInv, NEW tasks \in SUBSET Task, NEW output \in [tasks -> Output],
         Consume(tasks, output),
         \A t \in tasks : Consumable(t),
         \A t, u \in tasks : RoleOf(t) = RoleOf(u) => t = u
  PROVE  /\ \A t \in Task : RecordsAgree(t)'
         /\ \A r \in Roles : current'[r] # None => RoleOf(current'[r]) = r
<1> DEFINE accepted == {t \in tasks : output[t] \in Values}
<1>0. TypeOK /\ RecordInv
  BY DEF OwnedInv
<1>1. /\ assignment' = [t \in Task |->
           IF t \notin tasks THEN assignment[t]
           ELSE IF t \in accepted THEN "CONSUMED" ELSE "REJECTED"]
      /\ attempt' = [t \in Task |->
           IF t \notin tasks THEN attempt[t]
           ELSE IF t \in accepted THEN "ACCEPTED" ELSE "OUTPUT_REJECTED"]
      /\ decision' = [t \in Task |->
           IF t \in accepted THEN [status |-> "ACTIVE", verdict |-> output[t]]
           ELSE IF \E u \in accepted : current[RoleOf(u)] = t
             THEN [decision[t] EXCEPT !.status = "SUPERSEDED"]
           ELSE decision[t]]
      /\ current' = Replaced(accepted)
  BY DEF Consume
<1>2. accepted \subseteq tasks /\ tasks \subseteq Task
  OBVIOUS
<1> HIDE DEF accepted
<1>3. ASSUME NEW t \in accepted
      PROVE  current'[RoleOf(t)] = t
  <2>1. \A u \in accepted : RoleOf(u) = RoleOf(t) => u = t
    BY <1>2
  <2>2. TaskOf(accepted, RoleOf(t)) = t
    BY <2>1 DEF TaskOf
  <2> QED
    BY <1>1, <1>2, <2>2, TaskFacts DEF Replaced
<1>4. ASSUME NEW r \in Roles, ~\E t \in accepted : RoleOf(t) = r
      PROVE  current'[r] = current[r]
  BY <1>1, <1>4 DEF Replaced
<1>5. ASSUME NEW t \in Task, NEW u \in accepted, current[RoleOf(u)] = t
      PROVE  RoleOf(t) = RoleOf(u) /\ decision[t].status = "ACTIVE"
  <2>1. RoleOf(u) \in Roles /\ t # None
    BY <1>2, TaskFacts, NamesDistinct
  <2>2. RoleOf(t) = RoleOf(u)
    BY <1>0, <1>5, <2>1 DEF RecordInv
  <2> QED
    BY <1>0, <1>5, <2>2 DEF RecordInv, RecordsAgree
<1>6. ASSUME NEW t \in Task
      PROVE  RecordsAgree(t)'
  <2>1. RecordsAgree(t)
    BY <1>0 DEF RecordInv
  <2>2. decision[t] \in DecisionRecord
    BY <1>0 DEF TypeOK
  <2>3. CASE t \in accepted
    <3>1. /\ assignment'[t] = "CONSUMED" /\ attempt'[t] = "ACCEPTED"
          /\ decision'[t].status = "ACTIVE"
          /\ current'[RoleOf(t)] = t
      BY <1>1, <1>2, <1>3, <2>3
    <3> QED
      BY <3>1 DEF RecordsAgree
  <2>4. CASE t \in tasks \ accepted
    <3>1. assignment[t] = "BOUND"
      BY <2>4 DEF Consumable
    <3>2. decision[t].status = "NONE" /\ current[RoleOf(t)] # t
      BY <2>1, <2>2, <3>1 DEF RecordsAgree, DecisionRecord
    <3>3. ~\E u \in accepted : RoleOf(u) = RoleOf(t)
      BY <1>2, <2>4
    <3>4. current'[RoleOf(t)] # t
      BY <1>4, <3>2, <3>3, TaskFacts
    <3>5. decision'[t] = decision[t]
      BY <1>1, <1>5, <2>4, <3>2
    <3> QED
      BY <1>1, <2>4, <3>2, <3>4, <3>5 DEF RecordsAgree
  <2>5. CASE t \notin tasks
    <3>1. assignment'[t] = assignment[t] /\ attempt'[t] = attempt[t]
      BY <1>1, <2>5
    <3>2. CASE \E u \in accepted : RoleOf(u) = RoleOf(t)
      <4>1. current'[RoleOf(t)] # t
        BY <1>2, <1>3, <2>5, <3>2
      <4>2. decision'[t].status # "ACTIVE"
        <5>1. CASE decision[t].status = "ACTIVE"
          <6>1. \E u \in accepted : current[RoleOf(u)] = t
            BY <2>1, <3>2, <5>1 DEF RecordsAgree
          <6> QED
            BY <1>1, <1>2, <2>2, <2>5, <6>1 DEF DecisionRecord
        <5>2. CASE decision[t].status # "ACTIVE"
          BY <1>1, <1>2, <1>5, <2>5, <5>2
        <5> QED
          BY <5>1, <5>2
      <4>3. decision[t].status # "NONE" <=> decision'[t].status # "NONE"
        BY <1>1, <1>2, <1>5, <2>2, <2>5 DEF DecisionRecord
      <4> QED
        BY <2>1, <3>1, <4>1, <4>2, <4>3 DEF RecordsAgree
    <3>3. CASE ~\E u \in accepted : RoleOf(u) = RoleOf(t)
      <4>1. current'[RoleOf(t)] = current[RoleOf(t)]
        BY <1>4, <3>3, TaskFacts
      <4>2. decision'[t] = decision[t]
        BY <1>1, <1>2, <1>5, <2>5, <3>3
      <4> QED
        BY <2>1, <3>1, <4>1, <4>2 DEF RecordsAgree
    <3> QED
      BY <3>2, <3>3
  <2> QED
    BY <1>2, <2>3, <2>4, <2>5
<1>7. ASSUME NEW r \in Roles, current'[r] # None
      PROVE  RoleOf(current'[r]) = r
  <2>1. CASE \E t \in accepted : RoleOf(t) = r
    BY <1>3, <2>1
  <2>2. CASE ~\E t \in accepted : RoleOf(t) = r
    BY <1>0, <1>4, <1>7, <2>2 DEF RecordInv
  <2> QED
    BY <2>1, <2>2
<1> QED
  BY <1>6, <1>7

(* Who accepts: the continuation the three outputs of a collecting Session,  *)
(* the refresh request the output of its own Run.                            *)
Accepting(tasks) ==
  \/ tasks = Roles /\ state = "COLLECTING"
  \/ tasks = {Reobs} /\ state = "REOBSERVING"

LEMMA AcceptingFacts ==
  ASSUME NEW tasks, Accepting(tasks)
  PROVE  /\ tasks \in SUBSET Task
         /\ \A t, u \in tasks : RoleOf(t) = RoleOf(u) => t = u
  BY TaskFacts DEF Accepting

LEMMA AcceptOwned ==
  ASSUME OwnedInv, NEW tasks, Accepting(tasks), NEW output \in [tasks -> Output],
         PersistValidation(tasks, output) \/ PersistRejection(tasks, output)
  PROVE  /\ \A t \in Task : RecordsAgree(t)'
         /\ \A r \in Roles : current'[r] # None => RoleOf(current'[r]) = r
         /\ state' \in SessionState \ (InFlight \cup {"NONE"})
         /\ plan'.status = "AVAILABLE" => assignment'[Reobs] = "NONE"
<1>0. TypeOK /\ OwnerInv /\ SessionInv /\ tasks \in SUBSET Task
  BY AcceptingFacts DEF OwnedInv
<1>1. /\ Consume(tasks, output)
      /\ \A t \in tasks : Consumable(t)
  BY DEF PersistValidation, PersistRejection
<1>2. /\ \A t \in Task : RecordsAgree(t)'
      /\ \A r \in Roles : current'[r] # None => RoleOf(current'[r]) = r
  BY <1>0, <1>1, AcceptingFacts, ConsumeAgrees
<1>3. /\ state \in {"COLLECTING", "REOBSERVING"} /\ plan.status # "AVAILABLE"
  BY <1>0 DEF Accepting, OwnerInv
<1>4. /\ Moves
      /\ state' \notin InFlight
  BY <1>0, <1>3, AcceptMoves
<1>5. state' \in SessionState \ (InFlight \cup {"NONE"})
  BY <1>3, <1>4 DEF Moves, SessionState, InFlight
<1>6. ASSUME plan'.status = "AVAILABLE"
      PROVE  assignment'[Reobs] = "NONE"
  <2>1. PersistValidation(tasks, output)
    BY <1>3, <1>6 DEF PersistRejection
  <2>2. OutcomeOf(tasks, output) = "NO_VALID_OBSERVED_WORLD_CUT"
    BY <1>0, <1>3, <1>6, <2>1 DEF PersistValidation, TypeOK, RefreshPlan
  <2>3. ~plan.active
    BY <2>1, <2>2 DEF PersistValidation, Persistable, PlanBuildable
  <2>4. tasks = Roles /\ assignment[Reobs] = "NONE"
    BY <1>0, <2>3 DEF Accepting, SessionInv, ClaimHeld, NothingDecided
  <2> QED
    BY <1>1, <2>4, TaskFacts, NamesDistinct DEF Consume
<1> QED
  BY <1>2, <1>5, <1>6

-----------------------------------------------------------------------------
(* The continuation of createSession *)

(* Steps that touch no record and start no observer.                         *)
LEMMA RecordsKept ==
  ASSUME RecordInv,
         UNCHANGED <<assignment, attempt, decision, current>>,
         \A t \in Task :
           /\ pc'[t] \in {pc[t], "idle"}
           /\ NotDispatched(t)' => NotDispatched(t)
           /\ OutputWaits(t)' /\ pc'[t] = "ok" => OutputWaits(t)
  PROVE  RecordInv'
<1>1. ASSUME NEW t \in Task
      PROVE  RecordsAgree(t)' /\ ObserverAgrees(t)'
  <2>1. RecordsAgree(t) /\ ObserverAgrees(t)
    BY DEF RecordInv
  <2>2. RecordsAgree(t)'
    BY <2>1 DEF RecordsAgree
  <2>3. ObserverAgrees(t)'
    BY <2>1 DEF ObserverAgrees
  <2> QED
    BY <2>2, <2>3
<1> QED
  BY <1>1 DEF RecordInv

LEMMA BackgroundRecords ==
  ASSUME OwnedInv, Background
  PROVE  ObserverInv' /\ RecordInv'
<1>0. TypeOK /\ OwnerInv /\ ObserverInv /\ RecordInv /\ SessionInv
  BY DEF OwnedInv
<1> USE DEF pointerVars, recordVars, backgroundUnchanged, failUnchanged
<1>1. CASE TransitionToCollecting
  <2>1. /\ task = "packs" /\ task' = "fanout"
        /\ pc' = [t \in Task |-> IF t \in Roles THEN "start" ELSE pc[t]]
        /\ UNCHANGED <<assignment, attempt, decision, current, reobs>>
    BY <1>1 DEF TransitionToCollecting
  <2>2. ObserverInv'
    BY <1>0, <2>1, TaskFacts, NamesDistinct DEF ObserverInv
  <2>3. ASSUME NEW t \in Task
        PROVE  RecordsAgree(t)' /\ ObserverAgrees(t)'
    <3>1. RecordsAgree(t) /\ ObserverAgrees(t)
      BY <1>0 DEF RecordInv
    <3>2. CASE t \in Roles
      <4>1. NotDispatched(t) /\ pc'[t] = "start"
        BY <2>1, <3>2 DEF NotDispatched
      <4> QED
        BY <2>1, <3>1, <4>1 DEF RecordsAgree, ObserverAgrees
    <3>3. CASE t = Reobs
      <4>1. pc'[t] = pc[t] /\ (NotDispatched(t)' => NotDispatched(t)) /\ OutputWaits(t)
        BY <2>1, <3>3, NamesDistinct DEF NotDispatched, OutputWaits
      <4> QED
        BY <2>1, <3>1, <4>1 DEF RecordsAgree, ObserverAgrees
    <3> QED
      BY <3>2, <3>3 DEF Task
  <2> QED
    BY <1>0, <2>1, <2>2, <2>3 DEF RecordInv
<1>2. CASE PackFails \/ JoinAccepts \/ AcceptInitialThrows
  <2>1. /\ task' \in {"closing", "accept"}
        /\ task' = "accept" => task = "fanout"
        /\ UNCHANGED <<assignment, attempt, decision, current, reobs, pc>>
    BY <1>0, <1>2
    DEF PackFails, JoinAccepts, AcceptInitialThrows, JoinBegins, OwnerInv, AdapterFailed,
        FanOutSettled
  <2>2. ObserverInv'
    BY <1>0, <1>2, <2>1
    DEF ObserverInv, PackFails, JoinAccepts, AcceptInitialThrows, FanOutSettled, Settled, JoinBegins
  <2>3. \A t \in Task :
          /\ NotDispatched(t)' => NotDispatched(t)
          /\ OutputWaits(t)' => OutputWaits(t)
    BY <2>1 DEF NotDispatched, OutputWaits
  <2> QED
    BY <1>0, <2>1, <2>2, <2>3, RecordsKept
<1>3. CASE CloseBeforeJoin \/ CloseBackgroundFailure
  <2>1. /\ FailSession(FALSE)
        /\ state \in Terminal \cup {"DISPATCHING", "COLLECTING"}
        /\ task' \in {"join", "settled"}
        /\ UNCHANGED <<decision, current, reobs, pc>>
    BY <1>0, <1>3
    DEF CloseBeforeJoin, CloseBackgroundFailure, FanOutSettled, OwnerInv, Terminal
  <2>2. UNCHANGED <<assignment, attempt>>
    BY <2>1, FailOwned DEF Terminal
  <2>3. ObserverInv'
    BY <1>0, <1>3, <2>1
    DEF ObserverInv, CloseBeforeJoin, CloseBackgroundFailure, FanOutSettled, Settled
  <2>4. \A t \in Task :
          /\ NotDispatched(t)' => NotDispatched(t)
          /\ OutputWaits(t)' => OutputWaits(t)
    BY <2>1 DEF NotDispatched, OutputWaits
  <2> QED
    BY <1>0, <2>1, <2>2, <2>3, <2>4, RecordsKept
<1>4. CASE JoinRejects
  <2>1. /\ assignment' = [t \in Task |->
             IF t \in Roles /\ assignment[t] # "CONSUMED" THEN "REJECTED" ELSE assignment[t]]
        /\ task' = "closing" /\ task \in {"join", "fanout"}
        /\ state \in {"COLLECTING", "FAILED"}
        /\ UNCHANGED <<attempt, decision, current, reobs, pc>>
    BY <1>0, <1>4 DEF JoinRejects, JoinBegins, FanOutSettled, OwnerInv
  <2>2. ObserverInv'
    BY <1>0, <1>4, <2>1 DEF ObserverInv, JoinRejects, JoinBegins, FanOutSettled, Settled
  <2>3. ASSUME NEW t \in Task
        PROVE  RecordsAgree(t)' /\ ObserverAgrees(t)'
    <3>1. RecordsAgree(t) /\ ObserverAgrees(t)
      BY <1>0 DEF RecordInv
    <3>2. CASE t \in Roles
      <4>1. assignment[t] # "NONE"
        BY <1>0, <2>1, <3>2 DEF SessionInv
      <4>2. RecordsAgree(t)'
        BY <1>0, <2>1, <3>1, <3>2, <4>1 DEF RecordsAgree, TypeOK
      <4>3. ~NotDispatched(t)' /\ ~OutputWaits(t)'
        BY <2>1, <2>2, <3>2, NamesDistinct DEF NotDispatched, OutputWaits, ObserverInv
      <4>4. pc'[t] \in {"idle", "ok", "failed", "error"}
        BY <2>1, <2>2, <3>2 DEF ObserverInv
      <4> QED
        BY <4>2, <4>3, <4>4 DEF ObserverAgrees
    <3>3. CASE t = Reobs
      <4>1. /\ assignment'[t] = assignment[t] /\ OutputWaits(t)
            /\ NotDispatched(t)' => NotDispatched(t)
        BY <2>1, <3>3, TaskFacts, NamesDistinct DEF NotDispatched, OutputWaits
      <4> QED
        BY <2>1, <3>1, <4>1 DEF RecordsAgree, ObserverAgrees
    <3> QED
      BY <3>2, <3>3 DEF Task
  <2> QED
    BY <1>0, <2>1, <2>2, <2>3 DEF RecordInv
<1>5. CASE AcceptInitial
  <2> PICK output \in [Roles -> Output] :
        PersistValidation(Roles, output) \/ PersistRejection(Roles, output)
    BY <1>5 DEF AcceptInitial
  <2>1. /\ task = "accept" /\ task' = "settled" /\ state = "COLLECTING"
        /\ UNCHANGED <<reobs, pc>>
    BY <1>0, <1>5 DEF AcceptInitial, OwnerInv
  <2>2. /\ \A t \in Task : RecordsAgree(t)'
        /\ \A r \in Roles : current'[r] # None => RoleOf(current'[r]) = r
    BY <2>1, AcceptOwned DEF Accepting
  <2>3. ObserverInv'
    BY <1>0, <2>1 DEF ObserverInv
  <2>4. ASSUME NEW t \in Task
        PROVE  ObserverAgrees(t)'
    <3>1. CASE t \in Roles
      <4>1. pc'[t] = "ok" /\ ~OutputWaits(t)' /\ ~NotDispatched(t)'
        BY <1>0, <2>1, <3>1, NamesDistinct DEF ObserverInv, OutputWaits, NotDispatched
      <4> QED
        BY <4>1 DEF ObserverAgrees
    <3>2. CASE t = Reobs
      <4>1. reobs = "idle" /\ pc[t] = "idle"
        BY <1>0, <2>1, <3>2 DEF OwnerInv, ObserverInv
      <4> QED
        BY <2>1, <3>2, <4>1, NamesDistinct DEF ObserverAgrees, NotDispatched
    <3> QED
      BY <3>1, <3>2 DEF Task
  <2> QED
    BY <2>2, <2>3, <2>4 DEF RecordInv
<1>6. CASE ReleaseOwnership
  <2>1. /\ task = "settled" /\ task' = "none"
        /\ pc' = [t \in Task |-> IF t \in Roles THEN "idle" ELSE pc[t]]
        /\ UNCHANGED <<assignment, attempt, decision, current, reobs>>
    BY <1>6 DEF ReleaseOwnership
  <2>2. ObserverInv'
    BY <1>0, <2>1, TaskFacts, NamesDistinct DEF ObserverInv
  <2>3. \A t \in Task :
          /\ pc'[t] \in {pc[t], "idle"}
          /\ NotDispatched(t)' => NotDispatched(t)
          /\ OutputWaits(t)' => OutputWaits(t)
    BY <2>1 DEF NotDispatched, OutputWaits
  <2> QED
    BY <1>0, <2>1, <2>2, <2>3, RecordsKept
<1> QED
  BY <1>1, <1>2, <1>3, <1>4, <1>5, <1>6 DEF Background

LEMMA BackgroundOwned ==
  ASSUME OwnedInv, Background
  PROVE  ObserverInv' /\ RecordInv' /\ SessionInv'
<1>0. TypeOK /\ OwnerInv /\ ObserverInv /\ RecordInv /\ SessionInv
  BY DEF OwnedInv
<1> USE DEF pointerVars, recordVars, backgroundUnchanged, failUnchanged
<1>1. CASE TransitionToCollecting
  <2>1. /\ state = "DISPATCHING" /\ state' = "COLLECTING" /\ task' = "fanout"
        /\ UNCHANGED <<assignment, current, plan, permit, validation, active>>
    BY <1>1 DEF TransitionToCollecting
  <2>2. SessionInv'
    BY <1>0, <2>1 DEF SessionInv, NothingDecided
  <2> QED
    BY <2>2, BackgroundRecords
<1>2. CASE PackFails \/ JoinAccepts \/ AcceptInitialThrows
  <2>1. /\ task' \in {"closing", "accept"}
        /\ UNCHANGED <<state, rev, assignment, current, plan, permit, validation, active>>
    BY <1>2 DEF PackFails, JoinAccepts, AcceptInitialThrows
  <2>2. SessionInv'
    BY <1>0, <2>1 DEF SessionInv, NothingDecided, ClaimHeld
  <2> QED
    BY <2>2, BackgroundRecords
<1>3. CASE CloseBeforeJoin \/ CloseBackgroundFailure
  <2>1. /\ FailSession(FALSE)
        /\ state \in Terminal \cup {"DISPATCHING", "COLLECTING"}
    BY <1>0, <1>3
    DEF CloseBeforeJoin, CloseBackgroundFailure, FanOutSettled, OwnerInv, Terminal
  <2>2. /\ UNCHANGED assignment
        /\ state' \in Terminal /\ plan'.status # "AVAILABLE"
    BY <2>1, FailOwned DEF Terminal
  <2>3. SessionInv'
    BY <1>0, <2>1, <2>2 DEF SessionInv, Terminal
  <2> QED
    BY <2>3, BackgroundRecords
<1>4. CASE JoinRejects
  <2>1. /\ assignment' = [t \in Task |->
             IF t \in Roles /\ assignment[t] # "CONSUMED" THEN "REJECTED" ELSE assignment[t]]
        /\ task' = "closing"
        /\ state \in {"COLLECTING", "FAILED"}
        /\ UNCHANGED <<state, rev, current, plan, permit, validation, active>>
    BY <1>0, <1>4 DEF JoinRejects, JoinBegins, FanOutSettled, OwnerInv
  <2>2. /\ assignment'[Reobs] = assignment[Reobs]
        /\ \A r \in Roles : assignment'[r] # "NONE"
    BY <2>1, TaskFacts, NamesDistinct
  <2>3. SessionInv'
    BY <1>0, <2>1, <2>2 DEF SessionInv, NothingDecided
  <2> QED
    BY <2>3, BackgroundRecords
<1>5. CASE AcceptInitial
  <2> PICK output \in [Roles -> Output] :
        PersistValidation(Roles, output) \/ PersistRejection(Roles, output)
    BY <1>5 DEF AcceptInitial
  <2>1. Accepting(Roles)
    BY <1>0, <1>5 DEF AcceptInitial, OwnerInv, Accepting
  <2>2. /\ \A t \in Task : RecordsAgree(t)'
        /\ state' \in SessionState \ (InFlight \cup {"NONE"})
        /\ plan'.status = "AVAILABLE" => assignment'[Reobs] = "NONE"
    BY <2>1, AcceptOwned
  <2>3. \A r \in Roles : assignment'[r] # "NONE"
    <3>1. Consume(Roles, output)
      BY DEF PersistValidation, PersistRejection
    <3> QED
      BY <3>1, TaskFacts DEF Consume
  <2>4. SessionInv'
    BY <2>2, <2>3 DEF SessionInv, InFlight
  <2> QED
    BY <2>4, BackgroundRecords
<1>6. CASE ReleaseOwnership
  <2>1. /\ task = "settled" /\ up
        /\ UNCHANGED <<state, rev, assignment, current, plan, permit, validation, active>>
    BY <1>6 DEF ReleaseOwnership
  <2>2. SessionInv'
    BY <1>0, <2>1 DEF SessionInv, NothingDecided, ClaimHeld
  <2> QED
    BY <2>2, BackgroundRecords
<1> QED
  BY <1>1, <1>2, <1>3, <1>4, <1>5, <1>6 DEF Background

-----------------------------------------------------------------------------
(* The refresh request *)

LEMMA RefreshOwned ==
  ASSUME OwnedInv, Refresh
  PROVE  ObserverInv' /\ RecordInv' /\ SessionInv'
<1>0. TypeOK /\ OwnerInv /\ ObserverInv /\ RecordInv /\ SessionInv
  BY DEF OwnedInv
<1> USE DEF pointerVars, recordVars, refreshUnchanged, failUnchanged
<1>1. /\ reobs # "idle" /\ state = "REOBSERVING" /\ up
      /\ task \in {"none", "settled"}
      /\ \A r \in Roles : pc[r] \in {"idle", "ok", "failed", "error"}
  <2>1. reobs # "idle" /\ up
    BY DEF Refresh, CaptureRefreshObservation, CaptureThrows, RefreshPack, RefreshRunFailed,
           AcceptRefresh, AcceptRefreshThrows, FailRefresh
  <2>2. state = "REOBSERVING" /\ task \in {"none", "settled"}
    BY <1>0, <2>1 DEF OwnerInv, TypeOK, BackgroundStep
  <2> QED
    BY <1>0, <2>1, <2>2 DEF ObserverInv
<1>2. CASE \/ CaptureRefreshObservation \/ CaptureThrows \/ RefreshRunFailed
           \/ AcceptRefreshThrows \/ (RefreshPack /\ reobs' = "failing")
  <2>1. /\ reobs' \in {"pack", "failing", "failingMismatch"}
        /\ reobs' = "pack" => reobs = "capture"
        /\ reobs' # "pack" => pc[Reobs] \in {"idle", "ok", "failed", "error"}
        /\ UNCHANGED <<assignment, attempt, decision, current, pc, task>>
        /\ UNCHANGED <<state, rev, plan, permit, validation, active, up>>
    BY <1>0, <1>2
    DEF CaptureRefreshObservation, CaptureThrows, RefreshRunFailed, AcceptRefreshThrows,
        RefreshPack, ObserverInv
  <2>2. ObserverInv'
    BY <1>0, <2>1 DEF ObserverInv
  <2>3. \A t \in Task :
          /\ NotDispatched(t)' => NotDispatched(t)
          /\ OutputWaits(t)' => OutputWaits(t)
    BY <2>1 DEF NotDispatched, OutputWaits
  <2>4. RecordInv'
    BY <1>0, <2>1, <2>3, RecordsKept
  <2>5. SessionInv'
    BY <1>0, <2>1 DEF SessionInv, NothingDecided, ClaimHeld
  <2> QED
    BY <2>2, <2>4, <2>5
<1>3. CASE RefreshPack /\ reobs' = "run"
  <2>1. /\ reobs = "pack" /\ pc' = [pc EXCEPT ![Reobs] = "start"]
        /\ UNCHANGED <<assignment, attempt, decision, current, task>>
        /\ UNCHANGED <<state, rev, plan, permit, validation, active, up>>
    BY <1>3 DEF RefreshPack
  <2>2. ObserverInv'
    BY <1>0, <1>3, <2>1, TaskFacts, NamesDistinct DEF ObserverInv, TypeOK
  <2>3. ASSUME NEW t \in Task
        PROVE  RecordsAgree(t)' /\ ObserverAgrees(t)'
    <3>1. RecordsAgree(t) /\ ObserverAgrees(t)
      BY <1>0 DEF RecordInv
    <3>2. CASE t = Reobs
      <4>1. NotDispatched(t) /\ pc'[t] = "start"
        BY <1>0, <2>1, <3>2 DEF NotDispatched, TypeOK
      <4> QED
        BY <2>1, <3>1, <4>1 DEF RecordsAgree, ObserverAgrees
    <3>3. CASE t # Reobs
      <4>1. /\ pc'[t] = pc[t]
            /\ NotDispatched(t)' => NotDispatched(t)
            /\ OutputWaits(t)' => OutputWaits(t)
        BY <1>0, <2>1, <3>3 DEF NotDispatched, OutputWaits, TypeOK
      <4> QED
        BY <2>1, <3>1, <4>1 DEF RecordsAgree, ObserverAgrees
    <3> QED
      BY <3>2, <3>3
  <2>4. RecordInv'
    BY <1>0, <2>1, <2>3 DEF RecordInv
  <2>5. SessionInv'
    BY <1>0, <2>1 DEF SessionInv, NothingDecided, ClaimHeld
  <2> QED
    BY <2>2, <2>4, <2>5
<1>4. CASE AcceptRefresh \/ FailRefresh
  <2>1. /\ reobs' = "idle" /\ pc' = [pc EXCEPT ![Reobs] = "idle"] /\ task' = task
    BY <1>4 DEF AcceptRefresh, FailRefresh
  <2>2. ObserverInv'
    BY <1>0, <2>1, TaskFacts, NamesDistinct DEF ObserverInv, TypeOK
  <2>3. ASSUME NEW t \in Task
        PROVE  ObserverAgrees(t)'
    <3>1. CASE t = Reobs
      BY <1>0, <1>1, <2>1, <3>1, NamesDistinct DEF ObserverAgrees, NotDispatched, TypeOK
    <3>2. CASE t \in Roles
      <4>1. /\ pc'[t] \in {"idle", "ok", "failed", "error"}
            /\ ~NotDispatched(t)' /\ ~OutputWaits(t)'
        BY <1>0, <1>1, <2>1, <3>2, TaskFacts, NamesDistinct DEF NotDispatched, OutputWaits, TypeOK
      <4> QED
        BY <4>1 DEF ObserverAgrees
    <3> QED
      BY <3>1, <3>2 DEF Task
  <2>4. CASE AcceptRefresh
    <3> PICK output \in [{Reobs} -> Output] :
          PersistValidation({Reobs}, output) \/ PersistRejection({Reobs}, output)
      BY <2>4 DEF AcceptRefresh
    <3>1. Accepting({Reobs})
      BY <1>1 DEF Accepting
    <3>2. /\ \A t \in Task : RecordsAgree(t)'
          /\ \A r \in Roles : current'[r] # None => RoleOf(current'[r]) = r
          /\ state' \in SessionState \ (InFlight \cup {"NONE"})
          /\ plan'.status = "AVAILABLE" => assignment'[Reobs] = "NONE"
      BY <3>1, AcceptOwned
    <3>3. \A r \in Roles : assignment'[r] = assignment[r] /\ assignment[r] # "NONE"
      BY <1>0, <1>1, TaskFacts, NamesDistinct
      DEF PersistValidation, PersistRejection, Consume, SessionInv
    <3>4. SessionInv'
      BY <3>2, <3>3 DEF SessionInv, InFlight
    <3> QED
      BY <2>2, <2>3, <3>2, <3>4 DEF RecordInv
  <2>5. CASE FailRefresh
    <3>1. /\ FailSession(reobs = "failingMismatch")
          /\ UNCHANGED <<decision, current>>
      BY <2>5 DEF FailRefresh
    <3>2. /\ assignment' = [assignment EXCEPT ![Reobs] = "REJECTED"]
          /\ \E s \in AttemptStatus \ {"NONE", "ACCEPTED"} :
               attempt' = [attempt EXCEPT ![Reobs] = s]
          /\ state' \in Terminal /\ plan'.status # "AVAILABLE"
      BY <1>1, <3>1, FailOwned
    <3>3. assignment[Reobs] # "CONSUMED" /\ RecordsAgree(Reobs)
      BY <1>0, <1>1, TaskFacts DEF SessionInv, ClaimHeld, RecordInv
    <3>4. RecordsAgree(Reobs)'
      BY <1>0, <3>1, <3>2, <3>3, TaskFacts DEF RecordsAgree, TypeOK
    <3>5. ASSUME NEW t \in Task, t # Reobs
          PROVE  RecordsAgree(t)' /\ assignment'[t] = assignment[t]
      <4>1. RecordsAgree(t)
        BY <1>0 DEF RecordInv
      <4>2. assignment'[t] = assignment[t] /\ attempt'[t] = attempt[t]
        BY <1>0, <3>2, <3>5 DEF TypeOK
      <4> QED
        BY <3>1, <4>1, <4>2 DEF RecordsAgree
    <3>6. RecordInv'
      BY <1>0, <2>3, <3>1, <3>4, <3>5 DEF RecordInv
    <3>7. SessionInv'
      BY <1>0, <1>1, <3>2, <3>5, TaskFacts, NamesDistinct DEF SessionInv, Terminal
    <3> QED
      BY <2>2, <3>6, <3>7
  <2> QED
    BY <1>4, <2>4, <2>5
<1> QED
  BY <1>2, <1>3, <1>4 DEF Refresh, RefreshPack

-----------------------------------------------------------------------------
(* Clients, crashes, recovery *)

LEMMA CreateOwned ==
  ASSUME OwnedInv, NEW s \in Scenarios, CreateSession(s)
  PROVE  ObserverInv' /\ RecordInv' /\ SessionInv'
<1>0. TypeOK /\ OwnerInv /\ ObserverInv /\ RecordInv /\ SessionInv
  BY DEF OwnedInv
<1>1. /\ state = "NONE" /\ task = "none" /\ reobs = "idle"
      /\ state' = "DISPATCHING" /\ task' = "packs"
      /\ active' = [r \in Roles |-> r]
      /\ assignment' = [t \in Task |-> IF t = Reobs THEN "NONE" ELSE "CREATED"]
      /\ attempt' = [t \in Task |-> IF t = Reobs THEN "NONE" ELSE "ASSIGNMENT_CREATED"]
      /\ UNCHANGED <<current, validation, plan, permit, decision, reobs, pc>>
  BY <1>0 DEF CreateSession, OwnerInv
<1>2. /\ NothingDecided
      /\ \A t \in Task : assignment[t] = "NONE"
  BY <1>0, <1>1 DEF SessionInv
<1>3. /\ \A r \in Roles : pc[r] = "idle"
      /\ pc[Reobs] = "idle"
  BY <1>0, <1>1 DEF ObserverInv
<1>4. ObserverInv'
  BY <1>1, <1>3 DEF ObserverInv
<1>5. ASSUME NEW t \in Task
      PROVE  RecordsAgree(t)' /\ ObserverAgrees(t)'
  <2>1. decision[t].status = "NONE" /\ current[RoleOf(t)] # t
    BY <1>0, <1>2, TaskFacts, NamesDistinct
    DEF RecordInv, RecordsAgree, NothingDecided, NoDecisions
  <2>2. RecordsAgree(t)'
    BY <1>1, <2>1 DEF RecordsAgree
  <2>3. pc'[t] = "idle" /\ (NotDispatched(t)' => t # Reobs)
    BY <1>1, <1>3, NamesDistinct DEF NotDispatched, Task
  <2> QED
    BY <1>1, <2>2, <2>3 DEF ObserverAgrees
<1>6. SessionInv'
  BY <1>1, <1>2, TaskFacts, NamesDistinct
  DEF SessionInv, NothingDecided, NoPlan
<1> QED
  BY <1>1, <1>2, <1>4, <1>5, <1>6 DEF RecordInv, NothingDecided, NoDecisions

LEMMA ResetOwned ==
  ASSUME OwnedInv, ResetDemo
  PROVE  ObserverInv' /\ RecordInv' /\ SessionInv'
<1>0. TypeOK /\ OwnerInv /\ ObserverInv /\ RecordInv /\ SessionInv
  BY DEF OwnedInv
<1>1. /\ task = "none" /\ reobs = "idle"
      /\ UNCHANGED <<task, reobs, pc>>
  BY <1>0 DEF ResetDemo, OwnerInv, Terminal, processVars
<1>2. /\ \A r \in Roles : pc[r] = "idle"
      /\ pc[Reobs] = "idle"
  BY <1>0, <1>1 DEF ObserverInv
<1>3. /\ assignment' = [t \in Task |-> "NONE"]
      /\ attempt' = [t \in Task |-> "NONE"]
      /\ decision' = [t \in Task |-> NoDecision]
      /\ current' = NoDecisions
      /\ state' = "NONE" /\ rev' = 0 /\ active' = NoAttempts
      /\ plan' = NoPlan /\ permit' = NoPermit /\ validation' = NoValidation
  BY DEF ResetDemo
<1>4. ObserverInv'
  BY <1>0, <1>1 DEF ObserverInv
<1>5. ASSUME NEW t \in Task
      PROVE  RecordsAgree(t)' /\ ObserverAgrees(t)'
  <2>1. RecordsAgree(t)'
    BY <1>3, TaskFacts, NamesDistinct DEF RecordsAgree, NoDecision, NoDecisions
  <2>2. pc'[t] = "idle" /\ ~NotDispatched(t)'
    BY <1>1, <1>2 DEF NotDispatched, Task
  <2> QED
    BY <2>1, <2>2 DEF ObserverAgrees
<1>6. RecordInv'
  BY <1>3, <1>5 DEF RecordInv, NoDecisions
<1>7. SessionInv'
  BY <1>3, TaskFacts DEF SessionInv, NothingDecided, NoPlan
<1> QED
  BY <1>4, <1>6, <1>7

LEMMA ClaimOwned ==
  ASSUME OwnedInv, NEW expected, ClaimPlan(expected)
  PROVE  ObserverInv' /\ RecordInv' /\ SessionInv'
<1>0. TypeOK /\ OwnerInv /\ ObserverInv /\ RecordInv /\ SessionInv
  BY DEF OwnedInv
<1>1. /\ state = "BLOCKED_NO_CUT" /\ plan.status = "AVAILABLE" /\ plan.active
      /\ active = NoAttempts /\ ~permit.active
  BY DEF ClaimPlan, Claimable, PlanStillMatches
<1>2. /\ reobs = "idle" /\ assignment[Reobs] = "NONE"
      /\ pc[Reobs] = "idle"
  BY <1>0, <1>1 DEF OwnerInv, SessionInv, ObserverInv
<1>3. /\ assignment' = [assignment EXCEPT ![Reobs] = "CREATED"]
      /\ attempt' = [attempt EXCEPT ![Reobs] = "ASSIGNMENT_CREATED"]
      /\ plan' = [plan EXCEPT !.status = "CLAIMED", !.attempt = Reobs]
      /\ active' = [active EXCEPT ![Budget] = Reobs]
      /\ state' = "REOBSERVING" /\ reobs' = "capture"
      /\ UNCHANGED <<current, decision, task, pc, permit, validation>>
  BY DEF ClaimPlan
<1>4. ObserverInv'
  BY <1>0, <1>2, <1>3 DEF ObserverInv
<1>5. ASSUME NEW t \in Task
      PROVE  RecordsAgree(t)' /\ ObserverAgrees(t)'
  <2>1. RecordsAgree(t) /\ ObserverAgrees(t)
    BY <1>0 DEF RecordInv
  <2>2. CASE t = Reobs
    <3>1. assignment'[t] = "CREATED" /\ attempt'[t] = "ASSIGNMENT_CREATED" /\ pc'[t] = "idle"
      BY <1>0, <1>2, <1>3, <2>2 DEF TypeOK
    <3> QED
      BY <1>2, <1>3, <2>1, <2>2, <3>1 DEF RecordsAgree, ObserverAgrees
  <2>3. CASE t # Reobs
    <3>1. /\ assignment'[t] = assignment[t] /\ attempt'[t] = attempt[t] /\ pc'[t] = pc[t]
          /\ NotDispatched(t)' => NotDispatched(t)
          /\ OutputWaits(t)' => OutputWaits(t)
      BY <1>0, <1>3, <2>3 DEF TypeOK, NotDispatched, OutputWaits
    <3> QED
      BY <1>3, <2>1, <3>1 DEF RecordsAgree, ObserverAgrees
  <2> QED
    BY <2>2, <2>3
<1>6. RecordInv'
  BY <1>0, <1>3, <1>5 DEF RecordInv
<1>7. SessionInv'
  <2>1. plan'.active /\ plan'.status = "CLAIMED" /\ plan'.attempt = Reobs
    BY <1>0, <1>1, <1>3 DEF TypeOK, RefreshPlan
  <2>2. assignment'[Reobs] = "CREATED"
    BY <1>0, <1>3, TaskFacts DEF TypeOK
  <2>3. \A r \in Roles : assignment'[r] # "NONE"
    BY <1>0, <1>1, <1>3, TaskFacts, NamesDistinct DEF SessionInv, TypeOK
  <2> QED
    BY <1>1, <1>3, <2>1, <2>2, <2>3 DEF SessionInv, ClaimHeld
<1> QED
  BY <1>4, <1>6, <1>7

LEMMA GateOwned ==
  ASSUME OwnedInv, NEW expected,
         InvalidatePlan(expected) \/ CommitRace(expected) \/ CommitEffect(expected)
  PROVE  ObserverInv' /\ RecordInv' /\ SessionInv'
<1>0. TypeOK /\ OwnerInv /\ ObserverInv /\ RecordInv /\ SessionInv
  BY DEF OwnedInv
<1>1. /\ UNCHANGED <<assignment, attempt, decision, current, task, reobs, pc>>
      /\ state \in {"BLOCKED_NO_CUT", "READY_AT_CURRENT_HEAD"} /\ state' \in Terminal
      /\ plan'.status = "AVAILABLE" => plan.status = "AVAILABLE"
  <2>1. CASE InvalidatePlan(expected)
    BY <1>0, <2>1 DEF InvalidatePlan, Claimable, OwnerInv, recordVars, processVars, Terminal
  <2>2. CASE CommitRace(expected) \/ CommitEffect(expected)
    BY <2>2 DEF CommitRace, CommitEffect, PermitHeld, recordVars, processVars, Terminal
  <2> QED
    BY <2>1, <2>2
<1>2. ObserverInv'
  BY <1>0, <1>1 DEF ObserverInv
<1>3. RecordInv'
  BY <1>0, <1>1, RecordsKept DEF NotDispatched, OutputWaits
<1>4. SessionInv'
  BY <1>0, <1>1 DEF SessionInv, Terminal
<1> QED
  BY <1>2, <1>3, <1>4

(* Recovery rejects and interrupts together what was still open.             *)
LEMMA RestartOwned ==
  ASSUME OwnedInv, Restart
  PROVE  ObserverInv' /\ RecordInv' /\ SessionInv'
<1>0. TypeOK /\ OwnerInv /\ ObserverInv /\ RecordInv /\ SessionInv
  BY DEF OwnedInv
<1>1. /\ task = "none" /\ reobs = "idle"
      /\ UNCHANGED <<task, reobs, pc, current, permit, decision>>
  BY <1>0 DEF Restart, OwnerInv
<1>2. \A t \in Task : pc[t] = "idle"
  BY <1>0, <1>1 DEF ObserverInv, Task
<1>3. ObserverInv'
  BY <1>0, <1>1 DEF ObserverInv
<1>4. ASSUME NEW t \in Task
      PROVE  ObserverAgrees(t)'
  BY <1>1, <1>2, <1>4 DEF ObserverAgrees, NotDispatched
<1>5. CASE state \notin InFlight
  <2>1. UNCHANGED <<assignment, attempt, plan, active, validation, state, rev>>
    BY <1>5 DEF Restart
  <2>2. RecordInv'
    BY <1>0, <1>1, <1>4, <2>1 DEF RecordInv, RecordsAgree
  <2>3. SessionInv'
    BY <1>0, <1>1, <1>5, <2>1 DEF SessionInv, NothingDecided, InFlight
  <2> QED
    BY <1>3, <2>2, <2>3
<1>6. CASE state \in InFlight
  <2>1. RecoverInFlightSession
    BY <1>6 DEF Restart
  <2>2. ASSUME NEW t \in Task
        PROVE  /\ RecordsAgree(t)'
               /\ assignment[t] # "NONE" => assignment'[t] # "NONE"
    <3>1. RecordsAgree(t)
      BY <1>0 DEF RecordInv
    <3>2. /\ assignment'[t] = IF t \in Referenced /\ assignment[t] \in {"CREATED", "BOUND"}
                               THEN "REJECTED" ELSE assignment[t]
          /\ attempt'[t] = IF t \in Referenced /\ attempt[t] \in ActiveAttemptStates
                             THEN "INTERRUPTED" ELSE attempt[t]
      BY <2>1 DEF RecoverInFlightSession
    <3>3. CASE t \notin Referenced
      BY <1>1, <3>1, <3>2, <3>3 DEF RecordsAgree
    <3>4. CASE t \in Referenced
      BY <1>1, <3>1, <3>2, <3>4 DEF RecordsAgree, ActiveAttemptStates
    <3> QED
      BY <3>3, <3>4
  <2>3. RecordInv'
    BY <1>0, <1>1, <1>4, <2>2 DEF RecordInv
  <2>4. state' = "INTERRUPTED" /\ plan'.status # "AVAILABLE"
    <3>1. plan.status # "AVAILABLE"
      BY <1>0, <1>6 DEF OwnerInv, InFlight
    <3> QED
      BY <1>0, <2>1, <3>1 DEF RecoverInFlightSession, TypeOK, RefreshPlan
  <2>5. SessionInv'
    BY <1>0, <1>6, <2>2, <2>4, TaskFacts DEF SessionInv, InFlight
  <2> QED
    BY <1>3, <2>3, <2>5
<1> QED
  BY <1>5, <1>6

LEMMA EnvironmentOwned ==
  ASSUME OwnedInv, Environment
  PROVE  ObserverInv' /\ RecordInv' /\ SessionInv'
<1>0. TypeOK /\ OwnerInv /\ ObserverInv /\ RecordInv /\ SessionInv
  BY DEF OwnedInv
<1> USE DEF pointerVars, recordVars, processVars
<1>1. CASE Crash
  <2>1. /\ task' = "none" /\ reobs' = "idle" /\ ~up'
        /\ \A t \in Task : pc'[t] = "idle"
        /\ UNCHANGED <<assignment, attempt, decision, current>>
        /\ UNCHANGED <<state, rev, plan, permit, validation, active>>
    BY <1>1 DEF Crash, Idle
  <2>2. ObserverInv'
    BY <2>1, TaskFacts DEF ObserverInv
  <2>3. RecordInv'
    BY <1>0, <2>1, RecordsKept DEF NotDispatched
  <2>4. SessionInv'
    BY <1>0, <2>1 DEF SessionInv, NothingDecided, ClaimHeld
  <2> QED
    BY <2>2, <2>3, <2>4
<1>2. CASE \E r \in Roles, value \in Values : WorldCommit(r, value)
  <2>1. /\ UNCHANGED <<assignment, attempt, decision, current, task, reobs, pc, up>>
        /\ UNCHANGED <<state, rev, plan, permit, validation, active>>
    BY <1>2 DEF WorldCommit
  <2>2. ObserverInv' /\ SessionInv'
    BY <1>0, <2>1 DEF ObserverInv, SessionInv, NothingDecided, ClaimHeld
  <2>3. RecordInv'
    BY <1>0, <2>1, RecordsKept DEF NotDispatched, OutputWaits
  <2> QED
    BY <2>2, <2>3
<1>3. CASE \E t \in Task : ObserverWriteFails(t)
  BY <1>3, ObserverOwned
<1>4. CASE BackgroundWriteFails
  <2>1. /\ task' \in {"closing", "closing2", "stuck"}
        /\ UNCHANGED <<assignment, attempt, decision, current, reobs, pc, up>>
        /\ UNCHANGED <<state, rev, plan, permit, validation, active>>
    BY <1>4 DEF BackgroundWriteFails, AfterFault
  <2>2. ObserverInv'
    BY <1>0, <1>4, <2>1 DEF ObserverInv, BackgroundWriteFails, FanOutSettled, Settled
  <2>3. RecordInv'
    BY <1>0, <2>1, RecordsKept DEF NotDispatched, OutputWaits
  <2>4. SessionInv'
    BY <1>0, <2>1 DEF SessionInv, NothingDecided, ClaimHeld
  <2> QED
    BY <2>2, <2>3, <2>4
<1>5. CASE RefreshWriteFails
  <2>1. /\ UNCHANGED <<assignment, attempt, decision, current, task, up>>
        /\ UNCHANGED <<state, rev, plan, permit, validation, active>>
        /\ reobs # "idle" /\ reobs' \in {"idle", "failing"}
    BY <1>5 DEF RefreshWriteFails, refreshUnchanged
  <2>2. \/ reobs' = "failing" /\ pc' = pc /\ pc[Reobs] \in {"idle", "ok"}
        \/ reobs' = "idle" /\ pc' = [pc EXCEPT ![Reobs] = "idle"]
    BY <1>0, <1>5 DEF RefreshWriteFails, ObserverInv
  <2>3. ObserverInv'
    BY <1>0, <2>1, <2>2, TaskFacts, NamesDistinct DEF ObserverInv, TypeOK
  <2>4. \A t \in Task : pc'[t] \in {pc[t], "idle"}
    BY <1>0, <2>2 DEF TypeOK
  <2>5. \A t \in Task :
          /\ NotDispatched(t)' => NotDispatched(t)
          /\ OutputWaits(t)' => OutputWaits(t)
    BY <2>1, <2>4 DEF NotDispatched, OutputWaits
  <2>6. RecordInv'
    BY <1>0, <2>1, <2>4, <2>5, RecordsKept
  <2>7. SessionInv'
    BY <1>0, <2>1 DEF SessionInv, NothingDecided, ClaimHeld
  <2> QED
    BY <2>3, <2>6, <2>7
<1> QED
  BY <1>1, <1>2, <1>3, <1>4, <1>5 DEF Environment

LEMMA InitOwned == Init => OwnedInv
<1> SUFFICES ASSUME Init PROVE OwnedInv
  OBVIOUS
<1>1. TypeOK /\ OwnerInv
  BY InitTypes, InitOwners
<1>2. ObserverInv /\ SessionInv
  BY TaskFacts DEF Init, NoSession, Idle, ObserverInv, SessionInv, NothingDecided, NoPlan
<1>3. RecordInv
  BY TaskFacts, NamesDistinct
  DEF Init, NoSession, Idle, RecordInv, RecordsAgree, ObserverAgrees, NotDispatched,
      NoDecision, NoDecisions
<1> QED
  BY <1>1, <1>2, <1>3 DEF OwnedInv

LEMMA NextOwned == OwnedInv /\ [Next]_vars => OwnedInv'
<1> SUFFICES ASSUME OwnedInv, [Next]_vars PROVE OwnedInv'
  OBVIOUS
<1>1. TypeOK' /\ OwnerInv'
  BY NextTypes, NextMoves DEF OwnedInv
<1>2. ObserverInv' /\ RecordInv' /\ SessionInv'
  <2>1. CASE Client
    BY <2>1, CreateOwned, ClaimOwned, GateOwned, ResetOwned DEF Client
  <2>2. CASE Background
    BY <2>2, BackgroundOwned
  <2>3. CASE Refresh
    BY <2>3, RefreshOwned
  <2>4. CASE \E t \in Task : DispatchBindPoll(t)
    BY <2>4, ObserverOwned
  <2>5. CASE Restart
    BY <2>5, RestartOwned
  <2>6. CASE Environment
    BY <2>6, EnvironmentOwned
  <2>7. CASE UNCHANGED vars
    BY <2>7, RecordsKept
    DEF vars, OwnedInv, ObserverInv, SessionInv, NothingDecided, ClaimHeld, NotDispatched,
        OutputWaits
  <2> QED
    BY <2>1, <2>2, <2>3, <2>4, <2>5, <2>6, <2>7 DEF Next
<1> QED
  BY <1>1, <1>2 DEF OwnedInv

(* While a Session collects, an Assignment is rejected by its own observer, or  *)
(* by a join that no failed Run made necessary: that of a store error, which    *)
(* comes before the Session is closed.                                          *)
JoinInv ==
  up /\ state = "COLLECTING" =>
    \A r \in Roles :
      assignment[r] = "REJECTED" => pc[r] = "failed" \/ (~AdapterFailed /\ task # "fanout")

(* A step of nobody who could reject an initial Assignment.                     *)
LEMMA JoinKept ==
  ASSUME JoinInv, up, state = "COLLECTING", task' = "fanout" => task = "fanout",
         \A r \in Roles : assignment'[r] = assignment[r] /\ pc'[r] = pc[r]
  PROVE  JoinInv'
  BY DEF JoinInv, AdapterFailed

LEMMA InitJoin == Init => JoinInv
  BY DEF Init, NoSession, JoinInv

LEMMA BackgroundJoin ==
  ASSUME OwnedInv, JoinInv, Background
  PROVE  JoinInv'
<1>0. TypeOK /\ OwnerInv /\ ObserverInv /\ RecordInv /\ SessionInv
  BY DEF OwnedInv
<1> USE DEF backgroundUnchanged
<1>1. CASE TransitionToCollecting
  <2>1. task = "packs" /\ assignment' = assignment
    BY <1>1 DEF TransitionToCollecting, recordVars
  <2>2. ASSUME NEW r \in Roles
        PROVE  assignment'[r] # "REJECTED"
    <3>1. NotDispatched(r) /\ ObserverAgrees(r)
      BY <1>0, <2>1, TaskFacts DEF NotDispatched, RecordInv
    <3> QED
      BY <2>1, <3>1 DEF ObserverAgrees
  <2> QED
    BY <2>2 DEF JoinInv
<1>2. CASE PackFails \/ JoinAccepts \/ AcceptInitialThrows
  <2>1. up /\ task' # "fanout" /\ UNCHANGED <<assignment, pc, state>>
    BY <1>2 DEF PackFails, JoinAccepts, AcceptInitialThrows, recordVars, pointerVars
  <2> QED
    BY <2>1, JoinKept DEF JoinInv
<1>3. CASE CloseBeforeJoin \/ CloseBackgroundFailure
  <2>1. state' \in Terminal
    BY <1>3 DEF CloseBeforeJoin, CloseBackgroundFailure, FailSession, Terminal
  <2> QED
    BY <2>1 DEF JoinInv, Terminal
<1>4. CASE JoinRejects
  <2>1. task' = "closing" /\ UNCHANGED <<state, pc>>
    BY <1>4 DEF JoinRejects, pointerVars
  <2>2. state = "COLLECTING" => ~AdapterFailed
    BY <1>0, <1>4 DEF JoinRejects, JoinBegins, OwnerInv
  <2> QED
    BY <2>1, <2>2 DEF JoinInv, AdapterFailed
<1>5. CASE AcceptInitial
  <2>1. state' # "COLLECTING"
    BY <1>5 DEF AcceptInitial, PersistValidation, PersistRejection, StateFor
  <2> QED
    BY <2>1 DEF JoinInv
<1>6. CASE ReleaseOwnership
  <2>1. up /\ task = "settled" /\ state' = state
    BY <1>6 DEF ReleaseOwnership, pointerVars
  <2>2. state # "COLLECTING"
    BY <1>0, <2>1 DEF SessionInv
  <2> QED
    BY <2>1, <2>2 DEF JoinInv
<1> QED
  BY <1>1, <1>2, <1>3, <1>4, <1>5, <1>6 DEF Background

LEMMA ObserverJoin ==
  ASSUME OwnedInv, JoinInv, NEW t \in Task, DispatchBindPoll(t) \/ ObserverWriteFails(t)
  PROVE  JoinInv'
<1>0. TypeOK /\ OwnerInv /\ ObserverInv /\ RecordInv
  BY DEF OwnedInv
<1>1. /\ up /\ UNCHANGED <<task, state, up>>
      /\ pc[t] \in {"start", "send", "poll", "recheck"}
      /\ pc' = [pc EXCEPT ![t] = pc'[t]]
  BY <1>0 DEF TypeOK, DispatchBindPoll, TransitionToDispatching, FailUnbound, BindRunOnce,
         MirrorRunning, MirrorCompleted, MirrorStopped, FailBound, ReturnOutput,
         RejectCompletedOutput, ObserverWriteFails, observerUnchanged, pointerVars, Step
<1>2. \/ assignment' = assignment
      \/ assignment' = [assignment EXCEPT ![t] = "BOUND"]
      \/ assignment' = [assignment EXCEPT ![t] = "REJECTED"] /\ pc' = [pc EXCEPT ![t] = "failed"]
  BY DEF DispatchBindPoll, TransitionToDispatching, FailUnbound, BindRunOnce, MirrorRunning,
         MirrorCompleted, MirrorStopped, FailBound, ReturnOutput, RejectCompletedOutput,
         ObserverWriteFails, SetAssignment, Step
<1>3. CASE t \in Roles
  <2>1. task = "fanout"
    BY <1>0, <1>1, <1>3 DEF ObserverInv
  <2>2. assignment[t] \in {"CREATED", "BOUND"}
    BY <1>0, <1>1 DEF RecordInv, ObserverAgrees, NotDispatched
  <2> SUFFICES ASSUME state = "COLLECTING", NEW r \in Roles, assignment'[r] = "REJECTED"
               PROVE  pc'[r] = "failed"
    BY <1>1 DEF JoinInv
  <2>3. CASE r = t
    BY <1>0, <1>2, <2>2, <2>3 DEF TypeOK
  <2>4. CASE r # t
    <3>1. assignment[r] = "REJECTED" /\ pc'[r] = pc[r]
      BY <1>0, <1>1, <1>2, <2>4, TaskFacts DEF TypeOK
    <3> QED
      BY <1>1, <2>1, <3>1 DEF JoinInv
  <2> QED
    BY <2>3, <2>4
<1>4. CASE t = Reobs
  <2>1. state # "COLLECTING"
    BY <1>0, <1>1, <1>4 DEF ObserverInv, OwnerInv
  <2> QED
    BY <1>1, <2>1 DEF JoinInv
<1> QED
  BY <1>3, <1>4 DEF Task

LEMMA NextJoin == OwnedInv /\ JoinInv /\ [Next]_vars => JoinInv'
<1> SUFFICES ASSUME OwnedInv, JoinInv, [Next]_vars PROVE JoinInv'
  OBVIOUS
<1>1. CASE Client
  <2>1. state' # "COLLECTING"
    BY <1>1 DEF Client, CreateSession, InvalidatePlan, ClaimPlan, CommitRace, CommitEffect,
       ResetDemo, Claimable, Terminal
  <2> QED
    BY <2>1 DEF JoinInv
<1>2. CASE Refresh
  <2>1. state' # "COLLECTING"
    BY <1>2 DEF OwnedInv, OwnerInv, Refresh, CaptureRefreshObservation, CaptureThrows,
       RefreshPack, RefreshRunFailed, AcceptRefresh, AcceptRefreshThrows, FailRefresh,
       FailSession, PersistValidation, PersistRejection, StateFor, pointerVars, Terminal
  <2> QED
    BY <2>1 DEF JoinInv
<1>3. CASE Restart
  <2>1. state' # "COLLECTING"
    BY <1>3 DEF Restart, RecoverInFlightSession, InFlight
  <2> QED
    BY <2>1 DEF JoinInv
<1>4. CASE Crash
  BY <1>4 DEF Crash, JoinInv
<1>5. CASE (\E r \in Roles, value \in Values : WorldCommit(r, value)) \/ UNCHANGED vars
  BY <1>5, JoinKept DEF WorldCommit, vars, pointerVars, recordVars, processVars, JoinInv
<1>6. CASE BackgroundWriteFails
  <2>1. up /\ task' # "fanout" /\ UNCHANGED <<assignment, pc, state>>
    BY <1>6 DEF BackgroundWriteFails, AfterFault, recordVars, pointerVars
  <2> QED
    BY <2>1, JoinKept DEF JoinInv
<1>7. CASE RefreshWriteFails
  <2>1. state = "REOBSERVING" /\ UNCHANGED state
    BY <1>7 DEF OwnedInv, OwnerInv, RefreshWriteFails, pointerVars
  <2> QED
    BY <2>1 DEF JoinInv
<1> QED
  BY <1>1, <1>2, <1>3, <1>4, <1>5, <1>6, <1>7, BackgroundJoin, ObserverJoin DEF Next, Environment

(* A Session in flight has a live owner, a live owner has a Session it may     *)
(* act on, each observer finds its Assignment and Attempt as its own last      *)
(* mutation left them, and the siblings of a failed Run are rejected only once *)
(* the Session was closed (role-run-observer.ts, epochguard-service.ts).       *)
THEOREM OwnersFindTheirRecords == Spec => []InFlightIsOwned
<1>1. OwnedInv /\ JoinInv => InFlightIsOwned
  <2> SUFFICES ASSUME OwnedInv, JoinInv PROVE InFlightIsOwned
    OBVIOUS
  <2>1. \A t \in Task : ObserverAgrees(t) /\ (pc[t] = "start" => NotDispatched(t))
    BY DEF OwnedInv, RecordInv, NotDispatched
  <2>2. up /\ state = "COLLECTING" /\ AdapterFailed =>
          \A r \in Roles : assignment[r] = "REJECTED" => pc[r] = "failed"
    BY DEF JoinInv
  <2> QED
    BY <2>1, <2>2 DEF OwnedInv, OwnerInv, SessionInv, InFlightIsOwned, ObserverAgrees
<1> QED
  BY <1>1, InitOwned, NextOwned, InitJoin, NextJoin, PTL DEF Spec

(* As long as a re-observation runs, the claimed plan, its Attempt and the     *)
(* Session's pointer belong together: one request owns it (refresh-planner.ts  *)
(* claimRefreshPlan, epochguard-service.ts refresh).                           *)
THEOREM ClaimsAreOwned == Spec => []ClaimHasOneOwner
<1>1. OwnedInv => ClaimHasOneOwner
  BY DEF OwnedInv, OwnerInv, SessionInv, ClaimHeld, ClaimHasOneOwner
<1> QED
  BY <1>1, InitOwned, NextOwned, PTL DEF Spec

LEMMA OwnedRecovers ==
  ASSUME OwnedInv, state \in InFlight
  PROVE  RecoveryAccepts
<1>1. ASSUME NEW t \in Task
      PROVE  RecordsAgree(t)
  BY DEF OwnedInv, RecordInv
<1>2. CASE state \in {"DISPATCHING", "COLLECTING"}
  <2>1. /\ NothingDecided /\ active = [r \in Roles |-> r]
        /\ \A r \in Roles : assignment[r] # "NONE"
    BY <1>2 DEF OwnedInv, SessionInv
  <2>2. ~plan.active /\ ~permit.active
    BY <2>1 DEF NothingDecided, NoPlan, NoPermit
  <2> QED
    BY <1>1, <1>2, <2>1, <2>2, TaskFacts DEF RecoveryAccepts, RecordsAgree
<1>3. CASE state = "REOBSERVING"
  <2>1. ClaimHeld
    BY <1>3 DEF OwnedInv, SessionInv
  <2>2. ASSUME NEW r \in Roles, active[r] # None
        PROVE  r = Budget /\ active[r] = Reobs
    BY <2>1, <2>2 DEF ClaimHeld, NoAttempts
  <2>3. active[Budget] = Reobs
    BY <2>1, TaskFacts DEF ClaimHeld, NoAttempts
  <2>4. plan.attempt \in Referenced
    BY <2>1, <2>3, TaskFacts, NamesDistinct DEF ClaimHeld, Referenced
  <2>5. assignment[Reobs] \in {"CREATED", "BOUND", "REJECTED"} /\ RecordsAgree(Reobs)
    BY <1>1, <2>1, TaskFacts DEF ClaimHeld
  <2> QED
    BY <1>3, <2>1, <2>2, <2>4, <2>5, TaskFacts DEF RecoveryAccepts, ClaimHeld, RecordsAgree
<1> QED
  BY <1>2, <1>3 DEF InFlight

(* Whenever the server stops, the store it leaves is one that the recovery of  *)
(* the next start accepts: no crash makes the service unable to start          *)
(* (epochguard-service.ts initialize, recoverInFlightSession).                 *)
THEOREM RecoveryAlwaysStarts == Spec => []RecoveryNeverRefuses
<1>1. OwnedInv => RecoveryNeverRefuses
  BY OwnedRecovers DEF RecoveryNeverRefuses
<1> QED
  BY <1>1, InitOwned, NextOwned, PTL DEF Spec

-----------------------------------------------------------------------------
(* Evidence is used once *)

(* What a step does to the records that count as used.                       *)
Spends(t) ==
  /\ assignment[t] = "CONSUMED" => assignment'[t] = "CONSUMED"
  /\ assignment[t] = "REJECTED" => assignment'[t] = "REJECTED"
  /\ decision[t].status = "SUPERSEDED" => decision'[t] = decision[t]

LEMMA ObserverSpends ==
  ASSUME OwnedInv, NEW u \in Task, DispatchBindPoll(u) \/ ObserverWriteFails(u), NEW t \in Task
  PROVE  Spends(t)
<1>0. TypeOK /\ ObserverAgrees(u) /\ UNCHANGED decision
  BY DEF OwnedInv, RecordInv, DispatchBindPoll, TransitionToDispatching, FailUnbound,
         BindRunOnce, MirrorRunning, MirrorCompleted, MirrorStopped, FailBound, ReturnOutput,
         RejectCompletedOutput, ObserverWriteFails, observerUnchanged
<1>1. pc[u] \in {"start", "send", "poll", "recheck"}
  BY DEF DispatchBindPoll, TransitionToDispatching, FailUnbound, BindRunOnce,
         MirrorRunning, MirrorCompleted, MirrorStopped, FailBound, ReturnOutput,
         RejectCompletedOutput, ObserverWriteFails, Step
<1>2. assignment[u] \in {"CREATED", "BOUND"}
  BY <1>0, <1>1 DEF ObserverAgrees, NotDispatched
<1>3. assignment' = [assignment EXCEPT ![u] = assignment'[u]]
  BY <1>0 DEF TypeOK, DispatchBindPoll, TransitionToDispatching, FailUnbound, BindRunOnce,
         MirrorRunning, MirrorCompleted, MirrorStopped, FailBound, ReturnOutput,
         RejectCompletedOutput, ObserverWriteFails, SetAssignment
<1>4. t = u \/ assignment'[t] = assignment[t]
  BY <1>0, <1>3 DEF TypeOK
<1> QED
  BY <1>0, <1>2, <1>4 DEF Spends

LEMMA AcceptSpends ==
  ASSUME OwnedInv, NEW tasks, Accepting(tasks), NEW output \in [tasks -> Output],
         PersistValidation(tasks, output) \/ PersistRejection(tasks, output),
         NEW t \in Task
  PROVE  Spends(t)
<1> DEFINE accepted == {u \in tasks : output[u] \in Values}
<1>0. TypeOK /\ RecordInv /\ RecordsAgree(t) /\ tasks \subseteq Task
  BY AcceptingFacts DEF OwnedInv, RecordInv
<1>1. /\ Consume(tasks, output)
      /\ \A u \in tasks : Consumable(u)
  BY DEF PersistValidation, PersistRejection
<1>2. /\ t \notin tasks => assignment'[t] = assignment[t]
      /\ t \in tasks => assignment[t] = "BOUND"
  BY <1>1 DEF Consume, Consumable
<1>3. ASSUME decision[t].status = "SUPERSEDED"
      PROVE  decision'[t] = decision[t]
  <2>1. t \notin accepted
    BY <1>0, <1>2, <1>3 DEF RecordsAgree
  <2>2. ~\E u \in accepted : current[RoleOf(u)] = t
    <3> SUFFICES ASSUME NEW u \in accepted, current[RoleOf(u)] = t PROVE FALSE
      OBVIOUS
    <3>1. RoleOf(u) \in Roles /\ t # None
      BY <1>0, TaskFacts, NamesDistinct
    <3>2. RoleOf(t) = RoleOf(u)
      BY <1>0, <3>1 DEF RecordInv
    <3> QED
      BY <1>0, <1>3, <3>2 DEF RecordsAgree
  <2>3. decision'[t] = IF t \in accepted THEN [status |-> "ACTIVE", verdict |-> output[t]]
                       ELSE IF \E u \in accepted : current[RoleOf(u)] = t
                         THEN [decision[t] EXCEPT !.status = "SUPERSEDED"]
                       ELSE decision[t]
    BY <1>1 DEF Consume
  <2> QED
    BY <2>1, <2>2, <2>3
<1> QED
  BY <1>2, <1>3 DEF Spends

LEMMA NextSpends ==
  ASSUME OwnedInv, [Next]_vars, state' # "NONE", NEW t \in Task
  PROVE  Spends(t)
<1>0. TypeOK /\ OwnerInv /\ SessionInv
  BY DEF OwnedInv
<1> USE DEF pointerVars, recordVars, processVars, backgroundUnchanged, refreshUnchanged,
            failUnchanged
<1>1. ASSUME NEW preserve, FailSession(preserve),
             state \in Terminal \cup {"DISPATCHING", "COLLECTING", "REOBSERVING"},
             UNCHANGED decision
      PROVE  Spends(t)
  <2>1. CASE state # "REOBSERVING"
    BY <1>1, <2>1, FailOwned DEF Spends
  <2>2. CASE state = "REOBSERVING"
    <3>1. assignment' = [assignment EXCEPT ![Reobs] = "REJECTED"]
      BY <1>1, <2>2, FailOwned
    <3>2. assignment[Reobs] # "CONSUMED"
      BY <1>0, <2>2 DEF SessionInv, ClaimHeld
    <3>3. t = Reobs \/ assignment'[t] = assignment[t]
      BY <1>0, <3>1 DEF TypeOK
    <3>4. t = Reobs => assignment'[t] = "REJECTED"
      BY <1>0, <3>1 DEF TypeOK
    <3> QED
      BY <1>1, <3>2, <3>3, <3>4 DEF Spends
  <2> QED
    BY <2>1, <2>2
<1>2. CASE Client
  <2>1. ASSUME NEW s \in Scenarios, CreateSession(s)
        PROVE  Spends(t)
    <3>1. assignment[t] = "NONE" /\ UNCHANGED decision
      BY <1>0, <2>1 DEF SessionInv, CreateSession
    <3> QED
      BY <3>1 DEF Spends
  <2>2. ASSUME NEW expected, ClaimPlan(expected)
        PROVE  Spends(t)
    <3>1. /\ assignment[Reobs] = "NONE" /\ UNCHANGED decision
          /\ assignment' = [assignment EXCEPT ![Reobs] = "CREATED"]
      BY <1>0, <2>2 DEF ClaimPlan, Claimable, SessionInv
    <3>2. t = Reobs \/ assignment'[t] = assignment[t]
      BY <1>0, <3>1 DEF TypeOK
    <3> QED
      BY <3>1, <3>2 DEF Spends
  <2>3. ASSUME NEW expected,
               InvalidatePlan(expected) \/ CommitRace(expected) \/ CommitEffect(expected)
        PROVE  Spends(t)
    BY <2>3 DEF InvalidatePlan, CommitRace, CommitEffect, Spends
  <2>4. CASE ResetDemo
    BY <2>4 DEF ResetDemo
  <2> QED
    BY <1>2, <2>1, <2>2, <2>3, <2>4 DEF Client
<1>3. CASE Background
  <2>1. CASE CloseBeforeJoin \/ CloseBackgroundFailure
    <3>1. /\ FailSession(FALSE) /\ UNCHANGED decision
          /\ state \in Terminal \cup {"DISPATCHING", "COLLECTING"}
      BY <1>0, <2>1
      DEF CloseBeforeJoin, CloseBackgroundFailure, FanOutSettled, OwnerInv, Terminal
    <3> QED
      BY <1>1, <3>1
  <2>2. CASE JoinRejects
    BY <2>2 DEF JoinRejects, Spends
  <2>3. CASE AcceptInitial
    <3>1. Accepting(Roles)
      BY <1>0, <2>3 DEF AcceptInitial, OwnerInv, Accepting
    <3> QED
      BY <2>3, <3>1, AcceptSpends DEF AcceptInitial
  <2>4. CASE \/ TransitionToCollecting \/ PackFails \/ JoinAccepts \/ AcceptInitialThrows
             \/ ReleaseOwnership
    BY <2>4 DEF TransitionToCollecting, PackFails, JoinAccepts, AcceptInitialThrows,
                ReleaseOwnership, Spends
  <2> QED
    BY <1>3, <2>1, <2>2, <2>3, <2>4 DEF Background
<1>4. CASE Refresh
  <2>1. reobs # "idle" => state = "REOBSERVING"
    BY <1>0 DEF OwnerInv
  <2>2. CASE FailRefresh
    BY <1>1, <2>1, <2>2 DEF FailRefresh
  <2>3. CASE AcceptRefresh
    <3>1. Accepting({Reobs})
      BY <2>1, <2>3 DEF AcceptRefresh, Accepting
    <3> QED
      BY <2>3, <3>1, AcceptSpends DEF AcceptRefresh
  <2>4. CASE \/ CaptureRefreshObservation \/ CaptureThrows \/ RefreshPack
             \/ RefreshRunFailed \/ AcceptRefreshThrows
    BY <2>4 DEF CaptureRefreshObservation, CaptureThrows, RefreshPack, RefreshRunFailed,
                AcceptRefreshThrows, Spends
  <2> QED
    BY <1>4, <2>2, <2>3, <2>4 DEF Refresh
<1>5. CASE \E u \in Task : DispatchBindPoll(u) \/ ObserverWriteFails(u)
  BY <1>5, ObserverSpends
<1>6. CASE Restart
  <2>1. CASE state \notin InFlight
    BY <2>1, <1>6 DEF Restart, Spends
  <2>2. CASE state \in InFlight
    BY <2>2, <1>6 DEF Restart, RecoverInFlightSession, Spends
  <2> QED
    BY <2>1, <2>2
<1>7. CASE Environment
  BY <1>5, <1>7 DEF Environment, Crash, WorldCommit, BackgroundWriteFails, RefreshWriteFails,
                    Spends
<1>8. CASE UNCHANGED vars
  BY <1>8 DEF vars, Spends
<1> QED
  BY <1>2, <1>3, <1>4, <1>5, <1>6, <1>7, <1>8 DEF Next

(* Evidence is used once: an Assignment that was consumed or rejected is never *)
(* bound, consumed or rejected again, and a superseded Decision never returns, *)
(* whatever fails, crashes or is repeated (decision-parser.ts                  *)
(* normalizeAndConsumeDecision, role-run-observer.ts).                         *)
THEOREM EvidenceIsUsedOnce == Spec => EvidenceIsSpentOnce
<1> DEFINE Once == state' # "NONE" =>
             \A t \in Task :
               /\ assignment[t] = "CONSUMED" => assignment'[t] = "CONSUMED"
               /\ assignment[t] = "REJECTED" => assignment'[t] = "REJECTED"
               /\ decision[t].status = "SUPERSEDED" => decision'[t] = decision[t]
<1>1. OwnedInv /\ [Next]_vars => [Once]_vars
  <2> SUFFICES ASSUME OwnedInv, [Next]_vars, state' # "NONE", NEW t \in Task PROVE Spends(t)
    BY DEF Spends
  <2> QED
    BY NextSpends
<1> QED
  BY <1>1, InitOwned, NextOwned, PTL DEF Spec, EvidenceIsSpentOnce

-----------------------------------------------------------------------------
(* The revision *)

Fenced == SessionView' # SessionView => rev' > rev \/ state' = "NONE"

LEMMA FailFences ==
  ASSUME TypeOK, NEW preserve, FailSession(preserve), UNCHANGED <<current, validation, effects>>
  PROVE  Fenced
<1>1. CASE state \in Terminal
  BY <1>1 DEF FailSession, Fenced, SessionView
<1>2. CASE state \notin Terminal
  BY <1>2 DEF FailSession, Fenced, TypeOK
<1> QED
  BY <1>1, <1>2

LEMMA NextFences ==
  ASSUME OwnedInv, [Next]_vars
  PROVE  Fenced
<1>0. TypeOK /\ OwnerInv /\ SessionInv /\ rev \in Nat
  BY DEF OwnedInv, TypeOK
<1> USE DEF pointerVars, recordVars, processVars, backgroundUnchanged, refreshUnchanged,
            failUnchanged
<1>1. CASE Client
  <2>1. ASSUME NEW s \in Scenarios, CreateSession(s)
        PROVE  Fenced
    <3>1. rev = 0 /\ rev' = 1
      BY <1>0, <2>1 DEF SessionInv, CreateSession
    <3> QED
      BY <3>1 DEF Fenced
  <2>2. ASSUME NEW expected,
               \/ InvalidatePlan(expected) \/ ClaimPlan(expected)
               \/ CommitRace(expected) \/ CommitEffect(expected)
        PROVE  Fenced
    <3>1. rev' = rev + 1
      BY <2>2 DEF InvalidatePlan, ClaimPlan, CommitRace, CommitEffect
    <3> QED
      BY <1>0, <3>1 DEF Fenced
  <2>3. CASE ResetDemo
    BY <2>3 DEF ResetDemo, Fenced
  <2> QED
    BY <1>1, <2>1, <2>2, <2>3 DEF Client
<1>2. ASSUME NEW tasks, NEW output,
             PersistValidation(tasks, output) \/ PersistRejection(tasks, output)
      PROVE  Fenced
  <2>1. rev' \in {rev + 1, rev + 2}
    BY <1>2 DEF PersistValidation, PersistRejection
  <2> QED
    BY <1>0, <2>1 DEF Fenced
<1>3. CASE Background
  <2>1. CASE CloseBeforeJoin \/ CloseBackgroundFailure
    BY <1>0, <2>1, FailFences DEF CloseBeforeJoin, CloseBackgroundFailure
  <2>2. CASE AcceptInitial
    BY <1>2, <2>2 DEF AcceptInitial
  <2>3. CASE TransitionToCollecting
    <3>1. rev' = rev + 1
      BY <2>3 DEF TransitionToCollecting
    <3> QED
      BY <1>0, <3>1 DEF Fenced
  <2>4. CASE \/ PackFails \/ JoinAccepts \/ JoinRejects \/ AcceptInitialThrows
             \/ ReleaseOwnership
    BY <2>4 DEF PackFails, JoinAccepts, JoinRejects, AcceptInitialThrows, ReleaseOwnership,
                Fenced, SessionView
  <2> QED
    BY <1>3, <2>1, <2>2, <2>3, <2>4 DEF Background
<1>4. CASE Refresh
  <2>1. CASE FailRefresh
    BY <1>0, <2>1, FailFences DEF FailRefresh
  <2>2. CASE AcceptRefresh
    BY <1>2, <2>2 DEF AcceptRefresh
  <2>3. CASE \/ CaptureRefreshObservation \/ CaptureThrows \/ RefreshPack
             \/ RefreshRunFailed \/ AcceptRefreshThrows
    BY <2>3 DEF CaptureRefreshObservation, CaptureThrows, RefreshPack, RefreshRunFailed,
                AcceptRefreshThrows, Fenced, SessionView
  <2> QED
    BY <1>4, <2>1, <2>2, <2>3 DEF Refresh
<1>5. ASSUME NEW t \in Task, DispatchBindPoll(t) \/ ObserverWriteFails(t)
      PROVE  Fenced
  <2>1. observerUnchanged
    BY <1>5 DEF DispatchBindPoll, TransitionToDispatching, FailUnbound, BindRunOnce,
                MirrorRunning, MirrorCompleted, MirrorStopped, FailBound, ReturnOutput,
                RejectCompletedOutput, ObserverWriteFails
  <2> QED
    BY <2>1 DEF observerUnchanged, Fenced, SessionView
<1>6. CASE Restart
  <2>1. CASE state \notin InFlight
    BY <2>1, <1>6 DEF Restart, Fenced, SessionView
  <2>2. CASE state \in InFlight
    <3>1. rev' = rev + 1
      BY <1>6, <2>2 DEF Restart, RecoverInFlightSession
    <3> QED
      BY <1>0, <3>1 DEF Fenced
  <2> QED
    BY <2>1, <2>2
<1>7. CASE Environment
  BY <1>5, <1>7 DEF Environment, Crash, WorldCommit, BackgroundWriteFails, RefreshWriteFails,
                    Fenced, SessionView
<1>8. CASE UNCHANGED vars
  BY <1>8 DEF vars, Fenced, SessionView
<1> QED
  BY <1>1, <1>3, <1>4, <1>5, <1>6, <1>7, <1>8 DEF Next

(* Everything a request is checked against changes together with the revision, *)
(* so that a client that acted on an older view is told so                     *)
(* (epochguard-service.ts, session.sessionRevision).                           *)
THEOREM RevisionsFence == Spec => RevisionFences
<1>1. OwnedInv /\ [Next]_vars =>
        [SessionView' # SessionView => rev' > rev \/ state' = "NONE"]_vars
  BY NextFences DEF Fenced
<1> QED
  BY <1>1, InitOwned, NextOwned, PTL DEF Spec, RevisionFences

-----------------------------------------------------------------------------
(* The kinds of steps, by what they do to the evidence: the World, the       *)
(* receipts, the Decisions and what the Session points to.                   *)

Still ==
  /\ UNCHANGED <<head, versions, pointerVars, receipt, decision, effects>>
  /\ reobs' \in {"pack", "run"} => reobs \in {"pack", "run"}

Collects ==
  /\ state = "DISPATCHING" /\ state' = "COLLECTING" /\ reobs = "idle" /\ reobs' = "idle"
  /\ rev' = rev + 1
  /\ UNCHANGED <<head, versions, scenario, current, validation, plan, permit, receipt,
                 decision, effects>>

GivesUp ==
  /\ state \in {"DISPATCHING", "COLLECTING", "REOBSERVING"}
  /\ \E preserve : FailSession(preserve)
  /\ UNCHANGED <<head, versions, scenario, current, validation, receipt, decision, effects>>
  /\ reobs' = "idle"

Settles(tasks, output) ==
  /\ Accepting(tasks)
  /\ tasks = {Reobs} => reobs = "run"
  /\ PersistValidation(tasks, output) \/ PersistRejection(tasks, output)
  /\ UNCHANGED <<head, versions, scenario, receipt, effects>>
  /\ reobs' = "idle"

Recovers ==
  /\ state \in InFlight
  /\ RecoverInFlightSession
  /\ UNCHANGED <<head, versions, scenario, current, permit, receipt, decision, effects>>
  /\ reobs' = "idle"

LEMMA FailKinds ==
  ASSUME OwnedInv, NEW preserve, FailSession(preserve), failUnchanged, reobs' = "idle",
         state \in Terminal \cup {"DISPATCHING", "COLLECTING", "REOBSERVING"}
  PROVE  Still \/ GivesUp
<1>1. CASE state \in Terminal
  BY <1>1 DEF FailSession, failUnchanged, Still, pointerVars
<1>2. CASE state \in {"DISPATCHING", "COLLECTING", "REOBSERVING"}
  BY <1>2 DEF failUnchanged, GivesUp
<1> QED
  BY <1>1, <1>2

LEMMA BackgroundKinds ==
  ASSUME OwnedInv, Background
  PROVE  \/ Still \/ Collects \/ GivesUp
         \/ \E output \in [Roles -> Output] : Settles(Roles, output)
<1>0. TypeOK /\ OwnerInv
  BY DEF OwnedInv
<1> USE DEF backgroundUnchanged
<1>1. CASE CloseBeforeJoin \/ CloseBackgroundFailure
  <2>1. /\ FailSession(FALSE) /\ failUnchanged
        /\ state \in Terminal \cup {"DISPATCHING", "COLLECTING"}
        /\ reobs' = reobs
    BY <1>0, <1>1
    DEF CloseBeforeJoin, CloseBackgroundFailure, FanOutSettled, OwnerInv, Terminal
  <2>2. reobs' = "idle"
    BY <1>0, <2>1 DEF OwnerInv, Terminal
  <2> QED
    BY <2>1, <2>2, FailKinds
<1>2. CASE AcceptInitial
  <2> PICK output \in [Roles -> Output] :
        PersistValidation(Roles, output) \/ PersistRejection(Roles, output)
    BY <1>2 DEF AcceptInitial
  <2>1. /\ Accepting(Roles) /\ reobs' = "idle"
        /\ UNCHANGED <<head, versions, scenario, receipt, effects>>
    BY <1>0, <1>2 DEF AcceptInitial, OwnerInv, Accepting
  <2>2. Roles # {Reobs}
    BY TaskFacts, NamesDistinct
  <2>3. Settles(Roles, output)
    BY <2>1, <2>2 DEF Settles
  <2> QED
    BY <2>3
<1>3. CASE TransitionToCollecting
  BY <1>0, <1>3 DEF TransitionToCollecting, OwnerInv, recordVars, Collects
<1>4. CASE PackFails \/ JoinAccepts \/ JoinRejects \/ AcceptInitialThrows \/ ReleaseOwnership
  BY <1>4 DEF PackFails, JoinAccepts, JoinRejects, AcceptInitialThrows, ReleaseOwnership,
              recordVars, Still
<1> QED
  BY <1>1, <1>2, <1>3, <1>4 DEF Background

LEMMA RefreshKinds ==
  ASSUME OwnedInv, Refresh
  PROVE  \/ Still \/ GivesUp \/ CaptureRefreshObservation
         \/ \E output \in [{Reobs} -> Output] : Settles({Reobs}, output)
<1>0. reobs # "idle" => state = "REOBSERVING"
  BY DEF OwnedInv, OwnerInv
<1>1. CASE CaptureThrows \/ RefreshPack \/ RefreshRunFailed \/ AcceptRefreshThrows
  BY <1>1 DEF CaptureThrows, RefreshPack, RefreshRunFailed, AcceptRefreshThrows, recordVars, Still
<1>2. CASE AcceptRefresh
  <2> PICK output \in [{Reobs} -> Output] :
        PersistValidation({Reobs}, output) \/ PersistRejection({Reobs}, output)
    BY <1>2 DEF AcceptRefresh
  <2>1. Settles({Reobs}, output)
    BY <1>0, <1>2 DEF AcceptRefresh, Settles, Accepting
  <2> QED
    BY <2>1
<1>3. CASE FailRefresh
  <2>1. /\ FailSession(reobs = "failingMismatch") /\ failUnchanged /\ reobs' = "idle"
        /\ state = "REOBSERVING"
    BY <1>0, <1>3 DEF FailRefresh
  <2> QED
    BY <2>1, FailKinds
<1> QED
  BY <1>1, <1>2, <1>3 DEF Refresh

LEMMA OtherKinds ==
  ASSUME OwnedInv,
         \/ Restart \/ Environment
         \/ \E t \in Task : DispatchBindPoll(t)
         \/ UNCHANGED vars
  PROVE  \/ Still \/ Recovers
         \/ \E r \in Roles, value \in Values : WorldCommit(r, value)
<1>1. ASSUME NEW t \in Task, DispatchBindPoll(t) \/ ObserverWriteFails(t)
      PROVE  Still
  BY <1>1
  DEF DispatchBindPoll, TransitionToDispatching, FailUnbound, BindRunOnce, MirrorRunning,
      MirrorCompleted, MirrorStopped, FailBound, ReturnOutput, RejectCompletedOutput,
      ObserverWriteFails, observerUnchanged, Still
<1>2. CASE Restart
  <2>1. reobs = "idle"
    BY <1>2 DEF OwnedInv, OwnerInv, Restart
  <2>2. CASE state \in InFlight
    BY <1>2, <2>1, <2>2 DEF Restart, Recovers
  <2>3. CASE state \notin InFlight
    BY <1>2, <2>1, <2>3 DEF Restart, Still, pointerVars
  <2> QED
    BY <2>2, <2>3
<1>3. CASE Environment
  BY <1>1, <1>3
  DEF Environment, Crash, BackgroundWriteFails, RefreshWriteFails, refreshUnchanged, recordVars,
      Still
<1>4. CASE UNCHANGED vars
  BY <1>4 DEF vars, Still, pointerVars
<1> QED
  BY <1>1, <1>2, <1>3, <1>4

-----------------------------------------------------------------------------
(* What validation persists, and what it rests on *)

Prepared == Fixture[scenario].head

(* The World starts at the prepared head, and grows by commits that open a   *)
(* version each.                                                             *)
WorldInv ==
  state # "NONE" =>
    /\ scenario \in Scenarios
    /\ Prepared <= head
    /\ head = Prepared \/ \E r \in Roles : \E v \in versions[r] : v.from = head

(* Every receipt was issued in the prepared World and still resolves.        *)
Observed(r, seen) == Resolves(versions, r, seen, head) /\ seen.at <= Prepared

HeldInv ==
  state # "NONE" =>
    /\ \A r \in Roles : Observed(r, receipt[r])
    /\ reobs \in {"pack", "run"} \/ decision[Reobs].status # "NONE" =>
         Observed(Budget, receipt[Reobs])

(* A plan that is claimed was built from the current Decisions, and captured *)
(* in the World it was built in.                                             *)
PlanInv ==
  /\ plan.status \in {"AVAILABLE", "CLAIMED"} => Prepared <= plan.head /\ plan.head <= head
  /\ reobs \in {"pack", "run"} => plan.head = Prepared
  /\ state = "REOBSERVING" =>
       /\ plan.decisions = current /\ plan.base < rev
       /\ \A r \in Roles : current[r] # None

Says(r, seen, verdict) == \E v \in versions[r] : v.from = seen.rev /\ v.value = verdict

ValidationInv ==
  validation.outcome # "NONE" /\ state \notin {"FAILED", "INTERRUPTED"} =>
    /\ validation.decisions = current
    /\ \A r \in Roles :
         /\ current[r] # None
         /\ Says(r, receipt[current[r]], decision[current[r]].verdict)

(* What the gate demands, without what the records of each task say anyway.  *)
AllowedAt(cut) ==
  \A r \in Roles :
    LET t == current[r] IN
    /\ t # None
    /\ decision[t].verdict = "ALLOW"
    /\ receipt[t].at <= cut
    /\ \E v \in versions[r] :
         /\ v.from = receipt[t].rev
         /\ Contains(v, receipt[t].at)
         /\ Contains(v, cut)
         /\ v.value = "ALLOW"

PlanIsClosed ==
  IF ~validation.refreshed THEN ~plan.active
  ELSE /\ plan.active /\ plan.status = "COMPLETED"
       /\ plan.base < validation.base /\ validation.base < rev
       /\ plan.head = validation.head
       /\ \A r \in Roles \ {Budget} : plan.decisions[r] = current[r]
       /\ plan.decisions[Budget] # current[Budget]
       /\ decision[plan.decisions[Budget]].status = "SUPERSEDED"
       /\ plan.attempt = current[Budget]

ReadyInv ==
  state \in {"READY_AT_CURRENT_HEAD", "COMMITTED"} =>
    /\ NothingInFlight
    /\ permit.active /\ permit.head <= head
    /\ ValidationBinds(permit.head)
    /\ AllowedAt(permit.head)
    /\ PlanIsClosed
    /\ state = "READY_AT_CURRENT_HEAD" => permit.status = "ISSUED"
    /\ state = "COMMITTED" =>
         /\ permit.status = "CONSUMED"
         /\ effects = <<[cut |-> permit.head, evidence |-> CurrentReceipts]>>

BlockedInv ==
  state = "BLOCKED_NO_CUT" =>
    /\ plan.active /\ plan.head <= head /\ plan.head = validation.head
    /\ head = plan.head => PlanStillMatches

EvidenceInv == WorldInv /\ HeldInv /\ PlanInv /\ ValidationInv /\ ReadyInv /\ BlockedInv

BackedInv == PromiseInv /\ OwnedInv /\ EvidenceInv

-----------------------------------------------------------------------------
(* Steps that leave the evidence alone *)

LEMMA StillBacked ==
  ASSUME EvidenceInv, Still
  PROVE  EvidenceInv'
<1>1. UNCHANGED <<head, versions, scenario, state, rev, active, current, validation, plan,
                  permit, receipt, decision, effects>>
  BY DEF Still, pointerVars
<1>2. WorldInv' /\ Prepared' = Prepared
  BY <1>1 DEF EvidenceInv, WorldInv, Prepared
<1>3. HeldInv'
  BY <1>1, <1>2 DEF EvidenceInv, HeldInv, Observed, Still
<1>4. PlanInv'
  BY <1>1, <1>2 DEF EvidenceInv, PlanInv, Still
<1>5. ValidationInv'
  BY <1>1 DEF EvidenceInv, ValidationInv, Says
<1>6. ReadyInv'
  BY <1>1 DEF EvidenceInv, ReadyInv, NothingInFlight, ValidationBinds, AllowedAt, PlanIsClosed,
     CurrentReceipts
<1>7. BlockedInv'
  BY <1>1 DEF EvidenceInv, BlockedInv, PlanStillMatches, ActiveValidationBindsPlan, BuildsFrom,
     EvidenceOf, SamePlan
<1> QED
  BY <1>2, <1>3, <1>4, <1>5, <1>6, <1>7 DEF EvidenceInv

LEMMA CollectsBacked ==
  ASSUME BackedInv, Collects
  PROVE  EvidenceInv'
<1>1. validation.outcome = "NONE" /\ plan.status = "NONE"
  BY DEF BackedInv, OwnedInv, SessionInv, NothingDecided, NoValidation, NoPlan, Collects
<1>2. WorldInv' /\ Prepared' = Prepared
  BY DEF BackedInv, EvidenceInv, WorldInv, Prepared, Collects
<1>3. HeldInv'
  BY <1>2 DEF BackedInv, EvidenceInv, HeldInv, Observed, Collects
<1> QED
  BY <1>1, <1>2, <1>3
  DEF EvidenceInv, PlanInv, ValidationInv, ReadyInv, BlockedInv, Collects

LEMMA ClosesBacked ==
  ASSUME BackedInv, GivesUp \/ Recovers
  PROVE  EvidenceInv'
<1>0. TypeOK
  BY DEF BackedInv, OwnedInv
<1>1. /\ state # "NONE" /\ state' \in {"FAILED", "INTERRUPTED"} /\ reobs' = "idle"
      /\ UNCHANGED <<head, versions, scenario, receipt, decision>>
  <2>1. CASE GivesUp
    BY <2>1 DEF GivesUp, FailSession, Terminal
  <2>2. CASE Recovers
    BY <2>2 DEF Recovers, RecoverInFlightSession, InFlight
  <2> QED
    BY <2>1, <2>2
<1>2. plan' = plan \/ plan'.status = "INVALIDATED"
  <2>1. CASE GivesUp
    <3> PICK preserve : FailSession(preserve)
      BY <2>1 DEF GivesUp
    <3>1. CloseClaim(preserve) \/ plan' = plan
      BY <2>1 DEF FailSession
    <3> QED
      BY <1>0, <3>1 DEF CloseClaim, TypeOK, RefreshPlan
  <2>2. CASE Recovers
    BY <1>0, <2>2 DEF Recovers, RecoverInFlightSession, TypeOK, RefreshPlan
  <2> QED
    BY <2>1, <2>2
<1>3. WorldInv' /\ Prepared' = Prepared
  BY <1>1 DEF BackedInv, EvidenceInv, WorldInv, Prepared
<1>4. HeldInv'
  BY <1>1, <1>3 DEF BackedInv, EvidenceInv, HeldInv, Observed
<1>5. PlanInv'
  BY <1>1, <1>2, <1>3 DEF BackedInv, EvidenceInv, PlanInv
<1> QED
  BY <1>1, <1>3, <1>4, <1>5 DEF EvidenceInv, ValidationInv, ReadyInv, BlockedInv

-----------------------------------------------------------------------------
(* Clients *)

LEMMA CreateBacked ==
  ASSUME BackedInv, NEW s \in Scenarios, CreateSession(s)
  PROVE  EvidenceInv'
<1>0. OwnerInv /\ RecordInv /\ SessionInv
  BY DEF BackedInv, OwnedInv
<1>1. /\ state = "NONE" /\ state' = "DISPATCHING" /\ scenario' = s
      /\ head' = Fixture[s].head /\ versions' = Fixture[s].versions
      /\ receipt' = [t \in Task |-> IF t = Reobs THEN NoReceipt ELSE Fixture[s].seen[t]]
      /\ UNCHANGED <<plan, validation, decision, reobs>>
  BY DEF CreateSession
<1>2. /\ plan.status = "NONE" /\ validation.outcome = "NONE" /\ reobs = "idle"
      /\ decision[Reobs].status = "NONE"
  BY <1>0, <1>1, TaskFacts
  DEF OwnerInv, SessionInv, NothingDecided, NoPlan, NoValidation, RecordInv, RecordsAgree
<1>3. Prepared' = head' /\ head' \in Nat
  BY <1>1, FixturesPrepared DEF Prepared, FixtureIsPrepared
<1>4. WorldInv'
  BY <1>1, <1>3 DEF WorldInv
<1>5. ASSUME NEW r \in Roles
      PROVE  Observed(r, receipt[r])'
  <2>1. receipt'[r] = Fixture[s].seen[r]
    BY <1>1, TaskFacts, NamesDistinct
  <2>2. Resolves(versions', r, receipt'[r], head')
    BY <1>1, <2>1, FixturesPrepared DEF FixtureIsPrepared
  <2> QED
    BY <1>3, <2>2 DEF Observed, Resolves
<1>6. HeldInv'
  BY <1>1, <1>2, <1>5 DEF HeldInv
<1> QED
  BY <1>1, <1>2, <1>4, <1>6 DEF EvidenceInv, PlanInv, ValidationInv, ReadyInv, BlockedInv

LEMMA ResetBacked ==
  ASSUME BackedInv, ResetDemo
  PROVE  EvidenceInv'
<1>1. reobs' = "idle"
  BY DEF BackedInv, OwnedInv, OwnerInv, ResetDemo, Terminal, processVars
<1>2. state' = "NONE" /\ plan' = NoPlan /\ validation' = NoValidation
  BY DEF ResetDemo
<1> QED
  BY <1>1, <1>2
  DEF EvidenceInv, WorldInv, HeldInv, PlanInv, ValidationInv, ReadyInv, BlockedInv, NoPlan,
      NoValidation

LEMMA PlannerBacked ==
  ASSUME BackedInv, NEW expected, InvalidatePlan(expected) \/ ClaimPlan(expected)
  PROVE  EvidenceInv'
<1>0. TypeOK /\ OwnerInv
  BY DEF BackedInv, OwnedInv
<1>1. /\ state = "BLOCKED_NO_CUT" /\ state' \in {"UNSTABLE_WORLD", "REOBSERVING"}
      /\ reobs' \notin {"pack", "run"}
      /\ UNCHANGED <<head, versions, scenario, current, validation, receipt, decision>>
      /\ plan.status = "AVAILABLE"
  BY <1>0 DEF InvalidatePlan, ClaimPlan, Claimable, OwnerInv, recordVars, processVars
<1>2. WorldInv' /\ Prepared' = Prepared
  BY <1>1 DEF BackedInv, EvidenceInv, WorldInv, Prepared
<1>3. HeldInv'
  BY <1>1, <1>2 DEF BackedInv, EvidenceInv, HeldInv, Observed
<1>4. PlanInv'
  <2>1. CASE InvalidatePlan(expected)
    <3>1. state' = "UNSTABLE_WORLD" /\ plan'.status = "INVALIDATED"
      BY <1>0, <2>1 DEF InvalidatePlan, TypeOK, RefreshPlan
    <3> QED
      BY <1>1, <3>1 DEF PlanInv
  <2>2. CASE ClaimPlan(expected)
    <3>1. /\ plan'.head = plan.head /\ plan'.decisions = plan.decisions /\ plan'.base = plan.base
          /\ rev' = rev + 1 /\ rev \in Nat
      BY <1>0, <2>2 DEF ClaimPlan, TypeOK, RefreshPlan
    <3>2. /\ plan.decisions = current /\ plan.base = rev
          /\ \A r \in Roles : current[r] # None
      BY <2>2 DEF ClaimPlan, PlanStillMatches, SamePlan, BuildsFrom
    <3>3. Prepared <= plan.head /\ plan.head <= head
      BY <1>1 DEF BackedInv, EvidenceInv, PlanInv
    <3> QED
      BY <1>1, <1>2, <3>1, <3>2, <3>3 DEF PlanInv
  <2> QED
    BY <2>1, <2>2
<1>5. ValidationInv'
  BY <1>1 DEF BackedInv, EvidenceInv, ValidationInv, Says
<1> QED
  BY <1>1, <1>2, <1>3, <1>4, <1>5 DEF EvidenceInv, ReadyInv, BlockedInv

LEMMA GateBacked ==
  ASSUME BackedInv, NEW expected, CommitRace(expected) \/ CommitEffect(expected)
  PROVE  EvidenceInv'
<1>0. TypeOK /\ OwnerInv
  BY DEF BackedInv, OwnedInv
<1>1. /\ state = "READY_AT_CURRENT_HEAD" /\ state' \in {"COMMIT_RACE", "COMMITTED"}
      /\ reobs' = "idle"
      /\ UNCHANGED <<head, versions, scenario, current, validation, plan, active, receipt,
                     decision>>
      /\ rev' = rev + 1 /\ rev \in Nat
  BY <1>0 DEF CommitRace, CommitEffect, PermitHeld, OwnerInv, recordVars, processVars, TypeOK
<1>2. WorldInv' /\ Prepared' = Prepared
  BY <1>1 DEF BackedInv, EvidenceInv, WorldInv, Prepared
<1>3. HeldInv'
  BY <1>1, <1>2 DEF BackedInv, EvidenceInv, HeldInv, Observed
<1>4. PlanInv'
  BY <1>1, <1>2 DEF BackedInv, EvidenceInv, PlanInv
<1>5. ValidationInv'
  BY <1>1 DEF BackedInv, EvidenceInv, ValidationInv, Says
<1>6. ReadyInv'
  <2>1. CASE CommitRace(expected)
    BY <2>1 DEF CommitRace, ReadyInv
  <2>2. CASE CommitEffect(expected)
    <3>1. /\ effects = <<>> /\ head = permit.head /\ state' = "COMMITTED"
          /\ effects' = Append(effects, [cut |-> head, evidence |-> CurrentReceipts])
          /\ permit' = [permit EXCEPT !.status = "CONSUMED"]
      BY <2>2 DEF CommitEffect, PermitHeld
    <3>2. /\ permit'.status = "CONSUMED" /\ permit'.active = permit.active
          /\ permit'.head = permit.head
      BY <1>0, <3>1 DEF TypeOK, EffectPermit
    <3>3. effects' = <<[cut |-> permit'.head, evidence |-> CurrentReceipts']>>
      BY <1>1, <3>1, <3>2 DEF CurrentReceipts
    <3>4. /\ NothingInFlight /\ permit.active /\ permit.head <= head
          /\ ValidationBinds(permit.head) /\ AllowedAt(permit.head) /\ PlanIsClosed
      BY <1>1 DEF BackedInv, EvidenceInv, ReadyInv
    <3>5. NothingInFlight' /\ ValidationBinds(permit.head)' /\ AllowedAt(permit.head)'
      BY <1>1, <3>2, <3>4 DEF NothingInFlight, ValidationBinds, AllowedAt
    <3>6. PlanIsClosed'
      BY <1>0, <1>1, <3>4 DEF PlanIsClosed, TypeOK, ValidationRecord
    <3> QED
      BY <1>1, <3>1, <3>2, <3>3, <3>4, <3>5, <3>6 DEF ReadyInv
  <2> QED
    BY <2>1, <2>2
<1> QED
  BY <1>1, <1>2, <1>3, <1>4, <1>5, <1>6 DEF EvidenceInv, BlockedInv

-----------------------------------------------------------------------------
(* The capture, and commits from outside *)

(* The Decision of the re-observation exists only once it was accepted.      *)
LEMMA NotYetReobserved ==
  ASSUME OwnedInv, state = "REOBSERVING"
  PROVE  /\ decision[Reobs].status = "NONE"
         /\ \A r \in Roles : current[r] # Reobs
<1>1. assignment[Reobs] # "CONSUMED" /\ RecordsAgree(Reobs)
  BY TaskFacts DEF OwnedInv, SessionInv, ClaimHeld, RecordInv
<1>2. decision[Reobs].status = "NONE" /\ current[RoleOf(Reobs)] # Reobs
  BY <1>1 DEF RecordsAgree
<1>3. ASSUME NEW r \in Roles, current[r] = Reobs
      PROVE  FALSE
  <2>1. RoleOf(Reobs) = r
    BY <1>3, TaskFacts, NamesDistinct DEF OwnedInv, RecordInv
  <2> QED
    BY <1>2, <1>3, <2>1
<1> QED
  BY <1>2, <1>3

LEMMA CaptureBacked ==
  ASSUME BackedInv, CaptureRefreshObservation
  PROVE  EvidenceInv'
<1>0. TypeOK /\ OwnedInv /\ LedgerInv
  BY DEF BackedInv, OwnedInv, PromiseInv, ServiceInv, TypeOK, LedgerInv
<1>1. /\ state = "REOBSERVING" /\ reobs' = "pack"
      /\ head = RefreshHead[scenario]
      /\ receipt' = [receipt EXCEPT ![Reobs] = Observation(versions, Budget, head)]
      /\ VersionsAt(versions, Budget, head) # {}
      /\ UNCHANGED <<head, versions, scenario, state, rev, current, validation, plan, decision>>
  BY <1>0 DEF CaptureRefreshObservation, OwnedInv, OwnerInv, pointerVars
<1>2. WorldInv' /\ Prepared' = Prepared
  BY <1>1 DEF BackedInv, EvidenceInv, WorldInv, Prepared
<1>3. head = Prepared
  <2>1. scenario \in Scenarios /\ Prepared <= head
    BY <1>1 DEF BackedInv, EvidenceInv, WorldInv
  <2>2. Prepared \in Nat \ {0} /\ head \in Nat
    BY <1>0, <2>1, FixturesPrepared DEF FixtureIsPrepared, Prepared, TypeOK, LedgerTypeOK
  <2>3. head \in {0, Prepared}
    BY <1>1, <2>1, RefreshAtPreparedHead DEF Prepared
  <2> QED
    BY <2>1, <2>2, <2>3
<1>4. plan.head = Prepared
  <2>1. plan.status = "CLAIMED"
    BY <1>0, <1>1 DEF OwnedInv, SessionInv, ClaimHeld
  <2>2. Prepared <= plan.head /\ plan.head <= head
    BY <2>1 DEF BackedInv, EvidenceInv, PlanInv
  <2> QED
    BY <1>0, <1>3, <2>2 DEF TypeOK, RefreshPlan, LedgerTypeOK
<1>5. Observed(Budget, receipt[Reobs])'
  <2>1. receipt'[Reobs] = Observation(versions, Budget, head)
    BY <1>0, <1>1, TaskFacts DEF TypeOK
  <2>2. Resolves(versions, Budget, Observation(versions, Budget, head), head)
    BY <1>0, <1>1, TaskFacts, ObservationResolves
  <2> QED
    BY <1>1, <1>2, <1>3, <2>1, <2>2 DEF Observed, Resolves
<1>6. \A t \in Task : t # Reobs => receipt'[t] = receipt[t]
  BY <1>0, <1>1 DEF TypeOK
<1>7. HeldInv'
  BY <1>1, <1>2, <1>5, <1>6, TaskFacts, NamesDistinct
  DEF BackedInv, EvidenceInv, HeldInv, Observed
<1>8. PlanInv'
  BY <1>1, <1>2, <1>4 DEF BackedInv, EvidenceInv, PlanInv
<1>9. ValidationInv'
  <2>1. \A r \in Roles : current[r] # None => receipt'[current[r]] = receipt[current[r]]
    BY <1>0, <1>1, <1>6, NotYetReobserved DEF TypeOK, Pointers
  <2> QED
    BY <1>1, <2>1 DEF BackedInv, EvidenceInv, ValidationInv, Says
<1> QED
  BY <1>1, <1>2, <1>7, <1>8, <1>9 DEF EvidenceInv, ReadyInv, BlockedInv

LEMMA WorldBacked ==
  ASSUME BackedInv, NEW q \in Roles, NEW value \in Values, WorldCommit(q, value)
  PROVE  EvidenceInv'
<1> DEFINE changes == [p \in {q} |-> value]
           next == Committed(versions, head + 1, changes)
<1>0. TypeOK /\ OwnerInv
  BY DEF BackedInv, OwnedInv
<1>1. /\ head' = head + 1 /\ head \in Nat /\ versions' = next
      /\ versions \in [Roles -> SUBSET Version]
      /\ state # "NONE"
      /\ DOMAIN changes = {q} /\ changes[q] = value
  BY <1>0, WorldCommitFacts DEF TypeOK, LedgerTypeOK
<1>2. UNCHANGED <<scenario, state, rev, active, current, validation, plan, permit, receipt,
                  decision, effects, reobs>>
  BY DEF WorldCommit, pointerVars, recordVars, processVars
<1> HIDE DEF changes
<1>3. \A r \in Roles : \A seen \in Receipt :
        Resolves(versions, r, seen, head) => Resolves(next, r, seen, head + 1)
  BY <1>1, CommittedResolves
<1>4. \A r \in Roles : \A v \in versions[r] : \E w \in next[r] :
        /\ w.from = v.from /\ w.value = v.value
        /\ \A s \in 0..head : Contains(v, s) => Contains(w, s)
  BY <1>1, CommitKeepsVersion
<1>5. \E w \in next[q] : w.from = head + 1
  <2>1. Opened(value, head + 1) \in next[q]
    BY <1>1 DEF Committed
  <2> QED
    BY <2>1 DEF Opened
<1> HIDE DEF next
<1>6. Prepared' = Prepared /\ Prepared \in Nat
  <2>1. scenario \in Scenarios
    BY <1>1 DEF BackedInv, EvidenceInv, WorldInv
  <2> QED
    BY <1>2, <2>1, FixturesPrepared DEF Prepared, FixtureIsPrepared
<1>7. WorldInv'
  BY <1>1, <1>2, <1>5, <1>6 DEF BackedInv, EvidenceInv, WorldInv
<1>8. receipt \in [Task -> Receipt]
  BY <1>0 DEF TypeOK
<1>9. HeldInv'
  BY <1>1, <1>2, <1>3, <1>6, <1>8, TaskFacts DEF BackedInv, EvidenceInv, HeldInv, Observed
<1>10. PlanInv'
  BY <1>0, <1>1, <1>2, <1>6 DEF BackedInv, EvidenceInv, PlanInv, TypeOK, RefreshPlan
<1>11. ValidationInv'
  BY <1>1, <1>2, <1>4 DEF BackedInv, EvidenceInv, ValidationInv, Says
<1>12. ReadyInv'
  <2> SUFFICES ASSUME state \in {"READY_AT_CURRENT_HEAD", "COMMITTED"} PROVE ReadyInv'
    BY <1>2 DEF ReadyInv
  <2>1. /\ NothingInFlight /\ permit.active /\ permit.head <= head
        /\ ValidationBinds(permit.head) /\ AllowedAt(permit.head) /\ PlanIsClosed
    BY DEF BackedInv, EvidenceInv, ReadyInv
  <2>2. AllowedAt(permit.head)'
    <3> SUFFICES ASSUME NEW r \in Roles
                 PROVE  /\ current[r] # None
                        /\ decision[current[r]].verdict = "ALLOW"
                        /\ receipt[current[r]].at <= permit.head
                        /\ \E w \in next[r] :
                             /\ w.from = receipt[current[r]].rev
                             /\ Contains(w, receipt[current[r]].at)
                             /\ Contains(w, permit.head)
                             /\ w.value = "ALLOW"
      BY <1>1, <1>2 DEF AllowedAt
    <3>1. /\ current[r] # None
          /\ decision[current[r]].verdict = "ALLOW"
          /\ receipt[current[r]].at <= permit.head
      BY <2>1 DEF AllowedAt
    <3>2. receipt[current[r]].at \in 0..head /\ permit.head \in 0..head
      BY <1>0, <1>1, <2>1, <3>1 DEF TypeOK, Pointers, Receipt, EffectPermit
    <3>3. PICK v \in versions[r] :
            /\ v.from = receipt[current[r]].rev
            /\ Contains(v, receipt[current[r]].at)
            /\ Contains(v, permit.head)
            /\ v.value = "ALLOW"
      BY <2>1 DEF AllowedAt
    <3> QED
      BY <1>4, <3>1, <3>2, <3>3
  <2>3. permit'.head <= head'
    BY <1>0, <1>1, <1>2, <2>1 DEF TypeOK, EffectPermit
  <2> QED
    BY <1>2, <2>1, <2>2, <2>3
    DEF BackedInv, EvidenceInv, ReadyInv, NothingInFlight, ValidationBinds, PlanIsClosed,
        CurrentReceipts
<1>13. BlockedInv'
  BY <1>0, <1>1, <1>2 DEF BackedInv, EvidenceInv, BlockedInv, TypeOK, RefreshPlan
<1> QED
  BY <1>7, <1>9, <1>10, <1>11, <1>12, <1>13 DEF EvidenceInv

-----------------------------------------------------------------------------
(* The evidence of an acceptance *)

(* A receipt names one version, since the versions of a resource tile.       *)
LEMMA ReceiptNamesVersion ==
  ASSUME LedgerInv, NEW r \in Roles, NEW seen, Resolves(versions, r, seen, head)
  PROVE  LET v == VersionOf(versions, r, seen.rev) IN
         v \in versions[r] /\ v.from = seen.rev /\ Contains(v, seen.at)
<1> DEFINE v == VersionOf(versions, r, seen.rev)
<1>1. PICK w \in versions[r] : w.from = seen.rev /\ Contains(w, seen.at)
  BY DEF Resolves
<1>2. v \in versions[r] /\ v.from = seen.rev
  BY <1>1 DEF VersionOf
<1> HIDE DEF v
<1>3. /\ v \in Version /\ w \in Version
      /\ v = w \/ Disjoint(v, w)
      /\ v.until # Open => v.from < v.until
      /\ w.until # Open => w.from < w.until
  BY <1>1, <1>2
  DEF LedgerInv, LedgerTypeOK, HistoryTiles, Tiles, NoOverlap, WithinHistory
<1>4. v = w
  BY <1>1, <1>2, <1>3 DEF Disjoint, Version
<1> QED
  BY <1>1, <1>2, <1>4 DEF v

(* The version that opens at the head is the one that holds there.           *)
LEMMA OpensAtHead ==
  ASSUME LedgerInv, NEW r \in Roles, NEW v \in versions[r], Contains(v, head),
         NEW w \in versions[r], w.from = head
  PROVE  v = w
<1>1. /\ v \in Version /\ w \in Version /\ head \in Nat
      /\ v = w \/ Disjoint(v, w)
      /\ w.until # Open => w.from < w.until /\ w.until <= head
  BY DEF LedgerInv, LedgerTypeOK, HistoryTiles, Tiles, NoOverlap, WithinHistory
<1> QED
  BY <1>1 DEF Disjoint, Contains, Version

(* Whose Decisions an acceptance makes current.                              *)
LEMMA AcceptedPointers ==
  ASSUME BackedInv, NEW tasks, Accepting(tasks), NEW r \in Roles
  PROVE  LET t == Replaced(tasks)[r] IN
         /\ t \in Task /\ RoleOf(t) = r
         /\ \/ t \in tasks
            \/ /\ t = current[r] /\ t \in Roles
               /\ ~\E u \in tasks : RoleOf(u) = r
<1>0. TypeOK /\ RecordInv
  BY DEF BackedInv, OwnedInv
<1>1. CASE \E t \in tasks : RoleOf(t) = r
  <2>1. TaskOf(tasks, r) \in tasks /\ RoleOf(TaskOf(tasks, r)) = r
    BY <1>1 DEF TaskOf
  <2>2. Replaced(tasks)[r] = TaskOf(tasks, r)
    BY <1>1 DEF Replaced
  <2>3. tasks \subseteq Task
    BY AcceptingFacts
  <2> QED
    BY <2>1, <2>2, <2>3
<1>2. CASE ~\E t \in tasks : RoleOf(t) = r
  <2>1. Replaced(tasks)[r] = current[r]
    BY <1>2 DEF Replaced
  <2>2. state = "REOBSERVING"
    BY <1>2, TaskFacts DEF Accepting
  <2>3. current[r] # None /\ current[r] # Reobs
    BY <2>2, NotYetReobserved DEF BackedInv, EvidenceInv, PlanInv
  <2>4. current[r] \in Task /\ RoleOf(current[r]) = r
    BY <1>0, <2>3 DEF TypeOK, Pointers, RecordInv
  <2> QED
    BY <1>2, <2>1, <2>3, <2>4 DEF Task
<1> QED
  BY <1>1, <1>2

LEMMA AcceptedEvidence ==
  ASSUME BackedInv, NEW tasks, Accepting(tasks), tasks = {Reobs} => reobs = "run",
         NEW r \in Roles
  PROVE  LET seen == receipt[Replaced(tasks)[r]]
             v == EvidenceOf(Replaced(tasks))[r]
         IN  /\ Observed(r, seen)
             /\ v \in versions[r] /\ v.from = seen.rev /\ Contains(v, seen.at)
<1> DEFINE t == Replaced(tasks)[r]
           v == EvidenceOf(Replaced(tasks))[r]
<1>0. LedgerInv /\ state # "NONE" /\ HeldInv
  BY DEF BackedInv, PromiseInv, ServiceInv, TypeOK, LedgerInv, Accepting, EvidenceInv
<1>1. Observed(r, receipt[t])
  <2>1. t \in Task /\ RoleOf(t) = r /\ (t \in tasks \/ t \in Roles)
    BY AcceptedPointers
  <2> HIDE DEF t
  <2>2. CASE t \in Roles
    BY <1>0, <2>1, <2>2, TaskFacts DEF HeldInv
  <2>3. CASE t = Reobs
    <3>1. tasks = {Reobs}
      BY <2>1, <2>3, NamesDistinct DEF Accepting
    <3> QED
      BY <1>0, <2>1, <2>3, <3>1, TaskFacts DEF HeldInv
  <2> QED
    BY <2>1, <2>2, <2>3 DEF Task
<1>2. v = VersionOf(versions, r, receipt[t].rev)
  BY DEF EvidenceOf
<1> HIDE DEF t, v
<1>3. v \in versions[r] /\ v.from = receipt[t].rev /\ Contains(v, receipt[t].at)
  BY <1>0, <1>1, <1>2, ReceiptNamesVersion DEF Observed
<1> QED
  BY <1>1, <1>3 DEF t, v

(* Evidence that was observed in the prepared World and all of which holds   *)
(* at the head says that the World has not moved since.                      *)
LEMMA CurrentMeansPrepared ==
  ASSUME BackedInv, NEW tasks, Accepting(tasks), tasks = {Reobs} => reobs = "run",
         CurrentInvalidOwners(EvidenceOf(Replaced(tasks)), head) = {}
  PROVE  head = Prepared
<1>0. /\ LedgerInv /\ state # "NONE"
      /\ scenario \in Scenarios /\ Prepared <= head
      /\ head = Prepared \/ \E r \in Roles : \E w \in versions[r] : w.from = head
  BY DEF BackedInv, PromiseInv, ServiceInv, TypeOK, LedgerInv, Accepting, EvidenceInv, WorldInv
<1>1. SUFFICES ASSUME NEW r \in Roles, NEW w \in versions[r], w.from = head
               PROVE  head = Prepared
  BY <1>0
<1> DEFINE seen == receipt[Replaced(tasks)[r]]
           v == EvidenceOf(Replaced(tasks))[r]
<1>2. v \in versions[r] /\ Contains(v, seen.at) /\ seen.at <= Prepared
  BY AcceptedEvidence DEF Observed
<1>3. Contains(v, head)
  BY DEF CurrentInvalidOwners
<1>4. seen.at \in Nat
  <2>1. Replaced(tasks)[r] \in Task
    BY AcceptedPointers
  <2> QED
    BY <2>1 DEF BackedInv, OwnedInv, TypeOK, Receipt
<1> HIDE DEF seen, v
<1>5. v.from = head
  BY <1>0, <1>1, <1>2, <1>3, OpensAtHead
<1>6. head \in Nat /\ Prepared \in Nat
  BY <1>0, FixturesPrepared DEF LedgerInv, LedgerTypeOK, Prepared, FixtureIsPrepared
<1> QED
  BY <1>0, <1>2, <1>4, <1>5, <1>6 DEF Contains

(* What the outcomes of the validator say of the evidence.                   *)
LEMMA OutcomeMeans ==
  ASSUME NEW evidence, NEW verdict, NEW h
  PROVE  /\ ValidationOutcome(evidence, verdict, h) = "VALID_CURRENT_ALLOW" =>
              /\ CurrentInvalidOwners(evidence, h) = {}
              /\ \A r \in Roles : verdict[r] # "DENY"
         /\ ValidationOutcome(evidence, verdict, h) = "NO_VALID_OBSERVED_WORLD_CUT" =>
              LowerBound(evidence) >= UpperBound(evidence, h)
  BY DEF ValidationOutcome

(* Accepted outputs, all well-formed, become the current Decisions.          *)
LEMMA ConsumeDecides ==
  ASSUME BackedInv, NEW tasks, Accepting(tasks), NEW output \in [tasks -> Output],
         Wellformed(tasks, output), Consume(tasks, output)
  PROVE  /\ current' = Replaced(tasks)
         /\ \A r \in Roles :
              LET t == Replaced(tasks)[r] IN
              /\ decision'[t].status = "ACTIVE"
              /\ decision'[t].verdict = VerdictOf(Replaced(tasks), output)[r]
<1> DEFINE accepted == {t \in tasks : output[t] \in Values}
<1>0. TypeOK /\ RecordInv /\ tasks \in SUBSET Task
  BY AcceptingFacts DEF BackedInv, OwnedInv
<1>1. accepted = tasks
  BY DEF Wellformed
<1>2. /\ current' = Replaced(tasks)
      /\ decision' = [t \in Task |->
           IF t \in tasks THEN [status |-> "ACTIVE", verdict |-> output[t]]
           ELSE IF \E u \in tasks : current[RoleOf(u)] = t
             THEN [decision[t] EXCEPT !.status = "SUPERSEDED"]
           ELSE decision[t]]
  BY <1>1 DEF Consume
<1>3. ASSUME NEW r \in Roles
      PROVE  LET t == Replaced(tasks)[r] IN
             /\ decision'[t].status = "ACTIVE"
             /\ decision'[t].verdict = VerdictOf(Replaced(tasks), output)[r]
  <2> DEFINE t == Replaced(tasks)[r]
  <2>1. /\ t \in Task /\ RoleOf(t) = r
        /\ t \in tasks \/ (t = current[r] /\ ~\E u \in tasks : RoleOf(u) = r)
    BY AcceptedPointers
  <2>2. VerdictOf(Replaced(tasks), output)[r] =
          IF t \in tasks THEN output[t] ELSE decision[t].verdict
    BY DEF VerdictOf
  <2> HIDE DEF t
  <2>3. CASE t \in tasks
    BY <1>2, <2>1, <2>2, <2>3 DEF t
  <2>4. CASE t \notin tasks
    <3>1. t = current[r] /\ ~\E u \in tasks : RoleOf(u) = r
      BY <2>1, <2>4
    <3>2. ~\E u \in tasks : current[RoleOf(u)] = t
      <4> SUFFICES ASSUME NEW u \in tasks, current[RoleOf(u)] = t PROVE FALSE
        OBVIOUS
      <4>1. RoleOf(u) \in Roles
        BY <1>0, TaskFacts
      <4>2. RoleOf(current[RoleOf(u)]) = RoleOf(u)
        BY <1>0, <2>1, <4>1, NamesDistinct DEF RecordInv
      <4> QED
        BY <2>1, <3>1, <4>2
    <3>3. decision'[t] = decision[t]
      BY <1>2, <2>1, <2>4, <3>2
    <3>4. decision[t].status = "ACTIVE"
      BY <1>0, <2>1, <3>1 DEF RecordInv, RecordsAgree
    <3> QED
      BY <2>2, <2>4, <3>3, <3>4 DEF t
  <2> QED
    BY <2>3, <2>4
<1> QED
  BY <1>2, <1>3

(* A Decision of the re-observation comes only from the refresh request.      *)
LEMMA HeldAfterAccept ==
  ASSUME BackedInv, NEW tasks, NEW output \in [tasks -> Output], Settles(tasks, output)
  PROVE  WorldInv' /\ HeldInv' /\ Prepared' = Prepared
<1>0. TypeOK /\ tasks \in SUBSET Task /\ state # "NONE" /\ state' # "NONE"
  <2>1. OwnedInv /\ Accepting(tasks)
    BY DEF BackedInv, Settles
  <2>2. state' \in SessionState \ (InFlight \cup {"NONE"})
    BY <2>1, AcceptOwned DEF Settles
  <2> QED
    BY <2>1, <2>2, AcceptingFacts DEF OwnedInv, Accepting
<1>1. UNCHANGED <<head, versions, scenario, receipt>> /\ reobs' = "idle"
  BY DEF Settles
<1>2. Consume(tasks, output)
  BY DEF Settles, PersistValidation, PersistRejection
<1>3. decision'[Reobs].status # "NONE" =>
        decision[Reobs].status # "NONE" \/ (reobs = "run")
  <2>1. CASE Reobs \in tasks
    BY <2>1, TaskFacts, NamesDistinct DEF Settles, Accepting
  <2>2. CASE Reobs \notin tasks
    <3>1. decision'[Reobs].status # "NONE" =>
            \/ decision'[Reobs] = decision[Reobs]
            \/ \E u \in tasks : current[RoleOf(u)] = Reobs
      BY <1>2, <2>2, TaskFacts DEF Consume
    <3>2. \A u \in tasks : current[RoleOf(u)] = Reobs => decision[Reobs].status = "ACTIVE"
      <4> SUFFICES ASSUME NEW u \in tasks, current[RoleOf(u)] = Reobs
                   PROVE  decision[Reobs].status = "ACTIVE"
        OBVIOUS
      <4>1. RoleOf(u) \in Roles /\ RecordInv
        BY <1>0, TaskFacts DEF BackedInv, OwnedInv
      <4>2. RoleOf(Reobs) = RoleOf(u) /\ RecordsAgree(Reobs)
        BY <4>1, TaskFacts, NamesDistinct DEF RecordInv
      <4> QED
        BY <4>2 DEF RecordsAgree
    <3> QED
      BY <3>1, <3>2
  <2> QED
    BY <2>1, <2>2
<1>4. WorldInv' /\ Prepared' = Prepared
  BY <1>0, <1>1 DEF BackedInv, EvidenceInv, WorldInv, Prepared
<1>5. HeldInv'
  BY <1>0, <1>1, <1>3, <1>4 DEF BackedInv, EvidenceInv, HeldInv, Observed
<1> QED
  BY <1>4, <1>5

LEMMA ValidatedEvidence ==
  ASSUME BackedInv, NEW tasks, NEW output \in [tasks -> Output], Settles(tasks, output),
         PersistValidation(tasks, output), NEW r \in Roles
  PROVE  LET t == Replaced(tasks)[r]
             v == EvidenceOf(Replaced(tasks))[r]
         IN  /\ t \in Task /\ t # None
             /\ decision'[t].status = "ACTIVE"
             /\ decision'[t].verdict = v.value
             /\ VerdictOf(Replaced(tasks), output)[r] = v.value
             /\ Observed(r, receipt[t])
             /\ v \in versions[r] /\ v.from = receipt[t].rev /\ Contains(v, receipt[t].at)
<1>1. /\ Accepting(tasks)
      /\ tasks = {Reobs} => reobs = "run"
      /\ Wellformed(tasks, output) /\ ~Mismatch(tasks, output) /\ Consume(tasks, output)
  BY DEF Settles, PersistValidation, Persistable
<1>2. VerdictOf(Replaced(tasks), output)[r] = EvidenceOf(Replaced(tasks))[r].value
  BY <1>1 DEF Mismatch
<1>3. Replaced(tasks)[r] \in Task
  BY <1>1, AcceptedPointers
<1>4. Replaced(tasks)[r] # None
  BY <1>3, NamesDistinct
<1> QED
  BY <1>1, <1>2, <1>3, <1>4, ConsumeDecides, AcceptedEvidence

LEMMA ValidationAfter ==
  ASSUME BackedInv, NEW tasks, NEW output \in [tasks -> Output], Settles(tasks, output),
         PersistValidation(tasks, output)
  PROVE  ValidationInv'
<1>1. /\ current' = Replaced(tasks) /\ validation'.decisions = Replaced(tasks)
      /\ UNCHANGED <<versions, receipt>>
  BY ConsumeDecides DEF Settles, PersistValidation, Persistable
<1>2. ASSUME NEW r \in Roles
      PROVE  /\ current'[r] # None
             /\ Says(r, receipt[current[r]], decision[current[r]].verdict)'
  BY <1>1, ValidatedEvidence DEF Says
<1> QED
  BY <1>1, <1>2 DEF ValidationInv

(* What the Session points to when an acceptance begins.                     *)
LEMMA AcceptanceBegins ==
  ASSUME BackedInv, NEW tasks, NEW output, Settles(tasks, output)
  PROVE  /\ tasks = Roles => plan = NoPlan /\ ~ClaimOpen /\ active = [r \in Roles |-> r]
         /\ tasks # Roles => /\ tasks = {Reobs} /\ state = "REOBSERVING"
                             /\ ClaimOpen /\ ClaimHeld /\ plan.head = Prepared
                             /\ plan.decisions = current /\ plan.base < rev
<1>1. Accepting(tasks) /\ SessionInv /\ PlanInv /\ Roles # {Reobs}
  BY TaskFacts, NamesDistinct DEF BackedInv, OwnedInv, EvidenceInv, Settles
<1>2. CASE tasks = Roles
  BY <1>1, <1>2 DEF Accepting, SessionInv, NothingDecided, ClaimOpen, NoPlan
<1>3. CASE tasks # Roles
  BY <1>1, <1>3 DEF Settles, Accepting, SessionInv, ClaimHeld, ClaimOpen, PlanInv
<1> QED
  BY <1>2, <1>3

LEMMA PlanAfter ==
  ASSUME BackedInv, NEW tasks, NEW output \in [tasks -> Output], Settles(tasks, output)
  PROVE  PlanInv'
<1>0. /\ TypeOK /\ LedgerInv /\ head \in Nat /\ Prepared \in Nat /\ Prepared <= head
      /\ head' = head /\ Prepared' = Prepared /\ reobs' = "idle" /\ state' # "REOBSERVING"
  <2>1. OwnedInv /\ Accepting(tasks)
    BY DEF BackedInv, Settles
  <2>2. state' \notin InFlight
    BY <2>1, AcceptOwned DEF Settles
  <2>3. scenario \in Scenarios /\ Prepared <= head
    BY <2>1 DEF BackedInv, EvidenceInv, WorldInv, Accepting
  <2>4. LedgerInv /\ TypeOK
    BY DEF BackedInv, PromiseInv, ServiceInv, TypeOK, LedgerInv
  <2> QED
    BY <2>2, <2>3, <2>4, HeldAfterAccept, FixturesPrepared
    DEF InFlight, FixtureIsPrepared, Prepared, Settles, LedgerInv, LedgerTypeOK
<1>1. \/ plan'.head = head
      \/ plan'.head = plan.head /\ plan.status \in {"CLAIMED", plan'.status}
  <2>1. CASE PersistRejection(tasks, output)
    BY <2>1 DEF PersistRejection
  <2>2. CASE PersistValidation(tasks, output)
    BY <1>0, <2>2 DEF PersistValidation, TypeOK, RefreshPlan, ClaimOpen
  <2> QED
    BY <2>1, <2>2 DEF Settles
<1> QED
  BY <1>0, <1>1 DEF BackedInv, EvidenceInv, PlanInv

LEMMA ReadyAfter ==
  ASSUME BackedInv, NEW tasks, NEW output \in [tasks -> Output], Settles(tasks, output),
         PersistValidation(tasks, output)
  PROVE  ReadyInv'
<1> DEFINE P == Replaced(tasks)
           E == EvidenceOf(P)
<1>0. TypeOK /\ LedgerInv /\ rev \in Nat /\ RecordInv
  BY DEF BackedInv, OwnedInv, PromiseInv, ServiceInv, TypeOK, LedgerInv
<1>1. /\ state' = StateFor(OutcomeOf(tasks, output))
      /\ Accepting(tasks)
      /\ tasks = {Reobs} => reobs = "run"
      /\ UNCHANGED <<head, versions, receipt>>
      /\ current' = P /\ rev' = rev + 2
  BY ConsumeDecides DEF Settles, PersistValidation, Persistable
<1>2. SUFFICES ASSUME OutcomeOf(tasks, output) = "VALID_CURRENT_ALLOW" PROVE ReadyInv'
  BY <1>1 DEF StateFor, ReadyInv
<1>3. /\ CurrentInvalidOwners(E, head) = {}
      /\ \A r \in Roles : VerdictOf(P, output)[r] # "DENY"
  BY <1>2, OutcomeMeans DEF OutcomeOf
<1>4. /\ validation' = [outcome |-> "VALID_CURRENT_ALLOW", base |-> rev + 1, head |-> head,
                        decisions |-> P,
                        refreshed |-> IF ClaimOpen THEN TRUE ELSE FALSE]
      /\ permit' = [status |-> "ISSUED", active |-> TRUE, head |-> head]
      /\ plan' = IF ClaimOpen THEN [plan EXCEPT !.status = "COMPLETED"] ELSE plan
      /\ active' = [r \in Roles |-> IF \E t \in tasks : RoleOf(t) = r THEN None ELSE active[r]]
      /\ state' = "READY_AT_CURRENT_HEAD"
  <2>1. CASE ClaimOpen
    BY <1>1, <1>2, <2>1 DEF PersistValidation, StateFor
  <2>2. CASE ~ClaimOpen
    BY <1>1, <1>2, <2>2 DEF PersistValidation, StateFor
  <2> QED
    BY <2>1, <2>2
<1>5. AllowedAt(head)'
  <2> SUFFICES ASSUME NEW r \in Roles
               PROVE  /\ P[r] # None
                      /\ decision'[P[r]].verdict = "ALLOW"
                      /\ receipt[P[r]].at <= head
                      /\ \E v \in versions[r] :
                           /\ v.from = receipt[P[r]].rev
                           /\ Contains(v, receipt[P[r]].at)
                           /\ Contains(v, head)
                           /\ v.value = "ALLOW"
    BY <1>1 DEF AllowedAt
  <2>1. /\ P[r] # None /\ decision'[P[r]].verdict = E[r].value
        /\ VerdictOf(P, output)[r] = E[r].value /\ Observed(r, receipt[P[r]])
        /\ E[r] \in versions[r] /\ E[r].from = receipt[P[r]].rev
        /\ Contains(E[r], receipt[P[r]].at)
    BY ValidatedEvidence
  <2>2. Contains(E[r], head)
    BY <1>3 DEF CurrentInvalidOwners
  <2> HIDE DEF P, E
  <2>3. E[r].value = "ALLOW"
    BY <1>0, <1>3, <2>1 DEF LedgerInv, LedgerTypeOK, Version, Values
  <2> QED
    BY <2>1, <2>2, <2>3 DEF Observed, Resolves
<1>6. head = Prepared
  BY <1>1, <1>3, CurrentMeansPrepared
<1>7. NothingInFlight'
  <2>1. CASE tasks = Roles
    <3>1. active' = NoAttempts
      BY <1>4, <2>1, TaskFacts DEF NoAttempts
    <3>2. plan' = NoPlan
      BY <1>4, <2>1, AcceptanceBegins
    <3> QED
      BY <3>1, <3>2 DEF NothingInFlight, NoPlan
  <2>2. CASE tasks # Roles
    <3>1. tasks = {Reobs} /\ ClaimOpen /\ ClaimHeld
      BY <2>2, AcceptanceBegins
    <3>2. active' = NoAttempts
      BY <1>4, <3>1, TaskFacts DEF NoAttempts, ClaimHeld
    <3>3. plan'.status = "COMPLETED"
      BY <1>0, <1>4, <3>1 DEF TypeOK, RefreshPlan
    <3> QED
      BY <3>2, <3>3 DEF NothingInFlight
  <2> QED
    BY <2>1, <2>2
<1>8. PlanIsClosed'
  <2>1. CASE tasks = Roles
    BY <1>4, <2>1, AcceptanceBegins DEF PlanIsClosed, NoPlan
  <2>2. CASE tasks # Roles
    <3>1. /\ tasks = {Reobs} /\ state = "REOBSERVING" /\ ClaimOpen /\ ClaimHeld
          /\ plan.head = Prepared /\ plan.decisions = current /\ plan.base < rev
      BY <2>2, AcceptanceBegins
    <3>2. /\ plan'.active /\ plan'.status = "COMPLETED" /\ plan'.base = plan.base
          /\ plan'.head = plan.head /\ plan'.decisions = current /\ plan'.attempt = Reobs
          /\ plan.base \in Nat
      BY <1>0, <1>4, <3>1 DEF TypeOK, RefreshPlan, ClaimHeld
    <3>3. \A r \in Roles \ {Budget} : P[r] = current[r]
      BY <3>1, TaskFacts DEF Replaced
    <3>4. P[Budget] = Reobs
      BY <3>1, TaskFacts DEF Replaced, TaskOf
    <3>5. current[Budget] # Reobs /\ current[Budget] # None /\ current[Budget] \in Task
      BY <1>0, <3>1, NotYetReobserved, TaskFacts
      DEF BackedInv, EvidenceInv, PlanInv, TypeOK, Pointers
    <3>6. decision'[current[Budget]].status = "SUPERSEDED"
      <4>1. decision' = [t \in Task |->
              IF t \in {u \in tasks : output[u] \in Values}
                THEN [status |-> "ACTIVE", verdict |-> output[t]]
              ELSE IF \E u \in {w \in tasks : output[w] \in Values} : current[RoleOf(u)] = t
                THEN [decision[t] EXCEPT !.status = "SUPERSEDED"]
              ELSE decision[t]]
        BY DEF PersistValidation, Consume
      <4>2. Reobs \in {u \in tasks : output[u] \in Values}
        BY <3>1 DEF PersistValidation, Persistable, Wellformed
      <4>3. decision'[current[Budget]] = [decision[current[Budget]] EXCEPT !.status = "SUPERSEDED"]
        BY <3>1, <3>5, <4>1, <4>2, TaskFacts
      <4>4. decision[current[Budget]] \in DecisionRecord
        BY <1>0, <3>5 DEF TypeOK
      <4> QED
        BY <4>3, <4>4 DEF DecisionRecord
    <3>7. plan.base < rev + 1 /\ rev + 1 < rev + 2
      BY <1>0, <3>1, <3>2
    <3> QED
      BY <1>1, <1>4, <1>6, <3>1, <3>2, <3>3, <3>4, <3>5, <3>6, <3>7 DEF PlanIsClosed
  <2> QED
    BY <2>1, <2>2
<1>9. ValidationBinds(permit.head)' /\ AllowedAt(permit.head)' /\ permit'.head <= head'
  BY <1>0, <1>1, <1>4, <1>5 DEF ValidationBinds, AllowedAt, LedgerInv, LedgerTypeOK
<1> QED
  BY <1>1, <1>4, <1>7, <1>8, <1>9 DEF ReadyInv

LEMMA BlockedAfter ==
  ASSUME BackedInv, NEW tasks, NEW output \in [tasks -> Output], Settles(tasks, output),
         PersistValidation(tasks, output)
  PROVE  BlockedInv'
<1> DEFINE P == Replaced(tasks)
           E == EvidenceOf(P)
<1>0. TypeOK /\ rev \in Nat /\ head \in Nat
  BY DEF BackedInv, OwnedInv, TypeOK, LedgerTypeOK
<1>1. /\ state' = StateFor(OutcomeOf(tasks, output))
      /\ UNCHANGED <<head, versions, receipt>>
      /\ current' = P /\ rev' = rev + 2
  BY ConsumeDecides DEF Settles, PersistValidation, Persistable
<1>2. SUFFICES ASSUME OutcomeOf(tasks, output) = "NO_VALID_OBSERVED_WORLD_CUT"
               PROVE  BlockedInv'
  BY <1>1 DEF StateFor, BlockedInv
<1>3. LowerBound(E) >= UpperBound(E, head)
  BY <1>2, OutcomeMeans DEF OutcomeOf
<1>4. ~plan.active /\ BudgetOwns(E, head)
  BY <1>2 DEF PersistValidation, Persistable, PlanBuildable
<1>5. tasks = Roles
  BY <1>4, AcceptanceBegins DEF ClaimHeld
<1>6. /\ validation' = [outcome |-> "NO_VALID_OBSERVED_WORLD_CUT", base |-> rev + 1,
                        head |-> head, decisions |-> P, refreshed |-> TRUE]
      /\ ~permit'.active
      /\ plan' = [status |-> "AVAILABLE", active |-> TRUE, base |-> rev + 2, head |-> head,
                  decisions |-> P, attempt |-> None]
      /\ active' = NoAttempts
      /\ state' = "BLOCKED_NO_CUT"
  BY <1>0, <1>1, <1>2, <1>5, TaskFacts
  DEF PersistValidation, StateFor, ClaimOpen, NoAttempts, TypeOK, EffectPermit
<1>7. EvidenceOf(current)' = E
  BY <1>1 DEF EvidenceOf
<1>8. ASSUME NEW r \in Roles
      PROVE  /\ P[r] # None /\ decision'[P[r]].status = "ACTIVE"
             /\ Resolves(versions, r, receipt[P[r]], head)
  BY ValidatedEvidence DEF Observed
<1> HIDE DEF P, E
<1>9. BuildsFrom(validation, current, head)'
  BY <1>1, <1>3, <1>4, <1>6, <1>7, <1>8 DEF BuildsFrom
<1>10. PlanStillMatches'
  BY <1>0, <1>1, <1>6, <1>9 DEF PlanStillMatches, ActiveValidationBindsPlan, SamePlan
<1> QED
  BY <1>0, <1>1, <1>6, <1>10 DEF BlockedInv

LEMMA AcceptBacked ==
  ASSUME BackedInv, NEW tasks, NEW output \in [tasks -> Output], Settles(tasks, output)
  PROVE  EvidenceInv'
<1>1. WorldInv' /\ HeldInv' /\ PlanInv'
  BY HeldAfterAccept, PlanAfter
<1>2. CASE PersistValidation(tasks, output)
  BY <1>1, <1>2, ValidationAfter, ReadyAfter, BlockedAfter DEF EvidenceInv
<1>3. CASE PersistRejection(tasks, output)
  BY <1>1, <1>3 DEF PersistRejection, EvidenceInv, ValidationInv, ReadyInv, BlockedInv
<1> QED
  BY <1>2, <1>3 DEF Settles

-----------------------------------------------------------------------------
(* What validation persists is what the planner and the gate check later *)

LEMMA InitBacked == Init => BackedInv
<1> SUFFICES ASSUME Init PROVE BackedInv
  OBVIOUS
<1>1. PromiseInv /\ OwnedInv
  BY InitPromiseInv, InitOwned
<1>2. state = "NONE" /\ plan = NoPlan /\ validation = NoValidation /\ reobs = "idle"
  BY DEF Init, NoSession
<1>3. EvidenceInv
  BY <1>2
  DEF EvidenceInv, WorldInv, HeldInv, PlanInv, ValidationInv, ReadyInv, BlockedInv, NoPlan,
      NoValidation
<1> QED
  BY <1>1, <1>3 DEF BackedInv

LEMMA NextBacked == BackedInv /\ [Next]_vars => BackedInv'
<1> SUFFICES ASSUME BackedInv, [Next]_vars PROVE BackedInv'
  OBVIOUS
<1>0. PromiseInv /\ OwnedInv /\ EvidenceInv
  BY DEF BackedInv
<1>1. PromiseInv' /\ OwnedInv'
  BY <1>0, NextPromiseInv, NextOwned
<1>2. EvidenceInv'
  <2>1. CASE Client
    BY <2>1, CreateBacked, PlannerBacked, GateBacked, ResetBacked DEF Client
  <2>2. CASE Background
    BY <1>0, <2>2, BackgroundKinds, StillBacked, CollectsBacked, ClosesBacked, AcceptBacked
  <2>3. CASE Refresh
    BY <1>0, <2>3, RefreshKinds, StillBacked, ClosesBacked, CaptureBacked, AcceptBacked
  <2>4. CASE \/ Restart \/ Environment
             \/ \E t \in Task : DispatchBindPoll(t)
             \/ UNCHANGED vars
    BY <1>0, <2>4, OtherKinds, StillBacked, ClosesBacked, WorldBacked
  <2> QED
    BY <2>1, <2>2, <2>3, <2>4 DEF Next
<1> QED
  BY <1>1, <1>2 DEF BackedInv

(* A Decision counts exactly with a consumed Assignment and an accepted        *)
(* Attempt behind it, and every validated Decision says of its evidence what   *)
(* the authoritative rule says (epochguard-service.ts acceptAndValidate,       *)
(* joint-validity-validator.ts resolveIntervals).                              *)
THEOREM DecisionsRest == Spec => []DecisionsAreBacked
<1>1. BackedInv => DecisionsAreBacked
  <2> SUFFICES ASSUME BackedInv PROVE DecisionsAreBacked
    OBVIOUS
  <2>1. \A t \in Task : RecordsAgree(t)
    BY DEF BackedInv, OwnedInv, RecordInv
  <2>2. ValidationInv
    BY DEF BackedInv, EvidenceInv
  <2> QED
    BY <2>1, <2>2 DEF DecisionsAreBacked, RecordsAgree, ValidationInv, Says
<1> QED
  BY <1>1, InitBacked, NextBacked, PTL DEF Spec

(* The records of a current Decision.                                        *)
LEMMA CurrentRecords ==
  ASSUME BackedInv, NEW r \in Roles, current[r] # None
  PROVE  /\ decision[current[r]].status = "ACTIVE"
         /\ assignment[current[r]] = "CONSUMED" /\ attempt[current[r]] = "ACCEPTED"
<1>1. current[r] \in Task /\ RoleOf(current[r]) = r
  BY DEF BackedInv, OwnedInv, TypeOK, Pointers, RecordInv
<1>2. RecordsAgree(current[r])
  BY <1>1 DEF BackedInv, OwnedInv, RecordInv
<1> QED
  BY <1>1, <1>2 DEF RecordsAgree

LEMMA ReadyEvidence ==
  ASSUME BackedInv, state \in {"READY_AT_CURRENT_HEAD", "COMMITTED"}
  PROVE  EvidenceClosure(permit.head)
<1>1. ValidationBinds(permit.head) /\ AllowedAt(permit.head) /\ PlanIsClosed
  BY DEF BackedInv, EvidenceInv, ReadyInv
<1>2. \A r \in Roles : current[r] # None
  BY <1>1 DEF AllowedAt
<1>3. EvidenceAllowsAt(permit.head)
  BY <1>1, <1>2, CurrentRecords DEF AllowedAt, EvidenceAllowsAt
<1>4. CompletedPlanClosure
  BY <1>1, <1>2, CurrentRecords, TaskFacts DEF PlanIsClosed, CompletedPlanClosure
<1> QED
  BY <1>1, <1>3, <1>4 DEF EvidenceClosure

(* A READY Session at an unmoved head can be committed: no check of the gate   *)
(* is at odds with what validation persists (effect-gate.ts                    *)
(* commitProtectedEffect, epochguard-service.ts persistValidation).            *)
THEOREM ReadyCanCommit == Spec => []ReadyIsCommittable
<1>1. BackedInv => ReadyIsCommittable
  <2> SUFFICES ASSUME BackedInv, state = "READY_AT_CURRENT_HEAD"
               PROVE  PermitHeld /\ (head = permit.head => EvidenceClosure(head))
    BY DEF ReadyIsCommittable
  <2>1. effects = <<>>
    BY DEF BackedInv, PromiseInv, EffectMeansCommitted
  <2>2. PermitHeld
    BY <2>1 DEF BackedInv, EvidenceInv, ReadyInv, PermitHeld
  <2>3. EvidenceClosure(permit.head)
    BY ReadyEvidence
  <2> QED
    BY <2>2, <2>3
<1> QED
  BY <1>1, InitBacked, NextBacked, PTL DEF Spec

(* A repeated commit is answered with the Effect that exists for as long as    *)
(* the Session does, also after the World moved on (effect-gate.ts             *)
(* returnExistingEffect).                                                      *)
THEOREM RetriesConverge == Spec => []CommitRetryConverges
<1>1. BackedInv => CommitRetryConverges
  <2> SUFFICES ASSUME BackedInv, state = "COMMITTED"
               PROVE  ExistingEffectClosure
    BY DEF CommitRetryConverges
  <2>1. /\ NothingInFlight /\ permit.active /\ permit.head <= head
        /\ permit.status = "CONSUMED"
        /\ effects = <<[cut |-> permit.head, evidence |-> CurrentReceipts]>>
    BY DEF BackedInv, EvidenceInv, ReadyInv
  <2>2. Len(effects) = 1 /\ effects[1] = [cut |-> permit.head, evidence |-> CurrentReceipts]
    BY <2>1
  <2>3. EvidenceClosure(permit.head)
    BY ReadyEvidence
  <2> QED
    BY <2>1, <2>2, <2>3 DEF ExistingEffectClosure
<1> QED
  BY <1>1, InitBacked, NextBacked, PTL DEF Spec

(* A blocked Session can be refreshed while the World stands still: rebuilding *)
(* its plan from the evidence yields the plan that was persisted               *)
(* (refresh-planner.ts planStillMatches, buildRefreshPlan).                    *)
THEOREM BlockedCanRefresh == Spec => []BlockedIsRefreshable
<1>1. BackedInv => BlockedIsRefreshable
  BY DEF BackedInv, EvidenceInv, BlockedInv, BlockedIsRefreshable
<1> QED
  BY <1>1, InitBacked, NextBacked, PTL DEF Spec

=============================================================================
