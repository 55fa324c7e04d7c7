----------------------------- MODULE RunObserver -----------------------------
(***************************************************************************)
(* dispatchBindPoll: sends the prompt of one Assignment to its Agent, binds *)
(* the Run that AgentService returns, mirrors the Run's progress into the  *)
(* Attempt and hands the output over once the Agent's profile was verified *)
(* a second time.  Each step is one mutation of the store; the three       *)
(* initial tasks run concurrently, the re-observation alone.               *)
(*                                                                         *)
(* The Run is external: polling may find it in any status that does not    *)
(* regress, and sending, observing and verifying may each fail.            *)
(***************************************************************************)
EXTENDS SessionState

observerUnchanged ==
  UNCHANGED <<head, versions, pointerVars, receipt, decision, effects, up, task, reobs>>

Step(t, from, to) == up /\ pc[t] = from /\ pc' = [pc EXCEPT ![t] = to]

SetAttempt(t, status) == attempt' = [attempt EXCEPT ![t] = status]

SetAssignment(t, status) == assignment' = [assignment EXCEPT ![t] = status]

Rank(status) ==
  CASE status = "ASSIGNMENT_CREATED" -> 0
    [] status = "DISPATCHING" -> 1
    [] status = "QUEUED" -> 2
    [] status = "RUNNING" -> 3
    [] OTHER -> 4

TransitionToDispatching(t) ==
  /\ Step(t, "start", "send")
  /\ assignment[t] = "CREATED"
  /\ attempt[t] = "ASSIGNMENT_CREATED"
  /\ SetAttempt(t, "DISPATCHING")
  /\ UNCHANGED <<assignment, faults>>
  /\ observerUnchanged

(* The profile check, sendMessage or the binding failed: nothing is bound. *)
FailUnbound(t) ==
  /\ Step(t, "send", "failed")
  /\ SetAttempt(t, "FAILED")
  /\ SetAssignment(t, "REJECTED")
  /\ UNCHANGED faults
  /\ observerUnchanged

(* Mutation of BindRunOnce: the Attempt is written, the Assignment later. *)
BindRunHalf(t) ==
  /\ Step(t, "send", "poll")
  /\ assignment[t] = "CREATED"
  /\ attempt[t] = "DISPATCHING"
  /\ SetAttempt(t, "QUEUED")
  /\ UNCHANGED <<assignment, faults>>
  /\ observerUnchanged

BindRunOnce(t) ==
  /\ Step(t, "send", "poll")
  /\ assignment[t] = "CREATED"
  /\ attempt[t] = "DISPATCHING"
  /\ SetAssignment(t, "BOUND")
  /\ SetAttempt(t, "QUEUED")
  /\ UNCHANGED faults
  /\ observerUnchanged

MirrorRunning(t) ==
  /\ Step(t, "poll", "poll")
  /\ Rank(attempt[t]) <= Rank("RUNNING")
  /\ SetAttempt(t, "RUNNING")
  /\ UNCHANGED <<assignment, faults>>
  /\ observerUnchanged

MirrorCompleted(t) ==
  /\ Step(t, "poll", "recheck")
  /\ Rank(attempt[t]) <= Rank("COMPLETED")
  /\ SetAttempt(t, "COMPLETED")
  /\ UNCHANGED <<assignment, faults>>
  /\ observerUnchanged

(* A failed or a cancelled Run. *)
MirrorStopped(t, status) ==
  /\ Step(t, "poll", "failed")
  /\ Rank(attempt[t]) <= Rank(status)
  /\ SetAttempt(t, status)
  /\ SetAssignment(t, "REJECTED")
  /\ UNCHANGED faults
  /\ observerUnchanged

(* A timeout, a Run that cannot be observed or whose evidence cannot be        *)
(* mirrored.  A bound Attempt becomes FAILED only when the Run carries a       *)
(* completion time; otherwise it keeps the last status it was seen in.         *)
FailBound(t, status) ==
  /\ Step(t, "poll", "failed")
  /\ SetAttempt(t, status)
  /\ SetAssignment(t, "REJECTED")
  /\ UNCHANGED faults
  /\ observerUnchanged

ReturnOutput(t) ==
  /\ Step(t, "recheck", "ok")
  /\ UNCHANGED <<assignment, attempt, faults>>
  /\ observerUnchanged

RejectCompletedOutput(t) ==
  /\ Step(t, "recheck", "failed")
  /\ assignment[t] = "BOUND"
  /\ attempt[t] = "COMPLETED"
  /\ SetAssignment(t, "REJECTED")
  /\ SetAttempt(t, "OUTPUT_REJECTED")
  /\ UNCHANGED faults
  /\ observerUnchanged

(* The store cannot be written, so that the promise rejects with the error of  *)
(* the store, which is not a RunAdapterError.                                  *)
ObserverWriteFails(t) ==
  /\ \E from \in {"start", "send", "poll", "recheck"} : Step(t, from, "error")
  /\ StoreFault
  /\ UNCHANGED <<assignment, attempt>>
  /\ observerUnchanged

DispatchBindPoll(t) ==
  \/ TransitionToDispatching(t)
  \/ FailUnbound(t)
  \/ BindRunOnce(t)
  \/ MirrorRunning(t)
  \/ MirrorCompleted(t)
  \/ \E status \in {"FAILED", "INTERRUPTED"} : MirrorStopped(t, status)
  \/ \E status \in {attempt[t], "RUNNING", "FAILED"} : FailBound(t, status)
  \/ ReturnOutput(t)
  \/ RejectCompletedOutput(t)

Settled(t) == pc[t] \in {"ok", "failed", "error"}

=============================================================================
