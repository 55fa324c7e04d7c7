------------------------------ MODULE EpochGuard ------------------------------
(***************************************************************************)
(* The correctness properties of the EpochGuard service.                   *)
(***************************************************************************)
EXTENDS EpochGuardService

-----------------------------------------------------------------------------
(* Effects *)

(* The safety statement of the design: whoever looks at an Effect, at any later *)
(* time and after any later commit to the World, finds one sequence number at   *)
(* which the evidence of all three Roles was valid together and allowed it.     *)
EffectAtCommonCut ==
  \A i \in DOMAIN effects :
    /\ effects[i].cut <= head
    /\ \A r \in Roles : \E v \in versions[r] :
         /\ v.from = effects[i].evidence[r].rev
         /\ Contains(v, effects[i].evidence[r].at)
         /\ Contains(v, effects[i].cut)
         /\ v.value = "ALLOW"

(* A Session has an Effect exactly when it is COMMITTED, and then only one: no  *)
(* crash, late continuation or second request leaves one without the other.     *)
EffectMeansCommitted ==
  /\ (state = "COMMITTED") <=> effects # <<>>
  /\ Len(effects) <= 1

(* The answer to a repeated commit converges: as long as the Session exists the *)
(* gate finds everything it checks before it returns the existing Effect, also  *)
(* after the World moved on and closed the versions the Effect was decided on.  *)
CommitRetryConverges == state = "COMMITTED" => ExistingEffectClosure

(* A READY Session at an unmoved head can be committed.  Were one check of the  *)
(* gate at odds with what validation persists, the Session would be stuck: it   *)
(* is not terminal, so no reset is allowed, and a restart leaves it as it is.   *)
ReadyIsCommittable ==
  state = "READY_AT_CURRENT_HEAD" =>
    PermitHeld /\ (head = permit.head => EvidenceClosure(head))

-----------------------------------------------------------------------------
(* Refresh *)

(* A blocked Session can be refreshed while the World stands still: its plan is *)
(* AVAILABLE, and rebuilding it from the evidence yields the plan that was      *)
(* persisted with the validation.                                               *)
BlockedIsRefreshable ==
  state = "BLOCKED_NO_CUT" => plan.active /\ (head = plan.head => PlanStillMatches)

(* A claimed plan, its Attempt and the Session's pointer belong together as     *)
(* long as the re-observation runs, so that exactly one request owns it.        *)
ClaimHasOneOwner ==
  (state = "REOBSERVING" \/ reobs # "idle") =>
    /\ state = "REOBSERVING"
    /\ plan.active /\ plan.status = "CLAIMED"
    /\ active = [NoAttempts EXCEPT ![Budget] = Reobs] /\ plan.attempt = Reobs

-----------------------------------------------------------------------------
(* Runs and evidence *)

(* A Decision counts only with a consumed Assignment and an accepted Attempt    *)
(* behind it, and the other way round: whatever was rejected, interrupted or    *)
(* lost never decides anything.  And once a validation was persisted, every     *)
(* current Decision says of its evidence what the authoritative rule says,      *)
(* whatever the Agents answered.                                                *)
DecisionsAreBacked ==
  /\ \A t \in Task :
       /\ decision[t].status # "NONE" <=> assignment[t] = "CONSUMED"
       /\ assignment[t] = "CONSUMED" <=> attempt[t] = "ACCEPTED"
       /\ decision[t].status = "ACTIVE" <=> current[RoleOf(t)] = t
  /\ validation.outcome # "NONE" /\ state \notin {"FAILED", "INTERRUPTED"} =>
       \A r \in Roles :
         LET t == validation.decisions[r] IN
         \E v \in versions[r] : v.from = receipt[t].rev /\ v.value = decision[t].verdict

-----------------------------------------------------------------------------
(* Owners, crashes and recovery *)

(* A Session in flight has a live owner in the process that serves it, and a    *)
(* live owner has a Session it may still act on.  Each observer finds the       *)
(* Assignment and the Attempt as its own last mutation left them: none of the   *)
(* "already entered dispatch", "exactly one queued Run" and "only a completed   *)
(* bound Run" refusals ever meets a live observer.  The siblings of a Run that  *)
(* failed are rejected only once the Session was closed: while it collects, the *)
(* Assignments that are rejected are those their own observers rejected.        *)
InFlightIsOwned ==
  /\ up =>
       /\ state \in {"DISPATCHING", "COLLECTING"} => task \notin {"none", "settled"}
       /\ task = "packs" => state = "DISPATCHING"
       /\ task \in {"fanout", "accept"} => state = "COLLECTING"
       /\ task # "none" => state # "NONE"
       /\ task \in {"join", "closing", "closing2", "stuck"} =>
            state \in {"DISPATCHING", "COLLECTING", "FAILED"}
       /\ state = "COLLECTING" /\ AdapterFailed =>
            \A r \in Roles : assignment[r] = "REJECTED" => pc[r] = "failed"
  /\ \A t \in Task :
       /\ pc[t] = "start" => assignment[t] = "CREATED" /\ attempt[t] = "ASSIGNMENT_CREATED"
       /\ pc[t] = "send" => assignment[t] = "CREATED" /\ attempt[t] = "DISPATCHING"
       /\ pc[t] = "poll" => assignment[t] = "BOUND" /\ attempt[t] \in {"QUEUED", "RUNNING"}
       /\ pc[t] = "recheck" => assignment[t] = "BOUND" /\ attempt[t] = "COMPLETED"

(* Whenever the server stops, the store it leaves is one that the recovery of   *)
(* the next start accepts.                                                      *)
RecoveryNeverRefuses == state \in InFlight => RecoveryAccepts

-----------------------------------------------------------------------------
(* Steps *)

(* A terminal Session stays as it ended until resetDemo deletes it.  The        *)
(* acceptance of Decisions and the join do not look at the Session's state, so  *)
(* only the order in which the owners finish keeps them from reviving it.       *)
TerminalIsFinal ==
  [][(state \in Terminal) => state' \in {state, "NONE"}]_vars

SessionView == <<state, current, validation, plan, permit, effects>>

(* The revision fences clients: everything that a request is checked against    *)
(* changes together with the revision, so that a client that acted on an older  *)
(* view is told so.                                                             *)
RevisionFences ==
  [][SessionView' # SessionView => rev' > rev \/ state' = "NONE"]_vars

(* Evidence is used once: an Assignment that was consumed or rejected is never  *)
(* bound, consumed or rejected again, a superseded Decision never returns.      *)
EvidenceIsSpentOnce ==
  [][state' # "NONE" =>
       \A t \in Task :
         /\ assignment[t] = "CONSUMED" => assignment'[t] = "CONSUMED"
         /\ assignment[t] = "REJECTED" => assignment'[t] = "REJECTED"
         /\ decision[t].status = "SUPERSEDED" => decision'[t] = decision[t]]_vars

-----------------------------------------------------------------------------
(* The promise *)

Truth(vs, h) == [r \in Roles |-> ValuesAt(vs, r, h)]

CaseStatus ==
  CASE state = "NONE" -> "closed"
    [] state = "COMMITTED" -> "published"
    [] state \in Terminal \ {"COMMITTED"} -> "refused"
    [] OTHER -> "undecided"

(* The facts an Effect rests on, as its evidence names them. *)
Basis(effect) == [r \in Roles |-> [from |-> effect.evidence[r].rev, value |-> "ALLOW"]]

PublishedEffects == {[cut |-> effects[i].cut, basis |-> Basis(effects[i])] : i \in DOMAIN effects}

Promise == INSTANCE ProtectedEffect
  WITH Role <- Roles,
       truth <- Truth(versions, head),
       status <- CaseStatus,
       published <- PublishedEffects

(* The service keeps its promise: in the one step that publishes an Effect the  *)
(* World as it is then allows it for all three Roles, although the Receipts and *)
(* Decisions are older; nothing is published twice, and no owner that finishes  *)
(* late reopens a Session that ended.                                           *)
KeepsPromise == Promise!Spec

-----------------------------------------------------------------------------
(* Progress *)

(* The event loop runs what is ready and the Agents' Runs end: each observer    *)
(* has a timeout, so polling ends even if the Run does not.  Nothing is assumed *)
(* of clients, crashes or the World.                                            *)
Advance(t) ==
  \/ TransitionToDispatching(t)
  \/ FailUnbound(t)
  \/ BindRunOnce(t)
  \/ MirrorCompleted(t)
  \/ \E status \in {"FAILED", "INTERRUPTED"} : MirrorStopped(t, status)
  \/ \E status \in {attempt[t], "RUNNING", "FAILED"} : FailBound(t, status)
  \/ ReturnOutput(t)
  \/ RejectCompletedOutput(t)

Fairness ==
  /\ WF_vars(Background)
  /\ WF_vars(Refresh)
  /\ WF_vars(Restart)
  /\ \A t \in Task : WF_vars(Advance(t))

FairSpec == Spec /\ Fairness

(* A Session whose Runs were dispatched does not stay in flight, also when one  *)
(* write of the store fails on the way: the continuation closes a failure twice.*)
BackgroundSettles ==
  state \in {"DISPATCHING", "COLLECTING"} ~> state \notin {"DISPATCHING", "COLLECTING"}

(* A re-observation ends.  The request closes its failure only once, so that a  *)
(* failing write may leave the Session REOBSERVING until the next start.        *)
RefreshSettles == state = "REOBSERVING" ~> (state # "REOBSERVING" \/ faults > 0)

(* The background continuation always gives up its ownership, so that a Session *)
(* that ended does not keep resetDemo refused for ever.                         *)
OwnershipIsReleased == task # "none" ~> task = "none"

-----------------------------------------------------------------------------
(* What the repository's documents say of the service *)

(* The design: the plan can be claimed only once, and a repeated request is     *)
(* answered ALREADY_REOBSERVING with the Attempt, until its Session ended and   *)
(* after it.  But the end of the Attempt is a mutation of its own, before the   *)
(* one that ends the Session: a request between the two is an invariant error.  *)
DuplicateRefreshIsRecognised == plan.status = "CLAIMED" /\ plan.active => ClaimedPlanClosure

=============================================================================
