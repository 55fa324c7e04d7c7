----------------------------- MODULE SessionState -----------------------------
(***************************************************************************)
(* The state of the EpochGuard service: the EpochStore's database, as far  *)
(* as one Session uses it, and the volatile state of the server's process. *)
(*                                                                         *)
(* The database holds at most one Session: createSession demands an empty  *)
(* ledger, and only resetDemo, which deletes every Session, empties it.    *)
(* Every action is one EpochStore.mutate: it publishes all of its changes  *)
(* or, when a check throws or the file cannot be written, none of them.    *)
(*                                                                         *)
(* Records are named by what they are for.  A task is one Assignment with  *)
(* its Attempt, Receipt and Decision: the initial one of a Role, named by  *)
(* the Role, or the re-observation, named Reobs.                           *)
(***************************************************************************)
EXTENDS JointValidity, Sequences

CONSTANTS Reobs,            \* the task of the re-observation
          None,             \* the null pointer
          Scenarios,        \* the registered scenarios
          Fixture,          \* the World and the receipts createSession makes of each
          RefreshHead,      \* the head of the refresh capture of each, or 0
          Revisions,        \* the revisions a client may send
          MaxStoreFaults    \* bound: writes of the store that fail

Task == Roles \cup {Reobs}

RoleOf(t) == IF t = Reobs THEN Budget ELSE t

ASSUME NamesDistinct == Reobs \notin Roles /\ None \notin Task

(* The World a scenario prepares is a ledger, and its receipts resolve in it. *)
FixtureIsPrepared(f) ==
  /\ f.head \in Nat \ {0}
  /\ f.versions \in [Roles -> SUBSET Version]
  /\ f.seen \in [Roles -> Receipt]
  /\ Tiles(f.versions, f.head)
  /\ \A r \in Roles : Resolves(f.versions, r, f.seen[r], f.head)

ASSUME FixturesPrepared ==
  /\ \A s \in Scenarios : FixtureIsPrepared(Fixture[s])
  /\ RefreshHead \in [Scenarios -> Nat]

(* A scenario's refresh capture, if it has one, is at the head its initial      *)
(* steps end at.                                                               *)
ASSUME RefreshAtPreparedHead ==
  \A s \in Scenarios : RefreshHead[s] \in {0, Fixture[s].head}

ASSUME BoundsAreNaturals == Revisions \subseteq Nat /\ MaxStoreFaults \in Nat

VARIABLES
  scenario,     \* session.scenarioId
  state,        \* session.state
  rev,          \* session.sessionRevision
  active,       \* session.activeAttemptIds
  current,      \* session.activeDecisionCertificateIds
  validation,   \* the ValidationRecord session.activeValidationId points to
  plan,         \* the Session's RefreshPlan, active when the Session points to it
  permit,       \* the Session's EffectPermit, active when the Session points to it
  assignment,   \* runAssignments: the status of each task's Assignment
  attempt,      \* attempts: the status of each task's Attempt
  receipt,      \* receipts
  decision,     \* decisions: status and verdict of each task's certificate
  effects,      \* effects
  up,           \* the server runs and has initialized
  task,         \* the Session's entry in backgroundTasks, and where it is
  reobs,        \* the handler of the refresh request, and where it is
  pc,           \* dispatchBindPoll of each task, and where it is
  faults        \* writes of the store that have failed

pointerVars == <<scenario, state, rev, active, current, validation, plan, permit>>
recordVars == <<assignment, attempt, receipt, decision>>
processVars == <<up, task, reobs, pc>>
vars == <<head, versions, scenario, state, rev, active, current, validation, plan,
          permit, assignment, attempt, receipt, decision, effects, up, task, reobs,
          pc, faults>>

-----------------------------------------------------------------------------
(* Types *)

Terminal == {"UNSTABLE_WORLD", "CONSISTENT_DENY", "COMMIT_RACE", "COMMITTED",
             "FAILED", "INTERRUPTED"}

InFlight == {"DISPATCHING", "COLLECTING", "REOBSERVING"}

(* Of the declared states, CREATED and COMMITTING are assigned nowhere, and    *)
(* VALIDATING is overwritten in the mutation that assigns it.                  *)
SessionState == InFlight \cup Terminal
                  \cup {"NONE", "READY_AT_CURRENT_HEAD", "BLOCKED_NO_CUT", "HISTORICAL_STALE"}

AssignmentStatus == {"NONE", "CREATED", "BOUND", "CONSUMED", "REJECTED"}

AttemptStatus == {"NONE", "ASSIGNMENT_CREATED", "DISPATCHING", "QUEUED", "RUNNING",
                  "COMPLETED", "FAILED", "INTERRUPTED", "OUTPUT_REJECTED", "ACCEPTED"}

NoAttempts == [r \in Roles |-> None]
NoDecisions == [r \in Roles |-> None]
NoReceipt == [rev |-> 0, at |-> 0]
NoDecision == [status |-> "NONE", verdict |-> "NONE"]
NoValidation == [outcome |-> "NONE", base |-> 0, head |-> 0,
                 decisions |-> NoDecisions, refreshed |-> FALSE]
NoPlan == [status |-> "NONE", active |-> FALSE, base |-> 0, head |-> 0,
           decisions |-> NoDecisions, attempt |-> None]
NoPermit == [status |-> "NONE", active |-> FALSE, head |-> 0]

Pointers == [Roles -> Task \cup {None}]

DecisionRecord == [status : {"NONE", "ACTIVE", "SUPERSEDED"},
                   verdict : Values \cup {"NONE"}]

ValidationRecord == [outcome : Outcomes \cup {"NONE"}, base : Nat, head : Nat,
                     decisions : Pointers, refreshed : BOOLEAN]

RefreshPlan == [status : {"NONE", "AVAILABLE", "CLAIMED", "COMPLETED", "INVALIDATED"},
                active : BOOLEAN, base : Nat, head : Nat, decisions : Pointers,
                attempt : Task \cup {None}]

EffectPermit == [status : {"NONE", "ISSUED", "CONSUMED", "REVOKED"},
                 active : BOOLEAN, head : Nat]

EffectRecord == [cut : Nat, evidence : [Roles -> Receipt]]

BackgroundStep == {"none", "packs", "fanout", "join", "accept", "settled", "closing",
                   "closing2", "stuck"}

RefreshStep == {"idle", "capture", "pack", "run", "failing", "failingMismatch"}

DispatchStep == {"idle", "start", "send", "poll", "recheck", "ok", "failed", "error"}

-----------------------------------------------------------------------------
(* An empty store, and a process that serves no Session *)

NoSession ==
  /\ head = 0
  /\ versions = NoHistory
  /\ scenario = None
  /\ state = "NONE"
  /\ rev = 0
  /\ active = NoAttempts
  /\ current = NoDecisions
  /\ validation = NoValidation
  /\ plan = NoPlan
  /\ permit = NoPermit
  /\ assignment = [t \in Task |-> "NONE"]
  /\ attempt = [t \in Task |-> "NONE"]
  /\ receipt = [t \in Task |-> NoReceipt]
  /\ decision = [t \in Task |-> NoDecision]
  /\ effects = <<>>

Idle == [t \in Task |-> "idle"]

Init ==
  /\ NoSession
  /\ up = TRUE
  /\ task = "none"
  /\ reobs = "idle"
  /\ pc = Idle
  /\ faults = 0

(* Types of the whole state; the revisions, heads and bases are sequence numbers. *)
TypeOK ==
  /\ LedgerTypeOK
  /\ scenario \in Scenarios \cup {None}
  /\ state \in SessionState
  /\ rev \in Nat
  /\ active \in Pointers
  /\ current \in Pointers
  /\ validation \in ValidationRecord
  /\ plan \in RefreshPlan
  /\ permit \in EffectPermit
  /\ assignment \in [Task -> AssignmentStatus]
  /\ attempt \in [Task -> AttemptStatus]
  /\ receipt \in [Task -> Receipt]
  /\ decision \in [Task -> DecisionRecord]
  /\ effects \in Seq(EffectRecord)
  /\ up \in BOOLEAN
  /\ task \in BackgroundStep
  /\ reobs \in RefreshStep
  /\ pc \in [Task -> DispatchStep]
  /\ faults \in 0..MaxStoreFaults

-----------------------------------------------------------------------------
(* Evidence of the current Decisions *)

(* The version that the receipt of each Role's current Decision names. *)
EvidenceOf(pointers) ==
  [r \in Roles |-> VersionOf(versions, r, receipt[pointers[r]].rev)]

(* A transaction that may fail to be written, once more. *)
StoreFault == faults < MaxStoreFaults /\ faults' = faults + 1

=============================================================================
