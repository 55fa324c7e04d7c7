# EpochGuard: a TLA+ verification project

EpochGuard lets three Role Agents (Inventory, Budget, Policy) decide together on one
protected action. Each Agent answers from a receipt: an observation of the World at a
sequence number of its own. An Effect may be published only when there is one sequence
number, the head of the World in the very transaction that publishes, at which the
evidence of all three was valid together and allowed the action. This directory models
that core, the store it is kept in, the diagnostics and the view that clients are shown,
the dashboard that polls them, the service that runs the Agents and the start of the server
around it; it model-checks them with TLC and proves their safety with TLAPS.

Paths below are relative to `src/apps/server/src/epochguard/` unless they say otherwise.

## The system

| Component | State it keeps | Operations | Talks to |
|---|---|---|---|
| World ledger (`world-ledger.ts`) | `headSeq`, `worldCommits`, `resourceVersions` | bootstrap, commit, resolve at a sequence or by revision | called in mutations of the store |
| Receipt issuer (`receipt-issuer.ts`) | `receipts` | issue, resolve | ledger |
| Joint validity validator (`joint-validity-validator.ts`) | none | intersect intervals, classify | ledger, receipts, decisions |
| EpochStore (`epoch-store.ts`, `types.ts`) | one JSON database, a queue of mutations | `mutate` (clone, run, validate, rename file, publish), `snapshot` | everything |
| Run observer (`run-observer.ts`) | `attempts`, `runAssignments` | dispatch, bind, poll and mirror, verify again, join three | AgentService, store |
| Decision parser (`decision-parser.ts`) | `decisions`, rejected outputs | normalise and consume, reject | store |
| Refresh planner (`refresh-planner.ts`) | `refreshPlans` | build, rebuild and compare, claim, invalidate | validator |
| Effect gate (`effect-gate.ts`) | `permits`, `effects` | commit, commit race, return the existing Effect | ledger, all records |
| EpochGuard service (`epochguard-service.ts`) | `sessions`, `validations`; in memory `backgroundTasks` | create, refresh, commit, reset, recover; background continuation | all of the above |
| Safety diagnostics (`safety-diagnostics.ts`) | `diagnostics` | build on the way out of a mutation; re-derive the causal chain on each read | store |
| View builder (`session-view-builder.ts`) | none | project the database for clients | store, diagnostics |
| Fixtures (`fixtures.ts`) | none | scripts of commits and captures | service |
| Dual-scenario service (`dual-scenario-service.ts`) | two partitions, a lock | routes, resets both, copies registrations | two services |
| Role profiles (`role-profiles.ts`) | `roleAgentRegistrations` | register three Agents, verify a profile | AgentService |
| AgentService (`../agent-service.ts`, `../store.ts`) | agents, runs, messages; `activeExecutions`, `cancellationRequests` | send, run, stop, start, delete | runners |
| Runners, workspaces | files, child processes, containers | run, cancel, write, archive | the operating system |
| Routes (`routes.ts`) | none | answer a snapshot, 404, a conflict, an error | service |
| Polling hook (`src/apps/web/src/epochguard/useEpochGuardSession.ts`) | the newest snapshot, its revision, failures, staleness, a pending command | poll, reload, refresh, commit | routes, by HTTP |
| Dashboard, contracts (`src/apps/web/`) | none | render, decode | hook |

What is hard here: three Runs, the background continuation, a refresh request and clients
act on one Session concurrently, and most steps do not look at the state of the Session
before they write; the server may stop between any two mutations and refuses to start on a
store it finds inconsistent; the file may fail to be written in the middle of closing a
failure; and the World may move between an observation, its validation and the commit. A
read of a Session is checked against dozens of rules that relate records which different
mutations wrote, and re-derives from today's store the reason of every earlier end. Below
the core, a stop, a message and the end of a Run of one Agent overlap in one event loop;
above it, a start registers Agents in two stores step by step and may be cut off after any
of them, and a dashboard shows what answers that may be late, lost or out of order told it.

The properties each component must have: the ledger's history is a tiling and its past is
never rewritten; a receipt resolves for ever; the validator's arithmetic on bounds decides
the existence of a common cut; a mutation is published wholly and durably or not at all; an
observer finds its records as it left them; evidence is used once; a plan has one owner; a
repeated commit converges; a terminal Session stays so; nothing in flight is left without
an owner; recovery accepts whatever a crash leaves; an end is explained once and the
explanation stays good; what a mutation leaves can be shown, and an action that is shown is
carried out; a view does not go back, and notices a server that is gone; a busy Agent has a
Run, the outcome of a Run is final, a stop is answered after the Run it stops has ended; at
most one of the two scenarios has an active Session, and a start accepts what earlier
starts and resets left.

## Modules

| Module | Models |
|---|---|
| `WorldLedger` | the ledger: `head`, `versions` of each resource, `Commit`, `InitializeFixtureWorld` |
| `JointValidity` | receipts, their resolution, bounds, invalid owners, outcomes; the reference definition `IsCut` |
| `ReceiptIssuer` | ledger and receipts together, every order of commits and observations |
| `SessionState` | the variables of the database and of the process, their types, the empty store |
| `RunObserver` | `dispatchBindPoll` of one task, one action for each mutation |
| `RefreshPlanner` | building, matching, claiming and invalidating a plan; the closure of a claimed plan |
| `EffectGate` | commit, commit race, the closure for a repeated commit |
| `EpochGuardService` | composes the three above: create, continuation, acceptance, refresh, failure paths, reset, crash, restart, commits from outside |
| `ProtectedEffect` | what the service promises, without evidence, Runs or plans |
| `EpochGuard` | the properties, the refinement mapping to `ProtectedEffect`, fairness |
| `SafetyDiagnostics` | superposed on the service: the diagnostic each mutation appends, `recordCommitRace`, the causal chain a read demands |
| `SessionViewBuilder` | what the view builder resolves and what the snapshot schema demands, as operators over the state; what a client may read and is offered |
| `Fixtures` | the scripts of the scenarios and their replay on the ledger |
| `AtomicStore` | what EpochStore promises its callers |
| `EpochStore` | the queue of mutations, each with its callback, temporary file, rename and publication; failing writes, crashes, starts |
| `SessionDashboard` | the polling hook, the routes and the network, over `EpochStore` with one Session in it |
| `AgentService` | one Agent of `../agent-service.ts` with its Runs, the queue of `../store.ts`, the workspace and the child process of the runner |
| `DualScenarioService` | the start of the server, registration of the Role Agents, the two partitions, the lock and the reset |
| `MCReceiptIssuer`, `MCEpochGuard`, `MCDiagnostics` | instances for TLC; the others need no definitions of their own |
| `WorldLedgerProofs`, `ReceiptProofs` | theorems of the ledger, of receipts and of the validator |
| `EpochGuardProofs`, `EvidenceProofs` | theorems of the service: types, the Effect and the promise; the records behind them |
| `DiagnosisProofs` | theorems of the diagnostics and the view |
| `StoreProofs` | theorems of the store, and of the dashboard over it |
| `AgentProofs`, `DualProofs` | theorems of AgentService, of the start |

### How the model corresponds to the code

* **One action is one `EpochStore.mutate`.** `mutate` clones the database, runs its
  callback, writes a temporary file, renames it and only then publishes the clone. A
  callback that throws or a file that cannot be written publishes nothing. That this makes a
  mutation atomic is what `EpochStore` refining `AtomicStore` shows. The actions
  `ObserverWriteFails`, `BackgroundWriteFails`, `RefreshWriteFails`, `RaceWriteFails` are
  mutations that could not be written; what the caller does next is the caller's error
  path. Between two mutations any other actor may act.
* **One Session.** `createSession` requires an empty ledger and only `resetDemo`, which
  deletes everything, empties it. So a store holds one Session at a time, and the records
  are named by the task they belong to: the initial task of each Role, or `Reobs`.
* **A value** is the verdict that `evaluateAuthoritativeVerdict` computes from it. **A
  source revision** is the sequence number of the commit, which is its default.
* **Volatile state** is `task` (the Session's entry in `backgroundTasks` and where its
  continuation is), `reobs` (the refresh handler), `pc` (each observer), `up`, and `racing`
  (a commit request between its two mutations).
* **Outputs of the Agents** are chosen when they are accepted: a verdict, a malformed
  output (rejected, the Session fails) or a misbound envelope (throws, nothing published).
* **Requests that are refused** change nothing and are not actions. A client may send any
  revision of `MCRevisions`; only the current one passes the fence.
* **Which declared states occur.** `CREATED` and `COMMITTING` are assigned nowhere;
  `VALIDATING` is overwritten in the mutation that assigns it, which is why a validation
  advances the revision by two.
* **Left out on purpose:** digests, nonces, identifiers and timestamps; the audit events;
  the recorded bounds of a certificate, which are recomputed; the branch of
  `closeClaimedRefreshFailure` for an invalid binding, because the claim binds plan, Attempt
  and Assignment in one mutation and nothing unbinds them. `createSession` builds a snapshot
  between persisting the Session and scheduling its continuation; the model has no step in
  which that throws, and `SteadyWorldIsReadable` shows that the Session can be read there.
* **The view has no state.** A read takes one snapshot of the store, so it is an operator over
  the state: `Readable` says that the builder (`BuilderAccepts`), the schema (`SchemaAccepts`)
  and the diagnostics (`CausalChainsClose`) accept, `AvailableActions` what the snapshot
  offers. Conditions on identifiers, digests, times and texts are left out, as is the rule for
  VALIDATING, because that state is never stored.

`SafetyDiagnostics` is a superposition: each of its actions is one action of the service
with what it appends to `diagnostics` and `validations`. It keeps every validation of the
Session, where `SessionState` keeps the one the Session points to, since a diagnostic names
the one it was about. Most steps append nothing (`Quiet`).

`EpochStore` is generic in the callbacks: `Apply` is what a callback makes of the database,
or `Refused`. The model, and the proof that it implements `AtomicStore`, hold for every set of
callbacks; `SessionDashboard` demands those of one Session (`StoreOfOneSession`), which it keeps
as its revision and how far it is.

* What the process holds (`data`, `queue`, `next`) dies with it, the file stays. A rename is
  atomic and durable: the process may die between any two steps, the machine's power may not.
* A read, of the poll, of a reload or after a command, is in flight, answered, or on its
  way back; an answer is what the store had published when the server took the request.
  Answers of different reads arrive in any order. `ReadFails` and `CommandFails` lose a request
  or an answer, `LinkDies` is a network on which nothing arrives and nothing fails.
* The hook's references and state are variables of the same names; `StaleTimer` may ring
  whenever it is set. Leaving the page aborts its requests, but not their mutations.

`AgentService` models one Agent, since Agents share only the queue of the store.

* **One action is what runs from one event to the next.** A handler is an HTTP request in
  progress and `pc` says what it awaits. A mutation is called at one point and takes effect at
  another: it is appended to `queue` and publishes when its turn comes (`Apply...`), or cannot
  be written (`MutationFails`), and only then its caller goes on.
* `execution` is the entry of `activeExecutions`, `cancelling` that of `cancellationRequests`,
  `child` that of the runner: a process, and whether it was cancelled. `cancelExecution` is
  split where it awaits, into `Cancel` and `LeaveCancel`.
* A configuration is the number of the update it came from; `agentsMd` is the one that
  AGENTS.md was written from. A message is its Run.

`DualScenarioService` keeps of the Session of each partition only whether it is in flight,
open to a command or terminal; `EpochGuardService` has the rest.

* `boot` is where the start is; each registration, each created Agent and each copy is a step,
  and `ServerStops` may come between any two. `command` holds the lock: creation, refresh,
  commit and the two halves of the reset; continuations of both partitions run beside it.
* Of an Agent there is the status, which a Run may leave in error, and AGENTS.md in its
  workspace (`agentsMd`). A Run works in that workspace and may write the file, and so may a
  process it left behind, with the server down too (`RunWrites`; the sandbox is that of the
  default `CODEX_SANDBOX_MODE`, which keeps a Run to its own workspace); an Agent is verified
  (`RoleVerified`) when it is ready and the file is of the digest that was registered. Nobody
  edits or deletes a protected Agent, so name, description and instructions cannot differ.
* A partition verifies its registered Roles twice: those it finds (`InitializePartition`), and
  all of them once they are complete (`ReverifyRoles`). In between a Run of an earlier server
  may still write.

## Runs

| Run | Instance | Distinct states | What it shows |
|---|---|---|---|
| `receipts` | heads 0 to the bound of `MCReceiptIssuer`, any start, any commits and observations | 816 thousand | ledger and validator: tilings, an unchanging past, resolvable receipts, bounds decide the common cut |
| `session` | three scenarios, two failing writes, one commit from outside in each, crashes without bound, `DiagnosedSpec` | 855 thousand | all safety properties of the service, its diagnostics, what its view shows and offers, and the refinement of `ProtectedEffect` |
| `progress` | the `revised` scenario, one failing write, one commit from outside, `FairSpec` | 90 thousand | Sessions settle, re-observations end, ownership is released |
| `dashboard` | three reads, two mutations in the queue, one click, one loss, crashes without bound, `FairDashboardSpec` | 602 thousand | the store is atomic; a view never goes back, notices a lost server, converges; a command settles |
| `agents` | two requests of any kind at a time, two Runs, two updates, one failing write, crashes without bound, `AgentFairSpec` | 356 thousand | Runs, stops and deletions of one Agent: their safety, and that they end |
| `startup` | two Agents of each Role, starts, stops and commands without bound | 36 thousand | one active Session, starts that converge and refuse only with cause |
| `lost_plan`, `duplicate_refresh` | no commit from outside, no failing write | violations | see Divergences |
| `race_undiagnosed` | one commit from outside, one failing write | violation | see Divergences |
| `late_answer` | as `dashboard`, without fairness | violation | see Divergences |
| `lost_stop` | two requests at a time, no failing write | violation | see Divergences |
| `interrupted_start` | as `startup` | violation | see Divergences |

Bounds, and why they are enough:

* `Heads` is the set of values the head may take. `StillHeads` is the program as shipped:
  nothing but the scenarios commits. `DriftHeads` allows one commit from outside after the
  scenario's last; the repository's tests of the service and the gate make such commits.
  One commit of any one resource with any value distinguishes every check of a head or an
  interval: before or after the observation, the validation, the claim, the capture, and
  the Effect. The theorems about the service need no bound on commits.
* `MaxStoreFaults` is two in `session`: `closeBackgroundFailure` tries twice, so two is the
  number at which it gives up. `RaceWriteFails` is not counted, as a Session races once.
* In `progress` one write may fail: with two the continuation retains its ownership until
  the process is restarted, which is deliberate and shown by `session` (`InFlightIsOwned`).
* `Revisions` contains every revision a Session reaches.
* Scenarios: `normal` leads to a permit at once; `impossible` to a No-Cut, a re-observation
  and a denial; `revised`, which is not registered, has a budget that is revised but still
  sufficient, so that a re-observation leads to a permit and to an Effect.
* `dashboard`: `MaxWaiting` is two, so that a mutation waits behind one that is being written;
  the dashboard's command and somebody else's race for one revision. `MaxRevision`
  stops mutations that anybody but the reader and the Runs calls at the third: a Session is
  created, one thing happens to it, and it is reset, or changes under an answer in flight.
  One click is one command or one reload. `MaxGlitches` is the number of times a request is
  lost or garbled, the link dies or a write of the store fails, together (`MaxFaults` is
  within it): each hazard takes one. Polls, answers out of order, crashes, starts, and
  comings and goings of the reader have no bound.
* `Handlers` is two: the hazards of the Agent service are pairs of requests (two stops, a stop
  and a message, two updates) beside a Run that executes. `Runs` is two, so that a Run may
  start while an earlier one is being cancelled. `MaxUpdates` is two, the least number that
  can be written in the wrong order.
* `MaxAgents` is two: one Agent that was created and lost by an interrupted start, and the one
  that is created again.

`receipts` and `agents` do not check deadlock: their bounds (the head, Runs, updates) stop
them. The session service, the dashboard and the start always have a step that is enabled.

### Properties that need explaining

`EffectAtCommonCut` quantifies over every state after the Effect too, so later commits must
not be able to falsify it. `CommitRetryConverges`, `ReadyIsCommittable` and
`BlockedIsRefreshable` compare what one component persists with what another will check:
a Session in READY or BLOCKED is not terminal, cannot be reset and is not touched by
recovery, so a mismatch would be permanent. `RecoveryNeverRefuses` is checked in every state
in flight, that is for a crash between any two mutations. `KeepsPromise` is the refinement:
only the step that appends the Effect may publish, and the truth of the World is taken in
that step, not at validation.

`DecisionsAreBacked` ties a Decision to its Assignment and Attempt in both directions, and,
once validated, to the authoritative value of the version its receipt names.
`InFlightIsOwned` includes what each observer must find when it resumes, so that none of the
refusals in `run-observer.ts` can meet a live observer. It also fixes the order after a failed
Run: `runInitialFanOut` closes the Session before the join rejects the siblings, so that a
Session that still collects has rejected no Assignment but those of its failed observers. The
join of a store error does come first, and is left out: no Run failed then.

`DiagnosticsStayClosed` is about time: a diagnostic is built from the store of one mutation
and checked by every later read against records that were claimed, superseded, closed or
overtaken since. Its exception is the diagnostic of stale evidence, which cites a plan
that was never built (below). `EndIsExplained` counts: the join, the continuation and the
refresh request may each try to close a Session, and exactly the first explains why.

`SteadyWorldIsReadable` asks of every mutation that the store it leaves can be shown. It has
exceptions, which are the states in which the code refuses the read. Once the World has moved
on from the head of the validation, a READY, BLOCKED or COMMITTED Session is not readable, since
the builder wants the validation to be of the present head; a Session that was closed by a
commit race after a re-observation stays unreadable. A Session in HISTORICAL_STALE is
unreadable because no plan is built for it. Both take a commit from outside. The remaining two
take none: the Run of the re-observation was given up (`RunGivenUp`, a divergence below), or
has ended and the Session has not taken note (`ClaimedRunEnded`, observed below).
`OfferedActionsAreAccepted` has no exception: whatever else moved, an action that a snapshot
offers is one that the gate or the planner carries out.

`StoreIsAtomic` is the refinement of `AtomicStore`: a crash between the rename and the
publication keeps a mutation that no reader has seen, which `AtomicStore!Stop` allows, and a
reader never sees one that a crash takes back. `ShownNeverGoesBack` rests on it: revisions are
compared by the hook across restarts of the server. `ViewConverges` says what polling is for,
and `CommandSettles` that the buttons come back.

`BusyHasRun` also counts: an execution whose write fails strands at most its own Run.
`RefusalHasCause` states, of the step that refuses a start, what that check saw: partial
registrations, an Agent that nobody registered, or a Role Agent in error or with another
AGENTS.md than was registered. Everything else the start checks (two stores that disagree, two
active Sessions, registrations that did not converge, business data without registrations, an
Agent still busy) never is a reason. It is an action property because a refused start stays
refused while the file changes. The violation `interrupted_start` is two of these causes.

### Fairness

`FairSpec` assumes weak fairness of the background continuation, of the refresh handler, of
a restart after a crash, and of each observer's progress. The event loop runs what is ready;
polling has a timeout of ten minutes (`run-observer.ts`, `timeoutMs`), so an observer ends
even when its Run does not; repeated polls that find the Run running (`MirrorRunning`) are
not counted as progress. Nothing is assumed of clients, of crashes or of the World.
`RefreshSettles` allows a Session to stay REOBSERVING once a write has failed: the refresh
handler closes its failure only once (`epochguard-service.ts`, `refresh`).

`FairDashboardSpec` assumes that a process that runs goes on with its queue, that the Runs of
a Session end (`progress` shows why), that on a live link a request reaches the server or its
closed port and the answer the page, that the poll timer fires after each read and the
stale timer at its deadline. Nothing is assumed of clicks, of a start of the server, of the
recovery of a link, or of other clients; the properties that need a live server say so.

`AgentFairSpec` assumes weak fairness of the store's queue, of the end of a child process,
which the runner kills at its timeout (`../codex-runner.ts`), and of the file operations of a
handler. Nothing is assumed of clients or of a restart: `BusyEnds` allows an Agent to be busy
in a server that is down, and after a write has failed.

### Divergences between code and documents

* `lost_plan`: when the Run of a re-observation is given up while it is queued or running,
  `closeClaimedRefreshFailure` drops the plan and keeps the No-Cut validation. `types.ts:3438`
  and the schema demand a plan beside retained evidence, so the failed Session is answered
  PROJECTION_MISMATCH for good.
* `duplicate_refresh`: the design answers a repeated refresh with ALREADY_REOBSERVING.
  `assertClaimedPlanClosure` accepts active Attempts only while the Session is REOBSERVING, and
  ended ones only once it is FAILED or INTERRUPTED. But the Attempt ends in a mutation before
  the one that ends the Session: in the run the dispatch fails, so that the Attempt is FAILED
  (`run-observer.ts:661-703`) and the Session still REOBSERVING until `refresh` closes it
  (`epochguard-service.ts:804`). A duplicate in between is answered with an internal error. The
  same check refuses in the windows after a cancelled, rejected or completed Run.
* `race_undiagnosed`: the workflow document wants a commit race to end the Session and write a
  diagnostic. The gate closes the Session in one mutation and the service records the diagnostic
  in the next; a crash or a failing write between the two loses it for good.
* `late_answer`: after a 404 the hook forgets the newest revision and lets reads in flight go
  on; an answer from before the reset that arrives later is shown, with its buttons, until the
  next poll.
* `lost_stop`: a stop that comes between the admission of a message and its execution is
  answered with the status stopped; the Run executes all the same, and its completion writes
  the status ready, which its failure does not.
* `interrupted_start`: `role-profiles.ts:366` says that a partial initialization resumes. The
  start refuses one or two registrations before it gets there, and an Agent that was created
  and not registered is created again, of which `createApp` demands exactly one.

Observed in the models, without a run of their own:

* The Run of a re-observation ends in one mutation and the Session leaves REOBSERVING in a
  later one. `types.ts:1928` wants active Attempts throughout, so a poll in between is refused.
* AGENTS.md is written after the mutation and outside the store's queue; of two updates the
  older may be written last.
* A failed Run leaves a Role Agent in error; a start demands ready, and the routes protect Role
  Agents from the request that would start them. A Run that changes AGENTS.md has the same
  effect, and nothing writes the file again.
* When the World moves between the observations and the validation, the outcome is
  HISTORICAL_BUT_STALE_NOW; `types.ts:3438` and the design demand a RefreshPlan with it and the
  record says REOBSERVE_INVALID, but `persistValidation` builds none. The Session then is neither
  terminal nor refreshable, cannot be committed or reset, and no restart closes it. The
  shipped program does not commit from outside.

## Theorems

Assumptions on constants, each named in the module that declares them and evaluated by TLC:
the three Roles are distinct, `Reobs` and `None` are other values (`RolesDistinct`,
`NamesDistinct`); heads, revisions and the number of faults are naturals
(`HeadsAreNaturals`, `BoundsAreNaturals`); every scenario prepares a World that is a tiling in
which its receipts resolve (`FixturesPrepared`), and its refresh capture, if it has one, is at
the head that World ends at (`RefreshAtPreparedHead`; `fixtures.ts`, `expectedHeadSeq`). Runs,
requests and `None` of the Agent service are distinct and the requests finitely many
(`AgentNames`, `AgentBounds`); a Role has at least one Agent (`AgentBound`). The callbacks of the
store under a dashboard are those of one Session (`StoreOfOneSession`); only the proof of
`DashboardsStoreIsAtomic` cites it, those of `StoreImplementsAtomicStore` and `ViewNeverGoesBack`
hold for any callbacks. Nothing else is assumed: the theorems hold for any number of scenarios, commits, crashes,
failing writes, requests, reads, Runs and Agents.

| Theorem | States |
|---|---|
| `WorldLedgerProofs`: `LedgerIsATiling`, `LedgerNeverRefuses`, `LedgerKeepsThePast` | `LedgerSpec` implies types and `HistoryTiles`, `CommitNeverRefused`, `PastNeverChanges` |
| `ReceiptProofs`: `ReceiptsStayResolvable`, `ValidatorDecidesCuts` | `ReceiptSpec` implies `ReceiptsResolve`, `OutcomeDecidesCut` |
| `EpochGuardProofs`: `TypeCorrect` | `Spec => []TypeOK` |
| `EffectsAreSafe`, `EffectsAreCommitted` | `Spec` implies `EffectAtCommonCut`, `EffectMeansCommitted` |
| `EndedSessionsStayEnded` | `Spec => TerminalIsFinal` |
| `ServiceKeepsPromise` | `Spec => KeepsPromise`, that is, the service implements `ProtectedEffect` |
| `EvidenceProofs`: `OwnersFindTheirRecords`, `ClaimsAreOwned`, `RecoveryAlwaysStarts` | `Spec` implies `InFlightIsOwned`, `ClaimHasOneOwner`, `RecoveryNeverRefuses` |
| `EvidenceIsUsedOnce`, `RevisionsFence` | `Spec` implies `EvidenceIsSpentOnce`, `RevisionFences` |
| `DecisionsRest`, `ReadyCanCommit`, `RetriesConverge`, `BlockedCanRefresh` | `Spec` implies `DecisionsAreBacked`, `ReadyIsCommittable`, `CommitRetryConverges`, `BlockedIsRefreshable` |
| `DiagnosisProofs`: `DiagnosticsOnlyExplain` | `DiagnosedSpec => Spec`: all of the above holds beside the diagnostics |
| `EndsAreExplained`, `OffersAreHonoured` | `DiagnosedSpec` implies `EndIsExplained`, `OfferedActionsAreAccepted` |
| `ChainsStayClosed`, `SteadySessionsAreShown` | `DiagnosedSpec` implies `DiagnosticsStayClosed`, `SteadyWorldIsReadable` |
| `StoreProofs`: `StoreImplementsAtomicStore` | `StoreSpec => StoreIsAtomic`, for any callbacks |
| `ViewNeverGoesBack`, `DashboardsStoreIsAtomic` | `DashboardSpec` implies `ShownNeverGoesBack`, `StoreIsAtomic` |
| `DualProofs`: `OneSessionAtATime`, `StartsConverge`, `RefusalsHaveCause` | `DualSpec` implies `OneActiveSession`, `StartConverges`, `RefusalHasCause` |
| `AgentProofs`: `BusyAgentsHaveRuns`, `CancellationsWait`, `ResultsComeFromRuns`, `OutcomesAreFinal` | `AgentSpec` implies `BusyHasRun`, `CancelWaits`, `ResultsAreEvidence`, `RunOutcomeIsFinal` |

### The arguments

*Ledger* (`LedgerInv`). Types and tilings are inductive together; a commit's versions are an
old one, an old one closed, or the new one (`CommittedCases`), and each pair of them is
disjoint. *Receipts* (`ReceiptInv`). A version that held at an observation still does after a
commit; that the bounds decide the common cut is arithmetic about the versions the receipts
name.

*Effect* (`ServiceInv`). `EffectAtCommonCut` alone is not inductive, because a commit closes
versions and a receipt might have been issued after the cut; `CutInv` adds that the receipts
are not younger than the cut. That `createSession` replaces the World needs no invariant of the
Session: it demands an empty ledger, in which no Effect can satisfy `CutInv`. *Ends*:
`OwnerInv` says which owner can be at work in which state; it is what makes steps that never
look at the state safe. It includes that an owner in the join has a failed observer, without
which the join could accept outputs of a Session that was closed. `NextMoves` reduces every
step to one of five kinds: it creates, deletes, publishes, commits to the World, or is
`Steady`. *Promise* (`PromiseInv`): with these five kinds each step of the service maps to a
step of `ProtectedEffect` or to a stutter; `TruthAfterCommit` shows that a commit changes the
truth of the resource it names and of no other.

*Owners* (`OwnedInv`). `RecordInv` says of each task that its Assignment, Attempt and Decision
are in statuses that go together and are what its observer left; `SessionInv` what a Session
points to while nothing is decided and while a claimed plan is worked on; `ObserverInv` which
steps of observers go with which step of their owner. `JoinInv`, beside it, says who may have
rejected an Assignment of a Session that collects; it has to tell the join of a store error
from that of a failed Run, which `InFlightIsOwned` need not. Recovery then accepts because the Attempts
a Session in flight points to are exactly those of its owner, and revisions fence because every
step that changes the pointers advances the revision.

*Evidence* (`BackedInv`). That the gate and the planner later accept what a validation persisted
needs the history of the evidence: `WorldInv` (the World starts at the prepared head, and each
commit opens a version at its head), `HeldInv` (every receipt was issued in the prepared World
and still resolves), `ValidationInv` (a persisted validation is of the current Decisions, and
each says what its evidence says), `PlanInv`, `ReadyInv` and `BlockedInv` (what a claimed plan, a
permit and an available plan are bound to). Steps are classified by what they do to the evidence:
nothing (`Still`), the first transition (`Collects`), an end (`GivesUp`, `Recovers`), an
acceptance (`Settles`). The crux is `CurrentMeansPrepared`: when all three receipts are valid at
the head, the World has not moved since it was prepared, because a commit would have ended the
version of one of them; so a completed plan, which was built in the prepared World, has the head
of the validation that completes it, which is one of the conditions of the gate.

*Diagnostics*. Each step of `DiagnosedNext` is one of `Next` or leaves the service alone
(`DiagnosedSteps`), so `BackedInv` holds of it. Then each step either leaves the diagnostics and
the state of a failed Session alone (`KeepsExplained`), gives a reason to a Session that did not
fail (`ReasonExplained`) or ends it and says why (`FailureExplained`). *Offers* follow from
`ReadyInv` and `BlockedInv` and from what a readable snapshot demands: that permit and validation
are of the present head.

*Chains* (`ChainInv`). A diagnostic names records, and the read rebuilds from them what it says;
`Names` is what of that is fixed when the diagnostic is written, and `ChainsClose` shows that it
is enough at every later read. What must not change underneath is the rest of `ChainInv`. Each
persisted validation still holds (`EvidenceLasts`): its Decisions were consumed for good, and
the intervals of their receipts are, up to the head it was made at, those of today's ledger; a
commit may only end an interval, and only beyond that head, so the bounds and the invalid owners
are recomputed as they were (`BoundsAgree`, `BoundsAroundHead`). `OneOrigin` and `PlanRests` tie
the plan to the first validation, the only one that can be of a No-Cut, and each later validation
to the plan's completion; without them the claim and completion of a plan would have to be
followed through every diagnostic. `RaceHeld` keeps what a race was found with.

*Shown* (`ShownInv`). The builder resolves what the Session points to and the schema relates
what was written by different mutations, so the invariant says for each state what the parts
are: the outcome of the latest validation (`OutcomeFits`), the Attempts pointed to
(`ActiveFits`), the plan (`PlanFits`) and the permit (`GateFits`). `ClaimClosed` is the delicate
one. A claimed plan may outlive its re-observation in FAILED, and the schema then demands
that its Attempt ended, or was completed and rejected for a contradicted verdict, which the
latest diagnostic must say. That is inductive only with `Awaited`, that the refresh
handler which found the contradiction has an observer that returned an output, and with
`ChainInv`, since later steps may not append another diagnostic. `StaleNamed` keeps the one
diagnostic whose chain never closes out of every state but HISTORICAL_STALE. The theorem is then
one lemma for each condition of the builder and of the schema, joined by `BuilderShows` and
`SchemaShows`.

*Store* (`StoreInv`). While a mutation is being written, the clone is what its callback makes of
the published data (`CloneOfHead`); the file holds the published data or that clone, which it
does from the rename on (`FileFollows`); a crash leaves the file alone (`DownIsEmpty`). So a
crash maps to an abstract stop before or after the mutation, according to the rename.

*View* (`ViewInv`). What the store holds, read from the process or, when it is down, from the file,
stays as it is or moves by one mutation (`HeldMoves`), so its revisions only grow, through crashes
and restarts too. The snapshots shown and those on their way back are of no later revision than
the store and agree wherever their revisions do (`SnapshotsAgree`), and the hook's reference is
the revision shown (`LatestIsShown`); a delivery that passes the hook's comparison is then newer
or the same. `ClientInv` bounds the revision a Session can have in each of its states, which makes
a click on any snapshot a callback the store knows.

*Start* (`DualInv`). `LockInv` says what the holder of the lock and a continuation know is
active, `RegInv` how registrations in both stores follow the Agents, `BootInv` what each step of a
start has established. `RefusalIsCaused` goes through the checks that can refuse: from these
invariants every one of them holds but for its cause, and a registered Agent that is not
verified can be neither missing nor busy, which leaves what a Run did. *Agent* (`AgentInv`). A mutation in the queue and its caller wait for
each other (`QueueInv`, `HandlerInv`), a Run that is not finished is executed or stranded by a
fault that was counted (`ExecInv`, `StrandedInv`), and a busy Agent has one of them (`BusyInv`).

### Only model-checked

* Liveness, in `progress`, `agents` and `dashboard`: out of the prover's reach, as is `ENABLED`.
* What the fold over the scripts of `Fixtures` computes: TLC evaluates it, and the theorems assume
  of it what `FixturesPrepared` names.
* Nothing else: every other invariant and action property of a passing run is a theorem.

## Plan

What would come next, in this order:

1. AgentService composed with RunObserver: an observer that polls the Runs of the modelled
   service in place of the external one.
2. Two dashboards on one Session.

## Not modelled

* Rendering, styles, mock snapshots and the decoding contracts of the web dashboard: they keep no
  state of the Session.
* A Session or source that changes under one instance of the polling hook: production keys the
  instance by Session.
* Parsing and authentication of HTTP requests, and routes that only read.
* Power loss and what reaches the disk of a rename: `epoch-store.ts` does not sync, and the model
  has crashes of the process only.
* Containers, command lines, parsing of a runner's output, paths and contents of files.
* Digests, nonces, identifiers, timestamps, texts and audit events: functions of what is
  modelled, or shown and not read back.
