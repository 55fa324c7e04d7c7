----------------------------- MODULE AgentService -----------------------------
(***************************************************************************)
(* AgentService, its JsonStore and its runner, for one Agent.  Agents      *)
(* share nothing but the queue of the store.                               *)
(*                                                                         *)
(* Handlers are HTTP requests in progress, each at most one at a time.     *)
(* Requests, Runs and the store's queue interleave in one event loop: an   *)
(* action is what runs from one input or output event to the next.  Every  *)
(* mutation waits its turn in the queue; it publishes its changes when its *)
(* file was renamed, and only then its caller goes on.                     *)
(***************************************************************************)
EXTENDS Integers, FiniteSets, Sequences, SequencesExt

CONSTANTS Handlers,      \* requests in progress
          Runs,          \* bound: the Runs that messages may start
          None,          \* the null pointer
          MaxUpdates,    \* bound: edits of the Agent's configuration
          MaxFaults      \* bound: mutations of the store that cannot be written

ASSUME AgentNames == None \notin Runs /\ Handlers \cap Runs = {}

ASSUME AgentBounds == IsFiniteSet(Handlers) /\ MaxUpdates \in Nat /\ MaxFaults \in Nat

VARIABLES
  agent,        \* the Agent's record in the store
  run,          \* the status of each Run's record
  messages,     \* Runs whose answer is a message
  workspace,    \* where the Agent's directory is
  agentsMd,     \* the configuration that AGENTS.md was written from
  up,           \* the server runs and has initialized
  queue,        \* JsonStore.queue: the mutations called and not yet published
  exec,         \* where executeRun of each Run is
  child,        \* the runner's entry of the Agent: its process, and whether it was cancelled
  execution,    \* activeExecutions: the Run it holds
  cancelling,   \* cancellationRequests holds the Agent
  pc,           \* where each handler is
  storeFaults   \* mutations that could not be written

records == <<agent, run, messages>>
files == <<workspace, agentsMd>>
agentVars == <<agent, run, messages, workspace, agentsMd, up, queue, exec, child,
               execution, cancelling, pc, storeFaults>>

-----------------------------------------------------------------------------
(* Types *)

(* "none" and "gone" are an Agent without a record: not yet made, or deleted.  *)
AgentRecord == [status : {"none", "ready", "busy", "stopped", "error", "gone"},
                thread : Runs \cup {None}, config : 0..MaxUpdates]

Unfinished == {"queued", "running"}
Finished == {"completed", "failed", "cancelled"}

RunStatus == Unfinished \cup Finished \cup {"none", "removed"}

HandlerOps == {"create", "update", "delete", "start", "stop", "send"}
RunOps == {"running"} \cup Finished

Mutation == [op : HandlerOps, by : Handlers] \cup [op : RunOps, by : Runs]

Idle == [op |-> "none", step |-> "idle", held |-> None]

HandlerState ==
  [op : HandlerOps \cup {"none"},
   step : {"idle", "making", "queued", "writing", "settling", "awaiting", "archiving"},
   held : Runs \cup {None} \cup 0..MaxUpdates]

NoChild == [run |-> None, cancelled |-> FALSE]

Stored == agent.status \notin {"none", "gone"}

AgentTypeOK ==
  /\ agent \in AgentRecord
  /\ run \in [Runs -> RunStatus]
  /\ messages \subseteq Runs
  /\ workspace \in {"none", "present", "archived"}
  /\ agentsMd \in 0..MaxUpdates
  /\ up \in BOOLEAN
  /\ queue \in Seq(Mutation)
  /\ exec \in [Runs -> {"none", "starting", "runtime", "closing", "settled"}]
  /\ child \in [run : Runs \cup {None}, cancelled : BOOLEAN]
  /\ execution \in Runs \cup {None}
  /\ cancelling \in BOOLEAN
  /\ pc \in [Handlers -> HandlerState]
  /\ storeFaults \in 0..MaxFaults

AgentInit ==
  /\ agent = [status |-> "none", thread |-> None, config |-> 0]
  /\ run = [r \in Runs |-> "none"]
  /\ messages = {}
  /\ workspace = "none"
  /\ agentsMd = 0
  /\ up = TRUE
  /\ queue = <<>>
  /\ exec = [r \in Runs |-> "none"]
  /\ child = NoChild
  /\ execution = None
  /\ cancelling = FALSE
  /\ pc = [h \in Handlers |-> Idle]
  /\ storeFaults = 0

-----------------------------------------------------------------------------
(* The queue of the store *)

Waiting(op, held) == [op |-> op, step |-> "queued", held |-> held]

(* A handler calls mutate and waits for it. *)
Request(h, op, held) ==
  /\ pc' = [pc EXCEPT ![h] = Waiting(op, held)]
  /\ queue' = Append(queue, [op |-> op, by |-> h])

(* The mutation whose turn it is.  Its caller goes on when it is published. *)
Turn(op) == up /\ queue # <<>> /\ Head(queue).op = op

Caller == Head(queue).by

Answer(h) == queue' = Tail(queue) /\ pc' = [pc EXCEPT ![h] = Idle]

CanStart(h) == up /\ pc[h] = Idle

-----------------------------------------------------------------------------
(* Create, update, start *)

(* The Agent's id is new: it is known to no request before it is stored. *)
Create(h) ==
  /\ CanStart(h)
  /\ agent.status = "none" /\ workspace = "none"
  /\ \A g \in Handlers : pc[g].op # "create"
  /\ pc' = [pc EXCEPT ![h] = [op |-> "create", step |-> "making", held |-> None]]
  /\ UNCHANGED <<records, files, up, queue, exec, child, execution, cancelling, storeFaults>>

MakeWorkspace(h) ==
  /\ up /\ pc[h].step = "making"
  /\ workspace' = "present"
  /\ Request(h, "create", None)
  /\ UNCHANGED <<records, agentsMd, up, exec, child, execution, cancelling, storeFaults>>

ApplyCreate ==
  /\ Turn("create")
  /\ agent' = [agent EXCEPT !.status = "ready"]
  /\ Answer(Caller)
  /\ UNCHANGED <<run, messages, files, up, exec, child, execution, cancelling, storeFaults>>

Update(h) ==
  /\ CanStart(h)
  /\ Stored /\ agent.status # "busy"
  /\ agent.config + Cardinality({g \in Handlers : pc[g].op = "update"}) < MaxUpdates
  /\ Request(h, "update", None)
  /\ UNCHANGED <<records, files, up, exec, child, execution, cancelling, storeFaults>>

(* The handler keeps a copy of the record that its own mutation stored. *)
ApplyUpdate ==
  /\ Turn("update")
  /\ IF Stored /\ agent.status # "busy"
     THEN /\ agent' = [agent EXCEPT !.config = @ + 1]
          /\ pc' = [pc EXCEPT ![Caller] = [op |-> "update", step |-> "writing",
                                           held |-> agent.config + 1]]
          /\ queue' = Tail(queue)
     ELSE Answer(Caller) /\ UNCHANGED agent
  /\ UNCHANGED <<run, messages, files, up, exec, child, execution, cancelling, storeFaults>>

WriteInstructions(h) ==
  /\ up /\ pc[h].step = "writing"
  /\ agentsMd' = IF workspace = "present" THEN pc[h].held ELSE agentsMd
  /\ pc' = [pc EXCEPT ![h] = Idle]
  /\ UNCHANGED <<records, workspace, up, queue, exec, child, execution, cancelling, storeFaults>>

Start(h) ==
  /\ CanStart(h)
  /\ agent.status # "none"
  /\ Request(h, "start", None)
  /\ UNCHANGED <<records, files, up, exec, child, execution, cancelling, storeFaults>>

ApplyStart ==
  /\ Turn("start")
  /\ agent' = IF Stored /\ agent.status # "busy"
              THEN [agent EXCEPT !.status = "ready"] ELSE agent
  /\ Answer(Caller)
  /\ UNCHANGED <<run, messages, files, up, exec, child, execution, cancelling, storeFaults>>

-----------------------------------------------------------------------------
(* Messages and the execution of a Run *)

(* The Run of a message has its id before the store admits it. *)
Send(h) ==
  /\ CanStart(h)
  /\ agent.status # "none"
  /\ \E r \in Runs :
       /\ run[r] = "none" /\ \A g \in Handlers : pc[g].held # r
       /\ Request(h, "send", r)
  /\ UNCHANGED <<records, files, up, exec, child, execution, cancelling, storeFaults>>

(* Admitted: executeRun starts and calls its first mutation at once. *)
ApplySend ==
  /\ Turn("send")
  /\ IF agent.status \in {"ready", "error"}
     THEN LET r == pc[Caller].held
          IN /\ agent' = [agent EXCEPT !.status = "busy"]
             /\ run' = [run EXCEPT ![r] = "queued"]
             /\ exec' = [exec EXCEPT ![r] = "starting"]
             /\ execution' = r
             /\ queue' = Append(Tail(queue), [op |-> "running", by |-> r])
             /\ pc' = [pc EXCEPT ![Caller] = Idle]
     ELSE Answer(Caller) /\ UNCHANGED <<agent, run, exec, execution>>
  /\ UNCHANGED <<messages, files, up, child, cancelling, storeFaults>>

(* executeRun reaches the mutation that ends its Run. *)
Close(r, ending) ==
  /\ exec' = [exec EXCEPT ![r] = "closing"]
  /\ queue' = Append(Tail(queue), [op |-> ending, by |-> r])

(* Mutation of ApplyRunning: the runner ignores a second Run. *)
ApplyRunningUnanswered ==
  /\ Turn("running")
  /\ LET r == Caller
     IN /\ run' = [run EXCEPT ![r] = IF @ = "removed" THEN @ ELSE "running"]
        /\ IF cancelling THEN Close(r, "cancelled") /\ UNCHANGED child
           ELSE /\ exec' = [exec EXCEPT ![r] = "runtime"]
                /\ child' = IF child # NoChild \/ workspace # "present" THEN child
                            ELSE [run |-> r, cancelled |-> FALSE]
                /\ queue' = Tail(queue)
  /\ UNCHANGED <<agent, messages, files, up, execution, cancelling, pc, storeFaults>>

(* The runner takes one process for each Agent, and needs its directory. *)
ApplyRunning ==
  /\ Turn("running")
  /\ LET r == Caller
     IN /\ run' = [run EXCEPT ![r] = IF @ = "removed" THEN @ ELSE "running"]
        /\ IF cancelling THEN Close(r, "cancelled") /\ UNCHANGED child
           ELSE IF child # NoChild \/ workspace # "present"
           THEN Close(r, "failed") /\ UNCHANGED child
           ELSE /\ exec' = [exec EXCEPT ![r] = "runtime"]
                /\ child' = [run |-> r, cancelled |-> FALSE]
                /\ queue' = Tail(queue)
  /\ UNCHANGED <<agent, messages, files, up, execution, cancelling, pc, storeFaults>>

-----------------------------------------------------------------------------
(* Cancellation *)

(* Where a handler is when cancelExecution has returned to it. *)
AfterCancel(state) ==
  IF state.op = "stop" THEN Waiting("stop", state.held)
                       ELSE [state EXCEPT !.step = "archiving"]

(* The handlers of a set leave cancelExecution together, in any order. *)
LeaveCancel(hs, waiting) ==
  /\ cancelling' = FALSE
  /\ pc' = [h \in Handlers |-> IF h \in hs THEN AfterCancel(pc[h]) ELSE pc[h]]
  /\ \E order \in SetToSeqs({h \in hs : pc[h].op = "stop"}) :
       queue' = waiting \o [i \in DOMAIN order |-> [op |-> "stop", by |-> order[i]]]

(* stopAgent and deleteAgent mark the Agent, stop its process and wait for     *)
(* the execution they find; with none of both they go on at once.              *)
Cancel(h, op) ==
  /\ CanStart(h)
  /\ Stored
  /\ IF child # NoChild
     THEN /\ cancelling' = TRUE
          /\ child' = [child EXCEPT !.cancelled = TRUE]
          /\ pc' = [pc EXCEPT ![h] = [op |-> op, step |-> "settling", held |-> None]]
          /\ UNCHANGED queue
     ELSE IF execution # None
     THEN /\ cancelling' = TRUE
          /\ pc' = [pc EXCEPT ![h] = [op |-> op, step |-> "awaiting", held |-> execution]]
          /\ UNCHANGED <<queue, child>>
     ELSE /\ cancelling' = FALSE
          /\ IF op = "stop" THEN Request(h, op, None)
             ELSE /\ pc' = [pc EXCEPT ![h] = [op |-> op, step |-> "archiving", held |-> None]]
                  /\ UNCHANGED queue
          /\ UNCHANGED child
  /\ UNCHANGED <<records, files, up, exec, execution, storeFaults>>

Stop(h) == Cancel(h, "stop")

Delete(h) == Cancel(h, "delete")

(* The process ends: by itself, at its timeout, or because it was cancelled.   *)
(* A cancellation wins over its outcome also when it is only now looked at.    *)
ChildExits ==
  /\ up /\ child # NoChild
  /\ LET r == child.run
         settling == {h \in Handlers : pc[h].step = "settling"}
     IN /\ child' = NoChild
        /\ exec' = [exec EXCEPT ![r] = "closing"]
        /\ \E outcome \in {"completed", "failed"} :
             LET ending == IF child.cancelled \/ cancelling THEN "cancelled" ELSE outcome
                 waiting == Append(queue, [op |-> ending, by |-> r])
             IN IF execution # None \/ settling = {}
                THEN /\ queue' = waiting
                     /\ pc' = [h \in Handlers |->
                                IF h \in settling
                                THEN [pc[h] EXCEPT !.step = "awaiting", !.held = execution]
                                ELSE pc[h]]
                     /\ UNCHANGED cancelling
                ELSE LeaveCancel(settling, waiting)
  /\ UNCHANGED <<records, files, up, execution, storeFaults>>

(* Mutation of Settle: only the entry of activeExecutions is awaited. *)
SettleOfEntry(r) ==
  LET awaiting == {h \in Handlers : pc[h].step = "awaiting" /\ pc[h].held = r}
  IN /\ exec' = [exec EXCEPT ![r] = "settled"]
     /\ execution' = IF execution = r THEN None ELSE execution
     /\ IF awaiting = {} \/ execution # r
        THEN queue' = Tail(queue) /\ UNCHANGED <<cancelling, pc>>
        ELSE LeaveCancel(awaiting, Tail(queue))

(* The promise of an execution settles: its entry goes, who awaited it goes on. *)
Settle(r) ==
  LET awaiting == {h \in Handlers : pc[h].step = "awaiting" /\ pc[h].held = r}
  IN /\ exec' = [exec EXCEPT ![r] = "settled"]
     /\ execution' = IF execution = r THEN None ELSE execution
     /\ IF awaiting = {} THEN queue' = Tail(queue) /\ UNCHANGED <<cancelling, pc>>
        ELSE LeaveCancel(awaiting, Tail(queue))

(* Mutation of ApplyCompleted: the records are not looked up again. *)
ApplyCompletedBlindly ==
  /\ Turn("completed")
  /\ run' = [run EXCEPT ![Caller] = IF @ = "removed" THEN @ ELSE "completed"]
  /\ messages' = messages \cup {Caller}
  /\ agent' = IF Stored THEN [agent EXCEPT !.status = "ready", !.thread = Caller] ELSE agent
  /\ Settle(Caller)
  /\ UNCHANGED <<files, up, child, storeFaults>>

(* An answer is kept when both the Run and its Agent still are. *)
ApplyCompleted ==
  /\ Turn("completed")
  /\ IF Stored /\ run[Caller] # "removed"
     THEN /\ run' = [run EXCEPT ![Caller] = "completed"]
          /\ messages' = messages \cup {Caller}
          /\ agent' = [agent EXCEPT !.status = "ready", !.thread = Caller]
     ELSE UNCHANGED records
  /\ Settle(Caller)
  /\ UNCHANGED <<files, up, child, storeFaults>>

(* Mutation of ApplyStopped: a cancelled Run does not free its Agent. *)
ApplyStoppedBusy(ending) ==
  /\ Turn(ending)
  /\ run' = [run EXCEPT ![Caller] = IF @ = "removed" THEN @ ELSE ending]
  /\ agent' = [agent EXCEPT !.status =
                 IF ~Stored \/ @ = "stopped" \/ ending = "cancelled" THEN @ ELSE "error"]
  /\ Settle(Caller)
  /\ UNCHANGED <<messages, files, up, child, storeFaults>>

ApplyStopped(ending) ==
  /\ Turn(ending)
  /\ run' = [run EXCEPT ![Caller] = IF @ = "removed" THEN @ ELSE ending]
  /\ agent' = [agent EXCEPT !.status =
                 IF ~Stored \/ @ = "stopped" THEN @
                 ELSE IF ending = "cancelled" THEN "ready" ELSE "error"]
  /\ Settle(Caller)
  /\ UNCHANGED <<messages, files, up, child, storeFaults>>

(* setStatus does not look at what the Agent is doing when it stops it. *)
ApplyStop ==
  /\ Turn("stop")
  /\ agent' = IF Stored THEN [agent EXCEPT !.status = "stopped"] ELSE agent
  /\ Answer(Caller)
  /\ UNCHANGED <<run, messages, files, up, exec, child, execution, cancelling, storeFaults>>

(* The directory moves before the records go; the second of two finds none. *)
Archive(h) ==
  /\ up /\ pc[h].step = "archiving"
  /\ IF workspace = "present"
     THEN workspace' = "archived" /\ Request(h, "delete", None)
     ELSE pc' = [pc EXCEPT ![h] = Idle] /\ UNCHANGED <<workspace, queue>>
  /\ UNCHANGED <<records, agentsMd, up, exec, child, execution, cancelling, storeFaults>>

ApplyDelete ==
  /\ Turn("delete")
  /\ agent' = [agent EXCEPT !.status = "gone", !.thread = None]
  /\ run' = [r \in Runs |-> IF run[r] = "none" THEN "none" ELSE "removed"]
  /\ messages' = {}
  /\ Answer(Caller)
  /\ UNCHANGED <<files, up, exec, child, execution, cancelling, storeFaults>>

-----------------------------------------------------------------------------
(* Faults *)

(* Mutation of MutationFails: who awaited an execution goes on although it      *)
(* gave up.                                                                    *)
MutationFailsQuietly ==
  /\ up /\ queue # <<>>
  /\ storeFaults < MaxFaults /\ storeFaults' = storeFaults + 1
  /\ LET op == Head(queue).op
         r == Caller
     IN CASE op \in HandlerOps -> Answer(r) /\ UNCHANGED <<exec, execution, cancelling>>
          [] op = "completed" -> /\ Close(r, IF cancelling THEN "cancelled" ELSE "failed")
                                 /\ UNCHANGED <<execution, cancelling, pc>>
          [] OTHER -> Settle(r)
  /\ UNCHANGED <<records, files, up, child>>

(* A mutation cannot be written.  A handler answers with the error.  An        *)
(* execution that could not complete its Run tries once to close it as failed; *)
(* in its first and its last mutation it gives up, and who awaited it as well. *)
MutationFails ==
  /\ up /\ queue # <<>>
  /\ storeFaults < MaxFaults /\ storeFaults' = storeFaults + 1
  /\ LET op == Head(queue).op
         r == Caller
         awaiting == {h \in Handlers : pc[h].step = "awaiting" /\ pc[h].held = r}
     IN CASE op \in HandlerOps -> Answer(r) /\ UNCHANGED <<exec, execution, cancelling>>
          [] op = "completed" -> /\ Close(r, IF cancelling THEN "cancelled" ELSE "failed")
                                 /\ UNCHANGED <<execution, cancelling, pc>>
          [] OTHER -> /\ exec' = [exec EXCEPT ![r] = "settled"]
                      /\ execution' = IF execution = r THEN None ELSE execution
                      /\ cancelling' = (cancelling /\ awaiting = {})
                      /\ pc' = [h \in Handlers |-> IF h \in awaiting THEN Idle ELSE pc[h]]
                      /\ queue' = Tail(queue)
  /\ UNCHANGED <<records, files, up, child>>

(* The process stops anywhere: what was not published is lost. *)
ServerStops ==
  /\ up
  /\ up' = FALSE
  /\ queue' = <<>>
  /\ exec' = [r \in Runs |-> IF exec[r] = "none" THEN "none" ELSE "settled"]
  /\ child' = NoChild
  /\ execution' = None
  /\ cancelling' = FALSE
  /\ pc' = [h \in Handlers |-> Idle]
  /\ UNCHANGED <<records, files, storeFaults>>

(* Mutation of Initialize: every Run without an answer is cancelled again. *)
InitializeUnanswered ==
  /\ ~up
  /\ up' = TRUE
  /\ run' = [r \in Runs |-> IF run[r] \in Unfinished \cup {"failed"} THEN "cancelled" ELSE run[r]]
  /\ agent' = [agent EXCEPT !.status = IF @ = "busy" THEN "ready" ELSE @]
  /\ UNCHANGED <<messages, files, queue, exec, child, execution, cancelling, pc, storeFaults>>

(* initialize closes what was in flight. *)
Initialize ==
  /\ ~up
  /\ up' = TRUE
  /\ run' = [r \in Runs |-> IF run[r] \in Unfinished THEN "cancelled" ELSE run[r]]
  /\ agent' = [agent EXCEPT !.status = IF @ = "busy" THEN "ready" ELSE @]
  /\ UNCHANGED <<messages, files, queue, exec, child, execution, cancelling, pc, storeFaults>>

-----------------------------------------------------------------------------
Apply ==
  \/ ApplyCreate \/ ApplyUpdate \/ ApplyDelete
  \/ ApplyStart \/ ApplyStop \/ ApplySend
  \/ ApplyRunning \/ ApplyCompleted
  \/ ApplyStopped("failed") \/ ApplyStopped("cancelled")

HandlerStep(h) == MakeWorkspace(h) \/ WriteInstructions(h) \/ Archive(h)

Client(h) ==
  \/ Create(h) \/ Update(h) \/ Delete(h)
  \/ Start(h) \/ Stop(h) \/ Send(h)

AgentNext ==
  \/ \E h \in Handlers : Client(h) \/ HandlerStep(h)
  \/ Apply
  \/ ChildExits
  \/ MutationFails
  \/ ServerStops
  \/ Initialize

AgentSpec == AgentInit /\ [][AgentNext]_agentVars

-----------------------------------------------------------------------------
(* Properties *)

(* A busy Agent has a Run that is not finished: no interleaving of messages,   *)
(* stops and deletions, and no failed write, leaves it busy without one, which *)
(* would refuse its messages and edits for ever.  And a Run that is not        *)
(* finished is executed: each failed write of an execution strands at most one *)
(* Run until the next start.                                                   *)
BusyHasRun ==
  /\ agent.status = "busy" => \E r \in Runs : run[r] \in Unfinished
  /\ up => Cardinality({r \in Runs : run[r] \in Unfinished
                                      /\ exec[r] \in {"none", "settled"}}) <= storeFaults

(* A stop or deletion goes on only when the Run whose execution it awaited is  *)
(* finished, although completion, cancellation and other stops overlap.        *)
CancelWaits ==
  \A h \in Handlers :
    pc[h].op \in {"stop", "delete"} /\ pc[h].step \in {"queued", "archiving"} /\ pc[h].held \in Runs
      => run[pc[h].held] \notin Unfinished

(* Answers and the thread to resume come from completed Runs alone: not from   *)
(* one that was cancelled, and none reappears after the Agent was deleted.     *)
ResultsAreEvidence ==
  /\ messages = {r \in Runs : run[r] = "completed"}
  /\ agent.thread \in messages \cup {None}

(* The outcome of a Run is final, whatever its execution, a cancellation or a  *)
(* restart do later; only the deletion of its Agent removes it.                *)
RunOutcomeIsFinal ==
  [][\A r \in Runs : /\ run[r] \in Finished => run'[r] \in {run[r], "removed"}
                     /\ run[r] = "removed" => run'[r] = "removed"]_agentVars

-----------------------------------------------------------------------------
(* Progress *)

(* The event loop runs what is queued, and a process ends: the runner kills it *)
(* at its timeout.                                                             *)
AgentFairness ==
  /\ WF_agentVars(Apply)
  /\ WF_agentVars(ChildExits)
  /\ \A h \in Handlers : WF_agentVars(HandlerStep(h))

AgentFairSpec == AgentSpec /\ AgentFairness

(* An Agent does not stay busy while the server runs and its store can write.  *)
BusyEnds == agent.status = "busy" ~> (agent.status # "busy" \/ ~up \/ storeFaults > 0)

(* A request that stops or deletes an Agent is answered, although it waits for *)
(* an execution, whatever overlaps and also when a write fails.                *)
CancelReturns ==
  \A h \in Handlers : pc[h].op \in {"stop", "delete"} ~> pc[h].op \notin {"stop", "delete"}

-----------------------------------------------------------------------------
(* What the repository says of the service *)

(* agent-service.ts: a stopped Agent takes no message before it is started.    *)
(* An Agent leaves the status stopped by a start, or when it is deleted.       *)
StoppedUntilStarted ==
  [][agent.status = "stopped" /\ agent'.status # "stopped"
       => agent'.status = "gone" \/ Turn("start")]_agentVars

=============================================================================
