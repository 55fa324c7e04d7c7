------------------------------- MODULE AgentProofs ------------------------------
(***************************************************************************)
(* Proofs about AgentService: whatever messages, stops, deletions, failing *)
(* writes, crashes and starts overlap, the outcome of a Run is final, its  *)
(* answers are those of completed Runs, a busy Agent has a Run, and a stop *)
(* or deletion goes on only when the Run it awaited is finished.           *)
(***************************************************************************)
EXTENDS AgentService, FiniteSetTheorems, TLAPS

-----------------------------------------------------------------------------
(* The queue of the store *)

Members(q) == {q[i] : i \in DOMAIN q}

(* Nobody waits for two mutations. *)
Unique(q) == \A i, j \in DOMAIN q : i # j => q[i].by # q[j].by

Queue(q) == q \in Seq(Mutation) /\ Unique(q)

LEMMA EmptyQueue == Queue(<<>>) /\ Members(<<>>) = {}
  BY DEF Queue, Unique, Members

LEMMA AppendToQueue ==
  ASSUME NEW q, Queue(q), NEW m \in Mutation, \A x \in Members(q) : x.by # m.by
  PROVE  /\ Queue(Append(q, m))
         /\ Members(Append(q, m)) = Members(q) \cup {m}
<1> DEFINE p == Append(q, m)
<1>1. /\ q \in Seq(Mutation) /\ Len(q) \in Nat /\ p \in Seq(Mutation)
      /\ DOMAIN q = 1..Len(q) /\ DOMAIN p = 1..(Len(q) + 1)
      /\ \A i \in 1..Len(q) : p[i] = q[i]
      /\ p[Len(q) + 1] = m
  BY DEF Queue
<1> HIDE DEF p
<1>2. \A i \in 1..Len(q) : q[i].by # m.by
  BY <1>1 DEF Members
<1>3. Unique(p)
  BY <1>1, <1>2 DEF Queue, Unique
<1>4. Members(p) = Members(q) \cup {m}
  BY <1>1 DEF Members
<1> QED
  BY <1>1, <1>3, <1>4 DEF Queue, p

LEMMA TailOfQueue ==
  ASSUME NEW q, Queue(q), q # <<>>
  PROVE  /\ Head(q) \in Members(q) /\ Head(q) \in Mutation
         /\ Queue(Tail(q))
         /\ Members(Tail(q)) \subseteq Members(q)
         /\ \A x \in Members(Tail(q)) : x.by # Head(q).by
<1> DEFINE p == Tail(q)
<1>1. /\ q \in Seq(Mutation) /\ Len(q) \in Nat \ {0} /\ p \in Seq(Mutation)
      /\ DOMAIN q = 1..Len(q) /\ DOMAIN p = 1..(Len(q) - 1)
      /\ \A i \in 1..(Len(q) - 1) : p[i] = q[i + 1]
      /\ Head(q) = q[1] /\ Head(q) \in Mutation
  BY DEF Queue
<1> HIDE DEF p
<1>2. Unique(p)
  BY <1>1 DEF Queue, Unique
<1>3. Members(p) \subseteq Members(q)
  BY <1>1 DEF Members
<1>4. \A x \in Members(p) : x.by # q[1].by
  BY <1>1 DEF Queue, Unique, Members
<1>5. q[1] \in Members(q)
  BY <1>1 DEF Members
<1> QED
  BY <1>1, <1>2, <1>3, <1>4, <1>5 DEF Queue, p

Stops(hs) == {[op |-> "stop", by |-> h] : h \in hs}

LEMMA StopsJoinQueue ==
  ASSUME NEW q, Queue(q), NEW hs \in SUBSET Handlers, NEW order \in SetToSeqs(hs),
         \A x \in Members(q) : x.by \notin hs
  PROVE  /\ Queue(q \o [i \in DOMAIN order |-> [op |-> "stop", by |-> order[i]]])
         /\ Members(q \o [i \in DOMAIN order |-> [op |-> "stop", by |-> order[i]]])
              \subseteq Members(q) \cup Stops(hs)
<1> DEFINE n == Cardinality(hs)
           stops == [i \in DOMAIN order |-> [op |-> "stop", by |-> order[i]]]
           p == q \o stops
<1>1. n \in Nat
  BY AgentBounds, FS_Subset, FS_CardinalityType
<1>2. /\ DOMAIN order = 1..n
      /\ \A i \in 1..n : order[i] \in hs
      /\ \A i, j \in 1..n : i # j => order[i] # order[j]
  BY <1>1 DEF SetToSeqs
<1>3. \A i \in 1..n : stops[i] = [op |-> "stop", by |-> order[i]] /\ stops[i] \in Mutation
  BY <1>2 DEF Mutation, HandlerOps
<1>4. DOMAIN stops = 1..n /\ stops \in Seq(Mutation) /\ Len(stops) = n
  BY <1>1, <1>2, <1>3
<1> HIDE DEF n, stops
<1>5. /\ q \in Seq(Mutation) /\ Len(q) \in Nat /\ p \in Seq(Mutation)
      /\ DOMAIN q = 1..Len(q) /\ DOMAIN p = 1..(Len(q) + n)
      /\ \A i \in 1..Len(q) : p[i] = q[i]
      /\ \A i \in (Len(q) + 1)..(Len(q) + n) : i - Len(q) \in 1..n /\ p[i] = stops[i - Len(q)]
  BY <1>1, <1>4 DEF Queue
<1> HIDE DEF p
<1>6. \A i \in DOMAIN p : i \in 1..Len(q) \/ i \in (Len(q) + 1)..(Len(q) + n)
  BY <1>1, <1>5
<1>7. \A i \in 1..Len(q) : q[i] \in Members(q)
  BY <1>5 DEF Members
<1>8. ASSUME NEW i \in (Len(q) + 1)..(Len(q) + n)
       PROVE  /\ i - Len(q) \in 1..n
              /\ p[i] = [op |-> "stop", by |-> order[i - Len(q)]]
              /\ p[i].by = order[i - Len(q)]
              /\ p[i].by \in hs /\ p[i] \in Stops(hs)
  <2>1. PICK k \in 1..n : k = i - Len(q) /\ p[i] = stops[k]
    BY <1>5
  <2>2. p[i] = [op |-> "stop", by |-> order[k]] /\ order[k] \in hs
    BY <1>2, <1>3, <2>1
  <2> QED
    BY <2>1, <2>2 DEF Stops
<1>9. Members(p) \subseteq Members(q) \cup Stops(hs)
  <2> SUFFICES ASSUME NEW i \in DOMAIN p PROVE p[i] \in Members(q) \cup Stops(hs)
    BY DEF Members
  <2>1. CASE i \in 1..Len(q)
    BY <1>5, <1>7, <2>1
  <2>2. CASE i \in (Len(q) + 1)..(Len(q) + n)
    BY <1>8, <2>2
  <2> QED
    BY <1>6, <2>1, <2>2
<1>10. Unique(p)
  <2> SUFFICES ASSUME NEW i \in DOMAIN p, NEW j \in DOMAIN p, i # j
               PROVE  p[i].by # p[j].by
    BY DEF Unique
  <2>1. ASSUME NEW k \in 1..Len(q), NEW l \in (Len(q) + 1)..(Len(q) + n)
        PROVE  p[k].by # p[l].by
    BY <1>5, <1>7, <1>8, <2>1
  <2>2. CASE i \in 1..Len(q) /\ j \in 1..Len(q)
    BY <1>5, <2>2 DEF Queue, Unique
  <2>3. CASE i \in (Len(q) + 1)..(Len(q) + n) /\ j \in (Len(q) + 1)..(Len(q) + n)
    <3>1. i - Len(q) # j - Len(q)
      BY <1>1, <1>5, <2>3
    <3> QED
      BY <1>2, <1>8, <2>3, <3>1
  <2> QED
    BY <1>6, <2>1, <2>2, <2>3
<1> QED
  BY <1>5, <1>9, <1>10 DEF Queue, p, stops

-----------------------------------------------------------------------------
(* The invariant *)

(* The types, but for the bounds of the counters. *)
Shape ==
  /\ agent \in [status : {"none", "ready", "busy", "stopped", "error", "gone"},
                thread : Runs \cup {None}, config : Nat]
  /\ run \in [Runs -> RunStatus]
  /\ up \in BOOLEAN
  /\ Queue(queue)
  /\ exec \in [Runs -> {"none", "starting", "runtime", "closing", "settled"}]
  /\ child \in [run : Runs \cup {None}, cancelled : BOOLEAN]
  /\ execution \in Runs \cup {None}
  /\ pc \in [Handlers -> [op : HandlerOps \cup {"none"},
                          step : {"idle", "making", "queued", "writing", "settling",
                                  "awaiting", "archiving"},
                          held : Runs \cup {None} \cup Nat]]
  /\ storeFaults \in Nat

(* Who called a mutation waits for it. *)
Belongs(m) ==
  IF m.op \in RunOps
  THEN exec[m.by] = (IF m.op = "running" THEN "starting" ELSE "closing")
  ELSE pc[m.by].op = m.op /\ pc[m.by].step = "queued"

QueueInv == \A m \in Members(queue) : Belongs(m)

(* The record of a Run follows its execution. *)
ExecInv ==
  /\ \A r \in Runs : run[r] = "none" <=> exec[r] = "none"
  /\ \A r \in Runs : run[r] \in Finished => exec[r] = "settled"
  /\ child.run \in Runs => exec[child.run] = "runtime"
  /\ child.run = None => child = NoChild
  /\ execution \in Runs => run[execution] # "none"

(* The Runs of an Agent go with it. *)
StoredInv == ~Stored => \A r \in Runs : run[r] \in {"none", "removed"}

(* What a handler holds while it waits. *)
Holds(h) ==
  /\ pc[h].op = "send" =>
       /\ pc[h].held \in Runs /\ run[pc[h].held] = "none"
       /\ \A g \in Handlers : g # h /\ pc[g].op = "send" => pc[g].held # pc[h].held
  /\ pc[h].step \in {"settling", "awaiting", "archiving"} => pc[h].op \in {"stop", "delete"}
  /\ pc[h].step = "awaiting" => pc[h].held \in Runs
  /\ pc[h].step = "settling" => pc[h].held = None
  /\ pc[h].op \in {"stop", "delete"} /\ pc[h].held \in Runs => run[pc[h].held] # "none"

HandlerInv == \A h \in Handlers : Holds(h)

DownInv ==
  ~up => /\ queue = <<>> /\ child = NoChild /\ execution = None
         /\ \A h \in Handlers : pc[h] = Idle
         /\ \A r \in Runs : exec[r] \in {"none", "settled"}

BusyInv == agent.status = "busy" => \E r \in Runs : run[r] \in Unfinished

(* The Runs that nothing executes any more before the next start. *)
Stranded == {r \in Runs : run[r] \in Unfinished /\ exec[r] \in {"none", "settled"}}

StrandedInv == up => IsFiniteSet(Stranded) /\ Cardinality(Stranded) <= storeFaults

RunsInv == ExecInv /\ StoredInv /\ BusyInv /\ ResultsAreEvidence

AgentInv ==
  /\ Shape /\ QueueInv
  /\ RunsInv
  /\ HandlerInv /\ CancelWaits
  /\ DownInv /\ StrandedInv

LEMMA InitAgent == AgentInit => AgentInv
<1> SUFFICES ASSUME AgentInit PROVE AgentInv
  OBVIOUS
<1> USE DEF AgentInit
<1>1. Shape /\ QueueInv
  BY EmptyQueue DEF Shape, QueueInv, RunStatus, Idle, NoChild
<1>2. RunsInv
  BY AgentNames DEF RunsInv, ExecInv, StoredInv, BusyInv, ResultsAreEvidence, NoChild, Finished
<1>3. HandlerInv /\ CancelWaits /\ DownInv
  BY DEF HandlerInv, Holds, CancelWaits, Idle, DownInv
<1>4. StrandedInv
  <2>1. Stranded = {}
    BY DEF Stranded, Unfinished
  <2> QED
    BY <2>1, FS_EmptySet DEF StrandedInv
<1> QED
  BY <1>1, <1>2, <1>3, <1>4 DEF AgentInv

-----------------------------------------------------------------------------
(* Steps of the queue *)

LEMMA HeadOfQueue ==
  ASSUME Shape, QueueInv, queue # <<>>
  PROVE  /\ Queue(Tail(queue))
         /\ \A x \in Members(Tail(queue)) : x \in Members(queue) /\ x.by # Caller
         /\ Head(queue).op \in HandlerOps =>
              Caller \in Handlers /\ pc[Caller].op = Head(queue).op /\ pc[Caller].step = "queued"
         /\ Head(queue).op \notin HandlerOps => Head(queue).op \in RunOps
         /\ Head(queue).op \in RunOps =>
              /\ Caller \in Runs
              /\ exec[Caller] = (IF Head(queue).op = "running" THEN "starting" ELSE "closing")
<1>1. Queue(queue) /\ queue # <<>>
  BY DEF Shape
<1>2. /\ Head(queue) \in Members(queue) /\ Head(queue) \in Mutation
      /\ Queue(Tail(queue))
      /\ \A x \in Members(Tail(queue)) : x \in Members(queue) /\ x.by # Caller
  BY <1>1, TailOfQueue DEF Caller
<1>3. Belongs(Head(queue))
  BY <1>2 DEF QueueInv
<1> QED
  BY <1>2, <1>3 DEF Caller, Belongs, Mutation, HandlerOps, RunOps, Finished

(* Members are handlers that wait in the queue or Runs that do. *)
LEMMA MembersWait ==
  ASSUME Shape, QueueInv, NEW x \in Members(queue)
  PROVE  /\ x \in Mutation
         /\ x.op \in RunOps => x.by \in Runs
         /\ x.op \notin RunOps => x.op \in HandlerOps /\ x.by \in Handlers
         /\ x.by \in Handlers => pc[x.by].step = "queued" /\ x.op \notin RunOps
         /\ x.by \in Runs => x.op \in RunOps /\ exec[x.by] \in {"starting", "closing"}
<1>1. x \in Mutation
  BY DEF Shape, Queue, Members
<1> QED
  BY <1>1, AgentNames DEF QueueInv, Belongs, Mutation, HandlerOps, RunOps, Finished

LEMMA RequestFacts ==
  ASSUME Shape, QueueInv, NEW h \in Handlers, pc[h].step # "queued",
         NEW op \in HandlerOps, NEW held, Request(h, op, held), exec' = exec
  PROVE  /\ Queue(queue')
         /\ QueueInv'
         /\ pc' = [pc EXCEPT ![h] = [op |-> op, step |-> "queued", held |-> held]]
<1> DEFINE m == [op |-> op, by |-> h]
<1>1. m \in Mutation /\ m.op \notin RunOps
  BY DEF Mutation, HandlerOps, RunOps, Finished
<1>2. \A x \in Members(queue) : x.by # h
  BY MembersWait
<1>3. Queue(queue') /\ Members(queue') = Members(queue) \cup {m}
  BY <1>1, <1>2, AppendToQueue DEF Shape, Request
<1>4. pc' = [pc EXCEPT ![h] = [op |-> op, step |-> "queued", held |-> held]]
  BY DEF Request, Waiting
<1>5. pc \in [Handlers -> [op : HandlerOps \cup {"none"},
                          step : {"idle", "making", "queued", "writing", "settling",
                                  "awaiting", "archiving"},
                          held : Runs \cup {None} \cup Nat]]
  BY DEF Shape
<1>6. ASSUME NEW x \in Members(queue')
      PROVE  Belongs(x)'
  <2>1. CASE x \in Members(queue)
    BY <1>2, <1>4, <1>5, <2>1, MembersWait DEF QueueInv, Belongs
  <2>2. CASE x = m
    BY <1>1, <1>4, <1>5, <2>2 DEF Belongs
  <2> QED
    BY <1>3, <1>6, <2>1, <2>2
<1> QED
  BY <1>3, <1>4, <1>6 DEF QueueInv

(* The mutation of a handler is applied or fails, and the handler goes on. *)
LEMMA CallerGoesOn ==
  ASSUME Shape, QueueInv, queue # <<>>, Head(queue).op \in HandlerOps,
         queue' = Tail(queue), exec' = exec, NEW state, pc' = [pc EXCEPT ![Caller] = state]
  PROVE  Queue(queue') /\ QueueInv'
<1>1. ASSUME NEW x \in Members(queue')
      PROVE  Belongs(x)'
  BY HeadOfQueue, MembersWait DEF QueueInv, Belongs, Shape
<1> QED
  BY <1>1, HeadOfQueue DEF QueueInv

(* The mutation of an execution is applied or fails, and the execution goes on   *)
(* to its last mutation.                                                         *)
LEMMA ClosingFacts ==
  ASSUME Shape, QueueInv, queue # <<>>, Head(queue).op \in RunOps,
         NEW ending \in Finished, Close(Caller, ending), pc' = pc
  PROVE  Queue(queue') /\ QueueInv'
<1> DEFINE m == [op |-> ending, by |-> Caller]
<1>1. Caller \in Runs /\ m \in Mutation /\ m.op \in RunOps /\ m.op # "running"
  BY HeadOfQueue DEF Mutation, RunOps, Finished
<1>2. Queue(queue') /\ Members(queue') = Members(Tail(queue)) \cup {m}
  BY <1>1, HeadOfQueue, AppendToQueue DEF Close
<1>3. exec' = [exec EXCEPT ![Caller] = "closing"]
  BY DEF Close
<1>4. exec \in [Runs -> {"none", "starting", "runtime", "closing", "settled"}]
  BY DEF Shape
<1>5. ASSUME NEW x \in Members(queue')
      PROVE  Belongs(x)'
  <2>1. CASE x \in Members(Tail(queue))
    BY <1>1, <1>3, <1>4, <2>1, HeadOfQueue, MembersWait DEF QueueInv, Belongs
  <2>2. CASE x = m
    BY <1>1, <1>3, <1>4, <2>2 DEF Belongs
  <2> QED
    BY <1>2, <1>5, <2>1, <2>2
<1> QED
  BY <1>2, <1>5 DEF QueueInv

(* Handlers that leave cancelExecution together: who stops joins the queue. *)
LEMMA LeaveFacts ==
  ASSUME Shape, NEW hs \in SUBSET Handlers, \A h \in hs : pc[h].step # "queued",
         NEW waiting, Queue(waiting), LeaveCancel(hs, waiting),
         \A x \in Members(waiting) :
           IF x.op \in RunOps
           THEN x.by \in Runs /\ exec'[x.by] = (IF x.op = "running" THEN "starting" ELSE "closing")
           ELSE x.by \in Handlers /\ pc[x.by].op = x.op /\ pc[x.by].step = "queued"
  PROVE  /\ Queue(queue') /\ QueueInv'
         /\ pc' = [h \in Handlers |-> IF h \in hs THEN AfterCancel(pc[h]) ELSE pc[h]]
<1> DEFINE stopping == {h \in hs : pc[h].op = "stop"}
<1>1. pc' = [h \in Handlers |-> IF h \in hs THEN AfterCancel(pc[h]) ELSE pc[h]]
  BY DEF LeaveCancel
<1>2. PICK order \in SetToSeqs(stopping) :
        queue' = waiting \o [i \in DOMAIN order |-> [op |-> "stop", by |-> order[i]]]
  BY DEF LeaveCancel
<1>3. stopping \in SUBSET Handlers /\ \A x \in Members(waiting) : x.by \notin stopping
  BY AgentNames
<1> HIDE DEF stopping
<1>4. Queue(queue') /\ Members(queue') \subseteq Members(waiting) \cup Stops(stopping)
  BY <1>2, <1>3, StopsJoinQueue
<1>5. ASSUME NEW x \in Members(waiting)
      PROVE  Belongs(x)'
  BY <1>1, <1>5 DEF Belongs
<1>6. ASSUME NEW h \in stopping
      PROVE  Belongs([op |-> "stop", by |-> h])'
  <2>1. pc'[h].op = "stop" /\ pc'[h].step = "queued"
    BY <1>1, <1>6 DEF stopping, AfterCancel, Waiting
  <2> QED
    BY <2>1 DEF Belongs, RunOps, Finished
<1>7. \A x \in Members(queue') : Belongs(x)'
  BY <1>4, <1>5, <1>6 DEF Stops
<1> QED
  BY <1>1, <1>4, <1>7 DEF QueueInv

(* The promise of an execution settles: its mutation is the head of the queue. *)
LEMMA SettleFacts ==
  ASSUME Shape, QueueInv, queue # <<>>, Head(queue).op \in RunOps, Settle(Caller)
  PROVE  /\ Queue(queue') /\ QueueInv'
         /\ exec' = [exec EXCEPT ![Caller] = "settled"]
         /\ execution' \in {execution, None}
         /\ pc' = [h \in Handlers |-> IF pc[h].step = "awaiting" /\ pc[h].held = Caller
                                     THEN AfterCancel(pc[h]) ELSE pc[h]]
<1> DEFINE awaiting == {h \in Handlers : pc[h].step = "awaiting" /\ pc[h].held = Caller}
           waiting == Tail(queue)
<1>1. /\ exec' = [exec EXCEPT ![Caller] = "settled"]
      /\ execution' \in {execution, None}
  BY DEF Settle
<1>2. Queue(waiting)
  BY HeadOfQueue
<1>3. ASSUME NEW x \in Members(waiting)
      PROVE  IF x.op \in RunOps
             THEN x.by \in Runs /\ exec'[x.by] = (IF x.op = "running" THEN "starting" ELSE "closing")
             ELSE x.by \in Handlers /\ pc[x.by].op = x.op /\ pc[x.by].step = "queued"
  BY <1>1, <1>3, HeadOfQueue, MembersWait DEF QueueInv, Belongs, Shape
<1>4. CASE awaiting = {}
  <2>1. queue' = waiting /\ pc' = pc
    BY <1>4 DEF Settle
  <2>2. QueueInv'
    BY <1>3, <2>1 DEF QueueInv, Belongs
  <2>3. pc = [h \in Handlers |-> pc[h]]
    BY DEF Shape
  <2> QED
    BY <1>1, <1>2, <1>4, <2>1, <2>2, <2>3
<1>5. CASE awaiting # {}
  <2>1. LeaveCancel(awaiting, waiting)
    BY <1>5 DEF Settle
  <2>2. awaiting \in SUBSET Handlers /\ \A h \in awaiting : pc[h].step # "queued"
    OBVIOUS
  <2> HIDE DEF waiting
  <2>3. /\ Queue(queue') /\ QueueInv'
        /\ pc' = [h \in Handlers |-> IF h \in awaiting THEN AfterCancel(pc[h]) ELSE pc[h]]
    BY <1>2, <1>3, <2>1, <2>2, LeaveFacts
  <2> QED
    BY <1>1, <2>3
<1> QED
  BY <1>4, <1>5

-----------------------------------------------------------------------------
(* Requests *)

(* What a request does before its first mutation, between two of them, and when *)
(* it asks for a cancellation, says nothing of any Run.                         *)
RequestStep(h) ==
  \/ Create(h) \/ MakeWorkspace(h)
  \/ Update(h) \/ WriteInstructions(h)
  \/ Start(h) \/ Send(h)
  \/ Stop(h) \/ Delete(h) \/ Archive(h)

LEMMA RequestFrame ==
  ASSUME Shape, NEW h \in Handlers, RequestStep(h)
  PROVE  /\ UNCHANGED <<records, exec, execution, up, storeFaults>> /\ up
         /\ child' \in {child, [child EXCEPT !.cancelled = TRUE]}
         /\ child = NoChild => child' = NoChild
         /\ pc[h].step # "queued"
         /\ \A g \in Handlers : g # h => pc'[g] = pc[g]
  BY DEF Shape, RequestStep, Create, MakeWorkspace, Update, WriteInstructions, Start, Send, Stop,
     Delete, Archive, Cancel, CanStart, Idle, Request, NoChild, records, files

(* A handler that is not in the queue goes on without a mutation. *)
LEMMA HandlerGoesOn ==
  ASSUME Shape, QueueInv, NEW h \in Handlers, pc[h].step # "queued",
         NEW state, pc' = [pc EXCEPT ![h] = state], UNCHANGED <<queue, exec>>
  PROVE  QueueInv'
<1> SUFFICES ASSUME NEW x \in Members(queue) PROVE Belongs(x)'
  BY DEF QueueInv
<1> QED
  BY MembersWait DEF QueueInv, Belongs, Shape

LEMMA RequestKeepsQueue ==
  ASSUME Shape, QueueInv, NEW h \in Handlers, RequestStep(h)
  PROVE  Shape' /\ QueueInv'
<1> DEFINE states == [op : HandlerOps \cup {"none"},
                      step : {"idle", "making", "queued", "writing", "settling",
                              "awaiting", "archiving"},
                      held : Runs \cup {None} \cup Nat]
<1>1. pc \in [Handlers -> states] /\ agent.config \in Nat /\ execution \in Runs \cup {None}
  BY DEF Shape
<1>2. UNCHANGED <<records, exec, execution, up, storeFaults>> /\ pc[h].step # "queued"
  BY RequestFrame
<1>3. child' \in [run : Runs \cup {None}, cancelled : BOOLEAN]
  BY RequestFrame DEF Shape
<1>4. ASSUME NEW state \in states, pc' = [pc EXCEPT ![h] = state], queue' = queue
      PROVE  Shape' /\ QueueInv'
  <2>1. QueueInv'
    BY <1>2, <1>4, HandlerGoesOn
  <2>2. pc' \in [Handlers -> states]
    BY <1>1, <1>4
  <2> QED
    BY <1>2, <1>3, <1>4, <2>1, <2>2 DEF Shape, records
<1>5. ASSUME NEW op \in HandlerOps, NEW held \in Runs \cup {None} \cup Nat, Request(h, op, held)
      PROVE  Shape' /\ QueueInv'
  <2>1. /\ Queue(queue') /\ QueueInv'
        /\ pc' = [pc EXCEPT ![h] = [op |-> op, step |-> "queued", held |-> held]]
    BY <1>2, <1>5, RequestFacts
  <2>2. pc' \in [Handlers -> states]
    BY <1>1, <2>1
  <2> QED
    BY <1>2, <1>3, <2>1, <2>2 DEF Shape, records
<1>6. [op |-> "create", step |-> "making", held |-> None] \in states /\ Idle \in states
  BY DEF HandlerOps, Idle
<1>7. CASE Create(h)
  BY <1>4, <1>6, <1>7 DEF Create
<1>8. CASE MakeWorkspace(h)
  BY <1>5, <1>8 DEF MakeWorkspace, HandlerOps
<1>9. CASE Update(h)
  BY <1>5, <1>9 DEF Update, HandlerOps
<1>10. CASE WriteInstructions(h)
  BY <1>4, <1>6, <1>10 DEF WriteInstructions
<1>11. CASE Start(h)
  BY <1>5, <1>11 DEF Start, HandlerOps
<1>12. CASE Send(h)
  BY <1>5, <1>12 DEF Send, HandlerOps
<1>13. ASSUME NEW op \in {"stop", "delete"}, Cancel(h, op)
       PROVE  Shape' /\ QueueInv'
  <2>1. /\ [op |-> op, step |-> "settling", held |-> None] \in states
        /\ [op |-> op, step |-> "awaiting", held |-> execution] \in states
        /\ [op |-> op, step |-> "archiving", held |-> None] \in states
    BY <1>1 DEF HandlerOps
  <2>2. \/ \E state \in states : pc' = [pc EXCEPT ![h] = state] /\ queue' = queue
        \/ Request(h, op, None)
    BY <1>13, <2>1 DEF Cancel
  <2> QED
    BY <1>4, <1>5, <2>2 DEF HandlerOps
<1>14. CASE Archive(h)
  BY <1>4, <1>5, <1>6, <1>14 DEF Archive, HandlerOps
<1> QED
  BY <1>7, <1>8, <1>9, <1>10, <1>11, <1>12, <1>13, <1>14 DEF RequestStep, Stop, Delete

(* What a step has to leave as it is for a handler that does not take part. *)
LEMMA HoldsStays ==
  ASSUME Shape, NEW h \in Handlers, Holds(h), pc'[h] = pc[h],
         \A r \in Runs : run[r] # "none" => run'[r] # "none",
         pc[h].op = "send" => run'[pc[h].held] = "none",
         \A g \in Handlers : g # h /\ pc'[g].op = "send" /\ pc[h].op = "send"
                              => pc'[g].held # pc[h].held
  PROVE  Holds(h)'
  BY DEF Holds, Shape

LEMMA RequestKeepsHandlers ==
  ASSUME Shape, ExecInv, HandlerInv, CancelWaits, NEW h \in Handlers, RequestStep(h)
  PROVE  HandlerInv' /\ CancelWaits'
<1>1. /\ run' = run /\ \A g \in Handlers : g # h => pc'[g] = pc[g]
  BY RequestFrame DEF records
<1>2. /\ pc \in [Handlers -> [op : HandlerOps \cup {"none"},
                             step : {"idle", "making", "queued", "writing", "settling",
                                     "awaiting", "archiving"},
                             held : Runs \cup {None} \cup Nat]]
      /\ execution \in Runs \cup {None}
  BY DEF Shape
<1>3. CASE Send(h)
  <2>1. PICK r \in Runs : /\ run[r] = "none" /\ \A g \in Handlers : pc[g].held # r
                          /\ pc' = [pc EXCEPT ![h] = Waiting("send", r)]
    BY <1>3 DEF Send, Request
  <2>2. pc'[h] = [op |-> "send", step |-> "queued", held |-> r]
    BY <1>2, <2>1 DEF Waiting
  <2>3. Holds(h)'
    BY <1>1, <2>1, <2>2 DEF Holds
  <2>4. ASSUME NEW g \in Handlers, g # h
        PROVE  Holds(g)'
    <3>1. Holds(g)
      BY DEF HandlerInv
    <3>2. pc[g].held # r
      BY <2>1
    <3> QED
      BY <1>1, <2>2, <2>4, <3>1, <3>2, HoldsStays DEF Holds
  <2>5. CancelWaits'
    BY <1>1, <2>2 DEF CancelWaits
  <2> QED
    BY <2>3, <2>4, <2>5 DEF HandlerInv
<1>4. CASE ~Send(h)
  <2>1. /\ pc'[h].op # "send"
        /\ pc'[h].step \in {"settling", "awaiting", "archiving"} => pc'[h].op \in {"stop", "delete"}
        /\ pc'[h].step = "awaiting" => pc'[h].held \in Runs
        /\ pc'[h].step = "settling" => pc'[h].held = None
        /\ pc'[h].op \in {"stop", "delete"} =>
             pc'[h].held = None \/ (pc'[h].step = "awaiting" /\ pc'[h].held = execution)
    BY <1>2, <1>4 DEF RequestStep, Create, MakeWorkspace, Update, WriteInstructions, Start, Stop,
       Delete, Archive, Cancel, Request, Waiting, Idle
  <2>2. Holds(h)'
    BY <1>1, <2>1, AgentNames DEF Holds, ExecInv
  <2>3. ASSUME NEW g \in Handlers, g # h
        PROVE  Holds(g)'
    <3>1. Holds(g)
      BY DEF HandlerInv
    <3> QED
      BY <1>1, <2>1, <2>3, <3>1, HoldsStays DEF Holds
  <2>4. CancelWaits'
    BY <1>1, <2>1, AgentNames DEF CancelWaits
  <2> QED
    BY <2>2, <2>3, <2>4 DEF HandlerInv
<1> QED
  BY <1>3, <1>4

LEMMA RequestKeepsInv ==
  ASSUME AgentInv, NEW h \in Handlers, RequestStep(h)
  PROVE  AgentInv'
<1> USE DEF AgentInv
<1>1. Shape' /\ QueueInv'
  BY RequestKeepsQueue
<1>2. HandlerInv' /\ CancelWaits'
  BY RequestKeepsHandlers DEF RunsInv
<1>3. /\ UNCHANGED <<agent, run, messages, exec, execution, up, storeFaults>> /\ up
      /\ child'.run = child.run /\ (child = NoChild => child' = NoChild)
  BY RequestFrame DEF records, Shape
<1>4. RunsInv'
  BY <1>3 DEF RunsInv, ExecInv, StoredInv, Stored, BusyInv, ResultsAreEvidence
<1>5. DownInv' /\ StrandedInv'
  BY <1>3 DEF DownInv, StrandedInv, Stranded
<1> QED
  BY <1>1, <1>2, <1>4, <1>5

-----------------------------------------------------------------------------
(* Mutations of requests *)

(* A request's mutation that is refused, fails, or says nothing of the Runs. *)
LEMMA AnswerKeepsInv ==
  ASSUME AgentInv, up, queue # <<>>, Head(queue).op \in HandlerOps,
         queue' = Tail(queue),
         NEW state, pc' = [pc EXCEPT ![Caller] = state],
         state = Idle \/ (state.op = "update" /\ state.step = "writing" /\ state.held \in Nat
                         /\ state = [op |-> state.op, step |-> state.step, held |-> state.held]),
         UNCHANGED <<run, messages, up, exec, child, execution>>,
         storeFaults' \in {storeFaults, storeFaults + 1},
         agent'.thread = agent.thread,
         agent' \in [status : {"none", "ready", "stopped", "error"} \cup {agent.status},
                     thread : Runs \cup {None}, config : Nat],
         Stored => agent'.status \notin {"none", "gone"}
  PROVE  AgentInv'
<1> USE DEF AgentInv
<1>1. PICK c \in Handlers : c = Caller
  BY HeadOfQueue
<1>2. pc \in [Handlers -> [op : HandlerOps \cup {"none"},
                          step : {"idle", "making", "queued", "writing", "settling",
                                  "awaiting", "archiving"},
                          held : Runs \cup {None} \cup Nat]]
  BY DEF Shape
<1>3. Queue(queue') /\ QueueInv'
  BY CallerGoesOn
<1>4. pc'[c] = state /\ \A g \in Handlers : g # c => pc'[g] = pc[g]
  BY <1>1, <1>2
<1>5. state \in [op : HandlerOps \cup {"none"},
                step : {"idle", "making", "queued", "writing", "settling",
                        "awaiting", "archiving"},
                held : Runs \cup {None} \cup Nat]
  BY DEF Idle, HandlerOps
<1>6. pc' \in [Handlers -> [op : HandlerOps \cup {"none"},
                           step : {"idle", "making", "queued", "writing", "settling",
                                   "awaiting", "archiving"},
                           held : Runs \cup {None} \cup Nat]]
  BY <1>1, <1>2, <1>5
<1>7. Shape'
  BY <1>3, <1>6 DEF Shape
<1>8. state.op \in {"none", "update"} /\ state.step \in {"idle", "writing"}
  BY DEF Idle
<1>9. HandlerInv' /\ CancelWaits'
  <2>1. Holds(c)'
    BY <1>4, <1>8 DEF Holds
  <2>2. ASSUME NEW g \in Handlers, g # c
        PROVE  Holds(g)'
    <3>1. Holds(g)
      BY DEF HandlerInv
    <3> QED
      BY <1>4, <1>8, <2>2, <3>1, HoldsStays DEF Holds
  <2>3. CancelWaits'
    BY <1>4, <1>8 DEF CancelWaits
  <2> QED
    BY <2>1, <2>2, <2>3 DEF HandlerInv
<1>10. RunsInv'
  <2>1. agent'.status = "busy" => agent.status = "busy"
    OBVIOUS
  <2>2. agent'.status \in {"none", "gone"} => agent.status \in {"none", "gone"}
    BY DEF Stored
  <2> QED
    BY <2>1, <2>2 DEF RunsInv, ExecInv, StoredInv, Stored, BusyInv, ResultsAreEvidence
<1>11. DownInv' /\ StrandedInv'
  <2>1. Stranded' = Stranded
    BY DEF Stranded
  <2>2. IsFiniteSet(Stranded) /\ Cardinality(Stranded) <= storeFaults
        /\ Cardinality(Stranded) \in Nat /\ storeFaults \in Nat
    BY FS_CardinalityType DEF StrandedInv, Shape
  <2> QED
    BY <2>1, <2>2 DEF DownInv, StrandedInv
<1> QED
  BY <1>3, <1>7, <1>9, <1>10, <1>11

LEMMA ApplyRequestKeepsInv ==
  ASSUME AgentInv, ApplyCreate \/ ApplyUpdate \/ ApplyStart \/ ApplyStop
  PROVE  AgentInv'
<1> USE DEF Turn, HandlerOps
<1>1. agent \in [status : {"none", "ready", "busy", "stopped", "error", "gone"},
                thread : Runs \cup {None}, config : Nat]
  BY DEF AgentInv, Shape
<1>2. CASE ApplyCreate
  BY <1>1, <1>2, AnswerKeepsInv DEF ApplyCreate, Answer
<1>3. CASE ApplyUpdate
  <2>1. CASE Stored /\ agent.status # "busy"
    <3> DEFINE state == [op |-> "update", step |-> "writing", held |-> agent.config + 1]
    <3>1. /\ pc' = [pc EXCEPT ![Caller] = state]
          /\ queue' = Tail(queue) /\ up /\ queue # <<>> /\ Head(queue).op \in HandlerOps
          /\ agent' = [agent EXCEPT !.config = @ + 1]
          /\ UNCHANGED <<run, messages, up, exec, child, execution, storeFaults>>
      BY <1>3, <2>1 DEF ApplyUpdate
    <3>2. /\ agent'.thread = agent.thread /\ agent'.status = agent.status
          /\ agent' \in [status : {agent.status}, thread : Runs \cup {None}, config : Nat]
          /\ agent.config + 1 \in Nat
      BY <1>1, <3>1
    <3> QED
      BY <2>1, <3>1, <3>2, AnswerKeepsInv DEF Stored
  <2>2. CASE ~(Stored /\ agent.status # "busy")
    BY <1>1, <1>3, <2>2, AnswerKeepsInv DEF ApplyUpdate, Answer, Stored
  <2> QED
    BY <2>1, <2>2
<1>4. CASE ApplyStart
  BY <1>1, <1>4, AnswerKeepsInv DEF ApplyStart, Answer, Stored
<1>5. CASE ApplyStop
  BY <1>1, <1>5, AnswerKeepsInv DEF ApplyStop, Answer, Stored
<1> QED
  BY <1>2, <1>3, <1>4, <1>5

-----------------------------------------------------------------------------
(* Handlers and Runs *)

(* What a step that is not a request's own may do with a handler. *)
HandlerMove(h) ==
  \/ pc'[h] = pc[h]
  \/ pc'[h] = Idle
  \/ /\ pc[h].step \in {"settling", "awaiting"}
     /\ pc'[h] = AfterCancel(pc[h])
     /\ pc[h].held \in Runs => run'[pc[h].held] \notin Unfinished
  \/ /\ pc[h].step = "settling" /\ execution \in Runs
     /\ pc'[h] = [pc[h] EXCEPT !.step = "awaiting", !.held = execution]

LEMMA SendersStay ==
  ASSUME Shape, NEW h \in Handlers, Holds(h), HandlerMove(h), pc'[h].op = "send"
  PROVE  pc'[h] = pc[h]
<1>1. pc[h] = [op |-> pc[h].op, step |-> pc[h].step, held |-> pc[h].held]
  BY DEF Shape
<1>2. CASE pc'[h] = Idle
  BY <1>2 DEF Idle
<1>3. CASE pc[h].step \in {"settling", "awaiting"} /\ pc'[h] = AfterCancel(pc[h])
  BY <1>1, <1>3 DEF Holds, AfterCancel, Waiting
<1>4. CASE pc[h].step = "settling"
           /\ pc'[h] = [pc[h] EXCEPT !.step = "awaiting", !.held = execution]
  BY <1>1, <1>4 DEF Holds
<1> QED
  BY <1>2, <1>3, <1>4 DEF HandlerMove

LEMMA HandlersFollowRuns ==
  ASSUME Shape, ExecInv, HandlerInv, CancelWaits, pc' = [h \in Handlers |-> pc'[h]],
         \A h \in Handlers : HandlerMove(h),
         \A r \in Runs : run[r] # "none" => run'[r] # "none",
         \A r \in Runs : run[r] \notin Unfinished \cup {"none"} => run'[r] \notin Unfinished,
         \A h \in Handlers : pc'[h].op = "send" => run'[pc[h].held] = "none"
  PROVE  /\ HandlerInv' /\ CancelWaits'
         /\ pc' \in [Handlers -> [op : HandlerOps \cup {"none"},
                                 step : {"idle", "making", "queued", "writing", "settling",
                                         "awaiting", "archiving"},
                                 held : Runs \cup {None} \cup Nat]]
<1> DEFINE states == [op : HandlerOps \cup {"none"},
                      step : {"idle", "making", "queued", "writing", "settling",
                              "awaiting", "archiving"},
                      held : Runs \cup {None} \cup Nat]
<1>1. pc \in [Handlers -> states]
  BY DEF Shape
<1>2. ASSUME NEW h \in Handlers
      PROVE  /\ pc'[h] \in states
             /\ pc'[h].op = "send" => pc'[h] = pc[h]
             /\ pc'[h] = pc[h] \/ pc'[h] = Idle \/
                  /\ pc'[h].op \in {"stop", "delete"} /\ pc'[h].op = pc[h].op
                  /\ \/ /\ pc'[h].step \in {"queued", "archiving"} /\ pc'[h].held = pc[h].held
                        /\ pc[h].held \in Runs => run'[pc[h].held] \notin Unfinished
                     \/ /\ pc'[h].step = "awaiting" /\ pc'[h].held = execution
                        /\ execution \in Runs
  <2>1. pc[h] \in states /\ Holds(h)
    BY <1>1 DEF HandlerInv
  <2>2. CASE pc'[h] = pc[h] \/ pc'[h] = Idle
    BY <2>1, <2>2 DEF Idle, HandlerOps
  <2>3. CASE /\ pc[h].step \in {"settling", "awaiting"} /\ pc'[h] = AfterCancel(pc[h])
             /\ pc[h].held \in Runs => run'[pc[h].held] \notin Unfinished
    BY <2>1, <2>3 DEF Holds, AfterCancel, Waiting, HandlerOps
  <2>4. CASE /\ pc[h].step = "settling" /\ execution \in Runs
             /\ pc'[h] = [pc[h] EXCEPT !.step = "awaiting", !.held = execution]
    BY <2>1, <2>4 DEF Holds
  <2> QED
    BY <2>2, <2>3, <2>4 DEF HandlerMove
<1>3. ASSUME NEW h \in Handlers
      PROVE  Holds(h)'
  <2>1. Holds(h) /\ pc[h] \in states
    BY <1>1 DEF HandlerInv
  <2>2. CASE pc'[h] = pc[h]
    <3>1. ASSUME NEW g \in Handlers, g # h, pc'[g].op = "send", pc[h].op = "send"
          PROVE  pc'[g].held # pc[h].held
      BY <1>2, <2>1, <3>1 DEF Holds
    <3> QED
      BY <2>1, <2>2, <3>1, HoldsStays
  <2>3. CASE pc'[h] # pc[h]
    BY <1>2, <2>1, <2>3 DEF Holds, Idle, ExecInv
  <2> QED
    BY <2>2, <2>3
<1>4. CancelWaits'
  <2> SUFFICES ASSUME NEW h \in Handlers, pc'[h].op \in {"stop", "delete"},
                      pc'[h].step \in {"queued", "archiving"}, pc'[h].held \in Runs
               PROVE  run'[pc'[h].held] \notin Unfinished
    BY DEF CancelWaits
  <2>1. CASE pc'[h] = pc[h]
    BY <2>1 DEF CancelWaits, HandlerInv, Holds
  <2>2. CASE pc'[h] # pc[h]
    BY <1>2, <2>2 DEF Idle
  <2> QED
    BY <2>1, <2>2
<1> QED
  BY <1>2, <1>3, <1>4 DEF HandlerInv

(* A message is admitted, or refused. *)
LEMMA SendKeepsInv ==
  ASSUME AgentInv, ApplySend
  PROVE  AgentInv'
<1> USE DEF AgentInv
<1>1. PICK c \in Handlers : c = Caller /\ pc[c].op = "send" /\ pc[c].step = "queued"
  BY HeadOfQueue DEF ApplySend, Turn, HandlerOps
<1>2. /\ up /\ queue # <<>> /\ Head(queue).op = "send"
      /\ UNCHANGED <<messages, workspace, agentsMd, up, child, cancelling, storeFaults>>
  BY DEF ApplySend, Turn, files
<1>3. /\ agent \in [status : {"none", "ready", "busy", "stopped", "error", "gone"},
                   thread : Runs \cup {None}, config : Nat]
      /\ run \in [Runs -> RunStatus]
      /\ exec \in [Runs -> {"none", "starting", "runtime", "closing", "settled"}]
  BY DEF Shape
<1>4. CASE agent.status \notin {"ready", "error"}
  <2>1. /\ UNCHANGED <<agent, run, exec, execution>>
        /\ queue' = Tail(queue) /\ pc' = [pc EXCEPT ![Caller] = Idle]
    BY <1>4 DEF ApplySend, Answer
  <2> QED
    BY <1>2, <1>3, <2>1, AnswerKeepsInv DEF HandlerOps, Stored
<1>5. CASE agent.status \in {"ready", "error"}
  <2>1. PICK r \in Runs : r = pc[c].held /\ run[r] = "none" /\ exec[r] = "none"
    BY <1>1 DEF HandlerInv, Holds, RunsInv, ExecInv
  <2> DEFINE m == [op |-> "running", by |-> r]
  <2>2. /\ agent' = [agent EXCEPT !.status = "busy"]
        /\ run' = [run EXCEPT ![r] = "queued"]
        /\ exec' = [exec EXCEPT ![r] = "starting"]
        /\ execution' = r
        /\ queue' = Append(Tail(queue), m)
        /\ pc' = [pc EXCEPT ![c] = Idle]
    BY <1>1, <1>5, <2>1 DEF ApplySend
  <2>3. m \in Mutation /\ m.op = "running" /\ m.op \in RunOps /\ m.by = r
    BY <2>1 DEF Mutation, RunOps
  <2>4. \A x \in Members(Tail(queue)) : x.by # r /\ x.by # c /\ x \in Members(queue)
    BY <1>1, <1>2, <2>1, HeadOfQueue, MembersWait
  <2>5. Queue(queue') /\ Members(queue') = Members(Tail(queue)) \cup {m}
    BY <1>2, <2>2, <2>3, <2>4, HeadOfQueue, AppendToQueue
  <2>6. QueueInv'
    <3>1. ASSUME NEW x \in Members(Tail(queue))
          PROVE  Belongs(x)'
      BY <1>1, <2>1, <2>2, <2>4, <3>1, MembersWait DEF QueueInv, Belongs, Shape
    <3>2. Belongs(m)'
      BY <1>3, <2>1, <2>2, <2>3 DEF Belongs
    <3> QED
      BY <2>5, <3>1, <3>2 DEF QueueInv
  <2>7. /\ \A q \in Runs : q # r => run'[q] = run[q] /\ exec'[q] = exec[q]
        /\ run'[r] = "queued" /\ exec'[r] = "starting"
    BY <1>3, <2>1, <2>2
  <2>8. \A h \in Handlers : HandlerMove(h) /\ (pc'[h].op = "send" => run'[pc[h].held] = "none")
    <3> SUFFICES ASSUME NEW h \in Handlers
                 PROVE  HandlerMove(h) /\ (pc'[h].op = "send" => run'[pc[h].held] = "none")
      OBVIOUS
    <3>1. CASE h = c
      BY <2>2, <3>1 DEF HandlerMove, Idle, Shape
    <3>2. CASE h # c
      <4>1. pc'[h] = pc[h]
        BY <2>2, <3>2 DEF Shape
      <4>2. pc[h].op = "send" => pc[h].held \in Runs /\ pc[h].held # r /\ run[pc[h].held] = "none"
        BY <1>1, <2>1, <3>2 DEF HandlerInv, Holds
      <4> QED
        BY <2>7, <4>1, <4>2 DEF HandlerMove
    <3> QED
      BY <3>1, <3>2
  <2>9. /\ HandlerInv' /\ CancelWaits'
        /\ pc' \in [Handlers -> [op : HandlerOps \cup {"none"},
                                step : {"idle", "making", "queued", "writing", "settling",
                                        "awaiting", "archiving"},
                                held : Runs \cup {None} \cup Nat]]
    <3>1. pc' = [h \in Handlers |-> pc'[h]]
      BY <2>2 DEF Shape
    <3>2. \A q \in Runs : run[q] # "none" => run'[q] # "none"
      BY <2>1, <2>7
    <3>3. \A q \in Runs : run[q] \notin Unfinished \cup {"none"} => run'[q] \notin Unfinished
      BY <2>1, <2>7
    <3> QED
      BY <2>8, <3>1, <3>2, <3>3, HandlersFollowRuns DEF RunsInv
  <2>10. Shape'
    BY <1>2, <1>3, <2>1, <2>2, <2>5, <2>9 DEF Shape, RunStatus, Unfinished
  <2>11. RunsInv'
    <3>1. ExecInv'
      BY <1>2, <2>1, <2>2, <2>7 DEF RunsInv, ExecInv, Finished
    <3>2. StoredInv' /\ BusyInv'
      BY <1>3, <1>5, <2>1, <2>2, <2>7 DEF StoredInv, Stored, BusyInv, Unfinished
    <3>3. ResultsAreEvidence'
      BY <1>2, <1>3, <2>1, <2>2, <2>7 DEF RunsInv, ResultsAreEvidence
    <3> QED
      BY <3>1, <3>2, <3>3 DEF RunsInv
  <2>12. StrandedInv' /\ DownInv'
    <3>1. Stranded' = Stranded
      BY <2>1, <2>7 DEF Stranded, Unfinished
    <3> QED
      BY <1>2, <3>1 DEF StrandedInv, DownInv
  <2> QED
    BY <2>5, <2>6, <2>9, <2>10, <2>11, <2>12
<1> QED
  BY <1>4, <1>5

(* The Agent goes, and its Runs with it. *)
LEMMA DeleteKeepsInv ==
  ASSUME AgentInv, ApplyDelete
  PROVE  AgentInv'
<1> USE DEF AgentInv
<1>1. PICK c \in Handlers : c = Caller
  BY HeadOfQueue DEF ApplyDelete, Turn, HandlerOps
<1>2. /\ up /\ queue # <<>> /\ Head(queue).op \in HandlerOps
      /\ queue' = Tail(queue) /\ pc' = [pc EXCEPT ![c] = Idle]
      /\ agent' = [agent EXCEPT !.status = "gone", !.thread = None]
      /\ run' = [r \in Runs |-> IF run[r] = "none" THEN "none" ELSE "removed"]
      /\ messages' = {}
      /\ UNCHANGED <<up, exec, child, execution, storeFaults>>
  BY <1>1 DEF ApplyDelete, Turn, Answer, HandlerOps
<1>3. Queue(queue') /\ QueueInv'
  BY <1>1, <1>2, CallerGoesOn
<1>4. \A r \in Runs : run'[r] = IF run[r] = "none" THEN "none" ELSE "removed"
  BY <1>2
<1>5. \A h \in Handlers : HandlerMove(h) /\ (pc'[h].op = "send" => run'[pc[h].held] = "none")
  BY <1>2, <1>4 DEF HandlerMove, HandlerInv, Holds, Idle, Shape
<1>6. /\ HandlerInv' /\ CancelWaits'
      /\ pc' \in [Handlers -> [op : HandlerOps \cup {"none"},
                              step : {"idle", "making", "queued", "writing", "settling",
                                      "awaiting", "archiving"},
                              held : Runs \cup {None} \cup Nat]]
  <2>1. pc' = [h \in Handlers |-> pc'[h]]
    BY <1>2 DEF Shape
  <2> QED
    BY <1>4, <1>5, <2>1, HandlersFollowRuns DEF RunsInv, Unfinished
<1>7. Shape'
  <2>1. agent' \in [status : {"gone"}, thread : {None}, config : Nat]
    BY <1>2 DEF Shape
  <2>2. run' \in [Runs -> RunStatus]
    BY <1>2 DEF RunStatus
  <2> QED
    BY <1>2, <1>3, <1>6, <2>1, <2>2 DEF Shape
<1>8. RunsInv'
  <2>1. agent'.status = "gone" /\ agent'.thread = None
    BY <1>2 DEF Shape
  <2> QED
    BY <1>2, <1>4, <2>1 DEF RunsInv, ExecInv, StoredInv, BusyInv, ResultsAreEvidence, Finished
<1>9. StrandedInv' /\ DownInv'
  <2>1. Stranded' = {}
    BY <1>4 DEF Stranded, Unfinished
  <2>2. IsFiniteSet({}) /\ Cardinality({}) = 0 /\ 0 <= storeFaults
    BY FS_EmptySet DEF Shape
  <2> QED
    BY <1>2, <2>1, <2>2 DEF StrandedInv, DownInv
<1> QED
  BY <1>3, <1>6, <1>7, <1>8, <1>9

-----------------------------------------------------------------------------
(* Executions *)

(* A step of the execution of one Run, before its promise settles, leaves every *)
(* handler where it is.                                                         *)
LEMMA ExecutionKeepsInv ==
  ASSUME AgentInv, up, NEW c \in Runs, exec[c] \notin {"none", "settled"},
         Queue(queue'), QueueInv', pc' = pc,
         NEW place \in {"runtime", "closing"}, exec' = [exec EXCEPT ![c] = place],
         run' \in {run, [run EXCEPT ![c] = IF @ = "removed" THEN @ ELSE "running"]},
         \/ child' = child /\ (child.run = c => exec'[c] = "runtime")
         \/ child' = [run |-> c, cancelled |-> FALSE] /\ place = "runtime"
         \/ child' = NoChild,
         UNCHANGED <<agent, messages, up, execution>>,
         storeFaults' \in {storeFaults, storeFaults + 1}
  PROVE  AgentInv'
<1> USE DEF AgentInv
<1>1. /\ agent \in [status : {"none", "ready", "busy", "stopped", "error", "gone"},
                   thread : Runs \cup {None}, config : Nat]
      /\ run \in [Runs -> RunStatus]
      /\ exec \in [Runs -> {"none", "starting", "runtime", "closing", "settled"}]
      /\ storeFaults \in Nat
  BY DEF Shape
<1>2. /\ \A q \in Runs : q # c => run'[q] = run[q] /\ exec'[q] = exec[q]
      /\ exec'[c] = place
      /\ run'[c] = run[c] \/ (run'[c] = "running" /\ run[c] # "removed")
      /\ run[c] = "removed" => run'[c] = "removed"
  BY <1>1
<1>3. run[c] # "none" /\ run[c] \notin Finished
  BY <1>1 DEF RunsInv, ExecInv
<1>4. Shape'
  <2>1. run' \in [Runs -> RunStatus]
    BY <1>1 DEF RunStatus, Unfinished
  <2>2. child' \in [run : Runs \cup {None}, cancelled : BOOLEAN]
    <3>1. child \in [run : Runs \cup {None}, cancelled : BOOLEAN]
      BY DEF Shape
    <3>2. child' = child \/ child' = [run |-> c, cancelled |-> FALSE] \/ child' = NoChild
      OBVIOUS
    <3>3. /\ [run |-> c, cancelled |-> FALSE] \in [run : Runs \cup {None}, cancelled : BOOLEAN]
          /\ NoChild \in [run : Runs \cup {None}, cancelled : BOOLEAN]
      BY DEF NoChild
    <3> QED
      BY <3>1, <3>2, <3>3
  <2> QED
    BY <1>1, <2>1, <2>2 DEF Shape
<1>5. HandlerInv' /\ CancelWaits'
  <2>1. \A h \in Handlers : HandlerMove(h) /\ (pc'[h].op = "send" => run'[pc[h].held] = "none")
    BY <1>2, <1>3 DEF HandlerMove, HandlerInv, Holds
  <2>2. pc' = [h \in Handlers |-> pc'[h]]
    BY DEF Shape
  <2>3. \A r \in Runs : run[r] # "none" => run'[r] # "none"
    BY <1>2
  <2>4. \A r \in Runs : run[r] \notin Unfinished \cup {"none"} => run'[r] \notin Unfinished
    BY <1>1, <1>2, <1>3 DEF RunStatus
  <2> QED
    BY <2>1, <2>2, <2>3, <2>4, HandlersFollowRuns DEF RunsInv
<1>6. ExecInv'
  BY <1>1, <1>2, <1>3, AgentNames DEF RunsInv, ExecInv, Finished, NoChild
<1>7. StoredInv'
  BY <1>1, <1>2, <1>3 DEF RunsInv, StoredInv, Stored
<1>8. BusyInv'
  BY <1>1, <1>2 DEF RunsInv, BusyInv, Unfinished
<1>9. ResultsAreEvidence'
  BY <1>1, <1>2, <1>3 DEF RunsInv, ResultsAreEvidence, Finished
<1>10. StrandedInv' /\ DownInv'
  <2>1. Stranded' = Stranded
    BY <1>2 DEF Stranded
  <2>2. IsFiniteSet(Stranded) /\ Cardinality(Stranded) <= storeFaults
        /\ Cardinality(Stranded) \in Nat
    BY FS_CardinalityType DEF StrandedInv
  <2> QED
    BY <1>1, <2>1, <2>2 DEF StrandedInv, DownInv
<1> QED
  BY <1>4, <1>5, <1>6, <1>7, <1>8, <1>9, <1>10 DEF RunsInv

LEMMA RunningKeepsInv ==
  ASSUME AgentInv, ApplyRunning
  PROVE  AgentInv'
<1> USE DEF AgentInv
<1>1. PICK c \in Runs : c = Caller /\ exec[c] = "starting"
  BY HeadOfQueue DEF ApplyRunning, Turn, RunOps
<1>2. /\ up /\ queue # <<>> /\ Head(queue).op \in RunOps
      /\ run' = [run EXCEPT ![c] = IF @ = "removed" THEN @ ELSE "running"]
      /\ UNCHANGED <<agent, messages, up, execution, pc, storeFaults>>
  BY <1>1 DEF ApplyRunning, Turn, RunOps
<1>3. child.run # c
  BY <1>1 DEF RunsInv, ExecInv
<1>4. CASE \E ending \in Finished : Close(c, ending) /\ child' = child
  <2>1. Queue(queue') /\ QueueInv'
    BY <1>1, <1>2, <1>4, ClosingFacts
  <2>2. exec' = [exec EXCEPT ![c] = "closing"]
    BY <1>4 DEF Close
  <2> QED
    BY <1>1, <1>2, <1>3, <1>4, <2>1, <2>2, ExecutionKeepsInv
<1>5. CASE /\ exec' = [exec EXCEPT ![c] = "runtime"]
           /\ child' = [run |-> c, cancelled |-> FALSE]
           /\ queue' = Tail(queue)
  <2>1. ASSUME NEW x \in Members(queue')
        PROVE  Belongs(x)'
    BY <1>1, <1>2, <1>5, <2>1, HeadOfQueue, MembersWait DEF QueueInv, Belongs, Shape
  <2>2. Queue(queue') /\ QueueInv'
    BY <1>2, <1>5, <2>1, HeadOfQueue DEF QueueInv
  <2> QED
    BY <1>1, <1>2, <1>5, <2>2, ExecutionKeepsInv
<1> QED
  BY <1>1, <1>4, <1>5 DEF ApplyRunning, Finished

(* A completed or stopped Run settles: whatever became of its Agent. *)
LEMMA SettlingKeepsInv ==
  ASSUME AgentInv, ApplyCompleted \/ ApplyStopped("failed") \/ ApplyStopped("cancelled")
  PROVE  AgentInv'
<1> USE DEF AgentInv
<1>1. PICK c \in Runs : c = Caller /\ exec[c] = "closing"
  BY HeadOfQueue DEF ApplyCompleted, ApplyStopped, Turn, RunOps, Finished
<1>2. /\ up /\ queue # <<>> /\ Head(queue).op \in RunOps /\ Settle(c)
      /\ UNCHANGED <<up, child, storeFaults>>
  BY <1>1 DEF ApplyCompleted, ApplyStopped, Turn, RunOps, Finished
<1>3. /\ Queue(queue') /\ QueueInv'
      /\ exec' = [exec EXCEPT ![c] = "settled"]
      /\ execution' \in {execution, None}
      /\ pc' = [h \in Handlers |-> IF pc[h].step = "awaiting" /\ pc[h].held = c
                                  THEN AfterCancel(pc[h]) ELSE pc[h]]
  BY <1>1, <1>2, SettleFacts
<1>4. /\ agent \in [status : {"none", "ready", "busy", "stopped", "error", "gone"},
                   thread : Runs \cup {None}, config : Nat]
      /\ run \in [Runs -> RunStatus]
      /\ exec \in [Runs -> {"none", "starting", "runtime", "closing", "settled"}]
  BY DEF Shape
<1>5. run[c] # "none" /\ run[c] \notin Finished /\ (~Stored => run[c] = "removed")
  BY <1>1, <1>4 DEF RunsInv, ExecInv, StoredInv
<1> DEFINE Outcome ==
      /\ agent' \in [status : {"none", "ready", "busy", "stopped", "error", "gone"},
                    thread : Runs \cup {None}, config : Nat]
      /\ agent'.status \in {"none", "gone"} <=> agent.status \in {"none", "gone"}
      /\ run' \in [Runs -> RunStatus]
      /\ \A q \in Runs : q # c => run'[q] = run[q]
      /\ run[c] = "removed" => run'[c] = "removed"
      /\ \/ /\ run'[c] = "completed" /\ agent'.status = "ready"
            /\ messages' = messages \cup {c} /\ agent'.thread = c
         \/ /\ run'[c] \in {"failed", "cancelled", "removed"}
            /\ messages' = messages /\ agent'.thread = agent.thread
            /\ run[c] # "removed" => agent'.status # "busy"
            /\ agent'.status = "busy" => agent.status = "busy"
<1>6. Outcome
  <2>1. CASE ApplyCompleted /\ Stored /\ run[c] # "removed"
    <3>1. /\ run' = [run EXCEPT ![c] = "completed"] /\ messages' = messages \cup {c}
          /\ agent' = [agent EXCEPT !.status = "ready", !.thread = c]
      BY <1>1, <2>1 DEF ApplyCompleted
    <3> QED
      BY <1>4, <2>1, <3>1 DEF Stored, RunStatus, Finished
  <2>2. CASE ApplyCompleted /\ ~(Stored /\ run[c] # "removed")
    <3>1. UNCHANGED <<agent, run, messages>> /\ run[c] = "removed"
      BY <1>1, <1>5, <2>2 DEF ApplyCompleted, records
    <3> QED
      BY <1>4, <3>1
  <2>3. ASSUME NEW ending \in {"failed", "cancelled"}, ApplyStopped(ending)
        PROVE  Outcome
    <3>1. /\ run' = [run EXCEPT ![c] = IF @ = "removed" THEN @ ELSE ending]
          /\ agent' = [agent EXCEPT !.status =
                         IF ~Stored \/ @ = "stopped" THEN @
                         ELSE IF ending = "cancelled" THEN "ready" ELSE "error"]
          /\ messages' = messages
      BY <1>1, <2>3 DEF ApplyStopped
    <3>2. /\ run' \in [Runs -> RunStatus] /\ run'[c] \in {"failed", "cancelled", "removed"}
          /\ run[c] = "removed" => run'[c] = "removed"
          /\ \A q \in Runs : q # c => run'[q] = run[q]
      BY <1>4, <3>1 DEF RunStatus, Finished
    <3>3. /\ agent' \in [status : {"none", "ready", "busy", "stopped", "error", "gone"},
                        thread : Runs \cup {None}, config : Nat]
          /\ agent'.status = (IF ~Stored \/ agent.status = "stopped" THEN agent.status
                              ELSE IF ending = "cancelled" THEN "ready" ELSE "error")
          /\ agent'.thread = agent.thread
      BY <1>4, <3>1
    <3> QED
      BY <3>1, <3>2, <3>3 DEF Stored
  <2> QED
    BY <2>1, <2>2, <2>3
<1>7. run'[c] \in {"completed", "failed", "cancelled", "removed"}
  BY <1>6
<1>8. /\ HandlerInv' /\ CancelWaits'
      /\ pc' \in [Handlers -> [op : HandlerOps \cup {"none"},
                              step : {"idle", "making", "queued", "writing", "settling",
                                      "awaiting", "archiving"},
                              held : Runs \cup {None} \cup Nat]]
  <2>1. \A h \in Handlers : HandlerMove(h)
    BY <1>3, <1>7 DEF HandlerMove, Unfinished
  <2>2. \A h \in Handlers : pc'[h].op = "send" => run'[pc[h].held] = "none"
    <3> SUFFICES ASSUME NEW h \in Handlers, pc'[h].op = "send"
                 PROVE  run'[pc[h].held] = "none"
      OBVIOUS
    <3>1. Holds(h) /\ pc'[h] \in {pc[h], AfterCancel(pc[h])}
      BY <1>3 DEF HandlerInv
    <3>2. CASE pc'[h] = pc[h]
      BY <1>5, <1>6, <3>1, <3>2 DEF Holds
    <3>3. CASE pc'[h] # pc[h]
      BY <1>3, <3>1, <3>3 DEF Holds, AfterCancel, Waiting, Shape
    <3> QED
      BY <3>2, <3>3
  <2>3. pc' = [h \in Handlers |-> pc'[h]]
    BY <1>3
  <2>4. \A r \in Runs : run[r] # "none" => run'[r] # "none"
    BY <1>6, <1>7
  <2>5. \A r \in Runs : run[r] \notin Unfinished \cup {"none"} => run'[r] \notin Unfinished
    BY <1>6, <1>7 DEF Unfinished
  <2> QED
    BY <2>1, <2>2, <2>3, <2>4, <2>5, HandlersFollowRuns DEF RunsInv
<1>9. Shape'
  BY <1>2, <1>3, <1>4, <1>6, <1>8 DEF Shape
<1>10. \A q \in Runs : q # c => exec'[q] = exec[q]
  BY <1>3, <1>4
<1>11. exec'[c] = "settled" /\ child.run # c
  BY <1>1, <1>3, <1>4 DEF RunsInv, ExecInv
<1>12. ExecInv'
  BY <1>2, <1>3, <1>5, <1>6, <1>7, <1>10, <1>11, AgentNames DEF RunsInv, ExecInv
<1>13. StoredInv'
  BY <1>5, <1>6 DEF RunsInv, StoredInv, Stored
<1>14. BusyInv'
  BY <1>5, <1>6 DEF RunsInv, BusyInv, Unfinished
<1>15. ResultsAreEvidence'
  BY <1>5, <1>6 DEF RunsInv, ResultsAreEvidence, Finished
<1>16. StrandedInv' /\ DownInv'
  <2>1. Stranded' = Stranded
    BY <1>1, <1>6, <1>7, <1>10 DEF Stranded, Unfinished
  <2> QED
    BY <1>2, <2>1 DEF StrandedInv, DownInv
<1> QED
  BY <1>3, <1>8, <1>9, <1>12, <1>13, <1>14, <1>15, <1>16 DEF RunsInv

(* A process ends.  Who stopped it goes on, or still waits for the execution. *)
LEMMA ChildKeepsInv ==
  ASSUME AgentInv, ChildExits
  PROVE  AgentInv'
<1> USE DEF AgentInv
<1>1. PICK c \in Runs : c = child.run /\ exec[c] = "runtime"
  BY DEF ChildExits, RunsInv, ExecInv, Shape
<1> DEFINE settling == {h \in Handlers : pc[h].step = "settling"}
<1>2. PICK ending \in Finished :
        IF execution # None \/ settling = {}
        THEN /\ queue' = Append(queue, [op |-> ending, by |-> c])
             /\ pc' = [h \in Handlers |->
                         IF h \in settling
                         THEN [pc[h] EXCEPT !.step = "awaiting", !.held = execution]
                         ELSE pc[h]]
        ELSE LeaveCancel(settling, Append(queue, [op |-> ending, by |-> c]))
  BY <1>1 DEF ChildExits, Finished
<1>3. /\ up /\ child' = NoChild /\ exec' = [exec EXCEPT ![c] = "closing"]
      /\ UNCHANGED <<agent, run, messages, up, execution, storeFaults>>
  BY <1>1 DEF ChildExits, records, files
<1> DEFINE m == [op |-> ending, by |-> c]
           waiting == Append(queue, m)
<1>4. m \in Mutation /\ m.op \in RunOps /\ m.op # "running" /\ m.by = c
  BY DEF Mutation, RunOps, Finished
<1>5. \A x \in Members(queue) : x.by # c
  BY <1>1, MembersWait
<1>6. Queue(waiting) /\ Members(waiting) = Members(queue) \cup {m}
  BY <1>4, <1>5, AppendToQueue DEF Shape
<1>7. ASSUME NEW x \in Members(waiting)
      PROVE  IF x.op \in RunOps
             THEN x.by \in Runs /\ exec'[x.by] = (IF x.op = "running" THEN "starting" ELSE "closing")
             ELSE x.by \in Handlers /\ pc[x.by].op = x.op /\ pc[x.by].step = "queued"
  <2>1. CASE x = m
    BY <1>3, <1>4, <2>1 DEF Shape
  <2>2. CASE x \in Members(queue)
    BY <1>3, <1>5, <2>2, MembersWait DEF QueueInv, Belongs, Shape
  <2> QED
    BY <1>6, <1>7, <2>1, <2>2
<1> HIDE DEF waiting, m
<1>8. /\ Queue(queue') /\ QueueInv'
      /\ pc' = [h \in Handlers |-> pc'[h]]
      /\ \A h \in Handlers : HandlerMove(h)
  <2>1. CASE execution # None \/ settling = {}
    <3>1. queue' = waiting
      BY <1>2, <2>1 DEF waiting, m
    <3>2. /\ pc' = [h \in Handlers |-> pc'[h]]
          /\ \A h \in Handlers : pc'[h] = IF h \in settling
                                        THEN [pc[h] EXCEPT !.step = "awaiting", !.held = execution]
                                        ELSE pc[h]
      BY <1>2, <2>1
    <3>3. ASSUME NEW x \in Members(queue')
          PROVE  Belongs(x)'
      BY <1>7, <3>1, <3>2, <3>3 DEF Belongs
    <3>4. ASSUME NEW h \in Handlers
          PROVE  HandlerMove(h)
      BY <2>1, <3>2 DEF HandlerMove, Shape
    <3> QED
      BY <1>6, <3>1, <3>2, <3>3, <3>4 DEF QueueInv
  <2>2. CASE ~(execution # None \/ settling = {})
    <3>1. LeaveCancel(settling, waiting)
      BY <1>2, <2>2 DEF waiting, m
    <3>2. settling \in SUBSET Handlers /\ \A h \in settling : pc[h].step # "queued"
      OBVIOUS
    <3>3. /\ Queue(queue') /\ QueueInv'
          /\ pc' = [h \in Handlers |-> IF h \in settling THEN AfterCancel(pc[h]) ELSE pc[h]]
      BY <1>6, <1>7, <3>1, <3>2, LeaveFacts
    <3>4. ASSUME NEW h \in Handlers
          PROVE  HandlerMove(h)
      BY <3>3, AgentNames DEF HandlerMove, HandlerInv, Holds
    <3> QED
      BY <3>3, <3>4
  <2> QED
    BY <2>1, <2>2
<1>9. \A q \in Runs : q # c => exec'[q] = exec[q]
  BY <1>3 DEF Shape
<1>10. exec'[c] = "closing" /\ run[c] \notin Finished /\ run[c] # "none"
  BY <1>1, <1>3 DEF Shape, RunsInv, ExecInv
<1>11. /\ HandlerInv' /\ CancelWaits'
       /\ pc' \in [Handlers -> [op : HandlerOps \cup {"none"},
                               step : {"idle", "making", "queued", "writing", "settling",
                                       "awaiting", "archiving"},
                               held : Runs \cup {None} \cup Nat]]
  <2>1. \A h \in Handlers : pc'[h].op = "send" => run'[pc[h].held] = "none"
    <3> SUFFICES ASSUME NEW h \in Handlers, pc'[h].op = "send"
                 PROVE  run'[pc[h].held] = "none"
      OBVIOUS
    <3>1. Holds(h) /\ HandlerMove(h)
      BY <1>8 DEF HandlerInv
    <3>2. pc[h].op = "send"
      BY <3>1, SendersStay
    <3> QED
      BY <1>3, <3>1, <3>2 DEF Holds
  <2> QED
    BY <1>3, <1>8, <2>1, HandlersFollowRuns DEF RunsInv
<1>12. Shape'
  BY <1>3, <1>8, <1>11 DEF Shape, NoChild
<1>13. RunsInv'
  <2>1. ExecInv'
    BY <1>3, <1>9, <1>10, AgentNames DEF RunsInv, ExecInv, NoChild
  <2> QED
    BY <1>3, <2>1 DEF RunsInv, StoredInv, Stored, BusyInv, ResultsAreEvidence
<1>14. StrandedInv' /\ DownInv'
  <2>1. Stranded' = Stranded
    BY <1>1, <1>3, <1>9, <1>10 DEF Stranded
  <2> QED
    BY <1>3, <2>1 DEF StrandedInv, DownInv
<1> QED
  BY <1>8, <1>11, <1>12, <1>13, <1>14

-----------------------------------------------------------------------------
(* Faults *)

(* An execution that gives up leaves at most its own Run behind. *)
LEMMA GivingUpKeepsInv ==
  ASSUME AgentInv, up, queue # <<>>, Head(queue).op \in RunOps,
         queue' = Tail(queue), exec' = [exec EXCEPT ![Caller] = "settled"],
         execution' \in {execution, None},
         pc' = [h \in Handlers |-> IF pc[h].step = "awaiting" /\ pc[h].held = Caller
                                 THEN Idle ELSE pc[h]],
         storeFaults' = storeFaults + 1,
         UNCHANGED <<agent, run, messages, up, child>>
  PROVE  AgentInv'
<1> USE DEF AgentInv
<1>1. PICK c \in Runs : c = Caller /\ exec[c] \in {"starting", "closing"}
  BY HeadOfQueue
<1>2. /\ exec'[c] = "settled" /\ \A q \in Runs : q # c => exec'[q] = exec[q]
      /\ exec' \in [Runs -> {"none", "starting", "runtime", "closing", "settled"}]
  BY <1>1 DEF Shape
<1>3. ASSUME NEW x \in Members(queue')
      PROVE  Belongs(x)'
  BY <1>1, <1>2, <1>3, HeadOfQueue, MembersWait DEF QueueInv, Belongs, Idle
<1>4. Queue(queue') /\ QueueInv'
  BY <1>3, HeadOfQueue DEF QueueInv
<1>5. \A h \in Handlers : pc'[h] = pc[h] \/ pc'[h] = Idle
  OBVIOUS
<1>6. /\ HandlerInv' /\ CancelWaits'
      /\ pc' \in [Handlers -> [op : HandlerOps \cup {"none"},
                              step : {"idle", "making", "queued", "writing", "settling",
                                      "awaiting", "archiving"},
                              held : Runs \cup {None} \cup Nat]]
  <2>1. \A h \in Handlers : HandlerMove(h)
    BY <1>5 DEF HandlerMove
  <2>2. \A h \in Handlers : pc'[h].op = "send" => run'[pc[h].held] = "none"
    BY <1>5 DEF Idle, HandlerInv, Holds
  <2>3. pc' = [h \in Handlers |-> pc'[h]]
    OBVIOUS
  <2> QED
    BY <2>1, <2>2, <2>3, HandlersFollowRuns DEF RunsInv
<1>7. Shape'
  BY <1>2, <1>4, <1>6 DEF Shape
<1>8. RunsInv'
  <2>1. child.run # c /\ run[c] # "none"
    BY <1>1 DEF RunsInv, ExecInv
  <2>2. ExecInv'
    BY <1>2, <2>1, AgentNames DEF RunsInv, ExecInv
  <2> QED
    BY <2>2 DEF RunsInv, StoredInv, Stored, BusyInv, ResultsAreEvidence
<1>9. StrandedInv' /\ DownInv'
  <2>1. Stranded' \subseteq Stranded \cup {c}
    BY <1>2 DEF Stranded
  <2>2. IsFiniteSet(Stranded) /\ Cardinality(Stranded) <= storeFaults
        /\ Cardinality(Stranded) \in Nat /\ storeFaults \in Nat
    BY FS_CardinalityType DEF StrandedInv, Shape
  <2>3. /\ IsFiniteSet(Stranded \cup {c})
        /\ Cardinality(Stranded \cup {c}) = Cardinality(Stranded)
           \/ Cardinality(Stranded \cup {c}) = Cardinality(Stranded) + 1
    BY <2>2, FS_AddElement
  <2>4. /\ IsFiniteSet(Stranded')
        /\ Cardinality(Stranded') <= Cardinality(Stranded \cup {c})
    BY <2>1, <2>3, FS_Subset
  <2>5. Cardinality(Stranded') \in Nat /\ Cardinality(Stranded \cup {c}) \in Nat
    BY <2>3, <2>4, FS_CardinalityType
  <2>6. Cardinality(Stranded') <= storeFaults + 1
    BY <2>2, <2>3, <2>4, <2>5
  <2> QED
    BY <2>4, <2>6 DEF StrandedInv, DownInv
<1> QED
  BY <1>4, <1>6, <1>7, <1>8, <1>9

LEMMA FailureKeepsInv ==
  ASSUME AgentInv, MutationFails
  PROVE  AgentInv'
<1>1. /\ up /\ queue # <<>> /\ storeFaults' = storeFaults + 1
      /\ UNCHANGED <<agent, run, messages, up, child>>
  BY DEF MutationFails, records
<1>2. Shape /\ QueueInv
  BY DEF AgentInv
<1>3. CASE Head(queue).op \in HandlerOps
  <2>1. /\ queue' = Tail(queue) /\ pc' = [pc EXCEPT ![Caller] = Idle]
        /\ UNCHANGED <<exec, execution>>
    BY <1>3 DEF MutationFails, Answer, HandlerOps
  <2>2. agent' \in [status : {"none", "ready", "stopped", "error"} \cup {agent.status},
                    thread : Runs \cup {None}, config : Nat]
    BY <1>1, <1>2 DEF Shape
  <2> QED
    BY <1>1, <1>3, <2>1, <2>2, AnswerKeepsInv DEF Stored
<1>4. CASE Head(queue).op = "completed"
  <2>1. PICK c \in Runs : c = Caller /\ exec[c] = "closing"
    BY <1>1, <1>2, <1>4, HeadOfQueue DEF RunOps, Finished
  <2>2. PICK ending \in Finished : Close(c, ending) /\ UNCHANGED <<execution, pc>>
    BY <1>4, <2>1 DEF MutationFails, HandlerOps, Finished
  <2>3. Queue(queue') /\ QueueInv'
    BY <1>1, <1>2, <1>4, <2>1, <2>2, ClosingFacts DEF RunOps, Finished
  <2>4. exec' = [exec EXCEPT ![c] = "closing"]
    BY <2>2 DEF Close
  <2>5. child.run # c
    BY <2>1 DEF AgentInv, RunsInv, ExecInv
  <2> QED
    BY <1>1, <2>1, <2>2, <2>3, <2>4, <2>5, ExecutionKeepsInv
<1>5. CASE Head(queue).op \notin HandlerOps \cup {"completed"}
  <2>1. Head(queue).op \in RunOps
    BY <1>1, <1>2, <1>5, HeadOfQueue
  <2>2. /\ queue' = Tail(queue) /\ exec' = [exec EXCEPT ![Caller] = "settled"]
        /\ execution' \in {execution, None}
        /\ pc' = [h \in Handlers |-> IF pc[h].step = "awaiting" /\ pc[h].held = Caller
                                    THEN Idle ELSE pc[h]]
    BY <1>5 DEF MutationFails
  <2> QED
    BY <1>1, <2>1, <2>2, GivingUpKeepsInv
<1> QED
  BY <1>3, <1>4, <1>5

LEMMA CrashKeepsInv ==
  ASSUME AgentInv, ServerStops
  PROVE  AgentInv'
<1> USE DEF AgentInv
<1>1. /\ UNCHANGED <<agent, run, messages, storeFaults>>
      /\ up' = FALSE /\ queue' = <<>> /\ child' = NoChild /\ execution' = None
      /\ exec' = [r \in Runs |-> IF exec[r] = "none" THEN "none" ELSE "settled"]
      /\ pc' = [h \in Handlers |-> Idle]
  BY DEF ServerStops, records
<1>2. Shape' /\ QueueInv'
  BY <1>1, EmptyQueue DEF Shape, QueueInv, NoChild, Idle
<1>3. RunsInv'
  <2>1. \A r \in Runs : exec'[r] = IF exec[r] = "none" THEN "none" ELSE "settled"
    BY <1>1
  <2>2. ExecInv'
    BY <1>1, <2>1, AgentNames DEF RunsInv, ExecInv, NoChild, Finished
  <2> QED
    BY <1>1, <2>2 DEF RunsInv, StoredInv, Stored, BusyInv, ResultsAreEvidence
<1>4. HandlerInv' /\ CancelWaits'
  BY <1>1 DEF HandlerInv, Holds, CancelWaits, Idle
<1>5. DownInv' /\ StrandedInv'
  BY <1>1 DEF DownInv, StrandedInv
<1> QED
  BY <1>2, <1>3, <1>4, <1>5

LEMMA InitializeKeepsInv ==
  ASSUME AgentInv, Initialize
  PROVE  AgentInv'
<1> USE DEF AgentInv
<1>1. /\ UNCHANGED <<messages, queue, exec, child, execution, pc, storeFaults>>
      /\ ~up /\ up' = TRUE
      /\ run' = [r \in Runs |-> IF run[r] \in Unfinished THEN "cancelled" ELSE run[r]]
      /\ agent' = [agent EXCEPT !.status = IF @ = "busy" THEN "ready" ELSE @]
  BY DEF Initialize
<1>2. /\ agent' \in [status : {"none", "ready", "stopped", "error", "gone"},
                    thread : Runs \cup {None}, config : Nat]
      /\ agent'.status \in {"none", "gone"} <=> agent.status \in {"none", "gone"}
      /\ agent'.thread = agent.thread
  BY <1>1 DEF Shape
<1>3. \A r \in Runs : run'[r] = IF run[r] \in Unfinished THEN "cancelled" ELSE run[r]
  BY <1>1
<1>4. Shape' /\ QueueInv'
  <2>1. run' \in [Runs -> RunStatus]
    BY <1>1 DEF Shape, RunStatus, Finished
  <2> QED
    BY <1>1, <1>2, <2>1 DEF Shape, QueueInv, Belongs
<1>5. ExecInv'
  BY <1>1, <1>3, AgentNames DEF RunsInv, ExecInv, DownInv, NoChild, Finished, Unfinished
<1>6. StoredInv' /\ BusyInv' /\ ResultsAreEvidence'
  BY <1>1, <1>2, <1>3 DEF RunsInv, StoredInv, Stored, BusyInv, ResultsAreEvidence, Unfinished
<1>7. HandlerInv' /\ CancelWaits'
  BY <1>1 DEF HandlerInv, Holds, CancelWaits, DownInv, Idle
<1>8. StrandedInv' /\ DownInv'
  <2>1. Stranded' = {}
    BY <1>3 DEF Stranded, Unfinished
  <2>2. IsFiniteSet({}) /\ Cardinality({}) = 0 /\ 0 <= storeFaults
    BY FS_EmptySet DEF Shape
  <2> QED
    BY <1>1, <2>1, <2>2 DEF StrandedInv, DownInv
<1> QED
  BY <1>4, <1>5, <1>6, <1>7, <1>8 DEF RunsInv

-----------------------------------------------------------------------------
(* The theorems *)

LEMMA NextAgent == AgentInv /\ [AgentNext]_agentVars => AgentInv'
<1> SUFFICES ASSUME AgentInv, [AgentNext]_agentVars PROVE AgentInv'
  OBVIOUS
<1>1. CASE AgentNext
  BY <1>1, RequestKeepsInv, ApplyRequestKeepsInv, SendKeepsInv, DeleteKeepsInv, RunningKeepsInv,
     SettlingKeepsInv, ChildKeepsInv, FailureKeepsInv, CrashKeepsInv, InitializeKeepsInv
     DEF AgentNext, Client, HandlerStep, Apply, RequestStep
<1>2. CASE UNCHANGED agentVars
  <2>1. Shape' /\ QueueInv'
    BY <1>2 DEF agentVars, records, AgentInv, Shape, QueueInv, Belongs
  <2>2. RunsInv'
    BY <1>2 DEF agentVars, records, AgentInv, RunsInv, ExecInv, StoredInv, Stored, BusyInv,
       ResultsAreEvidence
  <2>3. HandlerInv' /\ CancelWaits' /\ DownInv' /\ StrandedInv'
    BY <1>2 DEF agentVars, records, AgentInv, HandlerInv, Holds, CancelWaits, DownInv, StrandedInv,
       Stranded
  <2> QED
    BY <2>1, <2>2, <2>3 DEF AgentInv
<1> QED
  BY <1>1, <1>2

(* A busy Agent has a Run that is not finished, and each failed write strands   *)
(* at most one Run until the next start, for any number of requests, Runs and   *)
(* failures (agent-service.ts sendMessage, executeRun, initialize).             *)
THEOREM BusyAgentsHaveRuns == AgentSpec => []BusyHasRun
<1>1. AgentInv => BusyHasRun
  BY DEF AgentInv, RunsInv, BusyInv, StrandedInv, Stranded, BusyHasRun
<1> QED
  BY <1>1, InitAgent, NextAgent, PTL DEF AgentSpec

(* A stop or deletion goes on only when the Run whose execution it awaited is   *)
(* finished (agent-service.ts cancelExecution).                                 *)
THEOREM CancellationsWait == AgentSpec => []CancelWaits
<1>1. AgentInv => CancelWaits
  BY DEF AgentInv
<1> QED
  BY <1>1, InitAgent, NextAgent, PTL DEF AgentSpec

(* Answers and the thread to resume are those of completed Runs, and none       *)
(* survives its Agent (agent-service.ts executeRun, deleteAgent).               *)
THEOREM ResultsComeFromRuns == AgentSpec => []ResultsAreEvidence
<1>1. AgentInv => ResultsAreEvidence
  BY DEF AgentInv, RunsInv
<1> QED
  BY <1>1, InitAgent, NextAgent, PTL DEF AgentSpec

LEMMA OutcomesStay ==
  ASSUME AgentInv, AgentNext, NEW r \in Runs
  PROVE  /\ run[r] \in Finished => run'[r] \in {run[r], "removed"}
         /\ run[r] = "removed" => run'[r] = "removed"
<1>1. /\ run \in [Runs -> RunStatus] /\ Shape /\ QueueInv
      /\ run[r] \in Finished => exec[r] = "settled"
  BY DEF AgentInv, Shape, RunsInv, ExecInv
<1>2. ASSUME NEW h \in Handlers, RequestStep(h)
      PROVE  run' = run
  BY <1>1, <1>2, RequestFrame DEF records
<1>3. CASE ApplyCreate \/ ApplyUpdate \/ ApplyStart \/ ApplyStop \/ ChildExits \/ MutationFails
           \/ ServerStops
  BY <1>3 DEF ApplyCreate, ApplyUpdate, ApplyStart, ApplyStop, ChildExits, MutationFails,
     ServerStops, records
<1>4. CASE ApplyDelete
  BY <1>4 DEF ApplyDelete
<1>5. CASE ApplySend
  <2>1. Caller \in Handlers /\ pc[Caller].op = "send"
    BY <1>1, <1>5, HeadOfQueue DEF ApplySend, Turn, HandlerOps
  <2>2. run[pc[Caller].held] = "none"
    BY <2>1 DEF AgentInv, HandlerInv, Holds
  <2>3. run' = run \/ run' = [run EXCEPT ![pc[Caller].held] = "queued"]
    BY <1>5 DEF ApplySend
  <2> QED
    BY <1>1, <2>2, <2>3 DEF Finished
<1>6. CASE ApplyRunning \/ ApplyCompleted \/ ApplyStopped("failed") \/ ApplyStopped("cancelled")
  <2>1. Caller \in Runs /\ exec[Caller] \in {"starting", "closing"}
    BY <1>1, <1>6, HeadOfQueue DEF ApplyRunning, ApplyCompleted, ApplyStopped, Turn, RunOps, Finished
  <2>2. run[Caller] \notin Finished
    BY <2>1 DEF AgentInv, RunsInv, ExecInv
  <2>3. /\ \A q \in Runs : q # Caller => run'[q] = run[q]
        /\ run[Caller] = "removed" => run'[Caller] = "removed"
    BY <1>1, <1>6, <2>1 DEF ApplyRunning, ApplyCompleted, ApplyStopped, records
  <2> QED
    BY <2>1, <2>2, <2>3 DEF Finished
<1>7. CASE Initialize
  BY <1>1, <1>7 DEF Initialize, Finished, Unfinished
<1> QED
  BY <1>2, <1>3, <1>4, <1>5, <1>6, <1>7 DEF AgentNext, Client, HandlerStep, Apply, RequestStep

(* The outcome of a Run is final: no late execution, cancellation or start      *)
(* writes another over it (agent-service.ts executeRun, initialize).            *)
THEOREM OutcomesAreFinal == AgentSpec => RunOutcomeIsFinal
<1>1. AgentInv /\ [AgentNext]_agentVars =>
        [\A r \in Runs : /\ run[r] \in Finished => run'[r] \in {run[r], "removed"}
                         /\ run[r] = "removed" => run'[r] = "removed"]_agentVars
  BY OutcomesStay
<1> QED
  BY <1>1, InitAgent, NextAgent, PTL DEF AgentSpec, RunOutcomeIsFinal
================================================================================
