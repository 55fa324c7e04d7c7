------------------------------ MODULE StoreProofs -------------------------------
(***************************************************************************)
(* Proofs about EpochStore and its readers.  First, that EpochStore        *)
(* implements AtomicStore, whatever the callbacks make of the database:    *)
(* every step of the store is a step of the abstract store, or invisible   *)
(* to its readers.  Then, that the view of a dashboard over that store     *)
(* never goes back.                                                        *)
(***************************************************************************)
EXTENDS SessionDashboard, TLAPS

-----------------------------------------------------------------------------
(* The invariant: what the file, the clone and the readers' data have to do *)
(* with one another at each step of a mutation                              *)

(* A database is never mistaken for a missing file. *)
LEMMA DatabaseIsSome == ASSUME NEW r, NEW b PROVE [rev |-> r, body |-> b] # NoFile
  BY DEF NoFile

(* The clone is what the first call of the queue makes of what readers see. *)
CloneOfHead ==
  step # "idle" =>
    /\ up
    /\ queue # <<>>
    /\ next = Result
    /\ Result.body # Refused

(* The file holds what readers see, or already the clone that will replace it. *)
FileFollows ==
  up => /\ file = (IF step = "renamed" THEN next ELSE data)
        /\ data # NoFile

(* Of a process that died nothing is left but the file. *)
DownIsEmpty == ~up => queue = <<>> /\ step = "idle"

(* Calls of whatever callbacks. *)
IsQueue == \E S : queue \in Seq(S)

StoreInv ==
  /\ IsQueue
  /\ step \in Steps
  /\ CloneOfHead
  /\ FileFollows
  /\ DownIsEmpty

LEMMA InitStoreInv == StoreInit => StoreInv
  BY DEF StoreInit, StoreInv, IsQueue, Steps, CloneOfHead, FileFollows, DownIsEmpty

LEMMA MutateKeepsInv ==
  ASSUME StoreInv, NEW m, Mutate(m)
  PROVE  StoreInv'
<1>1. /\ queue' = Append(queue, m)
      /\ up' = up /\ step' = step /\ data' = data /\ file' = file /\ next' = next
      /\ up
  BY DEF Mutate
<1>2. PICK S : queue \in Seq(S)
  BY DEF StoreInv, IsQueue
<1>3. /\ IsQueue' /\ queue' # <<>>
      /\ queue # <<>> => Head(queue') = Head(queue)
  <2>1. queue \in Seq(S \cup {m})
    BY <1>2
  <2>2. queue' \in Seq(S \cup {m}) /\ queue' # <<>>
    BY <1>1, <2>1
  <2> QED
    BY <1>1, <1>2, <2>1, <2>2 DEF IsQueue
<1>4. CloneOfHead'
  BY <1>1, <1>3 DEF StoreInv, CloneOfHead, Result
<1> QED
  BY <1>1, <1>3, <1>4 DEF StoreInv, FileFollows, DownIsEmpty

(* What a settled call leaves. *)
LEMMA SettleFacts ==
  ASSUME StoreInv, queue # <<>>, Settle
  PROVE  /\ IsQueue'
         /\ step' = "idle" /\ step' \in Steps
         /\ CloneOfHead'
  BY DEF StoreInv, IsQueue, Settle, Steps, CloneOfHead

(* A step of the store, with whatever callback a caller brings. *)
StoreWork ==
  \/ ApplyMutation \/ Throw \/ WriteTemporary \/ RenameTemporary \/ PersistFails \/ Publish
  \/ Crash \/ initialize

AnyStoreNext == (\E m : Mutate(m)) \/ StoreWork

LEMMA NextKeepsInv ==
  ASSUME StoreInv, [AnyStoreNext]_storeVars
  PROVE  StoreInv'
<1>1. ASSUME NEW m, Mutate(m)
      PROVE  StoreInv'
  BY <1>1, MutateKeepsInv
<1>2. CASE ApplyMutation
  <2>1. up /\ Result' = Result
    BY <1>2 DEF ApplyMutation, CanRun, StoreInv, DownIsEmpty, Result
  <2>2. CloneOfHead'
    BY <1>2, <2>1 DEF ApplyMutation, CanRun, CloneOfHead
  <2>3. FileFollows'
    BY <1>2 DEF ApplyMutation, CanRun, StoreInv, FileFollows
  <2> QED
    BY <1>2, <2>1, <2>2, <2>3 DEF ApplyMutation, StoreInv, IsQueue, Steps, DownIsEmpty
<1>3. CASE Throw
  <2>1. queue # <<>> /\ Settle
    BY <1>3 DEF Throw, CanRun
  <2>2. FileFollows' /\ DownIsEmpty'
    BY <1>3, <2>1 DEF Throw, CanRun, Settle, StoreInv, FileFollows, DownIsEmpty
  <2> QED
    BY <2>1, <2>2, SettleFacts DEF StoreInv
<1>4. CASE WriteTemporary
  BY <1>4 DEF WriteTemporary, StoreInv, IsQueue, Steps, CloneOfHead, FileFollows, DownIsEmpty,
     Result
<1>5. CASE RenameTemporary
  BY <1>5 DEF RenameTemporary, StoreInv, IsQueue, Steps, CloneOfHead, FileFollows, DownIsEmpty,
     Result
<1>6. CASE PersistFails
  <2>1. queue # <<>> /\ Settle
    BY <1>6 DEF PersistFails, StoreInv, CloneOfHead
  <2>2. FileFollows' /\ DownIsEmpty'
    BY <1>6, <2>1 DEF PersistFails, Settle, StoreInv, CloneOfHead, FileFollows, DownIsEmpty
  <2> QED
    BY <2>1, <2>2, SettleFacts DEF StoreInv
<1>7. CASE Publish
  <2>1. queue # <<>> /\ Settle /\ up /\ next = Result
    BY <1>7 DEF Publish, StoreInv, CloneOfHead
  <2>2. next # NoFile
    BY <2>1, DatabaseIsSome DEF Result
  <2>3. FileFollows' /\ DownIsEmpty'
    BY <1>7, <2>1, <2>2 DEF Publish, Settle, StoreInv, FileFollows, DownIsEmpty
  <2> QED
    BY <2>1, <2>3, SettleFacts DEF StoreInv
<1>8. CASE Crash
  BY <1>8 DEF Crash, StoreInv, IsQueue, Steps, CloneOfHead, FileFollows, DownIsEmpty
<1>9. CASE initialize
  <2>1. data' = file' /\ data' # NoFile
    BY <1>9, DatabaseIsSome DEF initialize, emptyEpochDatabase
  <2> QED
    BY <1>9, <2>1 DEF initialize, StoreInv, IsQueue, Steps, CloneOfHead, FileFollows, DownIsEmpty
<1>10. CASE UNCHANGED storeVars
  BY <1>10 DEF storeVars, StoreInv, IsQueue, CloneOfHead, FileFollows, DownIsEmpty, Result
<1> QED
  BY <1>1, <1>2, <1>3, <1>4, <1>5, <1>6, <1>7, <1>8, <1>9, <1>10
     DEF AnyStoreNext, StoreWork

-----------------------------------------------------------------------------
(* The refinement *)

(* What the abstract store holds. *)
Held == IF up THEN data ELSE Durable

LEMMA InitIsAbstract == StoreInit => Promised!Init
  BY DEF StoreInit, Promised!Init, Durable, emptyEpochDatabase

(* What a clone is in the abstract store. *)
LEMMA CloneIsApplied ==
  ASSUME StoreInv, step # "idle"
  PROVE  /\ queue # <<>> /\ Held = data
         /\ next = Promised!Applied(Head(queue), Held)
         /\ Apply(Head(queue), Held.body) # Refused
  BY DEF StoreInv, CloneOfHead, Held, Result, Promised!Applied

LEMMA MutateSubmits ==
  ASSUME NEW m \in Mutations, Mutate(m)
  PROVE  Promised!Submit
  BY DEF Mutate, Promised!Submit, Durable

(* A step that readers cannot see. *)
LEMMA WorkIsInvisible ==
  ASSUME StoreInv, ApplyMutation \/ WriteTemporary \/ RenameTemporary
  PROVE  UNCHANGED Promised!atomicVars
<1>1. up /\ up' = up /\ data' = data /\ queue' = queue
  BY DEF ApplyMutation, WriteTemporary, RenameTemporary, CanRun, StoreInv, DownIsEmpty
<1> QED
  BY <1>1 DEF Promised!atomicVars

LEMMA FailureRefuses ==
  ASSUME StoreInv, Throw \/ PersistFails
  PROVE  Promised!Refuse
<1>1. queue # <<>>
  BY DEF Throw, PersistFails, CanRun, StoreInv, CloneOfHead
<1>2. up' = up /\ data' = data /\ file' = file /\ queue' = Tail(queue)
  BY DEF Throw, PersistFails, Settle
<1> QED
  BY <1>1, <1>2 DEF Promised!Refuse, Durable

LEMMA PublishSucceeds ==
  ASSUME StoreInv, Publish
  PROVE  Promised!Succeed
<1>1. up /\ up' = up
  BY DEF Publish, StoreInv, CloneOfHead
<1>2. data' = next /\ queue' = Tail(queue) /\ step = "renamed"
  BY DEF Publish, Settle
<1> QED
  BY <1>1, <1>2, CloneIsApplied DEF Promised!Succeed, Held

(* A crash after the rename keeps the mutation that nobody was told of; one     *)
(* before it keeps what was published.                                          *)
LEMMA CrashStops ==
  ASSUME StoreInv, Crash
  PROVE  Promised!Stop
<1> DEFINE next_db == (IF up THEN data ELSE Durable)'
<1>1. up /\ up' = FALSE /\ queue' = <<>> /\ file' = file
  BY DEF Crash
<1>2. next_db = (IF file = NoFile THEN emptyEpochDatabase ELSE file)
  BY <1>1 DEF Durable, emptyEpochDatabase
<1>3. CASE step = "renamed"
  <2>1. file = next /\ next = Promised!Applied(Head(queue), data)
    BY <1>1, <1>3, CloneIsApplied DEF StoreInv, FileFollows, Held
  <2>2. file # NoFile
    BY <1>3, <2>1, DatabaseIsSome DEF Promised!Applied
  <2>3. queue # <<>> /\ Apply(Head(queue), data.body) # Refused
    BY <1>3, CloneIsApplied DEF Held
  <2> QED
    BY <1>1, <1>2, <2>1, <2>2, <2>3 DEF Promised!Stop
<1>4. CASE step # "renamed"
  <2>1. file = data /\ file # NoFile
    BY <1>1, <1>4 DEF StoreInv, FileFollows
  <2> QED
    BY <1>1, <1>2, <2>1 DEF Promised!Stop
<1> QED
  BY <1>3, <1>4

LEMMA InitializeStarts ==
  ASSUME initialize
  PROVE  Promised!Start
  BY DEF initialize, Promised!Start, Durable

LEMMA NextIsAbstract ==
  ASSUME StoreInv, [StoreNext]_storeVars
  PROVE  [Promised!Next]_(Promised!atomicVars)
<1>1. CASE UNCHANGED storeVars
  BY <1>1 DEF storeVars, Promised!atomicVars, Durable
<1>2. CASE StoreNext
  BY <1>2, MutateSubmits, WorkIsInvisible, FailureRefuses, PublishSucceeds, CrashStops,
     InitializeStarts DEF StoreNext, Promised!Next
<1> QED
  BY <1>1, <1>2

(* Whatever the callbacks do, however many calls wait and however often a write *)
(* or a rename fails or the process dies between two steps of a mutation: the   *)
(* store is one database to which the calls are applied in their order, each    *)
(* wholly or not at all, and what readers saw survives (epoch-store.ts          *)
(* mutate and persist, initialize).                                             *)
THEOREM StoreImplementsAtomicStore == StoreSpec => StoreIsAtomic
<1>1. StoreInit => StoreInv /\ Promised!Init
  BY InitStoreInv, InitIsAbstract
<1>2. StoreInv /\ [StoreNext]_storeVars => StoreInv'
  BY NextKeepsInv DEF StoreNext, AnyStoreNext, StoreWork
<1>3. StoreInv /\ [StoreNext]_storeVars => [Promised!Next]_(Promised!atomicVars)
  BY NextIsAbstract
<1> QED
  BY <1>1, <1>2, <1>3, PTL DEF StoreSpec, StoreIsAtomic, Promised!Spec
-----------------------------------------------------------------------------
(* The view of a dashboard *)

(* Every step of a dashboard takes one of the store, or leaves it alone. *)
LEMMA StoreOfDashboard ==
  ASSUME [DashboardNext]_dashboardVars
  PROVE  [AnyStoreNext]_storeVars
<1>1. CASE UNCHANGED dashboardVars
  BY <1>1 DEF dashboardVars
<1>2. CASE ServerNext
  BY <1>2 DEF ServerNext, StoreRuns, MutationThrows, MutationFails, MutationPublished, RunEnds,
     MutateElsewhere, ServerCrashes, ServerStarts, ServerAnswers, ServerTakes, AnyStoreNext,
     StoreWork
<1>3. CASE NetworkNext
  BY <1>3 DEF NetworkNext, ReadFails, CommandFails, LinkDies, LinkRecovers
<1>4. CASE PageNext
  BY <1>4 DEF PageNext, Deliver, DeliverCommand, Mount, Leave, Poll, Reload, StaleTimer, Click
<1> QED
  BY <1>1, <1>2, <1>3, <1>4 DEF DashboardNext

(* What the store holds stays as it is, or is one mutation further. *)
HeldStays == Held' = Held

HeldGoesOn ==
  /\ up /\ Held = data
  /\ queue # <<>> /\ Result.body # Refused
  /\ Held' = Result

LEMMA HeldMoves ==
  ASSUME StoreInv, [AnyStoreNext]_storeVars
  PROVE  HeldStays \/ HeldGoesOn
<1>1. ASSUME NEW m, Mutate(m)
      PROVE  HeldStays
  BY <1>1 DEF Mutate, Held, HeldStays
<1>2. CASE ApplyMutation \/ WriteTemporary \/ RenameTemporary
  BY <1>2 DEF ApplyMutation, WriteTemporary, RenameTemporary, CanRun, StoreInv, DownIsEmpty,
     Held, HeldStays
<1>3. CASE Throw \/ PersistFails
  BY <1>3 DEF Throw, PersistFails, Held, HeldStays, Durable
<1>4. CASE Publish
  BY <1>4 DEF Publish, StoreInv, CloneOfHead, Held, HeldGoesOn
<1>5. CASE Crash
  <2>1. up /\ up' = FALSE /\ file' = file /\ Held = data
    BY <1>5 DEF Crash, Held
  <2>2. CASE step = "renamed"
    <3>1. file = Result /\ queue # <<>> /\ Result.body # Refused
      BY <2>1, <2>2 DEF StoreInv, FileFollows, CloneOfHead
    <3>2. file # NoFile
      BY <3>1, DatabaseIsSome DEF Result
    <3>3. Held' = Result
      BY <2>1, <3>1, <3>2 DEF Held, Durable
    <3> QED
      BY <2>1, <3>1, <3>3 DEF HeldGoesOn
  <2>3. CASE step # "renamed"
    BY <2>1, <2>3 DEF StoreInv, FileFollows, Held, HeldStays, Durable
  <2> QED
    BY <2>2, <2>3
<1>6. CASE initialize
  BY <1>6 DEF initialize, Held, HeldStays, Durable
<1>7. CASE UNCHANGED storeVars
  BY <1>7 DEF storeVars, Held, HeldStays, Durable
<1> QED
  BY <1>1, <1>2, <1>3, <1>4, <1>5, <1>6, <1>7 DEF AnyStoreNext, StoreWork

(* The snapshots a dashboard has: the one shown and those that are under way. *)
Arrived == {r \in Reads : read[r].at = "snapshot"}

Known == {read[r].of : r \in Arrived} \cup (IF shown = None THEN {} ELSE {shown})

(* No snapshot is ahead of the store, and a revision names one snapshot. *)
SnapshotsAgree ==
  /\ Held.rev \in Nat
  /\ \A s \in Known : /\ s.rev \in Nat /\ s.rev <= Held.rev
                      /\ s.rev = Held.rev => s = SnapshotOf(Held)
  /\ \A s, t \in Known : s.rev = t.rev => s = t

(* latestRevisionRef is the revision of what is shown. *)
LatestIsShown == shown # None => latest = shown.rev

Replies == {"none", "sent", "failed", "mismatch", "notFound", "snapshot"}

WiresTyped ==
  /\ DOMAIN read = Reads
  /\ \A r \in Reads : read[r].at \in Replies

ViewInv == SnapshotsAgree /\ LatestIsShown /\ WiresTyped

(* A step may forget snapshots, and learn the one that the store holds while    *)
(* it stays: then they still agree.                                             *)
LearnsNothing == Known' \subseteq Known

LearnsHeld ==
  /\ Known' \subseteq Known \cup {SnapshotOf(Held)}
  /\ HeldStays
  /\ Exists(Held.body)

LEMMA SnapshotsGoOnAgreeing ==
  ASSUME StoreInv, SnapshotsAgree, [AnyStoreNext]_storeVars, LearnsNothing \/ LearnsHeld
  PROVE  SnapshotsAgree'
<1>1. Held.rev \in Nat /\ Held'.rev \in Nat /\ (Held' = Held \/ Held'.rev = Held.rev + 1)
  BY HeldMoves DEF SnapshotsAgree, HeldStays, HeldGoesOn, Result
<1>2. CASE LearnsNothing
  BY <1>1, <1>2 DEF SnapshotsAgree, LearnsNothing
<1>3. CASE LearnsHeld
  <2>1. SnapshotOf(Held).rev = Held.rev
    BY DEF SnapshotOf
  <2> QED
    BY <1>1, <1>3, <2>1 DEF SnapshotsAgree, LearnsHeld, HeldStays
<1> QED
  BY <1>2, <1>3

(* What is unchanged of a view. *)
LEMMA SameView ==
  ASSUME ViewInv, UNCHANGED <<shown, latest, read>>
  PROVE  Known' = Known /\ LatestIsShown' /\ WiresTyped'
  BY DEF ViewInv, Known, Arrived, LatestIsShown, WiresTyped

(* A read that is asked, or fails, or ends, brings no snapshot. *)
LEMMA ReadWithoutSnapshot ==
  ASSUME ViewInv, NEW r \in Reads, NEW a \in Replies \ {"snapshot"},
         read' = [read EXCEPT ![r] = At(a)]
  PROVE  /\ WiresTyped'
         /\ {read[q].of : q \in Arrived}' \subseteq {read[q].of : q \in Arrived}
<1>1. DOMAIN read = Reads /\ \A q \in Reads : read[q].at \in Replies
  BY DEF ViewInv, WiresTyped
<1>2. At(a).at = a
  BY DEF At
<1>3. \A q \in Reads : read'[q] = IF q = r THEN At(a) ELSE read[q]
  BY <1>1
<1>4. \A q \in Arrived' : q \in Arrived /\ read'[q] = read[q]
  BY <1>2, <1>3 DEF Arrived
<1>5. WiresTyped'
  BY <1>1, <1>2, <1>3 DEF WiresTyped
<1> QED
  BY <1>4, <1>5

LEMMA InitView == DashboardInit => ViewInv
<1> SUFFICES ASSUME DashboardInit PROVE ViewInv
  OBVIOUS
<1>1. \A r \in Reads : read[r].at = "none"
  BY DEF DashboardInit, At
<1>2. Known = {}
  BY <1>1 DEF DashboardInit, Known, Arrived
<1>3. Held.rev = 0
  BY DEF DashboardInit, StoreInit, Held, Durable, emptyEpochDatabase
<1> QED
  BY <1>1, <1>2, <1>3 DEF DashboardInit, ViewInv, SnapshotsAgree, LatestIsShown, WiresTyped,
     Replies

(* What arrives is dropped, taken as a failure, or accepted: then it is not     *)
(* older than the latest accepted snapshot.                                     *)
LEMMA TakeAnswerFacts ==
  ASSUME NEW a, a.at \in Replies \ {"none", "sent"}, TakeAnswer(a)
  PROVE  \/ UNCHANGED <<shown, latest>>
         \/ shown' = None
         \/ /\ a.at = "snapshot" /\ ~(a.of.rev < latest)
            /\ shown' = a.of /\ latest' = a.of.rev
  BY DEF TakeAnswer, Replies, CountFailure, FailClosed, Accept

(* A step that shows another snapshot than before: no older one, and never two  *)
(* of one revision.                                                             *)
ShowsNoOlder ==
  shown # None /\ shown' # None => shown'.rev > shown.rev \/ shown' = shown

(* What a step owes the view. *)
KeepsView == ViewInv' /\ ShowsNoOlder /\ (LearnsNothing \/ LearnsHeld)

(* Nothing arrives and nothing else is shown. *)
LEMMA ViewStands ==
  ASSUME ViewInv, StoreInv, [AnyStoreNext]_storeVars, UNCHANGED <<shown, latest, read>>
  PROVE  KeepsView
<1>1. Known' = Known /\ LatestIsShown' /\ WiresTyped'
  BY SameView
<1>2. SnapshotsAgree'
  BY <1>1, SnapshotsGoOnAgreeing DEF ViewInv, LearnsNothing
<1> QED
  BY <1>1, <1>2 DEF KeepsView, ViewInv, ShowsNoOlder, LearnsNothing

(* A read moves, bringing nothing; what is shown stays, or is taken off. *)
LEMMA ReadMoves ==
  ASSUME ViewInv, StoreInv, [AnyStoreNext]_storeVars,
         NEW r \in Reads, NEW a \in Replies \ {"snapshot"},
         read' = [read EXCEPT ![r] = At(a)],
         UNCHANGED <<shown, latest>> \/ shown' = None
  PROVE  KeepsView
<1>1. WiresTyped' /\ Known' \subseteq Known
  BY ReadWithoutSnapshot DEF Known
<1>2. SnapshotsAgree'
  BY <1>1, SnapshotsGoOnAgreeing DEF ViewInv, LearnsNothing
<1> QED
  BY <1>1, <1>2 DEF KeepsView, ViewInv, LatestIsShown, ShowsNoOlder, LearnsNothing

LEMMA AnswerKeepsView ==
  ASSUME ViewInv, StoreInv, NEW r \in Reads, ServerAnswers(r)
  PROVE  KeepsView
<1>1. /\ read' = [read EXCEPT ![r] = Answer(data)]
      /\ UNCHANGED <<shown, latest>> /\ Held = data /\ Held' = Held
      /\ UNCHANGED storeVars
  BY DEF ServerAnswers, storeVars, view, Held
<1>2. DOMAIN read = Reads /\ \A q \in Reads : read[q].at \in Replies
  BY DEF ViewInv, WiresTyped
<1>3. \A q \in Reads : read'[q] = IF q = r THEN Answer(data) ELSE read[q]
  BY <1>1, <1>2
<1>4. /\ Answer(data).at \in Replies
      /\ Answer(data).at = "snapshot" =>
           Answer(data).of = SnapshotOf(Held) /\ Exists(Held.body)
  BY <1>1 DEF Answer, Replies
<1>5. WiresTyped'
  BY <1>1, <1>2, <1>3, <1>4 DEF WiresTyped
<1>6. ASSUME NEW q \in Arrived'
      PROVE  \/ q \in Arrived /\ read'[q] = read[q]
             \/ read'[q].of = SnapshotOf(Held) /\ Exists(Held.body)
  <2>1. q \in Reads /\ read'[q].at = "snapshot"
    BY <1>6 DEF Arrived
  <2>2. CASE q = r
    BY <1>3, <1>4, <2>1, <2>2
  <2>3. CASE q # r
    BY <1>3, <2>1, <2>3 DEF Arrived
  <2> QED
    BY <2>2, <2>3
<1>7. LearnsNothing \/ LearnsHeld
  BY <1>1, <1>6 DEF Known, LearnsNothing, LearnsHeld, HeldStays
<1>8. SnapshotsAgree'
  BY <1>1, <1>7, SnapshotsGoOnAgreeing DEF ViewInv
<1> QED
  BY <1>1, <1>5, <1>7, <1>8 DEF KeepsView, ViewInv, LatestIsShown, ShowsNoOlder

LEMMA DeliveryKeepsView ==
  ASSUME ViewInv, StoreInv, NEW r \in Reads, Deliver(r)
  PROVE  KeepsView
<1>1. /\ read' = [read EXCEPT ![r] = At("none")]
      /\ read[r].at \in Replies \ {"none", "sent"}
      /\ TakeAnswer(read[r]) /\ UNCHANGED storeVars
  BY DEF Deliver, ViewInv, WiresTyped
<1>2. "none" \in Replies \ {"snapshot"}
  BY DEF Replies
<1>3. CASE UNCHANGED <<shown, latest>> \/ shown' = None
  BY <1>1, <1>2, <1>3, ReadMoves
<1>4. CASE /\ read[r].at = "snapshot" /\ ~(read[r].of.rev < latest)
           /\ shown' = read[r].of /\ latest' = read[r].of.rev
  <2>1. r \in Arrived /\ read[r].of \in Known
    BY <1>4 DEF Arrived, Known
  <2>2. /\ WiresTyped'
        /\ {read[q].of : q \in Arrived}' \subseteq {read[q].of : q \in Arrived}
    BY <1>1, <1>2, ReadWithoutSnapshot
  <2>3. Known' \subseteq Known
    BY <1>4, <2>1, <2>2 DEF Known
  <2>4. SnapshotsAgree'
    BY <1>1, <2>3, SnapshotsGoOnAgreeing DEF ViewInv, LearnsNothing
  <2>5. LatestIsShown'
    BY <1>4 DEF LatestIsShown
  <2>6. ShowsNoOlder
    <3>1. SUFFICES ASSUME shown # None PROVE shown'.rev > shown.rev \/ shown' = shown
      BY DEF ShowsNoOlder
    <3>2. shown \in Known /\ latest = shown.rev
      BY <3>1 DEF Known, ViewInv, LatestIsShown
    <3>3. shown.rev \in Nat /\ shown'.rev \in Nat /\ shown'.rev >= shown.rev
      BY <1>4, <2>1, <3>2 DEF ViewInv, SnapshotsAgree
    <3>4. shown'.rev = shown.rev => shown' = shown
      BY <1>4, <2>1, <3>2 DEF ViewInv, SnapshotsAgree
    <3> QED
      BY <3>3, <3>4
  <2> QED
    BY <2>2, <2>3, <2>4, <2>5, <2>6 DEF KeepsView, ViewInv, LearnsNothing
<1> QED
  BY <1>1, <1>3, <1>4, TakeAnswerFacts

(* A step of the page that leaves reads as they are, or sends or aborts some,   *)
(* and takes off what is shown or leaves it.                                    *)
LEMMA PageKeepsView ==
  ASSUME ViewInv, StoreInv,
         DeliverCommand \/ Mount \/ Leave \/ Poll \/ Reload \/ StaleTimer
         \/ \E op \in {"refresh", "commit"} : Click(op)
  PROVE  KeepsView
<1>1. /\ "sent" \in Replies \ {"snapshot"}
      /\ {"poll", "reload", "reread"} = Reads
  BY DEF Replies, Reads
<1>2. CASE DeliverCommand
  <2>1. UNCHANGED storeVars
    BY <1>2 DEF DeliverCommand
  <2>2. CASE command.at \in {"done", "conflict"}
    <3>1. read' = [read EXCEPT !["reread"] = At("sent")] /\ UNCHANGED <<shown, latest>>
      BY <1>2, <2>2 DEF DeliverCommand
    <3> QED
      BY <1>1, <2>1, <3>1, ReadMoves
  <2>3. CASE command.at = "failed"
    <3>1. UNCHANGED <<shown, latest, read>>
      BY <1>2, <2>3 DEF DeliverCommand
    <3> QED
      BY <2>1, <3>1, ViewStands
  <2>4. CASE command.at = "notFound"
    <3>1. shown' = None /\ UNCHANGED read
      BY <1>2, <2>4 DEF DeliverCommand, FailClosed
    <3>2. Known' \subseteq Known /\ WiresTyped'
      BY <3>1 DEF Known, Arrived, ViewInv, WiresTyped
    <3>3. SnapshotsAgree'
      BY <2>1, <3>2, SnapshotsGoOnAgreeing DEF ViewInv, LearnsNothing
    <3> QED
      BY <3>1, <3>2, <3>3 DEF KeepsView, ViewInv, LatestIsShown, ShowsNoOlder, LearnsNothing
  <2> QED
    BY <1>2, <2>2, <2>3, <2>4 DEF DeliverCommand
<1>3. CASE Mount \/ Poll
  <2>1. /\ read' = [read EXCEPT !["poll"] = At("sent")] /\ UNCHANGED storeVars
        /\ UNCHANGED <<shown, latest>> \/ shown' = None
    BY <1>3 DEF Mount, Poll, Fresh, view
  <2> QED
    BY <1>1, <2>1, ReadMoves
<1>4. CASE Reload
  <2>1. /\ read' = [read EXCEPT !["reload"] = At("sent")] /\ UNCHANGED storeVars
        /\ UNCHANGED <<shown, latest>>
    BY <1>4 DEF Reload, view
  <2> QED
    BY <1>1, <2>1, ReadMoves
<1>5. CASE Leave
  <2>1. read' = [r \in Reads |-> At("none")] /\ shown' = None /\ UNCHANGED storeVars
    BY <1>5 DEF Leave, Fresh
  <2>2. Known' = {} /\ WiresTyped'
    BY <2>1 DEF Known, Arrived, WiresTyped, At, Replies
  <2>3. SnapshotsAgree'
    BY <2>1, <2>2, SnapshotsGoOnAgreeing DEF ViewInv, LearnsNothing
  <2> QED
    BY <2>1, <2>2, <2>3 DEF KeepsView, ViewInv, LatestIsShown, ShowsNoOlder, LearnsNothing
<1>6. CASE StaleTimer \/ \E op \in {"refresh", "commit"} : Click(op)
  <2>1. UNCHANGED <<shown, latest, read>> /\ UNCHANGED storeVars
    BY <1>6 DEF StaleTimer, Click, wires
  <2> QED
    BY <2>1, ViewStands
<1> QED
  BY <1>2, <1>3, <1>4, <1>5, <1>6

LEMMA NextKeepsView ==
  ASSUME StoreInv, ViewInv, [DashboardNext]_dashboardVars
  PROVE  KeepsView
<1>1. [AnyStoreNext]_storeVars
  BY StoreOfDashboard
<1>2. CASE UNCHANGED dashboardVars
  <2>1. UNCHANGED <<shown, latest, read>>
    BY <1>2 DEF dashboardVars, view, wires
  <2> QED
    BY <1>1, <2>1, ViewStands
<1>3. ASSUME NEW r \in Reads, ServerAnswers(r)
      PROVE  KeepsView
  BY <1>3, AnswerKeepsView
<1>4. CASE \/ StoreRuns \/ MutationThrows \/ MutationFails \/ MutationPublished
           \/ RunEnds \/ MutateElsewhere \/ ServerCrashes \/ ServerStarts \/ ServerTakes
           \/ CommandFails \/ LinkDies \/ LinkRecovers
  <2>1. UNCHANGED <<shown, latest, read>>
    BY <1>4 DEF StoreRuns, MutationThrows, MutationFails, MutationPublished, RunEnds,
       MutateElsewhere, ServerCrashes, ServerStarts, ServerTakes, CommandFails, LinkDies,
       LinkRecovers, view, wires
  <2> QED
    BY <1>1, <2>1, ViewStands
<1>5. ASSUME NEW r \in Reads, ReadFails(r)
      PROVE  KeepsView
  <2>1. /\ UNCHANGED <<shown, latest>>
        /\ \E a \in {"failed", "mismatch"} : read' = [read EXCEPT ![r] = At(a)]
    BY <1>5 DEF ReadFails, view
  <2>2. {"failed", "mismatch"} \subseteq Replies \ {"snapshot"}
    BY DEF Replies
  <2> QED
    BY <1>1, <2>1, <2>2, ReadMoves
<1>6. ASSUME NEW r \in Reads, Deliver(r)
      PROVE  KeepsView
  BY <1>6, DeliveryKeepsView
<1>7. CASE \/ DeliverCommand \/ Mount \/ Leave \/ Poll \/ Reload \/ StaleTimer
           \/ \E op \in {"refresh", "commit"} : Click(op)
  BY <1>7, PageKeepsView
<1> QED
  BY <1>2, <1>3, <1>4, <1>5, <1>6, <1>7 DEF DashboardNext, ServerNext, NetworkNext, PageNext

(* Whatever the network delays, reorders or loses, wherever the server crashes, *)
(* and whatever the callbacks of other clients make of the Session: a dashboard *)
(* that stays on its page never shows an older revision than before, nor two    *)
(* snapshots of one revision (useEpochGuardSession readSnapshot over            *)
(* epoch-store.ts mutate).                                                      *)
THEOREM ViewNeverGoesBack == DashboardSpec => ShownNeverGoesBack
<1>1. DashboardInit => StoreInv /\ ViewInv
  BY InitStoreInv, InitView DEF DashboardInit
<1>2. StoreInv /\ ViewInv /\ [DashboardNext]_dashboardVars => StoreInv' /\ ViewInv'
  BY StoreOfDashboard, NextKeepsInv, NextKeepsView DEF KeepsView
<1>3. StoreInv /\ ViewInv /\ [DashboardNext]_dashboardVars
      => [shown # None /\ shown' # None =>
            shown'.rev > shown.rev \/ shown' = shown]_dashboardVars
  BY NextKeepsView DEF KeepsView, ShowsNoOlder
<1> QED
  BY <1>1, <1>2, <1>3, PTL DEF DashboardSpec, ShownNeverGoesBack

-----------------------------------------------------------------------------
(* The dashboard is a client of the store.  Its commands carry the revision of  *)
(* the Session they were clicked on; that they are among the callbacks of the   *)
(* store needs what a Session's revisions are.                                  *)

(* The most revisions a Session has had when it is in a state. *)
MostMoves ==
  [life \in Lives |->
     CASE life = "none" -> 0
       [] life = "running" -> 1
       [] life = "blocked" -> 2
       [] life = "busy" -> 3
       [] life \in {"ready", "ended"} -> 4
       [] life = "committed" -> 5
       [] OTHER -> 6]

Bodies ==
  {b \in [life : Lives, srev : 0..MaxMoves] :
     /\ b.srev <= MostMoves[b.life]
     /\ b.life # "none" => b.srev >= 1}

Places == {"none", "sent", "queued", "working", "done", "conflict", "notFound", "failed",
           "rereading"}

Commands ==
  {c \in [at : Places, op : {"refresh", "commit"}, expected : 0..MaxMoves, by : 0..MaxClicks] :
     c.at = "sent" => c.expected >= 1}

(* A snapshot is of a Session that exists. *)
KnownIsSession == \A s \in Known : s.srev \in 1..MaxMoves

ClientInv ==
  /\ Held.body \in Bodies
  /\ queue \in Seq(SessionMutations)
  /\ KnownIsSession
  /\ command \in Commands
  /\ clicks \in 0..MaxClicks

(* A mutation makes of a Session another one, of no longer life than there is.  *)
LEMMA ApplyStaysInBodies ==
  ASSUME NEW b \in Bodies, NEW m \in SessionMutations, Apply(m, b) # Refused
  PROVE  Apply(m, b) \in Bodies
<1>1. b \in [life : Lives, srev : 0..MaxMoves] /\ b.life \in Lives /\ b.srev \in 0..6
      /\ b.srev <= MostMoves[b.life] /\ (b.life # "none" => b.srev >= 1)
  BY DEF Bodies, MaxMoves
<1>2. Apply(m, b) = SessionApply(m, b)
  BY <1>1, StoreOfOneSession
<1>3. m.op \in {"create", "allow", "block", "fail", "reset", "other", "refresh", "commit"}
  BY DEF SessionMutations
<1> DEFINE moved(life) == Move(b, life)
<1>4. ASSUME NEW life \in Lives \ {"none"}, b.srev + 1 <= MostMoves[life], b.srev + 1 <= 6
      PROVE  moved(life) \in Bodies
  BY <1>1, <1>4 DEF Bodies, Move, MaxMoves
<1>5. /\ b.life = "none" => moved("running") \in Bodies
      /\ b.life \in {"running", "busy"} => moved("ready") \in Bodies /\ moved("ended") \in Bodies
      /\ b.life = "running" => moved("blocked") \in Bodies
      /\ b.life = "blocked" => moved("busy") \in Bodies
      /\ b.life = "ready" => moved("committed") \in Bodies
      /\ b.life \in {"committed", "ended"} => moved("gone") \in Bodies
  BY <1>1, <1>4 DEF Lives, MostMoves
<1> QED
  BY <1>2, <1>3, <1>5 DEF SessionApply, InFlight

(* What a step of the store leaves of a Session's body and of the calls on it.  *)
LEMMA StoreKeepsSession ==
  ASSUME StoreInv, Held.body \in Bodies, queue \in Seq(SessionMutations),
         [StoreWork]_storeVars \/ \E m \in SessionMutations : Mutate(m)
  PROVE  Held'.body \in Bodies /\ queue' \in Seq(SessionMutations)
<1>1. HeldStays \/ HeldGoesOn
  BY HeldMoves DEF AnyStoreNext
<1>2. queue # <<>> => Head(queue) \in SessionMutations
  OBVIOUS
<1>3. Held'.body \in Bodies
  BY <1>1, <1>2, ApplyStaysInBodies DEF HeldStays, HeldGoesOn, Result
<1>4. ASSUME NEW m \in SessionMutations, Mutate(m)
      PROVE  queue' \in Seq(SessionMutations)
  BY <1>4 DEF Mutate
<1>5. CASE Throw \/ PersistFails \/ Publish
  <2>1. queue # <<>> /\ queue' = Tail(queue)
    BY <1>5 DEF Throw, PersistFails, Publish, CanRun, Settle, StoreInv, CloneOfHead
  <2> QED
    BY <1>3, <2>1
<1>6. CASE Crash
  BY <1>3, <1>6 DEF Crash
<1>7. CASE ApplyMutation \/ WriteTemporary \/ RenameTemporary \/ initialize \/ UNCHANGED storeVars
  <2>1. queue' = queue
    BY <1>7 DEF ApplyMutation, WriteTemporary, RenameTemporary, initialize, storeVars
  <2> QED
    BY <1>3, <2>1
<1> QED
  BY <1>3, <1>4, <1>5, <1>6, <1>7 DEF StoreWork

(* A dashboard and the other clients call only what the store may be called with. *)
LEMMA DashboardCalls ==
  ASSUME StoreInv, ClientInv, [DashboardNext]_dashboardVars
  PROVE  [StoreWork]_storeVars \/ \E m \in SessionMutations : Mutate(m)
<1>1. CASE \/ StoreRuns \/ MutationThrows \/ MutationFails \/ MutationPublished
           \/ ServerCrashes \/ ServerStarts \/ (\E r \in Reads : ServerAnswers(r))
           \/ NetworkNext \/ PageNext \/ UNCHANGED dashboardVars
  BY <1>1 DEF StoreRuns, MutationThrows, MutationFails, MutationPublished, ServerCrashes,
     ServerStarts, ServerAnswers, StoreWork, NetworkNext, ReadFails, CommandFails, LinkDies,
     LinkRecovers, PageNext, Deliver, DeliverCommand, Mount, Leave, Poll, Reload, StaleTimer,
     Click, dashboardVars
<1>2. CASE RunEnds
  BY <1>2 DEF RunEnds, Outcomes, SessionMutations
<1>3. CASE MutateElsewhere
  <2>1. CASE \E op \in {"create", "reset", "other"} : Mutate([op |-> op])
    BY <2>1 DEF SessionMutations
  <2>2. ASSUME NEW op \in {"refresh", "commit"}, Offers(data.body, op),
               Mutate([op |-> op, expected |-> data.body.srev, by |-> 0])
        PROVE  \E m \in SessionMutations : Mutate(m)
    <3>1. data.body \in Bodies /\ data.body.life # "none"
      BY <2>2 DEF Mutate, ClientInv, Held, Offers
    <3>2. data.body.srev \in 1..MaxMoves
      BY <3>1 DEF Bodies, MaxMoves
    <3>3. 0 \in 0..MaxClicks
      BY StoreOfOneSession
    <3> QED
      BY <2>2, <3>2, <3>3 DEF SessionMutations
  <2> QED
    BY <1>3, <2>1, <2>2 DEF MutateElsewhere
<1>4. CASE ServerTakes
  <2>1. CASE UNCHANGED storeVars
    BY <2>1
  <2>2. CASE Mutate([op |-> command.op, expected |-> command.expected, by |-> command.by])
    <3>1. command.op \in {"refresh", "commit"} /\ command.expected \in 1..MaxMoves
          /\ command.by \in 0..MaxClicks
      BY <1>4 DEF ServerTakes, ClientInv, Commands, MaxMoves
    <3> QED
      BY <2>2, <3>1 DEF SessionMutations
  <2> QED
    BY <1>4, <2>1, <2>2 DEF ServerTakes
<1> QED
  BY <1>1, <1>2, <1>3, <1>4 DEF DashboardNext, ServerNext

LEMMA InitClient == DashboardInit => ClientInv
<1> SUFFICES ASSUME DashboardInit PROVE ClientInv
  OBVIOUS
<1>1. Held.body = NoSession
  BY StoreOfOneSession DEF DashboardInit, StoreInit, Held, Durable, emptyEpochDatabase
<1>2. NoSession \in Bodies
  BY DEF NoSession, Bodies, Lives, MaxMoves, MostMoves
<1>3. KnownIsSession
  BY DEF DashboardInit, KnownIsSession, Known, Arrived, At
<1>4. command \in Commands
  BY StoreOfOneSession DEF DashboardInit, NoCommand, Commands, Places, MaxMoves
<1> QED
  BY <1>1, <1>2, <1>3, <1>4, StoreOfOneSession DEF DashboardInit, StoreInit, ClientInv

(* A command in the server, or answered, was clicked. *)
LEMMA CommandMoves ==
  ASSUME ClientInv, NEW at \in Places \ {"sent"}, CommandAt(at)
  PROVE  command' \in Commands
  BY DEF ClientInv, Commands, CommandAt

LEMMA NextKeepsCommand ==
  ASSUME ClientInv, [DashboardNext]_dashboardVars
  PROVE  command' \in Commands /\ clicks' \in 0..MaxClicks
<1>1. NoCommand \in Commands
  BY StoreOfOneSession DEF NoCommand, Commands, Places, MaxMoves
<1>2. command \in Commands /\ clicks \in 0..MaxClicks /\ MaxClicks \in Nat
  BY StoreOfOneSession DEF ClientInv
<1>3. CASE \/ MutationThrows \/ MutationFails \/ MutationPublished \/ ServerCrashes
           \/ ServerTakes \/ CommandFails
  <2>1. clicks' = clicks
    BY <1>3 DEF MutationThrows, MutationFails, MutationPublished, ServerCrashes, ServerTakes,
       CommandFails
  <2>2. command' = command \/ \E at \in Places \ {"sent"} : CommandAt(at)
    BY <1>3 DEF MutationThrows, MutationFails, MutationPublished, ServerCrashes, ServerTakes,
       CommandFails, AnswerHead, Reply, Places
  <2> QED
    BY <1>2, <2>1, <2>2, CommandMoves
<1>4. CASE DeliverCommand
  <2>1. clicks' = clicks
    BY <1>4 DEF DeliverCommand
  <2>2. command' = NoCommand \/ \E at \in Places \ {"sent"} : CommandAt(at)
    BY <1>4 DEF DeliverCommand, Places
  <2> QED
    BY <1>1, <1>2, <2>1, <2>2, CommandMoves
<1>5. ASSUME NEW op \in {"refresh", "commit"}, Click(op)
      PROVE  command' \in Commands /\ clicks' \in 0..MaxClicks
  <2>1. clicks' = clicks + 1 /\ clicks' \in 0..MaxClicks
    BY <1>2, <1>5 DEF Click
  <2>2. shown.srev \in 1..MaxMoves
    BY <1>5 DEF Click, ClientInv, KnownIsSession, Known
  <2>3. command' = [at |-> "sent", op |-> op, expected |-> shown.srev, by |-> clicks']
    BY <1>5 DEF Click
  <2> QED
    BY <2>1, <2>2, <2>3 DEF Commands, Places, MaxMoves
<1>6. CASE Mount \/ Leave \/ \E r \in Reads : Deliver(r)
  BY <1>1, <1>2, <1>6 DEF Mount, Leave, Deliver, Fresh
<1>7. CASE Reload
  BY <1>2, <1>7 DEF Reload
<1>8. CASE \/ StoreRuns \/ RunEnds \/ MutateElsewhere \/ ServerStarts
           \/ (\E r \in Reads : ServerAnswers(r) \/ ReadFails(r))
           \/ LinkDies \/ LinkRecovers \/ Poll \/ StaleTimer \/ UNCHANGED dashboardVars
  BY <1>2, <1>8 DEF StoreRuns, RunEnds, MutateElsewhere, ServerStarts, ServerAnswers, ReadFails,
     LinkDies, LinkRecovers, Poll, StaleTimer, dashboardVars, wires
<1> QED
  BY <1>3, <1>4, <1>5, <1>6, <1>7, <1>8 DEF DashboardNext, ServerNext, NetworkNext, PageNext

LEMMA NextKeepsClient ==
  ASSUME StoreInv, ViewInv, ClientInv, [DashboardNext]_dashboardVars
  PROVE  ClientInv'
<1>1. Held'.body \in Bodies /\ queue' \in Seq(SessionMutations)
  BY DashboardCalls, StoreKeepsSession DEF ClientInv
<1>2. LearnsNothing \/ LearnsHeld
  BY NextKeepsView DEF KeepsView
<1>3. LearnsHeld => SnapshotOf(Held).srev \in 1..MaxMoves
  BY DEF LearnsHeld, Exists, SnapshotOf, ClientInv, Bodies, MaxMoves
<1>4. KnownIsSession'
  BY <1>2, <1>3 DEF ClientInv, KnownIsSession, LearnsNothing, LearnsHeld
<1> QED
  BY <1>1, <1>4, NextKeepsCommand DEF ClientInv

(* Clicks on old snapshots, commands that arrive late, other clients and Runs   *)
(* that end: whatever a dashboard and its server do is a behaviour of the       *)
(* store, and so the store stays atomic under them (http routes over            *)
(* epoch-store.ts).                                                             *)
THEOREM DashboardsStoreIsAtomic == DashboardSpec => StoreIsAtomic
<1> DEFINE Inv == StoreInv /\ ViewInv /\ ClientInv
<1>1. DashboardInit => Inv /\ StoreInit
  BY InitStoreInv, InitView, InitClient DEF DashboardInit
<1>2. Inv /\ [DashboardNext]_dashboardVars => Inv'
  BY StoreOfDashboard, NextKeepsInv, NextKeepsView, NextKeepsClient DEF KeepsView
<1>3. Inv /\ [DashboardNext]_dashboardVars => [StoreNext]_storeVars
  BY DashboardCalls, StoreOfOneSession DEF StoreNext, StoreWork
<1>4. DashboardSpec => StoreSpec
  BY <1>1, <1>2, <1>3, PTL DEF DashboardSpec, StoreSpec
<1> QED
  BY <1>4, StoreImplementsAtomicStore

================================================================================
