------------------------------- MODULE Fixtures -------------------------------
(***************************************************************************)
(* The registered scenarios, and what createSession makes of one: it       *)
(* replays the initial steps, commits and captures, on an empty ledger.    *)
(***************************************************************************)
EXTENDS JointValidity, Sequences

LOCAL Seqs == INSTANCE SequencesExt

CommitStep(seq, changes) == [kind |-> "commit", seq |-> seq, changes |-> changes]

CaptureStep(role, h) == [kind |-> "capture", role |-> role, head |-> h]

Change(role, value) == [r \in {role} |-> value]

NormalFixture ==
  [bootstrap |-> 9,
   steps |-> << CommitStep(10, [r \in Roles |-> "ALLOW"]),
                CaptureStep(Inventory, 10),
                CaptureStep(Budget, 10),
                CaptureStep(Policy, 10) >>,
   refreshHead |-> 0]

ImpossibleSteps(budgetAtTwenty) ==
  << CommitStep(18, Change(Inventory, "ALLOW")),
     CaptureStep(Inventory, 18),
     CommitStep(19, Change(Budget, "ALLOW")),
     CaptureStep(Budget, 19),
     CommitStep(20, Change(Budget, budgetAtTwenty)),
     CommitStep(21, Change(Policy, "ALLOW")),
     CaptureStep(Policy, 21) >>

ImpossibleFixture ==
  [bootstrap |-> 17, steps |-> ImpossibleSteps("DENY"), refreshHead |-> 21]

(* Not registered: the impossible collage with a budget that is revised but     *)
(* still suffices, so that the re-observation leads to a permit.  The tests of  *)
(* the service and of the gate build such a World.                              *)
RevisedFixture ==
  [bootstrap |-> 17, steps |-> ImpossibleSteps("ALLOW"), refreshHead |-> 21]

(* One step; valid turns FALSE where the code throws. *)
ApplyStep(world, step) ==
  IF step.kind = "commit"
    THEN [world EXCEPT
           !.head = world.head + 1,
           !.versions = Committed(world.versions, world.head + 1, step.changes),
           !.valid = /\ @
                     /\ step.seq = world.head + 1
                     /\ \A r \in DOMAIN step.changes :
                          Accepts(world.versions, r, world.head + 1)]
    ELSE [world EXCEPT
           !.seen[step.role] = Observation(world.versions, step.role, world.head),
           !.valid = @ /\ step.head = world.head]

Replay(f) ==
  LET start == [head |-> f.bootstrap, versions |-> NoHistory,
                seen |-> [r \in Roles |-> [rev |-> 0, at |-> 0]], valid |-> TRUE]
      end == Seqs!FoldLeft(ApplyStep, start, f.steps)
  IN [head |-> end.head, versions |-> end.versions, seen |-> end.seen,
      valid |-> end.valid]

=============================================================================
