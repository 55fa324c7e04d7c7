--------------------------- MODULE ProtectedEffect ---------------------------
(***************************************************************************)
(* What EpochGuard promises, without evidence, intervals, Runs or plans.   *)
(*                                                                         *)
(* The World has one truth of each Role's question at a time.  The service *)
(* opens one case at a time and ends it in one step, by refusing it or by  *)
(* publishing one Effect.  It publishes only when, in that very step, the  *)
(* truth of all the questions allows the action, and the Effect says at    *)
(* which head and on which facts.  An ended case is not reopened.          *)
(***************************************************************************)
EXTENDS Naturals

CONSTANT Role      \* those who ask

VARIABLES head,      \* the last sequence number of the World
          truth,     \* of each Role: its revision and value now, if there is one
          status,    \* of the case
          published  \* the Effects of the case

promiseVars == <<head, truth, status, published>>

Fact == [from : Nat, value : {"ALLOW", "DENY"}]

Unknown == [r \in Role |-> {}]

Init ==
  /\ head = 0
  /\ truth = Unknown
  /\ status = "closed"
  /\ published = {}

(* A case is opened in whatever World its scenario prepares. *)
OpenCase ==
  /\ status = "closed"
  /\ head' \in Nat
  /\ truth' \in [Role -> SUBSET Fact]
  /\ status' = "undecided"
  /\ UNCHANGED published

WorldMoves(r) ==
  /\ status # "closed"
  /\ head' = head + 1
  /\ \E value \in {"ALLOW", "DENY"} :
       truth' = [truth EXCEPT ![r] = {[from |-> head + 1, value |-> value]}]
  /\ UNCHANGED <<status, published>>

Publish ==
  /\ status = "undecided"
  /\ published = {}
  /\ status' = "published"
  /\ \E basis \in [Role -> UNION {truth[r] : r \in Role}] :
       /\ \A r \in Role : basis[r] \in truth[r] /\ basis[r].value = "ALLOW"
       /\ published' = {[cut |-> head, basis |-> basis]}
  /\ UNCHANGED <<head, truth>>

Refuse ==
  /\ status = "undecided"
  /\ status' = "refused"
  /\ UNCHANGED <<head, truth, published>>

CloseCase ==
  /\ status \in {"published", "refused"}
  /\ head' = 0
  /\ truth' = Unknown
  /\ status' = "closed"
  /\ published' = {}

Next ==
  \/ OpenCase
  \/ \E r \in Role : WorldMoves(r)
  \/ Publish
  \/ Refuse
  \/ CloseCase

Spec == Init /\ [][Next]_promiseVars

=============================================================================
