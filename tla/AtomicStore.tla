------------------------------ MODULE AtomicStore ------------------------------
(***************************************************************************)
(* What EpochStore promises its callers: the database is one value; the    *)
(* mutations that wait are applied to it one at a time and in the order of *)
(* their calls, each wholly or not at all; and when the process stops the  *)
(* database keeps everything that was published, with the mutation that    *)
(* was being written either in it or not.                                  *)
(***************************************************************************)
EXTENDS Naturals, Sequences

CONSTANTS Mutations,     \* the callbacks that mutate may be called with
          Empty,         \* what a store holds that was never written
          Apply(_, _),   \* what a callback makes of what the store holds
          Refused        \* what it makes of it when it throws

VARIABLES db, waiting, serving

atomicVars == <<db, waiting, serving>>

(* The store owns the revision: one more for each mutation. *)
Applied(m, d) == [rev |-> d.rev + 1, body |-> Apply(m, d.body)]

Init == db = [rev |-> 0, body |-> Empty] /\ waiting = <<>> /\ serving = FALSE

Submit ==
  /\ serving
  /\ \E m \in Mutations : waiting' = Append(waiting, m)
  /\ UNCHANGED <<db, serving>>

(* The first of the waiting mutations takes effect. *)
Succeed ==
  /\ waiting # <<>>
  /\ Apply(Head(waiting), db.body) # Refused
  /\ db' = Applied(Head(waiting), db)
  /\ waiting' = Tail(waiting)
  /\ UNCHANGED serving

(* It fails: it threw, or could not be written.  The others still wait. *)
Refuse ==
  /\ waiting # <<>>
  /\ waiting' = Tail(waiting)
  /\ UNCHANGED <<db, serving>>

Stop ==
  /\ serving
  /\ \/ UNCHANGED db
     \/ /\ waiting # <<>>
        /\ Apply(Head(waiting), db.body) # Refused
        /\ db' = Applied(Head(waiting), db)
  /\ waiting' = <<>>
  /\ serving' = FALSE

Start == ~serving /\ serving' = TRUE /\ UNCHANGED <<db, waiting>>

Next == Submit \/ Succeed \/ Refuse \/ Stop \/ Start

Spec == Init /\ [][Next]_atomicVars
================================================================================
