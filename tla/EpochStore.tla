------------------------------ MODULE EpochStore -------------------------------
(***************************************************************************)
(* EpochStore: the database in the memory of one process, its JSON file,   *)
(* and the promise queue that serializes the mutations.                    *)
(*                                                                         *)
(* A mutation clones the database, lets the callback change the clone,     *)
(* writes the clone to a temporary file, renames that over the file and    *)
(* only then replaces what readers see.  Each of these steps is an action: *)
(* between any two the process may crash, and readers and callers of       *)
(* further mutations run.  The temporary file is not a variable: nothing   *)
(* reads it but the rename, and step "written" says that it holds next.    *)
(***************************************************************************)
EXTENDS Naturals, Sequences

CONSTANTS Mutations,     \* the callbacks that mutate may be called with
          Empty,         \* the body of emptyEpochDatabase
          Apply(_, _),   \* what a callback makes of the body of a database
          Refused,       \* what it makes of it when it, or the schema, throws
          MaxWaiting,    \* bound: mutations in the queue
          MaxFaults      \* bound: writes and renames that fail

VARIABLES
  data,     \* what readers see
  file,     \* the content of the file
  queue,    \* the mutations called and not yet settled; the head may be running
  next,     \* the clone of the running mutation
  step,     \* where the running mutation is
  up,       \* the process runs and has initialized the store
  faults    \* writes and renames that failed

storeVars == <<data, file, queue, next, step, up, faults>>

(* No file, and no clone: what is no database. *)
NoFile == [missing |-> TRUE]

emptyEpochDatabase == [rev |-> 0, body |-> Empty]

Steps == {"idle", "applied", "written", "renamed"}

StoreInit ==
  /\ data = emptyEpochDatabase
  /\ file = NoFile
  /\ queue = <<>>
  /\ next = NoFile
  /\ step = "idle"
  /\ up = FALSE
  /\ faults = 0

-----------------------------------------------------------------------------
(* mutate *)

(* A caller calls mutate: it waits behind every earlier call. *)
Mutate(m) ==
  /\ up
  /\ Len(queue) < MaxWaiting
  /\ queue' = Append(queue, m)
  /\ UNCHANGED <<data, file, next, step, up, faults>>

(* What mutating the data now would publish: the store owns the revision. *)
Result == [rev |-> data.rev + 1, body |-> Apply(Head(queue), data.body)]

CanRun == step = "idle" /\ queue # <<>>

(* Mutation of ApplyMutation: what readers see is changed before it is written. *)
ApplyInMemory ==
  /\ CanRun
  /\ Result.body # Refused
  /\ next' = Result
  /\ data' = Result
  /\ step' = "applied"
  /\ UNCHANGED <<file, queue, up, faults>>

(* The callback changes a clone, and the schema accepts it. *)
ApplyMutation ==
  /\ CanRun
  /\ Result.body # Refused
  /\ next' = Result
  /\ step' = "applied"
  /\ UNCHANGED <<data, file, queue, up, faults>>

(* The caller of the running mutation is answered, and the next one may run. *)
Settle ==
  /\ queue' = Tail(queue)
  /\ next' = NoFile
  /\ step' = "idle"

(* The callback or the schema throws. *)
Throw ==
  /\ CanRun
  /\ Result.body = Refused
  /\ Settle
  /\ UNCHANGED <<data, file, up, faults>>

WriteTemporary ==
  /\ step = "applied"
  /\ step' = "written"
  /\ UNCHANGED <<data, file, queue, next, up, faults>>

RenameTemporary ==
  /\ step = "written"
  /\ file' = next
  /\ step' = "renamed"
  /\ UNCHANGED <<data, queue, next, up, faults>>

(* Mutation of PersistFails: the failure is not caught where the queue goes on. *)
PersistFailsUncaught ==
  /\ step \in {"applied", "written"}
  /\ faults < MaxFaults
  /\ faults' = faults + 1
  /\ step' = "rejected"
  /\ next' = NoFile
  /\ UNCHANGED <<data, file, queue, up>>

(* The disk refuses the write or the rename: the caller is told, the queue goes on. *)
PersistFails ==
  /\ step \in {"applied", "written"}
  /\ faults < MaxFaults
  /\ faults' = faults + 1
  /\ Settle
  /\ UNCHANGED <<data, file, up>>

Publish ==
  /\ step = "renamed"
  /\ data' = next
  /\ Settle
  /\ UNCHANGED <<file, up, faults>>

-----------------------------------------------------------------------------
(* The process *)

(* The process dies: with it what readers see and every call in the queue. *)
Crash ==
  /\ up
  /\ up' = FALSE
  /\ data' = emptyEpochDatabase
  /\ queue' = <<>>
  /\ next' = NoFile
  /\ step' = "idle"
  /\ UNCHANGED <<file, faults>>

(* initialize: reads the file, or writes the first one. *)
initialize ==
  /\ ~up
  /\ up' = TRUE
  /\ LET found == IF file = NoFile THEN emptyEpochDatabase ELSE file
     IN file' = found /\ data' = found
  /\ UNCHANGED <<queue, next, step, faults>>

StoreNext ==
  \/ \E m \in Mutations : Mutate(m)
  \/ ApplyMutation \/ Throw \/ WriteTemporary \/ RenameTemporary \/ PersistFails \/ Publish
  \/ Crash \/ initialize

StoreSpec == StoreInit /\ [][StoreNext]_storeVars

-----------------------------------------------------------------------------
(* What the store promises *)

(* What a process that starts now would serve. *)
Durable == IF file = NoFile THEN emptyEpochDatabase ELSE file

Promised == INSTANCE AtomicStore
              WITH db <- IF up THEN data ELSE Durable, waiting <- queue, serving <- up

(* The store implements AtomicStore: readers never see a mutation that a crash *)
(* could take back, no failure and no crash applies a part of one, and the     *)
(* mutations take effect in the order of their calls.                          *)
StoreIsAtomic == Promised!Spec
================================================================================
