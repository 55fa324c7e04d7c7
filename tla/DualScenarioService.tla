-------------------------- MODULE DualScenarioService --------------------------
(***************************************************************************)
(* The start of the server and the service of two scenario partitions.     *)
(*                                                                         *)
(* Each partition is an EpochStore and an EpochGuardService; both share    *)
(* three Role Agents of AgentService, which the first start creates and    *)
(* registers.  Of the Session of a partition this module keeps whether it  *)
(* is in flight, open to a command, or terminal: EpochGuardService has the *)
(* rest.  Commands hold one lock; background continuations do not.         *)
(***************************************************************************)
EXTENDS Integers, FiniteSets

CONSTANTS Inventory, Budget, Policy,   \* ROLES, in this order
          MaxAgents                    \* bound: Agents created of each Role

Roles == {Inventory, Budget, Policy}

ASSUME RolesDistinct == Cardinality(Roles) = 3

ASSUME AgentBound == MaxAgents \in Nat \ {0}

VARIABLES
  made,        \* how many Agents of the name of each Role AgentService stores
  status,      \* the status of each of them
  agentsMd,    \* AGENTS.md in the workspace of each of them
  reg,         \* roleAgentRegistrations: the Agent registered for each Role, or 0
  session,     \* the Session of each partition
  owned,       \* backgroundTasks of each partition: its continuation runs, or has settled
  boot,        \* where the start of the server is
  command      \* who holds the mutation lock, and where it is

dualVars == <<made, status, agentsMd, reg, session, owned, boot, command>>

-----------------------------------------------------------------------------
(* Types *)

Partitions == {"normal", "impossible"}

Other(p) == IF p = "normal" THEN "impossible" ELSE "normal"

AgentNumber == 1..MaxAgents

(* "open" waits for a refresh or a commit; a partition without a Session is    *)
(* pristine but for its registrations.                                         *)
SessionStates == {"none", "inflight", "open", "terminal"}

BootSteps == {"down", "refused", "first", "create", "register", "reverify", "copy",
              "second", "reverifySecond", "converge", "up"}

(* "fresh" is what the platform wrote, in a workspace where no Run has worked;  *)
(* a Run may leave the file "kept", of the digest registered, or "changed".     *)
Files == {"fresh", "kept", "changed"}

Free == [op |-> "none", part |-> "normal"]

Commands == [op : {"none", "create", "refresh", "reset", "resetSecond"}, part : Partitions]

DualTypeOK ==
  /\ made \in [Roles -> 0..MaxAgents]
  /\ status \in [Roles -> [AgentNumber -> {"none", "ready", "busy", "error"}]]
  /\ agentsMd \in [Roles -> [AgentNumber -> Files]]
  /\ reg \in [Partitions -> [Roles -> 0..MaxAgents]]
  /\ session \in [Partitions -> SessionStates]
  /\ owned \in [Partitions -> {"none", "running", "settled"}]
  /\ boot \in [at : BootSteps, part : Partitions]
  /\ command \in Commands

Registered(p) == {r \in Roles : reg[p][r] # 0}

Pristine(p) == Registered(p) = {} /\ session[p] = "none"

Complete(p) ==
  /\ Registered(p) = Roles
  /\ Cardinality({<<r, reg[p][r]>> : r \in Roles}) = 3

(* Registrations of both partitions name the same Agents. *)
Agree == reg["normal"] = reg["impossible"]

Active == {p \in Partitions : session[p] \in {"inflight", "open"}}

Down == [at |-> "down", part |-> "normal"]

DualInit ==
  /\ made = [r \in Roles |-> 0]
  /\ status = [r \in Roles |-> [n \in AgentNumber |-> "none"]]
  /\ agentsMd = [r \in Roles |-> [n \in AgentNumber |-> "fresh"]]
  /\ reg = [p \in Partitions |-> [r \in Roles |-> 0]]
  /\ session = [p \in Partitions |-> "none"]
  /\ owned = [p \in Partitions |-> "none"]
  /\ boot = Down
  /\ command = Free

-----------------------------------------------------------------------------
(* Start *)

(* inspectRegistrations does not throw. *)
Inspects(p) == Pristine(p) \/ Complete(p)

(* Mutation of FirstPartition: the partition that has no registrations yet.    *)
FirstIncomplete == IF Complete("normal") THEN "impossible" ELSE "normal"

(* Of two complete partitions, or two pristine ones, Normal initializes first. *)
FirstPartition == IF ~Complete("normal") /\ Complete("impossible") THEN "impossible" ELSE "normal"

Begins ==
  /\ \A p \in Partitions : Inspects(p)
  /\ Cardinality(Active) <= 1
  /\ (\A p \in Partitions : Complete(p)) => Agree

Refused == [boot EXCEPT !.at = "refused"]

(* Mutation of Start: Agents whose Run the last server did not end stay busy. *)
StartKeepsBusy ==
  /\ boot.at \in {"down", "refused"}
  /\ boot' = IF Begins THEN [at |-> "first", part |-> FirstPartition] ELSE Refused
  /\ UNCHANGED <<made, status, agentsMd, reg, session, owned, command>>

(* AgentService.initialize frees busy Agents; then both stores are inspected.  *)
Start ==
  /\ boot.at \in {"down", "refused"}
  /\ status' = [r \in Roles |-> [n \in AgentNumber |->
                  IF status[r][n] = "busy" THEN "ready" ELSE status[r][n]]]
  /\ boot' = IF Begins THEN [at |-> "first", part |-> FirstPartition] ELSE Refused
  /\ UNCHANGED <<made, agentsMd, reg, session, owned, command>>

(* The next Role in the order of ROLES that has no registration. *)
NextRole(p) ==
  IF Inventory \notin Registered(p) THEN Inventory
  ELSE IF Budget \notin Registered(p) THEN Budget ELSE Policy

(* verifyRoleAgentProfile: the Agent registered for a Role is ready, and       *)
(* AGENTS.md in its workspace is of the digest that was registered.  Its name,  *)
(* description and instructions cannot have changed: the routes refuse to edit  *)
(* or delete a Role Agent.                                                      *)
RoleVerified(p, r) == status[r][reg[p][r]] = "ready" /\ agentsMd[r][reg[p][r]] # "changed"

Verified(p) == \A r \in Registered(p) : RoleVerified(p, r)

Recovered(p) == [session EXCEPT ![p] = IF @ = "inflight" THEN "terminal" ELSE @]

(* A partition's service initializes: it closes what was in flight in its      *)
(* store, verifies the Roles that are registered and turns to the next that is *)
(* not.  The second partition's registrations are complete when it begins.     *)
InitializePartition ==
  /\ boot.at \in {"first", "second"}
  /\ session' = Recovered(boot.part)
  /\ boot' = IF ~Verified(boot.part) THEN Refused
             ELSE IF boot.at = "second" THEN [boot EXCEPT !.at = "reverifySecond"]
             ELSE IF Registered(boot.part) = Roles THEN [boot EXCEPT !.at = "reverify"]
             ELSE [boot EXCEPT !.at = "create"]
  /\ UNCHANGED <<made, status, agentsMd, reg, owned, command>>

(* Once all Roles are registered each is verified, those of old once more. *)
ReverifyRoles ==
  /\ boot.at \in {"reverify", "reverifySecond"}
  /\ boot' = IF ~Verified(boot.part) THEN Refused
             ELSE [boot EXCEPT !.at = IF boot.at = "reverify" THEN "copy" ELSE "converge"]
  /\ UNCHANGED <<made, status, agentsMd, reg, session, owned, command>>

CreateRoleAgent ==
  /\ boot.at = "create"
  /\ LET r == NextRole(boot.part)
     IN /\ made[r] < MaxAgents
        /\ made' = [made EXCEPT ![r] = @ + 1]
        /\ status' = [status EXCEPT ![r][made[r] + 1] = "ready"]
  /\ boot' = [boot EXCEPT !.at = "register"]
  /\ UNCHANGED <<agentsMd, reg, session, owned, command>>

(* The Agent just created is registered, in a mutation of its own. *)
RegisterRoleAgent ==
  /\ boot.at = "register"
  /\ LET p == boot.part
         r == NextRole(p)
     IN /\ reg' = [reg EXCEPT ![p][r] = made[r]]
        /\ boot' = IF Registered(p) \cup {r} = Roles THEN [boot EXCEPT !.at = "reverify"]
                   ELSE [boot EXCEPT !.at = "create"]
  /\ UNCHANGED <<made, status, agentsMd, session, owned, command>>

(* A pristine second partition receives the registrations of the first. *)
CopyRegistrations ==
  /\ boot.at = "copy"
  /\ LET q == Other(boot.part)
     IN /\ reg' = IF Complete(q) THEN reg ELSE [reg EXCEPT ![q] = reg[boot.part]]
        /\ boot' = [at |-> "second", part |-> q]
  /\ UNCHANGED <<made, status, agentsMd, session, owned, command>>

(* Both partitions are inspected again; then createApp looks each Role Agent   *)
(* up by its name and demands exactly one, and the server listens.             *)
Listen ==
  /\ boot.at = "converge"
  /\ boot' = IF /\ \A p \in Partitions : Complete(p)
                /\ Agree
                /\ Cardinality(Active) <= 1
                /\ \A r \in Roles : made[r] = 1
             THEN [boot EXCEPT !.at = "up"] ELSE Refused
  /\ UNCHANGED <<made, status, agentsMd, reg, session, owned, command>>

(* The process stops, in the middle of a start too. *)
ServerStops ==
  /\ boot.at \notin {"down", "refused"}
  /\ boot' = Down
  /\ owned' = [p \in Partitions |-> "none"]
  /\ command' = Free
  /\ UNCHANGED <<made, status, agentsMd, reg, session>>

-----------------------------------------------------------------------------
(* Commands under the lock *)

Up == boot.at = "up"

Command(op, p) == command.op = op /\ command.part = p

Take(op, p) == Up /\ command = Free /\ command' = [op |-> op, part |-> p]

Release == command' = Free

(* Mutation of AdmitCreate: only the partition itself is looked at. *)
AdmitCreateLocally(p) ==
  /\ Take("create", p)
  /\ \A q \in Partitions : Complete(q)
  /\ Agree
  /\ p \notin Active
  /\ UNCHANGED <<made, status, agentsMd, reg, session, owned, boot>>

(* createSession looks at both stores first ... *)
AdmitCreate(p) ==
  /\ Take("create", p)
  /\ \A q \in Partitions : Complete(q)
  /\ Agree
  /\ Active = {}
  /\ UNCHANGED <<made, status, agentsMd, reg, session, owned, boot>>

(* ... and creates in its own, when the Agents are ready and the World is new. *)
CreateSession(p) ==
  /\ Command("create", p)
  /\ IF Verified(p) /\ session[p] = "none"
     THEN /\ session' = [session EXCEPT ![p] = "inflight"]
          /\ owned' = [owned EXCEPT ![p] = "running"]
     ELSE UNCHANGED <<session, owned>>
  /\ Release
  /\ UNCHANGED <<made, status, agentsMd, reg, boot>>

(* A refresh holds the lock for the whole re-observation. *)
BeginRefresh(p) ==
  /\ Take("refresh", p)
  /\ session[p] = "open" /\ Cardinality(Active) <= 1
  /\ RoleVerified(p, Budget)
  /\ session' = [session EXCEPT ![p] = "inflight"]
  /\ UNCHANGED <<made, status, agentsMd, reg, owned, boot>>

EndRefresh(p) ==
  /\ Command("refresh", p)
  /\ session' \in {[session EXCEPT ![p] = s] : s \in {"inflight", "open", "terminal"}}
  /\ Release
  /\ UNCHANGED <<made, status, agentsMd, reg, owned, boot>>

(* A commit is one mutation: it publishes, or finds a race; both end the Session. *)
Commit(p) ==
  /\ Up /\ command = Free
  /\ session[p] = "open" /\ Cardinality(Active) <= 1
  /\ session' = [session EXCEPT ![p] = "terminal"]
  /\ UNCHANGED <<made, status, agentsMd, reg, owned, boot, command>>

(* resetDemo of a partition refuses a Session that is active or still owned. *)
Resettable(p) == p \notin Active /\ owned[p] = "none"

BeginReset ==
  /\ Take("reset", "normal")
  /\ Active = {}
  /\ UNCHANGED <<made, status, agentsMd, reg, session, owned, boot>>

(* Normal resets first; when it refuses, Impossible is not asked. *)
ResetNormal ==
  /\ Command("reset", "normal")
  /\ IF Resettable("normal")
     THEN /\ session' = [session EXCEPT !["normal"] = "none"]
          /\ command' = [op |-> "resetSecond", part |-> "impossible"]
     ELSE Release /\ UNCHANGED session
  /\ UNCHANGED <<made, status, agentsMd, reg, owned, boot>>

ResetImpossible ==
  /\ Command("resetSecond", "impossible")
  /\ session' = IF Resettable("impossible") THEN [session EXCEPT !["impossible"] = "none"]
                ELSE session
  /\ Release
  /\ UNCHANGED <<made, status, agentsMd, reg, owned, boot>>

-----------------------------------------------------------------------------
(* Beside the lock *)

(* The continuation of a Session leaves it open or terminal, and gives up its  *)
(* ownership in a step of its own.                                             *)
Continue(p) ==
  /\ Up /\ owned[p] = "running"
  /\ session' \in {[session EXCEPT ![p] = s] : s \in {"open", "terminal"}}
  /\ owned' = [owned EXCEPT ![p] = "settled"]
  /\ UNCHANGED <<made, status, agentsMd, reg, boot, command>>

ReleaseOwnership(p) ==
  /\ Up /\ owned[p] = "settled"
  /\ owned' = [owned EXCEPT ![p] = "none"]
  /\ UNCHANGED <<made, status, agentsMd, reg, session, boot, command>>

(* A Run of a Role's Agent begins while its Session is in flight, once the      *)
(* Role is verified.  It may end after its Session, and an Agent whose Run      *)
(* failed is left in error.                                                     *)
RunBegins(r) ==
  /\ Up
  /\ \E p \in Partitions :
       LET n == reg[p][r] IN
       /\ session[p] = "inflight" /\ RoleVerified(p, r)
       /\ status' = [status EXCEPT ![r][n] = "busy"]
       /\ agentsMd' = [agentsMd EXCEPT ![r][n] = IF @ = "fresh" THEN "kept" ELSE @]
  /\ UNCHANGED <<made, reg, session, owned, boot, command>>

(* A Run works in the workspace of its Agent and may write AGENTS.md too; its   *)
(* process, or one that it started, may outlive the Run and the server.         *)
RunWrites(r) ==
  /\ \E n \in AgentNumber, content \in {"kept", "changed"} :
       /\ agentsMd[r][n] # "fresh"
       /\ agentsMd' = [agentsMd EXCEPT ![r][n] = content]
  /\ UNCHANGED <<made, status, reg, session, owned, boot, command>>

RunEnds(r) ==
  /\ Up
  /\ \E n \in AgentNumber, s \in {"ready", "error"} :
       /\ status[r][n] = "busy"
       /\ status' = [status EXCEPT ![r][n] = s]
  /\ UNCHANGED <<made, agentsMd, reg, session, owned, boot, command>>

-----------------------------------------------------------------------------
Boot ==
  \/ Start \/ InitializePartition
  \/ CreateRoleAgent \/ RegisterRoleAgent
  \/ ReverifyRoles
  \/ CopyRegistrations \/ Listen

Serve(p) ==
  \/ AdmitCreate(p) \/ CreateSession(p)
  \/ BeginRefresh(p) \/ EndRefresh(p)
  \/ Commit(p)
  \/ Continue(p) \/ ReleaseOwnership(p)

DualNext ==
  \/ Boot
  \/ ServerStops
  \/ BeginReset \/ ResetNormal \/ ResetImpossible
  \/ \E p \in Partitions : Serve(p)
  \/ \E r \in Roles : RunBegins(r) \/ RunWrites(r) \/ RunEnds(r)

DualSpec == DualInit /\ [][DualNext]_dualVars

-----------------------------------------------------------------------------
(* Properties *)

(* At most one of the two partitions has a Session that is not terminal, since *)
(* scanStores refuses every request and every start otherwise.  The check and  *)
(* the creation are apart, and continuations write without the lock.           *)
OneActiveSession == Cardinality(Active) <= 1

(* A start that initialized both partitions finds them complete and in         *)
(* agreement, wherever earlier starts and resets were cut off: its last check  *)
(* never reports that the registrations did not converge.                      *)
StartConverges ==
  boot.at \in {"converge", "up"} => Agree /\ \A p \in Partitions : Complete(p)

PartlyRegistered == \E p \in Partitions : Registered(p) \notin {{}, Roles}

OrphanAgent == \E r \in Roles : made[r] > Cardinality({reg[p][r] : p \in Partitions} \ {0})

(* A Run of the Agent failed, or a Run left another AGENTS.md behind. *)
Spoilt(r, n) == status[r][n] = "error" \/ agentsMd[r][n] = "changed"

(* A start refuses, at each of its checks, only over what an interrupted first  *)
(* start left or what a Run did to a Role Agent; never over two stores that     *)
(* disagree, two active Sessions, registrations that did not converge, business *)
(* data without registrations or an Agent that a crash left busy, whatever was  *)
(* cut off between the two stores.                                              *)
RefusalHasCause ==
  [][boot' # boot /\ boot'.at = "refused" =>
       \/ boot.at = "down" /\ PartlyRegistered
       \/ /\ boot.at \in {"first", "reverify", "second", "reverifySecond"}
          /\ \E r \in Registered(boot.part) : Spoilt(r, reg[boot.part][r])
       \/ boot.at = "converge" /\ OrphanAgent]_dualVars

-----------------------------------------------------------------------------
(* What the repository says of the service *)

(* role-profiles.ts: a partial initialization resumes.  A start that refuses   *)
(* does so over an Agent, not over what an interrupted start left behind.      *)
InterruptedStartResumes == boot.at = "refused" => ~PartlyRegistered /\ ~OrphanAgent

=============================================================================
