------------------------------- MODULE DualProofs -------------------------------
(***************************************************************************)
(* Proofs about the two scenario partitions: at most one of them has a     *)
(* Session that is not terminal, a start that initialized both finds them  *)
(* in agreement, and a start refuses only over what an interrupted first   *)
(* start left or what a Run did to a Role Agent.                           *)
(***************************************************************************)
EXTENDS DualScenarioService, FiniteSetTheorems, TLAPS

-----------------------------------------------------------------------------
(* Facts about the definitions *)

LEMMA PairsAreSmall == ASSUME NEW a, NEW b PROVE Cardinality({a, b}) # 3
<1>1. IsFiniteSet({b}) /\ Cardinality({b}) = 1
  BY FS_Singleton
<1>2. Cardinality({b} \cup {a}) = IF a \in {b} THEN 1 ELSE 1 + 1
  BY <1>1, FS_AddElement
<1>3. {a, b} = {b} \cup {a}
  OBVIOUS
<1> QED
  BY <1>2, <1>3

LEMMA RolesAreThree ==
  Inventory # Budget /\ Inventory # Policy /\ Budget # Policy
<1>1. CASE Inventory = Budget
  BY <1>1, PairsAreSmall, RolesDistinct, Roles = {Budget, Policy} DEF Roles
<1>2. CASE Inventory = Policy
  BY <1>2, PairsAreSmall, RolesDistinct, Roles = {Budget, Policy} DEF Roles
<1>3. CASE Budget = Policy
  BY <1>3, PairsAreSmall, RolesDistinct, Roles = {Inventory, Policy} DEF Roles
<1> QED
  BY <1>1, <1>2, <1>3

(* Registrations of different Roles differ, whatever Agents they name. *)
LEMMA CompleteIsFull ==
  ASSUME NEW p PROVE Complete(p) <=> Registered(p) = Roles
<1> DEFINE pair(r) == <<r, reg[p][r]>>
<1>1. {pair(r) : r \in Roles} = ({pair(Inventory)} \cup {pair(Budget)}) \cup {pair(Policy)}
  BY DEF Roles
<1>2. pair(Budget) \notin {pair(Inventory)}
      /\ pair(Policy) \notin {pair(Inventory)} \cup {pair(Budget)}
  BY RolesAreThree
<1>3. IsFiniteSet({pair(Inventory)}) /\ Cardinality({pair(Inventory)}) = 1
  BY FS_Singleton
<1> HIDE DEF pair
<1>4. /\ IsFiniteSet({pair(Inventory)} \cup {pair(Budget)})
      /\ Cardinality({pair(Inventory)} \cup {pair(Budget)}) = 2
  BY <1>2, <1>3, FS_AddElement
<1>5. Cardinality(({pair(Inventory)} \cup {pair(Budget)}) \cup {pair(Policy)}) = 2 + 1
  BY <1>2, <1>4, FS_AddElement
<1>6. Cardinality({pair(r) : r \in Roles}) = 3
  BY <1>1, <1>5
<1> QED
  BY <1>6 DEF Complete, pair

(* The next Role to register has no registration yet. *)
LEMMA NextRoleIsOpen ==
  ASSUME NEW p, Registered(p) # Roles
  PROVE  NextRole(p) \in Roles /\ NextRole(p) \notin Registered(p)
  BY DEF NextRole, Registered, Roles

(* A partition that is not the last with an active Session. *)
AtMostOne == \E p \in Partitions : p \notin Active

LEMMA AtMostOneCounts == AtMostOne => Cardinality(Active) <= 1
<1> SUFFICES ASSUME NEW p \in Partitions, p \notin Active
             PROVE  Cardinality(Active) <= 1
  BY DEF AtMostOne
<1>1. Active = {} \/ Active = {Other(p)}
  BY DEF Active, Partitions, Other
<1>2. Cardinality({}) = 0 /\ Cardinality({Other(p)}) = 1
  BY FS_EmptySet, FS_Singleton
<1> QED
  BY <1>1, <1>2

-----------------------------------------------------------------------------
(* The invariant *)

(* Who holds the lock, and the continuation of a Session, know what is active. *)
LockInv ==
  /\ command.op = "create" => Active = {}
  /\ command.op = "refresh" => /\ session[command.part] = "inflight"
                               /\ owned[command.part] # "running"
  /\ \A p \in Partitions : owned[p] = "running" => session[p] = "inflight"
  /\ boot.at # "up" => command = Free /\ \A p \in Partitions : owned[p] = "none"

(* What the two stores hold follows the Agents, and one another. *)
RegInv ==
  /\ \A p \in Partitions, r \in Roles : reg[p][r] <= made[r]
  /\ \A r \in Roles : \A n \in 1..made[r] : status[r][n] # "none"
  /\ (\A p \in Partitions : Registered(p) = Roles) => Agree
  /\ \A p \in Partitions : Registered(p) = {} => session[p] = "none"

(* What each step of a start has established. *)
BootInv ==
  /\ boot.at \in {"first", "create", "register", "reverify", "copy"} =>
       \/ Pristine(Other(boot.part))
       \/ \A p \in Partitions : Registered(p) = Roles
  /\ boot.at \in {"create", "register"} => Registered(boot.part) # Roles
  /\ boot.at = "register" => made[NextRole(boot.part)] # 0
  /\ boot.at \in {"reverify", "copy"} => Registered(boot.part) = Roles
  /\ boot.at \in {"second", "reverifySecond", "converge", "up"} =>
       \A p \in Partitions : Registered(p) = Roles
  /\ boot.at \notin {"down", "refused", "up"} =>
       \A r \in Roles : \A n \in AgentNumber : status[r][n] # "busy"

DualInv == DualTypeOK /\ AtMostOne /\ LockInv /\ RegInv /\ BootInv

LEMMA InitDual == DualInit => DualInv
<1> SUFFICES ASSUME DualInit PROVE DualInv
  OBVIOUS
<1> USE DEF DualInit
<1>1. DualTypeOK
  BY AgentBound DEF DualTypeOK, Files, Partitions, SessionStates, BootSteps, Commands, Free, Down, AgentNumber
<1>2. AtMostOne /\ LockInv
  BY DEF AtMostOne, LockInv, Active, Partitions, Free
<1>3. RegInv
  BY DEF RegInv, Agree, Partitions
<1>4. BootInv
  BY DEF BootInv, Down
<1> QED
  BY <1>1, <1>2, <1>3, <1>4 DEF DualInv

-----------------------------------------------------------------------------
(* Types *)

LEMMA NextTypes ==
  ASSUME DualInv, DualNext
  PROVE  DualTypeOK'
<1> USE DEF DualInv, DualTypeOK
<1>1. CASE Boot
  <2>1. CASE Start
    BY <2>1 DEF Start, Refused, FirstPartition, BootSteps, Partitions
  <2>2. CASE InitializePartition
    BY <2>2 DEF InitializePartition, Refused, Recovered, BootSteps, SessionStates
  <2>3. CASE CreateRoleAgent
    <3>1. NextRole(boot.part) \in Roles
      BY DEF NextRole, Roles
    <3>2. made' \in [Roles -> 0..MaxAgents]
      BY <2>3, <3>1, AgentBound DEF CreateRoleAgent
    <3>3. made[NextRole(boot.part)] + 1 \in AgentNumber
      BY <2>3, <3>1, AgentBound DEF CreateRoleAgent, AgentNumber
    <3>4. status' \in [Roles -> [AgentNumber -> {"none", "ready", "busy", "error"}]]
      BY <2>3, <3>1, <3>3 DEF CreateRoleAgent
    <3> QED
      BY <2>3, <3>2, <3>4 DEF CreateRoleAgent, BootSteps
  <2>4. CASE RegisterRoleAgent
    <3>1. NextRole(boot.part) \in Roles
      BY DEF NextRole, Roles
    <3> QED
      BY <2>4, <3>1 DEF RegisterRoleAgent, BootSteps
  <2>5. CASE CopyRegistrations
    BY <2>5 DEF CopyRegistrations, BootSteps, Other, Partitions
  <2>6. CASE Listen
    BY <2>6 DEF Listen, Refused, BootSteps
  <2>7. CASE ReverifyRoles
    BY <2>7 DEF ReverifyRoles, Refused, BootSteps
  <2> QED
    BY <1>1, <2>1, <2>2, <2>3, <2>4, <2>5, <2>6, <2>7 DEF Boot
<1>2. CASE ServerStops
  BY <1>2 DEF ServerStops, Down, Free, Commands, BootSteps, Partitions
<1>3. CASE BeginReset \/ ResetNormal \/ ResetImpossible
  BY <1>3 DEF BeginReset, ResetNormal, ResetImpossible, Take, Command, Release, Commands, Free,
     Partitions, SessionStates
<1>4. ASSUME NEW p \in Partitions, Serve(p)
      PROVE  DualTypeOK'
  BY <1>4 DEF Serve, AdmitCreate, CreateSession, BeginRefresh, EndRefresh, Commit, Continue,
     ReleaseOwnership, Take, Command, Release, Commands, Free, SessionStates, Partitions
<1>5. ASSUME NEW r \in Roles, RunBegins(r) \/ RunEnds(r)
      PROVE  DualTypeOK'
  <2>1. \E n : \E s \in {"ready", "busy", "error"} : status' = [status EXCEPT ![r][n] = s]
    <3>1. CASE RunBegins(r)
      BY <3>1 DEF RunBegins
    <3>2. CASE RunEnds(r)
      BY <3>2 DEF RunEnds
    <3> QED
      BY <1>5, <3>1, <3>2
  <2>2. status' \in [Roles -> [AgentNumber -> {"none", "ready", "busy", "error"}]]
    <3>0. PICK n : \E s \in {"ready", "busy", "error"} : status' = [status EXCEPT ![r][n] = s]
      BY <2>1
    <3>1. PICK s \in {"ready", "busy", "error"} : status' = [status EXCEPT ![r][n] = s]
      BY <3>0
    <3>2. [status[r] EXCEPT ![n] = s] \in [AgentNumber -> {"none", "ready", "busy", "error"}]
      OBVIOUS
    <3> QED
      BY <3>1, <3>2
  <2>3. agentsMd' \in [Roles -> [AgentNumber -> Files]]
    <3>1. CASE RunBegins(r)
      <4>1. PICK p \in Partitions :
              agentsMd' = [agentsMd EXCEPT ![r][reg[p][r]] = IF @ = "fresh" THEN "kept" ELSE @]
        BY <3>1 DEF RunBegins
      <4> QED
        BY <4>1 DEF Files
    <3>2. CASE RunEnds(r)
      BY <3>2 DEF RunEnds
    <3> QED
      BY <1>5, <3>1, <3>2
  <2> QED
    BY <1>5, <2>2, <2>3 DEF RunBegins, RunEnds
<1>6. ASSUME NEW r \in Roles, RunWrites(r)
      PROVE  DualTypeOK'
  <2>1. PICK n \in AgentNumber, content \in {"kept", "changed"} :
          agentsMd' = [agentsMd EXCEPT ![r][n] = content]
    BY <1>6 DEF RunWrites
  <2>2. agentsMd' \in [Roles -> [AgentNumber -> Files]]
    BY <2>1 DEF Files
  <2> QED
    BY <1>6, <2>2 DEF RunWrites
<1> QED
  BY <1>1, <1>2, <1>3, <1>4, <1>5, <1>6 DEF DualNext

-----------------------------------------------------------------------------
(* Sessions *)

LEMMA NextSessions ==
  ASSUME DualInv, DualNext
  PROVE  AtMostOne' /\ LockInv'
<1> USE DEF DualInv, DualTypeOK, AtMostOne, LockInv, Active
<1>1. CASE Boot
  BY <1>1 DEF Boot, Start, InitializePartition, CreateRoleAgent, RegisterRoleAgent,
     ReverifyRoles, CopyRegistrations, Listen, Refused, Recovered, Free
<1>2. CASE ServerStops
  BY <1>2 DEF ServerStops, Down, Free, Partitions
<1>3. CASE BeginReset \/ ResetNormal \/ ResetImpossible
  BY <1>3 DEF BeginReset, ResetNormal, ResetImpossible, Take, Command, Release, Free,
     Partitions, Resettable, Up
<1>4. ASSUME NEW p \in Partitions, Serve(p)
      PROVE  AtMostOne' /\ LockInv'
  <2>1. CASE AdmitCreate(p)
    BY <2>1 DEF AdmitCreate, Take, Up, Free
  <2>2. CASE CreateSession(p)
    BY <2>2 DEF CreateSession, Command, Release, Free, Partitions
  <2>3. CASE BeginRefresh(p)
    BY <2>3 DEF BeginRefresh, Take, Up, Free
  <2>4. CASE EndRefresh(p)
    BY <2>4 DEF EndRefresh, Command, Release, Free
  <2>5. CASE Commit(p)
    BY <2>5 DEF Commit, Up, Free
  <2>6. CASE Continue(p)
    <3>1. PICK s \in {"open", "terminal"} : session' = [session EXCEPT ![p] = s]
      BY <2>6 DEF Continue
    <3>2. session[p] = "inflight" /\ owned' = [owned EXCEPT ![p] = "settled"]
      BY <2>6 DEF Continue
    <3>3. boot' = boot /\ command' = command /\ boot.at = "up"
      BY <2>6 DEF Continue, Up
    <3>4. command.op = "refresh" => command.part # p
      BY <2>6 DEF Continue
    <3> QED
      BY <3>1, <3>2, <3>3, <3>4
  <2>7. CASE ReleaseOwnership(p)
    BY <2>7 DEF ReleaseOwnership, Up
  <2> QED
    BY <1>4, <2>1, <2>2, <2>3, <2>4, <2>5, <2>6, <2>7 DEF Serve
<1>5. ASSUME NEW r \in Roles, RunBegins(r) \/ RunWrites(r) \/ RunEnds(r)
      PROVE  AtMostOne' /\ LockInv'
  BY <1>5 DEF RunBegins, RunWrites, RunEnds
<1> QED
  BY <1>1, <1>2, <1>3, <1>4, <1>5 DEF DualNext

-----------------------------------------------------------------------------
(* Registrations *)

(* A step that registers nobody and leaves the Agents where they are. *)
LEMMA RegistrationsStay ==
  ASSUME DualInv, UNCHANGED <<made, reg>>,
         \A r \in Roles : \A n \in AgentNumber : status[r][n] # "none" => status'[r][n] # "none",
         \A p \in Partitions : session[p] = "none" /\ Registered(p) = {} => session'[p] = "none"
  PROVE  RegInv'
<1> USE DEF DualInv, DualTypeOK, RegInv
<1>1. ASSUME NEW r \in Roles
      PROVE  \A n \in 1..made[r] : n \in AgentNumber
  BY AgentBound DEF AgentNumber
<1>2. \A p \in Partitions : Registered(p)' = Registered(p)
  BY DEF Registered
<1> QED
  BY <1>1, <1>2 DEF Agree

LEMMA NextRegistrations ==
  ASSUME DualInv, DualNext
  PROVE  RegInv'
<1> USE DEF DualInv, DualTypeOK
<1>1. CASE Start
  BY <1>1, RegistrationsStay DEF Start
<1>2. CASE InitializePartition
  BY <1>2, RegistrationsStay DEF InitializePartition, Recovered
<1>3. CASE CreateRoleAgent
  <2> DEFINE q == NextRole(boot.part)
  <2>1. q \in Roles
    BY DEF NextRole, Roles
  <2>2. made' = [made EXCEPT ![q] = @ + 1] /\ reg' = reg /\ session' = session
    BY <1>3 DEF CreateRoleAgent
  <2>3. status' = [status EXCEPT ![q][made[q] + 1] = "ready"] /\ made[q] + 1 \in AgentNumber
    BY <1>3, <2>1, AgentBound DEF CreateRoleAgent, AgentNumber
  <2> HIDE DEF q
  <2>4. ASSUME NEW r \in Roles, NEW n \in 1..made'[r]
        PROVE  status'[r][n] # "none"
    <3>1. CASE r = q /\ n = made[q] + 1
      BY <2>1, <2>3, <3>1
    <3>2. CASE ~(r = q /\ n = made[q] + 1)
      <4>1. n \in 1..made[r] /\ n \in AgentNumber
        BY <2>1, <2>2, <2>3, <3>2, AgentBound DEF AgentNumber
      <4>2. status'[r][n] = status[r][n]
        BY <2>1, <2>3, <3>2, <4>1
      <4> QED
        BY <4>1, <4>2 DEF RegInv
    <3> QED
      BY <3>1, <3>2
  <2>5. \A p \in Partitions, r \in Roles : reg'[p][r] <= made'[r]
    BY <2>1, <2>2 DEF RegInv
  <2> QED
    BY <2>2, <2>4, <2>5 DEF RegInv, Registered, Agree
<1>4. CASE RegisterRoleAgent
  BY <1>4, NextRoleIsOpen DEF RegisterRoleAgent, RegInv, Registered, Agree, BootInv, Pristine,
     Other, Partitions
<1>5. CASE CopyRegistrations
  BY <1>5, CompleteIsFull DEF CopyRegistrations, RegInv, Registered, Agree, BootInv, Pristine,
     Other, Partitions
<1>6. CASE ReverifyRoles \/ Listen \/ ServerStops \/ BeginReset
  BY <1>6, RegistrationsStay DEF ReverifyRoles, Listen, ServerStops, BeginReset
<1>7. CASE ResetNormal \/ ResetImpossible
  BY <1>7, RegistrationsStay DEF ResetNormal, ResetImpossible
<1>8. ASSUME NEW p \in Partitions, Serve(p)
      PROVE  RegInv'
  <2>1. UNCHANGED <<made, reg, status>>
    BY <1>8 DEF Serve, AdmitCreate, CreateSession, BeginRefresh, EndRefresh, Commit, Continue,
       ReleaseOwnership
  <2>2. boot.at = "up" /\ Registered(p) = Roles /\ Registered(p) # {}
    <3>1. boot.at = "up"
      BY <1>8 DEF Serve, AdmitCreate, CreateSession, BeginRefresh, EndRefresh, Commit, Continue,
         ReleaseOwnership, Take, Up, Command, LockInv, Free
    <3> QED
      BY <3>1 DEF BootInv, Roles
  <2>3. \A q \in Partitions : q # p => session'[q] = session[q]
    BY <1>8 DEF Serve, AdmitCreate, CreateSession, BeginRefresh, EndRefresh, Commit, Continue,
       ReleaseOwnership
  <2> QED
    BY <2>1, <2>2, <2>3, RegistrationsStay
<1>9. ASSUME NEW r \in Roles, RunBegins(r) \/ RunWrites(r) \/ RunEnds(r)
      PROVE  RegInv'
  <2>1. UNCHANGED <<made, reg, session>>
    BY <1>9 DEF RunBegins, RunWrites, RunEnds
  <2>2. \A q \in Roles : \A n \in AgentNumber : status[q][n] # "none" => status'[q][n] # "none"
    <3>1. CASE RunBegins(r)
      BY <3>1 DEF RunBegins
    <3>2. CASE RunWrites(r)
      BY <3>2 DEF RunWrites
    <3>3. CASE RunEnds(r)
      BY <3>3 DEF RunEnds
    <3> QED
      BY <1>9, <3>1, <3>2, <3>3
  <2> QED
    BY <2>1, <2>2, RegistrationsStay
<1> QED
  BY <1>1, <1>2, <1>3, <1>4, <1>5, <1>6, <1>7, <1>8, <1>9 DEF DualNext, Boot

-----------------------------------------------------------------------------
(* The start *)

(* Beside an interrupted first start and a failed Run nothing is refused. *)
LEMMA BeginsUnlessCaused ==
  ASSUME DualInv, ~PartlyRegistered
  PROVE  Begins
<1> USE DEF DualInv
<1>1. ASSUME NEW p \in Partitions
      PROVE  Inspects(p)
  BY CompleteIsFull DEF Inspects, Pristine, PartlyRegistered, RegInv
<1>2. Cardinality(Active) <= 1
  BY AtMostOneCounts
<1>3. (\A p \in Partitions : Complete(p)) => Agree
  BY CompleteIsFull DEF RegInv
<1> QED
  BY <1>1, <1>2, <1>3 DEF Begins

(* A registered Agent that is not verified is one that a Run spoilt: no start   *)
(* finds an Agent that is registered and not stored, or one still busy.         *)
LEMMA VerifiedUnlessSpoilt ==
  ASSUME DualInv, NEW p \in Partitions, ~Verified(p),
         boot.at \notin {"down", "refused", "up"}
  PROVE  \E r \in Registered(p) : Spoilt(r, reg[p][r])
<1> USE DEF DualInv, DualTypeOK
<1>1. PICK r \in Roles : reg[p][r] # 0 /\ ~RoleVerified(p, r)
  BY DEF Verified, Registered
<1>2. reg[p][r] \in AgentNumber /\ reg[p][r] \in 1..made[r]
  BY <1>1, AgentBound DEF AgentNumber, RegInv
<1>3. status[r][reg[p][r]] \notin {"none", "busy"}
  BY <1>2 DEF RegInv, BootInv
<1>4. status[r][reg[p][r]] \in {"ready", "error"}
  BY <1>2, <1>3
<1>5. Spoilt(r, reg[p][r])
  BY <1>1, <1>4 DEF RoleVerified, Spoilt
<1> QED
  BY <1>1, <1>5 DEF Registered

(* Of two partitions that agree each Role has one registered Agent. *)
LEMMA AgreedAgentsAreOne ==
  ASSUME DualInv, boot.at = "converge", NEW r \in Roles, made[r] # 1
  PROVE  OrphanAgent
<1> USE DEF DualInv, DualTypeOK
<1>1. /\ Registered("normal") = Roles
      /\ reg["normal"] = reg["impossible"]
  BY DEF BootInv, RegInv, Agree, Partitions
<1>2. reg["normal"][r] # 0 /\ reg["normal"][r] <= made[r]
  BY <1>1 DEF Registered, RegInv, Partitions
<1>3. {reg[p][r] : p \in Partitions} \ {0} = {reg["normal"][r]}
  BY <1>1, <1>2 DEF Partitions
<1>4. Cardinality({reg["normal"][r]}) = 1
  BY FS_Singleton
<1>5. reg["normal"][r] \in 0..MaxAgents /\ made[r] \in 0..MaxAgents
  BY DEF Partitions
<1>6. made[r] > 1
  <2>1. ASSUME NEW a \in 0..MaxAgents, NEW m \in 0..MaxAgents, a # 0, a <= m, m # 1
        PROVE  m > 1
    BY <2>1, AgentBound
  <2> QED
    BY <1>2, <1>5, <2>1
<1> QED
  BY <1>3, <1>4, <1>6 DEF OrphanAgent

LEMMA NextStart ==
  ASSUME DualInv, DualNext
  PROVE  BootInv'
<1> USE DEF DualInv, DualTypeOK
<1>1. CASE Start
  <2>1. UNCHANGED <<made, reg, session>>
    BY <1>1 DEF Start
  <2>2. \A r \in Roles : \A n \in AgentNumber : status'[r][n] # "busy"
    BY <1>1 DEF Start
  <2>3. CASE Begins
    <3>1. boot' = [at |-> "first", part |-> FirstPartition]
      BY <1>1, <2>3 DEF Start
    <3>2. \/ Pristine(Other(FirstPartition))
          \/ \A p \in Partitions : Registered(p) = Roles
      BY <2>3, CompleteIsFull DEF Begins, Inspects, FirstPartition, Other, Partitions
    <3> QED
      BY <2>1, <2>2, <3>1, <3>2 DEF BootInv, Pristine, Registered
  <2>4. CASE ~Begins
    <3>1. boot'.at = "refused"
      BY <1>1, <2>4 DEF Start, Refused
    <3> QED
      BY <3>1 DEF BootInv
  <2> QED
    BY <2>3, <2>4
<1>2. CASE InitializePartition
  <2>1. UNCHANGED <<made, reg, status>> /\ boot.at \in {"first", "second"}
    BY <1>2 DEF InitializePartition
  <2>2. CASE ~Verified(boot.part)
    <3>1. boot'.at = "refused"
      BY <1>2, <2>2 DEF InitializePartition, Refused
    <3> QED
      BY <3>1 DEF BootInv
  <2>3. CASE Verified(boot.part)
    <3>1. /\ boot'.part = boot.part
          /\ boot'.at = IF boot.at = "second" THEN "reverifySecond"
                        ELSE IF Registered(boot.part) = Roles THEN "reverify" ELSE "create"
      BY <1>2, <2>3 DEF InitializePartition
    <3>2. \A p \in Partitions : session[p] = "none" => session'[p] = "none"
      BY <1>2 DEF InitializePartition, Recovered
    <3>3. Other(boot.part) \in Partitions
      BY DEF Other, Partitions
    <3> QED
      BY <2>1, <3>1, <3>2, <3>3 DEF BootInv, Pristine, Registered
  <2> QED
    BY <2>2, <2>3
<1>3. CASE CreateRoleAgent
  <2> DEFINE q == NextRole(boot.part)
  <2>1. q \in Roles
    BY DEF NextRole, Roles
  <2>2. /\ made' = [made EXCEPT ![q] = @ + 1]
        /\ UNCHANGED <<reg, session>>
        /\ boot.at = "create" /\ boot' = [boot EXCEPT !.at = "register"]
    BY <1>3 DEF CreateRoleAgent
  <2>3. made'[q] # 0
    <3>1. made[q] \in 0..MaxAgents /\ made'[q] = made[q] + 1
      BY <2>1, <2>2
    <3> QED
      BY <3>1, AgentBound
  <2>4. \A r \in Roles : \A n \in AgentNumber : status'[r][n] # "busy"
    BY <1>3 DEF CreateRoleAgent, BootInv
  <2>5. boot'.part = boot.part /\ boot'.at = "register"
    BY <2>2
  <2>6. \A p : NextRole(p)' = NextRole(p) /\ Registered(p)' = Registered(p)
    BY <2>2 DEF NextRole, Registered
  <2>7. NextRole(boot.part)' = q
    BY <2>5, <2>6 DEF NextRole, Registered
  <2>8. Pristine(Other(boot.part))' \/ \A p \in Partitions : Registered(p)' = Roles
    BY <2>2, <2>5 DEF BootInv, Pristine, Registered
  <2>9. Registered(boot.part)' # Roles
    BY <2>2, <2>5 DEF BootInv, Registered
  <2> QED
    BY <2>3, <2>4, <2>5, <2>7, <2>8, <2>9 DEF BootInv
<1>4. CASE RegisterRoleAgent
  <2> DEFINE p == boot.part
             q == NextRole(p)
  <2>1. q \in Roles /\ p \in Partitions /\ made[q] # 0
    BY <1>4 DEF RegisterRoleAgent, NextRole, Roles, BootInv
  <2>2. /\ reg' = [reg EXCEPT ![p][q] = made[q]]
        /\ UNCHANGED <<made, session, status>>
        /\ boot.at = "register"
        /\ boot' = IF Registered(p) \cup {q} = Roles THEN [boot EXCEPT !.at = "reverify"]
                   ELSE [boot EXCEPT !.at = "create"]
    BY <1>4 DEF RegisterRoleAgent
  <2> HIDE DEF q
  <2>3. Registered(p)' = Registered(p) \cup {q}
    BY <2>1, <2>2 DEF Registered
  <2>4. Pristine(Other(p))
    BY <2>2 DEF BootInv, Partitions
  <2>5. Pristine(Other(p))'
    BY <2>1, <2>2, <2>4 DEF Pristine, Registered, Other, Partitions
  <2> QED
    BY <2>1, <2>2, <2>3, <2>5 DEF BootInv
<1>5. CASE CopyRegistrations
  <2>1. \A p \in Partitions : Registered(p)' = Roles
    BY <1>5, CompleteIsFull DEF CopyRegistrations, BootInv, Registered, Other, Partitions
  <2>2. boot'.at = "second" /\ status' = status
    BY <1>5 DEF CopyRegistrations
  <2> QED
    BY <1>5, <2>1, <2>2 DEF CopyRegistrations, BootInv
<1>6. CASE Listen
  <2>1. UNCHANGED <<made, status, reg, session>> /\ boot.at = "converge"
    BY <1>6 DEF Listen
  <2>2. CASE \A r \in Roles : made[r] = 1
    <3>1. boot'.at = "up"
      BY <1>6, <2>1, <2>2, AtMostOneCounts, CompleteIsFull DEF Listen, BootInv, RegInv
    <3> QED
      BY <2>1, <3>1 DEF BootInv, Registered
  <2>3. CASE ~(\A r \in Roles : made[r] = 1)
    <3>1. boot'.at = "refused"
      BY <1>6, <2>3 DEF Listen, Refused
    <3> QED
      BY <3>1 DEF BootInv
  <2> QED
    BY <2>2, <2>3
<1>7. CASE ServerStops
  BY <1>7 DEF ServerStops, Down, BootInv
<1>8. ASSUME BeginReset \/ ResetNormal \/ ResetImpossible
             \/ (\E p \in Partitions : Serve(p))
             \/ (\E r \in Roles : RunBegins(r) \/ RunEnds(r))
      PROVE  BootInv'
  <2>1. boot.at = "up"
    BY <1>8 DEF BeginReset, ResetNormal, ResetImpossible, Serve, AdmitCreate, CreateSession,
       BeginRefresh, EndRefresh, Commit, Continue, ReleaseOwnership, RunBegins, RunEnds,
       Take, Up, Command, LockInv, Free
  <2>2. UNCHANGED <<boot, reg>>
    BY <1>8 DEF BeginReset, ResetNormal, ResetImpossible, Serve, AdmitCreate, CreateSession,
       BeginRefresh, EndRefresh, Commit, Continue, ReleaseOwnership, RunBegins, RunEnds
  <2> QED
    BY <2>1, <2>2 DEF BootInv, Registered
<1>9. ASSUME NEW r \in Roles, RunWrites(r)
      PROVE  BootInv'
  BY <1>9 DEF RunWrites, BootInv, Registered, Pristine, NextRole
<1>10. CASE ReverifyRoles
  <2>1. UNCHANGED <<made, reg, session, status>> /\ boot.at \in {"reverify", "reverifySecond"}
    BY <1>10 DEF ReverifyRoles
  <2>2. CASE ~Verified(boot.part)
    <3>1. boot'.at = "refused"
      BY <1>10, <2>2 DEF ReverifyRoles, Refused
    <3> QED
      BY <3>1 DEF BootInv
  <2>3. CASE Verified(boot.part)
    <3>1. /\ boot'.part = boot.part
          /\ boot'.at = IF boot.at = "reverify" THEN "copy" ELSE "converge"
      BY <1>10, <2>3 DEF ReverifyRoles
    <3> QED
      BY <2>1, <3>1 DEF BootInv, Pristine, Registered
  <2> QED
    BY <2>2, <2>3
<1> QED
  BY <1>1, <1>2, <1>3, <1>4, <1>5, <1>6, <1>7, <1>8, <1>9, <1>10 DEF DualNext, Boot

-----------------------------------------------------------------------------
LEMMA NextDual == DualInv /\ [DualNext]_dualVars => DualInv'
<1> SUFFICES ASSUME DualInv, [DualNext]_dualVars PROVE DualInv'
  OBVIOUS
<1>1. CASE DualNext
  BY <1>1, NextTypes, NextSessions, NextRegistrations, NextStart DEF DualInv
<1>2. CASE UNCHANGED dualVars
  <2> USE DEF dualVars
  <2>1. DualTypeOK' /\ AtMostOne' /\ LockInv'
    BY <1>2 DEF DualInv, DualTypeOK, AtMostOne, LockInv, Active
  <2>2. RegInv'
    BY <1>2 DEF DualInv, RegInv, Registered, Agree
  <2>3. BootInv'
    BY <1>2 DEF DualInv, BootInv, Registered, Pristine, NextRole
  <2> QED
    BY <2>1, <2>2, <2>3 DEF DualInv
<1> QED
  BY <1>1, <1>2

(* Whatever commands, continuations, crashes and starts overlap, at most one of *)
(* the two partitions has a Session that is not terminal, although the check    *)
(* and the creation are apart (dual-scenario-service.ts createSession).         *)
THEOREM OneSessionAtATime == DualSpec => []OneActiveSession
<1>1. DualInv => OneActiveSession
  BY AtMostOneCounts DEF DualInv, OneActiveSession
<1> QED
  BY <1>1, InitDual, NextDual, PTL DEF DualSpec

(* A start that initialized both partitions finds them complete and in          *)
(* agreement, wherever earlier starts were cut off and however many Agents they *)
(* left (dual-scenario-service.ts initialize).                                  *)
THEOREM StartsConverge == DualSpec => []StartConverges
<1>1. DualInv => StartConverges
  BY CompleteIsFull DEF DualInv, RegInv, BootInv, StartConverges
<1> QED
  BY <1>1, InitDual, NextDual, PTL DEF DualSpec

(* The step that refuses a start: its cause is what the check of that step saw. *)
LEMMA RefusalIsCaused ==
  ASSUME DualInv, DualNext, boot' # boot, boot'.at = "refused"
  PROVE  \/ boot.at = "down" /\ PartlyRegistered
         \/ /\ boot.at \in {"first", "reverify", "second", "reverifySecond"}
            /\ \E r \in Registered(boot.part) : Spoilt(r, reg[boot.part][r])
         \/ boot.at = "converge" /\ OrphanAgent
<1> USE DEF DualInv, DualTypeOK
<1>1. CASE Start
  <2>1. ~Begins /\ boot' = Refused
    BY <1>1 DEF Start
  <2>2. boot.at # "refused"
    <3> SUFFICES ASSUME boot.at = "refused" PROVE boot' = boot
      OBVIOUS
    <3> QED
      BY <2>1 DEF Refused
  <2> QED
    BY <1>1, <2>1, <2>2, BeginsUnlessCaused DEF Start
<1>2. CASE InitializePartition \/ ReverifyRoles
  <2>1. boot.at \in {"first", "reverify", "second", "reverifySecond"} /\ ~Verified(boot.part)
    BY <1>2 DEF InitializePartition, ReverifyRoles
  <2> QED
    BY <2>1, VerifiedUnlessSpoilt
<1>3. CASE Listen
  <2>1. boot.at = "converge" /\ ~(\A r \in Roles : made[r] = 1)
    BY <1>3, AtMostOneCounts, CompleteIsFull DEF Listen, BootInv, RegInv
  <2> QED
    BY <2>1, AgreedAgentsAreOne
<1>4. CASE CreateRoleAgent \/ RegisterRoleAgent \/ CopyRegistrations \/ ServerStops
  BY <1>4 DEF CreateRoleAgent, RegisterRoleAgent, CopyRegistrations, ServerStops, Down
<1>5. CASE BeginReset \/ ResetNormal \/ ResetImpossible
           \/ (\E p \in Partitions : Serve(p))
           \/ (\E r \in Roles : RunBegins(r) \/ RunWrites(r) \/ RunEnds(r))
  BY <1>5 DEF BeginReset, ResetNormal, ResetImpossible, Serve, AdmitCreate, CreateSession,
     BeginRefresh, EndRefresh, Commit, Continue, ReleaseOwnership, RunBegins, RunWrites, RunEnds
<1> QED
  BY <1>1, <1>2, <1>3, <1>4, <1>5 DEF DualNext, Boot

(* A start refuses only over registrations or Agents that an interrupted first  *)
(* start left, or a Role Agent that a Run spoilt: it failed, or left another    *)
(* AGENTS.md.  Never over two stores that disagree, two active Sessions or an   *)
(* Agent a crash left busy (dual-scenario-service.ts initialize,                *)
(* role-profiles.ts inspectRegistrations and verifyRoleAgentProfile).           *)
THEOREM RefusalsHaveCause == DualSpec => RefusalHasCause
<1>1. DualInv /\ [DualNext]_dualVars =>
        [boot' # boot /\ boot'.at = "refused" =>
           \/ boot.at = "down" /\ PartlyRegistered
           \/ /\ boot.at \in {"first", "reverify", "second", "reverifySecond"}
              /\ \E r \in Registered(boot.part) : Spoilt(r, reg[boot.part][r])
           \/ boot.at = "converge" /\ OrphanAgent]_dualVars
  BY RefusalIsCaused
<1> QED
  BY <1>1, InitDual, NextDual, PTL DEF DualSpec, RefusalHasCause
================================================================================
