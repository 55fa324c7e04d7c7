----------------------------- MODULE WorldLedger -----------------------------
(***************************************************************************)
(* The authoritative World ledger of EpochGuard: an append-only log of     *)
(* commits, numbered by head, over three resources, one for each Role.     *)
(* A commit closes the open version of every resource it changes at the    *)
(* same sequence number at which the new version opens, so that a version  *)
(* is valid on the half-open interval [from, until).                       *)
(*                                                                         *)
(* Abstractions.  A resource is named by the Role that queries it (the     *)
(* source and entity key of its RoleQuerySpec).  A value is the verdict    *)
(* that evaluateAuthoritativeVerdict computes from it.  The source revision*)
(* is the sequence number of the commit, which is its default and what     *)
(* every fixture step passes.                                              *)
(***************************************************************************)
EXTENDS Naturals

CONSTANTS Inventory, Budget, Policy,  \* the three Roles
          Heads                       \* bound: the sequence numbers the head may take

Roles == {Inventory, Budget, Policy}

ASSUME RolesDistinct ==
  Inventory # Budget /\ Inventory # Policy /\ Budget # Policy

ASSUME HeadsAreNaturals == Heads \subseteq Nat

VARIABLES head,      \* database.headSeq
          versions   \* database.resourceVersions, by resource

ledgerVars == <<head, versions>>

Values == {"ALLOW", "DENY"}

Open == 0            \* validUntilSeq = null; a version never ends at 0

Version == [from : Nat, until : Nat, value : Values]

NoHistory == [r \in Roles |-> {}]

-----------------------------------------------------------------------------
(* Resolution *)

Contains(v, seq) == v.from <= seq /\ (v.until = Open \/ seq < v.until)

OpenVersions(vs, r) == {v \in vs[r] : v.until = Open}

VersionsAt(vs, r, seq) == {v \in vs[r] : Contains(v, seq)}

VersionAt(vs, r, seq) == CHOOSE v \in vs[r] : Contains(v, seq)

VersionOf(vs, r, revision) == CHOOSE v \in vs[r] : v.from = revision

-----------------------------------------------------------------------------
(* Commit *)

Changes == UNION {[rs -> Values] : rs \in (SUBSET Roles) \ {{}}}

OpenIsUnique(vs, r) == \A v, w \in OpenVersions(vs, r) : v = w

(* What commit checks of each resource it changes before it touches it. *)
Accepts(vs, r, seq) ==
  /\ OpenIsUnique(vs, r)
  /\ \A v \in OpenVersions(vs, r) : v.from < seq
  /\ \A v \in vs[r] : v.from # seq

(* Mutations of ClosedAt: the end taken as inclusive, the version left open, *)
(* and versions that ended before closed once more.                          *)
ClosedBefore(v, seq) == IF v.until = Open THEN [v EXCEPT !.until = seq - 1] ELSE v

LeftOpen(v, seq) == v

ClosedAgain(v, seq) == [v EXCEPT !.until = seq]

ClosedAt(v, seq) == IF v.until = Open THEN [v EXCEPT !.until = seq] ELSE v

Opened(value, seq) == [from |-> seq, until |-> Open, value |-> value]

(* Mutation of Committed: the value is overwritten, its history lost. *)
CommittedInPlace(vs, seq, changes) ==
  [r \in Roles |-> IF r \in DOMAIN changes THEN {Opened(changes[r], seq)} ELSE vs[r]]

Committed(vs, seq, changes) ==
  [r \in Roles |->
    IF r \in DOMAIN changes
      THEN {ClosedAt(v, seq) : v \in vs[r]} \cup {Opened(changes[r], seq)}
      ELSE vs[r]]

Commit(changes) ==
  /\ head + 1 \in Heads
  /\ \A r \in DOMAIN changes : Accepts(versions, r, head + 1)
  /\ head' = head + 1
  /\ versions' = Committed(versions, head + 1, changes)

(* A fixture starts at its declared head, on an empty ledger only. *)
InitializeFixtureWorld(bootstrap) ==
  /\ head = 0
  /\ versions = NoHistory
  /\ bootstrap \in Heads
  /\ head' = bootstrap
  /\ UNCHANGED versions

LedgerInit == head = 0 /\ versions = NoHistory

LedgerNext ==
  \/ \E bootstrap \in Heads : InitializeFixtureWorld(bootstrap)
  \/ \E changes \in Changes : Commit(changes)

LedgerSpec == LedgerInit /\ [][LedgerNext]_ledgerVars

-----------------------------------------------------------------------------
(* Properties *)

(* Types of the ledger: the head is a sequence number, a history is a set of versions. *)
LedgerTypeOK ==
  /\ head \in Nat
  /\ versions \in [Roles -> SUBSET Version]

WithinHistory(vs, h) ==
  \A r \in Roles : \A v \in vs[r] :
    /\ 0 < v.from /\ v.from <= h
    /\ v.until # Open => v.from < v.until /\ v.until <= h

Disjoint(v, w) ==
  \/ v.until # Open /\ v.until <= w.from
  \/ w.until # Open /\ w.until <= v.from

NoOverlap(vs) == \A r \in Roles : \A v, w \in vs[r] : v = w \/ Disjoint(v, w)

NoGap(vs) ==
  \A r \in Roles : \A v \in vs[r] :
    v.until # Open => \E w \in vs[r] : w.from = v.until

Tiles(vs, h) == WithinHistory(vs, h) /\ NoOverlap(vs) /\ NoGap(vs)

(* The versions of a resource tile its history: they do not overlap, none ends *)
(* in the future, and each one that ended was succeeded at that very sequence. *)
(* This is what makes every resolve function of world-ledger.ts single-valued. *)
HistoryTiles == Tiles(versions, head)

(* The consistency checks of commit (several open versions, a version opening *)
(* at or after the next commit, a repeated revision) refuse no commit the     *)
(* ledger itself can lead to.                                                 *)
CommitNeverRefused == \A r \in Roles : Accepts(versions, r, head + 1)

ValuesAt(vs, r, seq) ==
  {[from |-> v.from, value |-> v.value] : v \in VersionsAt(vs, r, seq)}

(* Appending never rewrites the past: what a resource was at any sequence up  *)
(* to the head is what it will be said to have been after every later commit, *)
(* although commit does rewrite the end of the version it closes.             *)
PastNeverChanges ==
  [][\A r \in Roles : \A seq \in 1..head :
       ValuesAt(versions', r, seq) = ValuesAt(versions, r, seq)]_ledgerVars

=============================================================================
