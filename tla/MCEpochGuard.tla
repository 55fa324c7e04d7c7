---------------------------- MODULE MCEpochGuard ----------------------------
(***************************************************************************)
(* Instances of the EpochGuard service for TLC.                            *)
(***************************************************************************)
EXTENDS EpochGuard, Fixtures

Scripts ==
  [s \in {"normal", "impossible", "revised"} |->
     CASE s = "normal" -> NormalFixture
       [] s = "impossible" -> ImpossibleFixture
       [] s = "revised" -> RevisedFixture]

MCFixture == [s \in Scenarios |-> Replay(Scripts[s])]

MCRefreshHead == [s \in Scenarios |-> Scripts[s].refreshHead]

(* Every step of every fixture is accepted by the ledger and at its head. *)
ASSUME FixturesReplay == \A s \in Scenarios : MCFixture[s].valid

(* The heads of the scenarios, and one commit from outside after each. *)
StillHeads == {0, 10, 21}
DriftHeads == {0, 10, 11, 21, 22}

MCRevisions == 0..9

=============================================================================
