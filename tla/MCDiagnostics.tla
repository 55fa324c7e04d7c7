---------------------------- MODULE MCDiagnostics ----------------------------
(***************************************************************************)
(* Instances of the EpochGuard service with its diagnostics, and of what a *)
(* client sees of it.                                                      *)
(***************************************************************************)
EXTENDS MCEpochGuard, SessionViewBuilder

=============================================================================
