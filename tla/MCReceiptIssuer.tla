--------------------------- MODULE MCReceiptIssuer ---------------------------
(***************************************************************************)
(* Model checking of ReceiptIssuer: up to three commits, each of any set of *)
(* resources, on a ledger started at any head.                             *)
(***************************************************************************)
EXTENDS ReceiptIssuer

MCHeads == 0..3

=============================================================================
