----------------------------- MODULE MCReceipts -----------------------------
(* Small instances of Receipts. *)
EXTENDS Receipts

CONSTANTS s1, r1, r2, k1

=============================================================================
