------------------------------ MODULE MCLedger ------------------------------
(* The instances of MCSync, with the books of their runs. *)
EXTENDS MCSync, Ledger
=============================================================================
