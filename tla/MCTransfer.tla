----------------------------- MODULE MCTransfer -----------------------------
(***************************************************************************)
(* Model values for TransferProperties; each configuration says which      *)
(* direction, windows and network it checks.                               *)
(***************************************************************************)
EXTENDS TransferProperties
=============================================================================
