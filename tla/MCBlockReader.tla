---------------------------- MODULE MCBlockReader -----------------------------
(***************************************************************************)
(* Small instances of BlockReader: every file of up to MaxLen bytes; CR,   *)
(* LF, NUL and one byte that stands for all others are enough values.      *)
(***************************************************************************)
EXTENDS BlockReaderProperties

CONSTANTS
  MaxLen       (* Length of the longest file.                                *)

MCFiles == UNION {[1 .. n -> Byte] : n \in 0 .. MaxLen}
=============================================================================
