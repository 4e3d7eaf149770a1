---------------------------- MODULE BlockNumbers ----------------------------
(***************************************************************************)
(* Block numbers of DATA and ACK packets.  They are u16 values that wrap,  *)
(* so a number names every block of the file that is congruent to it, and  *)
(* all arithmetic on them is modular.  Modulus is 2^16 in the code; the    *)
(* checks use a small one so that a transfer wraps within a few blocks,    *)
(* and the proofs hold for every value.                                    *)
(***************************************************************************)
EXTENDS Integers

CONSTANT Modulus          (* Number of values of a block number.           *)

ASSUME ModulusAssumption == Modulus \in Nat \ {0, 1}

BlockNumber == 0 .. Modulus - 1

WrappingAdd(a, b) == (a + b) % Modulus
WrappingSub(a, b) == (a - b) % Modulus

\* A mutant: the window's upper bound is forgotten, so every number but ack's
\* own precedes it.
AnyPrecedes(bn, ack, windowsize) == WrappingSub(ack, bn) # 0

\* Does bn precede ack, by less than a window?  (The number ack itself does not.)
U16LeInWindow(bn, ack, windowsize) ==
  WrappingSub(ack, bn) \in 1 .. windowsize - 1
=============================================================================
