------------------------- MODULE BlockNumbersProofs -------------------------
(***************************************************************************)
(* Facts about block numbers, for every Modulus: the number of a place in  *)
(* the file is its residue, and what the wrapping operations of u16 say    *)
(* about residues.                                                         *)
(***************************************************************************)
EXTENDS BlockNumbers, TLAPS

\* Division with remainder, as the provers know it.
LEMMA DivMod ==
  \A x \in Int : /\ x \div Modulus \in Int
                 /\ x % Modulus \in Int
                 /\ x = Modulus * (x \div Modulus) + (x % Modulus)
BY ModulusAssumption

\* A residue is a block number.
LEMMA ResidueInRange == \A x \in Int : x % Modulus \in BlockNumber
BY ModulusAssumption DEF BlockNumber

\* The only multiple of Modulus that is less than Modulus away from 0 is 0.
LEMMA SmallMultiple ==
  \A k \in Int : Modulus * k < Modulus /\ -Modulus < Modulus * k => k = 0
<1> TAKE k \in Int
<1>1. CASE k >= 1  BY <1>1, ModulusAssumption
<1>2. CASE k <= -1  BY <1>2, ModulusAssumption
<1> QED BY <1>1, <1>2

\* Quotient and remainder are unique.
LEMMA UniqueRemainder ==
  ASSUME NEW q \in Int, NEW r \in BlockNumber, NEW x \in Int, x = Modulus * q + r
  PROVE  x % Modulus = r
<1> DEFINE p == x \div Modulus
           s == x % Modulus
<1>1. p \in Int /\ s \in BlockNumber /\ x = Modulus * p + s
  BY DivMod, ResidueInRange
<1> HIDE DEF p, s
<1>2. Modulus * (p - q) = r - s
  <2>1. Modulus * (p - q) = Modulus * p - Modulus * q  BY <1>1, ModulusAssumption
  <2> QED BY <1>1, <2>1, ModulusAssumption DEF BlockNumber
<1>3. p - q = 0
  BY <1>1, <1>2, SmallMultiple, ModulusAssumption DEF BlockNumber
<1> QED BY <1>1, <1>2, <1>3, ModulusAssumption DEF s, BlockNumber

\* Adding a multiple of Modulus does not change the residue.
LEMMA Periodic ==
  ASSUME NEW x \in Int, NEW k \in Int
  PROVE  (x + Modulus * k) % Modulus = x % Modulus
<1> DEFINE p == x \div Modulus
           s == x % Modulus
<1>1. p \in Int /\ s \in BlockNumber /\ x = Modulus * p + s
  BY DivMod, ResidueInRange
<1> HIDE DEF p, s
<1>2. x + Modulus * k = Modulus * (p + k) + s
  <2>1. Modulus * (p + k) = Modulus * p + Modulus * k  BY <1>1, ModulusAssumption
  <2> QED BY <1>1, <2>1, ModulusAssumption DEF BlockNumber
<1>3. x + Modulus * k \in Int /\ p + k \in Int  BY <1>1, ModulusAssumption
<1>4. (x + Modulus * k) % Modulus = s  BY <1>1, <1>2, <1>3, UniqueRemainder
<1> QED BY <1>4 DEF s

\* Wrapping addition of residues is the residue of the sum.
LEMMA AddResidue ==
  ASSUME NEW x \in Int, NEW y \in Int
  PROVE  WrappingAdd(x % Modulus, y) = (x + y) % Modulus
<1> DEFINE p == x \div Modulus
           s == x % Modulus
<1>1. p \in Int /\ s \in Int /\ x = Modulus * p + s  BY DivMod
<1> HIDE DEF p, s
<1>2. x + y = (s + y) + Modulus * p /\ s + y \in Int  BY <1>1, ModulusAssumption
<1>3. (x + y) % Modulus = (s + y) % Modulus  BY <1>1, <1>2, Periodic
<1> QED BY <1>3 DEF WrappingAdd, s

\* Wrapping subtraction of residues is the residue of the difference.
LEMMA SubResidue ==
  ASSUME NEW x \in Int, NEW y \in Int
  PROVE  WrappingSub(x % Modulus, y % Modulus) = (x - y) % Modulus
<1> DEFINE p == x \div Modulus
           s == x % Modulus
           q == y \div Modulus
           t == y % Modulus
<1>1. /\ p \in Int /\ s \in Int /\ x = Modulus * p + s
      /\ q \in Int /\ t \in Int /\ y = Modulus * q + t
  BY DivMod
<1> HIDE DEF p, s, q, t
<1>2. x - y = (s - t) + Modulus * (p - q)
  <2>1. Modulus * (p - q) = Modulus * p - Modulus * q  BY <1>1, ModulusAssumption
  <2>2. Modulus * p \in Int /\ Modulus * q \in Int  BY <1>1, ModulusAssumption
  <2> QED BY <1>1, <2>1, <2>2
<1>3. s - t \in Int /\ p - q \in Int  BY <1>1
<1>4. (x - y) % Modulus = (s - t) % Modulus  BY <1>2, <1>3, Periodic
<1> QED BY <1>4 DEF WrappingSub, s, t

\* The residues next to 0.
LEMMA SmallResidue ==
  ASSUME NEW x \in Int
  PROVE  /\ 0 <= x /\ x < Modulus => x % Modulus = x
         /\ -Modulus <= x /\ x < 0 => x % Modulus = x + Modulus
BY ModulusAssumption

\* Places less than Modulus apart have the same number only if they are equal.
LEMMA EqualNumbers ==
  ASSUME NEW x \in Int, NEW y \in Int,
         x - y < Modulus, y - x < Modulus, x % Modulus = y % Modulus
  PROVE  x = y
<1>1. WrappingSub(x % Modulus, y % Modulus) = (x - y) % Modulus  BY SubResidue
<1>2. WrappingSub(x % Modulus, y % Modulus) = 0
  <2>1. x % Modulus \in Int  BY DivMod
  <2> QED BY <2>1, ModulusAssumption DEF WrappingSub
<1>3. (x - y) % Modulus = 0 /\ x - y \in Int  BY <1>1, <1>2
<1> QED BY <1>3, SmallResidue, ModulusAssumption

\* What u16_le_in_window says of two places less than Modulus apart: either bn is
\* really less than a window before ack, or ack is so far behind that the
\* numbers wrap into the window again.
LEMMA LeInWindow ==
  ASSUME NEW bn \in Int, NEW ack \in Int, NEW w \in Nat,
         bn - ack < Modulus, ack - bn < Modulus
  PROVE  U16LeInWindow(bn % Modulus, ack % Modulus, w) <=>
           \/ ack - bn \in 1 .. w - 1
           \/ ack < bn /\ ack - bn + Modulus \in 1 .. w - 1
<1>1. WrappingSub(ack % Modulus, bn % Modulus) = (ack - bn) % Modulus  BY SubResidue
<1>2. CASE ack - bn >= 0
  <2>1. (ack - bn) % Modulus = ack - bn  BY <1>2, SmallResidue, ModulusAssumption
  <2> QED BY <1>1, <1>2, <2>1, ModulusAssumption DEF U16LeInWindow
<1>3. CASE ack - bn < 0
  <2>1. (ack - bn) % Modulus = ack - bn + Modulus  BY <1>3, SmallResidue, ModulusAssumption
  <2> QED BY <1>1, <1>3, <2>1, ModulusAssumption DEF U16LeInWindow
<1> QED BY <1>2, <1>3
=============================================================================
