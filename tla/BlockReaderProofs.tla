------------------------- MODULE BlockReaderProofs --------------------------
(***************************************************************************)
(* Proofs about cutting a file into blocks and about netascii: for every   *)
(* file over every set of byte values, every blksize, every length of      *)
(* every read, and every pair of modes.                                    *)
(*                                                                         *)
(* The provers cannot use an induction theorem that takes an operator.     *)
(* Induction here is over a set: one that holds 0, and with a number its   *)
(* successor, holds every number.                                          *)
(***************************************************************************)
EXTENDS BlockReaderProperties, SequenceTheorems, WellFoundedInduction, TLAPS

\* Induction, for the set of the numbers of which a statement is true.
LEMMA SetInduction ==
  ASSUME NEW S, 0 \in S, \A n \in Nat : n \in S => n + 1 \in S
  PROVE  Nat \subseteq S
<1> DEFINE T == {n \in Nat : n \notin S}
           R == {ss \in Nat \X Nat : ss[1] < ss[2]}
<1> SUFFICES ASSUME T # {}  PROVE FALSE
  OBVIOUS
<1>1. T \subseteq Nat  OBVIOUS
<1>2. PICK x \in T : \A y \in T : ~(<<y, x>> \in R)
  <2>1. IsWellFoundedOn(R, Nat)  BY NatLessThanWellFounded DEF OpToRel
  <2> HIDE DEF R, T
  <2> QED BY <1>1, <2>1, WFMin
<1>3. x \in Nat \ {0}  BY <1>2
<1>4. x - 1 \in Nat /\ x - 1 < x /\ (x - 1) + 1 = x  BY <1>3
<1>5. x - 1 \notin T  BY <1>2, <1>3, <1>4
<1>6. x \in S  BY <1>4, <1>5
<1> QED BY <1>6

\* The bytes of a text from one place to another.
LEMMA Piece ==
  ASSUME NEW s \in Seq(Byte), NEW a \in 0 .. Len(s), NEW b \in a .. Len(s)
  PROVE  /\ SubSeq(s, a + 1, b) \in Seq(Byte)
         /\ Len(SubSeq(s, a + 1, b)) = b - a
         /\ \A i \in 1 .. b - a : SubSeq(s, a + 1, b)[i] = s[a + i]
<1> DEFINE v == SubSeq(s, a + 1, b)
<1>1. Len(s) \in Nat /\ a \in Nat /\ b \in Nat /\ a <= b /\ b <= Len(s)  BY LenProperties
<1>2. \A i \in a + 1 .. b : i \in 1 .. Len(s)  BY <1>1
<1>3. \A i \in a + 1 .. b : s[i] \in Byte  BY <1>2, ElementOfSeq
<1>4. a + 1 \in Int /\ b \in Int  BY <1>1
<1>5. /\ v \in Seq(Byte)
      /\ Len(v) = IF a + 1 <= b THEN b - (a + 1) + 1 ELSE 0
      /\ \A i \in 1 .. b - (a + 1) + 1 : v[i] = s[(a + 1) + i - 1]
  BY <1>3, <1>4, SubSeqProperties
<1> HIDE DEF v
<1>6. v \in Seq(Byte) /\ Len(v) = b - a /\ \A i \in 1 .. b - a : v[i] = s[a + i]
  BY <1>1, <1>5
<1> QED BY <1>6 DEF v

-----------------------------------------------------------------------------
(* The two loops of netascii.rs are what their definitions say.            *)

\* The decoder after n bytes.
LEMMA AfterStep ==
  ASSUME NEW d, NEW bytes, Len(bytes) \in Nat
  PROVE  /\ After(d, bytes)[0] = d
         /\ \A n \in 1 .. Len(bytes) :
              After(d, bytes)[n] = DecodeByte(After(d, bytes)[n - 1], bytes[n])
<1> DEFINE Solves(f, m) ==
             f = [n \in 0 .. m |-> IF n = 0 THEN d ELSE DecodeByte(f[n - 1], bytes[n])]
           S == {m \in Nat : \E f : Solves(f, m)}
<1>1. 0 \in S
  <2>1. Solves([n \in 0 .. 0 |-> d], 0)  OBVIOUS
  <2> QED BY <2>1
<1>2. ASSUME NEW m \in Nat, m \in S
      PROVE  m + 1 \in S
  <2>1. PICK f : Solves(f, m)  BY <1>2
  <2> DEFINE g == [n \in 0 .. m + 1 |->
                     IF n = m + 1 THEN DecodeByte(f[m], bytes[m + 1]) ELSE f[n]]
  <2>2. ASSUME NEW n \in 0 .. m + 1
        PROVE  g[n] = IF n = 0 THEN d ELSE DecodeByte(g[n - 1], bytes[n])
    <3>1. CASE n = 0  BY <2>1, <3>1
    <3>2. CASE n = m + 1  BY <3>2
    <3>3. CASE n \in 1 .. m
      <4>1. n - 1 \in 0 .. m + 1 /\ n - 1 # m + 1 /\ n # m + 1  BY <3>3
      <4>2. g[n] = f[n] /\ g[n - 1] = f[n - 1]  BY <4>1
      <4> HIDE DEF g
      <4> QED BY <2>1, <3>3, <4>2
    <3> QED BY <3>1, <3>2, <3>3
  <2>3. Solves(g, m + 1)
    <3> HIDE DEF g
    <3>1. g = [n \in 0 .. m + 1 |-> g[n]]  BY DEF g
    <3> QED BY <2>2, <3>1
  <2> HIDE DEF g, Solves
  <2> QED BY <2>3
<1> HIDE DEF S
<1>3. Nat \subseteq S  BY <1>1, <1>2, SetInduction
<1>4. \E f : Solves(f, Len(bytes))  BY <1>3 DEF S
<1> DEFINE f == After(d, bytes)
<1>5. f = CHOOSE g : Solves(g, Len(bytes))  BY DEF After
<1> HIDE DEF Solves, f
<1>6. Solves(f, Len(bytes))  BY <1>4, <1>5
<1>7. f[0] = d  BY <1>6 DEF Solves
<1>8. ASSUME NEW n \in 1 .. Len(bytes)
      PROVE  f[n] = DecodeByte(f[n - 1], bytes[n])
  BY <1>6, <1>8 DEF Solves
<1> QED BY <1>7, <1>8 DEF f

\* What the encoder has put out after n bytes.
LEMMA EncodedStep ==
  ASSUME NEW bytes, Len(bytes) \in Nat
  PROVE  /\ Encoded(bytes)[0] = << >>
         /\ \A n \in 1 .. Len(bytes) :
              Encoded(bytes)[n] = Encoded(bytes)[n - 1] \o EncodeByte(bytes[n])
<1> DEFINE Put(p, n) == p \o EncodeByte(bytes[n])
           Solves(f, m) ==
             f = [n \in 0 .. m |-> IF n = 0 THEN << >> ELSE Put(f[n - 1], n)]
           S == {m \in Nat : \E f : Solves(f, m)}
<1> HIDE DEF Put
<1>1. 0 \in S
  <2>1. Solves([n \in 0 .. 0 |-> << >>], 0)  OBVIOUS
  <2> QED BY <2>1
<1>2. ASSUME NEW m \in Nat, m \in S
      PROVE  m + 1 \in S
  <2>1. PICK f : Solves(f, m)  BY <1>2
  <2> DEFINE g == [n \in 0 .. m + 1 |->
                     IF n = m + 1 THEN Put(f[m], m + 1) ELSE f[n]]
  <2>2. ASSUME NEW n \in 0 .. m + 1
        PROVE  g[n] = IF n = 0 THEN << >> ELSE Put(g[n - 1], n)
    <3>1. CASE n = 0  BY <2>1, <3>1
    <3>2. CASE n = m + 1  BY <3>2
    <3>3. CASE n \in 1 .. m
      <4>1. n - 1 \in 0 .. m + 1 /\ n - 1 # m + 1 /\ n # m + 1  BY <3>3
      <4>2. g[n] = f[n] /\ g[n - 1] = f[n - 1]  BY <4>1
      <4> HIDE DEF g
      <4> QED BY <2>1, <3>3, <4>2
    <3> QED BY <3>1, <3>2, <3>3
  <2>3. Solves(g, m + 1)
    <3> HIDE DEF g
    <3>1. g = [n \in 0 .. m + 1 |-> g[n]]  BY DEF g
    <3> QED BY <2>2, <3>1
  <2> HIDE DEF g, Solves
  <2> QED BY <2>3
<1> HIDE DEF S
<1>3. Nat \subseteq S  BY <1>1, <1>2, SetInduction
<1>4. \E f : Solves(f, Len(bytes))  BY <1>3 DEF S
<1> DEFINE f == Encoded(bytes)
<1>5. f = CHOOSE g : Solves(g, Len(bytes))  BY DEF Encoded, Put
<1> HIDE DEF Solves, f
<1>6. Solves(f, Len(bytes))  BY <1>4, <1>5
<1>7. f[0] = << >>  BY <1>6 DEF Solves
<1>8. ASSUME NEW n \in 1 .. Len(bytes)
      PROVE  f[n] = Put(f[n - 1], n)
  BY <1>6, <1>8 DEF Solves
<1> QED BY <1>7, <1>8 DEF f, Put

-----------------------------------------------------------------------------
(* The decoder.                                                            *)

Decoder == [out : Seq(Byte), pending_cr : BOOLEAN]

\* A byte, and the pair that a CR begins, stand for bytes.
LEMMA BytesOut ==
  ASSUME NEW b \in Byte
  PROVE  /\ Pair(b) \in Seq(Byte)
         /\ EncodeByte(b) \in Seq(Byte)
         /\ Len(EncodeByte(b)) \in {1, 2}
<1>1. CR \in Byte /\ LF \in Byte /\ NUL \in Byte  BY NetasciiAssumption
<1>2. /\ <<LF>> \in Seq(Byte) /\ <<CR>> \in Seq(Byte) /\ <<CR, b>> \in Seq(Byte)
      /\ <<CR, LF>> \in Seq(Byte) /\ <<CR, NUL>> \in Seq(Byte) /\ <<b>> \in Seq(Byte)
  BY <1>1
<1>3. Len(<<CR, LF>>) = 2 /\ Len(<<CR, NUL>>) = 2 /\ Len(<<b>>) = 1
  OBVIOUS
<1> QED BY <1>2, <1>3 DEF Pair, EncodeByte

\* A decoder that is given a byte stays a decoder.
LEMMA DecodeByteType ==
  ASSUME NEW d \in Decoder, NEW b \in Byte
  PROVE  DecodeByte(d, b) \in Decoder
<1>1. d.out \in Seq(Byte) /\ d.pending_cr \in BOOLEAN  BY DEF Decoder
<1>2. d.out \o Pair(b) \in Seq(Byte)  BY <1>1, BytesOut, ConcatProperties
<1>3. Append(d.out, b) \in Seq(Byte)  BY <1>1, AppendProperties
<1> QED BY <1>1, <1>2, <1>3 DEF DecodeByte, Decoder

LEMMA AfterType ==
  ASSUME NEW d \in Decoder, NEW bytes \in Seq(Byte), NEW n \in 0 .. Len(bytes)
  PROVE  After(d, bytes)[n] \in Decoder
<1> DEFINE S == {m \in Nat : m <= Len(bytes) => After(d, bytes)[m] \in Decoder}
<1>1. Len(bytes) \in Nat  BY LenProperties
<1>2. 0 \in S  BY <1>1, AfterStep
<1>3. ASSUME NEW m \in Nat, m \in S, m + 1 <= Len(bytes)
      PROVE  After(d, bytes)[m + 1] \in Decoder
  <2>1. After(d, bytes)[m] \in Decoder  BY <1>1, <1>3
  <2>2. m + 1 \in 1 .. Len(bytes) /\ (m + 1) - 1 = m  BY <1>1, <1>3
  <2>3. bytes[m + 1] \in Byte  BY <2>2, ElementOfSeq
  <2>4. After(d, bytes)[m + 1] = DecodeByte(After(d, bytes)[m], bytes[m + 1])
    BY <1>1, <2>2, AfterStep
  <2> QED BY <2>1, <2>3, <2>4, DecodeByteType
<1>4. \A m \in Nat : m \in S => m + 1 \in S  BY <1>3
<1> HIDE DEF S
<1>5. Nat \subseteq S  BY <1>2, <1>4, SetInduction
<1> QED BY <1>1, <1>5 DEF S

\* Decoding goes on where it has stopped: wherever a text is cut, its pieces are
\* decoded as the whole.
LEMMA AfterGoesOn ==
  ASSUME NEW d, NEW bytes \in Seq(Byte), NEW a \in 0 .. Len(bytes), NEW b \in a .. Len(bytes)
  PROVE  FromWire(After(d, bytes)[a], SubSeq(bytes, a + 1, b)) = After(d, bytes)[b]
<1> DEFINE piece == SubSeq(bytes, a + 1, b)
           e == After(d, bytes)[a]
           S == {m \in Nat : m <= b - a => After(e, piece)[m] = After(d, bytes)[a + m]}
<1>1. Len(bytes) \in Nat /\ a \in Nat /\ b \in Nat /\ b - a \in Nat  BY LenProperties
<1>2. /\ Len(piece) = b - a
      /\ \A i \in 1 .. b - a : piece[i] = bytes[a + i]
  BY Piece
<1> HIDE DEF piece, e
<1>3. 0 \in S  BY <1>1, <1>2, AfterStep DEF e
<1>4. ASSUME NEW m \in Nat, m \in S, m + 1 <= b - a
      PROVE  After(e, piece)[m + 1] = After(d, bytes)[a + (m + 1)]
  <2>1. After(e, piece)[m] = After(d, bytes)[a + m]  BY <1>1, <1>4
  <2>2. /\ m + 1 \in 1 .. b - a /\ (m + 1) - 1 = m
        /\ a + (m + 1) \in 1 .. Len(bytes) /\ (a + (m + 1)) - 1 = a + m
    BY <1>1, <1>4
  <2>3. After(e, piece)[m + 1] = DecodeByte(After(e, piece)[m], piece[m + 1])
    <3>1. Len(piece) \in Nat /\ m + 1 \in 1 .. Len(piece)  BY <1>1, <1>2, <2>2
    <3>2. After(e, piece)[m + 1] = DecodeByte(After(e, piece)[(m + 1) - 1], piece[m + 1])
      BY <3>1, AfterStep
    <3> QED BY <2>2, <3>2
  <2>4. After(d, bytes)[a + (m + 1)] = DecodeByte(After(d, bytes)[a + m], bytes[a + (m + 1)])
    BY <1>1, <2>2, AfterStep
  <2> QED BY <1>2, <2>1, <2>2, <2>3, <2>4
<1>5. \A m \in Nat : m \in S => m + 1 \in S  BY <1>4
<1> HIDE DEF S
<1>6. Nat \subseteq S  BY <1>3, <1>5, SetInduction
<1>7. After(e, piece)[b - a] = After(d, bytes)[b]
  <2>1. a + (b - a) = b  BY <1>1
  <2> QED BY <1>1, <1>6, <2>1 DEF S
<1> QED BY <1>2, <1>7 DEF FromWire, e, piece

-----------------------------------------------------------------------------
(* The encoder.                                                            *)

\* The encoder puts out bytes, at most two for each byte of the text.
LEMMA EncodedType ==
  ASSUME NEW bytes \in Seq(Byte), NEW n \in 0 .. Len(bytes)
  PROVE  Encoded(bytes)[n] \in Seq(Byte) /\ Len(Encoded(bytes)[n]) <= 2 * n
<1> DEFINE Typed(m) == Encoded(bytes)[m] \in Seq(Byte) /\ Len(Encoded(bytes)[m]) <= 2 * m
           S == {m \in Nat : m <= Len(bytes) => Typed(m)}
<1> HIDE DEF Typed
<1>1. Len(bytes) \in Nat  BY LenProperties
<1>2. Typed(0)
  <2>1. Encoded(bytes)[0] = << >>  BY <1>1, EncodedStep
  <2>2. Len(<< >>) = 0 /\ << >> \in Seq(Byte)  BY EmptySeq
  <2> QED BY <2>1, <2>2 DEF Typed
<1>3. ASSUME NEW m \in Nat, m \in S, m + 1 <= Len(bytes)
      PROVE  Typed(m + 1)
  <2>1. Encoded(bytes)[m] \in Seq(Byte) /\ Len(Encoded(bytes)[m]) <= 2 * m
    BY <1>1, <1>3 DEF Typed
  <2>2. m + 1 \in 1 .. Len(bytes) /\ (m + 1) - 1 = m  BY <1>1, <1>3
  <2>3. bytes[m + 1] \in Byte  BY <2>2, ElementOfSeq
  <2>4. Encoded(bytes)[m + 1] = Encoded(bytes)[m] \o EncodeByte(bytes[m + 1])
    BY <1>1, <2>2, EncodedStep
  <2>5. /\ EncodeByte(bytes[m + 1]) \in Seq(Byte)
        /\ Len(EncodeByte(bytes[m + 1])) \in {1, 2}
    BY <2>3, BytesOut
  <2>6. /\ Encoded(bytes)[m + 1] \in Seq(Byte)
        /\ Len(Encoded(bytes)[m + 1])
             = Len(Encoded(bytes)[m]) + Len(EncodeByte(bytes[m + 1]))
    BY <2>1, <2>4, <2>5, ConcatProperties
  <2>7. Len(Encoded(bytes)[m]) \in Nat  BY <2>1, LenProperties
  <2>8. Len(Encoded(bytes)[m + 1]) <= 2 * (m + 1)
    <3>1. \A x, y \in Nat : x <= 2 * m /\ y \in {1, 2} => x + y <= 2 * (m + 1)
      OBVIOUS
    <3>2. Len(EncodeByte(bytes[m + 1])) \in Nat  BY <2>5
    <3> QED BY <2>1, <2>5, <2>6, <2>7, <3>1, <3>2
  <2> QED BY <2>6, <2>8 DEF Typed
<1>4. \A m \in Nat : m \in S => m + 1 \in S  BY <1>1, <1>3
<1>5. 0 \in S  BY <1>2
<1> HIDE DEF S
<1>6. Nat \subseteq S  BY <1>4, <1>5, SetInduction
<1>7. n \in Nat /\ n <= Len(bytes)  BY <1>1
<1> QED BY <1>6, <1>7 DEF S, Typed

\* A text that is encoded in pieces is encoded as the whole.
LEMMA EncodedGoesOn ==
  ASSUME NEW bytes \in Seq(Byte), NEW a \in 0 .. Len(bytes), NEW b \in a .. Len(bytes)
  PROVE  Encoded(bytes)[b] = Encoded(bytes)[a] \o ToWire(SubSeq(bytes, a + 1, b))
<1> DEFINE piece == SubSeq(bytes, a + 1, b)
           Joined(m) == Encoded(bytes)[a + m] = Encoded(bytes)[a] \o Encoded(piece)[m]
           S == {m \in Nat : m <= b - a => Joined(m)}
<1> HIDE DEF Joined
<1>1. Len(bytes) \in Nat /\ a \in Nat /\ b \in Nat /\ b - a \in Nat  BY LenProperties
<1>2. /\ piece \in Seq(Byte) /\ Len(piece) = b - a
      /\ \A i \in 1 .. b - a : piece[i] = bytes[a + i]
  BY Piece
<1> HIDE DEF piece
<1>3. Encoded(bytes)[a] \in Seq(Byte)  BY EncodedType
<1>4. Joined(0)
  <2>1. Encoded(piece)[0] = << >>  BY <1>1, <1>2, EncodedStep
  <2>2. Encoded(bytes)[a] \o << >> = Encoded(bytes)[a]  BY <1>3, ConcatEmptySeq
  <2>3. a + 0 = a  BY <1>1
  <2> QED BY <2>1, <2>2, <2>3 DEF Joined
<1>5. ASSUME NEW m \in Nat, m \in S, m + 1 <= b - a
      PROVE  Joined(m + 1)
  <2>1. Encoded(bytes)[a + m] = Encoded(bytes)[a] \o Encoded(piece)[m]
    <3>1. Joined(m)  BY <1>1, <1>5
    <3> QED BY <3>1 DEF Joined
  <2>2. /\ m \in 0 .. Len(piece)
        /\ m + 1 \in 1 .. Len(piece) /\ (m + 1) - 1 = m
        /\ a + (m + 1) \in 1 .. Len(bytes) /\ (a + (m + 1)) - 1 = a + m
        /\ Len(piece) \in Nat
    BY <1>1, <1>2, <1>5
  <2>3. Encoded(piece)[m + 1] = Encoded(piece)[m] \o EncodeByte(piece[m + 1])
    <3>1. Encoded(piece)[m + 1] = Encoded(piece)[(m + 1) - 1] \o EncodeByte(piece[m + 1])
      BY <2>2, EncodedStep
    <3> QED BY <2>2, <3>1
  <2>4. Encoded(bytes)[a + (m + 1)] = Encoded(bytes)[a + m] \o EncodeByte(bytes[a + (m + 1)])
    <3>1. Encoded(bytes)[a + (m + 1)]
            = Encoded(bytes)[(a + (m + 1)) - 1] \o EncodeByte(bytes[a + (m + 1)])
      BY <1>1, <2>2, EncodedStep
    <3> QED BY <2>2, <3>1
  <2>5. piece[m + 1] = bytes[a + (m + 1)] /\ piece[m + 1] \in Byte
    BY <1>2, <2>2, ElementOfSeq
  <2>6. EncodeByte(piece[m + 1]) \in Seq(Byte)  BY <2>5, BytesOut
  <2>7. Encoded(piece)[m] \in Seq(Byte)  BY <1>2, <2>2, EncodedType
  <2>8. (Encoded(bytes)[a] \o Encoded(piece)[m]) \o EncodeByte(piece[m + 1])
          = Encoded(bytes)[a] \o (Encoded(piece)[m] \o EncodeByte(piece[m + 1]))
    <3> DEFINE A == Encoded(bytes)[a]
               B == Encoded(piece)[m]
               C == EncodeByte(piece[m + 1])
    <3>1. A \in Seq(Byte) /\ B \in Seq(Byte) /\ C \in Seq(Byte)  BY <1>3, <2>6, <2>7
    <3> HIDE DEF A, B, C
    <3>2. (A \o B) \o C = A \o (B \o C)  BY <3>1, ConcatAssociative
    <3> QED BY <3>2 DEF A, B, C
  <2>9. Encoded(bytes)[a + (m + 1)] = Encoded(bytes)[a] \o Encoded(piece)[m + 1]
    BY <2>1, <2>3, <2>4, <2>5, <2>8, Zenon
  <2> QED BY <2>9 DEF Joined
<1>6. \A m \in Nat : m \in S => m + 1 \in S  BY <1>1, <1>5
<1>7. 0 \in S  BY <1>4
<1> HIDE DEF S
<1>8. Nat \subseteq S  BY <1>6, <1>7, SetInduction
<1>9. Joined(b - a)  BY <1>1, <1>8 DEF S
<1>10. a + (b - a) = b  BY <1>1
<1> QED BY <1>2, <1>9, <1>10, Zenon DEF ToWire, piece, Joined

-----------------------------------------------------------------------------
(* What is encoded is decoded as it was.                                   *)

\* The two pieces of a concatenation.
LEMMA ConcatPieces ==
  ASSUME NEW s \in Seq(Byte), NEW t \in Seq(Byte)
  PROVE  /\ s \o t \in Seq(Byte) /\ Len(s \o t) = Len(s) + Len(t)
         /\ SubSeq(s \o t, 1, Len(s)) = s
         /\ SubSeq(s \o t, Len(s) + 1, Len(s \o t)) = t
<1> DEFINE u == s \o t
<1>1. Len(s) \in Nat /\ Len(t) \in Nat  BY LenProperties
<1>2. /\ u \in Seq(Byte) /\ Len(u) = Len(s) + Len(t)
      /\ \A i \in 1 .. Len(s) + Len(t) : u[i] = IF i <= Len(s) THEN s[i] ELSE t[i - Len(s)]
  BY ConcatProperties
<1> HIDE DEF u
<1>4. SubSeq(u, 1, Len(s)) = s
  <2> DEFINE v == SubSeq(u, 0 + 1, Len(s))
  <2>1. 0 \in 0 .. Len(u) /\ Len(s) \in 0 .. Len(u)  BY <1>1, <1>2
  <2>2. v \in Seq(Byte) /\ Len(v) = Len(s) - 0 /\ \A i \in 1 .. Len(s) - 0 : v[i] = u[0 + i]
    BY <1>2, <2>1, Piece
  <2> HIDE DEF v
  <2>3. Len(v) = Len(s) /\ \A i \in 1 .. Len(v) : v[i] = s[i]  BY <1>1, <1>2, <2>2
  <2>4. v = s  BY <2>2, <2>3, SeqEqual
  <2>5. 0 + 1 = 1  OBVIOUS
  <2> QED BY <2>4, <2>5 DEF v
<1>5. SubSeq(u, Len(s) + 1, Len(u)) = t
  <2> DEFINE v == SubSeq(u, Len(s) + 1, Len(u))
  <2>1. Len(s) \in 0 .. Len(u) /\ Len(u) \in Len(s) .. Len(u)  BY <1>1, <1>2
  <2>2. /\ v \in Seq(Byte) /\ Len(v) = Len(u) - Len(s)
        /\ \A i \in 1 .. Len(u) - Len(s) : v[i] = u[Len(s) + i]
    BY <1>2, <2>1, Piece
  <2> HIDE DEF v
  <2>3. Len(v) = Len(t)  BY <1>1, <1>2, <2>2
  <2>4. ASSUME NEW i \in 1 .. Len(v)  PROVE v[i] = t[i]
    <3>1. v[i] = u[Len(s) + i]  BY <1>1, <1>2, <2>2, <2>3
    <3>2. /\ Len(s) + i \in 1 .. Len(s) + Len(t) /\ ~(Len(s) + i <= Len(s))
          /\ (Len(s) + i) - Len(s) = i
      BY <1>1, <2>3
    <3> QED BY <1>2, <3>1, <3>2
  <2>5. v = t  BY <2>2, <2>3, <2>4, SeqEqual
  <2> QED BY <2>5 DEF v
<1> QED BY <1>2, <1>4, <1>5 DEF u

\* A text that is decoded in two pieces is decoded as the whole: where a block ends
\* makes no difference.
THEOREM CutsDoNotMatter ==
  ASSUME NEW d, NEW s \in Seq(Byte), NEW t \in Seq(Byte)
  PROVE  FromWire(d, s \o t) = FromWire(FromWire(d, s), t)
<1> DEFINE u == s \o t
<1>1. /\ u \in Seq(Byte) /\ Len(u) = Len(s) + Len(t)
      /\ SubSeq(u, 1, Len(s)) = s /\ SubSeq(u, Len(s) + 1, Len(u)) = t
  BY ConcatPieces
<1> HIDE DEF u
<1>2. Len(s) \in Nat /\ Len(t) \in Nat /\ Len(u) \in Nat  BY <1>1, LenProperties
<1>3. After(d, u)[0] = d  BY <1>2, AfterStep
<1>4. FromWire(d, s) = After(d, u)[Len(s)]
  <2>1. 0 \in 0 .. Len(u) /\ Len(s) \in 0 .. Len(u)  BY <1>1, <1>2
  <2>2. FromWire(After(d, u)[0], SubSeq(u, 0 + 1, Len(s))) = After(d, u)[Len(s)]
    BY <1>1, <2>1, AfterGoesOn
  <2>3. 0 + 1 = 1  OBVIOUS
  <2>4. FromWire(After(d, u)[0], s) = After(d, u)[Len(s)]  BY <1>1, <2>2, <2>3
  <2> QED BY <1>3, <2>4
<1>5. FromWire(After(d, u)[Len(s)], t) = After(d, u)[Len(u)]
  <2>1. Len(s) \in 0 .. Len(u) /\ Len(u) \in Len(s) .. Len(u)  BY <1>1, <1>2
  <2>2. FromWire(After(d, u)[Len(s)], SubSeq(u, Len(s) + 1, Len(u))) = After(d, u)[Len(u)]
    BY <1>1, <2>1, AfterGoesOn
  <2> QED BY <1>1, <2>2
<1> QED BY <1>4, <1>5 DEF FromWire, u

\* One byte, and two, one after the other.
LEMMA FromWireOnce ==
  ASSUME NEW d, NEW x
  PROVE  FromWire(d, <<x>>) = DecodeByte(d, x)
<1>1. Len(<<x>>) = 1 /\ <<x>>[1] = x /\ 1 \in 1 .. 1 /\ 1 - 1 = 0 /\ 1 \in Nat  OBVIOUS
<1> DEFINE w == <<x>>
<1> HIDE DEF w
<1>2. Len(w) = 1 /\ w[1] = x  BY <1>1 DEF w
<1>3. After(d, w)[0] = d /\ After(d, w)[1] = DecodeByte(After(d, w)[1 - 1], w[1])
  BY <1>1, <1>2, AfterStep
<1>4. FromWire(d, w) = DecodeByte(d, x)  BY <1>1, <1>2, <1>3 DEF FromWire
<1> QED BY <1>4 DEF w

LEMMA FromWireTwice ==
  ASSUME NEW d, NEW x \in Byte, NEW y \in Byte
  PROVE  FromWire(d, <<x, y>>) = DecodeByte(DecodeByte(d, x), y)
<1>1. <<x>> \in Seq(Byte) /\ <<y>> \in Seq(Byte) /\ <<x>> \o <<y>> = <<x, y>>
  <2>1. <<x>> \in Seq(Byte) /\ <<y>> \in Seq(Byte)  OBVIOUS
  <2>2. Append(<<x>>, y) = <<x, y>>
    <3> DEFINE u == Append(<<x>>, y)
               v == <<x, y>>
    <3>1. Len(<<x>>) = 1 /\ <<x>>[1] = x  OBVIOUS
    <3>2. u \in Seq(Byte) /\ Len(u) = 1 + 1 /\ (\A i \in 1 .. 1 : u[i] = <<x>>[i]) /\ u[1 + 1] = y
      BY <2>1, <3>1, AppendProperties
    <3>3. v \in Seq(Byte) /\ Len(v) = 2 /\ v[1] = x /\ v[2] = y  OBVIOUS
    <3> HIDE DEF u, v
    <3>4. u[1] = x /\ u[2] = y /\ Len(u) = 2  BY <3>1, <3>2
    <3>5. \A i \in 1 .. Len(u) : i = 1 \/ i = 2  BY <3>4
    <3>6. u = v  BY <3>2, <3>3, <3>4, <3>5, SeqEqual
    <3> QED BY <3>6 DEF u, v
  <2> QED BY <2>1, <2>2, AppendIsConcat
<1>2. FromWire(d, <<x>> \o <<y>>) = FromWire(FromWire(d, <<x>>), <<y>>)
  BY <1>1, CutsDoNotMatter
<1> QED BY <1>1, <1>2, FromWireOnce

\* What stands for a byte is decoded as that byte.
LEMMA ByteComesBack ==
  ASSUME NEW out \in Seq(Byte), NEW b \in Byte
  PROVE  FromWire([out |-> out, pending_cr |-> FALSE], EncodeByte(b))
           = [out |-> Append(out, b), pending_cr |-> FALSE]
<1> DEFINE d == [out |-> out, pending_cr |-> FALSE]
           e == [out |-> out, pending_cr |-> TRUE]
<1>1. /\ CR \in Byte /\ LF \in Byte /\ NUL \in Byte
      /\ CR # LF /\ CR # NUL /\ LF # NUL
  BY NetasciiAssumption
<1>2. DecodeByte(d, CR) = e  BY DEF DecodeByte
<1> DEFINE Back == FromWire(d, EncodeByte(b)) = [out |-> Append(out, b), pending_cr |-> FALSE]
<1>3. ASSUME b = LF  PROVE Back
  <2>1. EncodeByte(b) = <<CR, LF>>  BY <1>1, <1>3 DEF EncodeByte
  <2>2. DecodeByte(e, LF) = [out |-> out \o <<LF>>, pending_cr |-> FALSE]
    BY <1>1 DEF DecodeByte, Pair
  <2>3. Append(out, LF) = out \o <<LF>>  BY <1>1, AppendIsConcat
  <2> HIDE DEF d, e
  <2>4. FromWire(d, <<CR, LF>>) = DecodeByte(DecodeByte(d, CR), LF)
    BY <1>1, FromWireTwice
  <2> QED BY <1>2, <1>3, <2>1, <2>2, <2>3, <2>4
<1>4. ASSUME b = CR  PROVE Back
  <2>1. EncodeByte(b) = <<CR, NUL>>  BY <1>1, <1>4 DEF EncodeByte
  <2>2. DecodeByte(e, NUL) = [out |-> out \o <<CR>>, pending_cr |-> FALSE]
    BY <1>1 DEF DecodeByte, Pair
  <2>3. Append(out, CR) = out \o <<CR>>  BY <1>1, AppendIsConcat
  <2> HIDE DEF d, e
  <2>4. FromWire(d, <<CR, NUL>>) = DecodeByte(DecodeByte(d, CR), NUL)
    BY <1>1, FromWireTwice
  <2> QED BY <1>2, <1>4, <2>1, <2>2, <2>3, <2>4
<1>5. ASSUME b # LF, b # CR  PROVE Back
  <2>1. EncodeByte(b) = <<b>>  BY <1>5 DEF EncodeByte
  <2>2. DecodeByte(d, b) = [out |-> Append(out, b), pending_cr |-> FALSE]
    BY <1>5 DEF DecodeByte
  <2> HIDE DEF d, e
  <2> QED BY <2>1, <2>2, FromWireOnce
<1> QED BY <1>3, <1>4, <1>5

\* Every text comes back: translate of the decoder undoes translate of the encoder,
\* and leaves no CR behind for finish.
THEOREM TextComesBack ==
  ASSUME NEW text \in Seq(Byte)
  PROVE  FromWire(NewDecoder, ToWire(text)) = [out |-> text, pending_cr |-> FALSE]
<1> DEFINE Back(m) == FromWire(NewDecoder, Encoded(text)[m])
                        = [out |-> SubSeq(text, 1, m), pending_cr |-> FALSE]
           S == {m \in Nat : m <= Len(text) => Back(m)}
<1> HIDE DEF Back
<1>1. Len(text) \in Nat  BY LenProperties
<1>2. Back(0)
  <2>1. Encoded(text)[0] = << >>  BY <1>1, EncodedStep
  <2>2. Len(<< >>) = 0 /\ 0 \in Nat  BY EmptySeq
  <2>3. FromWire(NewDecoder, << >>) = NewDecoder
    BY <2>2, AfterStep DEF FromWire
  <2>4. SubSeq(text, 1, 0) = << >>  BY SubSeqEmpty
  <2> QED BY <2>1, <2>3, <2>4 DEF Back, NewDecoder
<1>3. ASSUME NEW m \in Nat, m \in S, m + 1 <= Len(text)
      PROVE  Back(m + 1)
  <2> DEFINE wire == Encoded(text)[m]
             b == text[m + 1]
             before == SubSeq(text, 1, m)
  <2>1. FromWire(NewDecoder, wire) = [out |-> before, pending_cr |-> FALSE]
    <3>1. Back(m)  BY <1>1, <1>3
    <3> QED BY <3>1 DEF Back
  <2>2. m + 1 \in 1 .. Len(text) /\ (m + 1) - 1 = m /\ m \in 0 .. Len(text)
    BY <1>1, <1>3
  <2>3. b \in Byte  BY <2>2, ElementOfSeq
  <2>4. Encoded(text)[m + 1] = wire \o EncodeByte(b)
    <3>1. Encoded(text)[m + 1] = Encoded(text)[(m + 1) - 1] \o EncodeByte(b)
      BY <1>1, <2>2, EncodedStep
    <3> QED BY <2>2, <3>1
  <2>5. wire \in Seq(Byte) /\ EncodeByte(b) \in Seq(Byte)
    BY <2>2, <2>3, EncodedType, BytesOut
  <2>6. before \in Seq(Byte) /\ Append(before, b) = SubSeq(text, 1, m + 1)
    <3>1. \A i \in 1 .. m : text[i] \in Byte
      <4>1. \A i \in 1 .. m : i \in 1 .. Len(text)  BY <1>1, <1>3
      <4> QED BY <4>1, ElementOfSeq
    <3>2. before \in Seq(Byte)  BY <3>1, SubSeqProperties
    <3>3. 1 \in 1 .. Len(text) /\ m + 1 \in 1 .. Len(text)  BY <1>1, <2>2
    <3>4. SubSeq(text, 1, m + 1) = SubSeq(text, 1, (m + 1) - 1) \o <<b>>
      BY <3>3, SubSeqRecursiveSecond
    <3>5. Append(before, b) = before \o <<b>>  BY <2>3, <3>2, AppendIsConcat
    <3> QED BY <2>2, <3>2, <3>4, <3>5
  <2> HIDE DEF wire, b, before
  <2>7. FromWire(NewDecoder, wire \o EncodeByte(b))
          = FromWire(FromWire(NewDecoder, wire), EncodeByte(b))
    BY <2>5, CutsDoNotMatter
  <2>8. FromWire(NewDecoder, Encoded(text)[m + 1])
          = [out |-> SubSeq(text, 1, m + 1), pending_cr |-> FALSE]
    BY <2>1, <2>3, <2>4, <2>6, <2>7, ByteComesBack
  <2> QED BY <2>8 DEF Back
<1>4. \A m \in Nat : m \in S => m + 1 \in S  BY <1>1, <1>3
<1>5. 0 \in S  BY <1>2
<1> HIDE DEF S
<1>6. Nat \subseteq S  BY <1>4, <1>5, SetInduction
<1>7. Back(Len(text))  BY <1>1, <1>6 DEF S
<1>8. SubSeq(text, 1, Len(text)) = text  BY SubSeqFull
<1> QED BY <1>7, <1>8 DEF Back, ToWire

-----------------------------------------------------------------------------
(* Decoding as the bytes come is decoding with the whole text at hand.     *)

\* What Meaning says of a text, from its last byte to its first.
LEMMA MeaningByRules ==
  ASSUME NEW bytes \in Seq(Byte)
  PROVE  \E from :
           /\ Meaning(bytes) = from[1]
           /\ from[Len(bytes) + 1] = << >>
           /\ \A i \in 1 .. Len(bytes) :
                from[i] = IF bytes[i] = CR /\ i < Len(bytes)
                            THEN Pair(bytes[i + 1]) \o from[i + 2]
                            ELSE <<bytes[i]>> \o from[i + 1]
<1> DEFINE L == Len(bytes)
           Rule(f, i) == IF bytes[i] = CR /\ i < L THEN Pair(bytes[i + 1]) \o f[i + 2]
                         ELSE <<bytes[i]>> \o f[i + 1]
           Solves(f, k) == f = [i \in k .. L + 1 |-> IF i > L THEN << >> ELSE Rule(f, i)]
           Reaches(m) == \E f : Solves(f, L + 1 - m)
           S == {m \in Nat : m <= L => Reaches(m)}
<1>1. L \in Nat  BY LenProperties
<1>2. ASSUME NEW f, NEW g, NEW i \in 1 .. L, f[i + 1] = g[i + 1], i < L => f[i + 2] = g[i + 2]
      PROVE  Rule(f, i) = Rule(g, i)
  BY <1>2
<1> HIDE DEF Rule
<1>3. \E f : Solves(f, L + 1)
  <2> DEFINE g == [i \in L + 1 .. L + 1 |-> << >>]
  <2>1. \A i \in L + 1 .. L + 1 : i > L  BY <1>1
  <2>2. g = [i \in L + 1 .. L + 1 |-> IF i > L THEN << >> ELSE Rule(g, i)]  BY <2>1
  <2> QED BY <2>2
<1>4. ASSUME NEW m \in Nat, m \in S, m + 1 <= L
      PROVE  Reaches(m + 1)
  <2> DEFINE k == L - m
  <2>1. /\ k \in 1 .. L /\ L + 1 - (m + 1) = k /\ L + 1 - m = k + 1 /\ m <= L
        /\ k \in Int
    BY <1>1, <1>4
  <2> HIDE DEF k
  <2>2. PICK f : Solves(f, k + 1)  BY <1>4, <2>1
  <2> DEFINE g == [i \in k .. L + 1 |-> IF i = k THEN Rule(f, k) ELSE f[i]]
  <2>3. \A i \in k + 1 .. L + 1 : g[i] = f[i]
    <3>1. \A i \in k + 1 .. L + 1 : i \in k .. L + 1 /\ i # k  BY <1>1, <2>1
    <3> QED BY <3>1
  <2>4. g[k] = Rule(f, k)  BY <1>1, <2>1
  <2>5. g = [i \in k .. L + 1 |-> g[i]]  OBVIOUS
  <2> HIDE DEF g
  <2>6. \A i \in k .. L : Rule(g, i) = Rule(f, i)
    <3> SUFFICES ASSUME NEW i \in k .. L  PROVE Rule(g, i) = Rule(f, i)
      OBVIOUS
    <3>1. i \in 1 .. L /\ i + 1 \in k + 1 .. L + 1 /\ (i < L => i + 2 \in k + 1 .. L + 1)
      BY <1>1, <2>1
    <3> QED BY <1>2, <2>3, <3>1
  <2>7. ASSUME NEW i \in k .. L + 1
        PROVE  g[i] = IF i > L THEN << >> ELSE Rule(g, i)
    <3>1. CASE i = k
      <4>1. ~(i > L) /\ i \in k .. L  BY <1>1, <2>1, <3>1
      <4> QED BY <2>4, <2>6, <3>1, <4>1
    <3>2. CASE i # k
      <4>1. i \in k + 1 .. L + 1  BY <1>1, <2>1, <3>2
      <4>2. f[i] = IF i > L THEN << >> ELSE Rule(f, i)  BY <2>2, <4>1
      <4>3. ~(i > L) => i \in k .. L  BY <1>1, <2>1
      <4> QED BY <2>3, <2>6, <4>1, <4>2, <4>3
    <3> QED BY <3>1, <3>2
  <2>8. g = [i \in k .. L + 1 |-> IF i > L THEN << >> ELSE Rule(g, i)]
    BY <2>5, <2>7
  <2> QED BY <2>1, <2>8
<1>5. \E f : Solves(f, 1)
  <2> HIDE DEF Solves
  <2>1. L + 1 - 0 = L + 1 /\ L + 1 - L = 1  BY <1>1
  <2>2. Reaches(0)  BY <1>3, <2>1
  <2> HIDE DEF Reaches
  <2>3. \A m \in Nat : m \in S => m + 1 \in S  BY <1>1, <1>4
  <2>4. 0 \in S  BY <2>2
  <2> HIDE DEF S
  <2>5. Nat \subseteq S  BY <2>3, <2>4, SetInduction
  <2>6. Reaches(L)  BY <1>1, <2>5 DEF S
  <2> QED BY <2>1, <2>6 DEF Reaches
<1> DEFINE from == CHOOSE f : Solves(f, 1)
<1>6. Meaning(bytes) = from[1]  BY DEF Meaning, Rule
<1> HIDE DEF from, Solves
<1>7. Solves(from, 1)  BY <1>5 DEF from
<1>8. \A i \in 1 .. L + 1 : from[i] = IF i > L THEN << >> ELSE Rule(from, i)
  BY <1>7 DEF Solves
<1>9. from[L + 1] = << >>
  <2>1. L + 1 \in 1 .. L + 1 /\ L + 1 > L  BY <1>1
  <2> QED BY <1>8, <2>1
<1>10. \A i \in 1 .. L : from[i] = Rule(from, i)
  <2>1. \A i \in 1 .. L : i \in 1 .. L + 1 /\ ~(i > L)  BY <1>1
  <2> QED BY <1>8, <2>1
<1> QED BY <1>6, <1>9, <1>10 DEF Rule

\* What such rules give are bytes, from every place on.
LEMMA MeaningType ==
  ASSUME NEW bytes \in Seq(Byte), NEW from,
         from[Len(bytes) + 1] = << >>,
         \A i \in 1 .. Len(bytes) :
           from[i] = IF bytes[i] = CR /\ i < Len(bytes)
                       THEN Pair(bytes[i + 1]) \o from[i + 2]
                       ELSE <<bytes[i]>> \o from[i + 1]
  PROVE  \A i \in 1 .. Len(bytes) + 1 : from[i] \in Seq(Byte)
<1> DEFINE L == Len(bytes)
           Typed(m) == \A i \in L + 1 - m .. L + 1 : from[i] \in Seq(Byte)
           S == {m \in Nat : m <= L => Typed(m)}
<1>1. L \in Nat  BY LenProperties
<1> HIDE DEF L
<1>2. Typed(0)
  <2>1. \A i \in L + 1 - 0 .. L + 1 : i = L + 1  BY <1>1
  <2> QED BY <2>1, EmptySeq DEF L
<1>3. ASSUME NEW m \in Nat, Typed(m), m + 1 <= L
      PROVE  Typed(m + 1)
  <2> DEFINE k == L - m
  <2>1. k \in 1 .. L /\ L + 1 - (m + 1) = k /\ L + 1 - m = k + 1  BY <1>1, <1>3
  <2>2. \A i \in k + 1 .. L + 1 : from[i] \in Seq(Byte)  BY <1>3, <2>1
  <2> HIDE DEF k
  <2>3. bytes[k] \in Byte /\ (k < L => bytes[k + 1] \in Byte)
    <3>1. k < L => k + 1 \in 1 .. L  BY <1>1, <2>1
    <3> QED BY <2>1, <3>1, ElementOfSeq DEF L
  <2>4. from[k + 1] \in Seq(Byte) /\ (k < L => from[k + 2] \in Seq(Byte))
    <3>1. k + 1 \in k + 1 .. L + 1 /\ (k < L => k + 2 \in k + 1 .. L + 1)  BY <1>1, <2>1
    <3> QED BY <2>2, <3>1
  <2>5. from[k] \in Seq(Byte)
    <3>1. CASE bytes[k] = CR /\ k < L
      <4>1. from[k] = Pair(bytes[k + 1]) \o from[k + 2]  BY <2>1, <3>1 DEF L
      <4>2. Pair(bytes[k + 1]) \in Seq(Byte)  BY <2>3, <3>1, BytesOut
      <4> QED BY <2>4, <3>1, <4>1, <4>2, ConcatProperties
    <3>2. CASE ~(bytes[k] = CR /\ k < L)
      <4>1. from[k] = <<bytes[k]>> \o from[k + 1]  BY <2>1, <3>2 DEF L
      <4>2. <<bytes[k]>> \in Seq(Byte)  BY <2>3
      <4> QED BY <2>4, <4>1, <4>2, ConcatProperties
    <3> QED BY <3>1, <3>2
  <2>6. \A i \in k .. L + 1 : i = k \/ i \in k + 1 .. L + 1  BY <1>1, <2>1
  <2> QED BY <2>1, <2>2, <2>5, <2>6
<1> HIDE DEF Typed
<1>4. \A m \in Nat : m \in S => m + 1 \in S  BY <1>1, <1>3
<1>5. 0 \in S  BY <1>2
<1> HIDE DEF S
<1>6. Nat \subseteq S  BY <1>4, <1>5, SetInduction
<1>7. Typed(L)  BY <1>1, <1>6 DEF S
<1>8. L + 1 - L = 1  BY <1>1
<1> QED BY <1>7, <1>8 DEF Typed, L

\* A decoder that has been given a text byte by byte has put out what the text stands
\* for by the rules of netascii, whatever bytes the text is made of.
THEOREM DecodesMeaning ==
  ASSUME NEW bytes \in Seq(Byte)
  PROVE  Finish(FromWire(NewDecoder, bytes)).out = Meaning(bytes)
<1> DEFINE L == Len(bytes)
           at(n) == After(NewDecoder, bytes)[n]
<1>1. PICK from :
        /\ Meaning(bytes) = from[1]
        /\ from[L + 1] = << >>
        /\ \A i \in 1 .. L :
             from[i] = IF bytes[i] = CR /\ i < L
                         THEN Pair(bytes[i + 1]) \o from[i + 2]
                         ELSE <<bytes[i]>> \o from[i + 1]
  BY MeaningByRules
<1>2. \A i \in 1 .. L + 1 : from[i] \in Seq(Byte)
  BY <1>1, MeaningType
<1> DEFINE \* What the decoder has put out, with what is still to come, is the meaning.
           Told(n) ==
             /\ ~at(n).pending_cr => Meaning(bytes) = at(n).out \o from[n + 1]
             /\ at(n).pending_cr =>
                  n \in 1 .. L /\ bytes[n] = CR /\ Meaning(bytes) = at(n).out \o from[n]
           S == {n \in Nat : n <= L => Told(n)}
<1>3. L \in Nat  BY LenProperties
<1>4. NewDecoder \in Decoder  BY EmptySeq DEF NewDecoder, Decoder
<1> HIDE DEF Told
<1>5. Told(0)
  <2>1. at(0) = NewDecoder  BY <1>3, AfterStep
  <2>2. at(0).out = << >> /\ at(0).pending_cr = FALSE  BY <2>1 DEF NewDecoder
  <2>3. 1 \in 1 .. L + 1 /\ 0 + 1 = 1  BY <1>3
  <2>4. << >> \o from[1] = from[1]  BY <1>2, <2>3, ConcatEmptySeq
  <2> HIDE DEF at
  <2> QED BY <1>1, <2>2, <2>3, <2>4 DEF Told
<1>6. ASSUME NEW n \in Nat, n \in S, n + 1 <= L
      PROVE  Told(n + 1)
  <2> DEFINE b == bytes[n + 1]
  <2>1. Told(n)  BY <1>3, <1>6
  <2>2. /\ n \in 0 .. L /\ n + 1 \in 1 .. L /\ (n + 1) - 1 = n
        /\ (n + 1) + 1 = n + 2 /\ n + 1 \in 1 .. L + 1 /\ n + 2 \in 1 .. L + 1
    BY <1>3, <1>6
  <2>3. b \in Byte  BY <2>2, ElementOfSeq
  <2>4. at(n + 1) = DecodeByte(at(n), b)
    <3>1. at(n + 1) = DecodeByte(at((n + 1) - 1), b)  BY <1>3, <2>2, AfterStep
    <3> QED BY <2>2, <3>1
  <2>5. at(n) \in Decoder  BY <1>4, <2>2, AfterType
  <2>6. at(n).out \in Seq(Byte) /\ at(n).pending_cr \in BOOLEAN  BY <2>5 DEF Decoder
  <2>7. from[n + 1] \in Seq(Byte) /\ from[n + 2] \in Seq(Byte)  BY <1>2, <2>2
  <2> HIDE DEF at, b
  <2>8. CASE at(n).pending_cr
    <3>1. /\ n \in 1 .. L /\ bytes[n] = CR
          /\ Meaning(bytes) = at(n).out \o from[n]
      BY <2>1, <2>8 DEF Told
    <3>2. n < L  BY <1>3, <1>6
    <3>3. from[n] = Pair(b) \o from[n + 2]  BY <1>1, <3>1, <3>2 DEF b
    <3>4. at(n + 1).out = at(n).out \o Pair(b) /\ at(n + 1).pending_cr = FALSE
      BY <2>4, <2>8 DEF DecodeByte
    <3>5. Pair(b) \in Seq(Byte)  BY <2>3, BytesOut
    <3>6. (at(n).out \o Pair(b)) \o from[n + 2] = at(n).out \o (Pair(b) \o from[n + 2])
      <4> DEFINE x == at(n).out
                 y == Pair(b)
                 z == from[n + 2]
      <4>1. x \in Seq(Byte) /\ y \in Seq(Byte) /\ z \in Seq(Byte)  BY <2>6, <2>7, <3>5
      <4> HIDE DEF x, y, z
      <4>2. (x \o y) \o z = x \o (y \o z)  BY <4>1, ConcatAssociative
      <4> QED BY <4>2 DEF x, y, z
    <3> QED BY <2>2, <3>1, <3>3, <3>4, <3>6 DEF Told
  <2>9. CASE ~at(n).pending_cr /\ b = CR
    <3>1. at(n + 1).out = at(n).out /\ at(n + 1).pending_cr = TRUE
      BY <2>4, <2>5, <2>9 DEF DecodeByte, Decoder
    <3> QED BY <2>1, <2>2, <2>9, <3>1 DEF b, Told
  <2>10. CASE ~at(n).pending_cr /\ b # CR
    <3>1. at(n + 1).out = Append(at(n).out, b) /\ at(n + 1).pending_cr = FALSE
      BY <2>4, <2>5, <2>6, <2>10 DEF DecodeByte, Decoder
    <3>2. Append(at(n).out, b) = at(n).out \o <<b>>  BY <2>3, <2>6, AppendIsConcat
    <3>3. from[n + 1] = <<b>> \o from[n + 2]  BY <1>1, <2>2, <2>10 DEF b
    <3>4. <<b>> \in Seq(Byte)  BY <2>3
    <3>5. (at(n).out \o <<b>>) \o from[n + 2] = at(n).out \o (<<b>> \o from[n + 2])
      <4> DEFINE x == at(n).out
                 y == <<b>>
                 z == from[n + 2]
      <4>1. x \in Seq(Byte) /\ y \in Seq(Byte) /\ z \in Seq(Byte)  BY <2>6, <2>7, <3>4
      <4> HIDE DEF x, y, z
      <4>2. (x \o y) \o z = x \o (y \o z)  BY <4>1, ConcatAssociative
      <4> QED BY <4>2 DEF x, y, z
    <3> QED BY <2>1, <2>2, <2>10, <3>1, <3>2, <3>3, <3>5 DEF Told
  <2> QED BY <2>8, <2>9, <2>10
<1>7. \A n \in Nat : n \in S => n + 1 \in S  BY <1>3, <1>6
<1>8. 0 \in S  BY <1>5
<1> HIDE DEF S
<1>9. Nat \subseteq S  BY <1>7, <1>8, SetInduction
<1>10. Told(L)  BY <1>3, <1>9 DEF S
<1>11. at(L) \in Decoder
  <2>1. L \in 0 .. L  BY <1>3
  <2> QED BY <1>4, <2>1, AfterType
<1>12. at(L).out \in Seq(Byte) /\ at(L).pending_cr \in BOOLEAN  BY <1>11 DEF Decoder
<1> HIDE DEF at
<1>13. CASE at(L).pending_cr
  <2>1. L \in 1 .. L /\ bytes[L] = CR /\ Meaning(bytes) = at(L).out \o from[L]
    BY <1>10, <1>13 DEF Told
  <2>2. from[L] = <<CR>> \o << >>
    <3>1. ~(L < L)  BY <1>3
    <3>2. from[L] = <<bytes[L]>> \o from[L + 1]  BY <1>1, <2>1, <3>1
    <3> QED BY <1>1, <2>1, <3>2
  <2>3. CR \in Byte /\ <<CR>> \in Seq(Byte)  BY NetasciiAssumption
  <2>4. <<CR>> \o << >> = <<CR>>  BY <2>3, ConcatEmptySeq
  <2>5. Append(at(L).out, CR) = at(L).out \o <<CR>>  BY <1>12, <2>3, AppendIsConcat
  <2>6. Finish(at(L)).out = Append(at(L).out, CR)  BY <1>13 DEF Finish
  <2> QED BY <2>1, <2>2, <2>4, <2>5, <2>6 DEF at, FromWire
<1>14. CASE ~at(L).pending_cr
  <2>1. Meaning(bytes) = at(L).out \o << >>  BY <1>1, <1>10, <1>14 DEF Told
  <2>2. at(L).out \o << >> = at(L).out  BY <1>12, ConcatEmptySeq
  <2>3. Finish(at(L)) = at(L)  BY <1>14 DEF Finish
  <2> QED BY <2>1, <2>2, <2>3 DEF at, FromWire
<1> QED BY <1>13, <1>14

-----------------------------------------------------------------------------
(* Blocks as multiples of blksize.                                         *)

LEMMA Products ==
  ASSUME NEW b \in Nat \ {0}, NEW i \in Nat
  PROVE  i * b \in Nat /\ (i + 1) * b = i * b + b
OBVIOUS

LEMMA ProductsGrow ==
  ASSUME NEW b \in Nat \ {0}, NEW i \in Nat, NEW j \in Nat, i <= j
  PROVE  i * b <= j * b
<1> DEFINE S == {n \in Nat : i * b <= (i + n) * b}
<1>1. 0 \in S  OBVIOUS
<1>2. ASSUME NEW n \in Nat, n \in S
      PROVE  n + 1 \in S
  <2>1. i + n \in Nat /\ (i + n) + 1 = i + (n + 1)  OBVIOUS
  <2>2. (i + (n + 1)) * b = (i + n) * b + b /\ (i + n) * b \in Nat /\ i * b \in Nat
    BY <2>1, Products
  <2> QED BY <1>2, <2>2
<1> HIDE DEF S
<1>3. Nat \subseteq S  BY <1>1, <1>2, SetInduction
<1>4. j - i \in Nat /\ i + (j - i) = j  OBVIOUS
<1>5. i * b <= (i + (j - i)) * b  BY <1>3, <1>4 DEF S
<1> QED BY <1>4, <1>5

LEMMA Quotient ==
  ASSUME NEW b \in Nat \ {0}, NEW n \in Nat, NEW k \in Nat, k * b <= n
  PROVE  /\ k <= n \div b
         /\ n < (k + 1) * b => n \div b = k
<1> DEFINE q == n \div b
           r == n % b
<1>1. q \in Nat /\ r \in 0 .. b - 1 /\ n = q * b + r
  OBVIOUS
<1> HIDE DEF q, r
<1>2. ASSUME q < k  PROVE FALSE
  <2>1. (q + 1) * b <= k * b  BY <1>1, <1>2, ProductsGrow
  <2>2. (q + 1) * b = q * b + b /\ q * b \in Nat /\ k * b \in Nat  BY <1>1, Products
  <2> QED BY <1>1, <2>1, <2>2
<1>3. ASSUME n < (k + 1) * b, k < q  PROVE FALSE
  <2>1. (k + 1) * b <= q * b  BY <1>1, <1>3, ProductsGrow
  <2>2. q * b \in Nat /\ (k + 1) * b \in Nat  BY <1>1, Products
  <2> QED BY <1>1, <1>3, <2>1, <2>2
<1>4. k <= q  BY <1>1, <1>2
<1>5. n < (k + 1) * b => q = k  BY <1>1, <1>3, <1>4
<1> QED BY <1>4, <1>5 DEF q

-----------------------------------------------------------------------------
(* The wire.                                                               *)

\* What is said of a file below needs no more than these types.
LEMMA WireTypes ==
  ASSUME TypeOK
  PROVE  /\ file \in Seq(Byte) /\ Len(file) \in Nat /\ pos \in Nat
         /\ blksize \in Nat \ {0}
         /\ Wire \in Seq(Byte) /\ Len(Wire) \in Nat
         /\ Wire = Taken(Len(file))
         /\ \A n \in 0 .. Len(file) : Taken(n) \in Seq(Byte)
<1>1. file \in Seq(Byte) /\ blksize \in Nat \ {0} /\ pos \in 0 .. Len(file)
  BY BlockReaderAssumption DEF TypeOK
<1>2. Len(file) \in Nat  BY <1>1, LenProperties
<1>3. Wire = Taken(Len(file))
  <2>1. SubSeq(file, 1, Len(file)) = file  BY <1>1, SubSeqFull
  <2> QED BY <2>1 DEF Wire, Taken, ToWire
<1>4. ASSUME NEW n \in 0 .. Len(file)  PROVE Taken(n) \in Seq(Byte)
  <2>1. \A i \in 1 .. n : i \in 1 .. Len(file)  BY <1>2
  <2>2. \A i \in 1 .. n : file[i] \in Byte  BY <1>1, <2>1, ElementOfSeq
  <2>3. SubSeq(file, 1, n) \in Seq(Byte)  BY <1>2, <2>2, SubSeqProperties
  <2>4. Encoded(file)[n] \in Seq(Byte)  BY <1>1, EncodedType
  <2> QED BY <2>3, <2>4 DEF Taken
<1>5. Wire \in Seq(Byte)
  <2>1. Len(file) \in 0 .. Len(file)  BY <1>2
  <2> QED BY <1>3, <1>4, <2>1
<1>6. Len(Wire) \in Nat  BY <1>5, LenProperties
<1> QED BY <1>1, <1>2, <1>3, <1>4, <1>5, <1>6

\* What a chunk becomes.
Translated(chunk) == IF encoder THEN ToWire(chunk) ELSE chunk

\* A chunk is put out behind what has been put out before, and becomes at most twice
\* as long.
LEMMA TakenGoesOn ==
  ASSUME TypeOK, NEW a \in 0 .. Len(file), NEW b \in a .. Len(file)
  PROVE  LET t == Translated(SubSeq(file, a + 1, b))
         IN  /\ t \in Seq(Byte) /\ Len(t) \in Nat /\ Len(t) <= 2 * (b - a)
             /\ Taken(b) = Taken(a) \o t
<1> DEFINE chunk == SubSeq(file, a + 1, b)
<1>1. file \in Seq(Byte) /\ Len(file) \in Nat  BY WireTypes
<1>2. a \in Nat /\ b \in Nat /\ a <= b /\ b <= Len(file)  BY <1>1
<1>3. chunk \in Seq(Byte) /\ Len(chunk) = b - a
  BY <1>1, Piece
<1> HIDE DEF chunk
<1>4. ToWire(chunk) \in Seq(Byte) /\ Len(ToWire(chunk)) <= 2 * (b - a)
  <2>1. Len(chunk) \in 0 .. Len(chunk)  BY <1>2, <1>3
  <2> QED BY <1>3, <2>1, EncodedType DEF ToWire
<1>5. /\ Translated(chunk) \in Seq(Byte) /\ Len(Translated(chunk)) \in Nat
      /\ Len(Translated(chunk)) <= 2 * (b - a)
  <2>1. Translated(chunk) \in Seq(Byte)  BY <1>3, <1>4 DEF Translated
  <2>2. Len(Translated(chunk)) <= 2 * (b - a)
    <3>1. b - a <= 2 * (b - a)  BY <1>2
    <3> QED BY <1>3, <1>4, <3>1 DEF Translated
  <2> QED BY <2>1, <2>2, LenProperties
<1>6. Taken(b) = Taken(a) \o Translated(chunk)
  <2>1. CASE encoder
    <3>1. Encoded(file)[b] = Encoded(file)[a] \o ToWire(chunk)
      BY <1>1, EncodedGoesOn DEF chunk
    <3> QED BY <2>1, <3>1 DEF Taken, Translated
  <2>2. CASE ~encoder
    <3>1. 1 \in 1 .. Len(file) + 1 /\ a \in 1 - 1 .. Len(file) /\ b \in a .. Len(file)
      BY <1>1, <1>2
    <3>2. SubSeq(file, 1, a) \o SubSeq(file, a + 1, b) = SubSeq(file, 1, b)
      BY <1>1, <3>1, ConcatAdjacentSubSeq
    <3> QED BY <2>2, <3>2 DEF Taken, Translated, chunk
  <2> QED BY <2>1, <2>2
<1> QED BY <1>5, <1>6 DEF chunk

-----------------------------------------------------------------------------
(* Pieces of texts.                                                        *)

\* A piece that lies in the first part of a concatenation.
LEMMA PieceOfFirst ==
  ASSUME NEW s \in Seq(Byte), NEW t \in Seq(Byte), NEW a \in 0 .. Len(s), NEW b \in a .. Len(s)
  PROVE  SubSeq(s \o t, a + 1, b) = SubSeq(s, a + 1, b)
<1> DEFINE u == s \o t
           v == SubSeq(u, a + 1, b)
           w == SubSeq(s, a + 1, b)
<1>1. Len(s) \in Nat /\ Len(t) \in Nat /\ a \in Nat /\ b \in Nat /\ a <= b /\ b <= Len(s)
  BY LenProperties
<1>2. /\ u \in Seq(Byte) /\ Len(u) = Len(s) + Len(t)
      /\ \A i \in 1 .. Len(s) + Len(t) : u[i] = IF i <= Len(s) THEN s[i] ELSE t[i - Len(s)]
  BY ConcatProperties
<1>3. w \in Seq(Byte) /\ Len(w) = b - a /\ \A i \in 1 .. b - a : w[i] = s[a + i]
  BY Piece
<1> HIDE DEF u
<1>4. v \in Seq(Byte) /\ Len(v) = b - a /\ \A i \in 1 .. b - a : v[i] = u[a + i]
  <2>1. a \in 0 .. Len(u) /\ b \in a .. Len(u)  BY <1>1, <1>2
  <2> QED BY <1>2, <2>1, Piece
<1> HIDE DEF v, w
<1>5. \A i \in 1 .. b - a : v[i] = w[i]
  <2>1. \A i \in 1 .. b - a : a + i \in 1 .. Len(s) + Len(t) /\ a + i <= Len(s)  BY <1>1
  <2> QED BY <1>2, <1>3, <1>4, <2>1
<1>6. v = w  BY <1>3, <1>4, <1>5, SeqEqual
<1> QED BY <1>6 DEF u, v, w

\* The rest of a concatenation, from a place in its first part on.
LEMMA RestOfConcat ==
  ASSUME NEW s \in Seq(Byte), NEW t \in Seq(Byte), NEW a \in 0 .. Len(s)
  PROVE  SubSeq(s \o t, a + 1, Len(s \o t)) = SubSeq(s, a + 1, Len(s)) \o t
<1> DEFINE u == s \o t
<1>1. /\ u \in Seq(Byte) /\ Len(u) = Len(s) + Len(t)
      /\ SubSeq(u, Len(s) + 1, Len(u)) = t
  BY ConcatPieces
<1>2. Len(s) \in Nat /\ Len(t) \in Nat /\ a \in Nat  BY LenProperties
<1>3. Len(s) \in a .. Len(s)  BY <1>2
<1>4. SubSeq(u, a + 1, Len(s)) = SubSeq(s, a + 1, Len(s))  BY <1>3, PieceOfFirst
<1> HIDE DEF u
<1>5. a + 1 \in 1 .. Len(u) + 1 /\ Len(s) \in (a + 1) - 1 .. Len(u) /\ Len(u) \in Len(s) .. Len(u)
  BY <1>1, <1>2
<1>6. SubSeq(u, a + 1, Len(s)) \o SubSeq(u, Len(s) + 1, Len(u)) = SubSeq(u, a + 1, Len(u))
  BY <1>1, <1>5, ConcatAdjacentSubSeq
<1> QED BY <1>1, <1>4, <1>6 DEF u

\* A piece of the rest of a text is a piece of the text.
LEMMA PieceOfRest ==
  ASSUME NEW s \in Seq(Byte), NEW g \in 0 .. Len(s),
         NEW a \in 0 .. Len(s) - g, NEW b \in a .. Len(s) - g
  PROVE  SubSeq(SubSeq(s, g + 1, Len(s)), a + 1, b) = SubSeq(s, (g + a) + 1, g + b)
<1> DEFINE r == SubSeq(s, g + 1, Len(s))
           v == SubSeq(r, a + 1, b)
           w == SubSeq(s, (g + a) + 1, g + b)
<1>1. /\ Len(s) \in Nat /\ g \in Nat /\ g <= Len(s)
      /\ a \in Nat /\ b \in Nat /\ a <= b /\ b <= Len(s) - g
  BY LenProperties
<1>2. /\ r \in Seq(Byte) /\ Len(r) = Len(s) - g
      /\ \A i \in 1 .. Len(s) - g : r[i] = s[g + i]
  <2>1. Len(s) \in g .. Len(s)  BY <1>1
  <2> QED BY <2>1, Piece
<1>3. /\ w \in Seq(Byte) /\ Len(w) = (g + b) - (g + a)
      /\ \A i \in 1 .. (g + b) - (g + a) : w[i] = s[(g + a) + i]
  <2>1. g + a \in 0 .. Len(s) /\ g + b \in g + a .. Len(s)  BY <1>1
  <2> QED BY <2>1, Piece
<1> HIDE DEF r
<1>4. v \in Seq(Byte) /\ Len(v) = b - a /\ \A i \in 1 .. b - a : v[i] = r[a + i]
  <2>1. a \in 0 .. Len(r) /\ b \in a .. Len(r)  BY <1>1, <1>2
  <2> QED BY <1>2, <2>1, Piece
<1> HIDE DEF v, w
<1>5. (g + b) - (g + a) = b - a  BY <1>1
<1>6. ASSUME NEW i \in 1 .. b - a  PROVE v[i] = w[i]
  <2>1. a + i \in 1 .. Len(s) - g /\ g + (a + i) = (g + a) + i  BY <1>1
  <2> QED BY <1>2, <1>3, <1>4, <1>5, <2>1
<1>7. v = w  BY <1>3, <1>4, <1>5, <1>6, SeqEqual
<1> QED BY <1>7 DEF r, v, w

-----------------------------------------------------------------------------
(* The blocks.                                                             *)

\* What has been taken is the beginning of the wire.
LEMMA TakenIsPrefix ==
  ASSUME TypeOK, NEW n \in 0 .. Len(file)
  PROVE  /\ Taken(n) \in Seq(Byte) /\ Len(Taken(n)) \in Nat /\ Len(Taken(n)) <= Len(Wire)
         /\ \A a \in 0 .. Len(Taken(n)) : \A b \in a .. Len(Taken(n)) :
              SubSeq(Wire, a + 1, b) = SubSeq(Taken(n), a + 1, b)
<1>1. Len(file) \in n .. Len(file) /\ Len(file) \in Nat  BY WireTypes
<1>2. PICK t \in Seq(Byte) : Taken(Len(file)) = Taken(n) \o t /\ Len(t) \in Nat
  BY <1>1, TakenGoesOn
<1>3. Taken(n) \in Seq(Byte) /\ Wire = Taken(Len(file))  BY WireTypes
<1>4. Len(Wire) = Len(Taken(n)) + Len(t)  BY <1>2, <1>3, ConcatProperties
<1>5. Len(Taken(n)) \in Nat  BY <1>3, LenProperties
<1>6. ASSUME NEW a \in 0 .. Len(Taken(n)), NEW b \in a .. Len(Taken(n))
      PROVE  SubSeq(Wire, a + 1, b) = SubSeq(Taken(n), a + 1, b)
  BY <1>2, <1>3, PieceOfFirst
<1> QED BY <1>2, <1>3, <1>4, <1>5, <1>6

\* Every block takes the wire a step on, of at most blksize.
LEMMA GoneFacts ==
  ASSUME TypeOK, NEW n \in Nat
  PROVE  /\ n * blksize \in Nat /\ (n + 1) * blksize = n * blksize + blksize
         /\ Gone(n) \in 0 .. Len(Wire) /\ Gone(n + 1) \in Gone(n) .. Len(Wire)
         /\ Gone(n) = IF n * blksize <= Len(Wire) THEN n * blksize ELSE Len(Wire)
<1>1. blksize \in Nat \ {0} /\ Len(Wire) \in Nat  BY WireTypes
<1>2. /\ n * blksize \in Nat /\ (n + 1) * blksize = n * blksize + blksize
      /\ n + 1 \in Nat
  BY <1>1, Products
<1> DEFINE p == n * blksize
           q == (n + 1) * blksize
           W == Len(Wire)
<1>3. Gone(n) = Least(p, W) /\ Gone(n + 1) = Least(q, W)  BY DEF Gone
<1>4. p \in Nat /\ q = p + blksize /\ W \in Nat  BY <1>1, <1>2
<1> HIDE DEF p, q, W
<1>5. /\ Gone(n) = IF p <= W THEN p ELSE W
      /\ Gone(n + 1) = IF q <= W THEN q ELSE W
  BY <1>1, <1>3, <1>4 DEF Least
<1>6. Gone(n) \in 0 .. W /\ Gone(n + 1) \in Gone(n) .. W
  BY <1>1, <1>4, <1>5
<1> QED BY <1>2, <1>5, <1>6 DEF p, W

\* The blocks before the last, and the last if it is not the final one, are full.
LEMMA BlocksReach ==
  ASSUME TypeOK, SenderInv
  PROVE  /\ Len(blocks) \in Nat
         /\ ~final => Len(blocks) * blksize <= Len(Wire)
         /\ final => Len(blocks) # 0
         /\ \A i \in 1 .. Len(blocks) :
              /\ i - 1 \in Nat /\ (i - 1) * blksize <= Len(Wire)
              /\ i * blksize <= Len(Wire) <=> ~(final /\ i = Len(blocks))
<1> DEFINE Q == Len(blocks)
           W == Len(Wire)
<1>1. blksize \in Nat \ {0} /\ W \in Nat /\ Q \in Nat /\ pos \in 0 .. Len(file)
  BY WireTypes, LenProperties DEF TypeOK
<1>2. ~final => Q * blksize <= W
  <2>1. Len(Taken(pos)) <= W /\ Len(Taken(pos)) \in Nat  BY <1>1, TakenIsPrefix
  <2>2. Q * blksize \in Nat  BY <1>1, Products
  <2>3. ~final => Q * blksize <= Len(Taken(pos))  BY DEF SenderInv
  <2> QED BY <1>1, <2>1, <2>2, <2>3
<1>3. final => (Q - 1) * blksize <= W /\ W < Q * blksize  BY DEF SenderInv
<1> HIDE DEF Q, W
<1>4. final => Q # 0
  <2>1. 0 * blksize = 0  BY <1>1
  <2> QED BY <1>1, <1>3, <2>1
<1>5. ASSUME NEW i \in 1 .. Q
      PROVE  /\ i - 1 \in Nat /\ (i - 1) * blksize <= W
             /\ i * blksize <= W <=> ~(final /\ i = Q)
  <2>1. /\ i \in Nat /\ i <= Q /\ i - 1 \in Nat /\ i - 1 <= i
        /\ (i # Q => i <= Q - 1) /\ i - 1 <= Q - 1
        /\ Q - 1 \in Nat
    BY <1>1
  <2>2. /\ i * blksize \in Nat /\ (i - 1) * blksize \in Nat
        /\ Q * blksize \in Nat /\ (Q - 1) * blksize \in Nat
    BY <1>1, <2>1, Products
  <2>3. /\ i * blksize <= Q * blksize
        /\ (i - 1) * blksize <= (Q - 1) * blksize
        /\ (i - 1) * blksize <= i * blksize
    BY <1>1, <2>1, ProductsGrow
  <2>4. i # Q => i * blksize <= (Q - 1) * blksize  BY <1>1, <2>1, ProductsGrow
  <2>5. CASE final
    <3> DEFINE x == i * blksize
               y == (i - 1) * blksize
               z == (Q - 1) * blksize
               u == Q * blksize
    <3>1. z <= W /\ W < u  BY <1>3, <2>5
    <3>2. x \in Nat /\ y \in Nat /\ z \in Nat /\ u \in Nat /\ y <= z /\ (i # Q => x <= z)
          /\ (i = Q => x = u)
      BY <2>2, <2>3, <2>4
    <3> HIDE DEF x, y, z, u
    <3>3. y <= W /\ (x <= W <=> i # Q)  BY <1>1, <3>1, <3>2
    <3> QED BY <2>1, <2>5, <3>3 DEF x, y
  <2>6. CASE ~final
    <3> DEFINE x == i * blksize
               y == (i - 1) * blksize
               u == Q * blksize
    <3>1. x \in Nat /\ y \in Nat /\ u \in Nat /\ y <= x /\ x <= u /\ u <= W
      BY <1>2, <2>2, <2>3, <2>6
    <3> HIDE DEF x, y, u
    <3>2. y <= W /\ x <= W  BY <1>1, <3>1
    <3> QED BY <2>1, <2>6, <3>2 DEF x, y
  <2> QED BY <2>5, <2>6
<1> QED BY <1>1, <1>2, <1>4, <1>5 DEF Q, W

\* A block is short exactly if it is the final one: the receiver recognizes the end.
LEMMA ShortIsFinal ==
  ASSUME TypeOK, SenderInv, NEW i \in 1 .. Len(blocks)
  PROVE  /\ i - 1 \in Nat /\ Gone(i - 1) \in 0 .. Len(Wire) /\ Gone(i) \in Gone(i - 1) .. Len(Wire)
         /\ blocks[i] = SubSeq(Wire, Gone(i - 1) + 1, Gone(i))
         /\ blocks[i] \in Seq(Byte)
         /\ Len(blocks[i]) < blksize <=> final /\ i = Len(blocks)
<1>1. /\ Len(blocks) \in Nat
      /\ i - 1 \in Nat /\ (i - 1) * blksize <= Len(Wire)
      /\ i * blksize <= Len(Wire) <=> ~(final /\ i = Len(blocks))
  BY BlocksReach
<1>2. (i - 1) + 1 = i  BY <1>1
<1>3. /\ (i - 1) * blksize \in Nat /\ i * blksize = (i - 1) * blksize + blksize
      /\ Gone(i - 1) \in 0 .. Len(Wire) /\ Gone(i) \in Gone(i - 1) .. Len(Wire)
      /\ Gone(i - 1) = (i - 1) * blksize
  BY <1>1, <1>2, GoneFacts
<1>4. Gone(i) = IF i * blksize <= Len(Wire) THEN i * blksize ELSE Len(Wire)
  <2>1. i \in Nat  BY <1>1
  <2> QED BY <2>1, GoneFacts
<1>5. blocks[i] = SubSeq(Wire, Gone(i - 1) + 1, Gone(i))
  <2>1. DOMAIN blocks = 1 .. Len(blocks)  BY LenProperties DEF TypeOK
  <2> QED BY <2>1 DEF SenderInv
<1>6. Wire \in Seq(Byte) /\ Len(Wire) \in Nat /\ blksize \in Nat \ {0}  BY WireTypes
<1>7. blocks[i] \in Seq(Byte) /\ Len(blocks[i]) = Gone(i) - Gone(i - 1)
  <2> DEFINE x == Gone(i - 1)
             y == Gone(i)
  <2>1. x \in 0 .. Len(Wire) /\ y \in x .. Len(Wire) /\ blocks[i] = SubSeq(Wire, x + 1, y)
    BY <1>3, <1>5
  <2> HIDE DEF x, y
  <2>2. blocks[i] \in Seq(Byte) /\ Len(blocks[i]) = y - x
    BY <1>6, <2>1, Piece
  <2> QED BY <2>2 DEF x, y
<1>8. Len(blocks[i]) < blksize <=> final /\ i = Len(blocks)
  <2> DEFINE x == i * blksize
             y == (i - 1) * blksize
  <2>1. y \in Nat /\ x = y + blksize /\ Gone(i - 1) = y /\ y <= Len(Wire)  BY <1>1, <1>3
  <2>2. Gone(i) = IF x <= Len(Wire) THEN x ELSE Len(Wire)  BY <1>4
  <2>3. x <= Len(Wire) <=> ~(final /\ i = Len(blocks))  BY <1>1
  <2> HIDE DEF x, y
  <2>4. Gone(i) - Gone(i - 1) < blksize <=> ~(x <= Len(Wire))
    BY <1>6, <2>1, <2>2
  <2> QED BY <1>7, <2>3, <2>4
<1> QED BY <1>1, <1>3, <1>5, <1>7, <1>8

-----------------------------------------------------------------------------
(* The invariant.                                                          *)

\* As long as the file and the modes are what they are, so is the wire.
LEMMA WireStays ==
  ASSUME UNCHANGED parameters
  PROVE  /\ Wire' = Wire
         /\ \A n : Taken(n)' = Taken(n)
         /\ \A n : Gone(n)' = Gone(n)
BY DEF parameters, Wire, Taken, Gone

LEMMA InitCutInv == Init => CutInv
<1> SUFFICES ASSUME Init  PROVE CutInv
  OBVIOUS
<1>1. Len(<< >>) = 0 /\ << >> \in Seq(Byte) /\ << >> \in Seq(Seq(Byte))  BY EmptySeq
<1>2. TypeOK
  <2>1. file \in Files /\ blksize \in BlkSizes /\ blksize \in Nat \ {0} /\ file \in Seq(Byte)
    BY BlockReaderAssumption DEF Init
  <2>2. Len(file) \in Nat  BY <2>1, LenProperties
  <2>3. 0 \in 0 .. Len(file) /\ 0 \in 0 .. 0 /\ 0 < 3 * blksize  BY <2>1, <2>2
  <2> QED BY <1>1, <2>1, <2>3 DEF Init, TypeOK, NewDecoder
<1>3. /\ Wire \in Seq(Byte) /\ Len(Wire) \in Nat /\ blksize \in Nat \ {0}
      /\ Len(file) \in Nat
  BY <1>2, WireTypes
<1>4. Gone(0) = 0 /\ 0 * blksize = 0
  <2>1. 0 * blksize = 0  BY <1>3
  <2> QED BY <1>3, <2>1 DEF Gone, Least
<1>5. SenderInv
  <2>1. Taken(0) = << >>
    <3>1. Encoded(file)[0] = << >>  BY <1>3, EncodedStep
    <3>2. SubSeq(file, 1, 0) = << >>  BY SubSeqEmpty
    <3> QED BY <3>1, <3>2 DEF Taken
  <2>2. SubSeq(<< >>, 0 + 1, 0) = << >>  BY SubSeqEmpty
  <2>3. DOMAIN << >> = {}  OBVIOUS
  <2> QED BY <1>1, <1>4, <2>1, <2>2, <2>3 DEF Init, SenderInv
<1>6. ReceiverInv
  <2>1. SubSeq(Wire, 1, 0) = << >>  BY SubSeqEmpty
  <2>2. After(NewDecoder, Wire)[0] = NewDecoder  BY <1>3, AfterStep
  <2>3. ~Done  BY DEF Done, Init
  <2> QED BY <1>4, <2>1, <2>2, <2>3 DEF Init, ReceiverInv, NewDecoder
<1> QED BY <1>2, <1>5, <1>6 DEF CutInv

\* What the receiver has is not touched by the sender's reads.
LEMMA ReceiverUntouched ==
  ASSUME ReceiverInv, UNCHANGED <<parameters, written, sink>>, Done' <=> Done
  PROVE  ReceiverInv'
<1>1. Wire' = Wire /\ \A n : Gone(n)' = Gone(n)  BY WireStays
<1>2. decoder' = decoder  BY DEF parameters
<1> QED BY <1>1, <1>2 DEF ReceiverInv

\* A chunk, however short, goes behind what is pending; pending stays below three
\* blocks, because it held less than one and a chunk becomes at most two.
LEMMA ReadKeepsInv ==
  ASSUME CutInv, Read
  PROVE  CutInv'
<1> DEFINE g == Len(blocks) * blksize
<1>1. PICK n \in 1 .. Least(blksize, Len(file) - pos) :
        /\ pending' = pending \o Translated(SubSeq(file, pos + 1, pos + n))
        /\ pos' = pos + n
  BY DEF Read, Translated
<1>2. /\ UNCHANGED <<parameters, eof, final, blocks, written, sink>>
      /\ ~final /\ ~eof /\ Len(pending) < blksize
  BY DEF Read, WantsMore
<1>3. TypeOK /\ SenderInv /\ ReceiverInv  BY DEF CutInv
<1>4. /\ Len(file) \in Nat /\ pos \in 0 .. Len(file) /\ blksize \in Nat \ {0}
      /\ pending \in Seq(Byte) /\ Len(blocks) \in Nat
  BY <1>3, WireTypes, LenProperties DEF TypeOK
<1>5. n \in Nat /\ n <= blksize /\ pos + n \in pos .. Len(file) /\ (pos + n) - pos = n
      /\ pos + n \in 0 .. Len(file)
  BY <1>1, <1>4 DEF Least
<1> DEFINE t == Translated(SubSeq(file, pos + 1, pos + n))
<1>6. t \in Seq(Byte) /\ Len(t) \in Nat /\ Len(t) <= 2 * n /\ Taken(pos + n) = Taken(pos) \o t
  BY <1>3, <1>4, <1>5, TakenGoesOn
<1>7. Wire' = Wire /\ (\A m : Taken(m)' = Taken(m)) /\ (\A m : Gone(m)' = Gone(m))
  BY <1>2, WireStays
<1>8. file' = file /\ blksize' = blksize /\ encoder' = encoder /\ decoder' = decoder
  BY <1>2 DEF parameters
<1> HIDE DEF t
<1>9. pending' \in Seq(Byte) /\ Len(pending') = Len(pending) + Len(t)
  BY <1>1, <1>4, <1>6, ConcatProperties DEF t
<1>10. Len(pending') < 3 * blksize
  <2>1. Len(pending) \in Nat  BY <1>4, LenProperties
  <2> QED BY <1>2, <1>4, <1>5, <1>6, <1>9, <2>1
<1>11. TypeOK'  BY <1>1, <1>2, <1>3, <1>5, <1>8, <1>9, <1>10 DEF TypeOK
<1>12. SenderInv'
  <2>1. Taken(pos) \in Seq(Byte) /\ Len(Taken(pos)) \in Nat /\ g \in Nat
    BY <1>3, <1>4, TakenIsPrefix, Products
  <2>2. g <= Len(Taken(pos)) /\ pending = SubSeq(Taken(pos), g + 1, Len(Taken(pos)))
    BY <1>2, <1>3 DEF SenderInv
  <2> HIDE DEF g
  <2>3. pending' = SubSeq(Taken(pos + n), g + 1, Len(Taken(pos + n)))
    <3>1. g \in 0 .. Len(Taken(pos))  BY <2>1, <2>2
    <3>2. SubSeq(Taken(pos) \o t, g + 1, Len(Taken(pos) \o t)) = pending \o t
      BY <1>6, <2>1, <2>2, <3>1, RestOfConcat
    <3> QED BY <1>1, <1>6, <3>2 DEF t
  <2>4. g <= Len(Taken(pos + n))
    <3>1. Len(Taken(pos + n)) = Len(Taken(pos)) + Len(t)  BY <1>6, <2>1, ConcatProperties
    <3> QED BY <1>6, <2>1, <2>2, <3>1
  <2>5. (Taken(pos))' = Taken(pos + n)  BY <1>1, <1>8 DEF Taken
  <2>6. \A i \in DOMAIN blocks : blocks[i] = SubSeq(Wire, Gone(i - 1) + 1, Gone(i))
    BY <1>3 DEF SenderInv
  <2> QED BY <1>2, <1>7, <1>8, <2>3, <2>4, <2>5, <2>6 DEF SenderInv, g
<1>13. ReceiverInv'
  <2>1. Done' <=> Done  BY <1>2 DEF Done
  <2> QED BY <1>2, <1>3, <2>1, ReceiverUntouched
<1> QED BY <1>11, <1>12, <1>13 DEF CutInv

LEMMA ReadNothingKeepsInv ==
  ASSUME CutInv, ReadNothing
  PROVE  CutInv'
<1>1. UNCHANGED <<parameters, pos, pending, final, blocks, written, sink>> /\ eof' = TRUE
      /\ pos = Len(file) /\ ~final
  BY DEF ReadNothing, WantsMore
<1>2. TypeOK /\ SenderInv /\ ReceiverInv  BY DEF CutInv
<1>3. Wire' = Wire /\ (\A m : Taken(m)' = Taken(m)) /\ (\A m : Gone(m)' = Gone(m))
  BY <1>1, WireStays
<1>4. file' = file /\ blksize' = blksize /\ encoder' = encoder /\ decoder' = decoder
  BY <1>1 DEF parameters
<1>5. TypeOK'  BY <1>1, <1>2, <1>4 DEF TypeOK
<1>6. (Taken(pos))' = Taken(pos)  BY <1>1, <1>4 DEF Taken
<1>7. SenderInv'  BY <1>1, <1>2, <1>3, <1>4, <1>6 DEF SenderInv
<1>8. ReceiverInv'
  <2>1. Done' <=> Done  BY <1>1 DEF Done
  <2> QED BY <1>1, <1>2, <2>1, ReceiverUntouched
<1> QED BY <1>5, <1>7, <1>8 DEF CutInv

\* A block that is appended is the next piece of the wire.
LEMMA BlocksExtend ==
  ASSUME TypeOK, SenderInv, UNCHANGED parameters,
         NEW block \in Seq(Byte), blocks' = Append(blocks, block),
         block = SubSeq(Wire, Gone(Len(blocks)) + 1, Gone(Len(blocks) + 1))
  PROVE  /\ blocks' \in Seq(Seq(Byte)) /\ Len(blocks') = Len(blocks) + 1
         /\ \A i \in DOMAIN blocks' :
              blocks'[i] = SubSeq(Wire', (Gone(i - 1))' + 1, (Gone(i))')
<1>1. blocks \in Seq(Seq(Byte)) /\ Len(blocks) \in Nat /\ DOMAIN blocks = 1 .. Len(blocks)
  BY LenProperties DEF TypeOK
<1>2. /\ blocks' \in Seq(Seq(Byte)) /\ Len(blocks') = Len(blocks) + 1
      /\ \A i \in 1 .. Len(blocks) : blocks'[i] = blocks[i]
      /\ blocks'[Len(blocks) + 1] = block
  BY <1>1, AppendProperties
<1>3. DOMAIN blocks' = 1 .. Len(blocks) + 1  BY <1>2, LenProperties
<1>4. Wire' = Wire /\ \A n : Gone(n)' = Gone(n)  BY WireStays
<1>5. ASSUME NEW i \in 1 .. Len(blocks) + 1
      PROVE  blocks'[i] = SubSeq(Wire, Gone(i - 1) + 1, Gone(i))
  <2>1. CASE i \in 1 .. Len(blocks)
    BY <1>1, <1>2, <2>1 DEF SenderInv
  <2>2. CASE i = Len(blocks) + 1
    <3>1. i - 1 = Len(blocks)  BY <1>1, <2>2
    <3> QED BY <1>2, <2>2, <3>1
  <2> QED BY <1>1, <2>1, <2>2
<1> QED BY <1>2, <1>3, <1>4, <1>5

LEMMA EmitKeepsInv ==
  ASSUME CutInv, Emit
  PROVE  CutInv'
<1> DEFINE Q == Len(blocks)
           g == Q * blksize
           T == Taken(pos)
           P == Len(pending)
           block == SubSeq(pending, 0 + 1, Least(blksize, P))
<1>1. /\ UNCHANGED <<parameters, pos, eof, written, sink>>
      /\ ~final /\ (eof \/ P >= blksize)
      /\ blocks' = Append(blocks, SubSeq(pending, 1, Least(blksize, P)))
      /\ pending' = SubSeq(pending, Least(blksize, P) + 1, P)
      /\ final' = (Least(blksize, P) < blksize)
  <2>1. P \in Nat /\ blksize \in Nat
    BY WireTypes, LenProperties DEF CutInv, TypeOK
  <2> QED BY <2>1 DEF Emit, WantsMore
<1>2. TypeOK /\ SenderInv /\ ReceiverInv  BY DEF CutInv
<1>3. /\ Len(file) \in Nat /\ pos \in 0 .. Len(file) /\ blksize \in Nat \ {0}
      /\ pending \in Seq(Byte) /\ P \in Nat /\ Q \in Nat /\ written \in 0 .. Q
      /\ Len(Wire) \in Nat /\ eof \in BOOLEAN
  BY <1>2, WireTypes, LenProperties DEF TypeOK
<1>4. file' = file /\ blksize' = blksize /\ encoder' = encoder /\ decoder' = decoder
  BY <1>1 DEF parameters
<1>5. Wire' = Wire /\ (\A m : Taken(m)' = Taken(m)) /\ (\A m : Gone(m)' = Gone(m))
  BY <1>1, WireStays
<1>6. /\ T \in Seq(Byte) /\ Len(T) \in Nat /\ Len(T) <= Len(Wire)
      /\ \A a \in 0 .. Len(T) : \A b \in a .. Len(T) :
           SubSeq(Wire, a + 1, b) = SubSeq(T, a + 1, b)
  BY <1>2, <1>3, TakenIsPrefix
<1>7. g \in Nat /\ (Q + 1) * blksize = g + blksize /\ Gone(Q + 1) \in Gone(Q) .. Len(Wire)
  BY <1>2, <1>3, GoneFacts
<1>8. g <= Len(T) /\ pending = SubSeq(T, g + 1, Len(T))
  BY <1>1, <1>2 DEF SenderInv
<1>9. Gone(Q) = g
  <2>1. Gone(Q) = IF g <= Len(Wire) THEN g ELSE Len(Wire)  BY <1>2, <1>3, GoneFacts
  <2> QED BY <1>3, <1>6, <1>7, <1>8, <2>1
<1>10. (Taken(pos))' = T  BY <1>1, <1>4 DEF Taken
<1>11. block = SubSeq(pending, 1, Least(blksize, P))
  <2>1. 0 + 1 = 1  OBVIOUS
  <2> QED BY <2>1
<1> HIDE DEF Q, g, T, P, block
<1>12. P = Len(T) - g
  <2>1. g \in 0 .. Len(T) /\ Len(T) \in g .. Len(T)  BY <1>6, <1>7, <1>8
  <2> QED BY <1>6, <1>8, <2>1, Piece DEF P
\* Every piece of pending is a piece of the wire.
<1>13. ASSUME NEW a \in 0 .. P, NEW b \in a .. P
       PROVE  /\ SubSeq(pending, a + 1, b) \in Seq(Byte)
              /\ Len(SubSeq(pending, a + 1, b)) = b - a
              /\ SubSeq(pending, a + 1, b) = SubSeq(T, (g + a) + 1, g + b)
              /\ SubSeq(pending, a + 1, b) = SubSeq(Wire, (g + a) + 1, g + b)
  <2>1. /\ SubSeq(pending, a + 1, b) \in Seq(Byte)
        /\ Len(SubSeq(pending, a + 1, b)) = b - a
    BY <1>3, Piece DEF P
  <2>2. SubSeq(pending, a + 1, b) = SubSeq(T, (g + a) + 1, g + b)
    <3>1. g \in 0 .. Len(T) /\ a \in 0 .. Len(T) - g /\ b \in a .. Len(T) - g
      BY <1>3, <1>6, <1>7, <1>8, <1>12
    <3> QED BY <1>6, <1>8, <3>1, PieceOfRest
  <2>3. g + a \in 0 .. Len(T) /\ g + b \in g + a .. Len(T)
    BY <1>3, <1>6, <1>7, <1>8, <1>12
  <2> QED BY <1>6, <2>1, <2>2, <2>3
\* A full block leaves pending.
<1>14. ASSUME P >= blksize
       PROVE  TypeOK' /\ SenderInv'
  <2>1. Least(blksize, P) = blksize  BY <1>3, <1>14 DEF Least
  <2>2. 0 \in 0 .. P /\ blksize \in 0 .. P /\ P \in blksize .. P  BY <1>3, <1>14
  <2>3. /\ block \in Seq(Byte)
        /\ block = SubSeq(Wire, (g + 0) + 1, g + blksize)
    BY <1>13, <2>1, <2>2 DEF block, P
  <2>4. /\ pending' \in Seq(Byte) /\ Len(pending') = P - blksize
        /\ pending' = SubSeq(T, (g + blksize) + 1, g + P)
    BY <1>1, <1>13, <2>1, <2>2
  <2>5. g + blksize <= Len(T) /\ g + 0 = g /\ g + P = Len(T)
    BY <1>3, <1>6, <1>7, <1>12, <1>14
  <2>6. Gone(Q + 1) = g + blksize
    <3>1. Q + 1 \in Nat  BY <1>3
    <3>2. Gone(Q + 1) = IF (Q + 1) * blksize <= Len(Wire) THEN (Q + 1) * blksize ELSE Len(Wire)
      BY <1>2, <3>1, GoneFacts
    <3>3. g + blksize <= Len(Wire)  BY <1>3, <1>6, <1>7, <2>5
    <3> QED BY <1>7, <3>2, <3>3
  <2>7. /\ blocks' \in Seq(Seq(Byte)) /\ Len(blocks') = Q + 1
        /\ \A i \in DOMAIN blocks' :
             blocks'[i] = SubSeq(Wire', (Gone(i - 1))' + 1, (Gone(i))')
    <3>1. block = SubSeq(Wire, Gone(Q) + 1, Gone(Q + 1))  BY <1>9, <2>3, <2>5, <2>6
    <3>2. block \in Seq(Byte) /\ blocks' = Append(blocks, block) /\ UNCHANGED parameters
      BY <1>1, <1>11, <2>3
    <3> QED BY <1>2, <3>1, <3>2, BlocksExtend DEF Q
  <2>8. final' = FALSE
    <3> DEFINE short == Least(blksize, P) < blksize
    <3>1. short = FALSE  BY <1>3, <2>1
    <3>2. final' = short  BY <1>1
    <3> HIDE DEF short
    <3> QED BY <3>1, <3>2
  <2>9. TypeOK'
    <3>1. Len(pending') < 3 * blksize  BY <1>2, <1>3, <2>4 DEF TypeOK, P
    <3>2. written \in 0 .. Q + 1  BY <1>3
    <3> QED BY <1>1, <1>2, <1>4, <2>4, <2>7, <2>8, <3>1, <3>2 DEF TypeOK
  <2>10. SenderInv'
    <3>1. Len(blocks') * blksize <= Len(T)  BY <1>7, <2>5, <2>7
    <3>2. pending' = SubSeq(T, Len(blocks') * blksize + 1, Len(T))
      BY <1>7, <2>4, <2>5, <2>7
    <3> QED BY <1>1, <1>2, <1>4, <1>10, <2>7, <2>8, <3>1, <3>2 DEF SenderInv
  <2> QED BY <2>9, <2>10
\* The short block is all that is left.
<1>15. ASSUME P < blksize
       PROVE  TypeOK' /\ SenderInv'
  <2>1. Least(blksize, P) = P  BY <1>3, <1>15 DEF Least
  <2>2. 0 \in 0 .. P /\ P \in 0 .. P /\ P \in P .. P  BY <1>3
  <2>3. eof /\ pos = Len(file)
    <3>1. eof  BY <1>1, <1>3, <1>15 DEF P
    <3> QED BY <1>2, <3>1 DEF SenderInv
  <2>4. T = Wire  BY <1>2, <2>3, WireTypes DEF T
  <2>5. g + 0 = g /\ g + P = Len(Wire)  BY <1>3, <1>6, <1>7, <1>12, <2>4
  <2>6. /\ block \in Seq(Byte)
        /\ block = SubSeq(Wire, (g + 0) + 1, g + P)
    BY <1>13, <2>1, <2>2 DEF block
  <2>7. pending' \in Seq(Byte) /\ Len(pending') = P - P
    BY <1>1, <1>13, <2>1, <2>2
  <2>8. Len(Wire) < (Q + 1) * blksize  BY <1>3, <1>7, <1>15, <2>5
  <2>9. Gone(Q + 1) = Len(Wire)
    <3>1. Q + 1 \in Nat  BY <1>3
    <3>2. Gone(Q + 1) = IF (Q + 1) * blksize <= Len(Wire) THEN (Q + 1) * blksize ELSE Len(Wire)
      BY <1>2, <3>1, GoneFacts
    <3>3. (Q + 1) * blksize \in Nat  BY <1>3, <1>7
    <3> QED BY <1>3, <2>8, <3>2, <3>3
  <2>10. /\ blocks' \in Seq(Seq(Byte)) /\ Len(blocks') = Q + 1
         /\ \A i \in DOMAIN blocks' :
              blocks'[i] = SubSeq(Wire', (Gone(i - 1))' + 1, (Gone(i))')
    <3>1. block = SubSeq(Wire, Gone(Q) + 1, Gone(Q + 1))  BY <1>9, <2>5, <2>6, <2>9
    <3>2. block \in Seq(Byte) /\ blocks' = Append(blocks, block) /\ UNCHANGED parameters
      BY <1>1, <1>11, <2>6
    <3> QED BY <1>2, <3>1, <3>2, BlocksExtend DEF Q
  <2>11. final' = TRUE  BY <1>1, <1>15, <2>1
  <2>12. TypeOK'
    <3>1. Len(pending') < 3 * blksize  BY <1>3, <2>7
    <3>2. written \in 0 .. Q + 1  BY <1>3
    <3> QED BY <1>1, <1>2, <1>4, <2>7, <2>10, <2>11, <3>1, <3>2 DEF TypeOK
  <2>13. SenderInv'
    <3>1. Len(blocks') - 1 = Q  BY <1>3, <2>10
    <3>2. (Len(blocks') - 1) * blksize <= Len(Wire)  BY <1>3, <1>7, <2>5, <3>1 DEF g
    <3> QED BY <1>1, <1>4, <1>5, <2>3, <2>8, <2>10, <2>11, <3>2 DEF SenderInv
  <2> QED BY <2>12, <2>13
<1>16. TypeOK' /\ SenderInv'  BY <1>3, <1>14, <1>15
<1>17. ReceiverInv'
  <2>1. ~Done  BY <1>1 DEF Done
  <2>2. ~Done'
    <3>1. Len(blocks') = Q + 1
      <4>1. Append(blocks, SubSeq(pending, 1, Least(blksize, P))) = blocks'  BY <1>1
      <4>2. SubSeq(pending, 1, Least(blksize, P)) \in Seq(Byte)
        <5>1. 0 \in 0 .. P /\ Least(blksize, P) \in 0 .. P  BY <1>3 DEF Least
        <5> QED BY <1>11, <1>13, <5>1 DEF block
      <4> QED BY <1>2, <4>1, <4>2, AppendProperties DEF TypeOK, Q
    <3>2. written # Q + 1  BY <1>3
    <3> QED BY <1>1, <3>1, <3>2 DEF Done
  <2> QED BY <1>1, <1>2, <2>1, <2>2, ReceiverUntouched
<1> QED BY <1>16, <1>17 DEF CutInv

\* A block is decoded behind those before it, and the short one is the one that ends
\* with finish.
LEMMA WriteKeepsInv ==
  ASSUME CutInv, Write
  PROVE  CutInv'
<1> DEFINE i == written + 1
           block == blocks[i]
<1>1. /\ UNCHANGED <<parameters, pos, pending, eof, final, blocks>>
      /\ written < Len(blocks) /\ written' = i
      /\ sink' = IF Len(block) < blksize THEN Finish(Decoded(block)) ELSE Decoded(block)
  BY DEF Write
<1>2. TypeOK /\ SenderInv /\ ReceiverInv  BY DEF CutInv
<1>3. Len(blocks) \in Nat /\ written \in Nat /\ i \in 1 .. Len(blocks) /\ i - 1 = written
  <2>1. Len(blocks) \in Nat /\ written \in 0 .. Len(blocks)
    BY <1>2, LenProperties DEF TypeOK
  <2> QED BY <1>1, <2>1
<1>4. /\ Gone(written) \in 0 .. Len(Wire) /\ Gone(i) \in Gone(written) .. Len(Wire)
      /\ block = SubSeq(Wire, Gone(written) + 1, Gone(i)) /\ block \in Seq(Byte)
      /\ Len(block) < blksize <=> final /\ i = Len(blocks)
  BY <1>2, <1>3, ShortIsFinal
<1>5. Wire' = Wire /\ (\A m : Taken(m)' = Taken(m)) /\ (\A m : Gone(m)' = Gone(m))
  BY <1>1, WireStays
<1>6. file' = file /\ blksize' = blksize /\ encoder' = encoder /\ decoder' = decoder
  BY <1>1 DEF parameters
<1>7. Wire \in Seq(Byte) /\ Len(Wire) \in Nat  BY <1>2, WireTypes
<1>8. sink \in Decoder /\ decoder \in BOOLEAN  BY <1>2 DEF TypeOK, Decoder
<1>9. ~Done /\ (Done' <=> Len(block) < blksize)
  <2>1. ~Done  BY <1>1, <1>3 DEF Done
  <2>2. Done' <=> final /\ i = Len(blocks)  BY <1>1 DEF Done
  <2> QED BY <1>4, <2>1, <2>2
<1> HIDE DEF i, block
<1>10. ASSUME decoder
       PROVE  ReceiverInv' /\ sink' \in Decoder
  <2> DEFINE read == After(NewDecoder, Wire)[Gone(i)]
  <2>1. sink = After(NewDecoder, Wire)[Gone(written)]  BY <1>2, <1>9, <1>10 DEF ReceiverInv
  <2>2. FromWire(sink, block) = read  BY <1>4, <1>7, <2>1, AfterGoesOn
  <2>3. read \in Decoder
    <3>1. NewDecoder \in Decoder  BY EmptySeq DEF NewDecoder, Decoder
    <3>2. Gone(i) \in 0 .. Len(Wire)  BY <1>4, <1>7
    <3> QED BY <1>7, <3>1, <3>2, AfterType
  <2>4. Decoded(block) = read  BY <1>10, <2>2 DEF Decoded
  <2> HIDE DEF read
  <2>5. Finish(read) \in Decoder
    <3>1. CR \in Byte /\ read.out \in Seq(Byte)  BY <2>3, NetasciiAssumption DEF Decoder
    <3>2. Append(read.out, CR) \in Seq(Byte)  BY <3>1, AppendProperties
    <3> QED BY <2>3, <3>2 DEF Finish, Decoder
  <2>6. sink' = IF Done' THEN Finish(read) ELSE read  BY <1>1, <1>9, <2>4 DEF block
  <2>7. ReceiverInv'
    <3>1. decoder' /\ (After(NewDecoder, Wire)[Gone(written)])' = read
      <4>1. (Gone(written))' = Gone(i)
        <5>1. blksize' = blksize /\ written' = i /\ Wire' = Wire  BY <1>1, <1>5, <1>6
        <5> QED BY <5>1 DEF Gone
      <4>2. NewDecoder' = NewDecoder  BY DEF NewDecoder
      <4> QED BY <1>5, <1>6, <1>10, <4>1, <4>2 DEF read
    <3> QED BY <2>6, <3>1 DEF ReceiverInv
  <2>8. sink' \in Decoder  BY <2>3, <2>5, <2>6
  <2> QED BY <2>7, <2>8
<1>11. ASSUME ~decoder
       PROVE  ReceiverInv' /\ sink' \in Decoder
  <2> DEFINE w == SubSeq(Wire, 1, Gone(i))
  <2>1. sink = [out |-> SubSeq(Wire, 1, Gone(written)), pending_cr |-> FALSE]
    BY <1>2, <1>11 DEF ReceiverInv
  <2>2. SubSeq(Wire, 1, Gone(written)) \o block = w
    <3>1. /\ 1 \in 1 .. Len(Wire) + 1 /\ Gone(written) \in 1 - 1 .. Len(Wire)
          /\ Gone(i) \in Gone(written) .. Len(Wire)
      BY <1>4, <1>7
    <3> QED BY <1>4, <1>7, <3>1, ConcatAdjacentSubSeq
  <2>3. w \in Seq(Byte)
    <3>1. 0 \in 0 .. Len(Wire) /\ Gone(i) \in 0 .. Len(Wire) /\ 0 + 1 = 1  BY <1>4, <1>7
    <3>2. SubSeq(Wire, 0 + 1, Gone(i)) \in Seq(Byte)  BY <1>7, <3>1, Piece
    <3> QED BY <3>1, <3>2
  <2> HIDE DEF w
  <2>4. Decoded(block) = [out |-> w, pending_cr |-> FALSE]
    BY <1>11, <2>1, <2>2 DEF Decoded
  <2>5. sink' = [out |-> w, pending_cr |-> FALSE]  BY <1>1, <2>4 DEF Finish, block
  <2>6. ReceiverInv'
    <3>1. ~decoder' /\ (SubSeq(Wire, 1, Gone(written)))' = w
      <4>1. (Gone(written))' = Gone(i)
        <5>1. blksize' = blksize /\ written' = i /\ Wire' = Wire  BY <1>1, <1>5, <1>6
        <5> QED BY <5>1 DEF Gone
      <4> QED BY <1>5, <1>6, <1>11, <4>1 DEF w
    <3> QED BY <2>5, <3>1 DEF ReceiverInv
  <2>7. sink' \in Decoder  BY <2>3, <2>5 DEF Decoder
  <2> QED BY <2>6, <2>7
<1>12. ReceiverInv' /\ sink' \in Decoder  BY <1>8, <1>10, <1>11
<1>13. TypeOK'
  <2>1. written' \in 0 .. Len(blocks)  BY <1>1, <1>3
  <2> QED BY <1>1, <1>2, <1>6, <1>12, <2>1 DEF TypeOK, Decoder
<1>14. SenderInv'
  <2>1. (Taken(pos))' = Taken(pos)  BY <1>1, <1>6 DEF Taken
  <2> QED BY <1>1, <1>2, <1>5, <1>6, <2>1 DEF SenderInv
<1> QED BY <1>12, <1>13, <1>14 DEF CutInv

\* The inductive invariant: what is pending, the blocks and the receiver's file are
\* pieces of one wire, whatever the reads return.
THEOREM CuttingInvariance == Spec => []CutInv
<1>1. CutInv /\ [Next]_vars => CutInv'
  <2> SUFFICES ASSUME CutInv, [Next]_vars  PROVE CutInv'
    OBVIOUS
  <2>1. CASE Read  BY <2>1, ReadKeepsInv
  <2>2. CASE ReadNothing  BY <2>2, ReadNothingKeepsInv
  <2>3. CASE Emit  BY <2>3, EmitKeepsInv
  <2>4. CASE Write  BY <2>4, WriteKeepsInv
  <2>5. CASE UNCHANGED vars
    <3>1. UNCHANGED <<parameters, pos, pending, eof, final, blocks, written, sink>>
      BY <2>5 DEF vars
    <3>2. Wire' = Wire /\ (\A m : Taken(m)' = Taken(m)) /\ (\A m : Gone(m)' = Gone(m))
      BY <3>1, WireStays
    <3>3. file' = file /\ blksize' = blksize /\ encoder' = encoder /\ decoder' = decoder
      BY <3>1 DEF parameters
    <3>4. TypeOK'  BY <3>1, <3>3 DEF CutInv, TypeOK
    <3>5. (Taken(pos))' = Taken(pos)  BY <3>1, <3>3 DEF Taken
    <3>6. SenderInv'  BY <3>1, <3>2, <3>3, <3>5 DEF CutInv, SenderInv
    <3>7. ReceiverInv'
      <4>1. Done' <=> Done  BY <3>1 DEF Done
      <4> QED BY <3>1, <4>1, ReceiverUntouched DEF CutInv
    <3> QED BY <3>4, <3>6, <3>7 DEF CutInv
  <2> QED BY <2>1, <2>2, <2>3, <2>4, <2>5 DEF Next
<1> QED BY <1>1, InitCutInv, PTL DEF Spec

-----------------------------------------------------------------------------
(* What follows from it.                                                   *)

\* Type correctness: pending never grows to three blocks, however often the file is
\* read and whatever the encoder makes of it.
THEOREM ReaderTypes == Spec => []TypeOK
<1>1. CutInv => TypeOK  BY DEF CutInv
<1> QED BY <1>1, CuttingInvariance, PTL

\* However the reads fall, read_one_block and next_block cut the wire into pieces of
\* blksize and one shorter piece, and end after it.
THEOREM Cutting == Spec => []BlocksAreCut
<1>1. CutInv => BlocksAreCut
  <2> SUFFICES ASSUME CutInv  PROVE BlocksAreCut
    OBVIOUS
  <2> DEFINE Q == Len(blocks)
             W == Len(Wire)
  <2>1. TypeOK /\ SenderInv  BY DEF CutInv
  <2>2. W \in Nat /\ blksize \in Nat \ {0}  BY <2>1, WireTypes
  <2>3. ASSUME NEW i \in DOMAIN blocks
        PROVE  blocks[i] = SubSeq(Wire, (i - 1) * blksize + 1, Least(i * blksize, Len(Wire)))
    <3>1. i \in 1 .. Q  BY <2>1, LenProperties DEF TypeOK
    <3>2. i - 1 \in Nat /\ (i - 1) * blksize <= W  BY <2>1, <3>1, BlocksReach
    <3>3. Gone(i - 1) = (i - 1) * blksize  BY <2>1, <3>2, GoneFacts
    <3> QED BY <2>1, <3>3 DEF SenderInv, Gone
  <2>4. Q = (W \div blksize) + 1 <=> final
    <3>1. Q \in Nat /\ W \div blksize \in Nat  BY <2>1, <2>2, BlocksReach
    <3>2. CASE final
      <4>1. Q # 0 /\ (Q - 1) * blksize <= W /\ W < Q * blksize
        BY <2>1, <3>2, BlocksReach DEF SenderInv
      <4>2. Q - 1 \in Nat /\ (Q - 1) + 1 = Q  BY <3>1, <4>1
      <4>3. W \div blksize = Q - 1  BY <2>2, <4>1, <4>2, Quotient
      <4> QED BY <3>1, <3>2, <4>3
    <3>3. CASE ~final
      <4>1. Q * blksize <= W  BY <2>1, <3>3, BlocksReach
      <4>2. Q <= W \div blksize  BY <2>2, <3>1, <4>1, Quotient
      <4> QED BY <3>1, <3>3, <4>2
    <3> QED BY <3>2, <3>3
  <2> QED BY <2>3, <2>4 DEF BlocksAreCut
<1> QED BY <1>1, CuttingInvariance, PTL

\* When all is written, the wire is used up.
LEMMA AllGone ==
  ASSUME CutInv, Done
  PROVE  Gone(written) = Len(Wire)
<1>1. TypeOK /\ final /\ written = Len(blocks)  BY DEF CutInv, Done
<1>2. Len(Wire) < written * blksize  BY <1>1 DEF CutInv, SenderInv
<1>3. written \in Nat /\ Len(Wire) \in Nat
  BY <1>1, WireTypes, LenProperties DEF TypeOK
<1>4. /\ written * blksize \in Nat
      /\ Gone(written) = IF written * blksize <= Len(Wire) THEN written * blksize ELSE Len(Wire)
  BY <1>1, <1>3, GoneFacts
<1> QED BY <1>2, <1>3, <1>4

\* A file comes back as it was when both ends use the same mode, for every file and
\* wherever the blocks cut its line ends apart.
THEOREM FilesComeBack == Spec => []RoundTrip
<1>1. CutInv => RoundTrip
  <2> SUFFICES ASSUME CutInv, Done, encoder = decoder  PROVE sink.out = file
    BY DEF RoundTrip
  <2>1. TypeOK /\ ReceiverInv  BY DEF CutInv
  <2>2. file \in Seq(Byte) /\ Wire \in Seq(Byte) /\ decoder \in BOOLEAN
    BY <2>1, WireTypes DEF TypeOK
  <2>3. Gone(written) = Len(Wire)  BY AllGone
  <2>4. CASE decoder
    <3>1. Wire = ToWire(file)  BY <2>4 DEF Wire
    <3>2. sink = Finish(FromWire(NewDecoder, Wire))  BY <2>1, <2>3, <2>4 DEF ReceiverInv, FromWire
    <3>3. FromWire(NewDecoder, Wire) = [out |-> file, pending_cr |-> FALSE]
      BY <2>2, <3>1, TextComesBack
    <3> QED BY <3>2, <3>3 DEF Finish
  <2>5. CASE ~decoder
    <3>1. Wire = file  BY <2>5 DEF Wire
    <3>2. sink.out = SubSeq(Wire, 1, Len(Wire))  BY <2>1, <2>3, <2>5 DEF ReceiverInv
    <3> QED BY <2>2, <3>1, <3>2, SubSeqFull
  <2> QED BY <2>2, <2>4, <2>5
<1> QED BY <1>1, CuttingInvariance, PTL

\* A receiver that decodes writes what the bytes on the wire stand for as one text,
\* whatever bytes another program sends and however they are cut.
THEOREM CutsAreInvisible == Spec => []DecodingIgnoresCuts
<1>1. CutInv => DecodingIgnoresCuts
  <2> SUFFICES ASSUME CutInv, Done, decoder  PROVE sink.out = Meaning(Wire)
    BY DEF DecodingIgnoresCuts
  <2>1. TypeOK /\ ReceiverInv  BY DEF CutInv
  <2>2. Wire \in Seq(Byte)  BY <2>1, WireTypes
  <2>3. Gone(written) = Len(Wire)  BY AllGone
  <2>4. sink = Finish(FromWire(NewDecoder, Wire))  BY <2>1, <2>3 DEF ReceiverInv, FromWire
  <2> QED BY <2>2, <2>4, DecodesMeaning
<1> QED BY <1>1, CuttingInvariance, PTL
=============================================================================
