--------------------------- MODULE TransferProofs ---------------------------
(***************************************************************************)
(* Theorems about the data phase of a transfer, for every length of file,  *)
(* every window, every number of retries and every bound on misfortunes,   *)
(* on the one condition that a window and the oldest datagram together     *)
(* span fewer blocks than there are block numbers.                         *)
(***************************************************************************)
EXTENDS TransferProperties, BlockNumbersProofs, SequenceTheorems, FiniteSetTheorems

WindowFits == MaxAge + SWindow < Modulus

Entry == [block : BlockNumber, data : Block]

-----------------------------------------------------------------------------
(* The source and the operations of the sender.                            *)

LEMMA SourceFacts ==
  /\ Source \in Seq(Block)
  /\ Len(Source) = NumBlocks
  /\ \A i \in 1 .. NumBlocks :
       /\ Source[i] \in Block
       /\ Source[i].id = i
       /\ Source[i].len < BlkSize <=> i = NumBlocks
<1>1. \A i \in 1 .. NumBlocks :
        Source[i] \in Block /\ Source[i].id = i /\ (Source[i].len < BlkSize <=> i = NumBlocks)
  BY TransferAssumption DEF Source, Block
<1>2. Source \in [1 .. NumBlocks -> Block]  BY <1>1 DEF Source
<1>3. NumBlocks \in Nat  BY TransferAssumption
<1>4. Source \in Seq(Block)  BY <1>2, <1>3, SeqDef
<1>5. Len(Source) = NumBlocks  BY <1>2, <1>3, <1>4, LenProperties
<1> QED BY <1>1, <1>4, <1>5

\* A sender's counters are numbers, and so is what they say is acknowledged.
LEMMA SenderCounters ==
  ASSUME NEW s \in SenderState
  PROVE  /\ s.in_flight \in Seq(Entry)
         /\ Len(s.in_flight) \in Nat
         /\ s.read \in 0 .. NumBlocks
         /\ s.window = SWindow
         /\ s.source = Source
         /\ Acked(s) \in Int
         /\ Acked(s) + Len(s.in_flight) = s.read
         /\ NumBlocks \in Nat
         /\ SWindow \in Nat \ {0}
<1>1. s.in_flight \in Seq(Entry)  BY DEF SenderState, Entry
<1>2. Len(s.in_flight) \in Nat  BY <1>1, LenProperties
<1> QED BY <1>1, <1>2, TransferAssumption DEF SenderState, Acked

\* Refilling reads on where the window ends, and leaves it empty only when the
\* source is exhausted.
LEMMA FillWindowFacts ==
  ASSUME NEW s \in SenderState, Aligned(s), Len(s.in_flight) <= SWindow,
         NEW t, t = FillWindow(s)
  PROVE  /\ t \in SenderState
         /\ Aligned(t)
         /\ Len(t.in_flight) <= SWindow
         /\ Acked(t) = Acked(s)
         /\ s.read <= t.read
         /\ t.in_flight = << >> => t.read = NumBlocks
         /\ Len(t.in_flight) = SWindow \/ t.read = NumBlocks
         /\ t.status = s.status
<1> DEFINE n   == Room(s)
           new == [i \in 1 .. n |-> [block |-> WrappingAdd(s.next_block, i - 1),
                                     data  |-> s.source[s.read + i]]]
<1>1. /\ n \in Nat
      /\ n <= SWindow - Len(s.in_flight)
      /\ n <= NumBlocks - s.read
      /\ n = SWindow - Len(s.in_flight) \/ n = NumBlocks - s.read
  <2> DEFINE free == SWindow - Len(s.in_flight)
             left == NumBlocks - s.read
  <2>1. free \in Nat /\ left \in Nat  BY SenderCounters
  <2>2. n = IF free < left THEN free ELSE left  BY SenderCounters, SourceFacts DEF Room
  <2> HIDE DEF n, free, left
  <2>3. n \in Nat /\ n <= free /\ n <= left /\ (n = free \/ n = left)  BY ONLY <2>1, <2>2
  <2> QED BY ONLY <2>3 DEF free, left
<1> HIDE DEF n
<1>2. \A i \in 1 .. n : /\ new[i] \in Entry
                        /\ new[i].block = Number(s.read + i)
                        /\ new[i].data = Source[s.read + i]
  <2> TAKE i \in 1 .. n
  <2>1. /\ i \in Int /\ s.read \in Int /\ s.read + i \in 1 .. NumBlocks
        /\ s.read + 1 \in Int /\ i - 1 \in Int
    <3>1. s.read \in 0 .. NumBlocks /\ NumBlocks \in Nat  BY SenderCounters
    <3> QED BY <3>1, <1>1
  <2>2. WrappingAdd((s.read + 1) % Modulus, i - 1) = ((s.read + 1) + (i - 1)) % Modulus
    BY ONLY <2>1, AddResidue
  <2>3. (s.read + 1) + (i - 1) = s.read + i  BY <2>1
  <2>4. WrappingAdd(s.next_block, i - 1) = Number(s.read + i)
    BY <2>2, <2>3 DEF Aligned, Number
  <2>5. Number(s.read + i) \in BlockNumber  BY <2>1, ResidueInRange DEF Number
  <2> QED BY <2>1, <2>4, <2>5, SourceFacts, SenderCounters DEF Entry
<1>3. new \in Seq(Entry) /\ Len(new) = n
  <2>1. new \in [1 .. n -> Entry]  BY <1>2
  <2>2. new \in Seq(Entry)  BY <2>1, <1>1, SeqDef
  <2> QED BY <2>1, <2>2, <1>1, LenProperties
<1>4. t = [s EXCEPT !.in_flight = @ \o new, !.next_block = WrappingAdd(@, n), !.read = @ + n]
  BY DEF FillWindow, n
<1> HIDE DEF new
<1>5. /\ t.in_flight = s.in_flight \o new
      /\ t.next_block = WrappingAdd(s.next_block, n)
      /\ t.read = s.read + n
      /\ t.status = s.status
  BY <1>4 DEF SenderState
<1>6. /\ s.in_flight \o new \in Seq(Entry)
      /\ Len(s.in_flight \o new) = Len(s.in_flight) + n
      /\ \A i \in 1 .. Len(s.in_flight) + n :
           (s.in_flight \o new)[i] = IF i <= Len(s.in_flight) THEN s.in_flight[i]
                                                              ELSE new[i - Len(s.in_flight)]
  <2>1. s.in_flight \in Seq(Entry) /\ new \in Seq(Entry) /\ Len(new) = n
    BY <1>3, SenderCounters
  <2> QED BY ONLY <2>1, ConcatProperties
<1>7. t.next_block = Number(t.read + 1)
  <2>1. WrappingAdd((s.read + 1) % Modulus, n) = ((s.read + 1) + n) % Modulus
    <3>1. s.read + 1 \in Int /\ n \in Int  BY <1>1, SenderCounters
    <3> QED BY ONLY <3>1, AddResidue
  <2>2. (s.read + 1) + n = t.read + 1  BY <1>1, <1>5, SenderCounters
  <2> QED BY <1>5, <2>1, <2>2 DEF Aligned, Number
<1>8. t.read \in 0 .. NumBlocks /\ s.read <= t.read
  <2>1. s.read \in 0 .. NumBlocks /\ NumBlocks \in Nat  BY SenderCounters
  <2>2. n \in Nat /\ n <= NumBlocks - s.read /\ t.read = s.read + n  BY <1>1, <1>5
  <2> QED BY ONLY <2>1, <2>2
<1>9. t.next_block \in BlockNumber  BY <1>7, <1>8, ResidueInRange DEF Number
<1>10. t \in SenderState
  BY <1>4, <1>5, <1>6, <1>8, <1>9 DEF SenderState, Entry
<1>11. Acked(t) = Acked(s)  BY <1>1, <1>5, <1>6, SenderCounters DEF Acked
<1>12. Aligned(t)
  <2>0. /\ Len(s.in_flight) \in Nat /\ n \in Nat
        /\ Len(t.in_flight) = Len(s.in_flight) + n
    BY <1>1, <1>5, <1>6, SenderCounters
  <2>1. ASSUME NEW i \in 1 .. Len(t.in_flight)
        PROVE  /\ t.in_flight[i].block = Number(Acked(t) + i)
               /\ t.in_flight[i].data = Source[Acked(t) + i]
    <3>1. CASE i <= Len(s.in_flight)
      <4>1. i \in 1 .. Len(s.in_flight)  BY ONLY i \in 1 .. Len(t.in_flight), <2>0, <3>1
      <4> QED BY <4>1, <3>1, <1>5, <1>6, <1>11, <1>1, SenderCounters DEF Aligned
    <3>2. CASE ~(i <= Len(s.in_flight))
      <4>1. i - Len(s.in_flight) \in 1 .. n
        BY ONLY i \in 1 .. Len(t.in_flight), <2>0, <3>2
      <4>2. t.in_flight[i] = new[i - Len(s.in_flight)]
        BY <2>1, <3>2, <1>5, <1>6, <1>1, SenderCounters
      <4>3. s.read + (i - Len(s.in_flight)) = Acked(t) + i
        BY <1>11, <4>1, SenderCounters
      <4> QED BY <4>1, <4>2, <4>3, <1>2
    <3> QED BY <3>1, <3>2
  <2> QED BY <2>1, <1>7, <1>11 DEF Aligned
<1>13. Len(t.in_flight) <= SWindow  BY <1>1, <1>5, <1>6, SenderCounters
<1>14. t.in_flight = << >> => t.read = NumBlocks
  BY <1>1, <1>5, <1>6, SenderCounters, EmptySeq
<1>15. Len(t.in_flight) = SWindow \/ t.read = NumBlocks
  <2>1. Len(t.in_flight) = Len(s.in_flight) + n /\ t.read = s.read + n  BY <1>5, <1>6
  <2>2. /\ Len(s.in_flight) \in Nat /\ SWindow \in Nat /\ NumBlocks \in Nat /\ s.read \in Nat
        /\ n \in Nat
    BY <1>1, SenderCounters
  <2>3. n = SWindow - Len(s.in_flight) \/ n = NumBlocks - s.read  BY <1>1
  <2> QED BY ONLY <2>1, <2>2, <2>3
<1> QED BY <1>5, <1>8, <1>10, <1>11, <1>12, <1>13, <1>14, <1>15

\* An ACK that carries the number of the last block written, and is not older than
\* MaxAge, covers exactly the blocks up to that one: none if it is stale.
LEMMA CoveredFacts ==
  ASSUME WindowFits,
         NEW s \in SenderState, Aligned(s), Len(s.in_flight) <= SWindow,
         NEW stamp \in Nat, NEW written \in Nat,
         stamp <= written, written - stamp <= MaxAge,
         Acked(s) <= written, written <= s.read
  PROVE  Covered(s.in_flight, Number(stamp), SWindow) = 1 .. stamp - Acked(s)
<1> DEFINE a == Acked(s)
           L == Len(s.in_flight)
           precedes(i) == U16LeInWindow(s.in_flight[i].block, Number(stamp), SWindow)
<1>1. /\ a \in Nat /\ L \in Nat /\ a + L = s.read /\ L <= SWindow
      /\ SWindow \in Nat \ {0} /\ MaxAge \in Nat /\ Modulus \in Nat
      /\ stamp - a <= L /\ a - stamp <= MaxAge /\ MaxAge + SWindow < Modulus
  <2>1. a \in Int /\ L \in Nat /\ a + L = s.read /\ a >= 0 /\ SWindow \in Nat \ {0}
    BY SenderCounters DEF Aligned
  <2> HIDE DEF a, L
  <2>2. a <= written /\ written <= a + L /\ L <= SWindow  BY <2>1 DEF a, L
  <2> QED BY <2>1, <2>2, TransferAssumption, ModulusAssumption DEF WindowFits
<1>2. ASSUME NEW i \in 1 .. L  PROVE s.in_flight[i].block = (a + i) % Modulus
  BY DEF Aligned, Number
<1> HIDE DEF a, L
<1>3. ASSUME NEW i \in 1 .. L
      PROVE  precedes(i) <=> \/ stamp - (a + i) \in 1 .. SWindow - 1
                             \/ /\ stamp < a + i
                                /\ stamp - (a + i) + Modulus \in 1 .. SWindow - 1
  <2>1. (a + i) \in Int /\ stamp \in Int /\ (a + i) - stamp < Modulus /\ stamp - (a + i) < Modulus
    BY <1>1
  <2>2. U16LeInWindow((a + i) % Modulus, stamp % Modulus, SWindow) <=>
          \/ stamp - (a + i) \in 1 .. SWindow - 1
          \/ /\ stamp < a + i
             /\ stamp - (a + i) + Modulus \in 1 .. SWindow - 1
    BY <1>1, <2>1, LeInWindow
  <2> QED BY <1>2, <2>2 DEF Number
<1>4. ASSUME NEW i \in 1 .. L
      PROVE  s.in_flight[i].block = Number(stamp) <=> a + i = stamp
  <2>1. (a + i) \in Int /\ stamp \in Int /\ (a + i) - stamp < Modulus /\ stamp - (a + i) < Modulus
    BY <1>1
  <2>2. (a + i) % Modulus = stamp % Modulus => a + i = stamp
    BY <2>1, EqualNumbers
  <2> QED BY <1>2, <2>2 DEF Number
<1>5. Covered(s.in_flight, Number(stamp), SWindow) =
        {i \in 1 .. L : /\ \A j \in 1 .. i - 1 : precedes(j)
                        /\ s.in_flight[i].block = Number(stamp) \/ precedes(i)}
  BY DEF Covered, L
<1> HIDE DEF precedes
<1>6. CASE stamp <= a
  <2>1. ASSUME L >= 1  PROVE ~precedes(1) /\ s.in_flight[1].block # Number(stamp)
    <3>1. 1 \in 1 .. L  BY <2>1, <1>1
    <3>2. ~(stamp - (a + 1) \in 1 .. SWindow - 1)  BY <1>1, <1>6
    <3>3. ~(stamp - (a + 1) + Modulus \in 1 .. SWindow - 1)  BY <1>1, <1>6
    <3>4. a + 1 # stamp  BY <1>1, <1>6
    <3> QED BY <3>1, <3>2, <3>3, <3>4, <1>3, <1>4
  <2>2. ASSUME NEW i \in 1 .. L, \A j \in 1 .. i - 1 : precedes(j),
               s.in_flight[i].block = Number(stamp) \/ precedes(i)
        PROVE  FALSE
    <3>1. L >= 1  BY <1>1
    <3>2. CASE i = 1  BY <2>1, <2>2, <3>1, <3>2
    <3>3. CASE i # 1
      <4>1. 1 \in 1 .. i - 1  BY <3>3, <1>1
      <4> QED BY <2>1, <2>2, <3>1, <4>1
    <3> QED BY <3>2, <3>3
  <2>3. 1 .. stamp - a = {}  BY <1>6, <1>1
  <2> QED BY <1>5, <2>2, <2>3 DEF a
<1>7. CASE stamp > a
  <2> DEFINE k == stamp - a
  <2>1. k \in 1 .. L  BY <1>1, <1>7
  <2>2. ~precedes(k)
    <3>1. ~(stamp - (a + k) \in 1 .. SWindow - 1) /\ ~(stamp < a + k)  BY <1>1, <1>7
    <3> QED BY <2>1, <3>1, <1>3
  <2>3. ASSUME NEW j \in 1 .. k - 1  PROVE j \in 1 .. L /\ precedes(j)
    <3>1. j \in 1 .. L  BY <2>1, <1>1
    <3>2. stamp - (a + j) \in 1 .. SWindow - 1  BY <2>1, <1>1
    <3> QED BY <3>1, <3>2, <1>3
  <2>4. s.in_flight[k].block = Number(stamp)
    <3>1. a + k = stamp  BY <1>1
    <3> QED BY <2>1, <3>1, <1>4
  <2>5. ASSUME NEW i \in 1 .. k
        PROVE  /\ i \in 1 .. L
               /\ \A j \in 1 .. i - 1 : precedes(j)
               /\ s.in_flight[i].block = Number(stamp) \/ precedes(i)
    <3>1. i \in 1 .. L /\ \A j \in 1 .. i - 1 : j \in 1 .. k - 1  BY <2>1, <1>1
    <3>2. i = k \/ i \in 1 .. k - 1  BY <2>1, <1>1
    <3> HIDE DEF k
    <3> QED BY <3>1, <3>2, <2>3, <2>4
  <2>6. ASSUME NEW i \in 1 .. L, \A j \in 1 .. i - 1 : precedes(j)
        PROVE  i \in 1 .. k
    <3>1. SUFFICES ASSUME i > k PROVE FALSE  BY <2>1, <1>1
    <3>2. k \in 1 .. i - 1  BY <2>1, <3>1, <1>1
    <3> QED BY <2>6, <3>2, <2>2
  <2> HIDE DEF k
  <2>7. Covered(s.in_flight, Number(stamp), SWindow) = 1 .. k  BY <1>5, <2>5, <2>6
  <2> QED BY <2>7 DEF k, a
<1> QED BY <1>1, <1>6, <1>7

\* What such an ACK leaves in the window: an aligned stretch that begins after the
\* last block acknowledged.
LEMMA ConsumeAckFacts ==
  ASSUME WindowFits,
         NEW s \in SenderState, Aligned(s), Len(s.in_flight) <= SWindow,
         NEW stamp \in Nat, NEW written \in Nat,
         stamp <= written, written - stamp <= MaxAge,
         Acked(s) <= written, written <= s.read,
         NEW t, t = ConsumeAck(s, Number(stamp))
  PROVE  /\ t \in SenderState
         /\ Aligned(t)
         /\ Len(t.in_flight) <= SWindow
         /\ Acked(t) = IF stamp > Acked(s) THEN stamp ELSE Acked(s)
         /\ t.read = s.read
         /\ t.status = s.status
<1> DEFINE a == Acked(s)
           L == Len(s.in_flight)
           k == IF stamp > a THEN stamp - a ELSE 0
           rest == SubSeq(s.in_flight, k + 1, L)
<1>1. /\ a \in Nat /\ L \in Nat /\ a + L = s.read /\ L <= SWindow
      /\ k \in 0 .. L
  BY SenderCounters DEF Aligned
<1>2. Cardinality(Covered(s.in_flight, Number(stamp), SWindow)) = k
  <2>1. Covered(s.in_flight, Number(stamp), SWindow) = 1 .. stamp - a  BY CoveredFacts
  <2>2. Cardinality(1 .. stamp - a) = IF 1 > stamp - a THEN 0 ELSE stamp - a - 1 + 1
    <3>1. 1 \in Int /\ stamp - a \in Int  BY <1>1
    <3> HIDE DEF a
    <3> QED BY <3>1, FS_Interval
  <2> HIDE DEF a
  <2>3. a \in Nat  BY <1>1 DEF a
  <2> QED BY <2>1, <2>2, <2>3
<1>3. t = [s EXCEPT !.in_flight = rest]
  BY <1>2, SenderCounters DEF ConsumeAck
<1> HIDE DEF a, L, k
<1>4. /\ rest \in Seq(Entry)
      /\ Len(rest) = L - k
      /\ \A i \in 1 .. L - k : rest[i] = s.in_flight[k + i]
  <2>1. s.in_flight \in Seq(Entry)  BY SenderCounters
  <2>2. \A i \in k + 1 .. L : s.in_flight[i] \in Entry
    BY <2>1, <1>1, ElementOfSeq DEF L
  <2>3. /\ rest \in Seq(Entry)
        /\ Len(rest) = IF k + 1 <= L THEN L - (k + 1) + 1 ELSE 0
        /\ \A i \in 1 .. L - (k + 1) + 1 : rest[i] = s.in_flight[(k + 1) + i - 1]
    <3>1. k + 1 \in Int /\ L \in Int  BY <1>1
    <3> QED BY <2>2, <3>1, SubSeqProperties
  <2>4. L - (k + 1) + 1 = L - k /\ \A i \in Int : (k + 1) + i - 1 = k + i  BY <1>1
  <2> QED BY <1>1, <2>3, <2>4
<1> HIDE DEF rest
<1>5. t.in_flight = rest /\ t.read = s.read /\ t.next_block = s.next_block /\ t.status = s.status
  BY <1>3 DEF SenderState
<1>6. t \in SenderState  BY <1>3, <1>4 DEF SenderState, Entry
<1>7. Acked(t) = a + k
  <2>1. Acked(t) = s.read - (L - k)  BY <1>4, <1>5 DEF Acked
  <2> QED BY <1>1, <2>1
<1>8. ASSUME NEW i \in 1 .. Len(t.in_flight)
      PROVE  /\ t.in_flight[i].block = Number(Acked(t) + i)
             /\ t.in_flight[i].data = Source[Acked(t) + i]
  <2>1. k + i \in 1 .. L /\ i \in 1 .. L - k  BY <1>1, <1>4, <1>5
  <2>2. t.in_flight[i] = s.in_flight[k + i]  BY <1>4, <1>5, <2>1
  <2>3. /\ s.in_flight[k + i].block = Number(a + (k + i))
        /\ s.in_flight[k + i].data = Source[a + (k + i)]
    BY <2>1 DEF Aligned, a, L
  <2>4. a + (k + i) = Acked(t) + i  BY <1>1, <1>7, <2>1
  <2> QED BY <2>2, <2>3, <2>4
<1>9. Aligned(t)
  BY <1>1, <1>5, <1>7, <1>8 DEF Aligned
<1>10. Len(t.in_flight) <= SWindow
  <2>1. SWindow \in Nat /\ Len(t.in_flight) = L - k  BY <1>4, <1>5, SenderCounters
  <2> QED BY <1>1, <2>1
<1>11. a + k = IF stamp > a THEN stamp ELSE a  BY <1>1 DEF k
<1> QED BY <1>5, <1>6, <1>7, <1>9, <1>10, <1>11 DEF a

\* A new round refills the window, or returns when the source is exhausted and
\* everything is acknowledged.
LEMMA NextRoundFacts ==
  ASSUME NEW s \in SenderState, Aligned(s), Len(s.in_flight) <= SWindow,
         s.status = "sending",
         NEW t, t = NextRound(s)
  PROVE  /\ t \in SenderState
         /\ Aligned(t)
         /\ Len(t.in_flight) <= SWindow
         /\ Acked(t) = Acked(s)
         /\ s.read <= t.read
         /\ t.status \in {"sending", "ok"}
         /\ t.status = "ok" => Acked(t) = NumBlocks
         /\ t.status = "sending" =>
              /\ t.in_flight # << >> /\ t.attempt = 0
              /\ Len(t.in_flight) = SWindow \/ t.read = NumBlocks
<1> DEFINE u == FillWindow(s)
<1>1. /\ u \in SenderState
      /\ Aligned(u)
      /\ Len(u.in_flight) <= SWindow
      /\ Acked(u) = Acked(s)
      /\ s.read <= u.read
      /\ u.in_flight = << >> => u.read = NumBlocks
      /\ Len(u.in_flight) = SWindow \/ u.read = NumBlocks
      /\ u.status = "sending"
  BY FillWindowFacts
<1>2. t = IF u.in_flight = << >> THEN [u EXCEPT !.status = "ok"] ELSE [u EXCEPT !.attempt = 0]
  BY DEF NextRound
<1> HIDE DEF u
<1>3. 0 \in 0 .. SRetries  BY TransferAssumption
<1>4. /\ t \in SenderState
      /\ t.in_flight = u.in_flight /\ t.read = u.read /\ t.next_block = u.next_block
      /\ t.status = IF u.in_flight = << >> THEN "ok" ELSE "sending"
  BY <1>1, <1>2, <1>3 DEF SenderState
<1>4a. u.in_flight # << >> => t.attempt = 0  BY <1>1, <1>2 DEF SenderState
<1>5. Acked(t) = Acked(u)  BY <1>4 DEF Acked
<1>6. Aligned(t)  BY <1>1, <1>4, <1>5 DEF Aligned
<1>7. u.in_flight = << >> => Acked(u) = NumBlocks
  BY <1>1, SenderCounters, EmptySeq
<1> QED BY <1>1, <1>4, <1>4a, <1>5, <1>6, <1>7

-----------------------------------------------------------------------------
(* The steps, by what they may change.                                     *)

\* A step that receives a datagram or lets a deadline pass counts no more
\* misfortunes than there may be.
LEMMA FaultsBounded ==
  ASSUME faults \in 0 .. MaxFaults
  PROVE  /\ Fault => faults' \in 0 .. MaxFaults
         /\ Deadline => faults' \in 0 .. MaxFaults
         /\ \A d, end, rest :
              Arrives(d, end, rest) => faults' \in 0 .. MaxFaults /\ rest \subseteq net
BY TransferAssumption DEF Fault, Deadline, Arrives

\* What the sender puts on the network satisfies the datagrams' invariant.
LEMMA SentDataFacts ==
  ASSUME IInv, NEW s \in SenderState, Aligned(s), Acked(snd) <= Acked(s), Acked(s) <= Written,
         NEW d \in Datagrams("R", SendWindow(s), Written)
  PROVE  /\ d \in [dst : {"S", "R"}, packet : Packet, stamp : Nat]
         /\ d.stamp = Written
         /\ d.packet.type = "DATA"
         /\ d.dst = "R"
         /\ d.packet.data.id <= s.read
         /\ Written < d.packet.data.id + SWindow
         /\ d.packet.block = Number(d.packet.data.id)
         /\ d.packet.data = Source[d.packet.data.id]
<1>1. PICK i \in 1 .. Len(s.in_flight) :
        d = [dst |-> "R", packet |-> DataPacket(s.in_flight[i].block, s.in_flight[i].data),
             stamp |-> Written]
  BY DEF Datagrams, SendWindow
<1> DEFINE id == Acked(s) + i
<1>2. /\ snd.read <= Acked(snd) + SWindow
      /\ Written \in Nat /\ Written <= snd.read
      /\ Acked(snd) \in Nat /\ Acked(s) \in Nat
      /\ snd.read \in Nat /\ s.read \in Nat /\ SWindow \in Nat
      /\ i \in Nat \ {0}
      /\ Acked(s) + i <= s.read /\ s.read <= NumBlocks /\ NumBlocks \in Nat
  <2>1. snd \in SenderState /\ Len(snd.in_flight) <= SWindow /\ Acked(snd) >= 0
    BY DEF IInv, TypeOK, Aligned
  <2>2. rcv.file \in Seq(Block)  BY DEF IInv, TypeOK, ReceiverState
  <2>3. Written \in Nat /\ Written <= snd.read
    BY <2>2, LenProperties DEF IInv, ProgressInv, Written
  <2>4. /\ Len(snd.in_flight) \in Nat /\ snd.read \in 0 .. NumBlocks /\ Acked(snd) \in Int
        /\ Acked(snd) + Len(snd.in_flight) = snd.read /\ SWindow \in Nat /\ NumBlocks \in Nat
    BY <2>1, SenderCounters
  <2>5. /\ Len(s.in_flight) \in Nat /\ s.read \in 0 .. NumBlocks /\ Acked(s) \in Int
        /\ Acked(s) + Len(s.in_flight) = s.read
    BY SenderCounters
  <2>6. Acked(s) >= 0 /\ Acked(snd) >= 0  BY <2>1 DEF Aligned
  <2>7. i \in Nat \ {0} /\ i <= Len(s.in_flight)  BY ONLY <2>5, i \in 1 .. Len(s.in_flight)
  <2>8. Acked(s) + i <= s.read  BY ONLY <2>5, <2>7
  <2>9. snd.read <= Acked(snd) + SWindow
    <3>1. Len(snd.in_flight) <= SWindow  BY <2>1
    <3> QED BY ONLY <2>4, <3>1
  <2> QED BY <2>3, <2>4, <2>5, <2>6, <2>7, <2>8, <2>9
<1>3. id \in 1 .. NumBlocks /\ id <= s.read /\ Written < id + SWindow  BY <1>2
<1>4. s.in_flight[i].block = Number(id) /\ s.in_flight[i].data = Source[id]
  BY DEF Aligned
<1> HIDE DEF id
<1>5. Source[id] \in Block /\ Source[id].id = id  BY <1>3, SourceFacts
<1>6. Number(id) \in BlockNumber  BY <1>3, ResidueInRange DEF Number
<1>7. d = [dst |-> "R", packet |-> [type |-> "DATA", block |-> Number(id), data |-> Source[id]],
           stamp |-> Written]
  BY <1>1, <1>4 DEF DataPacket
<1>8. d.packet \in Packet  BY <1>5, <1>6, <1>7 DEF Packet
<1> QED BY <1>2, <1>3, <1>5, <1>7, <1>8

\* The bounds that the invariant gives for the counters of a state.
LEMMA Counters ==
  ASSUME IInv
  PROVE  /\ snd \in SenderState /\ rcv \in ReceiverState
         /\ Written \in Nat /\ snd.read \in Nat /\ Acked(snd) \in Nat /\ NumBlocks \in Nat
         /\ SWindow \in Nat /\ MaxAge \in Nat
         /\ Len(snd.in_flight) \in Nat
         /\ Acked(snd) + Len(snd.in_flight) = snd.read
         /\ Acked(snd) <= Written /\ Written <= snd.read
         /\ snd.read <= NumBlocks /\ snd.read <= Acked(snd) + SWindow
<1>1. snd \in SenderState /\ rcv \in ReceiverState /\ Len(snd.in_flight) <= SWindow
  BY DEF IInv, TypeOK
<1>2. Acked(snd) >= 0 /\ Acked(snd) <= Written /\ Written <= snd.read
  BY DEF IInv, Aligned, ProgressInv
<1>3. rcv.file \in Seq(Block)  BY <1>1 DEF ReceiverState
<1>4. Written \in Nat  BY <1>3, LenProperties DEF Written
<1>5. /\ Len(snd.in_flight) \in Nat /\ snd.read \in 0 .. NumBlocks /\ Acked(snd) \in Int
      /\ Acked(snd) + Len(snd.in_flight) = snd.read /\ SWindow \in Nat /\ NumBlocks \in Nat
  BY <1>1, SenderCounters
<1> QED BY <1>1, <1>2, <1>4, <1>5, TransferAssumption

\* A step of the sender preserves the invariant if the sender stays aligned, moves
\* forward no further than the file, and sends nothing but its window or an ERROR.
LEMMA SenderStep ==
  ASSUME IInv,
         snd' \in SenderState, Len(snd'.in_flight) <= SWindow, Aligned(snd'),
         Acked(snd) <= Acked(snd'), Acked(snd') <= Written, snd.read <= snd'.read,
         snd'.status = "ok" => Acked(snd') = NumBlocks,
         rcv' = rcv,
         faults' \in 0 .. MaxFaults,
         net' \subseteq net \cup Datagrams("R", SendWindow(snd') \cup {ErrorPacket}, Written)
  PROVE  IInv'
<1>1. Written' = Written  BY DEF Written
<1>2. ASSUME NEW d \in net', d \notin net
      PROVE  d \in [dst : {"S", "R"}, packet : Packet, stamp : Nat] /\ DatagramInv(d)'
  <2>1. CASE d \in Datagrams("R", SendWindow(snd'), Written)
    <3>1. /\ d \in [dst : {"S", "R"}, packet : Packet, stamp : Nat]
          /\ d.stamp = Written
          /\ d.packet.type = "DATA"
          /\ d.dst = "R"
          /\ d.packet.data.id <= snd'.read
          /\ Written < d.packet.data.id + SWindow
          /\ d.packet.block = Number(d.packet.data.id)
          /\ d.packet.data = Source[d.packet.data.id]
      BY <2>1, SentDataFacts
    <3> QED BY <3>1, <1>1, Counters DEF DatagramInv
  <2>2. CASE d \in Datagrams("R", {ErrorPacket}, Written)
    <3>1. d = [dst |-> "R", packet |-> ErrorPacket, stamp |-> Written]
      BY <2>2 DEF Datagrams
    <3>2. d \in [dst : {"S", "R"}, packet : Packet, stamp : Nat]
      BY <3>1, Counters DEF ErrorPacket, Packet
    <3>3. d.stamp = Written /\ d.packet.type = "ERROR"  BY <3>1 DEF ErrorPacket
    <3> QED BY <3>2, <3>3, <1>1, Counters DEF DatagramInv
  <2> QED BY <1>2, <2>1, <2>2 DEF Datagrams
<1>3. ASSUME NEW d \in net'
      PROVE  d \in [dst : {"S", "R"}, packet : Packet, stamp : Nat] /\ DatagramInv(d)'
  <2>1. CASE d \in net
    <3>1. d \in [dst : {"S", "R"}, packet : Packet, stamp : Nat] /\ DatagramInv(d)
      BY <2>1 DEF IInv, TypeOK
    <3>2. d.packet.type = "DATA" => d.packet.data.id \in Nat
      <4>1. ASSUME d.packet.type = "DATA"
            PROVE  d.packet \in [type : {"DATA"}, block : BlockNumber, data : Block]
        BY <3>1, <4>1 DEF Packet
      <4> QED BY <4>1 DEF Block
    <3>3. snd.read \in Nat /\ snd'.read \in Nat
      BY Counters DEF SenderState
    <3> QED BY <3>1, <3>2, <3>3, <1>1 DEF DatagramInv
  <2> QED BY <1>2, <2>1
<1>4. TypeOK'  BY <1>3, Counters DEF TypeOK
<1>5. Aligned(snd)'  OBVIOUS
<1>6. FileInv'  BY <1>1 DEF IInv, FileInv
<1>7. ProgressInv'
  <2>1. snd'.read \in Nat  BY DEF SenderState
  <2> QED BY <1>1, <2>1, Counters DEF ProgressInv
<1>8. StatusInv'  BY <1>1 DEF IInv, StatusInv
<1> QED BY <1>3, <1>4, <1>5, <1>6, <1>7, <1>8 DEF IInv

\* A step of the receiver that writes nothing preserves the invariant if it sends
\* nothing but the last ACK again or an ERROR.
LEMMA ReceiverStep ==
  ASSUME IInv,
         rcv' \in ReceiverState, rcv'.file = rcv.file,
         rcv'.next_block = rcv.next_block, rcv'.last_acked = rcv.last_acked,
         \/ rcv'.status = rcv.status
         \/ rcv.status = "receiving" /\ rcv'.status = "failed",
         rcv'.blocks_in_window \in {0, rcv.blocks_in_window},
         snd' = snd,
         faults' \in 0 .. MaxFaults,
         net' \subseteq net \cup Datagrams("S", {AckPacket(rcv.last_acked), ErrorPacket}, Written)
  PROVE  IInv'
<1>1. Written' = Written  BY DEF Written
<1>2. ASSUME NEW d \in net', d \notin net
      PROVE  d \in [dst : {"S", "R"}, packet : Packet, stamp : Nat] /\ DatagramInv(d)'
  <2>1. PICK p \in {AckPacket(rcv.last_acked), ErrorPacket} :
          d = [dst |-> "S", packet |-> p, stamp |-> Written]
    BY <1>2 DEF Datagrams
  <2>2. p \in Packet
    BY Counters DEF AckPacket, ErrorPacket, Packet, ReceiverState
  <2>3. p.type = "ERROR" \/ (p.type = "ACK" /\ p.block = Number(Written))
    <3>1. rcv.last_acked = Number(Written)  BY DEF IInv, FileInv
    <3>2. CASE p = AckPacket(rcv.last_acked)
      <4>1. p = [type |-> "ACK", block |-> rcv.last_acked]  BY <3>2 DEF AckPacket
      <4> QED BY <3>1, <4>1
    <3>3. CASE p = ErrorPacket
      <4>1. p = [type |-> "ERROR"]  BY <3>3 DEF ErrorPacket
      <4> QED BY <4>1
    <3> QED BY <3>2, <3>3
  <2> QED BY <2>1, <2>2, <2>3, <1>1, Counters DEF DatagramInv
<1>3. ASSUME NEW d \in net
      PROVE  d \in [dst : {"S", "R"}, packet : Packet, stamp : Nat] /\ DatagramInv(d)'
  BY <1>1 DEF IInv, TypeOK, DatagramInv
<1>4. TypeOK'  BY <1>2, <1>3 DEF IInv, TypeOK
<1>5. Aligned(snd)'  BY DEF IInv
<1>6. FileInv'  BY <1>1 DEF IInv, FileInv
<1>7. ProgressInv'  BY <1>1 DEF IInv, ProgressInv
<1>8. StatusInv'
  <2>1. rcv.status = "receiving" => 0 < RWindow /\ Written # NumBlocks
    BY Counters, TransferAssumption DEF IInv, StatusInv
  <2> QED BY <1>1, <2>1 DEF IInv, StatusInv
<1> QED BY <1>2, <1>3, <1>4, <1>5, <1>6, <1>7, <1>8 DEF IInv

\* The DATA that the receiver expects is the next block of the source: no other
\* block that can still be on its way has the same number.
LEMMA ExpectedData ==
  ASSUME WindowFits, IInv, Receiving,
         NEW d \in net, d.packet.type = "DATA", Expects(rcv, d.packet.block)
  PROVE  /\ Written + 1 \in 1 .. NumBlocks
         /\ d.packet.block = Number(Written + 1)
         /\ d.packet.data = Source[Written + 1]
         /\ Written < snd.read
<1> DEFINE id == d.packet.data.id
<1>1. DatagramInv(d) /\ d.packet \in Packet /\ d.stamp \in Nat
  BY DEF IInv, TypeOK
<1>2. /\ id \in 1 .. NumBlocks /\ id <= snd.read /\ d.stamp < id + SWindow
      /\ d.packet.block = Number(id) /\ d.packet.data = Source[id]
      /\ d.stamp <= Written /\ Written - d.stamp <= MaxAge
  <2>1. d.packet \in [type : {"DATA"}, block : BlockNumber, data : Block]
    BY <1>1 DEF Packet
  <2> QED BY <1>1, <2>1 DEF DatagramInv, Block
<1> HIDE DEF id
<1>3. d.packet.block = Number(Written + 1)
  BY DEF Expects, IInv, FileInv
<1>4. id - (Written + 1) < Modulus /\ (Written + 1) - id < Modulus
  <2>1. /\ Written \in Nat /\ snd.read \in Nat /\ Acked(snd) \in Nat /\ SWindow \in Nat
        /\ MaxAge \in Nat /\ Modulus \in Nat /\ d.stamp \in Nat /\ id \in Nat
    BY <1>1, <1>2, Counters, ModulusAssumption
  <2>2. /\ snd.read <= Acked(snd) + SWindow /\ Acked(snd) <= Written
        /\ MaxAge + SWindow < Modulus
    BY Counters DEF WindowFits
  <2>3. id - (Written + 1) < Modulus  BY ONLY <1>2, <2>1, <2>2
  <2>4. (Written + 1) - id < Modulus  BY ONLY <1>2, <2>1, <2>2
  <2> QED BY <2>3, <2>4
<1>5. id = Written + 1
  <2>1. id \in Int /\ Written + 1 \in Int  BY <1>2, Counters
  <2> QED BY <2>1, <1>2, <1>3, <1>4, EqualNumbers DEF Number
<1> QED BY <1>2, <1>5, Counters

\* A step of the receiver that writes that block preserves the invariant if it moves
\* on to the next one, and acknowledges, if anything, the block written.
LEMMA WriteStep ==
  ASSUME WindowFits, IInv, Receiving,
         NEW d \in net, d.packet.type = "DATA", Expects(rcv, d.packet.block),
         rcv' \in ReceiverState,
         rcv'.file = Append(rcv.file, d.packet.data),
         rcv'.next_block = WrappingAdd(rcv.next_block, 1),
         rcv'.last_acked = d.packet.block,
         IF IsFinal(rcv, d.packet.data)
           THEN rcv'.status = "ok" \/ (Server = "S" /\ rcv'.status = "failed")
           ELSE rcv'.status = "receiving" /\ rcv'.blocks_in_window < RWindow,
         snd' = snd,
         faults' \in 0 .. MaxFaults,
         NEW rest, rest \subseteq net,
         net' \subseteq Aged(rest \cup Datagrams("S", {AckPacket(d.packet.block)}, Written + 1),
                             Written + 1)
  PROVE  IInv'
<1>1. /\ Written + 1 \in 1 .. NumBlocks
      /\ d.packet.block = Number(Written + 1)
      /\ d.packet.data = Source[Written + 1]
      /\ Written < snd.read
  BY ExpectedData
<1>2. rcv.file \in Seq(Block) /\ Source[Written + 1] \in Block /\ Len(rcv.file) = Written
  BY <1>1, SourceFacts, Counters DEF ReceiverState, Written
<1>3. /\ Len(rcv'.file) = Written + 1
      /\ \A i \in 1 .. Written : rcv'.file[i] = rcv.file[i]
      /\ rcv'.file[Written + 1] = Source[Written + 1]
  BY <1>1, <1>2, AppendProperties
<1>4. Written' = Written + 1  BY <1>3 DEF Written
<1>5. IsFinal(rcv, d.packet.data) <=> Written + 1 = NumBlocks
  BY <1>1, SourceFacts, Counters DEF IsFinal, ReceiverState
<1>6. ASSUME NEW e \in net'
      PROVE  e \in [dst : {"S", "R"}, packet : Packet, stamp : Nat] /\ DatagramInv(e)'
  <2>1. CASE e \in net
    <3>1. (Written + 1) - e.stamp <= MaxAge  BY <1>6 DEF Aged
    <3>2. e \in [dst : {"S", "R"}, packet : Packet, stamp : Nat] /\ DatagramInv(e)
      BY <2>1 DEF IInv, TypeOK
    <3> QED BY <3>1, <3>2, <1>4, Counters DEF DatagramInv
  <2>2. CASE e \notin net
    <3>1. e = [dst |-> "S", packet |-> AckPacket(d.packet.block), stamp |-> Written + 1]
      BY <1>6, <2>2 DEF Aged, Datagrams
    <3>2. Number(Written + 1) \in BlockNumber  BY <1>1, ResidueInRange DEF Number
    <3>3. e.packet = [type |-> "ACK", block |-> Number(Written + 1)]
      BY <1>1, <3>1 DEF AckPacket
    <3>4. e.packet \in Packet  BY <3>2, <3>3 DEF Packet
    <3>5. e.stamp = Written + 1 /\ e.dst = "S"  BY <3>1
    <3>6. e \in [dst : {"S", "R"}, packet : Packet, stamp : Nat]
      BY <3>1, <3>4, Counters
    <3> QED BY <3>3, <3>5, <3>6, <1>4, Counters DEF DatagramInv
  <2> QED BY <2>1, <2>2
<1>7. TypeOK'  BY <1>6 DEF IInv, TypeOK
<1>8. Aligned(snd)'  BY DEF IInv
<1>9. FileInv'
  <2>1. \A i \in 1 .. Written + 1 : rcv'.file[i] = Source[i]
    BY <1>3, Counters DEF IInv, FileInv
  <2>2. rcv'.next_block = Number(Written + 1 + 1)
    <3>1. Written + 1 \in Int /\ 1 \in Int  BY Counters
    <3>2. WrappingAdd((Written + 1) % Modulus, 1) = (Written + 1 + 1) % Modulus
      BY ONLY <3>1, AddResidue
    <3> QED BY <3>2 DEF IInv, FileInv, Number
  <2>3. rcv'.last_acked = Number(Written + 1)  BY <1>1
  <2>4. Written + 1 <= NumBlocks  BY <1>1
  <2> QED BY <1>4, <2>1, <2>2, <2>3, <2>4 DEF FileInv
<1>10. ProgressInv'  BY <1>1, <1>4, Counters DEF ProgressInv
<1>11. StatusInv'
  <2>1. snd.status # "ok"
    BY <1>1, Counters DEF IInv, StatusInv
  <2>2. Written' = NumBlocks => rcv'.status = "ok" \/ (Server = "S" /\ rcv'.status = "failed")
    BY <1>4, <1>5
  <2>3. Written' # NumBlocks => rcv'.status = "receiving" /\ rcv'.blocks_in_window < RWindow
    BY <1>4, <1>5
  <2>4. Written' <= NumBlocks /\ Written' \in Nat  BY <1>1, <1>4, Counters
  <2>5. NumBlocks \in Nat  BY TransferAssumption
  <2> QED BY <2>1, <2>2, <2>3, <2>4, <2>5 DEF StatusInv
<1> QED BY <1>6, <1>7, <1>8, <1>9, <1>10, <1>11 DEF IInv

-----------------------------------------------------------------------------
(* The invariant.                                                          *)

LEMMA InitInv == ASSUME Init PROVE IInv
<1> USE TransferAssumption, ModulusAssumption
<1>1. /\ snd.source = Source /\ snd.window = SWindow /\ snd.read = 0
      /\ snd.in_flight = << >> /\ snd.next_block = 1 /\ snd.attempt = 0
      /\ snd.status = "sending"
      /\ rcv.next_block = 1 /\ rcv.last_acked = 0 /\ rcv.file = << >>
      /\ rcv.status = "receiving" /\ rcv.blocks_in_window = 0
  BY DEF Init, NewSender, NewReceiver
<1>2. << >> \in Seq(Entry) /\ << >> \in Seq(Block) /\ Len(<< >>) = 0
  BY EmptySeq
<1>3. 0 \in BlockNumber /\ 1 \in BlockNumber /\ Number(1) = 1 /\ Number(0) = 0
  BY SmallResidue DEF BlockNumber, Number
<1>4. snd \in SenderState
  BY <1>2, <1>3 DEF Init, NewSender, SenderState, Entry
<1>5. rcv \in ReceiverState
  BY <1>2, <1>3 DEF Init, NewReceiver, ReceiverState
<1>6. Acked(snd) = 0 /\ Written = 0
  <2>1. Len(snd.in_flight) = 0 /\ Len(rcv.file) = 0  BY <1>1, <1>2
  <2>2. Written = 0  BY <2>1 DEF Written
  <2>3. Acked(snd) = 0 - 0  BY ONLY <1>1, <2>1 DEF Acked
  <2> QED BY <2>2, <2>3
<1>7. ASSUME NEW d \in net
      PROVE  d \in [dst : {"S", "R"}, packet : Packet, stamp : Nat] /\ DatagramInv(d)
  <2>1. d \in Leftovers  BY DEF Init
  <2>2. CASE d \in Datagrams(Client, {OackPacket}, 0)
    <3>1. d = [dst |-> Client, packet |-> [type |-> "OACK"], stamp |-> 0]
      BY <2>2 DEF Datagrams, OackPacket
    <3>2. Client \in {"S", "R"}  BY DEF Client
    <3>3. [type |-> "OACK"] \in Packet  BY DEF Packet
    <3>4. d.packet.type = "OACK" /\ d.stamp = 0  BY <3>1
    <3> QED BY <3>1, <3>2, <3>3, <3>4, <1>6 DEF DatagramInv
  <2>3. CASE d \in Datagrams("S", {AckPacket(0)}, 0)
    <3>1. d = [dst |-> "S", packet |-> [type |-> "ACK", block |-> 0], stamp |-> 0]
      BY <2>3 DEF Datagrams, AckPacket
    <3>2. [type |-> "ACK", block |-> 0] \in Packet  BY <1>3 DEF Packet
    <3> QED BY <3>1, <3>2, <1>3, <1>6 DEF DatagramInv
  <2> QED BY <2>1, <2>2, <2>3 DEF Leftovers
<1>8. TypeOK  BY <1>1, <1>2, <1>4, <1>5, <1>7 DEF TypeOK, Init
<1>9. Aligned(snd)  BY <1>1, <1>2, <1>3, <1>6 DEF Aligned
<1>10. FileInv  BY <1>1, <1>3, <1>6 DEF FileInv
<1>11. ProgressInv  BY <1>1, <1>6 DEF ProgressInv
<1>12. StatusInv  BY <1>1, <1>6 DEF StatusInv
<1> QED BY <1>7, <1>8, <1>9, <1>10, <1>11, <1>12 DEF IInv

\* The sender's side of the next-state relation.
LEMMA SenderInv ==
  ASSUME WindowFits, IInv,
         SenderStart \/ SenderReceives \/ SenderTimeout \/ SenderReadFails
  PROVE  IInv'
<1>1. /\ snd \in SenderState /\ Aligned(snd) /\ Len(snd.in_flight) <= SWindow
      /\ faults \in 0 .. MaxFaults
  BY DEF IInv, TypeOK
<1>order. /\ Acked(snd) <= Acked(snd) /\ Acked(snd) <= Written /\ snd.read <= snd.read
  BY Counters
<1>2. ASSUME snd' = snd, snd.status = "sending", NEW rest, rest \subseteq net, Transmit(rest),
             rcv' = rcv, faults' \in 0 .. MaxFaults
      PROVE  IInv'
  <2>1. net' \subseteq net \cup Datagrams("R", SendWindow(snd') \cup {ErrorPacket}, Written)
    BY <1>2 DEF Transmit, Datagrams
  <2> QED BY <1>1, <1>2, <2>1, <1>order, SenderStep
<1>3. ASSUME snd.status = "sending", snd' = [snd EXCEPT !.status = "failed"],
             net' \subseteq net \cup Datagrams("R", {ErrorPacket}, Written),
             rcv' = rcv, faults' \in 0 .. MaxFaults
      PROVE  IInv'
  <2>1. /\ snd' \in SenderState /\ snd'.in_flight = snd.in_flight /\ snd'.read = snd.read
        /\ snd'.next_block = snd.next_block /\ snd'.status = "failed"
    BY <1>1, <1>3 DEF SenderState
  <2>2. Acked(snd') = Acked(snd) /\ Aligned(snd')
    BY <1>1, <2>1 DEF Acked, Aligned
  <2>3. net' \subseteq net \cup Datagrams("R", SendWindow(snd') \cup {ErrorPacket}, Written)
    BY <1>3 DEF Datagrams
  <2> QED BY <1>1, <1>3, <2>1, <2>2, <2>3, <1>order, SenderStep
<1>4. CASE SenderStart
  <2>1. /\ snd' \in SenderState /\ Aligned(snd') /\ Len(snd'.in_flight) <= SWindow
        /\ Acked(snd') = Acked(snd) /\ snd.read <= snd'.read
        /\ snd'.status = "ok" => Acked(snd') = NumBlocks
    BY <1>1, <1>4, NextRoundFacts DEF SenderStart
  <2>2. net' \subseteq net \cup Datagrams("R", SendWindow(snd') \cup {ErrorPacket}, Written)
    BY <1>4 DEF SenderStart, Transmit, Datagrams
  <2> QED BY <1>1, <1>4, <2>1, <2>2, <1>order, SenderStep DEF SenderStart
<1>5. CASE SenderAdvances
  <2>1. PICK d \in net : \E rest \in {net, net \ {d}} :
          /\ Sending
          /\ d.packet.type = "ACK"
          /\ Advances(snd, d.packet.block)
          /\ Arrives(d, "S", rest)
          /\ snd' = NextRound(ConsumeAck(snd, d.packet.block))
          /\ Transmit(rest)
          /\ UNCHANGED rcv
    BY <1>5 DEF SenderAdvances
  <2>2. PICK rest \in {net, net \ {d}} : Arrives(d, "S", rest) /\ Transmit(rest)
    BY <2>1
  <2>3. /\ d.stamp \in Nat /\ d.stamp <= Written /\ Written - d.stamp <= MaxAge
        /\ d.packet.block = Number(d.stamp)
    BY <2>1 DEF IInv, TypeOK, DatagramInv
  <2> DEFINE t == ConsumeAck(snd, d.packet.block)
  <2>4. /\ t \in SenderState /\ Aligned(t) /\ Len(t.in_flight) <= SWindow
        /\ Acked(t) = IF d.stamp > Acked(snd) THEN d.stamp ELSE Acked(snd)
        /\ t.read = snd.read /\ t.status = snd.status
    BY <1>1, <2>3, Counters, ConsumeAckFacts
  <2>5. snd' = NextRound(t) /\ snd.status = "sending"  BY <2>1 DEF Sending
  <2> HIDE DEF t
  <2>6. /\ snd' \in SenderState /\ Aligned(snd') /\ Len(snd'.in_flight) <= SWindow
        /\ Acked(snd') = Acked(t) /\ t.read <= snd'.read
        /\ snd'.status = "ok" => Acked(snd') = NumBlocks
    BY <2>4, <2>5, NextRoundFacts
  <2>7. Acked(snd) <= Acked(snd') /\ Acked(snd') <= Written
    BY <2>3, <2>4, <2>6, Counters
  <2>8. net' \subseteq net \cup Datagrams("R", SendWindow(snd') \cup {ErrorPacket}, Written)
    BY <2>2 DEF Transmit, Datagrams
  <2>9. faults' \in 0 .. MaxFaults  BY <1>1, <2>2, FaultsBounded
  <2> QED BY <2>1, <2>4, <2>6, <2>7, <2>8, <2>9, SenderStep
<1>6. CASE SenderStaleAck \/ SenderOther
  <2>1. PICK d \in net, rest \in SUBSET net :
          Sending /\ Arrives(d, "S", rest) /\ snd' = snd /\ Transmit(rest) /\ rcv' = rcv
    BY <1>6 DEF SenderStaleAck, SenderOther
  <2>2. faults' \in 0 .. MaxFaults  BY <1>1, <2>1, FaultsBounded
  <2> QED BY <1>2, <2>1, <2>2 DEF Sending
<1>7. CASE SenderError
  <2>1. PICK d \in net, rest \in SUBSET net :
          /\ Sending /\ Arrives(d, "S", rest) /\ snd' = [snd EXCEPT !.status = "failed"]
          /\ net' = rest /\ rcv' = rcv
    BY <1>7 DEF SenderError
  <2>2. faults' \in 0 .. MaxFaults  BY <1>1, <2>1, FaultsBounded
  <2> QED BY <1>3, <2>1, <2>2 DEF Sending
<1>8. CASE SenderRetransmits
  <2>1. /\ snd' = [snd EXCEPT !.attempt = @ + 1] /\ snd.attempt < SRetries
        /\ Transmit(net) /\ rcv' = rcv /\ snd.status = "sending" /\ Deadline
    BY <1>8 DEF SenderRetransmits, Sending
  <2>2. /\ snd' \in SenderState /\ snd'.in_flight = snd.in_flight /\ snd'.read = snd.read
        /\ snd'.next_block = snd.next_block /\ snd'.status = "sending"
    <3>1. snd.attempt \in Nat /\ SRetries \in Nat
      BY <1>1, TransferAssumption DEF SenderState
    <3>2. snd.attempt + 1 \in 0 .. SRetries  BY <3>1, <2>1
    <3> QED BY <1>1, <2>1, <3>2 DEF SenderState
  <2>3. Acked(snd') = Acked(snd) /\ Aligned(snd')
    BY <1>1, <2>2 DEF Acked, Aligned
  <2>4. net' \subseteq net \cup Datagrams("R", SendWindow(snd') \cup {ErrorPacket}, Written)
    BY <2>1 DEF Transmit, Datagrams
  <2>5. faults' \in 0 .. MaxFaults  BY <1>1, <2>1, FaultsBounded
  <2> QED BY <1>1, <2>1, <2>2, <2>3, <2>4, <2>5, <1>order, SenderStep
<1>9. CASE SenderGivesUp
  <2>1. net' \subseteq net \cup Datagrams("R", {ErrorPacket}, Written)
    BY <1>9 DEF SenderGivesUp, GiveUpPackets, Datagrams
  <2>2. faults' \in 0 .. MaxFaults  BY <1>1, <1>9, FaultsBounded DEF SenderGivesUp
  <2> QED BY <1>3, <1>9, <2>1, <2>2 DEF SenderGivesUp, Sending
<1>10. CASE SenderReadFails
  <2>1. /\ snd.status = "sending" /\ snd' = [snd EXCEPT !.status = "failed"]
        /\ net' \subseteq net /\ rcv' = rcv /\ Fault
    BY <1>10 DEF SenderReadFails, Sending
  <2>2. faults' \in 0 .. MaxFaults  BY <1>1, <2>1, FaultsBounded
  <2> QED BY <1>3, <2>1, <2>2
<1> QED BY <1>4, <1>5, <1>6, <1>7, <1>8, <1>9, <1>10 DEF SenderReceives, SenderTimeout

\* The receiver's side of the next-state relation.
LEMMA ReceiverInv ==
  ASSUME WindowFits, IInv,
         \/ ReceiverReceives \/ ReceiverTimeout
         \/ ReceiverWriteFails \/ ReceiverFinishFails
  PROVE  IInv'
<1>1. rcv \in ReceiverState /\ faults \in 0 .. MaxFaults
  BY DEF IInv, TypeOK
<1>2. ASSUME rcv' \in ReceiverState,
             rcv'.file = rcv.file, rcv'.next_block = rcv.next_block,
             rcv'.last_acked = rcv.last_acked, rcv'.status = rcv.status,
             rcv'.blocks_in_window \in {0, rcv.blocks_in_window},
             net' \subseteq net \cup Datagrams("S", {AckPacket(rcv.last_acked)}, Written),
             snd' = snd, faults' \in 0 .. MaxFaults
      PROVE  IInv'
  <2>1. net' \subseteq net \cup Datagrams("S", {AckPacket(rcv.last_acked), ErrorPacket}, Written)
    BY <1>2 DEF Datagrams
  <2> QED BY <1>2, <2>1, ReceiverStep
<1>3. ASSUME rcv.status = "receiving", rcv' = [rcv EXCEPT !.status = "failed"],
             net' \subseteq net \cup Datagrams("S", {ErrorPacket}, Written),
             snd' = snd, faults' \in 0 .. MaxFaults
      PROVE  IInv'
  <2>1. net' \subseteq net \cup Datagrams("S", {AckPacket(rcv.last_acked), ErrorPacket}, Written)
    BY <1>3 DEF Datagrams
  <2>2. /\ rcv' \in ReceiverState /\ rcv'.file = rcv.file /\ rcv'.next_block = rcv.next_block
        /\ rcv'.last_acked = rcv.last_acked /\ rcv'.status = "failed"
        /\ rcv'.blocks_in_window = rcv.blocks_in_window
    BY <1>1, <1>3 DEF ReceiverState
  <2> QED BY <1>3, <2>1, <2>2, ReceiverStep
<1>4. ASSUME NEW d \in net, Receiving, d.packet.type = "DATA", Expects(rcv, d.packet.block),
             NEW r, r = AcceptBlock(rcv, d.packet.block, d.packet.data)
      PROVE  /\ r \in ReceiverState
             /\ r.file = Append(rcv.file, d.packet.data)
             /\ r.next_block = WrappingAdd(rcv.next_block, 1)
             /\ r.last_acked = d.packet.block
             /\ IF IsFinal(rcv, d.packet.data)
                  THEN r.status = "ok"
                  ELSE r.status = "receiving" /\ r.blocks_in_window < RWindow
  <2> DEFINE biw == IF WindowFull(rcv) /\ ~IsFinal(rcv, d.packet.data)
                      THEN 0 ELSE rcv.blocks_in_window + 1
             status == IF IsFinal(rcv, d.packet.data) THEN "ok" ELSE rcv.status
             file == Append(rcv.file, d.packet.data)
             next == WrappingAdd(rcv.next_block, 1)
  <2>1. d.packet \in [type : {"DATA"}, block : BlockNumber, data : Block]
    BY <1>4 DEF IInv, TypeOK, Packet
  <2>2. d.packet.block \in BlockNumber /\ d.packet.data \in Block  BY <2>1
  <2>3. file \in Seq(Block)
    BY <1>1, <2>2, AppendProperties DEF ReceiverState
  <2>4. next \in BlockNumber
    <3>1. rcv.next_block + 1 \in Int
      BY <1>1, ModulusAssumption DEF ReceiverState, BlockNumber
    <3> QED BY <3>1, ResidueInRange DEF WrappingAdd
  <2>5. biw \in 0 .. RWindow /\ (~IsFinal(rcv, d.packet.data) => biw < RWindow)
    <3>1. /\ rcv.blocks_in_window \in Nat /\ RWindow \in Nat \ {0}
          /\ rcv.window = RWindow
      BY <1>1, TransferAssumption DEF ReceiverState
    <3>2. rcv.blocks_in_window < RWindow
      BY <1>4 DEF IInv, StatusInv, Receiving
    <3> QED BY <3>1, <3>2 DEF WindowFull
  <2>6. 0 \in 0 .. RRetries /\ rcv.status = "receiving"
    BY <1>4, TransferAssumption DEF Receiving
  <2>7. r = [rcv EXCEPT !.attempt = 0, !.file = file, !.last_acked = d.packet.block,
                        !.next_block = next, !.blocks_in_window = biw, !.status = status]
    BY <1>4 DEF AcceptBlock
  <2>8. status \in {"receiving", "ok"} /\ (IsFinal(rcv, d.packet.data) => status = "ok")
        /\ (~IsFinal(rcv, d.packet.data) => status = "receiving")
    BY <2>6
  <2> HIDE DEF biw, status, file, next
  <2>9. /\ r \in ReceiverState
        /\ r.file = file /\ r.next_block = next /\ r.last_acked = d.packet.block
        /\ r.status = status /\ r.blocks_in_window = biw
    BY <1>1, <2>2, <2>3, <2>4, <2>5, <2>6, <2>7, <2>8 DEF ReceiverState
  <2> QED BY <2>5, <2>8, <2>9 DEF file, next
<1>5. CASE ReceiverAccepts
  <2>1. PICK d \in net, rest \in SUBSET net :
          /\ Receiving
          /\ d.packet.type = "DATA"
          /\ Expects(rcv, d.packet.block)
          /\ Arrives(d, "R", rest)
          /\ rcv' = AcceptBlock(rcv, d.packet.block, d.packet.data)
          /\ LET acks == IF AnswersAtOnce(rcv, d.packet.data)
                         THEN {AckPacket(d.packet.block)} ELSE {}
             IN  net' = Aged(rest \cup Datagrams("S", acks, Written + 1), Written + 1)
          /\ UNCHANGED snd
    BY <1>5 DEF ReceiverAccepts
  <2>2. net' \subseteq Aged(rest \cup Datagrams("S", {AckPacket(d.packet.block)}, Written + 1),
                            Written + 1)
    BY <2>1 DEF Aged, Datagrams
  <2>3. faults' \in 0 .. MaxFaults  BY <1>1, <2>1, FaultsBounded
  <2>4. /\ rcv' \in ReceiverState
        /\ rcv'.file = Append(rcv.file, d.packet.data)
        /\ rcv'.next_block = WrappingAdd(rcv.next_block, 1)
        /\ rcv'.last_acked = d.packet.block
        /\ IF IsFinal(rcv, d.packet.data)
             THEN rcv'.status = "ok"
             ELSE rcv'.status = "receiving" /\ rcv'.blocks_in_window < RWindow
    BY <1>4, <2>1
  <2>5. snd' = snd /\ rest \subseteq net  BY <2>1
  <2> QED BY <2>1, <2>2, <2>3, <2>4, <2>5, WriteStep
<1>6. CASE ReceiverFinishFails
  <2>1. PICK d \in net :
          /\ Receiving /\ Fault /\ Server = "S"
          /\ d.packet.type = "DATA"
          /\ Expects(rcv, d.packet.block)
          /\ IsFinal(rcv, d.packet.data)
          /\ rcv' = [AcceptBlock(rcv, d.packet.block, d.packet.data) EXCEPT !.status = "failed"]
          /\ net' = Aged((net \ {d}) \cup Datagrams("S", {AckPacket(d.packet.block)}, Written + 1),
                         Written + 1)
          /\ UNCHANGED snd
    BY <1>6 DEF ReceiverFinishFails
  <2> DEFINE r == AcceptBlock(rcv, d.packet.block, d.packet.data)
             rest == net \ {d}
  <2>2. /\ r \in ReceiverState
        /\ r.file = Append(rcv.file, d.packet.data)
        /\ r.next_block = WrappingAdd(rcv.next_block, 1)
        /\ r.last_acked = d.packet.block
    BY <1>4, <2>1
  <2>3. rcv' = [r EXCEPT !.status = "failed"] /\ rest \subseteq net  BY <2>1
  <2>4. net' = Aged(rest \cup Datagrams("S", {AckPacket(d.packet.block)}, Written + 1), Written + 1)
    BY <2>1
  <2> HIDE DEF r, rest
  <2>5. /\ rcv' \in ReceiverState
        /\ rcv'.file = Append(rcv.file, d.packet.data)
        /\ rcv'.next_block = WrappingAdd(rcv.next_block, 1)
        /\ rcv'.last_acked = d.packet.block
        /\ rcv'.status = "failed"
    BY <2>2, <2>3 DEF ReceiverState
  <2>6. faults' \in 0 .. MaxFaults  BY <1>1, <2>1, FaultsBounded
  <2> QED BY <2>1, <2>3, <2>4, <2>5, <2>6, WriteStep
<1>7. CASE ReceiverRejects
  <2>1. PICK d \in net, rest \in SUBSET net :
          /\ Arrives(d, "R", rest) /\ rcv' = RejectBlock(rcv) /\ UNCHANGED snd
          /\ net' = rest \cup Datagrams("S", {AckPacket(rcv.last_acked)}, Written)
    BY <1>7 DEF ReceiverRejects
  <2>2. 0 \in 0 .. RRetries /\ 0 \in 0 .. RWindow  BY TransferAssumption
  <2>3. /\ rcv' \in ReceiverState
        /\ rcv'.file = rcv.file /\ rcv'.next_block = rcv.next_block
        /\ rcv'.last_acked = rcv.last_acked /\ rcv'.status = rcv.status
        /\ rcv'.blocks_in_window = 0
    BY <1>1, <2>1, <2>2 DEF RejectBlock, ReceiverState
  <2>4. faults' \in 0 .. MaxFaults  BY <1>1, <2>1, FaultsBounded
  <2> QED BY <1>2, <2>1, <2>3, <2>4
<1>8. CASE ReceiverOther
  <2>1. PICK d \in net, rest \in SUBSET net :
          Arrives(d, "R", rest) /\ net' = rest /\ snd' = snd /\ rcv' = rcv
    BY <1>8 DEF ReceiverOther
  <2>2. faults' \in 0 .. MaxFaults  BY <1>1, <2>1, FaultsBounded
  <2> QED BY <1>1, <1>2, <2>1, <2>2
<1>9. CASE ReceiverError
  <2>1. PICK d \in net, rest \in SUBSET net :
          /\ Receiving /\ Arrives(d, "R", rest) /\ net' = rest /\ snd' = snd
          /\ rcv' = [rcv EXCEPT !.status = "failed"]
    BY <1>9 DEF ReceiverError
  <2>2. faults' \in 0 .. MaxFaults  BY <1>1, <2>1, FaultsBounded
  <2> QED BY <1>3, <2>1, <2>2 DEF Receiving
<1>10. CASE ReceiverReAcks
  <2>1. /\ rcv.attempt < RRetries /\ Deadline /\ rcv' = [rcv EXCEPT !.attempt = @ + 1]
        /\ net' = net \cup Datagrams("S", {AckPacket(rcv.last_acked)}, Written)
        /\ snd' = snd
    BY <1>10 DEF ReceiverReAcks
  <2>2. rcv.attempt + 1 \in 0 .. RRetries
    <3>1. rcv.attempt \in 0 .. RRetries /\ RRetries \in Nat
      BY <1>1, TransferAssumption DEF ReceiverState
    <3> QED BY <2>1, <3>1
  <2>3. /\ rcv' \in ReceiverState
        /\ rcv'.file = rcv.file /\ rcv'.next_block = rcv.next_block
        /\ rcv'.last_acked = rcv.last_acked /\ rcv'.status = rcv.status
        /\ rcv'.blocks_in_window = rcv.blocks_in_window
    BY <1>1, <2>1, <2>2 DEF ReceiverState
  <2>4. faults' \in 0 .. MaxFaults  BY <1>1, <2>1, FaultsBounded
  <2> QED BY <1>2, <2>1, <2>3, <2>4
<1>11. CASE ReceiverGivesUp
  <2>1. net' \subseteq net \cup Datagrams("S", {ErrorPacket}, Written)
    BY <1>11 DEF ReceiverGivesUp, GiveUpPackets, Datagrams
  <2>2. faults' \in 0 .. MaxFaults  BY <1>1, <1>11, FaultsBounded DEF ReceiverGivesUp
  <2> QED BY <1>3, <1>11, <2>1, <2>2 DEF ReceiverGivesUp, Receiving
<1>12. CASE ReceiverWriteFails
  <2>1. /\ rcv.status = "receiving" /\ rcv' = [rcv EXCEPT !.status = "failed"]
        /\ net' \subseteq net /\ snd' = snd /\ Fault
    BY <1>12 DEF ReceiverWriteFails, Receiving
  <2>2. faults' \in 0 .. MaxFaults  BY <1>1, <2>1, FaultsBounded
  <2> QED BY <1>3, <2>1, <2>2
<1> QED
  BY <1>5, <1>6, <1>7, <1>8, <1>9, <1>10, <1>11, <1>12 DEF ReceiverReceives, ReceiverTimeout

\* Every step preserves the invariant.
LEMMA NextInv == ASSUME WindowFits, IInv, [Next]_vars PROVE IInv'
<1>1. CASE SenderStart \/ SenderReceives \/ SenderTimeout \/ SenderReadFails
  BY <1>1, SenderInv
<1>2. CASE \/ ReceiverReceives \/ ReceiverTimeout
           \/ ReceiverWriteFails \/ ReceiverFinishFails
  BY <1>2, ReceiverInv
<1>3. CASE Lose
  <2>1. /\ rcv \in ReceiverState /\ faults' \in 0 .. MaxFaults
        /\ snd' = snd /\ rcv' = rcv /\ net' \subseteq net
    BY <1>3, FaultsBounded DEF Lose, IInv, TypeOK
  <2> QED BY <2>1, ReceiverStep
<1>4. CASE UNCHANGED vars
  <2>1. /\ rcv \in ReceiverState /\ faults' \in 0 .. MaxFaults
        /\ snd' = snd /\ rcv' = rcv /\ net' \subseteq net
    BY <1>4 DEF vars, IInv, TypeOK
  <2> QED BY <2>1, ReceiverStep
<1> QED BY <1>1, <1>2, <1>3, <1>4 DEF Next, Terminated

-----------------------------------------------------------------------------
(* The theorems.                                                           *)

\* The inductive invariant holds throughout every transfer whose window and oldest
\* datagram span fewer blocks than there are block numbers.
THEOREM Invariance == ASSUME WindowFits PROVE Spec => []IInv
<1>1. Init => IInv  BY InitInv
<1>2. IInv /\ [Next]_vars => IInv'  BY NextInv
<1> QED BY <1>1, <1>2, PTL DEF Spec

\* Both endpoints keep their types, and no window outgrows the windowsize.
THEOREM TypeCorrect == ASSUME WindowFits PROVE Spec => []TypeOK
<1>1. IInv => TypeOK  BY DEF IInv
<1> QED BY <1>1, Invariance, PTL

\* The sender never drops a block that is not written: consume_ack mistakes no stale
\* ACK for one that covers it.
THEOREM Remembers == ASSUME WindowFits PROVE Spec => []NeverForgetsUnwritten
<1>1. IInv => NeverForgetsUnwritten  BY DEF IInv, ProgressInv, NeverForgetsUnwritten
<1> QED BY <1>1, Invariance, PTL

\* The file of a state that satisfies the invariant.
LEMMA FileIsPrefix ==
  ASSUME IInv
  PROVE  WrittenInOrder /\ (Written = NumBlocks => rcv.file = Source)
<1>1. /\ rcv.file \in Seq(Block) /\ Len(rcv.file) = Written /\ Written \in Nat
      /\ Written <= NumBlocks /\ \A i \in 1 .. Written : rcv.file[i] = Source[i]
  BY Counters DEF IInv, FileInv, ReceiverState, Written
<1>2. \A i \in 1 .. Written : Source[i] \in Block
  BY <1>1, SourceFacts, TransferAssumption
<1>3. /\ SubSeq(Source, 1, Written) \in Seq(Block)
      /\ Len(SubSeq(Source, 1, Written)) = Written
      /\ \A i \in 1 .. Written : SubSeq(Source, 1, Written)[i] = Source[i]
  <2>1. /\ SubSeq(Source, 1, Written) \in Seq(Block)
        /\ Len(SubSeq(Source, 1, Written)) = IF 1 <= Written THEN Written - 1 + 1 ELSE 0
        /\ \A i \in 1 .. Written - 1 + 1 : SubSeq(Source, 1, Written)[i] = Source[1 + i - 1]
    <3>1. 1 \in Int /\ Written \in Int  BY <1>1
    <3> QED BY <1>2, <3>1, SubSeqProperties
  <2>2. Written - 1 + 1 = Written /\ \A i \in Int : 1 + i - 1 = i  BY <1>1
  <2> QED BY <1>1, <2>1, <2>2
<1>4. rcv.file = SubSeq(Source, 1, Written)
  BY <1>1, <1>3, SeqEqual
<1>5. Written = NumBlocks => rcv.file = Source
  BY <1>4, SourceFacts, SubSeqFull
<1> QED BY <1>1, <1>4, <1>5 DEF WrittenInOrder

\* The file is at every moment the beginning of the source: the receiver takes no
\* block out of its place, however often the block numbers wrap.
THEOREM InOrder == ASSUME WindowFits PROVE Spec => []WrittenInOrder
<1>1. IInv => WrittenInOrder  BY FileIsPrefix
<1> QED BY <1>1, Invariance, PTL

\* Nobody reports success before the whole file is written; a client whose put
\* succeeds knows that the server has flushed it.
LEMMA SuccessFromInv == ASSUME IInv PROVE SuccessMeansWritten
<1>1. snd.status = "ok" => Written = NumBlocks
  BY Counters DEF IInv, StatusInv
<1>2. rcv.status = "ok" => Written = NumBlocks
  BY DEF IInv, StatusInv
<1>3. snd.status = "ok" /\ Server = "R" => rcv.status = "ok"
  BY <1>1 DEF IInv, StatusInv
<1> QED BY <1>1, <1>2, <1>3, FileIsPrefix DEF SuccessMeansWritten

\* Nobody reports success before the whole file is written.
THEOREM Success == ASSUME WindowFits PROVE Spec => []SuccessMeansWritten
<1>1. IInv => SuccessMeansWritten  BY SuccessFromInv
<1> QED BY <1>1, Invariance, PTL

-----------------------------------------------------------------------------
(* The data phase implements TransferPromise.                              *)

LEMMA PromiseInit == ASSUME Init PROVE Promise!Init
BY DEF Init, NewSender, NewReceiver, Promise!Init

\* The sender returns, once, or nothing that the promise speaks of happens.
LEMMA SenderPromise ==
  ASSUME IInv, IInv', SuccessMeansWritten',
         SenderStart \/ SenderReceives \/ SenderTimeout \/ SenderReadFails
  PROVE  [Promise!Next]_(Promise!promised)
<1>1. /\ snd.status = "sending" /\ rcv' = rcv
      /\ snd'.status \in {"sending", "ok", "failed"}
  <2>1. snd'.status \in {"sending", "ok", "failed"}  BY DEF IInv, TypeOK, SenderState
  <2> QED BY <2>1 DEF SenderStart, SenderReceives, SenderAdvances, SenderStaleAck, SenderOther,
                      SenderError, SenderTimeout, SenderRetransmits, SenderGivesUp,
                      SenderReadFails, Sending
<1>2. snd'.status = "ok" => rcv.file = Source /\ (Server = "R" => rcv.status = "ok")
  BY <1>1 DEF SuccessMeansWritten
<1> QED
  BY <1>1, <1>2 DEF Promise!Next, Promise!SenderSucceeds, Promise!SenderFails,
                    Promise!promised, Promise!Complete

\* The receiver writes the next block, or returns, or nothing happens.
LEMMA ReceiverPromise ==
  ASSUME WindowFits, IInv, IInv', WrittenInOrder',
         \/ ReceiverReceives \/ ReceiverTimeout
         \/ ReceiverWriteFails \/ ReceiverFinishFails
  PROVE  [Promise!Next]_(Promise!promised)
<1>1. rcv \in ReceiverState /\ Receiving /\ snd' = snd
  <2>1. rcv \in ReceiverState  BY DEF IInv, TypeOK
  <2> QED BY <2>1 DEF ReceiverReceives, ReceiverAccepts, ReceiverRejects, ReceiverOther,
                      ReceiverError, ReceiverTimeout, ReceiverReAcks, ReceiverGivesUp,
                      ReceiverWriteFails, ReceiverFinishFails
<1>2. ASSUME rcv'.file = rcv.file, rcv'.status \in {"receiving", "failed"}
      PROVE  [Promise!Next]_(Promise!promised)
  BY <1>1, <1>2 DEF Promise!Next, Promise!ReceiverFails, Promise!promised, Receiving
<1>3. ASSUME NEW d \in net, d.packet.type = "DATA", Expects(rcv, d.packet.block),
             rcv'.file = Append(rcv.file, d.packet.data),
             \/ rcv'.status \in {"receiving", "ok"}
             \/ rcv'.status = "failed" /\ Server = "S" /\ IsFinal(rcv, d.packet.data)
      PROVE  [Promise!Next]_(Promise!promised)
  <2>1. /\ Written + 1 \in 1 .. NumBlocks
        /\ d.packet.data = Source[Written + 1]
    BY <1>1, <1>3, ExpectedData
  <2>2. Len(rcv.file) = Written  BY DEF Written
  <2>3. rcv.file # Source
    BY <2>1, <2>2, SourceFacts, Counters
  <2>4. IsFinal(rcv, d.packet.data) <=> Written + 1 = NumBlocks
    BY <1>1, <2>1, SourceFacts, Counters DEF IsFinal, ReceiverState
  <2>5. Written' = Written + 1
    <3>1. rcv.file \in Seq(Block) /\ d.packet.data \in Block
      BY <1>1, <2>1, SourceFacts DEF ReceiverState
    <3> QED BY <1>3, <2>2, <3>1, AppendProperties DEF Written
  <2>6. rcv'.file = Source <=> Written + 1 = NumBlocks
    <3>1. Written' = NumBlocks => rcv'.file = Source
      BY SourceFacts, SubSeqFull DEF WrittenInOrder
    <3>2. rcv'.file = Source => Written' = NumBlocks  BY SourceFacts DEF Written
    <3> QED BY <2>5, <3>1, <3>2
  <2>7. rcv'.file = Source => rcv'.status # "receiving"
    BY <2>5, <2>6, Counters DEF IInv, StatusInv
  <2>8. rcv'.file # Source => rcv'.status = "receiving"
    BY <1>3, <2>4, <2>5, <2>6 DEF IInv, StatusInv
  <2>9. rcv'.status \in IF rcv'.file # Source THEN {"receiving"}
                        ELSE IF Server = "R" THEN {"ok"} ELSE {"ok", "failed"}
    BY <1>3, <2>7, <2>8
  <2>10. rcv'.file = Append(rcv.file, Source[Len(rcv.file) + 1])
    BY <1>3, <2>1, <2>2
  <2> QED BY <1>1, <2>3, <2>9, <2>10
          DEF Promise!Next, Promise!Write, Promise!Complete, Receiving
<1>4. CASE ReceiverAccepts
  <2>1. PICK d \in net :
          /\ d.packet.type = "DATA" /\ Expects(rcv, d.packet.block)
          /\ rcv' = AcceptBlock(rcv, d.packet.block, d.packet.data)
    BY <1>4 DEF ReceiverAccepts
  <2>2. /\ rcv'.file = Append(rcv.file, d.packet.data)
        /\ rcv'.status \in {"receiving", "ok"}
    BY <1>1, <2>1 DEF AcceptBlock, ReceiverState, Receiving
  <2> QED BY <1>3, <2>1, <2>2
<1>5. CASE ReceiverFinishFails
  <2>1. PICK d \in net :
          /\ d.packet.type = "DATA" /\ Expects(rcv, d.packet.block)
          /\ Server = "S" /\ IsFinal(rcv, d.packet.data)
          /\ rcv' = [AcceptBlock(rcv, d.packet.block, d.packet.data) EXCEPT !.status = "failed"]
    BY <1>5 DEF ReceiverFinishFails
  <2>2. rcv'.file = Append(rcv.file, d.packet.data) /\ rcv'.status = "failed"
    BY <1>1, <2>1 DEF AcceptBlock, ReceiverState
  <2> QED BY <1>3, <2>1, <2>2
<1>6. CASE \/ ReceiverRejects \/ ReceiverOther \/ ReceiverError
           \/ ReceiverTimeout \/ ReceiverWriteFails
  <2>1. rcv'.file = rcv.file /\ rcv'.status \in {"receiving", "failed"}
    BY <1>1, <1>6 DEF ReceiverRejects, RejectBlock, ReceiverOther, ReceiverError, ReceiverTimeout,
                      ReceiverReAcks, ReceiverGivesUp, ReceiverWriteFails, ReceiverState, Receiving
  <2> QED BY <1>2, <2>1
<1> QED BY <1>4, <1>5, <1>6 DEF ReceiverReceives

\* Every transfer keeps the promise: its packets, windows and timeouts do nothing
\* but write the source in order, and no end reports success before it is written.
THEOREM Implements == ASSUME WindowFits PROVE Spec => KeepsPromise
<1>1. Init => Promise!Init  BY PromiseInit
<1>2. ASSUME IInv, IInv', SuccessMeansWritten', WrittenInOrder', [Next]_vars
      PROVE  [Promise!Next]_(Promise!promised)
  <2>1. CASE SenderStart \/ SenderReceives \/ SenderTimeout \/ SenderReadFails
    BY <1>2, <2>1, SenderPromise
  <2>2. CASE \/ ReceiverReceives \/ ReceiverTimeout
             \/ ReceiverWriteFails \/ ReceiverFinishFails
    BY <1>2, <2>2, ReceiverPromise
  <2>3. CASE Lose \/ UNCHANGED vars
    BY <2>3 DEF Lose, vars, Promise!promised
  <2> QED BY <1>2, <2>1, <2>2, <2>3 DEF Next, Terminated
<1>3. Spec => []IInv /\ []SuccessMeansWritten /\ []WrittenInOrder
  BY Invariance, Success, InOrder, PTL
<1> QED BY <1>1, <1>2, <1>3, PTL DEF Spec, KeepsPromise, Promise!Spec

-----------------------------------------------------------------------------
(* A transfer survives as many misfortunes as it has retries.              *)

\* No I/O error happens, neither end has fewer retries than there are misfortunes,
\* the receiver does not wait for more blocks than the sender sends, and an ACK
\* outlives a window.
Forgiving ==
  /\ WindowFits
  /\ ~IoErrors
  /\ MaxFaults <= SRetries /\ MaxFaults <= RRetries
  /\ RWindow <= SWindow /\ RWindow <= MaxAge + 1

\* The counters of a state in which the receiver is at work.
LEMMA WorkingCounters ==
  ASSUME IInv, RobustInv, Receiving
  PROVE  /\ snd \in SenderState /\ rcv \in ReceiverState
         /\ snd.status = "sending"
         /\ Written \in Nat /\ Written < NumBlocks /\ NumBlocks \in Nat
         /\ rcv.blocks_in_window \in Nat /\ rcv.blocks_in_window < RWindow
         /\ RWindow \in Nat /\ rcv.window = RWindow
         /\ snd.attempt \in Nat /\ rcv.attempt \in Nat
         /\ SRetries \in Nat /\ RRetries \in Nat
         /\ faults \in Nat /\ MaxFaults \in Nat /\ faults <= MaxFaults
<1>1. snd \in SenderState /\ rcv \in ReceiverState /\ faults \in 0 .. MaxFaults
  BY DEF IInv, TypeOK
<1>2. Written < NumBlocks /\ rcv.blocks_in_window < RWindow
  BY DEF IInv, StatusInv, Receiving
<1>3. snd.status = "sending"  BY DEF RobustInv
<1> QED
  BY <1>1, <1>2, <1>3, Counters, TransferAssumption DEF SenderState, ReceiverState

\* A window that has just been sent is answered: at its first block if the receiver
\* has that one already, at its last if not.
LEMMA WindowIsAnswered ==
  ASSUME Forgiving, IInv, RobustInv, Receiving,
         NEW s \in SenderState, Aligned(s), s.in_flight # << >>, Acked(s) <= Written,
         Len(s.in_flight) = SWindow \/ s.read = NumBlocks
  PROVE  \E d \in Datagrams("R", SendWindow(s), Written) : Fresh(d) /\ Answerable(d)
<1> DEFINE L == Len(s.in_flight)
           i == IF Acked(s) < Written THEN 1 ELSE L
           p == DataPacket(s.in_flight[i].block, s.in_flight[i].data)
           d == [dst |-> "R", packet |-> p, stamp |-> Written]
<1>1. /\ L \in Nat \ {0} /\ Acked(s) \in Nat /\ Acked(s) + L = s.read
      /\ s.read <= NumBlocks /\ SWindow \in Nat /\ s.read \in Nat
  <2>1. /\ s.in_flight \in Seq(Entry) /\ L \in Nat /\ s.read \in 0 .. NumBlocks
        /\ Acked(s) \in Int /\ Acked(s) + L = s.read /\ SWindow \in Nat /\ NumBlocks \in Nat
    BY SenderCounters
  <2>2. L # 0  BY <2>1, EmptySeq
  <2>3. Acked(s) >= 0  BY DEF Aligned
  <2> HIDE DEF L
  <2> QED BY <2>1, <2>2, <2>3
<1>2. i \in 1 .. L  BY <1>1
<1>3. p.type = "DATA" /\ p.data = Source[Acked(s) + i]
  BY <1>2 DEF DataPacket, Aligned
<1>4. p.data.id = Acked(s) + i
  <2>1. i \in Nat \ {0} /\ i <= L  BY <1>1, <1>2
  <2> HIDE DEF i, L
  <2>2. Acked(s) + i \in 1 .. NumBlocks
    <3>1. NumBlocks \in Nat  BY WorkingCounters
    <3> QED BY ONLY <1>1, <2>1, <3>1
  <2> QED BY <1>3, <2>2, SourceFacts
<1>5. d \in Datagrams("R", SendWindow(s), Written)
  <2>1. p \in SendWindow(s)  BY <1>2 DEF SendWindow
  <2> HIDE DEF p
  <2> QED BY <2>1 DEF Datagrams
<1>6. Fresh(d)  BY WorkingCounters DEF Fresh
<1>7. \/ Acked(s) + i <= Written
      \/ Acked(s) + i = NumBlocks
      \/ rcv.blocks_in_window + (Acked(s) + i - Written) >= RWindow
  <2>1. CASE Acked(s) < Written
    <3>1. Acked(s) + 1 <= Written  BY <1>1, <2>1, WorkingCounters
    <3> QED BY <2>1, <3>1
  <2>2. CASE Acked(s) = Written
    <3>1. i = L  BY <1>1, <2>2, WorkingCounters
    <3>2. L = SWindow \/ Acked(s) + L = NumBlocks  BY <1>1
    <3> HIDE DEF L, i
    <3> QED BY <1>1, <2>2, <3>1, <3>2, WorkingCounters DEF Forgiving
  <2> QED BY <1>1, <2>1, <2>2, WorkingCounters
<1>8. Answerable(d)
  <2>1. d.packet = p  OBVIOUS
  <2> DEFINE id == d.packet.data.id
  <2>2. id = Acked(s) + i /\ d.packet.type = "DATA"  BY <1>3, <1>4, <2>1
  <2>3. id <= Written \/ id = NumBlocks \/ rcv.blocks_in_window + (id - Written) >= RWindow
    <3>1. i \in Nat  BY <1>1, <1>2
    <3> HIDE DEF id, d, p, i
    <3> QED BY <1>1, <1>7, <2>2, <3>1, WorkingCounters
  <2> QED BY <2>2, <2>3 DEF Answerable
<1> QED BY <1>5, <1>6, <1>8

\* Misfortunes are never taken back.
LEMMA FaultsGrow ==
  ASSUME faults \in Nat
  PROVE  /\ Fault => faults' = faults + 1
         /\ Deadline => (Quiet /\ faults' = faults) \/ faults' = faults + 1
         /\ \A d, end, rest : Arrives(d, end, rest) =>
              /\ d \in net /\ d.dst = end /\ rest \subseteq net /\ net \ {d} \subseteq rest
              /\ faults' = faults \/ (faults' = faults + 1 /\ rest = net)
BY DEF Fault, Deadline, Arrives

\* When nothing is on its way, a misfortune has not been paid for.
LEMMA QuietIsPaid ==
  ASSUME IInv, RobustInv, Receiving, Quiet
  PROVE  snd.attempt < faults /\ rcv.attempt < faults
<1>1. snd.status = "sending" /\ Started  BY WorkingCounters DEF Quiet
<1>2. ASSUME NEW d \in net  PROVE FALSE
  <2>1. d.dst \in {"S", "R"}  BY DEF IInv, TypeOK
  <2>2. Listens(d.dst)  BY <1>1, <2>1 DEF Listens
  <2> QED BY <2>2 DEF Quiet
<1>3. ~GoesOn  BY <1>1, <1>2 DEF GoesOn
<1> QED BY <1>3 DEF RobustInv

\* After a step in which the sender sends its window everything goes on.
LEMMA SendingIsRobust ==
  ASSUME Forgiving, IInv, RobustInv, Receiving, rcv' = rcv,
         snd' \in SenderState, Aligned(snd'), Acked(snd') <= Written,
         snd'.status = "sending", snd'.in_flight # << >>,
         Len(snd'.in_flight) = SWindow \/ snd'.read = NumBlocks,
         faults' \in Nat, faults <= faults', snd'.attempt <= faults',
         NEW rest, rest \subseteq net, Transmit(rest)
  PROVE  RobustInv'
<1>1. Written' = Written /\ Receiving'  BY DEF Written, Receiving
<1>2. net' = rest \cup Datagrams("R", SendWindow(snd'), Written)
  BY DEF Transmit
<1>3. \A d \in net' : d.packet.type # "ERROR"
  BY <1>2 DEF RobustInv, Datagrams, SendWindow, DataPacket
<1>4. rcv'.attempt <= faults'
  BY WorkingCounters DEF RobustInv
<1>5. GoesOn'
  <2>1. PICK d \in Datagrams("R", SendWindow(snd'), Written) : Fresh(d) /\ Answerable(d)
    BY WindowIsAnswered
  <2>2. d \in net' /\ Fresh(d)' /\ Answerable(d)'
    BY <1>1, <1>2, <2>1 DEF Fresh, Answerable
  <2> QED BY <2>2 DEF GoesOn
<1> QED BY <1>1, <1>3, <1>4, <1>5 DEF RobustInv, Receiving

\* The sender's steps.
LEMMA SenderRobust ==
  ASSUME Forgiving, IInv, RobustInv, Receiving, IInv',
         SenderStart \/ SenderReceives \/ SenderTimeout \/ SenderReadFails
  PROVE  RobustInv'
<1>1. /\ snd \in SenderState /\ Aligned(snd) /\ Len(snd.in_flight) <= SWindow
      /\ Acked(snd) <= Written /\ snd.status = "sending"
  BY WorkingCounters DEF IInv, TypeOK, ProgressInv
<1>2. snd.attempt <= faults /\ (Started => Len(snd.in_flight) = SWindow \/ snd.read = NumBlocks)
  BY DEF RobustInv
<1>3. ASSUME rcv' = rcv
      PROVE  /\ snd' \in SenderState /\ Aligned(snd') /\ Acked(snd') <= Written
             /\ snd'.status # "ok" /\ faults' \in Nat
  <2>1. Written' = Written  BY <1>3 DEF Written
  <2>2. snd' \in SenderState /\ faults' \in 0 .. MaxFaults /\ Aligned(snd)' /\ ProgressInv'
    BY DEF IInv, TypeOK
  <2>3. snd'.status = "ok" => Acked(snd') = NumBlocks  BY DEF IInv, StatusInv
  <2> QED BY <2>1, <2>2, <2>3, WorkingCounters DEF ProgressInv
<1>4. CASE SenderStart
  <2>1. snd' = NextRound(snd) /\ Transmit(net) /\ rcv' = rcv /\ faults' = faults
    BY <1>4 DEF SenderStart
  <2>2. /\ snd'.status \in {"sending", "ok"}
        /\ snd'.status = "sending" =>
             /\ snd'.in_flight # << >> /\ snd'.attempt = 0
             /\ Len(snd'.in_flight) = SWindow \/ snd'.read = NumBlocks
    BY <1>1, <2>1, NextRoundFacts
  <2> QED BY <1>3, <2>1, <2>2, SendingIsRobust, WorkingCounters
<1>5. CASE SenderAdvances
  <2>1. PICK d \in net : \E rest \in {net, net \ {d}} :
          /\ d.packet.type = "ACK"
          /\ Arrives(d, "S", rest)
          /\ snd' = NextRound(ConsumeAck(snd, d.packet.block))
          /\ Transmit(rest)
          /\ rcv' = rcv
    BY <1>5 DEF SenderAdvances
  <2>2. PICK rest \in {net, net \ {d}} : Arrives(d, "S", rest) /\ Transmit(rest)
    BY <2>1
  <2>3. /\ d.stamp \in Nat /\ d.stamp <= Written /\ Written - d.stamp <= MaxAge
        /\ d.packet.block = Number(d.stamp)
    BY <2>1 DEF IInv, TypeOK, DatagramInv
  <2> DEFINE t == ConsumeAck(snd, d.packet.block)
  <2>4. t \in SenderState /\ Aligned(t) /\ Len(t.in_flight) <= SWindow /\ t.status = "sending"
    BY <1>1, <2>3, Counters, ConsumeAckFacts DEF Forgiving
  <2>5. snd' = NextRound(t)  BY <2>1
  <2> HIDE DEF t
  <2>6. /\ snd'.status \in {"sending", "ok"}
        /\ snd'.status = "sending" =>
             /\ snd'.in_flight # << >> /\ snd'.attempt = 0
             /\ Len(snd'.in_flight) = SWindow \/ snd'.read = NumBlocks
    BY <2>4, <2>5, NextRoundFacts
  <2>7. faults <= faults' /\ rest \subseteq net  BY <2>2, FaultsGrow, WorkingCounters
  <2>8. snd'.attempt <= faults'  BY <1>3, <2>1, <2>6
  <2> QED BY <1>3, <2>1, <2>2, <2>6, <2>7, <2>8, SendingIsRobust
<1>6. CASE SenderStaleAck \/ SenderOther
  <2>1. PICK d \in net, rest \in SUBSET net :
          Started /\ Arrives(d, "S", rest) /\ snd' = snd /\ Transmit(rest) /\ rcv' = rcv
    BY <1>6 DEF SenderStaleAck, SenderOther, Sending
  <2>2. faults <= faults'  BY <2>1, FaultsGrow, WorkingCounters
  <2>3. snd'.attempt <= faults'  BY <1>2, <1>3, <2>1, <2>2, WorkingCounters
  <2>4. snd'.in_flight # << >>  BY <2>1 DEF Started
  <2> QED BY <1>1, <1>2, <1>3, <2>1, <2>2, <2>3, <2>4, SendingIsRobust
<1>7. CASE SenderError
  <2>1. \E d \in net : d.packet.type = "ERROR"  BY <1>7 DEF SenderError
  <2> QED BY <2>1 DEF RobustInv
<1>8. CASE SenderRetransmits
  <2>1. /\ snd' = [snd EXCEPT !.attempt = @ + 1] /\ Transmit(net) /\ rcv' = rcv
        /\ Deadline /\ Started
    BY <1>8 DEF SenderRetransmits, Sending
  <2>2. /\ snd'.attempt = snd.attempt + 1 /\ snd'.in_flight = snd.in_flight
        /\ snd'.read = snd.read /\ snd'.status = "sending"
    BY <1>1, <2>1 DEF SenderState
  <2>3. snd'.attempt <= faults' /\ faults <= faults'
    <3>1. CASE Quiet /\ faults' = faults
      BY <2>2, <3>1, QuietIsPaid, WorkingCounters
    <3>2. CASE faults' = faults + 1
      BY <1>2, <2>2, <3>2, WorkingCounters
    <3> QED BY <2>1, <3>1, <3>2, FaultsGrow, WorkingCounters
  <2>4. snd'.in_flight # << >>  BY <2>1, <2>2 DEF Started
  <2> QED BY <1>2, <1>3, <2>1, <2>2, <2>3, <2>4, SendingIsRobust
<1>9. CASE SenderGivesUp
  <2>1. snd.attempt >= SRetries /\ Deadline /\ rcv' = rcv
    BY <1>9 DEF SenderGivesUp
  <2>2. faults' \in 0 .. MaxFaults  BY DEF IInv, TypeOK
  <2>3. CASE Quiet
    BY <2>1, <2>3, QuietIsPaid, WorkingCounters DEF Forgiving
  <2>4. CASE faults' = faults + 1
    BY <1>2, <2>1, <2>2, <2>4, WorkingCounters DEF Forgiving
  <2> QED BY <2>1, <2>3, <2>4, FaultsGrow, WorkingCounters
<1>10. CASE SenderReadFails
  BY <1>10 DEF SenderReadFails, Forgiving
<1> QED BY <1>4, <1>5, <1>6, <1>7, <1>8, <1>9, <1>10 DEF SenderReceives, SenderTimeout

\* After a step in which the receiver acknowledges what it has everything goes on.
LEMMA AcknowledgingIsRobust ==
  ASSUME Forgiving, IInv, RobustInv, Receiving, snd' = snd,
         rcv'.status = "receiving", rcv'.blocks_in_window \in Nat, rcv'.attempt <= faults',
         faults' \in Nat, faults <= faults',
         NEW block, NEW ack, ack = [dst |-> "S", packet |-> AckPacket(block), stamp |-> Written'],
         Written' \in Nat,
         ack \in net', net' \subseteq net \cup {ack}
  PROVE  RobustInv'
<1>1. ack.packet.type = "ACK" /\ ack.dst = "S" /\ ack.stamp = Written'
  BY DEF AckPacket
<1>2. \A d \in net' : d.packet.type # "ERROR"
  BY <1>1 DEF RobustInv
<1>3. Fresh(ack)' /\ Answerable(ack)'
  BY <1>1 DEF Fresh, Answerable
<1>4. GoesOn'  BY <1>3 DEF GoesOn
<1>5. snd'.attempt <= faults'  BY WorkingCounters DEF RobustInv
<1>6. Started' = Started  BY DEF Started
<1> QED BY <1>2, <1>4, <1>5, <1>6 DEF RobustInv, Receiving

\* A block that the receiver takes without an answer does not end the exchange: what
\* will be answered is still on its way, and not too old.
LEMMA SilenceIsRobust ==
  ASSUME Forgiving, IInv, RobustInv, Receiving, snd' = snd,
         NEW d \in net, d.packet.type = "DATA", Expects(rcv, d.packet.block),
         ~AnswersAtOnce(rcv, d.packet.data),
         rcv' = AcceptBlock(rcv, d.packet.block, d.packet.data),
         faults' \in Nat,
         NEW rest, rest \subseteq net,
         \/ faults' = faults /\ net \ {d} \subseteq rest
         \/ faults' = faults + 1,
         net' = Aged(rest, Written + 1)
  PROVE  RobustInv'
<1>1. /\ Written + 1 \in 1 .. NumBlocks
      /\ d.packet.data = Source[Written + 1]
  BY ExpectedData DEF Forgiving
<1>2. /\ ~IsFinal(rcv, d.packet.data)
      /\ rcv.blocks_in_window + 1 < RWindow
  BY WorkingCounters DEF AnswersAtOnce, WindowFull
<1>3. /\ rcv'.status = "receiving" /\ rcv'.attempt = 0
      /\ rcv'.blocks_in_window = rcv.blocks_in_window + 1
      /\ rcv'.file = Append(rcv.file, d.packet.data)
  BY <1>2, WorkingCounters DEF AcceptBlock, AnswersAtOnce, ReceiverState, Receiving
<1>4. Written' = Written + 1
  <2>1. rcv.file \in Seq(Block) /\ d.packet.data \in Block
    BY <1>1, SourceFacts, WorkingCounters DEF ReceiverState
  <2> QED BY <1>3, <2>1, AppendProperties DEF Written
<1>5. d.packet.data.id = Written + 1 /\ d.packet.data.id # NumBlocks
  <2>1. d.packet.data.id = Written + 1  BY <1>1, SourceFacts
  <2>2. IsFinal(rcv, d.packet.data) <=> Written + 1 = NumBlocks
    BY <1>1, SourceFacts, Counters DEF IsFinal, ReceiverState
  <2> QED BY <1>2, <2>1, <2>2
<1>6. ~Answerable(d)
  <2>1. d.dst = "R"  BY DEF IInv, DatagramInv
  <2> QED BY <1>2, <1>5, <2>1, WorkingCounters DEF Answerable
<1>7. ASSUME NEW e \in net, e # d, Fresh(e), Answerable(e), net \ {d} \subseteq rest
      PROVE  e \in net' /\ Fresh(e)' /\ Answerable(e)'
  <2>1. e.stamp \in Nat /\ Written - e.stamp <= rcv.blocks_in_window
    BY <1>7 DEF IInv, TypeOK, Fresh
  <2>2. (Written + 1) - e.stamp <= MaxAge
    BY <1>2, <2>1, WorkingCounters, TransferAssumption DEF Forgiving
  <2>3. e \in net'  BY <1>7, <2>2 DEF Aged
  <2>4. Fresh(e)'
    <3>1. Written \in Nat /\ rcv.blocks_in_window \in Nat  BY WorkingCounters
    <3>2. (Written + 1) - e.stamp <= rcv.blocks_in_window + 1  BY ONLY <2>1, <3>1
    <3> QED BY <1>3, <1>4, <3>2 DEF Fresh
  <2>5. e.packet.type = "DATA" => e.packet.data.id \in Nat
    <3>1. e.packet \in Packet  BY DEF IInv, TypeOK
    <3> QED BY <3>1 DEF Packet, Block
  <2>6. Answerable(e)'
    <3> DEFINE id == e.packet.data.id
    <3>1. CASE e.dst = "S"  BY <3>1 DEF Answerable
    <3>2. CASE /\ e.packet.type = "DATA"
               /\ \/ id <= Written \/ id = NumBlocks
                  \/ rcv.blocks_in_window + (id - Written) >= RWindow
      <4>1. id \in Nat  BY <2>5, <3>2
      <4>2. \/ id <= Written + 1 \/ id = NumBlocks
            \/ (rcv.blocks_in_window + 1) + (id - (Written + 1)) >= RWindow
        <5> HIDE DEF id
        <5> QED BY <3>2, <4>1, WorkingCounters
      <4> QED BY <1>3, <1>4, <3>2, <4>2 DEF Answerable
    <3> QED BY <1>7, <3>1, <3>2 DEF Answerable
  <2> QED BY <2>3, <2>4, <2>6
<1>8. GoesOn' \/ (snd'.attempt < faults' /\ rcv'.attempt < faults')
  <2>1. CASE faults' = faults + 1
    <3>1. snd.attempt \in Nat /\ rcv.attempt \in Nat /\ faults \in Nat  BY WorkingCounters
    <3>2. snd.attempt <= faults  BY DEF RobustInv
    <3>3. snd.attempt < faults + 1 /\ 0 < faults + 1  BY ONLY <3>1, <3>2
    <3> QED BY <1>3, <2>1, <3>3
  <2>2. CASE net \ {d} \subseteq rest /\ faults' = faults
    <3>1. CASE ~Started
      BY <3>1 DEF GoesOn, Started
    <3>2. CASE \E e \in net : Fresh(e) /\ Answerable(e)
      BY <1>6, <1>7, <2>2, <3>2 DEF GoesOn
    <3>3. CASE snd.attempt < faults /\ rcv.attempt < faults
      BY <1>3, <2>2, <3>3, WorkingCounters
    <3> QED BY <3>1, <3>2, <3>3 DEF RobustInv, GoesOn
  <2> QED BY <2>1, <2>2
<1>9. \A e \in net' : e.packet.type # "ERROR"
  BY DEF RobustInv, Aged
<1>10. snd'.attempt <= faults' /\ rcv'.attempt <= faults'
  BY <1>3, WorkingCounters DEF RobustInv
<1>11. Started' = Started  BY DEF Started
<1> QED BY <1>3, <1>8, <1>9, <1>10, <1>11 DEF RobustInv, Receiving

\* The receiver's steps.
LEMMA ReceiverRobust ==
  ASSUME Forgiving, IInv, RobustInv, IInv',
         \/ ReceiverReceives \/ ReceiverTimeout
         \/ ReceiverWriteFails \/ ReceiverFinishFails
  PROVE  RobustInv'
<1>1. Receiving /\ snd' = snd
  BY DEF ReceiverReceives, ReceiverAccepts, ReceiverRejects, ReceiverOther, ReceiverError,
         ReceiverTimeout, ReceiverReAcks, ReceiverGivesUp, ReceiverWriteFails, ReceiverFinishFails
<1>2. /\ rcv \in ReceiverState /\ faults \in Nat /\ rcv.attempt <= faults
      /\ rcv' \in ReceiverState /\ faults' \in 0 .. MaxFaults /\ faults' \in Nat
      /\ Written' \in Nat
  <2>1. rcv' \in ReceiverState /\ faults' \in 0 .. MaxFaults  BY DEF IInv, TypeOK
  <2>2. rcv'.file \in Seq(Block)  BY <2>1 DEF ReceiverState
  <2>3. Written' \in Nat  BY <2>2, LenProperties DEF Written
  <2> QED BY <1>1, <2>1, <2>3, WorkingCounters DEF RobustInv
<1>3. rcv'.blocks_in_window \in Nat  BY <1>2, TransferAssumption DEF ReceiverState
<1>4. ASSUME rcv'.status = "ok"  PROVE RobustInv'
  BY <1>4 DEF RobustInv, Receiving
<1>5. CASE ReceiverAccepts
  <2>1. PICK d \in net, rest \in SUBSET net :
          /\ d.packet.type = "DATA"
          /\ Expects(rcv, d.packet.block)
          /\ Arrives(d, "R", rest)
          /\ rcv' = AcceptBlock(rcv, d.packet.block, d.packet.data)
          /\ LET acks == IF AnswersAtOnce(rcv, d.packet.data)
                         THEN {AckPacket(d.packet.block)} ELSE {}
             IN  net' = Aged(rest \cup Datagrams("S", acks, Written + 1), Written + 1)
    BY <1>5 DEF ReceiverAccepts
  <2>2. /\ net \ {d} \subseteq rest
        /\ faults' = faults \/ faults' = faults + 1
    BY <1>2, <2>1, FaultsGrow
  <2>3. /\ rcv'.file = Append(rcv.file, d.packet.data) /\ rcv'.attempt = 0
        /\ rcv'.status = IF IsFinal(rcv, d.packet.data) THEN "ok" ELSE "receiving"
    BY <1>1, <1>2, <2>1 DEF AcceptBlock, ReceiverState, Receiving
  <2>4. Written' = Written + 1
    <3>1. d.packet.data = Source[Written + 1] /\ Written + 1 \in 1 .. NumBlocks
      BY <1>1, <2>1, ExpectedData DEF Forgiving
    <3>2. rcv.file \in Seq(Block) /\ d.packet.data \in Block
      BY <1>2, <3>1, SourceFacts DEF ReceiverState
    <3> QED BY <2>3, <3>2, AppendProperties DEF Written
  <2>5. CASE IsFinal(rcv, d.packet.data)
    BY <1>4, <2>3, <2>5
  <2>6. CASE ~IsFinal(rcv, d.packet.data) /\ AnswersAtOnce(rcv, d.packet.data)
    <3> DEFINE ack == [dst |-> "S", packet |-> AckPacket(d.packet.block), stamp |-> Written']
    <3>1. net' = Aged(rest \cup {ack}, Written')
      BY <2>1, <2>4, <2>6 DEF Datagrams
    <3>2. ack \in net' /\ net' \subseteq net \cup {ack}
      BY <1>2, <3>1, TransferAssumption DEF Aged
    <3>3. rcv'.attempt <= faults' /\ faults <= faults'
      BY <1>2, <2>2, <2>3
    <3> HIDE DEF ack
    <3>4. ack = [dst |-> "S", packet |-> AckPacket(d.packet.block), stamp |-> Written']
      BY DEF ack
    <3> QED BY <1>1, <1>2, <1>3, <2>3, <2>6, <3>2, <3>3, <3>4, AcknowledgingIsRobust
  <2>7. CASE ~AnswersAtOnce(rcv, d.packet.data)
    <3>1. net' = Aged(rest, Written + 1)
      BY <2>1, <2>7 DEF Datagrams
    <3> QED BY <1>1, <1>2, <2>1, <2>2, <2>7, <3>1, SilenceIsRobust
  <2> QED BY <2>5, <2>6, <2>7
<1>6. ASSUME rcv'.file = rcv.file, rcv'.status = "receiving",
             rcv'.attempt <= faults', faults <= faults',
             NEW rest, rest \subseteq net,
             net' = rest \cup Datagrams("S", {AckPacket(rcv.last_acked)}, Written)
      PROVE  RobustInv'
  <2> DEFINE ack == [dst |-> "S", packet |-> AckPacket(rcv.last_acked), stamp |-> Written']
  <2>1. Written' = Written  BY <1>6 DEF Written
  <2>2. ack \in net' /\ net' \subseteq net \cup {ack}
    BY <1>6, <2>1 DEF Datagrams
  <2> HIDE DEF ack
  <2>3. ack = [dst |-> "S", packet |-> AckPacket(rcv.last_acked), stamp |-> Written']
    BY DEF ack
  <2> QED BY <1>1, <1>2, <1>3, <1>6, <2>2, <2>3, AcknowledgingIsRobust
<1>7. CASE ReceiverRejects
  <2>1. PICK d \in net, rest \in SUBSET net :
          /\ Arrives(d, "R", rest) /\ rcv' = RejectBlock(rcv)
          /\ net' = rest \cup Datagrams("S", {AckPacket(rcv.last_acked)}, Written)
    BY <1>7 DEF ReceiverRejects
  <2>2. rcv'.file = rcv.file /\ rcv'.status = "receiving" /\ rcv'.attempt = 0
    BY <1>1, <1>2, <2>1 DEF RejectBlock, ReceiverState, Receiving
  <2>3. faults <= faults'  BY <1>2, <2>1, FaultsGrow
  <2> QED BY <1>2, <1>6, <2>1, <2>2, <2>3
<1>8. CASE ReceiverOther
  <2>1. PICK d \in net, rest \in SUBSET net :
          /\ d.packet.type \notin {"DATA", "ERROR"}
          /\ Arrives(d, "R", rest) /\ net' = rest /\ rcv' = rcv
    BY <1>8 DEF ReceiverOther
  <2>2. /\ d.dst = "R" /\ net \ {d} \subseteq rest
        /\ faults' = faults \/ (faults' = faults + 1 /\ rest = net)
    BY <1>2, <2>1, FaultsGrow
  <2>3. ~Answerable(d)  BY <2>1, <2>2 DEF Answerable
  <2>4. Written' = Written /\ Started' = Started  BY <1>1, <2>1 DEF Written, Started
  <2>5. \A e \in net : Fresh(e) /\ Answerable(e) => e \in net' /\ Fresh(e)' /\ Answerable(e)'
    BY <2>1, <2>2, <2>3, <2>4 DEF Fresh, Answerable
  <2>6. GoesOn => GoesOn'  BY <2>4, <2>5 DEF GoesOn
  <2>7. faults <= faults'  BY <1>2, <2>2
  <2>8. /\ snd.attempt \in Nat /\ rcv.attempt \in Nat /\ snd.attempt <= faults
        /\ GoesOn \/ (snd.attempt < faults /\ rcv.attempt < faults)
    BY <1>1, WorkingCounters DEF RobustInv
  <2>9. /\ snd.attempt <= faults' /\ rcv.attempt <= faults'
        /\ GoesOn' \/ (snd.attempt < faults' /\ rcv.attempt < faults')
    BY <1>2, <2>6, <2>7, <2>8
  <2>10. \A e \in net' : e.packet.type # "ERROR"
    BY <1>1, <2>1 DEF RobustInv
  <2> QED BY <1>1, <2>1, <2>4, <2>9, <2>10 DEF RobustInv, Receiving
<1>9. CASE ReceiverError
  BY <1>1, <1>9 DEF ReceiverError, RobustInv
<1>10. CASE ReceiverReAcks
  <2>1. /\ Deadline /\ rcv' = [rcv EXCEPT !.attempt = @ + 1]
        /\ net' = net \cup Datagrams("S", {AckPacket(rcv.last_acked)}, Written)
    BY <1>10 DEF ReceiverReAcks
  <2>2. rcv'.file = rcv.file /\ rcv'.status = "receiving" /\ rcv'.attempt = rcv.attempt + 1
    BY <1>1, <1>2, <2>1 DEF ReceiverState, Receiving
  <2>3. rcv'.attempt <= faults' /\ faults <= faults'
    <3>1. CASE Quiet /\ faults' = faults
      BY <1>1, <2>2, <3>1, QuietIsPaid, WorkingCounters
    <3>2. CASE faults' = faults + 1
      BY <1>1, <1>2, <2>2, <3>2, WorkingCounters
    <3> QED BY <1>2, <2>1, <3>1, <3>2, FaultsGrow
  <2> QED BY <1>6, <2>1, <2>2, <2>3
<1>11. CASE ReceiverGivesUp
  <2>1. rcv.attempt >= RRetries /\ Deadline
    BY <1>11 DEF ReceiverGivesUp
  <2>2. CASE Quiet
    BY <1>1, <2>1, <2>2, QuietIsPaid, WorkingCounters DEF Forgiving
  <2>3. CASE faults' = faults + 1
    BY <1>1, <1>2, <2>1, <2>3, WorkingCounters DEF Forgiving
  <2> QED BY <1>2, <2>1, <2>2, <2>3, FaultsGrow
<1>12. CASE ReceiverWriteFails \/ ReceiverFinishFails
  BY <1>12 DEF ReceiverWriteFails, ReceiverFinishFails, Forgiving
<1> QED BY <1>5, <1>7, <1>8, <1>9, <1>10, <1>11, <1>12 DEF ReceiverReceives, ReceiverTimeout

\* When the receiver has returned, only it can undo what it has returned.
LEMMA ReturnedIsRobust ==
  ASSUME RobustInv, ~Receiving, rcv' = rcv
  PROVE  RobustInv'
BY DEF RobustInv, Receiving

LEMMA RobustInit == ASSUME Init PROVE RobustInv
<1>1. /\ snd.status = "sending" /\ snd.in_flight = << >> /\ snd.attempt = 0
      /\ rcv.status = "receiving" /\ rcv.attempt = 0 /\ faults = 0
  BY DEF Init, NewSender, NewReceiver
<1>2. \A d \in net : d.packet.type # "ERROR"
  BY DEF Init, Leftovers, Datagrams, OackPacket, AckPacket
<1> QED BY <1>1, <1>2 DEF RobustInv, GoesOn, Started

LEMMA RobustNext ==
  ASSUME Forgiving, IInv, RobustInv, IInv', [Next]_vars
  PROVE  RobustInv'
<1>1. CASE SenderStart \/ SenderReceives \/ SenderTimeout \/ SenderReadFails
  <2>1. CASE Receiving  BY <1>1, <2>1, SenderRobust
  <2>2. CASE ~Receiving
    <3>1. rcv' = rcv
      BY <1>1 DEF SenderStart, SenderReceives, SenderAdvances, SenderStaleAck, SenderOther,
                  SenderError, SenderTimeout, SenderRetransmits, SenderGivesUp, SenderReadFails
    <3> QED BY <2>2, <3>1, ReturnedIsRobust
  <2> QED BY <2>1, <2>2
<1>2. CASE \/ ReceiverReceives \/ ReceiverTimeout
           \/ ReceiverWriteFails \/ ReceiverFinishFails
  BY <1>2, ReceiverRobust
<1>3. CASE Lose
  <2>1. snd' = snd /\ rcv' = rcv /\ net' \subseteq net /\ Fault
    BY <1>3 DEF Lose
  <2>2. CASE ~Receiving  BY <2>1, <2>2, ReturnedIsRobust
  <2>3. CASE Receiving
    <3>1. faults' = faults + 1  BY <2>1, <2>3, FaultsGrow, WorkingCounters
    <3>2. snd'.attempt < faults' /\ rcv'.attempt < faults'
      BY <2>1, <2>3, <3>1, WorkingCounters DEF RobustInv
    <3>3. snd'.attempt <= faults' /\ rcv'.attempt <= faults'
      BY <2>1, <2>3, <3>1, WorkingCounters DEF RobustInv
    <3> QED BY <2>1, <2>3, <3>2, <3>3 DEF RobustInv, Receiving, Started
  <2> QED BY <2>2, <2>3
<1>4. CASE UNCHANGED vars
  BY <1>4 DEF vars, RobustInv, Receiving, Started, GoesOn, Fresh, Answerable, Written
<1> QED BY <1>1, <1>2, <1>3, <1>4 DEF Next, Terminated

\* While the receiver is at work a deadline by rights is paid for by a misfortune.
THEOREM RobustInvariance == ASSUME Forgiving PROVE Spec => []RobustInv
<1>1. Init => RobustInv  BY RobustInit
<1>2. IInv /\ IInv' /\ RobustInv /\ [Next]_vars => RobustInv'  BY RobustNext
<1>3. Spec => []IInv  BY Invariance DEF Forgiving
<1> QED BY <1>1, <1>2, <1>3, PTL DEF Spec

\* No transfer fails before the file is complete unless there have been more
\* misfortunes than one of its ends has retries.
THEOREM Robustness == ASSUME Forgiving PROVE Spec => []Robust
<1>1. ASSUME IInv, RobustInv  PROVE Robust
  <2>1. rcv.status \in {"receiving", "ok", "failed"}  BY <1>1 DEF IInv, TypeOK, ReceiverState
  <2> QED BY <1>1, <2>1 DEF RobustInv, Robust, Receiving
<1>2. IInv /\ RobustInv => Robust  BY <1>1
<1>3. Spec => []IInv  BY Invariance DEF Forgiving
<1> QED BY <1>2, <1>3, RobustInvariance, PTL
=============================================================================
