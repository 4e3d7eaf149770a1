---------------------------- MODULE SessionProofs ----------------------------
(***************************************************************************)
(* Facts about the two ends of a transfer, which the proofs about uploads  *)
(* and downloads share: what a sender of a given source and a receiver     *)
(* look like however often the block numbers wrap, and what their          *)
(* operations keep of it.                                                  *)
(***************************************************************************)
EXTENDS Session, BlockNumbersProofs, NegotiationProofs, SequenceTheorems, FiniteSetTheorems

Stretch == [at : Nat, len : Nat]

Entry == [block : BlockNumber, data : Stretch]

Number(n) == n % Modulus

Senders ==
  [source : Seq(Stretch), window : Nat, read : Nat, in_flight : Seq(Entry),
   next_block : BlockNumber, attempt : Nat, status : {"sending", "ok", "failed"}]

Receivers ==
  [window : Nat, blksize : Nat, next_block : BlockNumber, last_acked : BlockNumber,
   attempt : Nat, file : Seq(Stretch), status : {"receiving", "ok", "failed"},
   blocks_in_window : Nat]

\* s is a sender of source, and its queue holds the stretch of it that ends with
\* the last block read, under the right numbers.
Sends(s, source, window) ==
  /\ s \in Senders
  /\ s.source = source /\ s.window = window
  /\ s.read <= Len(source)
  /\ Len(s.in_flight) <= s.read
  /\ Len(s.in_flight) <= window
  /\ \A i \in 1 .. Len(s.in_flight) :
       /\ s.in_flight[i].block = Number(Acked(s) + i)
       /\ s.in_flight[i].data = source[Acked(s) + i]
  /\ s.next_block = Number(s.read + 1)

\* r is a receiver that counts the blocks of its file.
Receives(r, window, blksize) ==
  /\ r \in Receivers
  /\ r.window = window /\ r.blksize = blksize
  /\ r.last_acked = Number(Len(r.file))
  /\ r.next_block = Number(Len(r.file) + 1)

-----------------------------------------------------------------------------
(* The file, cut into blocks.                                              *)

\* Every block is full but the last, which is short.
LEMMA CutFacts ==
  ASSUME NEW b \in Nat \ {0}
  PROVE  /\ Cut(b) \in Seq(Stretch)
         /\ Len(Cut(b)) \in Nat \ {0}
         /\ Len(Cut(b)) = FileLen \div b + 1
         /\ \A i \in 1 .. Len(Cut(b)) : Cut(b)[i].len < b <=> i = Len(Cut(b))
<1> DEFINE full == FileLen \div b
           short == FileLen % b
           block(i) == [at |-> (i - 1) * b, len |-> IF i <= full THEN b ELSE short]
<1>1. full \in Nat /\ short \in Nat /\ short < b
  BY SessionAssumption
<1>2. Cut(b) = [i \in 1 .. full + 1 |-> block(i)]
  BY DEF Cut
<1>3. ASSUME NEW i \in 1 .. full + 1
      PROVE  block(i) \in Stretch /\ (block(i).len < b <=> i = full + 1)
  <2> HIDE DEF full, short
  <2>1. i - 1 \in Nat /\ (i <= full <=> i # full + 1)
    BY <1>1
  <2>2. (i - 1) * b \in Nat
    BY <2>1
  <2> QED
    BY <1>1, <2>1, <2>2 DEF Stretch
<1> HIDE DEF full, short, block
<1>4. Cut(b) \in [1 .. full + 1 -> Stretch]
  BY <1>2, <1>3
<1>5. full + 1 \in Nat
  BY <1>1
<1>6. Cut(b) \in Seq(Stretch)
  BY <1>4, <1>5, SeqDef
<1>7. Len(Cut(b)) = full + 1
  BY <1>4, <1>5, <1>6, LenProperties
<1>8. \A i \in 1 .. full + 1 : Cut(b)[i] = block(i)
  BY <1>2
<1> QED
  BY <1>1, <1>3, <1>6, <1>7, <1>8 DEF full

\* Each block begins where the one before it ends, and the last ends with the file.
LEMMA CutPlaces ==
  ASSUME NEW b \in Nat \ {0}
  PROVE  /\ Cut(b)[1].at = 0
         /\ \A i \in 1 .. Len(Cut(b)) :
              /\ Cut(b)[i].at + Cut(b)[i].len <= FileLen
              /\ i < Len(Cut(b)) => Cut(b)[i].at + Cut(b)[i].len = Cut(b)[i + 1].at
              /\ i = Len(Cut(b)) => Cut(b)[i].at + Cut(b)[i].len = FileLen
<1> DEFINE full == FileLen \div b
           short == FileLen % b
           block(i) == [at |-> (i - 1) * b, len |-> IF i <= full THEN b ELSE short]
<1>1. full \in Nat /\ short \in Nat /\ short < b /\ FileLen = full * b + short
  BY SessionAssumption
<1>2. Cut(b) = [i \in 1 .. full + 1 |-> block(i)]
  BY DEF Cut
<1>3. Len(Cut(b)) = full + 1
  BY CutFacts
<1> HIDE DEF full, short
<1>4. \A i \in 1 .. full + 1 : Cut(b)[i] = block(i)
  BY <1>2
<1>5. Cut(b)[1].at = 0
  <2>1. 1 \in 1 .. full + 1 /\ (1 - 1) * b = 0
    BY <1>1
  <2>2. Cut(b)[1] = block(1)
    BY <1>4, <2>1
  <2>3. Cut(b)[1].at = (1 - 1) * b
    BY <2>2
  <2> QED
    BY <2>1, <2>3
<1>6. ASSUME NEW i \in 1 .. full
      PROVE  /\ Cut(b)[i].at + Cut(b)[i].len <= FileLen
             /\ Cut(b)[i].at + Cut(b)[i].len = Cut(b)[i + 1].at
  <2>1. i + 1 \in 1 .. full + 1 /\ i \in 1 .. full + 1 /\ i <= full
    BY <1>1
  <2>2. Cut(b)[i].at = (i - 1) * b /\ Cut(b)[i].len = b /\ Cut(b)[i + 1].at = (i + 1 - 1) * b
    <3>1. Cut(b)[i] = block(i) /\ Cut(b)[i + 1] = block(i + 1)
      BY <1>4, <2>1
    <3> QED
      BY <2>1, <3>1
  <2>3. (i - 1) * b + b = i * b /\ i + 1 - 1 = i
    OBVIOUS
  <2>4. PICK k \in Nat : full = i + k
    BY <1>1, <2>1
  <2>5. full * b = i * b + k * b /\ k * b \in Nat /\ i * b \in Nat
    BY <2>4
  <2> QED
    BY <1>1, <2>2, <2>3, <2>5
<1>7. Cut(b)[full + 1].at + Cut(b)[full + 1].len = FileLen
  <2>1. Cut(b)[full + 1] = block(full + 1)
    BY <1>1, <1>4
  <2>2. Cut(b)[full + 1].at = full * b /\ Cut(b)[full + 1].len = short
    BY <1>1, <2>1
  <2> QED
    BY <1>1, <2>2
<1> QED
  <2>1. SUFFICES ASSUME NEW i \in 1 .. Len(Cut(b))
                 PROVE  /\ Cut(b)[i].at + Cut(b)[i].len <= FileLen
                        /\ i < Len(Cut(b)) => Cut(b)[i].at + Cut(b)[i].len = Cut(b)[i + 1].at
                        /\ i = Len(Cut(b)) => Cut(b)[i].at + Cut(b)[i].len = FileLen
    BY <1>5
  <2>2. CASE i = full + 1
    BY <1>1, <1>3, <1>7, <2>2, SessionAssumption
  <2>3. CASE i # full + 1
    <3>1. i \in 1 .. full
      BY <1>1, <1>3, <2>3
    <3> QED
      BY <1>1, <1>3, <1>6, <3>1
  <2> QED
    BY <2>2, <2>3

-----------------------------------------------------------------------------
(* The sender.                                                             *)

\* The counters of a sender are numbers.
LEMMA SendsCounters ==
  ASSUME NEW source \in Seq(Stretch), NEW window, NEW s, Sends(s, source, window)
  PROVE  /\ s.in_flight \in Seq(Entry) /\ Len(s.in_flight) \in Nat
         /\ s.read \in Nat /\ Len(source) \in Nat /\ window \in Nat
         /\ Acked(s) \in Nat /\ Acked(s) + Len(s.in_flight) = s.read
<1>1. s.in_flight \in Seq(Entry) /\ s.read \in Nat /\ s.window \in Nat
  BY DEF Sends, Senders
<1>2. Len(s.in_flight) \in Nat /\ Len(source) \in Nat
  BY <1>1, LenProperties
<1> QED
  BY <1>1, <1>2 DEF Sends, Acked

\* A new sender sends its source from the beginning.
LEMMA NewSenderSends ==
  ASSUME NEW source \in Seq(Stretch), NEW window \in Nat, NEW s, s = NewSender(source, window)
  PROVE  Sends(s, source, window) /\ Acked(s) = 0 /\ s.status = "sending" /\ s.attempt = 0
<1>1. << >> \in Seq(Entry) /\ Len(<< >>) = 0
  BY EmptySeq
<1>2. 1 \in BlockNumber /\ Number(1) = 1
  BY ModulusAssumption, SmallResidue DEF BlockNumber, Number
<1>3. s \in Senders
  BY <1>1, <1>2 DEF NewSender, Senders
<1>4. /\ s.in_flight = << >> /\ s.read = 0 /\ s.next_block = 1
      /\ s.source = source /\ s.window = window
      /\ s.status = "sending" /\ s.attempt = 0
  BY DEF NewSender
<1>5. Len(source) \in Nat
  BY LenProperties
<1>6. Acked(s) = 0 /\ 1 .. Len(s.in_flight) = {} /\ s.next_block = Number(s.read + 1)
  <2>1. Len(s.in_flight) = 0 /\ s.read = 0 /\ s.read + 1 = 1
    BY <1>1, <1>4
  <2>2. Acked(s) = 0
    BY ONLY <2>1 DEF Acked
  <2>3. 1 .. Len(s.in_flight) = {}
    BY <2>1
  <2> QED
    BY <1>2, <1>4, <2>1, <2>2, <2>3
<1>7. s.read <= Len(source) /\ Len(s.in_flight) <= s.read /\ Len(s.in_flight) <= window
  BY <1>1, <1>4, <1>5
<1> QED
  BY <1>3, <1>4, <1>6, <1>7 DEF Sends

\* Attempts and status are no part of what a sender sends.
LEMMA SameQueueSends ==
  ASSUME NEW source, NEW window, NEW s, Sends(s, source, window),
         NEW t \in Senders, t.source = s.source, t.window = s.window, t.read = s.read,
         t.in_flight = s.in_flight, t.next_block = s.next_block
  PROVE  Sends(t, source, window) /\ Acked(t) = Acked(s)
<1>1. Acked(t) = Acked(s)
  BY DEF Acked
<1> QED
  BY <1>1 DEF Sends

\* Refilling reads on where the window ends, and leaves it empty only when the
\* source is exhausted.
LEMMA FillWindowSends ==
  ASSUME NEW source \in Seq(Stretch), NEW window \in Nat \ {0},
         NEW s, Sends(s, source, window), NEW t, t = FillWindow(s)
  PROVE  /\ Sends(t, source, window) /\ Acked(t) = Acked(s)
         /\ t.in_flight = << >> => t.read = Len(source)
         /\ Len(t.in_flight) = window \/ t.read = Len(source)
         /\ t.status = s.status /\ t.attempt = s.attempt
<1> DEFINE n   == Room(s)
           L   == Len(s.in_flight)
           new == [i \in 1 .. n |-> [block |-> WrappingAdd(s.next_block, i - 1),
                                     data  |-> s.source[s.read + i]]]
<1>0. /\ s.in_flight \in Seq(Entry) /\ L \in Nat /\ s.read \in Nat /\ Len(source) \in Nat
      /\ Acked(s) \in Nat /\ Acked(s) + L = s.read
      /\ L <= window /\ s.read <= Len(source) /\ s.source = source /\ s.window = window
      /\ s.next_block = Number(s.read + 1)
  BY SendsCounters DEF Sends
<1> HIDE DEF L
<1>1. /\ n \in Nat /\ n <= window - L /\ n <= Len(source) - s.read
      /\ n = window - L \/ n = Len(source) - s.read
  <2> DEFINE free == window - L
             left == Len(source) - s.read
  <2>1. free \in Nat /\ left \in Nat
    BY <1>0
  <2>2. n = IF free < left THEN free ELSE left
    BY <1>0 DEF Room, L
  <2> HIDE DEF n, free, left
  <2>3. n \in Nat /\ n <= free /\ n <= left /\ (n = free \/ n = left)
    BY ONLY <2>1, <2>2
  <2> QED
    BY ONLY <2>3 DEF free, left
<1> HIDE DEF n
<1>2. \A i \in 1 .. n : /\ new[i] \in Entry
                        /\ new[i].block = Number(s.read + i)
                        /\ new[i].data = source[s.read + i]
  <2> TAKE i \in 1 .. n
  <2>1. s.read + 1 \in Int /\ i - 1 \in Int /\ s.read + i \in 1 .. Len(source)
    BY <1>0, <1>1
  <2>2. WrappingAdd((s.read + 1) % Modulus, i - 1) = ((s.read + 1) + (i - 1)) % Modulus
    BY ONLY <2>1, AddResidue
  <2>3. (s.read + 1) + (i - 1) = s.read + i
    BY <1>0
  <2>4. WrappingAdd(s.next_block, i - 1) = Number(s.read + i)
    BY <1>0, <2>2, <2>3 DEF Number
  <2>5. Number(s.read + i) \in BlockNumber
    BY <2>1, ResidueInRange DEF Number
  <2>6. source[s.read + i] \in Stretch
    BY <2>1, ElementOfSeq
  <2> QED
    BY <1>0, <2>4, <2>5, <2>6 DEF Entry
<1>3. new \in Seq(Entry) /\ Len(new) = n
  <2>1. new \in [1 .. n -> Entry]
    BY <1>2
  <2>2. new \in Seq(Entry)
    BY <1>1, <2>1, SeqDef
  <2> QED
    BY <1>1, <2>1, <2>2, LenProperties
<1>4. t = [s EXCEPT !.in_flight = @ \o new, !.next_block = WrappingAdd(@, n), !.read = @ + n]
  BY DEF FillWindow, n
<1> HIDE DEF new
<1>5. /\ t.in_flight = s.in_flight \o new
      /\ t.next_block = WrappingAdd(s.next_block, n)
      /\ t.read = s.read + n
      /\ t.status = s.status /\ t.source = source /\ t.window = window
      /\ t.attempt = s.attempt
  BY <1>0, <1>4 DEF Sends, Senders
<1>6. /\ t.in_flight \in Seq(Entry)
      /\ Len(t.in_flight) = L + n
      /\ \A i \in 1 .. L + n :
           t.in_flight[i] = IF i <= L THEN s.in_flight[i] ELSE new[i - L]
  <2>1. s.in_flight \in Seq(Entry) /\ new \in Seq(Entry) /\ Len(new) = n
    BY <1>0, <1>3
  <2>2. /\ s.in_flight \o new \in Seq(Entry)
        /\ Len(s.in_flight \o new) = Len(s.in_flight) + n
        /\ \A i \in 1 .. Len(s.in_flight) + n :
             (s.in_flight \o new)[i] = IF i <= Len(s.in_flight) THEN s.in_flight[i]
                                                               ELSE new[i - Len(s.in_flight)]
    BY ONLY <2>1, ConcatProperties
  <2> QED
    BY <1>5, <2>2 DEF L
<1>7. t.next_block = Number(t.read + 1)
  <2>1. s.read + 1 \in Int /\ n \in Int
    BY <1>0, <1>1
  <2>2. WrappingAdd((s.read + 1) % Modulus, n) = ((s.read + 1) + n) % Modulus
    BY ONLY <2>1, AddResidue
  <2>3. (s.read + 1) + n = t.read + 1
    BY <1>0, <1>1, <1>5
  <2> QED
    BY <1>0, <1>5, <2>2, <2>3 DEF Number
<1>8. t.read \in Nat /\ t.read <= Len(source) /\ L + n <= t.read /\ L + n <= window
  <2> DEFINE total == Len(source)
             a == Acked(s)
             read == s.read
  <2>1. /\ L \in Nat /\ read \in Nat /\ total \in Nat /\ a \in Nat /\ a + L = read
        /\ n \in Nat /\ n <= window - L /\ n <= total - read /\ t.read = read + n
    BY <1>0, <1>1, <1>5
  <2> HIDE DEF total, a, read
  <2>2. t.read \in Nat /\ t.read <= total /\ L + n <= t.read /\ L + n <= window
    BY <2>1
  <2> QED
    BY <2>2 DEF total
<1>9. t.next_block \in BlockNumber
  BY <1>7, <1>8, ResidueInRange DEF Number
<1>10. t \in Senders
  BY <1>4, <1>5, <1>6, <1>8, <1>9 DEF Sends, Senders
<1>11. Acked(t) = Acked(s)
  <2>1. s.read \in Nat /\ n \in Nat /\ L \in Nat /\ Acked(s) = s.read - L
    BY <1>0, <1>1 DEF Acked, L
  <2>2. t.read = s.read + n /\ Len(t.in_flight) = L + n
    BY <1>5, <1>6
  <2> QED
    BY ONLY <2>1, <2>2 DEF Acked
<1>12. ASSUME NEW i \in 1 .. Len(t.in_flight)
       PROVE  /\ t.in_flight[i].block = Number(Acked(t) + i)
              /\ t.in_flight[i].data = source[Acked(t) + i]
  <2>1. i \in 1 .. L + n
    BY <1>6
  <2>2. CASE i <= L
    <3>1. i \in 1 .. L /\ t.in_flight[i] = s.in_flight[i]
      BY <1>0, <1>1, <1>6, <2>1, <2>2
    <3> QED
      BY <1>11, <3>1 DEF Sends, L
  <2>3. CASE ~(i <= L)
    <3>0. i - L \in 1 .. n
      BY <1>0, <1>1, <2>1, <2>3
    <3>1. i - L \in 1 .. n /\ t.in_flight[i] = new[i - L]
      BY <1>6, <2>1, <2>3, <3>0
    <3>2. s.read + (i - L) = Acked(t) + i
      BY <1>0, <1>11, <2>1
    <3> QED
      BY <1>2, <3>1, <3>2
  <2> QED
    BY <2>2, <2>3
<1>13. t.in_flight = << >> => t.read = Len(source)
  <2>1. t.in_flight = << >> => L + n = 0
    BY <1>6, EmptySeq
  <2>2. L + n = 0 => n = Len(source) - s.read
    BY <1>0, <1>1
  <2> QED
    BY <1>0, <1>1, <1>5, <2>1, <2>2
<1>14. Len(t.in_flight) = window \/ t.read = Len(source)
  <2> DEFINE total == Len(source)
             read == s.read
  <2>1. /\ L \in Nat /\ read \in Nat /\ total \in Nat /\ n \in Nat /\ window \in Nat
        /\ n = window - L \/ n = total - read
        /\ t.read = read + n
    BY <1>0, <1>1, <1>5
  <2> HIDE DEF total, read
  <2>2. L + n = window \/ t.read = total
    BY ONLY <2>1
  <2> QED
    BY <1>6, <2>2 DEF total
<1> QED
  BY <1>5, <1>6, <1>7, <1>8, <1>10, <1>11, <1>12, <1>13, <1>14 DEF Sends

\* A new round refills the window, or returns when the source is exhausted and
\* everything is acknowledged.
LEMMA NextRoundSends ==
  ASSUME NEW source \in Seq(Stretch), NEW window \in Nat \ {0},
         NEW s, Sends(s, source, window), NEW t, t = NextRound(s)
  PROVE  /\ Sends(t, source, window) /\ Acked(t) = Acked(s)
         /\ t.status = "ok" \/ t.status = s.status
         /\ t.status = "ok" /\ s.status # "ok" => Acked(t) = Len(source)
         /\ t.attempt \in {0, s.attempt}
         /\ t.status # "ok" => t.attempt = 0
         /\ Len(t.in_flight) = window \/ t.read = Len(source)
<1> DEFINE u == FillWindow(s)
<1>1. /\ Sends(u, source, window) /\ Acked(u) = Acked(s)
      /\ u.in_flight = << >> => u.read = Len(source)
      /\ Len(u.in_flight) = window \/ u.read = Len(source)
      /\ u.status = s.status /\ u.attempt = s.attempt
  BY FillWindowSends
<1>2. t = IF u.in_flight = << >> THEN [u EXCEPT !.status = "ok"] ELSE [u EXCEPT !.attempt = 0]
  BY DEF NextRound
<1> HIDE DEF u
<1>3. u \in Senders
  BY <1>1 DEF Sends
<1>4. CASE u.in_flight = << >>
  <2>1. /\ t \in Senders /\ t.source = u.source /\ t.window = u.window /\ t.read = u.read
        /\ t.in_flight = u.in_flight /\ t.next_block = u.next_block
        /\ t.status = "ok" /\ t.attempt = u.attempt
    BY <1>2, <1>3, <1>4 DEF Senders
  <2>3. Sends(t, source, window) /\ Acked(t) = Acked(u)
    BY <1>1, <2>1, SameQueueSends
  <2>4. Acked(u) = u.read
    <3>1. Len(u.in_flight) = 0
      BY <1>4, EmptySeq
    <3> QED
      BY <1>1, <3>1, SendsCounters
  <2> QED
    BY <1>1, <1>4, <2>1, <2>3, <2>4
<1>5. CASE u.in_flight # << >>
  <2>1. /\ t \in Senders /\ t.source = u.source /\ t.window = u.window /\ t.read = u.read
        /\ t.in_flight = u.in_flight /\ t.next_block = u.next_block
        /\ t.status = u.status /\ t.attempt = 0
    BY <1>2, <1>3, <1>5 DEF Senders
  <2>2. Sends(t, source, window) /\ Acked(t) = Acked(u)
    BY <1>1, <2>1, SameQueueSends
  <2> QED
    BY <1>1, <2>1, <2>2
<1> QED
  BY <1>4, <1>5

\* An ACK, whatever its number, takes blocks from the front of the queue only.
LEMMA ConsumeAckSends ==
  ASSUME NEW source \in Seq(Stretch), NEW window, NEW s, Sends(s, source, window), NEW ack,
         NEW t, t = ConsumeAck(s, ack)
  PROVE  /\ Sends(t, source, window)
         /\ Cardinality(Covered(s.in_flight, ack, window)) \in Nat
         /\ Acked(t) = Acked(s) + Cardinality(Covered(s.in_flight, ack, window))
         /\ t.status = s.status /\ t.attempt = s.attempt
<1> DEFINE L == Len(s.in_flight)
           k == Cardinality(Covered(s.in_flight, ack, window))
           rest == SubSeq(s.in_flight, k + 1, L)
<1>0. /\ s.in_flight \in Seq(Entry) /\ L \in Nat /\ s.read \in Nat /\ Len(source) \in Nat
      /\ Acked(s) \in Nat /\ Acked(s) + L = s.read /\ window \in Nat
      /\ L <= window /\ s.read <= Len(source) /\ s.source = source /\ s.window = window
  BY SendsCounters DEF Sends
<1>1. k \in Nat /\ k <= L
  <2>1. Covered(s.in_flight, ack, window) \subseteq 1 .. L
    BY DEF Covered
  <2>2. IsFiniteSet(1 .. L) /\ Cardinality(1 .. L) = L
    <3>1. 1 \in Int /\ L \in Int
      BY <1>0
    <3> HIDE DEF L
    <3>2. IsFiniteSet(1 .. L) /\ Cardinality(1 .. L) = IF 1 > L THEN 0 ELSE L - 1 + 1
      BY <3>1, FS_Interval
    <3>3. L \in Nat
      BY <1>0 DEF L
    <3> QED
      BY <3>2, <3>3
  <2>3. /\ IsFiniteSet(Covered(s.in_flight, ack, window))
        /\ k <= Cardinality(1 .. L)
    BY <2>1, <2>2, FS_Subset
  <2>4. k \in Nat
    BY <2>3, FS_CardinalityType
  <2> QED
    BY <2>2, <2>3, <2>4
<1>2. t = [s EXCEPT !.in_flight = rest]
  BY <1>0 DEF ConsumeAck
<1> HIDE DEF L, k
<1>3. /\ rest \in Seq(Entry) /\ Len(rest) = L - k
      /\ \A i \in 1 .. L - k : rest[i] = s.in_flight[k + i]
  <2>1. s.in_flight \in Seq(Entry)
    BY <1>0
  <2>2. \A i \in k + 1 .. L : s.in_flight[i] \in Entry
    BY <1>0, <1>1, <2>1, ElementOfSeq DEF L
  <2>3. /\ rest \in Seq(Entry)
        /\ Len(rest) = IF k + 1 <= L THEN L - (k + 1) + 1 ELSE 0
        /\ \A i \in 1 .. L - (k + 1) + 1 : rest[i] = s.in_flight[(k + 1) + i - 1]
    <3>1. k + 1 \in Int /\ L \in Int
      BY <1>0, <1>1
    <3> QED
      BY <2>2, <3>1, SubSeqProperties
  <2>4. L - (k + 1) + 1 = L - k /\ \A i \in Int : (k + 1) + i - 1 = k + i
    BY <1>0, <1>1
  <2> QED
    BY <1>0, <1>1, <2>3, <2>4
<1> HIDE DEF rest
<1>4. /\ t \in Senders /\ t.in_flight = rest /\ t.read = s.read /\ t.next_block = s.next_block
      /\ t.source = s.source /\ t.window = s.window
      /\ t.status = s.status /\ t.attempt = s.attempt
  BY <1>2, <1>3 DEF Sends, Senders
<1>5. Acked(t) = Acked(s) + k
  <2>1. Acked(t) = s.read - (L - k)
    BY <1>0, <1>1, <1>3, <1>4 DEF Acked
  <2> QED
    BY <1>0, <1>1, <2>1
<1>6. ASSUME NEW i \in 1 .. Len(t.in_flight)
      PROVE  /\ t.in_flight[i].block = Number(Acked(t) + i)
             /\ t.in_flight[i].data = source[Acked(t) + i]
  <2>1. k + i \in 1 .. L /\ i \in 1 .. L - k
    BY <1>0, <1>1, <1>3, <1>4
  <2>2. t.in_flight[i] = s.in_flight[k + i]
    BY <1>3, <1>4, <2>1
  <2>3. /\ s.in_flight[k + i].block = Number(Acked(s) + (k + i))
        /\ s.in_flight[k + i].data = source[Acked(s) + (k + i)]
    BY <2>1 DEF Sends, L
  <2>4. Acked(s) + (k + i) = Acked(t) + i
    BY <1>0, <1>1, <1>5, <2>1
  <2> QED
    BY <2>2, <2>3, <2>4
<1>7. t.read <= Len(source) /\ Len(t.in_flight) <= t.read /\ Len(t.in_flight) <= window
  <2>1. Len(t.in_flight) = L - k
    BY <1>3, <1>4
  <2>2. L - k <= L /\ L <= s.read
    BY <1>0, <1>1
  <2> QED
    BY <1>0, <1>1, <1>4, <2>1, <2>2
<1> QED
  BY <1>0, <1>1, <1>4, <1>5, <1>6, <1>7 DEF Sends, k

\* As long as a file and a window together have fewer blocks than there are block
\* numbers, no ACK takes more from the queue than it acknowledges.
LEMMA CoveredBound ==
  ASSUME NEW source \in Seq(Stretch), NEW window, NEW s, Sends(s, source, window),
         Len(source) + window < Modulus,
         NEW n \in Nat, n <= Len(source)
  PROVE  LET c == Cardinality(Covered(s.in_flight, Number(n), window))
         IN  c = 0 \/ Acked(s) + c <= n
<1> DEFINE a == Acked(s)
           L == Len(s.in_flight)
           C == Covered(s.in_flight, Number(n), window)
<1>0. /\ L \in Nat /\ s.read \in Nat /\ Len(source) \in Nat /\ a \in Nat /\ a + L = s.read
      /\ window \in Nat /\ s.read <= Len(source)
  BY SendsCounters DEF Sends
<1>1. ASSUME NEW i \in 1 .. L
      PROVE  s.in_flight[i].block = (a + i) % Modulus
  BY DEF Sends, Number
<1> HIDE DEF a
<1>2. ASSUME NEW i \in C
      PROVE  i \in 1 .. n - a
  <2>1. i \in 1 .. L /\ (s.in_flight[i].block = Number(n)
                          \/ U16LeInWindow(s.in_flight[i].block, Number(n), window))
    BY DEF Covered
  <2> HIDE DEF L
  <2>2. a + i \in Int /\ n \in Int /\ (a + i) - n < Modulus /\ n - (a + i) < Modulus
        /\ ~(n - (a + i) + Modulus \in 1 .. window - 1)
    BY <1>0, <2>1, ModulusAssumption
  <2>3. CASE s.in_flight[i].block = Number(n)
    <3>1. (a + i) % Modulus = n % Modulus
      BY <1>1, <2>1, <2>3 DEF Number
    <3>2. a + i = n
      BY ONLY <2>2, <3>1, EqualNumbers
    <3> QED
      BY <1>0, <2>1, <3>2
  <2>4. CASE U16LeInWindow(s.in_flight[i].block, Number(n), window)
    <3>1. U16LeInWindow((a + i) % Modulus, n % Modulus, window)
      BY <1>1, <2>1, <2>4 DEF Number
    <3>2. n - (a + i) \in 1 .. window - 1
      BY <1>0, <2>2, <3>1, LeInWindow
    <3> QED
      BY <1>0, <2>1, <3>2
  <2> QED
    BY <2>1, <2>3, <2>4
<1>3. IsFiniteSet(1 .. n - a) /\ Cardinality(1 .. n - a) = IF 1 > n - a THEN 0 ELSE n - a - 1 + 1
  <2>1. 1 \in Int /\ n - a \in Int
    BY <1>0
  <2> QED
    BY <2>1, FS_Interval
<1> HIDE DEF C
<1>4. C \subseteq 1 .. n - a
  BY <1>2
<1>5. IsFiniteSet(C) /\ Cardinality(C) <= Cardinality(1 .. n - a)
  BY <1>3, <1>4, FS_Subset
<1>6. Cardinality(C) \in Nat
  BY <1>5, FS_CardinalityType
<1>7. Cardinality(C) = 0 \/ a + Cardinality(C) <= n
  <2> DEFINE c == Cardinality(C)
             m == Cardinality(1 .. n - a)
  <2>1. c \in Nat /\ c <= m /\ a \in Nat /\ m = IF 1 > n - a THEN 0 ELSE n - a - 1 + 1
    BY <1>0, <1>3, <1>5, <1>6
  <2> HIDE DEF c, m
  <2>2. c = 0 \/ a + c <= n
    BY <2>1
  <2> QED
    BY <2>2 DEF c
<1> QED
  BY <1>7 DEF C, a

\* What a sender transmits are blocks of the source under their numbers, none of
\* them further ahead than the window.
LEMMA WindowPackets ==
  ASSUME NEW source \in Seq(Stretch), NEW window, NEW s, Sends(s, source, window),
         NEW p \in SendWindow(s)
  PROVE  \E n \in 1 .. Len(source) :
           p = DataPacket(Number(n), source[n]) /\ n <= Acked(s) + window
<1>1. PICK i \in 1 .. Len(s.in_flight) :
        p = DataPacket(s.in_flight[i].block, s.in_flight[i].data)
  BY DEF SendWindow
<1> DEFINE a == Acked(s)
           L == Len(s.in_flight)
           n == a + i
<1>2. /\ L \in Nat /\ s.read \in Nat /\ Len(source) \in Nat /\ a \in Nat /\ a + L = s.read
      /\ window \in Nat /\ s.read <= Len(source) /\ L <= window
  BY SendsCounters DEF Sends
<1>3. p = DataPacket(Number(n), source[n])
  BY <1>1 DEF Sends
<1>4. i \in 1 .. L
  OBVIOUS
<1> HIDE DEF a, L
<1>5. n \in 1 .. Len(source) /\ n <= a + window
  BY <1>2, <1>4
<1> HIDE DEF n
<1> QED
  BY <1>3, <1>5 DEF a

-----------------------------------------------------------------------------
(* The receiver.                                                           *)

\* A new receiver has an empty file.
LEMMA NewReceiverReceives ==
  ASSUME NEW window \in Nat, NEW b \in Nat, NEW r, r = NewReceiver(window, b)
  PROVE  /\ Receives(r, window, b) /\ r.file = << >> /\ Len(r.file) = 0
         /\ r.status = "receiving" /\ r.attempt = 0
<1>1. << >> \in Seq(Stretch) /\ Len(<< >>) = 0
  BY EmptySeq
<1>2. 0 \in BlockNumber /\ 1 \in BlockNumber /\ Number(0) = 0 /\ Number(1) = 1
  BY ModulusAssumption, SmallResidue DEF BlockNumber, Number
<1>3. r \in Receivers
  BY <1>1, <1>2 DEF NewReceiver, Receivers
<1>4. /\ r.window = window /\ r.blksize = b /\ r.next_block = 1 /\ r.last_acked = 0
      /\ r.file = << >> /\ r.status = "receiving" /\ r.attempt = 0
  BY DEF NewReceiver
<1>5. Len(r.file) = 0 /\ Len(r.file) + 1 = 1
  BY <1>1, <1>4
<1> QED
  BY <1>2, <1>3, <1>4, <1>5 DEF Receives

\* The length of a receiver's file is a number.
LEMMA FileLength ==
  ASSUME NEW window, NEW b, NEW r, Receives(r, window, b)
  PROVE  r.file \in Seq(Stretch) /\ Len(r.file) \in Nat
<1>1. r.file \in Seq(Stretch)
  BY DEF Receives, Receivers
<1> QED
  BY <1>1, LenProperties

\* Attempts, the fill of the window and the status are no part of the file.
LEMMA SameFileReceives ==
  ASSUME NEW window, NEW b, NEW r, Receives(r, window, b),
         NEW t \in Receivers, t.window = r.window, t.blksize = r.blksize, t.file = r.file,
         t.last_acked = r.last_acked, t.next_block = r.next_block
  PROVE  Receives(t, window, b)
BY DEF Receives

\* DATA that is not expected leaves the file alone.
LEMMA RejectBlockReceives ==
  ASSUME NEW window, NEW b, NEW r, Receives(r, window, b), NEW t, t = RejectBlock(r)
  PROVE  Receives(t, window, b) /\ t.file = r.file /\ t.status = r.status /\ t.attempt = 0
<1>1. r \in Receivers
  BY DEF Receives
<1>2. /\ t \in Receivers /\ t.window = r.window /\ t.blksize = r.blksize /\ t.file = r.file
      /\ t.last_acked = r.last_acked /\ t.next_block = r.next_block
      /\ t.status = r.status /\ t.attempt = 0
  BY <1>1 DEF RejectBlock, Receivers
<1> QED
  BY <1>2, SameFileReceives

\* DATA that is expected is written behind what is there, and ends the transfer if
\* it is short.
LEMMA AcceptBlockReceives ==
  ASSUME NEW window, NEW b, NEW r, Receives(r, window, b),
         NEW block, Expects(r, block), NEW data \in Stretch,
         NEW t, t = AcceptBlock(r, block, data)
  PROVE  /\ Receives(t, window, b)
         /\ Len(t.file) = Len(r.file) + 1
         /\ \A i \in 1 .. Len(r.file) : t.file[i] = r.file[i]
         /\ t.file[Len(r.file) + 1] = data
         /\ t.status = IF data.len < b THEN "ok" ELSE r.status
         /\ t.attempt = 0
<1> DEFINE k == Len(r.file)
           longer == Append(r.file, data)
           fill == IF WindowFull(r) /\ ~IsFinal(r, data) THEN 0 ELSE r.blocks_in_window + 1
           status == IF IsFinal(r, data) THEN "ok" ELSE r.status
<1>1. r \in Receivers /\ r.blksize = b /\ r.window = window
      /\ r.next_block = Number(k + 1) /\ block = Number(k + 1)
  BY DEF Receives, Expects
<1>2. r.file \in Seq(Stretch) /\ k \in Nat
  BY FileLength
<1>3. /\ longer \in Seq(Stretch) /\ Len(longer) = k + 1
      /\ \A i \in 1 .. k : longer[i] = r.file[i]
      /\ longer[k + 1] = data
  BY <1>2, AppendProperties
<1>4. WrappingAdd(r.next_block, 1) = Number(Len(longer) + 1)
  <2>1. k + 1 \in Int /\ 1 \in Int
    BY <1>2
  <2>3. Len(longer) + 1 = (k + 1) + 1
    BY <1>3
  <2> HIDE DEF k, longer
  <2>2. WrappingAdd((k + 1) % Modulus, 1) = ((k + 1) + 1) % Modulus
    BY ONLY <2>1, AddResidue
  <2> QED
    BY <1>1, <2>2, <2>3 DEF Number
<1>5. t = [r EXCEPT !.attempt = 0, !.file = longer, !.last_acked = block,
                    !.next_block = WrappingAdd(@, 1), !.blocks_in_window = fill,
                    !.status = status]
  BY <1>1 DEF AcceptBlock, Receivers
<1>6. fill \in Nat /\ status \in {"receiving", "ok", "failed"}
  BY <1>1 DEF Receivers
<1>7. Number(k + 1) \in BlockNumber /\ Number(Len(longer) + 1) \in BlockNumber
  <2>1. k + 1 \in Int /\ Len(longer) + 1 \in Int
    BY <1>2, <1>3
  <2> QED
    BY <2>1, ResidueInRange DEF Number
<1>8. status = IF data.len < b THEN "ok" ELSE r.status
  BY <1>1 DEF IsFinal
<1> HIDE DEF k, longer, fill, status
<1>9. /\ t \in Receivers /\ t.window = window /\ t.blksize = b /\ t.file = longer
      /\ t.last_acked = Number(k + 1) /\ t.next_block = Number(Len(longer) + 1)
      /\ t.status = status /\ t.attempt = 0
  <2> DEFINE next == WrappingAdd(r.next_block, 1)
  <2>1. /\ next \in BlockNumber /\ block \in BlockNumber /\ longer \in Seq(Stretch)
        /\ 0 \in Nat /\ next = Number(Len(longer) + 1) /\ block = Number(k + 1)
    BY <1>1, <1>3, <1>4, <1>7
  <2>2. t = [r EXCEPT !.attempt = 0, !.file = longer, !.last_acked = block,
                      !.next_block = next, !.blocks_in_window = fill, !.status = status]
    BY <1>1, <1>5 DEF Receivers
  <2> HIDE DEF next
  <2>3. /\ t \in Receivers /\ t.window = window /\ t.blksize = b /\ t.file = longer
        /\ t.last_acked = block /\ t.next_block = next
        /\ t.status = status /\ t.attempt = 0
    BY ONLY <1>1, <1>6, <2>1, <2>2 DEF Receivers
  <2> QED
    BY <2>1, <2>3
<1>10. Receives(t, window, b)
  BY <1>3, <1>9 DEF Receives
<1> QED
  BY <1>3, <1>8, <1>9, <1>10 DEF k

\* As long as no number comes twice in the source, the receiver takes its blocks in
\* their order, and is done when it has them all.
LEMMA AcceptBlockOfSource ==
  ASSUME NEW source \in Seq(Stretch), Len(source) < Modulus, NEW window, NEW b,
         \A i \in 1 .. Len(source) : source[i].len < b <=> i = Len(source),
         NEW r, Receives(r, window, b), r.status = "receiving", Len(r.file) < Len(source),
         \A i \in 1 .. Len(r.file) : r.file[i] = source[i],
         NEW n \in 1 .. Len(source), Expects(r, Number(n)),
         NEW t, t = AcceptBlock(r, Number(n), source[n])
  PROVE  /\ Len(t.file) = Len(r.file) + 1 /\ Len(t.file) <= Len(source)
         /\ \A i \in 1 .. Len(t.file) : t.file[i] = source[i]
         /\ t.status = IF Len(t.file) = Len(source) THEN "ok" ELSE "receiving"
<1>1. Len(source) \in Nat /\ Len(r.file) \in Nat /\ source[n] \in Stretch
  BY FileLength, LenProperties, ElementOfSeq
<1>2. n = Len(r.file) + 1
  <2>1. Number(n) = Number(Len(r.file) + 1)
    BY DEF Expects, Receives
  <2>2. /\ n \in Int /\ 0 <= n /\ n < Modulus
        /\ Len(r.file) + 1 \in Int /\ 0 <= Len(r.file) + 1 /\ Len(r.file) + 1 < Modulus
    BY <1>1, ModulusAssumption
  <2>3. n % Modulus = n /\ (Len(r.file) + 1) % Modulus = Len(r.file) + 1
    BY <2>2, SmallResidue
  <2> QED
    BY <2>1, <2>3 DEF Number
<1>3. /\ Len(t.file) = Len(r.file) + 1
      /\ \A i \in 1 .. Len(r.file) : t.file[i] = r.file[i]
      /\ t.file[Len(r.file) + 1] = source[n]
      /\ t.status = IF source[n].len < b THEN "ok" ELSE r.status
  <2>1. PICK data : data = source[n]
    OBVIOUS
  <2>2. t = AcceptBlock(r, Number(n), data) /\ data \in Stretch
    BY <1>1, <2>1
  <2>3. /\ Len(t.file) = Len(r.file) + 1
        /\ \A i \in 1 .. Len(r.file) : t.file[i] = r.file[i]
        /\ t.file[Len(r.file) + 1] = data
        /\ t.status = IF data.len < b THEN "ok" ELSE r.status
    BY <2>2, AcceptBlockReceives
  <2> QED
    BY <2>1, <2>3
<1>4. \A i \in 1 .. Len(t.file) : t.file[i] = source[i]
  BY <1>1, <1>2, <1>3
<1>5. t.status = IF Len(t.file) = Len(source) THEN "ok" ELSE "receiving"
  BY <1>2, <1>3
<1> QED
  BY <1>1, <1>3, <1>4, <1>5

-----------------------------------------------------------------------------
(* The network.                                                            *)

\* A step in which datagrams are received or a deadline passes counts no more
\* misfortunes than there may be.
LEMMA FaultsBounded ==
  ASSUME faults \in 0 .. MaxFaults
  PROVE  /\ Fault => faults' \in 0 .. MaxFaults
         /\ \A end : Deadline(end) => faults' \in 0 .. MaxFaults /\ Listens(end)
         /\ \A d, end, rest : Arrives(d, end, rest) =>
              faults' \in 0 .. MaxFaults /\ rest \subseteq net /\ d.dst = end /\ Listens(end)
BY SessionAssumption DEF Fault, Deadline, Arrives

\* A datagram is one of those that are sent.
LEMMA OneDatagram ==
  ASSUME NEW src, NEW dst, NEW packets, NEW d \in Datagrams(src, dst, packets)
  PROVE  d.packet \in packets /\ d \in Datagrams(src, dst, {d.packet})
BY DEF Datagrams
=============================================================================
