----------------------- MODULE BlockReaderProperties ------------------------
(***************************************************************************)
(* What cutting, translating and putting together must satisfy.            *)
(***************************************************************************)
EXTENDS BlockReader

\* Everything that the sender puts on the wire, seen as one piece.
Wire == IF encoder THEN ToWire(file) ELSE file

\* Decoding by its rules alone, with the whole text at hand: what the bytes
\* from place i on stand for.
Meaning(bytes) ==
  LET from[i \in 1 .. Len(bytes) + 1] ==
        IF i > Len(bytes) THEN << >>
        ELSE IF bytes[i] = CR /\ i < Len(bytes) THEN Pair(bytes[i + 1]) \o from[i + 2]
        ELSE <<bytes[i]>> \o from[i + 1]
  IN  from[1]

Done == final /\ written = Len(blocks)

\* The shape of the state.  The pending buffer holds less than a block when it
\* is filled, and encoding at most doubles a chunk.
TypeOK ==
  /\ file \in Files /\ blksize \in BlkSizes
  /\ encoder \in BOOLEAN /\ decoder \in BOOLEAN
  /\ pos \in 0 .. Len(file)
  /\ pending \in Seq(Byte) /\ Len(pending) < 3 * blksize
  /\ eof \in BOOLEAN /\ final \in BOOLEAN
  /\ blocks \in Seq(Seq(Byte))
  /\ written \in 0 .. Len(blocks)
  /\ sink \in [out : Seq(Byte), pending_cr : BOOLEAN]

\* However short the reads are and however encoding stretches them, the blocks
\* are the wire cut into pieces of blksize and one shorter piece at the end,
\* which is empty if the others use up the wire; this is the Source of
\* WindowedTransfer and the Cut of a session.
BlocksAreCut ==
  /\ \A i \in DOMAIN blocks :
       blocks[i] = SubSeq(Wire, (i - 1) * blksize + 1, Least(i * blksize, Len(Wire)))
  /\ Len(blocks) = (Len(Wire) \div blksize) + 1 <=> final

\* A file comes back as it was when both ends use the same mode, wherever the
\* blocks cut CR LF and CR NUL apart.
RoundTrip == Done /\ encoder = decoder => sink.out = file

\* A receiver that decodes understands any bytes as if it had them in one
\* piece, a trailing CR and a CR without partner included.
DecodingIgnoresCuts == Done /\ decoder => sink.out = Meaning(Wire)

\* Every file, the empty one and one of whole blocks included, comes to its end.
EveryFileEnds == <>[]Done

-----------------------------------------------------------------------------
(* The invariant that the first three rest on.                             *)

\* What the sender has put out when it has read n bytes of its file.
Taken(n) == IF encoder THEN Encoded(file)[n] ELSE SubSeq(file, 1, n)

\* How far the wire has gone into the first n blocks.
Gone(n) == Least(n * blksize, Len(Wire))

\* pending is what has been taken and is not in a block; after the short block
\* there is nothing left.
SenderInv ==
  /\ eof => pos = Len(file)
  /\ final => pos = Len(file)
  /\ final => /\ (Len(blocks) - 1) * blksize <= Len(Wire)
              /\ Len(Wire) < Len(blocks) * blksize
  /\ ~final => /\ Len(blocks) * blksize <= Len(Taken(pos))
               /\ pending = SubSeq(Taken(pos), Len(blocks) * blksize + 1, Len(Taken(pos)))
  /\ \A i \in DOMAIN blocks : blocks[i] = SubSeq(Wire, Gone(i - 1) + 1, Gone(i))

\* What the receiver makes of the blocks it has written is what it would make of
\* them in one piece.
ReceiverInv ==
  /\ ~decoder => sink = [out |-> SubSeq(Wire, 1, Gone(written)), pending_cr |-> FALSE]
  /\ decoder =>
       LET read == After(NewDecoder, Wire)[Gone(written)]
       IN  sink = IF Done THEN Finish(read) ELSE read

CutInv ==
  /\ TypeOK
  /\ SenderInv
  /\ ReceiverInv
=============================================================================
