------------------------- MODULE TransferProperties -------------------------
(***************************************************************************)
(* What the data phase of a transfer must satisfy, and the inductive       *)
(* invariant that its proofs rest on.                                      *)
(***************************************************************************)
EXTENDS WindowedTransfer

Block == [id : 1 .. NumBlocks, len : 0 .. BlkSize]

Packet ==
  [type : {"DATA"}, block : BlockNumber, data : Block]
    \cup [type : {"ACK"}, block : BlockNumber]
    \cup [type : {"ERROR", "OACK"}]

SenderState ==
  [source    : {Source},    window     : {SWindow},   read    : 0 .. NumBlocks,
   in_flight : Seq([block : BlockNumber, data : Block]),
   next_block : BlockNumber, attempt   : 0 .. SRetries,
   status    : {"sending", "ok", "failed"}]

ReceiverState ==
  [window     : {RWindow},   blksize    : {BlkSize},   next_block : BlockNumber,
   last_acked : BlockNumber, attempt    : 0 .. RRetries, file     : Seq(Block),
   status     : {"receiving", "ok", "failed"}, blocks_in_window : 0 .. RWindow]

\* The shape of the state; the window never holds more than windowsize blocks.
TypeOK ==
  /\ snd \in SenderState
  /\ Len(snd.in_flight) <= SWindow
  /\ rcv \in ReceiverState
  /\ net \subseteq [dst : {"S", "R"}, packet : Packet, stamp : Nat]
  /\ faults \in 0 .. MaxFaults

\* What is on disk is always the beginning of the source, whatever was lost,
\* duplicated or reordered, and across wraps of the block number.
WrittenInOrder ==
  /\ Written <= NumBlocks
  /\ rcv.file = SubSeq(Source, 1, Written)

\* The sender never drops a block from its window that is not yet written: no
\* ACK, however old, is taken for one that covers it.
NeverForgetsUnwritten == Acked(snd) <= Written

\* A receiver that reports success has the whole file.  So has the peer of a
\* sender that does; and when that peer is the server, which flushes before its
\* last ACK, it has succeeded too.
SuccessMeansWritten ==
  /\ rcv.status = "ok" => rcv.file = Source
  /\ snd.status = "ok" => rcv.file = Source
  /\ snd.status = "ok" /\ Server = "R" => rcv.status = "ok"

\* While no I/O error happens and there are no more misfortunes than retries,
\* the file arrives: the receiver does not fail, and the sender can fail only
\* when the file is complete and the last ACK was lost.
Robust ==
  /\ rcv.status # "failed"
  /\ snd.status = "failed" => rcv.status = "ok"

\* The transfer implements TransferPromise: seen from outside, packets and
\* windows do nothing but write the source in order and return.
Promise == INSTANCE TransferPromise WITH
  FlushesFirst <- (Server = "R"),
  source <- Source, file <- rcv.file, sender <- snd.status, receiver <- rcv.status

KeepsPromise == Promise!Spec

\* Every transfer comes to an end at both ends.
BothEnd == <>Ended

\* The file arrives in the end.
Delivered == <>(rcv.status = "ok")

-----------------------------------------------------------------------------
(* The inductive invariant.                                                *)

\* Blocks are identified by their place in the source; a block number is the
\* place modulo Modulus.
Number(id) == id % Modulus

\* The window of a sender is a stretch of the source, each block under its number.
Aligned(s) ==
  /\ Acked(s) >= 0
  /\ \A i \in 1 .. Len(s.in_flight) :
       /\ s.in_flight[i].block = Number(Acked(s) + i)
       /\ s.in_flight[i].data = Source[Acked(s) + i]
  /\ s.next_block = Number(s.read + 1)

\* The receiver stands where the blocks it has written say.
FileInv ==
  /\ Written <= NumBlocks
  /\ \A i \in 1 .. Written : rcv.file[i] = Source[i]
  /\ rcv.next_block = Number(Written + 1)
  /\ rcv.last_acked = Number(Written)

\* The blocks acknowledged have been written, and the blocks written were read.
ProgressInv == Acked(snd) <= Written /\ Written <= snd.read

\* A datagram is no older than MaxAge.  A DATA packet carries a block of the
\* source, from less than a window before the blocks written when it was sent;
\* an ACK carries the number of the last of those.
DatagramInv(d) ==
  /\ d.stamp <= Written
  /\ Written - d.stamp <= MaxAge
  /\ d.packet.type = "DATA" =>
       /\ d.dst = "R"
       /\ d.packet.data.id <= snd.read
       /\ d.stamp < d.packet.data.id + SWindow
       /\ d.packet.block = Number(d.packet.data.id)
       /\ d.packet.data = Source[d.packet.data.id]
  /\ d.packet.type = "ACK" => d.dst = "S" /\ d.packet.block = Number(d.stamp)

\* What the endpoints have returned agrees with how far the file has come, and a
\* window that is full has been acknowledged.
StatusInv ==
  /\ rcv.status = "receiving" => Written < NumBlocks /\ rcv.blocks_in_window < RWindow
  /\ rcv.status = "ok" => Written = NumBlocks
  /\ Written = NumBlocks /\ Server = "R" => rcv.status = "ok"
  /\ snd.status = "ok" => Acked(snd) = NumBlocks

IInv ==
  /\ TypeOK
  /\ Aligned(snd)
  /\ FileInv
  /\ ProgressInv
  /\ \A d \in net : DatagramInv(d)
  /\ StatusInv

-----------------------------------------------------------------------------
(* The invariant that Robust rests on: a deadline that nobody is to blame  *)
(* for must have been preceded by a misfortune that cut the exchange off.  *)

\* No more blocks have been written since the datagram was sent than the receiver
\* has accepted since its last ACK.
Fresh(d) == Written - d.stamp <= rcv.blocks_in_window

\* Whoever receives this datagram, now or after what is received before it, answers
\* it: the sender always does, and the receiver when it has the block, when it is
\* the last one, and when its window is full as soon as it gets there.
Answerable(d) ==
  \/ d.dst = "S"
  \/ /\ d.packet.type = "DATA"
     /\ \/ d.packet.data.id <= Written
        \/ d.packet.data.id = NumBlocks
        \/ rcv.blocks_in_window + (d.packet.data.id - Written) >= RWindow

\* Nobody has to wait for a deadline.
GoesOn == ~Started \/ \E d \in net : Fresh(d) /\ Answerable(d)

\* While the receiver is at work neither end has failed, the window is as full as
\* the source allows, and no end has let more deadlines pass than there have been
\* misfortunes; where nothing goes on, one misfortune has not been paid for yet.
RobustInv ==
  /\ rcv.status # "failed"
  /\ Receiving =>
       /\ snd.status = "sending"
       /\ \A d \in net : d.packet.type # "ERROR"
       /\ Started => Len(snd.in_flight) = SWindow \/ snd.read = NumBlocks
       /\ snd.attempt <= faults /\ rcv.attempt <= faults
       /\ GoesOn \/ (snd.attempt < faults /\ rcv.attempt < faults)
=============================================================================
