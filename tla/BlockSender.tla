---------------------------- MODULE BlockSender -----------------------------
(***************************************************************************)
(* The end of a transfer that sends DATA: RrqSender of the server, and the *)
(* sending loop of the client's do_put, which is the same algorithm.  A    *)
(* sender is a record                                                      *)
(*   source      the file, cut into the blocks that read_one_block yields; *)
(*               the last block, and no other, is short                    *)
(*   window      the negotiated windowsize                                 *)
(*   read        how many blocks of source have been read                  *)
(*   in_flight   the blocks sent and not acknowledged, with their numbers  *)
(*   next_block  the number of the next block read                         *)
(*   attempt     timeouts since the window last moved                      *)
(*   status      "sending", "ok" or "failed": what run() has returned      *)
(***************************************************************************)
EXTENDS BlockNumbers, Sequences, FiniteSets

NewSender(source, window) ==
  [source     |-> source, window  |-> window, read   |-> 0, in_flight |-> << >>,
   next_block |-> 1,      attempt |-> 0,      status |-> "sending"]

DataPacket(block, data) == [type |-> "DATA", block |-> block, data |-> data]

\* What send_window transmits.
SendWindow(s) ==
  {DataPacket(s.in_flight[i].block, s.in_flight[i].data) : i \in 1 .. Len(s.in_flight)}

\* The final short block has been read: there is nothing more to send.
LastSentShort(s) == s.read = Len(s.source)

\* How many blocks of the source are neither in flight nor waiting to be read.
Acked(s) == s.read - Len(s.in_flight)

\* The blocks that fit into the window and that the source still has.
Room(s) ==
  LET free == s.window - Len(s.in_flight)
      left == Len(s.source) - s.read
  IN  IF free < left THEN free ELSE left

FillWindow(s) ==
  LET n == Room(s)
  IN  [s EXCEPT
        !.in_flight  = @ \o [i \in 1 .. n |-> [block |-> WrappingAdd(s.next_block, i - 1),
                                               data  |-> s.source[s.read + i]]],
        !.next_block = WrappingAdd(@, n),
        !.read       = @ + n]

\* The entries of the queue that consume_ack pops: from the front, those that
\* precede ack within the window, up to and including the one numbered ack.
Covered(queue, ack, windowsize) ==
  {i \in 1 .. Len(queue) :
     /\ \A j \in 1 .. i - 1 : U16LeInWindow(queue[j].block, ack, windowsize)
     /\ queue[i].block = ack \/ U16LeInWindow(queue[i].block, ack, windowsize)}

ConsumeAck(s, ack) ==
  [s EXCEPT !.in_flight =
     SubSeq(@, Cardinality(Covered(@, ack, s.window)) + 1, Len(@))]

\* A mutant: the transfer ends when the last block has been sent, not when it
\* has been acknowledged.
EndsWhenSent(s) ==
  LET t == FillWindow(s)
  IN  IF LastSentShort(t) THEN [t EXCEPT !.status = "ok"]
                          ELSE [t EXCEPT !.attempt = 0]

\* The top of run()'s outer loop: refill, and return when nothing is left.
NextRound(s) ==
  LET t == FillWindow(s)
  IN  IF t.in_flight = << >> THEN [t EXCEPT !.status = "ok"]
                             ELSE [t EXCEPT !.attempt = 0]

\* Does an ACK move the window?
Advances(s, ack) == Covered(s.in_flight, ack, s.window) # {}
=============================================================================
