--------------------------- MODULE BlockReceiver ----------------------------
(***************************************************************************)
(* The end of a transfer that receives DATA: WrqReceiver of the server,    *)
(* and the receiving loop of the client's do_get, which is the same        *)
(* algorithm.  A receiver is a record                                      *)
(*   window            the negotiated windowsize                           *)
(*   blksize           the negotiated blksize                              *)
(*   next_block        the block number it will accept                     *)
(*   blocks_in_window  blocks accepted since the last ACK                  *)
(*   last_acked        the number of the last block accepted               *)
(*   attempt           timeouts since the last DATA                        *)
(*   file              the blocks written, in the order of the writes      *)
(*   status            "receiving", "ok" or "failed"                       *)
(***************************************************************************)
EXTENDS BlockNumbers, Sequences

NewReceiver(window, blksize) ==
  [window     |-> window, blksize    |-> blksize, next_block |-> 1,
   last_acked |-> 0,      attempt    |-> 0,       file       |-> << >>,
   status     |-> "receiving",       blocks_in_window |-> 0]

AckPacket(block) == [type |-> "ACK", block |-> block]

\* A mutant: a block from further ahead is taken as well.
TakesAnyNewer(r, block) == block >= r.next_block

\* Is this the block that the receiver is waiting for?
Expects(r, block) == block = r.next_block

IsFinal(r, data) == data.len < r.blksize

WindowFull(r) == r.blocks_in_window + 1 >= r.window

\* Is the block acknowledged at once, or does it wait for its window to fill?
AnswersAtOnce(r, data) == IsFinal(r, data) \/ WindowFull(r)

\* A mutant: the block number does not wrap.
AcceptNoWrap(r, block, data) ==
  [r EXCEPT !.attempt          = 0,
            !.file             = Append(@, data),
            !.last_acked       = block,
            !.next_block       = @ + 1,
            !.blocks_in_window = IF WindowFull(r) /\ ~IsFinal(r, data) THEN 0 ELSE @ + 1,
            !.status           = IF IsFinal(r, data) THEN "ok" ELSE @]

\* A mutant: the expected number is not advanced.
AcceptTwice(r, block, data) ==
  [r EXCEPT !.file   = Append(@, data), !.last_acked = block,
            !.status = IF IsFinal(r, data) THEN "ok" ELSE @]

\* DATA with the expected number: write it, and end the transfer if it is short.
AcceptBlock(r, block, data) ==
  [r EXCEPT !.attempt          = 0,
            !.file             = Append(@, data),
            !.last_acked       = block,
            !.next_block       = WrappingAdd(@, 1),
            !.blocks_in_window = IF WindowFull(r) /\ ~IsFinal(r, data) THEN 0 ELSE @ + 1,
            !.status           = IF IsFinal(r, data) THEN "ok" ELSE @]

\* Any other DATA: the last block accepted is acknowledged again.
RejectBlock(r) == [r EXCEPT !.attempt = 0, !.blocks_in_window = 0]
=============================================================================
