---------------------------- MODULE BlockReader -----------------------------
(***************************************************************************)
(* How a file becomes blocks, and blocks a file: read_one_block of the     *)
(* server and Sender::next_block of the client, and at the other end       *)
(* write_block with the finish that follows the short block.  Between them *)
(* the blocks arrive in order and once, which is what WindowedTransfer is  *)
(* about; what it calls Source, and a session Cut, is made here.           *)
(*                                                                         *)
(* Each end is in octet or in netascii mode.  They differ when the peer is *)
(* another program: a sender without encoder whose receiver decodes is one *)
(* that may put any bytes on the wire.                                     *)
(***************************************************************************)
EXTENDS Netascii

CONSTANTS
  Files,       (* The files that are sent: sequences of bytes.               *)
  BlkSizes     (* The values of the negotiated blksize.                      *)

ASSUME BlockReaderAssumption ==
  /\ Files \subseteq Seq(Byte)
  /\ BlkSizes \subseteq Nat \ {0}

VARIABLES
  file,        (* The file of the sender.                                    *)
  blksize,     (* The negotiated block size.                                 *)
  encoder,     (* Does the sender encode netascii?                           *)
  decoder,     (* Does the receiver decode netascii?                         *)
  pos,         (* How far the file has been read.                            *)
  pending,     (* Bytes that are read, encoded, and not yet in a block.      *)
  eof,         (* A read has returned nothing.                               *)
  final,       (* last_sent_short, final_emitted                             *)
  blocks,      (* The blocks that the sender has produced.                   *)
  written,     (* How many of them the receiver has written.                 *)
  sink         (* The receiver's file, as the decoder's output.              *)

parameters == <<file, blksize, encoder, decoder>>
vars == <<parameters, pos, pending, eof, final, blocks, written, sink>>

Least(a, b) == IF a < b THEN a ELSE b

Init ==
  /\ file \in Files /\ blksize \in BlkSizes
  /\ encoder \in BOOLEAN /\ decoder \in BOOLEAN
  /\ pos = 0 /\ pending = << >>
  /\ eof = FALSE /\ final = FALSE
  /\ blocks = << >> /\ written = 0
  /\ sink = NewDecoder

\* A mutant: the whole file is read ahead of the blocks.
WantsAll == ~final /\ ~eof

\* The condition of the loop that fills pending.
WantsMore == ~final /\ ~eof /\ Len(pending) < blksize

\* A read returns as much as the chunk holds, or less; never nothing before the end.
Read ==
  /\ WantsMore
  /\ \E n \in 1 .. Least(blksize, Len(file) - pos) :
       LET chunk == SubSeq(file, pos + 1, pos + n)
       IN  /\ pending' = pending \o (IF encoder THEN ToWire(chunk) ELSE chunk)
           /\ pos' = pos + n
  /\ UNCHANGED <<parameters, eof, final, blocks, written, sink>>

\* A mutant: the end of the file is noticed only when nothing is pending.
ReadNothingLate ==
  /\ WantsMore
  /\ pos = Len(file) /\ pending = << >>
  /\ eof' = TRUE
  /\ UNCHANGED <<parameters, pos, pending, final, blocks, written, sink>>

ReadNothing ==
  /\ WantsMore
  /\ pos = Len(file)
  /\ eof' = TRUE
  /\ UNCHANGED <<parameters, pos, pending, final, blocks, written, sink>>

\* A mutant: what does not fit into the block is dropped.
EmitAndClear ==
  /\ ~final /\ ~WantsMore
  /\ LET take == Least(blksize, Len(pending))
     IN  /\ blocks' = Append(blocks, SubSeq(pending, 1, take))
         /\ pending' = << >>
         /\ final' = (take < blksize)
  /\ UNCHANGED <<parameters, pos, eof, written, sink>>

\* A block leaves pending; a short one, perhaps empty, is the last.
Emit ==
  /\ ~final /\ ~WantsMore
  /\ LET take == Least(blksize, Len(pending))
     IN  /\ blocks' = Append(blocks, SubSeq(pending, 1, take))
         /\ pending' = SubSeq(pending, take + 1, Len(pending))
         /\ final' = (take < blksize)
  /\ UNCHANGED <<parameters, pos, eof, written, sink>>

Decoded(bytes) == IF decoder THEN FromWire(sink, bytes) ELSE [sink EXCEPT !.out = @ \o bytes]

\* write_block, and finish after the short block.
Write ==
  /\ written < Len(blocks)
  /\ LET block == blocks[written + 1]
     IN  sink' = IF Len(block) < blksize THEN Finish(Decoded(block)) ELSE Decoded(block)
  /\ written' = written + 1
  /\ UNCHANGED <<parameters, pos, pending, eof, final, blocks>>

Next == Read \/ ReadNothing \/ Emit \/ Write

\* Both ends go on as long as there is something to read or to write.
Spec == Init /\ [][Next]_vars /\ WF_vars(Next)
=============================================================================
