-------------------------- MODULE WindowedTransfer --------------------------
(***************************************************************************)
(* The data phase of a transfer, after the request has been answered: one  *)
(* sender and one receiver exchange DATA and ACK over UDP.                 *)
(*                                                                         *)
(* Server = "S" is a read request (the server's RrqSender sends, the       *)
(* client's do_get receives); Server = "R" is a write request (the         *)
(* client's do_put sends, the server's WrqReceiver receives).  The two     *)
(* directions run the same loops and differ where Server is mentioned.     *)
(*                                                                         *)
(* An action takes an endpoint from one recv_one call to the next: the     *)
(* code in between touches only the endpoint's own state, the file it      *)
(* alone has open, and the socket.                                         *)
(*                                                                         *)
(* The network loses, duplicates, delays and reorders datagrams, but not   *)
(* for ever: a datagram is gone once the receiver has written more than    *)
(* MaxAge blocks since it was sent.  Every misfortune (a loss, a           *)
(* duplicate, a timeout while datagrams are still on their way, an I/O     *)
(* error) is counted, and there are at most MaxFaults of them.             *)
(***************************************************************************)
EXTENDS BlockSender, BlockReceiver

CONSTANTS
  NumBlocks,   (* Length of the file in blocks, the short last one included. *)
  BlkSize,     (* The negotiated blksize.                                    *)
  LastLen,     (* Length of the last block.                                  *)
  SWindow,     (* windowsize as the sender negotiated it.                    *)
  RWindow,     (* windowsize as the receiver negotiated it.                  *)
  SRetries,    (* retries configured at the sender.                          *)
  RRetries,    (* retries configured at the receiver.                        *)
  Server,      (* Which end is the server: "S" or "R".                       *)
  MaxAge,      (* Lifetime of a datagram, in blocks written since.           *)
  MaxFaults,   (* Bound on the misfortunes of a behaviour.                   *)
  IoErrors     (* May reads and writes of the local file fail?               *)

ASSUME TransferAssumption ==
  /\ NumBlocks \in Nat \ {0} /\ BlkSize \in Nat \ {0} /\ LastLen \in 0 .. BlkSize - 1
  /\ SWindow \in Nat \ {0} /\ RWindow \in Nat \ {0}
  /\ SRetries \in Nat /\ RRetries \in Nat
  /\ Server \in {"S", "R"}
  /\ MaxAge \in Nat /\ MaxFaults \in Nat /\ IoErrors \in BOOLEAN

VARIABLES
  snd,         (* The sender, a record of BlockSender.                       *)
  rcv,         (* The receiver, a record of BlockReceiver.                   *)
  net,         (* The datagrams on their way.                                *)
  faults       (* How many misfortunes there have been.                      *)

vars == <<snd, rcv, net, faults>>

\* The source as read_one_block cuts it: full blocks, then one that is short,
\* possibly empty.  A block is told apart by its place in the file.
Source ==
  [i \in 1 .. NumBlocks |->
     [id |-> i, len |-> IF i = NumBlocks THEN LastLen ELSE BlkSize]]

-----------------------------------------------------------------------------
(* Datagrams.  The stamp is the age clock of the network, not a field of   *)
(* the packet: the number of blocks written when it was sent.              *)

ErrorPacket == [type |-> "ERROR"]
OackPacket  == [type |-> "OACK"]

Datagrams(dst, packets, clock) ==
  {[dst |-> dst, packet |-> p, stamp |-> clock] : p \in packets}

Client == IF Server = "S" THEN "R" ELSE "S"

Written == Len(rcv.file)

\* Only the server tells its peer that it has given up.
GiveUpPackets(end) == IF end = Server THEN {ErrorPacket} ELSE {}

\* Datagrams that have outlived MaxAge are dropped by the network.
Aged(datagrams, clock) == {d \in datagrams : clock - d.stamp <= MaxAge}

-----------------------------------------------------------------------------
(* The network.                                                            *)

Fault == faults < MaxFaults /\ faults' = faults + 1

\* Datagram d reaches endpoint end; rest is what stays behind, d itself
\* included when a duplicate is still to come.
Arrives(d, end, rest) ==
  /\ d \in net
  /\ d.dst = end
  /\ \/ rest = net \ {d} /\ UNCHANGED faults
     \/ rest = net /\ Fault

Started == snd.in_flight # << >>
Sending == snd.status = "sending" /\ Started
Receiving == rcv.status = "receiving"
Listens(end) == IF end = "S" THEN snd.status = "sending" ELSE Receiving

\* Nothing is on its way to a live endpoint: a deadline that passes now passes
\* by rights; one that passes earlier means that the network was too slow.
Quiet == /\ snd.status = "sending" => Started
         /\ \A d \in net : ~Listens(d.dst)

Deadline ==
  \/ Quiet /\ UNCHANGED faults
  \/ ~Quiet /\ Fault

Lose ==
  /\ \E d \in net : Listens(d.dst) /\ net' = net \ {d}
  /\ Fault
  /\ UNCHANGED <<snd, rcv>>

-----------------------------------------------------------------------------
(* The sender.                                                             *)

\* A round of run(): snd' is in force, and its window is (re)sent unless the
\* round ended the transfer.
Transmit(rest) ==
  net' = rest \cup Datagrams("R", IF snd'.status = "sending" THEN SendWindow(snd') ELSE {},
                             Written)

SenderStart ==
  /\ snd.status = "sending" /\ ~Started
  /\ snd' = NextRound(snd)
  /\ Transmit(net)
  /\ UNCHANGED <<rcv, faults>>

\* An ACK that covers part of the window: advance it and send the next one.
SenderAdvances ==
  \E d \in net : \E rest \in {net, net \ {d}} :
    /\ Sending
    /\ d.packet.type = "ACK"
    /\ Advances(snd, d.packet.block)
    /\ Arrives(d, "S", rest)
    /\ snd' = NextRound(ConsumeAck(snd, d.packet.block))
    /\ Transmit(rest)
    /\ UNCHANGED rcv

\* An ACK that covers nothing: the whole window is sent again.
SenderStaleAck ==
  \E d \in net : \E rest \in {net, net \ {d}} :
    /\ Sending
    /\ d.packet.type = "ACK"
    /\ ~Advances(snd, d.packet.block)
    /\ Arrives(d, "S", rest)
    /\ snd' = snd
    /\ Transmit(rest)
    /\ UNCHANGED rcv

\* A packet that is neither ACK nor ERROR is ignored, but the loop it is
\* received in starts with send_window.
SenderOther ==
  \E d \in net : \E rest \in {net, net \ {d}} :
    /\ Sending
    /\ d.packet.type \notin {"ACK", "ERROR"}
    /\ Arrives(d, "S", rest)
    /\ snd' = snd
    /\ Transmit(rest)
    /\ UNCHANGED rcv

SenderError ==
  \E d \in net : \E rest \in {net, net \ {d}} :
    /\ Sending
    /\ d.packet.type = "ERROR"
    /\ Arrives(d, "S", rest)
    /\ snd' = [snd EXCEPT !.status = "failed"]
    /\ net' = rest
    /\ UNCHANGED rcv

SenderRetransmits ==
  /\ Sending
  /\ snd.attempt < SRetries
  /\ Deadline
  /\ snd' = [snd EXCEPT !.attempt = @ + 1]
  /\ Transmit(net)
  /\ UNCHANGED rcv

\* A mutant: the sender gives up one deadline early.
SenderGivesUpEarly ==
  /\ Sending
  /\ snd.attempt + 1 >= SRetries
  /\ Deadline
  /\ snd' = [snd EXCEPT !.status = "failed"]
  /\ net' = net \cup Datagrams("R", GiveUpPackets("S"), Written)
  /\ UNCHANGED rcv

SenderGivesUp ==
  /\ Sending
  /\ snd.attempt >= SRetries
  /\ Deadline
  /\ snd' = [snd EXCEPT !.status = "failed"]
  /\ net' = net \cup Datagrams("R", GiveUpPackets("S"), Written)
  /\ UNCHANGED rcv

\* Reading the file fails while the window is refilled: run() returns at once
\* and tells the peer nothing.
SenderReadFails ==
  /\ IoErrors
  /\ Fault
  /\ ~LastSentShort(snd)
  /\ \/ /\ snd.status = "sending" /\ ~Started
        /\ net' = net
     \/ \E d \in net :
          /\ Sending
          /\ d.dst = "S"
          /\ d.packet.type = "ACK"
          /\ Advances(snd, d.packet.block)
          /\ net' = net \ {d}
  /\ snd' = [snd EXCEPT !.status = "failed"]
  /\ UNCHANGED rcv

-----------------------------------------------------------------------------
(* The receiver.                                                           *)

ReceiverAccepts ==
  \E d \in net : \E rest \in {net, net \ {d}} :
    /\ Receiving
    /\ d.packet.type = "DATA"
    /\ Expects(rcv, d.packet.block)
    /\ Arrives(d, "R", rest)
    /\ rcv' = AcceptBlock(rcv, d.packet.block, d.packet.data)
    /\ LET acks == IF AnswersAtOnce(rcv, d.packet.data)
                   THEN {AckPacket(d.packet.block)} ELSE {}
       IN  net' = Aged(rest \cup Datagrams("S", acks, Written + 1), Written + 1)
    /\ UNCHANGED snd

\* A mutant: what is not expected is dropped without an answer.
ReceiverDropsSilently ==
  \E d \in net : \E rest \in {net, net \ {d}} :
    /\ Receiving
    /\ d.packet.type = "DATA"
    /\ ~Expects(rcv, d.packet.block)
    /\ Arrives(d, "R", rest)
    /\ rcv' = RejectBlock(rcv)
    /\ net' = rest
    /\ UNCHANGED snd

ReceiverRejects ==
  \E d \in net : \E rest \in {net, net \ {d}} :
    /\ Receiving
    /\ d.packet.type = "DATA"
    /\ ~Expects(rcv, d.packet.block)
    /\ Arrives(d, "R", rest)
    /\ rcv' = RejectBlock(rcv)
    /\ net' = rest \cup Datagrams("S", {AckPacket(rcv.last_acked)}, Written)
    /\ UNCHANGED snd

ReceiverOther ==
  \E d \in net : \E rest \in {net, net \ {d}} :
    /\ Receiving
    /\ d.packet.type \notin {"DATA", "ERROR"}
    /\ Arrives(d, "R", rest)
    /\ net' = rest
    /\ UNCHANGED <<snd, rcv>>

ReceiverError ==
  \E d \in net : \E rest \in {net, net \ {d}} :
    /\ Receiving
    /\ d.packet.type = "ERROR"
    /\ Arrives(d, "R", rest)
    /\ rcv' = [rcv EXCEPT !.status = "failed"]
    /\ net' = rest
    /\ UNCHANGED snd

\* A mutant: the deadlines are not counted.
ReceiverReAcksForEver ==
  /\ Receiving
  /\ Deadline
  /\ rcv' = rcv
  /\ net' = net \cup Datagrams("S", {AckPacket(rcv.last_acked)}, Written)
  /\ UNCHANGED snd

\* The timeout acknowledges again, and leaves blocks_in_window as it is.
ReceiverReAcks ==
  /\ Receiving
  /\ rcv.attempt < RRetries
  /\ Deadline
  /\ rcv' = [rcv EXCEPT !.attempt = @ + 1]
  /\ net' = net \cup Datagrams("S", {AckPacket(rcv.last_acked)}, Written)
  /\ UNCHANGED snd

ReceiverGivesUp ==
  /\ Receiving
  /\ rcv.attempt >= RRetries
  /\ Deadline
  /\ rcv' = [rcv EXCEPT !.status = "failed"]
  /\ net' = net \cup Datagrams("S", GiveUpPackets("R"), Written)
  /\ UNCHANGED snd

\* Writing the block fails: the loop returns before it acknowledges.  The file is what
\* has been handed to its handle: tokio's File may report that a write has failed only
\* at a later one, which is this step for a later block, or when it is flushed, which
\* is this step for the last block of an upload, ReceiverFinishFails for a download's.
ReceiverWriteFails ==
  \E d \in net :
    /\ IoErrors
    /\ Fault
    /\ Receiving
    /\ d.dst = "R"
    /\ d.packet.type = "DATA"
    /\ Expects(rcv, d.packet.block)
    /\ rcv' = [rcv EXCEPT !.status = "failed"]
    /\ net' = net \ {d}
    /\ UNCHANGED snd

\* A mutant: the server, too, acknowledges before it flushes.
NobodyFlushesFirst ==
  \E d \in net :
    /\ IoErrors
    /\ Fault
    /\ Receiving
    /\ d.dst = "R"
    /\ d.packet.type = "DATA"
    /\ Expects(rcv, d.packet.block)
    /\ IsFinal(rcv, d.packet.data)
    /\ rcv' = [AcceptBlock(rcv, d.packet.block, d.packet.data) EXCEPT !.status = "failed"]
    /\ net' = Aged((net \ {d}) \cup Datagrams("S", {AckPacket(d.packet.block)}, Written + 1),
                   Written + 1)
    /\ UNCHANGED snd

\* The client acknowledges the final block before writer.finish(), so its last
\* flush can still fail; the server flushes first and acknowledges afterwards.
ReceiverFinishFails ==
  \E d \in net :
    /\ IoErrors
    /\ Fault
    /\ Receiving
    /\ Server = "S"
    /\ d.dst = "R"
    /\ d.packet.type = "DATA"
    /\ Expects(rcv, d.packet.block)
    /\ IsFinal(rcv, d.packet.data)
    /\ rcv' = [AcceptBlock(rcv, d.packet.block, d.packet.data) EXCEPT !.status = "failed"]
    /\ net' = Aged((net \ {d}) \cup Datagrams("S", {AckPacket(d.packet.block)}, Written + 1),
                   Written + 1)
    /\ UNCHANGED snd

-----------------------------------------------------------------------------
(* The transfer.                                                           *)

\* What the handshake may leave on its way: a duplicate of the OACK to the
\* client, and a repeated ACK(0) to the sender.
Leftovers == Datagrams(Client, {OackPacket}, 0) \cup Datagrams("S", {AckPacket(0)}, 0)

Init ==
  /\ snd = NewSender(Source, SWindow)
  /\ rcv = NewReceiver(RWindow, BlkSize)
  /\ net \in SUBSET Leftovers
  /\ faults = 0

SenderReceives   == SenderAdvances \/ SenderStaleAck \/ SenderOther \/ SenderError
ReceiverReceives == ReceiverAccepts \/ ReceiverRejects \/ ReceiverOther \/ ReceiverError
SenderTimeout    == SenderRetransmits \/ SenderGivesUp
ReceiverTimeout  == ReceiverReAcks \/ ReceiverGivesUp

\* Both ends have returned.
Ended == snd.status # "sending" /\ rcv.status # "receiving"
Terminated == Ended /\ UNCHANGED vars

Next ==
  \/ SenderStart \/ SenderReceives \/ SenderTimeout \/ SenderReadFails
  \/ ReceiverReceives \/ ReceiverTimeout \/ ReceiverWriteFails \/ ReceiverFinishFails
  \/ Lose
  \/ Terminated

Spec == Init /\ [][Next]_vars

\* The runtime polls a task whose socket is readable or whose timer has fired,
\* and a socket queues datagrams in order: one that has arrived is not passed
\* over for ever in favour of others.  Nothing else is fair: no fault need
\* happen, and no deadline need pass while datagrams are on their way.
Fairness ==
  /\ WF_vars(SenderStart)
  /\ WF_vars(SenderReceives)
  /\ WF_vars(SenderAdvances)
  /\ WF_vars(ReceiverReceives)
  /\ WF_vars(ReceiverAccepts)
  /\ WF_vars(SenderTimeout /\ Quiet)
  /\ WF_vars(ReceiverTimeout /\ Quiet)

FairSpec == Spec /\ Fairness
=============================================================================
