--------------------------- MODULE TransferPromise ---------------------------
(***************************************************************************)
(* What a transfer promises, with no packets in it: the file grows by one  *)
(* block of the source at a time, each end returns once, and nobody        *)
(* reports success before the file is complete.  The data phase by itself  *)
(* implements it, and so do a download and an upload, whatever goes on in  *)
(* them before, or besides, their data phase.                              *)
(*                                                                         *)
(* FlushesFirst says whether the receiver makes the file durable before it *)
(* sends the last ACK, as the server does.  If so, a sender that succeeds  *)
(* knows that the receiver has succeeded.  If not, as with the client, the *)
(* sender knows that the file is complete, and the receiver may still be   *)
(* busy with it, and fail.                                                 *)
(***************************************************************************)
EXTENDS Naturals, Sequences

CONSTANTS
  FlushesFirst   (* BOOLEAN                                                  *)

VARIABLES
  source,        (* The file that is sent, cut into blocks: it stays so.     *)
  file,          (* The blocks written.                                      *)
  sender,        (* "sending", "ok" or "failed".                             *)
  receiver       (* "receiving", "ok" or "failed".                           *)

promised == <<source, file, sender, receiver>>

Complete == file = source

Init == file = << >> /\ sender = "sending" /\ receiver = "receiving"

\* The next block of the source is written; with the last the receiver returns, or
\* goes on to make the file durable if it has not yet.
Write ==
  /\ receiver = "receiving"
  /\ ~Complete
  /\ file' = Append(file, source[Len(file) + 1])
  /\ receiver' \in IF file' # source THEN {"receiving"}
                   ELSE IF FlushesFirst THEN {"ok"} ELSE {"receiving", "ok", "failed"}
  /\ UNCHANGED <<source, sender>>

ReceiverSucceeds ==
  /\ receiver = "receiving"
  /\ Complete
  /\ receiver' = "ok"
  /\ UNCHANGED <<source, file, sender>>

ReceiverFails ==
  /\ receiver = "receiving"
  /\ receiver' = "failed"
  /\ UNCHANGED <<source, file, sender>>

SenderSucceeds ==
  /\ sender = "sending"
  /\ Complete
  /\ FlushesFirst => receiver = "ok"
  /\ sender' = "ok"
  /\ UNCHANGED <<source, file, receiver>>

SenderFails ==
  /\ sender = "sending"
  /\ sender' = "failed"
  /\ UNCHANGED <<source, file, receiver>>

Next == Write \/ ReceiverSucceeds \/ ReceiverFails \/ SenderSucceeds \/ SenderFails

Spec == Init /\ [][Next]_promised
=============================================================================
