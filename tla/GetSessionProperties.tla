------------------------ MODULE GetSessionProperties -------------------------
(***************************************************************************)
(* What a download must satisfy, from its first request on.                *)
(***************************************************************************)
EXTENDS GetSession

\* What the server makes of the request, the same for every copy of it.
Requested == FromPairs(client.request.options)
Params == Negotiated(config, Requested)
Source == Cut(Params.blksize)

\* The shape of the state.
TypeOK ==
  /\ config \in Configs
  /\ client.opts \in ClientOptions
  /\ client.phase \in {"request", "data", "finishing", "ok", "failed"}
  /\ client.attempt \in 0 .. client.opts.retries
  /\ client.peer \in 0 .. Len(tasks)
  /\ client.end.attempt \in 0 .. client.opts.retries
  /\ client.error \in {"none", "timeout", "FileNotFound", "NotDefined", "UnexpectedPacket",
                       "Io"}
  /\ Len(tasks) <= MaxTasks
  /\ \A t \in DOMAIN tasks :
       /\ tasks[t].end.status \in {"sending", "ok", "failed"}
       /\ tasks[t].end.attempt \in 0 .. config.retries
  /\ disk \in {None, File}
  /\ faults \in 0 .. MaxFaults

\* From its first block on the client uses the blksize and the windowsize with
\* which its peer has cut and sends the file, whichever of several OACKs and
\* first blocks has reached it, and whichever of them have been lost.
SameParameters ==
  client.phase \in {"data", "finishing", "ok"} =>
    LET peer == tasks[client.peer]
    IN  /\ client.blksize = peer.blksize
        /\ client.end.window = peer.end.window

\* get returns Ok only with the whole file, each block once and in its place.  The
\* server reports success only when the client has written all of it; the client may
\* then still be busy with writer.finish, which alone can make it fail.
SuccessMeansWhole ==
  /\ client.phase = "ok" => client.end.file = Source
  /\ \A t \in DOMAIN tasks :
       tasks[t].end.status = "ok" =>
         /\ client.peer = t /\ client.end.file = Source
         /\ client.phase \in {"finishing", "ok"} \/ client.error = "Io"

\* The download implements TransferPromise: requests that are served twice, OACKs
\* and their repetitions, tasks that the client turns away and packets of any of
\* them do nothing but write the file at the client, in order, and return; and a
\* task succeeds only when the client has written all of it, which has then still to
\* be flushed.  The sender is no task in particular: it has succeeded when one of
\* them has.
Promise == INSTANCE TransferPromise WITH
  FlushesFirst <- FALSE,
  source <- Source, file <- client.end.file,
  sender <- IF \E t \in DOMAIN tasks : tasks[t].end.status = "ok" THEN "ok" ELSE "sending",
  receiver <- IF client.phase \in {"ok", "failed"} THEN client.phase ELSE "receiving"

KeepsPromise == Promise!Spec

\* A client that has no peer yet is never sent a later block than the first:
\* UnexpectedPacket does not end a download.
FirstComesFirst ==
  client.phase = "request" =>
    \A d \in net : d.dst = Client /\ d.packet.type = "DATA" => d.packet.block = 1

\* Nothing but ACK(0), or the word that it has lost the race, reaches a task
\* that waits for ACK(0), so no packet of its client uses up its attempts.
NothingElseAwaited ==
  \A d \in net :
    d.dst \in DOMAIN tasks /\ Active(d.dst) /\ Waiting(d.dst) =>
      d.packet \in {AckPacket(0), ErrorPacket("UnknownTid")}

\* Once the client has a block, no more misfortunes than retries allow make the
\* download fail, unless the client's own disk does.  (Before, one lost ACK(0) may:
\* the OACKs that the server then repeats start the client's deadline over again and
\* are not answered.)
RobustOnceBegun ==
  faults <= client.opts.retries /\ faults <= config.retries /\ client.phase = "failed" =>
    client.end.file = << >> \/ client.error = "Io"

\* The client and all tasks come to an end.
AllReturn == <>[]Ended
=============================================================================
