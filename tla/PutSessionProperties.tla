------------------------- MODULE PutSessionProperties -------------------------
(***************************************************************************)
(* What an upload must satisfy, from its first request on.                 *)
(***************************************************************************)
EXTENDS PutSession

Byte == 0 .. FileLen + 1

\* The shape of the state.
TypeOK ==
  /\ config \in Configs
  /\ client.phase \in {"request", "data", "ok", "failed"}
  /\ client.attempt \in 0 .. client.opts.retries
  /\ client.peer \in 0 .. Len(tasks)
  /\ client.end.attempt \in 0 .. client.opts.retries
  /\ client.error \in {"none", "timeout", "FileExists", "NotDefined"}
  /\ \A t \in DOMAIN tasks :
       /\ tasks[t].end.status \in {"receiving", "ok", "failed"}
       /\ tasks[t].end.attempt \in 0 .. config.retries
       /\ tasks[t].pos \in 0 .. FileLen
  /\ disk = None \/ disk \in Seq(Byte)
  /\ faults \in 0 .. MaxFaults

\* put returns Ok only if the remote file is the local one, and it stays so,
\* whatever becomes of requests that arrive late.
OkMeansIntact == client.phase = "ok" => disk = File

\* The file has been opened once at most, as it always is without allow_overwrite.
Once == ~config.allow_overwrite \/ Len(tasks) <= 1

\* client.rs says that the OACK or ACK has settled the negotiated value when it
\* calls set_blksize: the client cuts the file as its peer expects it.
BlksizeSettled ==
  client.peer # Client => client.blksize = tasks[client.peer].end.blksize

\* If the file has been opened once and the blksize is settled, either end that
\* reports success is right, also if the OACK was lost and the two ends use
\* different windows; and put succeeds only if its task does.
SuccessMeansIntact ==
  Once /\ BlksizeSettled =>
    /\ OkMeansIntact
    /\ client.phase = "ok" => tasks[client.peer].end.status = "ok"
    /\ \A t \in DOMAIN tasks : tasks[t].end.status = "ok" => disk = File

\* Only the task whose TID the client has chosen ever writes: the tasks that
\* serve repetitions of the request get no DATA, and are told to stop.
OnlyPeerWrites ==
  \A t \in DOMAIN tasks : tasks[t].pos > 0 => client.peer = t

\* The refusal of a repeated request does not end an upload that has begun with
\* the task of an earlier one.
RefusalNotMistaken ==
  client.error = "FileExists" => client.peer = Client

\* What the server makes of the request, the same for every copy of it.
Requested == FromPairs(client.request.options)
Params == Negotiated(config, Requested)

\* The first n blocks that the server cuts these bytes into.
Pieces(bytes, n) ==
  [i \in 1 .. n |-> LET block == Cut(Params.blksize)[i]
                     IN  SubSeq(bytes, block.at + 1, block.at + block.len)]

Source == Pieces(File, Len(Cut(Params.blksize)))

FirstTask == IF tasks = << >> THEN "receiving" ELSE tasks[1].end.status

\* How many blocks the disk holds: none of a file that was there before, all when the
\* task has ended well (the last one may be empty), and only full ones until then.
OnDisk ==
  IF disk \in {None, OldFile} THEN 0
  ELSE IF FirstTask = "ok" THEN Len(Cut(Params.blksize))
  ELSE Len(disk) \div Params.blksize

\* The upload implements TransferPromise, as long as the file has been opened once
\* and the blksize is settled: repeated requests, refusals and tasks that the client
\* turns away do nothing to the disk, which takes the blocks in order; and put
\* returns Ok only after its task.
Promise == INSTANCE TransferPromise WITH
  FlushesFirst <- TRUE,
  source <- Source, file <- Pieces(disk, OnDisk),
  sender <- IF client.phase \in {"ok", "failed"} THEN client.phase ELSE "sending",
  receiver <- FirstTask

KeepsPromise ==
  /\ Promise!Init
  /\ [][Once' /\ BlksizeSettled' => Promise!Next \/ UNCHANGED Promise!promised]_vars

\* The client and all tasks come to an end.
AllReturn == <>[]Ended
=============================================================================
