------------------------------ MODULE Session -------------------------------
(***************************************************************************)
(* What uploads (PutSession) and downloads (GetSession) have in common:    *)
(* one client, the tasks that the listener spawns for its requests, the    *)
(* remote file, and the network between them.  The listener spawns a task  *)
(* with a socket of its own for every request that reaches it, so one that *)
(* is sent again, or duplicated, is served twice; each task answers from   *)
(* its own transfer identifier (TID).  The client takes the first answer   *)
(* it gets and turns the others away.                                      *)
(*                                                                         *)
(* An action takes the client or a task from one recv call to the next.    *)
(* The spawned task's first steps (bind, open, negotiate, answer) are one  *)
(* action: nobody can talk to a task that has not answered, and two tasks  *)
(* that open the file in either order are in the same state.               *)
(*                                                                         *)
(* The network loses, duplicates, delays and reorders, with at most        *)
(* MaxFaults losses, duplicates and timeouts while datagrams are on their  *)
(* way.  Wraps of the block number are left to WindowedTransfer: Modulus   *)
(* exceeds the number of blocks here.                                      *)
(***************************************************************************)
EXTENDS BlockSender, BlockReceiver, Negotiation

CONSTANTS
  ClientOptions,  (* Options of the client.                                 *)
  Configs,        (* Configurations of the server.                          *)
  FileLen,        (* Length in bytes of the file that is transferred.       *)
  MaxTasks,       (* Bound on the requests that reach the listener.         *)
  MaxFaults       (* Bound on the misfortunes of a behaviour.               *)

\* (A max_block_size below MinBlockSize is the business of Handshake.)
ASSUME SessionAssumption ==
  /\ \A c \in Configs : /\ c.max_block_size \in Nat /\ c.max_block_size >= MinBlockSize
                         /\ c.retries \in Nat
  /\ \A o \in ClientOptions : o.retries \in Nat
  /\ FileLen \in 0 .. MaxU64
  /\ MaxTasks \in Nat \ {0} /\ MaxFaults \in Nat

VARIABLES
  config,      (* The server's config.                                       *)
  client,      (* opts, request, phase, attempt, peer and error of the       *)
               (* client, and its end of the transfer.  The phase is         *)
               (* "request", "data", "finishing" (after the last ACK of a    *)
               (* download), "ok" or "failed".                               *)
  tasks,       (* The tasks the listener has spawned, in their order; each   *)
               (* has the other end of a transfer.                           *)
  disk,        (* The bytes of the remote file, None if there is none.       *)
  net,         (* The datagrams on their way.                                *)
  faults       (* How many misfortunes there have been.                      *)

vars == <<config, client, tasks, disk, net, faults>>

-----------------------------------------------------------------------------
(* Files.  A byte is told apart by its place in the file that is           *)
(* transferred.  A block is a stretch of that file.                        *)

File == [i \in 1 .. FileLen |-> i]

\* The blocks that next_block and read_one_block cut the file into.
Cut(blksize) ==
  LET full == FileLen \div blksize
  IN  [i \in 1 .. full + 1 |->
         [at |-> (i - 1) * blksize, len |-> IF i <= full THEN blksize ELSE FileLen % blksize]]

-----------------------------------------------------------------------------
(* Datagrams.  An endpoint is its TID: the listener's port, the client's   *)
(* socket, or the number of a task.  The field copy of a request is no     *)
(* part of the packet; it keeps the requests apart while several are on    *)
(* their way.                                                              *)

Listener == -1
Client == 0

Datagrams(src, dst, packets) == {[src |-> src, dst |-> dst, packet |-> p] : p \in packets}

RequestPacket(verb, options) == [type |-> verb, options |-> ToPairs(options), copy |-> 0]
OackPacket(options) == [type |-> "OACK", options |-> ToPairs(options)]
ErrorPacket(code) == [type |-> "ERROR", code |-> code]

Ask(request, attempt) == Datagrams(Client, Listener, {[request EXCEPT !.copy = attempt]})

Active(t) == tasks[t].end.status \in {"sending", "receiving"}
Requesting == client.phase = "request"
Transferring == client.phase = "data"

Listens(end) ==
  CASE end = Listener -> Len(tasks) < MaxTasks
    [] end = Client   -> Requesting \/ Transferring
    [] OTHER          -> Active(end)

Fault == faults < MaxFaults /\ faults' = faults + 1

Arrives(d, end, rest) ==
  /\ d.dst = end
  /\ Listens(end)
  /\ \/ rest = net \ {d} /\ UNCHANGED faults
     \/ rest = net /\ Fault

\* Once the client has a peer, each task has a conversation of its own with the
\* client, and what goes on in the others keeps nobody in this one waiting.
Concerns(d, end) ==
  \/ Requesting
  \/ {d.src, d.dst} \subseteq {Client, IF end = Client THEN client.peer ELSE end}

\* Nothing that end could be waiting for is on its way.
Quiet(end) == \A d \in net : Listens(d.dst) => ~Concerns(d, end)

Deadline(end) ==
  /\ Listens(end)
  /\ \/ Quiet(end) /\ UNCHANGED faults
     \/ ~Quiet(end) /\ Fault

Lose ==
  /\ \E d \in net : Listens(d.dst) /\ net' = net \ {d}
  /\ Fault
  /\ UNCHANGED <<config, client, tasks, disk>>

-----------------------------------------------------------------------------
(* The client, as far as do_get and do_put are the same.  While it asks it *)
(* takes packets from any source.  A handler gets the datagram d that has  *)
(* arrived and the rest of the net.                                        *)

\* The request is encoded once, and sent again after every timeout.
NewClient(opts, verb, size, end) ==
  [opts    |-> opts,      request |-> RequestPacket(verb, BuildRequestOptions(opts, size)),
   phase   |-> "request", attempt |-> 0, peer |-> Client, blksize |-> 0,
   error   |-> "none",    end     |-> end]

WantsOack == client.request.options # << >>

ClientFailsWith(error) == client' = [client EXCEPT !.phase = "failed", !.error = error]

\* A mutant: one attempt too many.
ClientAsksOnceMore ==
  /\ Requesting
  /\ client.attempt <= client.opts.retries
  /\ client' = [client EXCEPT !.attempt = @ + 1]
  /\ net' = net \cup Ask(client.request, client'.attempt)

ClientAsksAgain ==
  /\ Requesting
  /\ client.attempt < client.opts.retries
  /\ client' = [client EXCEPT !.attempt = @ + 1]
  /\ net' = net \cup Ask(client.request, client'.attempt)

\* A mutant: the client is one attempt short.
ClientGivesUpEarly ==
  /\ \/ Requesting /\ client.attempt = client.opts.retries
     \/ Transferring /\ client.end.attempt + 1 >= client.opts.retries
  /\ ClientFailsWith("timeout")
  /\ UNCHANGED net

\* Nobody has answered, or the peer has fallen silent.
ClientGivesUp ==
  /\ \/ Requesting /\ client.attempt = client.opts.retries
     \/ Transferring /\ client.end.attempt >= client.opts.retries
  /\ ClientFailsWith("timeout")
  /\ UNCHANGED net

\* A mutant: the source of a packet is not looked at.
FromAnyone(d) == TRUE

FromPeer(d) == d.src = client.peer

ClientHearsError(d, rest) ==
  /\ Requesting \/ FromPeer(d)
  /\ d.packet.type = "ERROR"
  /\ ClientFailsWith(d.packet.code)
  /\ net' = rest

\* recv_one answers a stranger and goes on waiting.
ClientTurnsAway(d, rest) ==
  /\ Transferring
  /\ ~FromPeer(d)
  /\ net' = rest \cup Datagrams(Client, d.src, {ErrorPacket("UnknownTid")})
  /\ UNCHANGED client

-----------------------------------------------------------------------------
(* A task, as far as serve_rrq and serve_wrq are the same.                 *)

NewTid == Len(tasks) + 1

TaskRefuses(end, rest, code) ==
  /\ tasks' = Append(tasks, [end EXCEPT !.end.status = "failed"])
  /\ net' = rest \cup Datagrams(NewTid, Client, {ErrorPacket(code)})

TaskHearsError(t, d, rest) ==
  /\ d.packet.type = "ERROR"
  /\ tasks' = [tasks EXCEPT ![t].end.status = "failed"]
  /\ net' = rest

TaskGivesUp(t) ==
  /\ tasks[t].end.attempt >= config.retries
  /\ tasks' = [tasks EXCEPT ![t].end.status = "failed"]
  /\ net' = net \cup Datagrams(t, Client, {ErrorPacket("NotDefined")})

Ended == client.phase \in {"ok", "failed"} /\ \A t \in DOMAIN tasks : ~Active(t)

Terminated ==
  /\ Ended
  /\ \A d \in net : ~Listens(d.dst)
  /\ UNCHANGED vars
=============================================================================
