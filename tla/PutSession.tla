----------------------------- MODULE PutSession -----------------------------
(***************************************************************************)
(* A whole upload: do_put from its write request to its return, and the    *)
(* server's tasks that serve its requests.  Each task opens the same file, *)
(* and writes at an offset of its own.                                     *)
(***************************************************************************)
EXTENDS Session

Hole == 0
OldFile == <<FileLen + 1>>

ASSUME NoneIsNoFile == None \notin Seq(0 .. FileLen + 1)

\* A mutant: every write goes to the beginning of the file.
WriteAtStart(bytes, pos, data) ==
  [i \in 1 .. IF Len(bytes) > data.len THEN Len(bytes) ELSE data.len |->
     IF i <= data.len THEN data.at + i ELSE bytes[i]]

\* write_all at offset pos of a handle, whatever other handles have done to the
\* file.  A hole is read as zero.
WriteAt(bytes, pos, data) ==
  IF data.len = 0 THEN bytes
  ELSE [i \in 1 .. IF Len(bytes) > pos + data.len THEN Len(bytes) ELSE pos + data.len |->
          IF i \in pos + 1 .. pos + data.len THEN data.at + (i - pos)
          ELSE IF i <= Len(bytes) THEN bytes[i] ELSE Hole]

-----------------------------------------------------------------------------
(* The client asks.  Packets other than OACK, ACK(0) and ERROR cannot come *)
(* from this server.                                                       *)

\* set_blksize, and the first window is on its way.
StartsSending(src, neg, rest) ==
  LET s == NextRound(NewSender(Cut(neg.blksize), neg.windowsize))
  IN  /\ client' = [client EXCEPT !.phase = "data", !.peer = src,
                                  !.blksize = neg.blksize, !.end = s]
      /\ net' = rest \cup Datagrams(Client, src, SendWindow(s))

ClientMergesOack(d, rest) ==
  /\ Requesting
  /\ d.packet.type = "OACK"
  /\ WantsOack
  /\ StartsSending(d.src, MergeOack(Defaults, FromPairs(d.packet.options)), rest)

\* ACK(0) says that the server has ignored the options: the defaults hold.
ClientFallsBack(d, rest) ==
  /\ Requesting
  /\ d.packet.type = "ACK"
  /\ d.packet.block = 0
  /\ StartsSending(d.src, Defaults, rest)

-----------------------------------------------------------------------------
(* The client sends.  The attempts of this phase are those of the sender.  *)

SendsWindow(s, rest) ==
  /\ client' = [client EXCEPT !.end = s, !.phase = IF s.status = "ok" THEN "ok" ELSE @]
  /\ net' = rest \cup Datagrams(Client, client.peer,
                                IF s.status = "ok" THEN {} ELSE SendWindow(s))

ClientAdvances(d, rest) ==
  /\ Transferring
  /\ FromPeer(d)
  /\ d.packet.type = "ACK"
  /\ Advances(client.end, d.packet.block)
  /\ SendsWindow(NextRound(ConsumeAck(client.end, d.packet.block)), rest)

ClientStaleAck(d, rest) ==
  /\ Transferring
  /\ FromPeer(d)
  /\ d.packet.type = "ACK"
  /\ ~Advances(client.end, d.packet.block)
  /\ SendsWindow(client.end, rest)

\* A mutant: an OACK that comes late starts the upload over again with its sender.
ClientAdoptsAnother(d, rest) ==
  /\ Transferring
  /\ d.packet.type = "OACK"
  /\ StartsSending(d.src, MergeOack(Defaults, FromPairs(d.packet.options)), rest)

\* The OACK once more: ignored, but the loop starts with the window.
ClientOther(d, rest) ==
  /\ Transferring
  /\ FromPeer(d)
  /\ d.packet.type = "OACK"
  /\ SendsWindow(client.end, rest)

ClientRetransmits ==
  /\ Transferring
  /\ client.end.attempt < client.opts.retries
  /\ SendsWindow([client.end EXCEPT !.attempt = @ + 1], net)

-----------------------------------------------------------------------------
(* The server.                                                             *)

NewTask(neg) == [end |-> NewReceiver(neg.windowsize, neg.blksize), pos |-> 0]

\* A mutant: the file is opened without create_new whatever has been configured.
OpensAnyway == TRUE

MayOpen == config.allow_overwrite \/ disk = None

\* The file is created or truncated, and the task answers.
TaskOpens(d, rest) ==
  /\ MayOpen
  /\ disk' = << >>
  /\ LET requested == FromPairs(d.packet.options)
         granted   == Granted(config, requested, None)
     IN  /\ tasks' = Append(tasks, NewTask(Negotiated(config, requested)))
         /\ net' = rest \cup Datagrams(NewTid, Client,
                     {IF granted = << >> THEN AckPacket(0) ELSE OackPacket(granted)})

TaskIsRefused(d, rest) ==
  /\ ~MayOpen
  /\ TaskRefuses(NewTask(Defaults), rest, "FileExists")
  /\ UNCHANGED disk

TaskAccepts(t, d, rest) ==
  /\ d.packet.type = "DATA"
  /\ Expects(tasks[t].end, d.packet.block)
  /\ tasks' = [tasks EXCEPT ![t].end = AcceptBlock(@, d.packet.block, d.packet.data),
                            ![t].pos = @ + d.packet.data.len]
  /\ disk' = WriteAt(disk, tasks[t].pos, d.packet.data)
  /\ net' = rest \cup Datagrams(t, Client, IF AnswersAtOnce(tasks[t].end, d.packet.data)
                                           THEN {AckPacket(d.packet.block)} ELSE {})

TaskRejects(t, d, rest) ==
  /\ d.packet.type = "DATA"
  /\ ~Expects(tasks[t].end, d.packet.block)
  /\ tasks' = [tasks EXCEPT ![t].end = RejectBlock(@)]
  /\ net' = rest \cup Datagrams(t, Client, {AckPacket(tasks[t].end.last_acked)})
  /\ UNCHANGED disk

\* A mutant: the deadlines are not counted.
TaskReAcksForEver(t) ==
  /\ net' = net \cup Datagrams(t, Client, {AckPacket(tasks[t].end.last_acked)})
  /\ UNCHANGED tasks

\* Before the first DATA this repeats ACK(0), even when the answer was an OACK.
TaskReAcks(t) ==
  /\ tasks[t].end.attempt < config.retries
  /\ tasks' = [tasks EXCEPT ![t].end.attempt = @ + 1]
  /\ net' = net \cup Datagrams(t, Client, {AckPacket(tasks[t].end.last_acked)})

-----------------------------------------------------------------------------
(* The upload.                                                             *)

Init ==
  /\ config \in Configs
  /\ \E opts \in ClientOptions :
       client = NewClient(opts, "WRQ", FileLen, NewSender(<< >>, 1))
  /\ tasks = << >>
  /\ disk \in {None, OldFile}
  /\ net = Ask(client.request, 0)
  /\ faults = 0

ClientReceives ==
  \E d \in net : \E rest \in {net, net \ {d}} :
    /\ Arrives(d, Client, rest)
    /\ \/ ClientMergesOack(d, rest) \/ ClientFallsBack(d, rest)
       \/ ClientAdvances(d, rest) \/ ClientStaleAck(d, rest) \/ ClientOther(d, rest)
       \/ ClientHearsError(d, rest) \/ ClientTurnsAway(d, rest)
    /\ UNCHANGED <<config, tasks, disk>>

ClientTimeout ==
  /\ Deadline(Client)
  /\ ClientAsksAgain \/ ClientRetransmits \/ ClientGivesUp
  /\ UNCHANGED <<config, tasks, disk>>

TaskStarts ==
  \E d \in net : \E rest \in {net, net \ {d}} :
    /\ Arrives(d, Listener, rest)
    /\ TaskOpens(d, rest) \/ TaskIsRefused(d, rest)
    /\ UNCHANGED <<config, client>>

TaskReceives(t) ==
  \E d \in net : \E rest \in {net, net \ {d}} :
    /\ Arrives(d, t, rest)
    /\ \/ TaskAccepts(t, d, rest) \/ TaskRejects(t, d, rest)
       \/ TaskHearsError(t, d, rest) /\ UNCHANGED disk
    /\ UNCHANGED <<config, client>>

TaskTimeout(t) ==
  /\ Deadline(t)
  /\ TaskReAcks(t) \/ TaskGivesUp(t)
  /\ UNCHANGED <<config, client, disk>>

Next ==
  \/ ClientReceives \/ ClientTimeout
  \/ TaskStarts
  \/ \E t \in DOMAIN tasks : TaskReceives(t) \/ TaskTimeout(t)
  \/ Lose
  \/ Terminated

Spec == Init /\ [][Next]_vars

\* The receptions that bring the upload forward.
ClientProgresses ==
  \E d \in net : \E rest \in {net, net \ {d}} :
    Arrives(d, Client, rest) /\ ClientAdvances(d, rest) /\ UNCHANGED <<config, tasks, disk>>

TaskProgresses(t) ==
  \E d \in net : \E rest \in {net, net \ {d}} :
    Arrives(d, t, rest) /\ TaskAccepts(t, d, rest) /\ UNCHANGED <<config, client>>

\* As in WindowedTransfer: sockets and timers are polled, a datagram that has
\* arrived is not passed over for ever, and nothing else is fair.
Fairness ==
  /\ WF_vars(ClientReceives)
  /\ WF_vars(ClientProgresses)
  /\ WF_vars(ClientTimeout /\ Quiet(Client))
  /\ WF_vars(TaskStarts)
  /\ \A t \in 1 .. MaxTasks :
       /\ WF_vars(t \in DOMAIN tasks /\ TaskReceives(t))
       /\ WF_vars(t \in DOMAIN tasks /\ TaskProgresses(t))
       /\ WF_vars(t \in DOMAIN tasks /\ TaskTimeout(t) /\ Quiet(t))

FairSpec == Spec /\ Fairness
=============================================================================
