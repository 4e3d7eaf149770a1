----------------------------- MODULE GetSession -----------------------------
(***************************************************************************)
(* A whole download: do_get from its read request to its return, and the   *)
(* server's tasks that serve its requests.  A task that grants an option   *)
(* sends an OACK and waits for ACK(0) before the first window; one that    *)
(* grants none begins with DATA(1).                                        *)
(***************************************************************************)
EXTENDS Session

ASSUME NoneIsNoPacket ==
  None \notin [type : {"OACK"}, options : Seq([name : Names, value : Nat])]

-----------------------------------------------------------------------------
(* The client asks.  Packets other than OACK, DATA and ERROR cannot come   *)
(* from this server.                                                       *)

\* A receiver that has taken the last block has acknowledged it, and has yet to make
\* the file durable (writer.finish).
PhaseOf(r) == IF r.status = "ok" THEN "finishing" ELSE "data"

\* The parameters are settled, and the receiving loop begins with r.
StartsReceiving(src, neg, r, acks, rest) ==
  /\ client' = [client EXCEPT !.phase = PhaseOf(r),
                              !.peer = src, !.blksize = neg.blksize, !.end = r]
  /\ net' = rest \cup Datagrams(Client, src, acks)

ClientMergesOack(d, rest) ==
  /\ Requesting
  /\ d.packet.type = "OACK"
  /\ WantsOack
  /\ LET neg == MergeOack(Defaults, FromPairs(d.packet.options))
     IN  StartsReceiving(d.src, neg, NewReceiver(neg.windowsize, neg.blksize),
                         {AckPacket(0)}, rest)

\* DATA says that the server has ignored the options.  It must be the first block.
ClientTakesFirst(d, rest) ==
  /\ Requesting
  /\ d.packet.type = "DATA"
  /\ LET r == NewReceiver(Defaults.windowsize, Defaults.blksize)
     IN  IF d.packet.block = 1
         THEN StartsReceiving(d.src, Defaults, AcceptBlock(r, 1, d.packet.data),
                IF AnswersAtOnce(r, d.packet.data) THEN {AckPacket(1)} ELSE {}, rest)
         ELSE ClientFailsWith("UnexpectedPacket") /\ net' = rest

-----------------------------------------------------------------------------
(* The client receives.                                                    *)

ClientAccepts(d, rest) ==
  /\ Transferring
  /\ FromPeer(d)
  /\ d.packet.type = "DATA"
  /\ Expects(client.end, d.packet.block)
  /\ LET r == AcceptBlock(client.end, d.packet.block, d.packet.data)
     IN  client' = [client EXCEPT !.end = r, !.phase = PhaseOf(r)]
  /\ net' = rest \cup Datagrams(Client, d.src, IF AnswersAtOnce(client.end, d.packet.data)
                                               THEN {AckPacket(d.packet.block)} ELSE {})

ClientRejects(d, rest) ==
  /\ Transferring
  /\ FromPeer(d)
  /\ d.packet.type = "DATA"
  /\ ~Expects(client.end, d.packet.block)
  /\ client' = [client EXCEPT !.end = RejectBlock(@)]
  /\ net' = rest \cup Datagrams(Client, d.src, {AckPacket(client.end.last_acked)})

\* The OACK once more, since its ACK(0) was lost: it is not answered.
ClientIgnores(d, rest) ==
  /\ Transferring
  /\ FromPeer(d)
  /\ d.packet.type = "OACK"
  /\ net' = rest
  /\ UNCHANGED client

\* A mutant: the block that is wanted is named, not the one that was accepted.
ClientAsksForNext ==
  /\ Transferring
  /\ client.end.attempt < client.opts.retries
  /\ client' = [client EXCEPT !.end.attempt = @ + 1]
  /\ net' = net \cup Datagrams(Client, client.peer, {AckPacket(client.end.next_block)})

ClientReAcks ==
  /\ Transferring
  /\ client.end.attempt < client.opts.retries
  /\ client' = [client EXCEPT !.end.attempt = @ + 1]
  /\ net' = net \cup Datagrams(Client, client.peer, {AckPacket(client.end.last_acked)})

\* The last ACK is out when writer.finish writes what the decoder has left and
\* flushes the file.  Meanwhile the client does not read its socket.
ClientFinishes ==
  /\ client.phase = "finishing"
  /\ client' = [client EXCEPT !.phase = "ok"]
  /\ UNCHANGED <<config, tasks, disk, net, faults>>

\* writer.finish fails, and nobody tells the server.  (This ends the client once and
\* for all, so it need not be counted as a misfortune to be bounded.)
ClientFinishFails ==
  /\ client.phase = "finishing"
  /\ ClientFailsWith("Io")
  /\ UNCHANGED <<config, tasks, disk, net, faults>>

-----------------------------------------------------------------------------
(* The server.  While a task waits for ACK(0), oack is the packet it       *)
(* repeats, and end.attempt counts how often it has; then oack is None.    *)
(* A packet other than ACK(0) and ERROR would use up an attempt, but       *)
(* NothingElseAwaited says that none arrives.                              *)

NewTask(neg, oack) ==
  [end |-> NewSender(Cut(neg.blksize), neg.windowsize), blksize |-> neg.blksize, oack |-> oack]

Waiting(t) == tasks[t].oack # None

\* A mutant: the first window goes out together with the OACK.
TaskDoesNotWait(d, rest) ==
  /\ disk # None
  /\ LET requested == FromPairs(d.packet.options)
         task == NewTask(Negotiated(config, requested), None)
         granted == Granted(config, requested, Len(disk))
     IN  /\ tasks' = Append(tasks, [task EXCEPT !.end = NextRound(@)])
         /\ net' = rest \cup Datagrams(NewTid, Client, SendWindow(NextRound(task.end))
                     \cup (IF granted = << >> THEN {} ELSE {OackPacket(granted)}))

TaskOpens(d, rest) ==
  /\ disk # None
  /\ LET requested == FromPairs(d.packet.options)
         granted   == Granted(config, requested, Len(disk))
         oack      == IF granted = << >> THEN None ELSE OackPacket(granted)
         task      == NewTask(Negotiated(config, requested), oack)
         begun     == [task EXCEPT !.end = NextRound(@)]
     IN  /\ tasks' = Append(tasks, IF oack = None THEN begun ELSE task)
         /\ net' = rest \cup Datagrams(NewTid, Client,
                     IF oack = None THEN SendWindow(begun.end) ELSE {oack})

TaskFindsNoFile(d, rest) ==
  /\ disk = None
  /\ TaskRefuses(NewTask(Defaults, None), rest, "FileNotFound")

SendsWindow(t, s, rest) ==
  net' = rest \cup Datagrams(t, Client, IF s.status = "ok" THEN {} ELSE SendWindow(s))

\* ACK(0): send_oack_and_wait_ack0 returns, and run begins.
TaskBegins(t, d, rest) ==
  /\ Waiting(t)
  /\ d.packet = AckPacket(0)
  /\ LET s == NextRound(tasks[t].end)
     IN  /\ tasks' = [tasks EXCEPT ![t].end = s, ![t].oack = None]
         /\ SendsWindow(t, s, rest)

TaskAdvances(t, d, rest) ==
  /\ ~Waiting(t)
  /\ d.packet.type = "ACK"
  /\ Advances(tasks[t].end, d.packet.block)
  /\ LET s == NextRound(ConsumeAck(tasks[t].end, d.packet.block))
     IN  /\ tasks' = [tasks EXCEPT ![t].end = s]
         /\ SendsWindow(t, s, rest)

TaskStaleAck(t, d, rest) ==
  /\ ~Waiting(t)
  /\ d.packet.type = "ACK"
  /\ ~Advances(tasks[t].end, d.packet.block)
  /\ SendsWindow(t, tasks[t].end, rest)
  /\ UNCHANGED tasks

\* A mutant: the OACK is repeated until ACK(0) comes.
TaskRepeatsForEver(t) ==
  /\ net' = net \cup Datagrams(t, Client,
              IF Waiting(t) THEN {tasks[t].oack} ELSE SendWindow(tasks[t].end))
  /\ UNCHANGED tasks

\* The OACK or the window goes out again.
TaskRepeats(t) ==
  /\ tasks[t].end.attempt < config.retries
  /\ tasks' = [tasks EXCEPT ![t].end.attempt = @ + 1]
  /\ net' = net \cup Datagrams(t, Client,
              IF Waiting(t) THEN {tasks[t].oack} ELSE SendWindow(tasks[t].end))

\* Nobody has answered the OACK: the task ends without a word.
TaskLosesClient(t) ==
  /\ Waiting(t)
  /\ tasks[t].end.attempt = config.retries
  /\ tasks' = [tasks EXCEPT ![t].end.status = "failed"]
  /\ UNCHANGED net

-----------------------------------------------------------------------------
(* The download.                                                           *)

Init ==
  /\ config \in Configs
  /\ \E opts \in ClientOptions : client = NewClient(opts, "RRQ", 0, NewReceiver(1, 1))
  /\ tasks = << >>
  /\ disk \in {None, File}
  /\ net = Ask(client.request, 0)
  /\ faults = 0

ClientReceives ==
  \E d \in net : \E rest \in {net, net \ {d}} :
    /\ Arrives(d, Client, rest)
    /\ \/ ClientMergesOack(d, rest) \/ ClientTakesFirst(d, rest)
       \/ ClientAccepts(d, rest) \/ ClientRejects(d, rest) \/ ClientIgnores(d, rest)
       \/ ClientHearsError(d, rest) \/ ClientTurnsAway(d, rest)
    /\ UNCHANGED <<config, tasks, disk>>

ClientTimeout ==
  /\ Deadline(Client)
  /\ ClientAsksAgain \/ ClientReAcks \/ ClientGivesUp
  /\ UNCHANGED <<config, tasks, disk>>

ClientReturns == ClientFinishes \/ ClientFinishFails

TaskStarts ==
  \E d \in net : \E rest \in {net, net \ {d}} :
    /\ Arrives(d, Listener, rest)
    /\ TaskOpens(d, rest) \/ TaskFindsNoFile(d, rest)
    /\ UNCHANGED <<config, client, disk>>

TaskReceives(t) ==
  \E d \in net : \E rest \in {net, net \ {d}} :
    /\ Arrives(d, t, rest)
    /\ \/ TaskBegins(t, d, rest)
       \/ TaskAdvances(t, d, rest) \/ TaskStaleAck(t, d, rest)
       \/ TaskHearsError(t, d, rest)
    /\ UNCHANGED <<config, client, disk>>

TaskTimeout(t) ==
  /\ Deadline(t)
  /\ \/ TaskRepeats(t) \/ TaskLosesClient(t)
     \/ ~Waiting(t) /\ TaskGivesUp(t)
  /\ UNCHANGED <<config, client, disk>>

Next ==
  \/ ClientReceives \/ ClientTimeout
  \/ ClientReturns
  \/ TaskStarts
  \/ \E t \in DOMAIN tasks : TaskReceives(t) \/ TaskTimeout(t)
  \/ Lose
  \/ Terminated

Spec == Init /\ [][Next]_vars

\* The receptions that bring the download forward.
ClientProgresses ==
  \E d \in net : \E rest \in {net, net \ {d}} :
    Arrives(d, Client, rest) /\ ClientAccepts(d, rest) /\ UNCHANGED <<config, tasks, disk>>

TaskProgresses(t) ==
  \E d \in net : \E rest \in {net, net \ {d}} :
    Arrives(d, t, rest) /\ TaskAdvances(t, d, rest) /\ UNCHANGED <<config, client, disk>>

\* As in PutSession; and writer.finish returns, one way or the other.
Fairness ==
  /\ WF_vars(ClientReturns)
  /\ WF_vars(ClientReceives)
  /\ WF_vars(ClientProgresses)
  /\ WF_vars(ClientTimeout /\ Quiet(Client))
  /\ WF_vars(TaskStarts)
  /\ \A t \in 1 .. MaxTasks :
       /\ WF_vars(t \in DOMAIN tasks /\ TaskReceives(t))
       /\ WF_vars(t \in DOMAIN tasks /\ TaskProgresses(t))
       /\ WF_vars(t \in DOMAIN tasks /\ TaskTimeout(t) /\ Quiet(t))

FairSpec == Spec /\ Fairness
=============================================================================
