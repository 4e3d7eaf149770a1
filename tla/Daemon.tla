------------------------------- MODULE Daemon --------------------------------
(***************************************************************************)
(* The life of the server: run() accepts requests and spawns a task for    *)
(* each, run_until() stops it when the shutdown future resolves, and the   *)
(* program around it goes on or ends.                                      *)
(*                                                                         *)
(* A library user's program may live on after run_until has returned; the  *)
(* main of aitftpd returns at once, and #[tokio::main] then drops the      *)
(* runtime, which cancels every task at its next await.                    *)
(***************************************************************************)
CONSTANTS
  Requests,    (* The first packets that clients may send.                  *)
  Malformed,   (* Those that decode refuses or that are no RRQ or WRQ.      *)
  LivesOn,     (* Does the program go on when run_until has returned? One   *)
               (* or both of TRUE (a library user's) and FALSE (aitftpd).   *)
  IoErrors     (* May the listening socket fail? One or both of the answers. *)

ASSUME DaemonAssumption ==
  Malformed \subseteq Requests /\ LivesOn \subseteq BOOLEAN /\ IoErrors \subseteq BOOLEAN

VARIABLES
  lives_on,    (* Does this program go on when run_until has returned?       *)
  io_errors,   (* May its listening socket fail?                             *)
  listener,    (* "listening", "closed" (shut down) or "failed" (I/O error). *)
  queue,       (* The packets in the receive buffer of the listening socket. *)
  task,        (* What has become of the task of each packet.                *)
  program      (* "running", or "exited": the runtime is gone.               *)

world == <<lives_on, io_errors>>
vars == <<lives_on, io_errors, listener, queue, task, program>>

TaskState == {"none", "spawned", "transferring", "finished", "ignored", "cancelled"}
Active(r) == task[r] \in {"spawned", "transferring"}

Init ==
  /\ lives_on \in LivesOn
  /\ io_errors \in IoErrors
  /\ listener = "listening"
  /\ queue = {}
  /\ task = [r \in Requests |-> "none"]
  /\ program = "running"

\* A packet reaches the socket; once it is closed nothing does.
Arrive(r) ==
  /\ listener = "listening" /\ program = "running"
  /\ r \notin queue /\ task[r] = "none"
  /\ queue' = queue \cup {r}
  /\ UNCHANGED <<world, listener, task, program>>

\* A turn of run()'s loop: the task is spawned before the next packet is read.
Accept(r) ==
  /\ listener = "listening" /\ program = "running"
  /\ r \in queue
  /\ queue' = queue \ {r}
  /\ task' = [task EXCEPT ![r] = "spawned"]
  /\ UNCHANGED <<world, listener, program>>

\* recv_from of the listener fails: run() returns the error.
ListenerFails ==
  /\ io_errors
  /\ listener = "listening" /\ program = "running"
  /\ listener' = "failed"
  /\ queue' = {}
  /\ UNCHANGED <<world, task, program>>

\* A mutant: shutting down takes the tasks along.
ShutdownAborts ==
  /\ listener = "listening" /\ program = "running"
  /\ listener' = "closed"
  /\ queue' = {}
  /\ task' = [r \in Requests |-> IF Active(r) THEN "cancelled" ELSE task[r]]
  /\ UNCHANGED <<world, program>>

\* The shutdown future resolves: select! drops run(), and with it the socket
\* and what was waiting in its buffer.
Shutdown ==
  /\ listener = "listening" /\ program = "running"
  /\ listener' = "closed"
  /\ queue' = {}
  /\ UNCHANGED <<world, task, program>>

\* A mutant: what a task returns is propagated out of the loop.
HandleStopsServer(r) ==
  /\ program = "running"
  /\ task[r] = "spawned"
  /\ task' = [task EXCEPT ![r] = IF r \in Malformed THEN "ignored" ELSE "transferring"]
  /\ listener' = IF r \in Malformed THEN "failed" ELSE listener
  /\ UNCHANGED <<world, queue, program>>

\* handle_initial: a request becomes a transfer, anything else ends the task.
Handle(r) ==
  /\ program = "running"
  /\ task[r] = "spawned"
  /\ task' = [task EXCEPT ![r] = IF r \in Malformed THEN "ignored" ELSE "transferring"]
  /\ UNCHANGED <<world, listener, queue, program>>

\* The transfer ends, well or badly; its outcome reaches nobody but the log.
Finish(r) ==
  /\ program = "running"
  /\ task[r] = "transferring"
  /\ task' = [task EXCEPT ![r] = "finished"]
  /\ UNCHANGED <<world, listener, queue, program>>

\* main returns, because run_until has; the runtime drops its tasks.
Exit ==
  /\ ~lives_on
  /\ listener # "listening" /\ program = "running"
  /\ program' = "exited"
  /\ task' = [r \in Requests |-> IF Active(r) THEN "cancelled" ELSE task[r]]
  /\ UNCHANGED <<world, listener, queue>>

Ended ==
  /\ listener # "listening"
  /\ \A r \in Requests : ~Active(r)
  /\ lives_on \/ program = "exited"

Terminated == Ended /\ UNCHANGED vars

Next ==
  \/ \E r \in Requests : Arrive(r) \/ Accept(r) \/ Handle(r) \/ Finish(r)
  \/ ListenerFails \/ Shutdown \/ Exit
  \/ Terminated

Spec == Init /\ [][Next]_vars

\* The runtime polls the tasks that are ready, and every transfer comes to an end
\* of its own: that is BothEnd of WindowedTransfer and AllReturn of PutSession.
\* Neither a shutdown nor an arrival need ever happen.
Fairness ==
  /\ \A r \in Requests : WF_vars(Accept(r)) /\ WF_vars(Handle(r)) /\ WF_vars(Finish(r))
  /\ WF_vars(Exit)

FairSpec == Spec /\ Fairness

-----------------------------------------------------------------------------
\* The shape of the state; a packet is in the buffer only before it has a task,
\* and a task is cancelled only with the program.
TypeOK ==
  /\ lives_on \in LivesOn /\ io_errors \in IoErrors
  /\ listener \in {"listening", "closed", "failed"}
  /\ queue \in SUBSET Requests
  /\ task \in [Requests -> TaskState]
  /\ \A r \in queue : task[r] = "none"
  /\ program \in {"running", "exited"}
  /\ (\E r \in Requests : task[r] = "cancelled") => program = "exited"

\* server.rs and README.md say that transfers in flight go on to completion when
\* the listener has stopped: none is cut off, whenever the shutdown comes.
InFlightFinish ==
  \A r \in Requests : Active(r) ~> task[r] \in {"finished", "ignored"}

\* As above, in a program that goes on.
DetachedFinish ==
  \A r \in Requests :
    lives_on /\ Active(r) ~> task[r] \in {"finished", "ignored"}

\* Unless it is shut down or its socket fails, the server reads every packet that has reached it,
\* whatever the packets before it were and however long their transfers take.
EveryPacketRead ==
  \A r \in Requests : r \in queue ~> (task[r] # "none" \/ listener = "closed" \/ io_errors)
=============================================================================
