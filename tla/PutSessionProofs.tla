-------------------------- MODULE PutSessionProofs --------------------------
(***************************************************************************)
(* Theorems about uploads, for every file, all options and configurations, *)
(* and any number of requests, tasks and misfortunes.                      *)
(***************************************************************************)
EXTENDS PutSessionProperties, SessionProofs

\* What the server offers, the same for every copy of the request.
Offer == Granted(config, Requested, None)

\* Either end may use these parameters, not always the same.
Choices == {Defaults, Params}

Asked == {RequestPacket("WRQ", BuildRequestOptions(o, FileLen)) : o \in ClientOptions}

Clients ==
  [opts : ClientOptions, request : Asked, phase : {"request", "data", "ok", "failed"},
   attempt : Nat, peer : Nat, blksize : Nat, end : Senders,
   error : {"none", "timeout", "FileExists", "NotDefined"}]

Tasks == [end : Receivers, pos : Nat]

\* The blocks that the client sends, once it has chosen a peer.
Blocks == Cut(client.blksize)

StateInv ==
  /\ config \in Configs
  /\ client \in Clients
  /\ tasks \in Seq(Tasks)
  /\ disk = None \/ disk \in Seq(Byte)

\* How often something has been repeated.
CounterInv ==
  /\ client.attempt <= client.opts.retries /\ client.end.attempt <= client.opts.retries
  /\ Len(tasks) <= MaxTasks
  /\ \A t \in DOMAIN tasks : tasks[t].end.attempt <= config.retries
  /\ faults \in 0 .. MaxFaults

\* Once the client has a peer it sends the file with the one parameters or the other,
\* and is not told any more that the file exists.
ClientInv ==
  /\ client.phase = "request" => client.peer = Client
  /\ client.phase \in {"data", "ok"} => client.peer # Client
  /\ client.phase = "data" => client.end.status = "sending"
  /\ client.phase # "failed" => client.error = "none"
  /\ client.error = "FileExists" => client.peer = Client
  /\ client.peer # Client =>
       /\ client.peer \in DOMAIN tasks
       /\ \E p \in Choices : /\ client.blksize = p.blksize
                             /\ Sends(client.end, Blocks, p.windowsize)

\* A task that is not the peer has had no DATA.
TaskInv(t) ==
  /\ \E p \in Choices : Receives(tasks[t].end, p.windowsize, p.blksize)
  /\ t # client.peer => /\ tasks[t].pos = 0 /\ Len(tasks[t].end.file) = 0
                        /\ tasks[t].end.status # "ok"
  /\ tasks[t].end.status = "receiving" => disk \in Seq(Byte)

\* What a task may have sent.
FromTask(t, packet) ==
  \/ packet = ErrorPacket("NotDefined")
  \/ /\ packet = ErrorPacket("FileExists")
     /\ tasks[t].end.status = "failed" /\ t # client.peer
  \/ packet = OackPacket(Offer)
  \/ \E n \in 0 .. Len(tasks[t].end.file) : packet = AckPacket(Number(n))

\* What the client may have sent to a task.
ToTask(t, packet) ==
  /\ client.phase # "request"
  /\ \/ packet = ErrorPacket("UnknownTid")
     \/ t = client.peer /\ \E n \in 1 .. Len(Blocks) : packet = DataPacket(Number(n), Blocks[n])

Proper(d) ==
  \/ d.dst = Listener /\ d.packet.type = "WRQ" /\ d.packet.options = client.request.options
  \/ d.dst = Client /\ d.src \in DOMAIN tasks /\ FromTask(d.src, d.packet)
  \/ d.dst \in DOMAIN tasks /\ ToTask(d.dst, d.packet)

\* A task that refuses says nothing else, so it is never chosen.
RefusalInv ==
  \A d, e \in net :
    d.dst = Client /\ e.dst = Client /\ d.src = e.src /\ d.packet = ErrorPacket("FileExists")
      => e.packet = d.packet

PutInv ==
  /\ StateInv /\ CounterInv /\ ClientInv
  /\ \A t \in DOMAIN tasks : TaskInv(t)
  /\ \A d \in net : Proper(d)
  /\ RefusalInv

-----------------------------------------------------------------------------
(* Facts about the terms of the invariant.                                 *)

\* The parameters that an end may use are numbers, and those of the server are what
\* its OACK says.
LEMMA ChoicesFacts ==
  ASSUME StateInv
  PROVE  /\ \A p \in Choices : p.blksize \in Nat \ {0} /\ p.windowsize \in Nat \ {0}
         /\ MergeOack(Defaults, FromPairs(ToPairs(Offer))) = Params
<1>1. config.max_block_size \in Nat /\ config.max_block_size >= MinBlockSize
  BY SessionAssumption DEF StateInv
<1>2. OptionSet(Requested)
  BY FromPairsOptionSet DEF Requested
<1>3. ~ClampPanics(config, Requested)
  BY <1>1, NegotiationAssumption DEF ClampPanics
<1>4. Params \in [blksize : MinBlockSize .. MaxBlockSize, timeout : 1 .. MaxU8,
                  windowsize : 1 .. MaxU16]
  BY <1>1, <1>2, <1>3, NegotiatedValid DEF Params
<1>5. /\ Params.blksize \in Nat \ {0} /\ Params.windowsize \in Nat \ {0}
      /\ Defaults.blksize \in Nat \ {0} /\ Defaults.windowsize \in Nat \ {0}
  BY <1>4, NegotiationAssumption DEF Defaults
<1>6. MergeOack(Defaults, FromPairs(ToPairs(Offer))) = Params
  BY <1>1, <1>2, <1>3, OackTellsAll DEF Params, Offer
<1> QED
  BY <1>5, <1>6 DEF Choices

\* The tasks are numbered from 1, so that none is the listener or the client.
LEMMA TaskNumbers ==
  ASSUME StateInv
  PROVE  /\ Len(tasks) \in Nat /\ DOMAIN tasks = 1 .. Len(tasks)
         /\ Client \notin DOMAIN tasks /\ Listener \notin DOMAIN tasks /\ Client # Listener
         /\ \A t \in DOMAIN tasks : /\ tasks[t] \in Tasks /\ tasks[t].end \in Receivers
                                    /\ Len(tasks[t].end.file) \in Nat
<1>1. tasks \in Seq(Tasks)
  BY DEF StateInv
<1>2. Len(tasks) \in Nat /\ DOMAIN tasks = 1 .. Len(tasks)
      /\ \A t \in DOMAIN tasks : tasks[t] \in Tasks
  BY <1>1, LenProperties, ElementOfSeq
<1>3. \A t \in DOMAIN tasks : tasks[t].end \in Receivers /\ Len(tasks[t].end.file) \in Nat
  BY <1>2, LenProperties DEF Tasks, Receivers
<1> QED
  BY <1>2, <1>3 DEF Client, Listener

\* What follows from request and configuration stays what it is.
LEMMA SameTerms ==
  ASSUME client'.request = client.request, config' = config
  PROVE  Requested' = Requested /\ Params' = Params /\ Offer' = Offer /\ Choices' = Choices
<1>1. Requested' = Requested
  BY DEF Requested
<1> QED
  BY <1>1 DEF Params, Offer, Choices

\* A datagram stays proper as long as the client does not go back to asking, keeps
\* the peer it has and sends it the same blocks, chooses none that refuses, and every
\* task keeps what it has received.
LEMMA ProperStays ==
  ASSUME PutInv, NEW d \in net,
         config' = config, client'.request = client.request,
         client.phase # "request" =>
           /\ client'.phase # "request"
           /\ client'.peer = client.peer /\ client'.blksize = client.blksize,
         DOMAIN tasks \subseteq DOMAIN tasks',
         \A t \in DOMAIN tasks :
           /\ Len(tasks'[t].end.file) \in Nat
           /\ Len(tasks'[t].end.file) >= Len(tasks[t].end.file)
           /\ tasks[t].end.status = "failed" => tasks'[t].end.status = "failed",
         d.dst = Client /\ d.packet = ErrorPacket("FileExists") => d.src # client'.peer
  PROVE  Proper(d)'
<1>1. Params' = Params /\ Offer' = Offer
  BY SameTerms
<1>2. Proper(d)
  BY DEF PutInv
<1>3. CASE d.dst = Listener /\ d.packet.type = "WRQ" /\ d.packet.options = client.request.options
  BY <1>3 DEF Proper
<1>4. CASE d.dst = Client /\ d.src \in DOMAIN tasks /\ FromTask(d.src, d.packet)
  <2>1. Len(tasks[d.src].end.file) \in Nat
    BY <1>4, TaskNumbers DEF PutInv
  <2>2. PICK k \in Nat, l \in Nat :
          /\ k = Len(tasks[d.src].end.file) /\ l = Len(tasks'[d.src].end.file) /\ l >= k
    BY <1>4, <2>1
  <2>3. 0 .. k \subseteq 0 .. l
    BY <2>2
  <2>4. FromTask(d.src, d.packet)'
    BY <1>1, <1>4, <2>2, <2>3 DEF FromTask
  <2> QED
    BY <1>4, <2>4 DEF Proper
<1>5. CASE d.dst \in DOMAIN tasks /\ ToTask(d.dst, d.packet)
  <2>1. /\ client'.phase # "request"
        /\ client'.peer = client.peer /\ client'.blksize = client.blksize
    BY <1>5 DEF ToTask
  <2>2. Blocks' = Blocks
    BY <2>1 DEF Blocks
  <2>3. ToTask(d.dst, d.packet)'
    BY <1>5, <2>1, <2>2 DEF ToTask
  <2> QED
    BY <1>5, <2>3 DEF Proper
<1> QED
  BY <1>2, <1>3, <1>4, <1>5 DEF Proper

\* What is addressed to the client comes from a task, and what is addressed to a task
\* comes from a client that has chosen a peer.
LEMMA OnTheirWay ==
  ASSUME PutInv, NEW d \in net
  PROVE  /\ d.dst = Client => d.src \in DOMAIN tasks /\ FromTask(d.src, d.packet)
         /\ d.dst \in DOMAIN tasks => ToTask(d.dst, d.packet)
         /\ d.dst = Listener => d.packet.options = client.request.options
<1>1. Proper(d)
  BY DEF PutInv
<1>2. Client \notin DOMAIN tasks /\ Listener \notin DOMAIN tasks /\ Client # Listener
  BY TaskNumbers DEF PutInv
<1> QED
  BY <1>1, <1>2 DEF Proper

\* An ERROR, the OACK and an ACK are told apart by their type.
LEMMA FromTaskTypes ==
  ASSUME NEW t, NEW packet, FromTask(t, packet)
  PROVE  /\ packet.type = "ERROR" => packet.code \in {"NotDefined", "FileExists"}
         /\ packet.type = "ERROR" /\ packet.code = "FileExists" =>
              packet = ErrorPacket("FileExists") /\ t # client.peer
         /\ packet.type = "OACK" => packet = OackPacket(Offer)
         /\ packet.type = "ACK" =>
              \E n \in 0 .. Len(tasks[t].end.file) : packet = AckPacket(Number(n))
         /\ packet.type # "ERROR" => packet # ErrorPacket("FileExists")
<1>1. \A code : ErrorPacket(code).type = "ERROR" /\ ErrorPacket(code).code = code
  BY DEF ErrorPacket
<1>2. OackPacket(Offer).type = "OACK"
  BY DEF OackPacket
<1>3. \A n : AckPacket(n).type = "ACK"
  BY DEF AckPacket
<1>4. CASE packet = ErrorPacket("NotDefined")
  BY <1>1, <1>4
<1>5. CASE packet = ErrorPacket("FileExists") /\ tasks[t].end.status = "failed" /\ t # client.peer
  BY <1>1, <1>5
<1>6. CASE packet = OackPacket(Offer)
  BY <1>1, <1>2, <1>6
<1>7. CASE \E n \in 0 .. Len(tasks[t].end.file) : packet = AckPacket(Number(n))
  BY <1>1, <1>3, <1>7
<1> QED
  BY <1>4, <1>5, <1>6, <1>7 DEF FromTask

\* The refusal is no other packet.
LEMMA NoRefusal ==
  /\ ErrorPacket("NotDefined") # ErrorPacket("FileExists")
  /\ \A options : OackPacket(options) # ErrorPacket("FileExists")
  /\ \A n : AckPacket(n) # ErrorPacket("FileExists")
<1>1. \A code : ErrorPacket(code).type = "ERROR" /\ ErrorPacket(code).code = code
  BY DEF ErrorPacket
<1>2. (\A options : OackPacket(options).type = "OACK") /\ (\A n : AckPacket(n).type = "ACK")
  BY DEF OackPacket, AckPacket
<1>3. ErrorPacket("NotDefined") # ErrorPacket("FileExists")
  BY <1>1
<1>4. \A options : OackPacket(options) # ErrorPacket("FileExists")
  BY <1>1, <1>2
<1>5. \A n : AckPacket(n) # ErrorPacket("FileExists")
  BY <1>1, <1>2
<1> QED
  BY <1>3, <1>4, <1>5

\* The request is that of the client's options.
LEMMA AskIsProper ==
  ASSUME client.request \in Asked, NEW n, NEW d \in Ask(client.request, n)
  PROVE  d.dst = Listener /\ d.packet.type = "WRQ" /\ d.packet.options = client.request.options
<1>1. PICK o : client.request = [type |-> "WRQ", options |-> ToPairs(o), copy |-> 0]
  BY DEF Asked, RequestPacket
<1>2. d.dst = Listener /\ d.packet = [client.request EXCEPT !.copy = n]
  BY DEF Ask, Datagrams
<1> QED
  BY <1>1, <1>2

\* A task that says anything but an ERROR has not refused.
LEMMA SpeakerIsNoRefuser ==
  ASSUME PutInv, NEW d \in net, d.dst = Client, d.packet.type # "ERROR"
  PROVE  \A e \in net : e.dst = Client /\ e.packet = ErrorPacket("FileExists") => e.src # d.src
<1>1. SUFFICES ASSUME NEW e \in net, e.dst = Client, e.packet = ErrorPacket("FileExists"),
                      e.src = d.src
               PROVE  FALSE
  OBVIOUS
<1>2. d.packet = ErrorPacket("FileExists")
  BY <1>1 DEF PutInv, RefusalInv
<1> QED
  BY <1>2 DEF ErrorPacket

-----------------------------------------------------------------------------
(* The steps, by what they may change.                                     *)

\* A step of the client keeps the invariant if the client stays what it should be,
\* chooses no peer but one that has answered, and sends what it may.
LEMMA ClientStep ==
  ASSUME PutInv, UNCHANGED <<config, tasks, disk>>, faults' \in 0 .. MaxFaults,
         client' \in Clients, client'.request = client.request, client'.opts = client.opts,
         client'.attempt <= client.opts.retries, client'.end.attempt <= client.opts.retries,
         ClientInv',
         client.phase # "request" =>
           /\ client'.phase # "request"
           /\ client'.peer = client.peer /\ client'.blksize = client.blksize,
         \/ client'.peer = client.peer
         \/ \E d \in net : d.dst = Client /\ d.src = client'.peer /\ d.packet.type # "ERROR",
         \A d \in net' : d \in net \/ (Proper(d)' /\ d.dst # Client)
  PROVE  PutInv'
<1>1. Params' = Params /\ Offer' = Offer /\ Choices' = Choices
  BY SameTerms
<1>2. StateInv'
  BY <1>1 DEF PutInv, StateInv, Clients, Asked
<1>3. CounterInv'
  BY DEF PutInv, CounterInv
<1>4. client.peer # client'.peer => client.peer = Client
  BY DEF PutInv, ClientInv
<1>5. ASSUME NEW t \in DOMAIN tasks'
      PROVE  TaskInv(t)'
  <2>1. t \in DOMAIN tasks /\ TaskInv(t) /\ t # Client
    BY TaskNumbers DEF PutInv
  <2>2. t # client'.peer => t # client.peer
    BY <1>4, <2>1
  <2> QED
    BY <1>1, <2>1, <2>2 DEF TaskInv
<1>6. ASSUME NEW d \in net'
      PROVE  Proper(d)'
  <2>1. CASE d \in net
    <3>1. d.dst = Client /\ d.packet = ErrorPacket("FileExists") => d.src # client'.peer
      <4>1. SUFFICES ASSUME d.dst = Client, d.packet = ErrorPacket("FileExists")
                     PROVE  d.src # client'.peer
        OBVIOUS
      <4>2. CASE client'.peer = client.peer
        <5>1. FromTask(d.src, d.packet)
          BY <2>1, <4>1, OnTheirWay
        <5> QED
          BY <4>1, <4>2, <5>1, FromTaskTypes DEF ErrorPacket
      <4>3. CASE \E e \in net : e.dst = Client /\ e.src = client'.peer /\ e.packet.type # "ERROR"
        BY <2>1, <4>1, <4>3, SpeakerIsNoRefuser
      <4> QED
        BY <4>2, <4>3
    <3>2. \A t \in DOMAIN tasks : Len(tasks[t].end.file) \in Nat
      BY TaskNumbers DEF PutInv
    <3> QED
      BY <2>1, <3>1, <3>2, ProperStays
  <2> QED
    BY <2>1
<1>7. RefusalInv'
  BY DEF PutInv, RefusalInv
<1> QED
  BY <1>2, <1>3, <1>5, <1>6, <1>7 DEF PutInv

\* A step of a task keeps the invariant if its end keeps what it has received, takes
\* nothing from a client that has not chosen it, and answers as it may.
LEMMA TaskStep ==
  ASSUME PutInv, UNCHANGED <<config, client>>, faults' \in 0 .. MaxFaults,
         NEW t \in DOMAIN tasks, tasks[t].end.status = "receiving",
         NEW task \in Tasks, tasks' = [tasks EXCEPT ![t] = task],
         \E p \in Choices : Receives(task.end, p.windowsize, p.blksize),
         Len(task.end.file) \in Nat, Len(task.end.file) >= Len(tasks[t].end.file),
         task.end.attempt <= config.retries,
         t # client.peer => /\ task.pos = 0 /\ Len(task.end.file) = 0
                            /\ task.end.status # "ok",
         disk' \in Seq(Byte),
         \A d \in net' : d \in net \/
           /\ d.dst = Client /\ d.src = t
           /\ \/ d.packet = ErrorPacket("NotDefined")
              \/ \E n \in 0 .. Len(task.end.file) : d.packet = AckPacket(Number(n))
  PROVE  PutInv'
<1>1. Params' = Params /\ Offer' = Offer /\ Choices' = Choices
  BY SameTerms
<1>2. /\ tasks' \in Seq(Tasks) /\ Len(tasks') = Len(tasks) /\ DOMAIN tasks' = DOMAIN tasks
      /\ tasks'[t] = task
      /\ \A u \in DOMAIN tasks : u # t => tasks'[u] = tasks[u]
  <2>1. tasks \in Seq(Tasks) /\ t \in 1 .. Len(tasks)
    BY TaskNumbers DEF PutInv, StateInv
  <2>2. /\ [tasks EXCEPT ![t] = task] \in Seq(Tasks)
        /\ Len([tasks EXCEPT ![t] = task]) = Len(tasks)
        /\ \A u \in 1 .. Len(tasks) :
             [tasks EXCEPT ![t] = task][u] = IF u = t THEN task ELSE tasks[u]
    BY <2>1, ExceptSeq
  <2>3. DOMAIN tasks = 1 .. Len(tasks) /\ DOMAIN tasks' = 1 .. Len(tasks')
    BY <2>1, <2>2, LenProperties
  <2> QED
    BY <2>1, <2>2, <2>3
<1>3. StateInv'
  BY <1>1, <1>2 DEF PutInv, StateInv, Clients, Asked
<1>4. CounterInv'
  <2>1. \A u \in DOMAIN tasks' : tasks'[u].end.attempt <= config'.retries
    BY <1>2 DEF PutInv, CounterInv
  <2> QED
    BY <1>2, <2>1 DEF PutInv, CounterInv
<1>5. ClientInv'
  BY <1>1, <1>2 DEF PutInv, ClientInv, Blocks
<1>6. ASSUME NEW u \in DOMAIN tasks'
      PROVE  TaskInv(u)'
  <2>1. CASE u = t
    BY <1>1, <1>2, <2>1 DEF TaskInv
  <2>2. CASE u # t
    <3>1. TaskInv(u) /\ tasks'[u] = tasks[u]
      BY <1>2, <2>2 DEF PutInv
    <3> QED
      BY <1>1, <3>1 DEF TaskInv
  <2> QED
    BY <2>1, <2>2
<1>7. ASSUME NEW d \in net'
      PROVE  Proper(d)'
  <2>1. CASE d \in net
    <3>1. \A u \in DOMAIN tasks :
            /\ Len(tasks'[u].end.file) \in Nat
            /\ Len(tasks'[u].end.file) >= Len(tasks[u].end.file)
            /\ tasks[u].end.status = "failed" => tasks'[u].end.status = "failed"
      BY <1>2, TaskNumbers DEF PutInv
    <3>2. d.dst = Client /\ d.packet = ErrorPacket("FileExists") => d.src # client'.peer
      BY <2>1, OnTheirWay, FromTaskTypes DEF ErrorPacket
    <3> QED
      BY <1>2, <2>1, <3>1, <3>2, ProperStays
  <2>2. CASE d \notin net
    <3>1. /\ d.dst = Client /\ d.src = t
          /\ \/ d.packet = ErrorPacket("NotDefined")
             \/ \E n \in 0 .. Len(task.end.file) : d.packet = AckPacket(Number(n))
      BY <2>2
    <3>2. FromTask(d.src, d.packet)'
      BY <1>2, <3>1 DEF FromTask
    <3> QED
      BY <1>2, <3>1, <3>2 DEF Proper
  <2> QED
    BY <2>1, <2>2
<1>8. RefusalInv'
  <2>1. ASSUME NEW d \in net, d.dst = Client, d.packet = ErrorPacket("FileExists")
        PROVE  d.src # t
    <3>1. FromTask(d.src, d.packet)
      BY <2>1, OnTheirWay
    <3>2. tasks[d.src].end.status = "failed"
      BY <2>1, <3>1, NoRefusal DEF FromTask
    <3> QED
      BY <3>2
  <2>2. ASSUME NEW d \in net', d \notin net
        PROVE  d.packet # ErrorPacket("FileExists") /\ d.src = t
    BY <2>2, NoRefusal
  <2>3. ASSUME NEW d \in net', NEW e \in net', d.dst = Client, e.dst = Client, d.src = e.src,
               d.packet = ErrorPacket("FileExists")
        PROVE  e.packet = d.packet
    <3>1. d \in net
      BY <2>2, <2>3
    <3>2. e \in net
      BY <2>1, <2>2, <2>3, <3>1
    <3> QED
      BY <2>3, <3>1, <3>2 DEF PutInv, RefusalInv
  <2> QED
    BY <2>3 DEF RefusalInv
<1> QED
  BY <1>3, <1>4, <1>5, <1>6, <1>7, <1>8 DEF PutInv

\* A step of the listener keeps the invariant: it adds a task that has sent its
\* answer.
LEMMA ListenerStep ==
  ASSUME PutInv, UNCHANGED <<config, client>>, faults' \in 0 .. MaxFaults,
         NEW tid, tid = NewTid, Len(tasks) < MaxTasks,
         NEW task \in Tasks, tasks' = Append(tasks, task),
         \E p \in Choices : Receives(task.end, p.windowsize, p.blksize),
         task.pos = 0, Len(task.end.file) = 0, task.end.status # "ok", task.end.attempt = 0,
         task.end.status = "receiving" => disk' \in Seq(Byte),
         disk' = disk \/ disk' \in Seq(Byte),
         NEW packet,
         \/ packet = ErrorPacket("FileExists") /\ task.end.status = "failed"
         \/ packet = OackPacket(Offer)
         \/ packet = AckPacket(0),
         \A d \in net' : d \in net \/ d \in Datagrams(tid, Client, {packet})
  PROVE  PutInv'
<1>1. Params' = Params /\ Offer' = Offer /\ Choices' = Choices
  BY SameTerms
<1>2. tasks \in Seq(Tasks) /\ Len(tasks) \in Nat /\ DOMAIN tasks = 1 .. Len(tasks)
      /\ tid = Len(tasks) + 1
  BY LenProperties DEF PutInv, StateInv, NewTid
<1>3. /\ tasks' \in Seq(Tasks) /\ Len(tasks') = Len(tasks) + 1
      /\ DOMAIN tasks' = 1 .. Len(tasks) + 1
      /\ tasks'[tid] = task
      /\ \A t \in DOMAIN tasks : tasks'[t] = tasks[t]
  <2>1. /\ Append(tasks, task) \in Seq(Tasks)
        /\ Len(Append(tasks, task)) = Len(tasks) + 1
        /\ \A i \in 1 .. Len(tasks) : Append(tasks, task)[i] = tasks[i]
        /\ Append(tasks, task)[Len(tasks) + 1] = task
    BY <1>2, AppendProperties
  <2>2. DOMAIN Append(tasks, task) = 1 .. Len(Append(tasks, task))
    BY <2>1, LenProperties
  <2> QED
    BY <1>2, <2>1, <2>2
<1>4. /\ DOMAIN tasks \subseteq DOMAIN tasks' /\ tid \in DOMAIN tasks'
      /\ \A t \in DOMAIN tasks' : t \in DOMAIN tasks \/ t = tid
      /\ tid # Client /\ tid \notin DOMAIN tasks
  BY <1>2, <1>3 DEF Client
<1>5. tid # client.peer
  <2>1. client.peer = Client \/ client.peer \in DOMAIN tasks
    BY DEF PutInv, ClientInv
  <2> QED
    BY <1>4, <2>1
<1>6. StateInv'
  BY <1>1, <1>3 DEF PutInv, StateInv, Clients, Asked
<1>7. CounterInv'
  <2>1. config.retries \in Nat /\ config' = config
    BY SessionAssumption DEF PutInv, StateInv
  <2>2. ASSUME NEW t \in DOMAIN tasks'
        PROVE  tasks'[t].end.attempt <= config'.retries
    BY <1>3, <1>4, <2>1 DEF PutInv, CounterInv
  <2>3. Len(tasks') <= MaxTasks
    BY <1>2, <1>3, SessionAssumption
  <2> QED
    BY <2>2, <2>3 DEF PutInv, CounterInv
<1>8. ClientInv'
  BY <1>1, <1>4 DEF PutInv, ClientInv, Blocks
<1>9. ASSUME NEW t \in DOMAIN tasks'
      PROVE  TaskInv(t)'
  <2>1. CASE t \in DOMAIN tasks
    <3>1. TaskInv(t) /\ tasks'[t] = tasks[t]
      BY <1>3, <2>1 DEF PutInv
    <3> QED
      BY <1>1, <3>1 DEF TaskInv
  <2>2. CASE t = tid
    <3>1. tasks'[t] = task
      BY <1>3, <2>2
    <3> QED
      BY <1>1, <3>1 DEF TaskInv
  <2> QED
    BY <1>4, <2>1, <2>2
<1>10. ASSUME NEW d \in net'
       PROVE  Proper(d)'
  <2>1. CASE d \in net
    <3>1. \A u \in DOMAIN tasks :
            /\ Len(tasks'[u].end.file) \in Nat
            /\ Len(tasks'[u].end.file) >= Len(tasks[u].end.file)
            /\ tasks[u].end.status = "failed" => tasks'[u].end.status = "failed"
      BY <1>3, TaskNumbers DEF PutInv
    <3>2. d.dst = Client /\ d.packet = ErrorPacket("FileExists") => d.src # client'.peer
      BY <2>1, OnTheirWay, FromTaskTypes DEF ErrorPacket
    <3> QED
      BY <1>4, <2>1, <3>1, <3>2, ProperStays
  <2>2. CASE d \notin net
    <3>1. d.dst = Client /\ d.src = tid /\ d.packet = packet
      BY <2>2 DEF Datagrams
    <3>2. AckPacket(0) = AckPacket(Number(0)) /\ 0 \in 0 .. Len(task.end.file)
      BY ModulusAssumption, SmallResidue DEF Number, BlockNumber
    <3>3. FromTask(tid, packet)'
      BY <1>1, <1>3, <1>5, <3>2 DEF FromTask
    <3> QED
      BY <1>4, <3>1, <3>3 DEF Proper
  <2> QED
    BY <2>1, <2>2
<1>11. RefusalInv'
  <2>1. ASSUME NEW d \in net, d.dst = Client
        PROVE  d.src # tid
    BY <1>4, <2>1, OnTheirWay
  <2>2. ASSUME NEW d \in net', d \notin net
        PROVE  d.packet = packet /\ d.src = tid
    BY <2>2 DEF Datagrams
  <2>3. ASSUME NEW d \in net', NEW e \in net', d.dst = Client, e.dst = Client, d.src = e.src,
               d.packet = ErrorPacket("FileExists")
        PROVE  e.packet = d.packet
    <3>1. CASE d \in net
      <4>1. e \in net
        BY <2>1, <2>2, <2>3, <3>1
      <4> QED
        BY <2>3, <3>1, <4>1 DEF PutInv, RefusalInv
    <3>2. CASE d \notin net
      <4>1. e \notin net
        BY <2>1, <2>2, <2>3, <3>2
      <4> QED
        BY <2>2, <2>3, <3>2, <4>1
    <3> QED
      BY <3>1, <3>2
  <2> QED
    BY <2>3 DEF RefusalInv
<1> QED
  BY <1>6, <1>7, <1>8, <1>9, <1>10, <1>11 DEF PutInv

-----------------------------------------------------------------------------
(* The steps of the client.                                                *)

\* A client that fails keeps the peer it has; if it has one, it has not been refused.
LEMMA ClientFailsStep ==
  ASSUME PutInv, UNCHANGED <<config, tasks, disk>>, faults' \in 0 .. MaxFaults,
         net' \subseteq net,
         NEW error \in {"timeout", "FileExists", "NotDefined"},
         error = "FileExists" => client.peer = Client,
         ClientFailsWith(error)
  PROVE  PutInv'
<1>1. client \in Clients /\ ClientInv /\ CounterInv
  BY DEF PutInv, StateInv
<1>2. /\ client' \in Clients /\ client'.phase = "failed" /\ client'.error = error
      /\ client'.request = client.request /\ client'.opts = client.opts
      /\ client'.attempt = client.attempt /\ client'.end = client.end
      /\ client'.peer = client.peer /\ client'.blksize = client.blksize
  BY <1>1 DEF ClientFailsWith, Clients
<1>3. Choices' = Choices
  BY <1>2, SameTerms
<1>4. ClientInv'
  BY <1>1, <1>2, <1>3 DEF ClientInv, Blocks
<1> QED
  BY <1>1, <1>2, <1>4, ClientStep DEF CounterInv

\* A client that stays as it is may turn a task away.
LEMMA ClientSameStep ==
  ASSUME PutInv, UNCHANGED <<config, client, tasks, disk>>, faults' \in 0 .. MaxFaults,
         \A d \in net' : d \in net \/ (~Requesting /\ \E t \in DOMAIN tasks :
           d \in Datagrams(Client, t, {ErrorPacket("UnknownTid")}))
  PROVE  PutInv'
<1>1. client \in Clients /\ ClientInv /\ CounterInv
  BY DEF PutInv, StateInv
<1>2. Choices' = Choices
  BY SameTerms
<1>3. ClientInv'
  BY <1>1, <1>2 DEF ClientInv, Blocks
<1>4. ASSUME NEW d \in net', d \notin net
      PROVE  Proper(d)' /\ d.dst # Client
  <2>1. PICK t \in DOMAIN tasks : d \in Datagrams(Client, t, {ErrorPacket("UnknownTid")})
    BY <1>4
  <2>2. /\ d.dst = t /\ t # Client /\ d.packet = ErrorPacket("UnknownTid")
        /\ client'.phase # "request"
    BY <1>4, <2>1, TaskNumbers DEF Datagrams, Requesting, PutInv
  <2> QED
    BY <2>2 DEF Proper, ToTask
<1> QED
  BY <1>1, <1>3, <1>4, ClientStep DEF CounterInv

\* The request that is sent again is the same.
LEMMA ClientAsksAgainStep ==
  ASSUME PutInv, UNCHANGED <<config, tasks, disk>>, faults' \in 0 .. MaxFaults,
         ClientAsksAgain
  PROVE  PutInv'
<1>1. client \in Clients /\ ClientInv /\ CounterInv /\ client.phase = "request"
  BY DEF PutInv, StateInv, ClientAsksAgain, Requesting
<1>2. client.opts.retries \in Nat
  BY <1>1, SessionAssumption DEF Clients
<1>3. /\ client' \in Clients /\ client'.phase = client.phase /\ client'.error = client.error
      /\ client'.request = client.request /\ client'.opts = client.opts
      /\ client'.attempt <= client.opts.retries /\ client'.end = client.end
      /\ client'.peer = client.peer
  BY <1>1, <1>2 DEF Clients, ClientAsksAgain
<1>4. ClientInv'
  BY <1>1, <1>3 DEF ClientInv
<1>5. ASSUME NEW d \in net', d \notin net
      PROVE  Proper(d)' /\ d.dst # Client
  <2>1. PICK n : d \in Ask(client.request, n)
    BY <1>5 DEF ClientAsksAgain
  <2>2. d.dst = Listener /\ d.packet.type = "WRQ" /\ d.packet.options = client.request.options
    BY <1>1, <2>1, AskIsProper DEF Clients
  <2> QED
    BY <1>3, <2>2 DEF Proper, Listener, Client
<1> QED
  BY <1>1, <1>3, <1>4, <1>5, ClientStep DEF CounterInv

\* What a client sends from its window is proper.
LEMMA WindowIsProper ==
  ASSUME StateInv, NEW b \in Nat \ {0}, NEW window \in Nat, NEW s, Sends(s, Cut(b), window),
         NEW src \in DOMAIN tasks, tasks' = tasks,
         client'.phase # "request", client'.peer = src, client'.blksize = b,
         NEW d \in Datagrams(Client, src, SendWindow(s))
  PROVE  Proper(d)' /\ d.dst # Client
<1>1. d.dst = src /\ d.packet \in SendWindow(s) /\ src # Client
  BY TaskNumbers DEF Datagrams
<1>2. Cut(b) \in Seq(Stretch)
  BY CutFacts
<1>3. PICK n \in 1 .. Len(Cut(b)) : d.packet = DataPacket(Number(n), Cut(b)[n])
  BY <1>1, <1>2, WindowPackets
<1>4. Blocks' = Cut(b)
  BY DEF Blocks
<1>5. ToTask(src, d.packet)'
  BY <1>3, <1>4 DEF ToTask
<1> QED
  BY <1>1, <1>5 DEF Proper

\* A client that has an answer to its request begins to send to the task that has
\* sent it.
LEMMA ClientStartsStep ==
  ASSUME PutInv, UNCHANGED <<config, tasks, disk>>, faults' \in 0 .. MaxFaults,
         Requesting, NEW d \in net, d.dst = Client, d.packet.type # "ERROR",
         NEW p \in Choices, NEW rest \in SUBSET net,
         StartsSending(d.src, p, rest)
  PROVE  PutInv'
<1> DEFINE source == Cut(p.blksize)
           new == NewSender(source, p.windowsize)
           s == NextRound(new)
<1>1. /\ client \in Clients /\ ClientInv /\ CounterInv /\ client.phase = "request"
      /\ d.src \in DOMAIN tasks /\ d.src # Client /\ d.src \in Nat
  BY OnTheirWay, TaskNumbers DEF PutInv, StateInv, Requesting
<1>2. /\ p.blksize \in Nat \ {0} /\ p.windowsize \in Nat \ {0} /\ p.windowsize \in Nat
      /\ source \in Seq(Stretch) /\ Len(source) \in Nat /\ Len(source) > 0
  <2>1. p.blksize \in Nat \ {0} /\ p.windowsize \in Nat \ {0} /\ p.windowsize \in Nat
    BY ChoicesFacts DEF PutInv
  <2>2. source \in Seq(Stretch) /\ Len(source) \in Nat \ {0}
    BY <2>1, CutFacts
  <2> QED
    BY <2>1, <2>2
<1>3. /\ client' = [client EXCEPT !.phase = "data", !.peer = d.src, !.blksize = p.blksize,
                                  !.end = s]
      /\ net' = rest \cup Datagrams(Client, d.src, SendWindow(s))
  BY DEF StartsSending
<1> HIDE DEF source
<1>4. Sends(new, source, p.windowsize) /\ Acked(new) = 0 /\ new.status = "sending"
      /\ new.attempt = 0
  BY <1>2, NewSenderSends
<1> HIDE DEF new
<1>5. /\ Sends(s, source, p.windowsize) /\ Acked(s) = 0 /\ s.status = "sending"
      /\ s.attempt = 0 /\ s \in Senders
  <2>1. /\ Sends(s, source, p.windowsize) /\ Acked(s) = Acked(new)
        /\ s.status = "ok" \/ s.status = new.status
        /\ s.status = "ok" /\ new.status # "ok" => Acked(s) = Len(source)
        /\ s.attempt \in {0, new.attempt}
    BY <1>2, <1>4, NextRoundSends
  <2> QED
    BY <1>2, <1>4, <2>1 DEF Sends
<1> HIDE DEF s
<1>6. /\ client' \in Clients /\ client'.phase = "data" /\ client'.error = client.error
      /\ client'.request = client.request /\ client'.opts = client.opts
      /\ client'.attempt = client.attempt /\ client'.end = s
      /\ client'.peer = d.src /\ client'.blksize = p.blksize
  BY <1>1, <1>2, <1>3, <1>5 DEF Clients
<1>7. Choices' = Choices /\ client.opts.retries \in Nat
  BY <1>1, <1>6, SameTerms, SessionAssumption DEF Clients
<1>8. ClientInv'
  <2>1. Blocks' = source
    BY <1>6 DEF Blocks, source
  <2>2. \E q \in Choices' : /\ client'.blksize = q.blksize
                            /\ Sends(client'.end, Blocks', q.windowsize)
    BY <1>5, <1>6, <1>7, <2>1
  <2>3. client'.end.status = "sending" /\ client'.error # "FileExists" /\ client'.error = "none"
    BY <1>1, <1>5, <1>6 DEF ClientInv
  <2> QED
    BY <1>1, <1>6, <2>2, <2>3 DEF ClientInv
<1>9. ASSUME NEW e \in net', e \notin net
      PROVE  Proper(e)' /\ e.dst # Client
  <2>1. e \in Datagrams(Client, d.src, SendWindow(s)) /\ Sends(s, Cut(p.blksize), p.windowsize)
    BY <1>3, <1>5, <1>9 DEF source
  <2>2. StateInv /\ tasks' = tasks /\ client'.phase # "request"
    BY <1>6 DEF PutInv
  <2> QED
    BY ONLY <1>1, <1>2, <1>6, <2>1, <2>2, WindowIsProper
<1> QED
  BY <1>1, <1>5, <1>6, <1>7, <1>8, <1>9, ClientStep DEF CounterInv

\* The OACK names the parameters of the server.
LEMMA ClientMergesOackStep ==
  ASSUME PutInv, UNCHANGED <<config, tasks, disk>>, faults' \in 0 .. MaxFaults,
         NEW d \in net, d.dst = Client, NEW rest \in SUBSET net,
         ClientMergesOack(d, rest)
  PROVE  PutInv'
<1>1. d.packet = OackPacket(Offer) /\ d.packet.type # "ERROR" /\ Requesting
  BY OnTheirWay, FromTaskTypes DEF ClientMergesOack
<1>2. MergeOack(Defaults, FromPairs(d.packet.options)) = Params
  BY <1>1, ChoicesFacts DEF PutInv, OackPacket
<1>3. StartsSending(d.src, Params, rest) /\ Params \in Choices
  BY <1>2 DEF ClientMergesOack, Choices
<1> QED
  BY <1>1, <1>3, ClientStartsStep

\* ACK(0) makes it use the defaults.
LEMMA ClientFallsBackStep ==
  ASSUME PutInv, UNCHANGED <<config, tasks, disk>>, faults' \in 0 .. MaxFaults,
         NEW d \in net, d.dst = Client, NEW rest \in SUBSET net,
         ClientFallsBack(d, rest)
  PROVE  PutInv'
<1>1. d.packet.type # "ERROR" /\ Requesting /\ StartsSending(d.src, Defaults, rest)
  BY DEF ClientFallsBack
<1>2. Defaults \in Choices
  BY DEF Choices
<1> QED
  BY <1>1, <1>2, ClientStartsStep

\* While it sends, the client has a sender of its blocks.
LEMMA WhileSending ==
  ASSUME PutInv, Transferring
  PROVE  /\ client \in Clients /\ ClientInv /\ CounterInv
         /\ client.phase = "data" /\ client.peer \in DOMAIN tasks /\ client.peer # Client
         /\ client.end.status = "sending" /\ client.opts.retries \in Nat
         /\ client.blksize \in Nat \ {0}
         /\ Blocks \in Seq(Stretch) /\ Len(Blocks) \in Nat \ {0}
         /\ \E p \in Choices :
              /\ p.windowsize \in Nat \ {0} /\ client.blksize = p.blksize
              /\ Sends(client.end, Blocks, p.windowsize)
<1>1. /\ client \in Clients /\ ClientInv /\ CounterInv
      /\ client.phase = "data" /\ client.peer \in DOMAIN tasks /\ client.peer # Client
      /\ client.end.status = "sending"
      /\ \E p \in Choices : /\ client.blksize = p.blksize
                            /\ Sends(client.end, Blocks, p.windowsize)
  BY DEF PutInv, StateInv, ClientInv, Transferring
<1>2. \A p \in Choices : p.blksize \in Nat \ {0} /\ p.windowsize \in Nat \ {0}
  BY ChoicesFacts DEF PutInv
<1>3. client.blksize \in Nat \ {0}
  BY <1>1, <1>2
<1>4. Blocks \in Seq(Stretch) /\ Len(Blocks) \in Nat \ {0}
  BY <1>3, CutFacts DEF Blocks
<1>5. client.opts.retries \in Nat
  BY <1>1, SessionAssumption DEF Clients
<1> QED
  BY <1>1, <1>2, <1>3, <1>4, <1>5

\* A client that goes on sending the same blocks, or has sent them all, keeps the
\* invariant.
LEMMA SendingStep ==
  ASSUME PutInv, UNCHANGED <<config, tasks, disk>>, faults' \in 0 .. MaxFaults,
         Transferring, NEW s, NEW p \in Choices, client.blksize = p.blksize,
         Sends(s, Blocks, p.windowsize), s.status \in {"sending", "ok"},
         s.attempt <= client.opts.retries,
         NEW rest \in SUBSET net, SendsWindow(s, rest)
  PROVE  PutInv'
<1>1. /\ client \in Clients /\ ClientInv /\ CounterInv
      /\ client.phase = "data" /\ client.peer \in DOMAIN tasks /\ client.peer # Client
      /\ client.blksize \in Nat \ {0}
  BY WhileSending
<1>2. s \in Senders /\ p.windowsize \in Nat
  BY ChoicesFacts DEF Sends, PutInv
<1>3. /\ client' \in Clients /\ client'.phase = IF s.status = "ok" THEN "ok" ELSE "data"
      /\ client'.error = client.error
      /\ client'.request = client.request /\ client'.opts = client.opts
      /\ client'.attempt = client.attempt /\ client'.end = s
      /\ client'.peer = client.peer /\ client'.blksize = client.blksize
  BY <1>1, <1>2 DEF SendsWindow, Clients
<1>4. Choices' = Choices /\ Blocks' = Blocks
  BY <1>3, SameTerms DEF Blocks
<1>5. ClientInv'
  <2>1. \E q \in Choices' : /\ client'.blksize = q.blksize
                            /\ Sends(client'.end, Blocks', q.windowsize)
    BY <1>3, <1>4
  <2>2. client'.error # "FileExists" /\ client'.error = "none"
    BY <1>1, <1>3 DEF ClientInv
  <2> QED
    BY <1>1, <1>3, <2>1, <2>2 DEF ClientInv
<1>6. ASSUME NEW e \in net', e \notin net
      PROVE  Proper(e)' /\ e.dst # Client
  <2>1. e \in Datagrams(Client, client.peer, SendWindow(s))
    BY <1>6 DEF SendsWindow, Datagrams
  <2>2. Sends(s, Cut(client.blksize), p.windowsize) /\ StateInv /\ tasks' = tasks
        /\ client'.phase # "request"
    BY <1>1, <1>3 DEF Blocks, PutInv
  <2> QED
    BY ONLY <1>1, <1>2, <1>3, <2>1, <2>2, WindowIsProper
<1> QED
  BY <1>1, <1>3, <1>5, <1>6, ClientStep DEF CounterInv

\* An ACK moves the window on.
LEMMA ClientAdvancesStep ==
  ASSUME PutInv, UNCHANGED <<config, tasks, disk>>, faults' \in 0 .. MaxFaults,
         NEW d, NEW rest \in SUBSET net, ClientAdvances(d, rest)
  PROVE  PutInv'
<1>1. /\ Transferring
      /\ SendsWindow(NextRound(ConsumeAck(client.end, d.packet.block)), rest)
  BY DEF ClientAdvances
<1>2. /\ client.end.status = "sending" /\ CounterInv /\ client.opts.retries \in Nat
      /\ Blocks \in Seq(Stretch)
  BY <1>1, WhileSending
<1>3. PICK p \in Choices : /\ p.windowsize \in Nat \ {0} /\ client.blksize = p.blksize
                           /\ Sends(client.end, Blocks, p.windowsize)
  BY <1>1, WhileSending
<1>4. PICK c : c = ConsumeAck(client.end, d.packet.block)
  OBVIOUS
<1>5. Sends(c, Blocks, p.windowsize) /\ c.status = "sending" /\ c.attempt = client.end.attempt
  BY <1>2, <1>3, <1>4, ConsumeAckSends
<1>6. PICK s : s = NextRound(c)
  OBVIOUS
<1>7. /\ Sends(s, Blocks, p.windowsize) /\ s.status \in {"sending", "ok"}
      /\ s.attempt <= client.opts.retries
  <2>1. /\ Sends(s, Blocks, p.windowsize)
        /\ s.status = "ok" \/ s.status = c.status
        /\ s.attempt \in {0, c.attempt}
    BY <1>2, <1>3, <1>5, <1>6, NextRoundSends
  <2> QED
    BY <1>2, <1>5, <2>1 DEF CounterInv
<1>8. SendsWindow(s, rest)
  BY <1>1, <1>4, <1>6
<1> QED
  BY <1>1, <1>3, <1>7, <1>8, SendingStep

\* The window that goes out once more is the same.
LEMMA SameWindowStep ==
  ASSUME PutInv, UNCHANGED <<config, tasks, disk>>, faults' \in 0 .. MaxFaults,
         Transferring, NEW attempt \in 0 .. client.opts.retries,
         NEW rest \in SUBSET net, SendsWindow([client.end EXCEPT !.attempt = attempt], rest)
  PROVE  PutInv'
<1>1. PICK s : s = [client.end EXCEPT !.attempt = attempt]
  OBVIOUS
<1>2. /\ client.end.status = "sending" /\ client.opts.retries \in Nat
      /\ client \in Clients
  BY WhileSending
<1>3. PICK p \in Choices : /\ client.blksize = p.blksize
                           /\ Sends(client.end, Blocks, p.windowsize)
  BY WhileSending
<1>4. /\ s \in Senders /\ s.source = client.end.source /\ s.window = client.end.window
      /\ s.read = client.end.read /\ s.in_flight = client.end.in_flight
      /\ s.next_block = client.end.next_block
      /\ s.status = client.end.status /\ s.attempt = attempt
  BY <1>1, <1>2 DEF Clients, Senders
<1>5. Sends(s, Blocks, p.windowsize)
  BY <1>3, <1>4, SameQueueSends
<1>6. SendsWindow(s, rest)
  BY <1>1
<1>7. s.status \in {"sending", "ok"} /\ s.attempt <= client.opts.retries
  BY <1>2, <1>4
<1> QED
  BY <1>3, <1>5, <1>6, <1>7, SendingStep

\* Every reception of the client keeps the invariant.
LEMMA ClientReceivesStep ==
  ASSUME PutInv, ClientReceives
  PROVE  PutInv'
<1>1. PICK d \in net : \E rest \in {net, net \ {d}} :
        /\ Arrives(d, Client, rest)
        /\ \/ ClientMergesOack(d, rest) \/ ClientFallsBack(d, rest)
           \/ ClientAdvances(d, rest) \/ ClientStaleAck(d, rest) \/ ClientOther(d, rest)
           \/ ClientHearsError(d, rest) \/ ClientTurnsAway(d, rest)
        /\ UNCHANGED <<config, tasks, disk>>
  BY DEF ClientReceives
<1>2. PICK rest \in {net, net \ {d}} :
        /\ Arrives(d, Client, rest)
        /\ \/ ClientMergesOack(d, rest) \/ ClientFallsBack(d, rest)
           \/ ClientAdvances(d, rest) \/ ClientStaleAck(d, rest) \/ ClientOther(d, rest)
           \/ ClientHearsError(d, rest) \/ ClientTurnsAway(d, rest)
        /\ UNCHANGED <<config, tasks, disk>>
  BY <1>1
<1>3. d.dst = Client /\ faults' \in 0 .. MaxFaults /\ rest \in SUBSET net
  BY <1>2, FaultsBounded DEF PutInv, CounterInv
<1>4. d.src \in DOMAIN tasks /\ FromTask(d.src, d.packet)
  BY <1>3, OnTheirWay
<1>5. CASE ClientMergesOack(d, rest)
  BY <1>2, <1>3, <1>5, ClientMergesOackStep
<1>6. CASE ClientFallsBack(d, rest)
  BY <1>2, <1>3, <1>6, ClientFallsBackStep
<1>7. CASE ClientAdvances(d, rest)
  BY <1>2, <1>3, <1>7, ClientAdvancesStep
<1>8. CASE ClientStaleAck(d, rest) \/ ClientOther(d, rest)
  <2>1. Transferring /\ SendsWindow(client.end, rest)
    BY <1>8 DEF ClientStaleAck, ClientOther
  <2>2. client.end \in Senders /\ client.end.attempt \in 0 .. client.opts.retries
    <3>1. client \in Clients /\ CounterInv /\ client.opts.retries \in Nat
      BY <2>1, WhileSending
    <3>2. client.end \in Senders /\ client.end.attempt \in Nat
      BY <3>1 DEF Clients, Senders
    <3> QED
      BY <3>1, <3>2 DEF CounterInv
  <2>3. client.end = [client.end EXCEPT !.attempt = client.end.attempt]
    BY <2>2 DEF Senders
  <2>4. SendsWindow([client.end EXCEPT !.attempt = client.end.attempt], rest)
    BY <2>1, <2>3
  <2> QED
    BY <1>2, <1>3, <2>1, <2>2, <2>4, SameWindowStep
<1>9. CASE ClientHearsError(d, rest)
  <2>1. d.packet.code \in {"FileExists", "NotDefined"}
    BY <1>4, <1>9, FromTaskTypes DEF ClientHearsError
  <2>2. ClientFailsWith(d.packet.code) /\ net' \subseteq net
    BY <1>3, <1>9 DEF ClientHearsError
  <2>3. d.packet.code = "FileExists" => client.peer = Client
    <3>1. CASE Requesting
      BY <3>1 DEF PutInv, ClientInv, Requesting
    <3>2. CASE FromPeer(d)
      BY <1>4, <1>9, <3>2, FromTaskTypes DEF ClientHearsError, FromPeer
    <3> QED
      BY <1>9, <3>1, <3>2 DEF ClientHearsError
  <2> QED
    BY <1>2, <1>3, <2>1, <2>2, <2>3, ClientFailsStep
<1>10. CASE ClientTurnsAway(d, rest)
  <2>1. /\ UNCHANGED client
        /\ net' = rest \cup Datagrams(Client, d.src, {ErrorPacket("UnknownTid")})
        /\ ~Requesting
    BY <1>10 DEF ClientTurnsAway, Transferring, Requesting
  <2> QED
    BY <1>2, <1>3, <1>4, <2>1, ClientSameStep
<1> QED
  BY <1>2, <1>5, <1>6, <1>7, <1>8, <1>9, <1>10

\* So does the end of its patience.
LEMMA ClientTimeoutStep ==
  ASSUME PutInv, ClientTimeout
  PROVE  PutInv'
<1>1. UNCHANGED <<config, tasks, disk>> /\ faults' \in 0 .. MaxFaults
  BY FaultsBounded DEF ClientTimeout, PutInv, CounterInv
<1>2. CASE ClientAsksAgain
  BY <1>1, <1>2, ClientAsksAgainStep
<1>3. CASE ClientRetransmits
  <2>1. /\ Transferring /\ client.end.attempt < client.opts.retries
        /\ SendsWindow([client.end EXCEPT !.attempt = @ + 1], net)
    BY <1>3 DEF ClientRetransmits
  <2>2. client.end.attempt + 1 \in 0 .. client.opts.retries
    <3>1. client \in Clients /\ client.opts.retries \in Nat
      BY <2>1, WhileSending
    <3> QED
      BY <2>1, <3>1 DEF Clients, Senders
  <2>3. SendsWindow([client.end EXCEPT !.attempt = client.end.attempt + 1], net)
    BY <2>1
  <2> QED
    BY <1>1, <2>1, <2>2, <2>3, SameWindowStep
<1>4. CASE ClientGivesUp
  BY <1>1, <1>4, ClientFailsStep DEF ClientGivesUp
<1> QED
  BY <1>2, <1>3, <1>4 DEF ClientTimeout

-----------------------------------------------------------------------------
(* The steps of the server.                                                *)

\* A new task has received nothing.
LEMMA NewTaskFacts ==
  ASSUME StateInv, NEW p \in Choices
  PROVE  /\ NewTask(p) \in Tasks /\ NewTask(p).pos = 0
         /\ Receives(NewTask(p).end, p.windowsize, p.blksize)
         /\ Len(NewTask(p).end.file) = 0 /\ NewTask(p).end.attempt = 0
         /\ NewTask(p).end.status = "receiving"
<1> DEFINE r == NewReceiver(p.windowsize, p.blksize)
<1>1. /\ Receives(r, p.windowsize, p.blksize) /\ Len(r.file) = 0
      /\ r.status = "receiving" /\ r.attempt = 0
  BY ChoicesFacts, NewReceiverReceives
<1>2. NewTask(p) = [end |-> r, pos |-> 0]
  BY DEF NewTask
<1> HIDE DEF r
<1> QED
  BY <1>1, <1>2 DEF Tasks, Receives

\* A task that opens the file answers with the OACK or ACK(0).
LEMMA TaskOpensStep ==
  ASSUME PutInv, UNCHANGED <<config, client>>, faults' \in 0 .. MaxFaults,
         Len(tasks) < MaxTasks,
         NEW d \in net, d.dst = Listener, NEW rest \in SUBSET net,
         TaskOpens(d, rest)
  PROVE  PutInv'
<1>1. FromPairs(d.packet.options) = Requested
  BY OnTheirWay DEF Requested
<1>2. PICK packet : packet = IF Offer = << >> THEN AckPacket(0) ELSE OackPacket(Offer)
  OBVIOUS
<1>3. /\ disk' = << >> /\ tasks' = Append(tasks, NewTask(Params))
      /\ net' = rest \cup Datagrams(NewTid, Client, {packet})
  BY <1>1, <1>2 DEF TaskOpens, Params, Offer
<1>4. PICK task : task = NewTask(Params)
  OBVIOUS
<1>5. /\ task \in Tasks /\ task.pos = 0 /\ Params \in Choices
      /\ Receives(task.end, Params.windowsize, Params.blksize)
      /\ Len(task.end.file) = 0 /\ task.end.attempt = 0 /\ task.end.status = "receiving"
  BY <1>4, NewTaskFacts DEF PutInv, Choices
<1>6. disk' \in Seq(Byte)
  BY <1>3
<1>7. PICK tid : tid = NewTid
  OBVIOUS
<1>8. \A e \in net' : e \in net \/ e \in Datagrams(tid, Client, {packet})
  BY <1>3, <1>7
<1>9. tasks' = Append(tasks, task)
  BY <1>3, <1>4
<1> QED
  BY <1>2, <1>5, <1>6, <1>7, <1>8, <1>9, ListenerStep

\* A task that is refused ends with an ERROR.
LEMMA TaskIsRefusedStep ==
  ASSUME PutInv, UNCHANGED <<config, client>>, faults' \in 0 .. MaxFaults,
         Len(tasks) < MaxTasks,
         NEW d \in net, NEW rest \in SUBSET net,
         TaskIsRefused(d, rest)
  PROVE  PutInv'
<1>1. PICK new : new = NewTask(Defaults)
  OBVIOUS
<1>2. /\ new \in Tasks /\ new.pos = 0 /\ Defaults \in Choices
      /\ Receives(new.end, Defaults.windowsize, Defaults.blksize)
      /\ Len(new.end.file) = 0 /\ new.end.attempt = 0
  BY <1>1, NewTaskFacts DEF PutInv, Choices
<1>3. PICK task : task = [new EXCEPT !.end.status = "failed"]
  OBVIOUS
<1>4. PICK r : r = [new.end EXCEPT !.status = "failed"]
  OBVIOUS
<1>5. /\ r \in Receivers /\ r.window = new.end.window /\ r.blksize = new.end.blksize
      /\ r.file = new.end.file /\ r.last_acked = new.end.last_acked
      /\ r.next_block = new.end.next_block
      /\ r.status = "failed" /\ r.attempt = 0
  BY <1>2, <1>4 DEF Tasks, Receivers
<1>6. Receives(r, Defaults.windowsize, Defaults.blksize)
  BY <1>2, <1>5, SameFileReceives
<1>7. task \in Tasks /\ task.end = r /\ task.pos = 0
  BY <1>2, <1>3, <1>4, <1>5 DEF Tasks
<1>8. PICK tid : tid = NewTid
  OBVIOUS
<1>9. /\ tasks' = Append(tasks, task) /\ disk' = disk
      /\ \A e \in net' : e \in net \/ e \in Datagrams(tid, Client, {ErrorPacket("FileExists")})
  BY <1>1, <1>3, <1>8 DEF TaskIsRefused, TaskRefuses
<1>10. /\ \E p \in Choices : Receives(task.end, p.windowsize, p.blksize)
       /\ Len(task.end.file) = 0 /\ task.end.status = "failed" /\ task.end.attempt = 0
  BY <1>2, <1>5, <1>6, <1>7
<1> QED
  BY <1>7, <1>8, <1>9, <1>10, ListenerStep

\* Every request that reaches the listener keeps the invariant.
LEMMA TaskStartsStep ==
  ASSUME PutInv, TaskStarts
  PROVE  PutInv'
<1>1. PICK d \in net : \E rest \in {net, net \ {d}} :
        /\ Arrives(d, Listener, rest)
        /\ TaskOpens(d, rest) \/ TaskIsRefused(d, rest)
        /\ UNCHANGED <<config, client>>
  BY DEF TaskStarts
<1>2. PICK rest \in {net, net \ {d}} :
        /\ Arrives(d, Listener, rest)
        /\ TaskOpens(d, rest) \/ TaskIsRefused(d, rest)
        /\ UNCHANGED <<config, client>>
  BY <1>1
<1>3. d.dst = Listener /\ faults' \in 0 .. MaxFaults /\ rest \in SUBSET net /\ Listens(Listener)
  BY <1>2, FaultsBounded DEF PutInv, CounterInv
<1>4. Len(tasks) < MaxTasks
  BY <1>3 DEF Listens, Listener, Client
<1> QED
  BY <1>2, <1>3, <1>4, TaskOpensStep, TaskIsRefusedStep

\* A task that has not returned can write, and receives with the one parameters or the
\* other.
LEMMA WhileReceiving ==
  ASSUME PutInv, NEW t \in DOMAIN tasks, Listens(t)
  PROVE  /\ tasks[t] \in Tasks /\ tasks[t].end \in Receivers /\ tasks[t].pos \in Nat
         /\ tasks[t].end.status = "receiving" /\ disk \in Seq(Byte)
         /\ Len(tasks[t].end.file) \in Nat
         /\ config.retries \in Nat /\ tasks[t].end.attempt <= config.retries
         /\ \E p \in Choices : Receives(tasks[t].end, p.windowsize, p.blksize)
<1>1. /\ tasks[t] \in Tasks /\ tasks[t].end \in Receivers /\ Len(tasks[t].end.file) \in Nat
      /\ t # Client /\ t # Listener /\ TaskInv(t)
  BY TaskNumbers DEF PutInv
<1>2. tasks[t].end.status = "receiving"
  BY <1>1 DEF Listens, Active, Receivers
<1>3. config.retries \in Nat /\ tasks[t].end.attempt <= config.retries
  BY SessionAssumption DEF PutInv, StateInv, CounterInv
<1> QED
  BY <1>1, <1>2, <1>3 DEF TaskInv, Tasks

\* Writing a stretch of the file, wherever it may be, leaves bytes in the file.
LEMMA WriteAtBytes ==
  ASSUME NEW bytes \in Seq(Byte), NEW pos \in Nat, NEW data \in Stretch,
         data.at + data.len <= FileLen
  PROVE  WriteAt(bytes, pos, data) \in Seq(Byte)
<1>1. CASE data.len = 0
  BY <1>1 DEF WriteAt
<1>2. CASE data.len # 0
  <2> DEFINE n == IF Len(bytes) > pos + data.len THEN Len(bytes) ELSE pos + data.len
             byte(i) == IF i \in pos + 1 .. pos + data.len THEN data.at + (i - pos)
                        ELSE IF i <= Len(bytes) THEN bytes[i] ELSE Hole
  <2>1. data.at \in Nat /\ data.len \in Nat /\ Len(bytes) \in Nat
        /\ \A i \in 1 .. Len(bytes) : bytes[i] \in Byte
    BY LenProperties, ElementOfSeq DEF Stretch
  <2>2. n \in Nat
    BY <2>1
  <2>3. FileLen \in Nat
    BY SessionAssumption
  <2>4. ASSUME NEW i \in 1 .. n
        PROVE  byte(i) \in Byte
    <3>1. CASE i \in pos + 1 .. pos + data.len
      <4>1. data.at + (i - pos) \in 0 .. FileLen + 1
        BY <2>1, <2>3, <3>1
      <4> QED
        BY <3>1, <4>1 DEF Byte
    <3>2. CASE i \notin pos + 1 .. pos + data.len
      <4>1. Hole \in Byte
        BY <2>3 DEF Hole, Byte
      <4> QED
        BY <2>1, <3>2, <4>1
    <3> QED
      BY <3>1, <3>2
  <2>5. WriteAt(bytes, pos, data) = [i \in 1 .. n |-> byte(i)]
    BY <1>2 DEF WriteAt
  <2> HIDE DEF n, byte
  <2>6. [i \in 1 .. n |-> byte(i)] \in [1 .. n -> Byte]
    BY <2>4
  <2> QED
    BY <2>2, <2>5, <2>6, SeqDef
<1> QED
  BY <1>1, <1>2

\* DATA that reaches a task comes from a client that has chosen it, and holds a block.
LEMMA DataFacts ==
  ASSUME PutInv, NEW d \in net, d.dst \in DOMAIN tasks, d.packet.type = "DATA"
  PROVE  /\ d.dst = client.peer /\ client.peer # Client
         /\ client.blksize \in Nat \ {0} /\ Blocks \in Seq(Stretch) /\ Len(Blocks) \in Nat \ {0}
         /\ d.packet.data \in Stretch /\ d.packet.data.at + d.packet.data.len <= FileLen
         /\ \E n \in 1 .. Len(Blocks) :
              d.packet.block = Number(n) /\ d.packet.data = Blocks[n]
<1>1. ToTask(d.dst, d.packet)
  BY OnTheirWay
<1>2. ErrorPacket("UnknownTid").type = "ERROR"
  BY DEF ErrorPacket
<1>3. d.dst = client.peer /\ d.dst # Client
  BY <1>1, <1>2, TaskNumbers DEF ToTask, PutInv
<1>4. PICK n \in 1 .. Len(Blocks) : d.packet = DataPacket(Number(n), Blocks[n])
  BY <1>1, <1>2 DEF ToTask
<1>5. client.blksize \in Nat \ {0}
  BY <1>3, ChoicesFacts DEF PutInv, ClientInv
<1>6. Blocks \in Seq(Stretch) /\ Len(Blocks) \in Nat \ {0}
  BY <1>5, CutFacts DEF Blocks
<1>7. Blocks[n] \in Stretch
  BY <1>6, ElementOfSeq
<1>8. Blocks[n].at + Blocks[n].len <= FileLen
  BY <1>5, CutPlaces DEF Blocks
<1>9. d.packet.block = Number(n) /\ d.packet.data = Blocks[n]
  BY <1>4 DEF DataPacket
<1> QED
  BY <1>3, <1>5, <1>6, <1>7, <1>8, <1>9

\* A block is written and answered.
LEMMA TaskAcceptsStep ==
  ASSUME PutInv, UNCHANGED <<config, client>>, faults' \in 0 .. MaxFaults,
         NEW t \in DOMAIN tasks, Listens(t),
         NEW d \in net, d.dst = t, NEW rest \in SUBSET net,
         TaskAccepts(t, d, rest)
  PROVE  PutInv'
<1>1. /\ tasks[t] \in Tasks /\ tasks[t].end \in Receivers /\ tasks[t].pos \in Nat
      /\ tasks[t].end.status = "receiving" /\ disk \in Seq(Byte)
      /\ Len(tasks[t].end.file) \in Nat /\ config.retries \in Nat
  BY WhileReceiving
<1>2. PICK p \in Choices : Receives(tasks[t].end, p.windowsize, p.blksize)
  BY WhileReceiving
<1>3. /\ d.packet.type = "DATA" /\ Expects(tasks[t].end, d.packet.block)
      /\ disk' = WriteAt(disk, tasks[t].pos, d.packet.data)
  BY DEF TaskAccepts
<1>4. /\ t = client.peer /\ d.packet.data \in Stretch
      /\ d.packet.data.at + d.packet.data.len <= FileLen
  BY <1>3, DataFacts
<1>5. disk' \in Seq(Byte)
  BY <1>1, <1>3, <1>4, WriteAtBytes
<1>6. PICK r : r = AcceptBlock(tasks[t].end, d.packet.block, d.packet.data)
  OBVIOUS
<1>7. /\ Receives(r, p.windowsize, p.blksize) /\ r.attempt = 0
      /\ Len(r.file) = Len(tasks[t].end.file) + 1
  <2>1. p.windowsize \in Nat /\ p.blksize \in Nat
    BY ChoicesFacts DEF PutInv
  <2> QED
    BY <1>2, <1>3, <1>4, <1>6, <2>1, AcceptBlockReceives
<1>8. PICK task : task = [tasks[t] EXCEPT !.end = r, !.pos = tasks[t].pos + d.packet.data.len]
  OBVIOUS
<1>9. tasks' = [tasks EXCEPT ![t] = task]
  BY <1>6, <1>8 DEF TaskAccepts
<1>10. /\ task \in Tasks /\ task.end = r
       /\ task.pos = tasks[t].pos + d.packet.data.len
  <2>1. r \in Receivers
    BY <1>7 DEF Receives
  <2>2. d.packet.data.len \in Nat
    BY <1>4 DEF Stretch
  <2>3. tasks[t].pos + d.packet.data.len \in Nat
    BY <1>1, <2>2
  <2> QED
    BY <1>1, <1>8, <2>1, <2>3 DEF Tasks
<1>11. ASSUME NEW e \in net', e \notin net
       PROVE  /\ e.dst = Client /\ e.src = t
              /\ \E n \in 0 .. Len(task.end.file) : e.packet = AckPacket(Number(n))
  <2>1. e \in Datagrams(t, Client, {AckPacket(d.packet.block)})
    BY <1>11 DEF TaskAccepts, Datagrams
  <2>2. e.dst = Client /\ e.src = t /\ e.packet = AckPacket(d.packet.block)
    BY <2>1 DEF Datagrams
  <2>3. d.packet.block = Number(Len(task.end.file))
    BY <1>1, <1>2, <1>3, <1>7, <1>10 DEF Expects, Receives
  <2>4. Len(task.end.file) \in 0 .. Len(task.end.file)
    BY <1>1, <1>7, <1>10
  <2> QED
    BY <2>2, <2>3, <2>4
<1>12. /\ \E q \in Choices : Receives(task.end, q.windowsize, q.blksize)
       /\ Len(task.end.file) \in Nat /\ Len(task.end.file) >= Len(tasks[t].end.file)
       /\ task.end.attempt <= config.retries
  BY <1>1, <1>7, <1>10
<1> QED
  BY <1>1, <1>4, <1>5, <1>9, <1>10, <1>11, <1>12, TaskStep

\* A step that leaves the file of a task alone, and says no more than an ACK of it or
\* that it gives up, keeps the invariant.
LEMMA SameFileStep ==
  ASSUME PutInv, UNCHANGED <<config, client, disk>>, faults' \in 0 .. MaxFaults,
         NEW t \in DOMAIN tasks, Listens(t),
         NEW r \in Receivers, r.window = tasks[t].end.window, r.blksize = tasks[t].end.blksize,
         r.file = tasks[t].end.file, r.last_acked = tasks[t].end.last_acked,
         r.next_block = tasks[t].end.next_block, r.status # "ok",
         r.attempt <= config.retries,
         tasks' = [tasks EXCEPT ![t].end = r],
         \A d \in net' : d \in net \/
           d \in Datagrams(t, Client, {ErrorPacket("NotDefined"), AckPacket(r.last_acked)})
  PROVE  PutInv'
<1>1. /\ tasks[t] \in Tasks /\ disk \in Seq(Byte) /\ Len(tasks[t].end.file) \in Nat
      /\ tasks[t].end.status = "receiving" /\ TaskInv(t)
  BY WhileReceiving DEF PutInv
<1>2. PICK p \in Choices : Receives(tasks[t].end, p.windowsize, p.blksize)
  BY WhileReceiving
<1>3. Receives(r, p.windowsize, p.blksize)
  BY <1>2, SameFileReceives
<1>4. PICK task : task = [tasks[t] EXCEPT !.end = r]
  OBVIOUS
<1>5. task \in Tasks /\ task.end = r /\ task.pos = tasks[t].pos
  BY <1>1, <1>4 DEF Tasks
<1>6. tasks' = [tasks EXCEPT ![t] = task]
  BY <1>4
<1>7. ASSUME NEW d \in net', d \notin net
      PROVE  /\ d.dst = Client /\ d.src = t
             /\ \/ d.packet = ErrorPacket("NotDefined")
                \/ \E n \in 0 .. Len(task.end.file) : d.packet = AckPacket(Number(n))
  <2>1. /\ d.dst = Client /\ d.src = t
        /\ d.packet = ErrorPacket("NotDefined") \/ d.packet = AckPacket(r.last_acked)
    BY <1>7 DEF Datagrams
  <2>2. r.last_acked = Number(Len(task.end.file))
    BY <1>3, <1>5 DEF Receives
  <2>3. Len(task.end.file) \in 0 .. Len(task.end.file)
    BY <1>1, <1>5
  <2> QED
    BY <2>1, <2>2, <2>3
<1>8. /\ \E q \in Choices : Receives(task.end, q.windowsize, q.blksize)
      /\ Len(task.end.file) \in Nat /\ Len(task.end.file) >= Len(tasks[t].end.file)
      /\ task.end.attempt <= config.retries
  BY <1>1, <1>3, <1>5
<1>9. t # client.peer => /\ task.pos = 0 /\ Len(task.end.file) = 0
                         /\ task.end.status # "ok"
  BY <1>1, <1>5 DEF TaskInv
<1>10. disk' \in Seq(Byte)
  BY <1>1
<1>11. \A d \in net' : d \in net \/
         /\ d.dst = Client /\ d.src = t
         /\ \/ d.packet = ErrorPacket("NotDefined")
            \/ \E n \in 0 .. Len(task.end.file) : d.packet = AckPacket(Number(n))
  BY <1>7
<1> QED
  BY <1>1, <1>5, <1>6, <1>8, <1>9, <1>10, <1>11, TaskStep

\* Every reception of a task keeps the invariant.
LEMMA TaskReceivesStep ==
  ASSUME PutInv, NEW t \in DOMAIN tasks, TaskReceives(t)
  PROVE  PutInv'
<1>1. PICK d \in net : \E rest \in {net, net \ {d}} :
        /\ Arrives(d, t, rest)
        /\ \/ TaskAccepts(t, d, rest) \/ TaskRejects(t, d, rest)
           \/ TaskHearsError(t, d, rest) /\ UNCHANGED disk
        /\ UNCHANGED <<config, client>>
  BY DEF TaskReceives
<1>2. PICK rest \in {net, net \ {d}} :
        /\ Arrives(d, t, rest)
        /\ \/ TaskAccepts(t, d, rest) \/ TaskRejects(t, d, rest)
           \/ TaskHearsError(t, d, rest) /\ UNCHANGED disk
        /\ UNCHANGED <<config, client>>
  BY <1>1
<1>3. d.dst = t /\ faults' \in 0 .. MaxFaults /\ rest \in SUBSET net /\ Listens(t)
  <2>1. faults \in 0 .. MaxFaults
    BY DEF PutInv, CounterInv
  <2>2. faults' \in 0 .. MaxFaults /\ d.dst = t /\ Listens(t)
    BY <1>2, <2>1, FaultsBounded
  <2> QED
    BY <1>2, <2>2
<1>4. /\ tasks[t] \in Tasks /\ tasks[t].end \in Receivers
      /\ tasks[t].end.status = "receiving"
      /\ config.retries \in Nat /\ tasks[t].end.attempt <= config.retries
  BY <1>3, WhileReceiving
<1>5. CASE TaskAccepts(t, d, rest)
  BY <1>2, <1>3, <1>5, TaskAcceptsStep
<1>6. CASE TaskRejects(t, d, rest)
  <2>1. PICK r : r = RejectBlock(tasks[t].end)
    OBVIOUS
  <2>2. /\ r \in Receivers /\ r.window = tasks[t].end.window /\ r.blksize = tasks[t].end.blksize
        /\ r.file = tasks[t].end.file /\ r.last_acked = tasks[t].end.last_acked
        /\ r.next_block = tasks[t].end.next_block /\ r.status # "ok"
        /\ r.attempt <= config.retries
    <3>1. PICK q : q = tasks[t].end /\ q \in Receivers /\ q.status = "receiving"
      BY <1>4
    <3>2. /\ r \in Receivers /\ r.attempt = 0
          /\ r.window = q.window /\ r.blksize = q.blksize /\ r.file = q.file
          /\ r.last_acked = q.last_acked /\ r.next_block = q.next_block
          /\ r.status = "receiving"
      BY <2>1, <3>1 DEF RejectBlock, Receivers
    <3> QED
      BY <1>4, <3>1, <3>2
  <2>3. tasks' = [tasks EXCEPT ![t].end = r] /\ disk' = disk
    BY <1>6, <2>1 DEF TaskRejects
  <2>4. \A e \in net' : e \in net \/
          e \in Datagrams(t, Client, {ErrorPacket("NotDefined"), AckPacket(r.last_acked)})
    BY <1>3, <1>6, <2>2 DEF TaskRejects, Datagrams
  <2> QED
    BY <1>2, <1>3, <2>2, <2>3, <2>4, SameFileStep
<1>7. CASE TaskHearsError(t, d, rest) /\ UNCHANGED disk
  <2>1. PICK r : r = [tasks[t].end EXCEPT !.status = "failed"]
    OBVIOUS
  <2>2. /\ r \in Receivers /\ r.window = tasks[t].end.window /\ r.blksize = tasks[t].end.blksize
        /\ r.file = tasks[t].end.file /\ r.last_acked = tasks[t].end.last_acked
        /\ r.next_block = tasks[t].end.next_block /\ r.status # "ok"
        /\ r.attempt <= config.retries
    BY <1>4, <2>1 DEF Receivers
  <2>3. tasks' = [tasks EXCEPT ![t].end = r] /\ disk' = disk
    BY <1>4, <1>7, <2>1 DEF TaskHearsError
  <2>4. \A e \in net' : e \in net
    BY <1>3, <1>7 DEF TaskHearsError
  <2> QED
    BY <1>2, <1>3, <2>2, <2>3, <2>4, SameFileStep
<1> QED
  BY <1>2, <1>5, <1>6, <1>7

\* So does the end of its patience.
LEMMA TaskTimeoutStep ==
  ASSUME PutInv, NEW t \in DOMAIN tasks, TaskTimeout(t)
  PROVE  PutInv'
<1>1. /\ UNCHANGED <<config, client, disk>> /\ faults' \in 0 .. MaxFaults /\ Listens(t)
  BY FaultsBounded DEF TaskTimeout, PutInv, CounterInv
<1>2. /\ tasks[t] \in Tasks /\ tasks[t].end \in Receivers
      /\ tasks[t].end.status = "receiving"
      /\ config.retries \in Nat /\ tasks[t].end.attempt <= config.retries
  BY <1>1, WhileReceiving
<1>3. CASE TaskReAcks(t)
  <2>1. PICK r : r = [tasks[t].end EXCEPT !.attempt = tasks[t].end.attempt + 1]
    OBVIOUS
  <2>2. /\ r \in Receivers /\ r.window = tasks[t].end.window /\ r.blksize = tasks[t].end.blksize
        /\ r.file = tasks[t].end.file /\ r.last_acked = tasks[t].end.last_acked
        /\ r.next_block = tasks[t].end.next_block /\ r.status # "ok"
        /\ r.attempt <= config.retries
    BY <1>2, <1>3, <2>1 DEF TaskReAcks, Receivers
  <2>3. tasks' = [tasks EXCEPT ![t].end = r]
    BY <1>2, <1>3, <2>1 DEF TaskReAcks
  <2>4. \A e \in net' : e \in net \/
          e \in Datagrams(t, Client, {ErrorPacket("NotDefined"), AckPacket(r.last_acked)})
    BY <1>3, <2>2 DEF TaskReAcks, Datagrams
  <2> QED
    BY <1>1, <2>2, <2>3, <2>4, SameFileStep
<1>4. CASE TaskGivesUp(t)
  <2>1. PICK r : r = [tasks[t].end EXCEPT !.status = "failed"]
    OBVIOUS
  <2>2. /\ r \in Receivers /\ r.window = tasks[t].end.window /\ r.blksize = tasks[t].end.blksize
        /\ r.file = tasks[t].end.file /\ r.last_acked = tasks[t].end.last_acked
        /\ r.next_block = tasks[t].end.next_block /\ r.status # "ok"
        /\ r.attempt <= config.retries
    BY <1>2, <2>1 DEF Receivers
  <2>3. tasks' = [tasks EXCEPT ![t].end = r]
    BY <1>2, <1>4, <2>1 DEF TaskGivesUp
  <2>4. \A e \in net' : e \in net \/
          e \in Datagrams(t, Client, {ErrorPacket("NotDefined"), AckPacket(r.last_acked)})
    BY <1>4 DEF TaskGivesUp, Datagrams
  <2> QED
    BY <1>1, <2>2, <2>3, <2>4, SameFileStep
<1> QED
  BY <1>3, <1>4 DEF TaskTimeout

-----------------------------------------------------------------------------
(* The invariant.                                                          *)

\* It holds at first.
LEMMA InitPutInv ==
  ASSUME Init
  PROVE  PutInv
<1>1. PICK opts \in ClientOptions : client = NewClient(opts, "WRQ", FileLen, NewSender(<< >>, 1))
  BY DEF Init
<1>2. PICK s : s = NewSender(<< >>, 1)
  OBVIOUS
<1>3. s \in Senders /\ s.attempt = 0
  <2>1. << >> \in Seq(Stretch) /\ 1 \in Nat
    OBVIOUS
  <2>2. Sends(s, << >>, 1) /\ s.attempt = 0
    BY <1>2, <2>1, NewSenderSends
  <2> QED
    BY <2>2 DEF Sends
<1>4. opts.retries \in Nat
  BY SessionAssumption
<1>5. /\ client \in Clients /\ client.phase = "request" /\ client.peer = Client
      /\ client.attempt = 0 /\ client.end.attempt = 0 /\ client.opts = opts
      /\ client.error = "none"
  BY <1>1, <1>2, <1>3 DEF NewClient, Clients, Asked, Client
<1>6. tasks = << >> /\ Len(tasks) = 0 /\ DOMAIN tasks = {} /\ tasks \in Seq(Tasks)
  BY EmptySeq DEF Init
<1>7. disk = None \/ disk \in Seq(Byte)
  <2>1. FileLen + 1 \in Byte
    BY SessionAssumption DEF Byte
  <2>2. <<FileLen + 1>> \in Seq(Byte)
    BY <2>1
  <2> QED
    BY <2>2 DEF Init, OldFile
<1>8. StateInv
  BY <1>5, <1>6, <1>7 DEF Init, StateInv
<1>9. CounterInv
  BY <1>4, <1>5, <1>6, SessionAssumption DEF Init, CounterInv
<1>10. ClientInv
  BY <1>5 DEF ClientInv
<1>11. \A d \in net : Proper(d) /\ d.dst # Client
  BY <1>5, AskIsProper DEF Init, Clients, Proper, Client, Listener
<1>12. RefusalInv
  BY <1>11 DEF RefusalInv
<1> QED
  BY <1>6, <1>8, <1>9, <1>10, <1>11, <1>12 DEF PutInv

\* Every step keeps it.
LEMMA NextPutInv ==
  ASSUME PutInv, [Next]_vars
  PROVE  PutInv'
<1>1. CASE ClientReceives
  BY <1>1, ClientReceivesStep
<1>2. CASE ClientTimeout
  BY <1>2, ClientTimeoutStep
<1>3. CASE TaskStarts
  BY <1>3, TaskStartsStep
<1>4. ASSUME NEW t \in DOMAIN tasks, TaskReceives(t) \/ TaskTimeout(t)
      PROVE  PutInv'
  BY <1>4, TaskReceivesStep, TaskTimeoutStep
<1>5. CASE Lose
  <2>1. /\ UNCHANGED <<config, client, tasks, disk>> /\ net' \subseteq net
        /\ faults' \in 0 .. MaxFaults
    BY <1>5, FaultsBounded DEF Lose, PutInv, CounterInv
  <2> QED
    BY <2>1, ClientSameStep
<1>6. CASE UNCHANGED vars
  <2>1. UNCHANGED <<config, client, tasks, disk, net, faults>>
    BY <1>6 DEF vars
  <2> QED
    BY <2>1, ClientSameStep DEF PutInv, CounterInv
<1> QED
  BY <1>1, <1>2, <1>3, <1>4, <1>5, <1>6 DEF Next, Terminated

\* In every upload, everything that is on its way is what its sender may have sent, and
\* only a task that the client has chosen has had any of its blocks.
THEOREM PutInvariance == Spec => []PutInv
<1>1. Init => PutInv
  BY InitPutInv
<1>2. PutInv /\ [Next]_vars => PutInv'
  BY NextPutInv
<1> QED
  BY <1>1, <1>2, PTL DEF Spec

\* Only the task whose TID the client has chosen ever writes, whatever repetitions of
\* the request are served beside it.
THEOREM OnlyOneWrites == Spec => []OnlyPeerWrites
<1>1. ASSUME PutInv
      PROVE  OnlyPeerWrites
  BY <1>1 DEF PutInv, TaskInv, OnlyPeerWrites
<1> QED
  BY <1>1, PutInvariance, PTL

\* The refusal of a repetition never ends an upload that has begun.
THEOREM NoMistake == Spec => []RefusalNotMistaken
<1>1. ASSUME PutInv
      PROVE  RefusalNotMistaken
  BY <1>1 DEF PutInv, ClientInv, RefusalNotMistaken
<1> QED
  BY <1>1, PutInvariance, PTL

-----------------------------------------------------------------------------
(* What success means, in an upload whose file does not wrap the block     *)
(* numbers, whichever parameters the client uses.                          *)

NoWrap == \A p \in Choices : Len(Cut(p.blksize)) + p.windowsize < Modulus

\* Where block k ends in the file, when blocks have b bytes.
End(b, k) == IF k = Len(Cut(b)) THEN FileLen ELSE Cut(b)[k + 1].at

\* The peer has written the blocks from the first on, as far as they have come, and the
\* client counts no block as acknowledged that the peer has not written.
PeerInv ==
  client.peer # Client =>
    LET task == tasks[client.peer]
        k    == Len(task.end.file)
    IN  /\ k <= Len(Blocks) /\ task.pos = End(client.blksize, k)
        /\ BlksizeSettled => (task.end.status = "ok" <=> k = Len(Blocks))
        /\ Acked(client.end) <= k
        /\ client.phase = "ok" => Acked(client.end) = Len(Blocks)

Prefix(n) == [i \in 1 .. n |-> i]

\* If the file is opened once, only the first task can have opened it, with the
\* parameters of the request, and it holds what that task has written.
OnceInv ==
  Once =>
    /\ client.peer \in {Client, 1}
    /\ \A t \in DOMAIN tasks : tasks[t].end.status # "failed" => t = 1
    /\ \A d \in net : d.dst = Client /\ d.packet.type # "ERROR" => d.src = 1 /\ disk # OldFile
    /\ disk = OldFile => /\ client.peer = Client
                         /\ \A t \in DOMAIN tasks : tasks[t].end.status = "failed"
    /\ tasks = << >> => disk \in {None, OldFile}
    /\ tasks # << >> => \/ disk = OldFile
                        \/ /\ disk = Prefix(tasks[1].pos)
                           /\ tasks[1].end.blksize = Params.blksize

\* The blocks follow one another, from the beginning of the file to its end.
LEMMA EndFacts ==
  ASSUME NEW b \in Nat \ {0}
  PROVE  /\ Cut(b) \in Seq(Stretch) /\ Len(Cut(b)) \in Nat \ {0}
         /\ End(b, 0) = 0 /\ End(b, Len(Cut(b))) = FileLen
         /\ \A k \in 0 .. Len(Cut(b)) : End(b, k) \in 0 .. FileLen
         /\ \A n \in 1 .. Len(Cut(b)) :
              /\ Cut(b)[n] \in Stretch /\ Cut(b)[n].at = End(b, n - 1)
              /\ End(b, n - 1) + Cut(b)[n].len = End(b, n)
<1>1. PICK blocks : blocks = Cut(b)
  OBVIOUS
<1>2. /\ blocks \in Seq(Stretch) /\ Len(blocks) \in Nat \ {0}
      /\ blocks[1].at = 0
      /\ \A i \in 1 .. Len(blocks) :
           /\ blocks[i].at + blocks[i].len <= FileLen
           /\ i < Len(blocks) => blocks[i].at + blocks[i].len = blocks[i + 1].at
           /\ i = Len(blocks) => blocks[i].at + blocks[i].len = FileLen
  BY <1>1, CutFacts, CutPlaces
<1>3. \A i \in 1 .. Len(blocks) :
        blocks[i] \in Stretch /\ blocks[i].at \in Nat /\ blocks[i].len \in Nat
  <2>1. ASSUME NEW i \in 1 .. Len(blocks)
        PROVE  blocks[i] \in Stretch
    BY <1>2, ElementOfSeq
  <2> QED
    BY <2>1 DEF Stretch
<1>4. FileLen \in Nat
  BY SessionAssumption
<1>5. End(b, 0) = 0 /\ End(b, Len(blocks)) = FileLen
  BY <1>1, <1>2 DEF End
<1>6. ASSUME NEW k \in 0 .. Len(blocks)
      PROVE  End(b, k) \in 0 .. FileLen
  <2>1. CASE k = Len(blocks)
    BY <1>4, <1>5, <2>1
  <2>2. CASE k # Len(blocks)
    <3>1. k + 1 \in 1 .. Len(blocks) /\ End(b, k) = blocks[k + 1].at
      BY <1>1, <1>2, <2>2 DEF End
    <3>2. PICK at, len : at = blocks[k + 1].at /\ len = blocks[k + 1].len
      OBVIOUS
    <3>3. at \in Nat /\ len \in Nat /\ at + len <= FileLen
      BY <1>2, <1>3, <3>1, <3>2
    <3> QED
      BY <1>4, <3>1, <3>2, <3>3
  <2> QED
    BY <2>1, <2>2
<1>7. ASSUME NEW n \in 1 .. Len(blocks)
      PROVE  blocks[n].at = End(b, n - 1) /\ End(b, n - 1) + blocks[n].len = End(b, n)
  <2>1. End(b, n - 1) = blocks[n].at
    <3>1. n - 1 # Len(blocks) /\ n - 1 + 1 = n
      BY <1>2
    <3> QED
      BY <1>1, <3>1 DEF End
  <2>2. blocks[n].at + blocks[n].len = End(b, n)
    BY <1>1, <1>2 DEF End
  <2> QED
    BY <2>1, <2>2
<1> QED
  BY <1>1, <1>2, <1>3, <1>5, <1>6, <1>7

\* The client asks, chooses its peer, hears an ACK of it, or goes on as before.
LEMMA ClientShape ==
  ASSUME PutInv, ClientReceives \/ ClientTimeout
  PROVE  /\ UNCHANGED <<config, tasks, disk>> /\ client'.request = client.request
         /\ \A e \in net' : e \in net \/ e.dst # Client
         /\ \/ /\ client.peer = Client /\ client'.phase = "data"
               /\ \E d \in net : /\ d.dst = Client /\ d.packet.type # "ERROR"
                                 /\ client'.peer = d.src
               /\ \E p \in Choices :
                    /\ client'.blksize = p.blksize
                    /\ client'.end = NextRound(NewSender(Cut(p.blksize), p.windowsize))
            \/ /\ client'.peer = client.peer /\ client'.blksize = client.blksize
               /\ Acked(client'.end) = Acked(client.end)
               /\ client'.phase = "ok" => client.phase = "ok"
            \/ /\ client'.peer = client.peer /\ client'.blksize = client.blksize
               /\ Transferring
               /\ \E n \in 0 .. Len(tasks[client.peer].end.file) :
                    client'.end = NextRound(ConsumeAck(client.end, Number(n)))
               /\ client'.phase = IF client'.end.status = "ok" THEN "ok" ELSE "data"
<1> DEFINE Chooses ==
             /\ client.peer = Client /\ client'.phase = "data"
             /\ \E d \in net : /\ d.dst = Client /\ d.packet.type # "ERROR"
                               /\ client'.peer = d.src
             /\ \E p \in Choices :
                  /\ client'.blksize = p.blksize
                  /\ client'.end = NextRound(NewSender(Cut(p.blksize), p.windowsize))
           GoesOn ==
             /\ client'.peer = client.peer /\ client'.blksize = client.blksize
             /\ Acked(client'.end) = Acked(client.end)
             /\ client'.phase = "ok" => client.phase = "ok"
           Hears ==
             /\ client'.peer = client.peer /\ client'.blksize = client.blksize
             /\ Transferring
             /\ \E n \in 0 .. Len(tasks[client.peer].end.file) :
                  client'.end = NextRound(ConsumeAck(client.end, Number(n)))
             /\ client'.phase = IF client'.end.status = "ok" THEN "ok" ELSE "data"
           Away == \A e \in net' : e \in net \/ e.dst # Client
           Same == client'.request = client.request
<1>1. client \in Clients /\ UNCHANGED <<config, tasks, disk>>
  BY DEF PutInv, StateInv, ClientReceives, ClientTimeout
<1>2. Client \notin DOMAIN tasks /\ Listener # Client
  BY TaskNumbers DEF PutInv
<1>3. ASSUME NEW d \in net, d.dst = Client, d.packet.type # "ERROR", Requesting,
             NEW p \in Choices, NEW rest \in SUBSET net, StartsSending(d.src, p, rest)
      PROVE  Chooses /\ Away /\ Same
  <2>1. d.src # Client
    BY <1>2, <1>3, OnTheirWay
  <2>2. \A e \in net' : e \in net \/ e.dst = d.src
    BY <1>3 DEF StartsSending, Datagrams
  <2>3. /\ client'.phase = "data" /\ client'.peer = d.src /\ client'.blksize = p.blksize
        /\ client'.end = NextRound(NewSender(Cut(p.blksize), p.windowsize)) /\ Same
    BY <1>1, <1>3 DEF StartsSending, Clients
  <2>4. client.peer = Client
    BY <1>3 DEF Requesting, PutInv, ClientInv
  <2> QED
    BY <1>3, <2>1, <2>2, <2>3, <2>4
<1>4. ASSUME NEW s, NEW rest \in SUBSET net, SendsWindow(s, rest), Transferring
      PROVE  /\ Away /\ Same /\ client'.end = s
             /\ client'.peer = client.peer /\ client'.blksize = client.blksize
             /\ client'.phase = IF s.status = "ok" THEN "ok" ELSE "data"
  <2>1. client.peer # Client
    BY <1>4, WhileSending
  <2>2. \A e \in net' : e \in net \/ e.dst = client.peer
    BY <1>4 DEF SendsWindow, Datagrams
  <2>3. /\ client'.end = s /\ Same
        /\ client'.peer = client.peer /\ client'.blksize = client.blksize
        /\ client'.phase = IF s.status = "ok" THEN "ok" ELSE "data"
    BY <1>1, <1>4 DEF SendsWindow, Clients, Transferring
  <2> QED
    BY <2>1, <2>2, <2>3
<1>5. ASSUME NEW attempt, NEW rest \in SUBSET net, Transferring,
             SendsWindow([client.end EXCEPT !.attempt = attempt], rest)
      PROVE  GoesOn /\ Away /\ Same
  <2>1. PICK s : s = [client.end EXCEPT !.attempt = attempt]
    OBVIOUS
  <2>2. client.end.status = "sending" /\ client.end \in Senders
    BY <1>1, <1>5, WhileSending DEF Clients
  <2>3. s.status = "sending" /\ Acked(s) = Acked(client.end)
    BY <2>1, <2>2 DEF Senders, Acked
  <2> QED
    BY <1>4, <1>5, <2>1, <2>3
<1>6. ASSUME NEW error, ClientFailsWith(error)
      PROVE  GoesOn /\ Same
  BY <1>1, <1>6 DEF ClientFailsWith, Clients
<1>7. CASE ClientReceives
  <2>1. PICK d \in net : \E rest \in {net, net \ {d}} :
          /\ Arrives(d, Client, rest)
          /\ \/ ClientMergesOack(d, rest) \/ ClientFallsBack(d, rest)
             \/ ClientAdvances(d, rest) \/ ClientStaleAck(d, rest) \/ ClientOther(d, rest)
             \/ ClientHearsError(d, rest) \/ ClientTurnsAway(d, rest)
    BY <1>7 DEF ClientReceives
  <2>2. PICK rest \in {net, net \ {d}} :
          /\ Arrives(d, Client, rest)
          /\ \/ ClientMergesOack(d, rest) \/ ClientFallsBack(d, rest)
             \/ ClientAdvances(d, rest) \/ ClientStaleAck(d, rest) \/ ClientOther(d, rest)
             \/ ClientHearsError(d, rest) \/ ClientTurnsAway(d, rest)
    BY <2>1
  <2>3. d.dst = Client /\ rest \in SUBSET net /\ d.src \in DOMAIN tasks /\ FromTask(d.src, d.packet)
    BY <2>2, OnTheirWay DEF Arrives
  <2>4. CASE ClientMergesOack(d, rest)
    <3>1. d.packet = OackPacket(Offer) /\ d.packet.type # "ERROR" /\ Requesting
      BY <2>3, <2>4, FromTaskTypes DEF ClientMergesOack
    <3>2. MergeOack(Defaults, FromPairs(d.packet.options)) = Params
      BY <3>1, ChoicesFacts DEF PutInv, OackPacket
    <3>3. StartsSending(d.src, Params, rest) /\ Params \in Choices
      BY <2>4, <3>2 DEF ClientMergesOack, Choices
    <3> QED
      BY <1>1, <1>3, <2>3, <3>1, <3>3
  <2>5. CASE ClientFallsBack(d, rest)
    <3>1. /\ d.packet.type # "ERROR" /\ Requesting /\ StartsSending(d.src, Defaults, rest)
          /\ Defaults \in Choices
      BY <2>5 DEF ClientFallsBack, Choices
    <3> QED
      BY <1>1, <1>3, <2>3, <3>1
  <2>6. CASE ClientAdvances(d, rest)
    <3>1. /\ Transferring /\ d.src = client.peer /\ d.packet.type = "ACK"
          /\ SendsWindow(NextRound(ConsumeAck(client.end, d.packet.block)), rest)
      BY <2>6 DEF ClientAdvances, FromPeer
    <3>2. PICK n \in 0 .. Len(tasks[client.peer].end.file) : d.packet = AckPacket(Number(n))
      BY <2>3, <3>1, FromTaskTypes
    <3>3. d.packet.block = Number(n)
      BY <3>2 DEF AckPacket
    <3>4. PICK s : s = NextRound(ConsumeAck(client.end, Number(n)))
      OBVIOUS
    <3>5. /\ Away /\ Same /\ client'.end = s
          /\ client'.peer = client.peer /\ client'.blksize = client.blksize
          /\ client'.phase = IF s.status = "ok" THEN "ok" ELSE "data"
      BY <1>4, <2>3, <3>1, <3>3, <3>4
    <3>6. Hears
      BY <3>1, <3>4, <3>5
    <3> QED
      BY <1>1, <3>5, <3>6
  <2>7. CASE ClientStaleAck(d, rest) \/ ClientOther(d, rest)
    <3>1. Transferring /\ SendsWindow(client.end, rest)
      BY <2>7 DEF ClientStaleAck, ClientOther
    <3>2. client.end.status = "sending"
      BY <3>1, WhileSending
    <3>3. GoesOn /\ Away /\ Same
      BY <1>4, <2>3, <3>1, <3>2
    <3> QED
      BY <1>1, <3>3
  <2>8. CASE ClientHearsError(d, rest)
    <3>1. ClientFailsWith(d.packet.code) /\ net' = rest
      BY <2>8 DEF ClientHearsError
    <3>2. GoesOn /\ Away /\ Same
      BY <1>6, <2>3, <3>1
    <3> QED
      BY <1>1, <3>2
  <2>9. CASE ClientTurnsAway(d, rest)
    <3>1. \A e \in net' : e \in net \/ e.dst = d.src
      BY <2>3, <2>9 DEF ClientTurnsAway, Datagrams
    <3>2. GoesOn /\ Away /\ Same
      BY <1>2, <2>3, <2>9, <3>1 DEF ClientTurnsAway
    <3> QED
      BY <1>1, <3>2
  <2> QED
    BY <2>2, <2>4, <2>5, <2>6, <2>7, <2>8, <2>9
<1>8. CASE ClientTimeout
  <2>1. CASE ClientAsksAgain
    <3>1. /\ client'.peer = client.peer /\ client'.blksize = client.blksize
          /\ client'.end = client.end /\ client'.phase = client.phase /\ Same
      BY <1>1, <2>1 DEF ClientAsksAgain, Clients
    <3>2. \A e \in net' : e \in net \/ e.dst = Listener
      BY <2>1 DEF ClientAsksAgain, Ask, Datagrams
    <3> QED
      BY <1>1, <1>2, <3>1, <3>2
  <2>2. CASE ClientRetransmits
    <3>1. /\ Transferring /\ net \in SUBSET net
          /\ SendsWindow([client.end EXCEPT !.attempt = client.end.attempt + 1], net)
      BY <2>2 DEF ClientRetransmits
    <3>2. GoesOn /\ Away /\ Same
      BY <1>5, <3>1
    <3> QED
      BY <1>1, <3>2
  <2>3. CASE ClientGivesUp
    <3>1. ClientFailsWith("timeout") /\ net' = net
      BY <2>3 DEF ClientGivesUp
    <3>2. GoesOn /\ Away /\ Same
      BY <1>6, <3>1
    <3> QED
      BY <1>1, <3>2
  <2> QED
    BY <1>8, <2>1, <2>2, <2>3 DEF ClientTimeout
<1> QED
  BY <1>7, <1>8

\* A task writes a block that the client has sent it as its peer, or its file stays as
\* it is.
LEMMA TaskShape ==
  ASSUME PutInv, NEW t \in DOMAIN tasks, TaskReceives(t) \/ TaskTimeout(t)
  PROVE  /\ UNCHANGED <<config, client>> /\ tasks[t].end.status = "receiving"
         /\ DOMAIN tasks' = DOMAIN tasks /\ Len(tasks') = Len(tasks)
         /\ \A u \in DOMAIN tasks : u # t => tasks'[u] = tasks[u]
         /\ \A e \in net' : e \in net \/ e.src = t
         /\ tasks'[t].end.blksize = tasks[t].end.blksize
         /\ \/ /\ UNCHANGED disk /\ tasks'[t].pos = tasks[t].pos
               /\ tasks'[t].end.file = tasks[t].end.file /\ tasks'[t].end.status # "ok"
            \/ /\ t = client.peer
               /\ \E n \in 1 .. Len(Blocks) :
                    /\ Expects(tasks[t].end, Number(n))
                    /\ tasks'[t].end = AcceptBlock(tasks[t].end, Number(n), Blocks[n])
                    /\ tasks'[t].pos = tasks[t].pos + Blocks[n].len
                    /\ disk' = WriteAt(disk, tasks[t].pos, Blocks[n])
<1>1. Listens(t) /\ UNCHANGED <<config, client>>
  BY DEF TaskReceives, TaskTimeout, Arrives, Deadline
<1>2. /\ tasks[t] \in Tasks /\ tasks[t].end \in Receivers
      /\ tasks[t].end.status = "receiving" /\ tasks \in Seq(Tasks)
  BY <1>1, WhileReceiving DEF PutInv, StateInv
<1>3. ASSUME NEW r, NEW pos, tasks' = [tasks EXCEPT ![t].end = r, ![t].pos = pos]
      PROVE  /\ DOMAIN tasks' = DOMAIN tasks /\ Len(tasks') = Len(tasks)
             /\ \A u \in DOMAIN tasks : u # t => tasks'[u] = tasks[u]
             /\ tasks'[t].end = r /\ tasks'[t].pos = pos
  <2>1. PICK task : task = [tasks[t] EXCEPT !.end = r, !.pos = pos]
    OBVIOUS
  <2>2. task.end = r /\ task.pos = pos
    BY <1>2, <2>1 DEF Tasks
  <2>3. tasks' = [tasks EXCEPT ![t] = task]
    BY <1>3, <2>1
  <2> QED
    BY <1>2, <2>2, <2>3
<1>4. ASSUME NEW r, tasks' = [tasks EXCEPT ![t].end = r]
      PROVE  /\ DOMAIN tasks' = DOMAIN tasks /\ Len(tasks') = Len(tasks)
             /\ \A u \in DOMAIN tasks : u # t => tasks'[u] = tasks[u]
             /\ tasks'[t].end = r /\ tasks'[t].pos = tasks[t].pos
  BY <1>2, <1>4 DEF Tasks
<1>5. ASSUME NEW r, tasks' = [tasks EXCEPT ![t].end = r], UNCHANGED disk,
             r.file = tasks[t].end.file, r.status # "ok", r.blksize = tasks[t].end.blksize,
             \A e \in net' : e \in net \/ e.src = t
      PROVE  /\ DOMAIN tasks' = DOMAIN tasks /\ Len(tasks') = Len(tasks)
             /\ \A u \in DOMAIN tasks : u # t => tasks'[u] = tasks[u]
             /\ \A e \in net' : e \in net \/ e.src = t
             /\ tasks'[t].end.blksize = tasks[t].end.blksize
             /\ UNCHANGED disk /\ tasks'[t].pos = tasks[t].pos
             /\ tasks'[t].end.file = tasks[t].end.file /\ tasks'[t].end.status # "ok"
  BY <1>4, <1>5
<1>6. CASE TaskReceives(t)
  <2>1. PICK d \in net : \E rest \in {net, net \ {d}} :
          /\ Arrives(d, t, rest)
          /\ \/ TaskAccepts(t, d, rest) \/ TaskRejects(t, d, rest)
             \/ TaskHearsError(t, d, rest) /\ UNCHANGED disk
    BY <1>6 DEF TaskReceives
  <2>2. PICK rest \in {net, net \ {d}} :
          /\ Arrives(d, t, rest)
          /\ \/ TaskAccepts(t, d, rest) \/ TaskRejects(t, d, rest)
             \/ TaskHearsError(t, d, rest) /\ UNCHANGED disk
    BY <2>1
  <2>3. d.dst = t /\ rest \in SUBSET net
    BY <2>2 DEF Arrives
  <2>4. CASE TaskAccepts(t, d, rest)
    <3>1. /\ d.packet.type = "DATA" /\ Expects(tasks[t].end, d.packet.block)
          /\ disk' = WriteAt(disk, tasks[t].pos, d.packet.data)
      BY <2>4 DEF TaskAccepts
    <3>2. t = client.peer /\ \E n \in 1 .. Len(Blocks) :
            d.packet.block = Number(n) /\ d.packet.data = Blocks[n]
      BY <2>3, <3>1, DataFacts
    <3>3. PICK n \in 1 .. Len(Blocks) : d.packet.block = Number(n) /\ d.packet.data = Blocks[n]
      BY <3>2
    <3>4. PICK r, pos : /\ r = AcceptBlock(tasks[t].end, Number(n), Blocks[n])
                        /\ pos = tasks[t].pos + Blocks[n].len
      OBVIOUS
    <3>5. tasks' = [tasks EXCEPT ![t].end = r, ![t].pos = pos]
      BY <2>4, <3>3, <3>4 DEF TaskAccepts
    <3>6. /\ DOMAIN tasks' = DOMAIN tasks /\ Len(tasks') = Len(tasks)
          /\ \A u \in DOMAIN tasks : u # t => tasks'[u] = tasks[u]
          /\ tasks'[t].end = r /\ tasks'[t].pos = pos
      BY <1>3, <3>5
    <3>7. \A e \in net' : e \in net \/ e.src = t
      BY <2>3, <2>4 DEF TaskAccepts, Datagrams
    <3>8. r.blksize = tasks[t].end.blksize
      BY <1>2, <3>4 DEF AcceptBlock, Receivers
    <3> QED
      BY <1>1, <1>2, <3>1, <3>2, <3>3, <3>4, <3>6, <3>7, <3>8
  <2>5. CASE TaskRejects(t, d, rest)
    <3>1. PICK q : q = tasks[t].end /\ q \in Receivers /\ q.status = "receiving"
      BY <1>2
    <3>2. PICK r : r = RejectBlock(q)
      OBVIOUS
    <3>3. r.file = q.file /\ r.status # "ok" /\ r.blksize = q.blksize
      BY <3>1, <3>2 DEF RejectBlock, Receivers
    <3>4. tasks' = [tasks EXCEPT ![t].end = r] /\ UNCHANGED disk
      BY <2>5, <3>1, <3>2 DEF TaskRejects
    <3>5. \A e \in net' : e \in net \/ e.src = t
      BY <2>3, <2>5 DEF TaskRejects, Datagrams
    <3> QED
      BY <1>1, <1>2, <1>5, <3>1, <3>3, <3>4, <3>5
  <2>6. CASE TaskHearsError(t, d, rest) /\ UNCHANGED disk
    <3>1. PICK r : r = [tasks[t].end EXCEPT !.status = "failed"]
      OBVIOUS
    <3>2. r.file = tasks[t].end.file /\ r.status # "ok" /\ r.blksize = tasks[t].end.blksize
      BY <1>2, <3>1 DEF Receivers
    <3>3. tasks' = [tasks EXCEPT ![t].end = r] /\ UNCHANGED disk
      BY <1>2, <2>6, <3>1 DEF TaskHearsError
    <3>4. \A e \in net' : e \in net \/ e.src = t
      BY <2>3, <2>6 DEF TaskHearsError
    <3> QED
      BY <1>1, <1>2, <1>5, <3>2, <3>3, <3>4
  <2> QED
    BY <2>2, <2>4, <2>5, <2>6
<1>7. CASE TaskTimeout(t)
  <2>1. UNCHANGED disk
    BY <1>7 DEF TaskTimeout
  <2>2. CASE TaskReAcks(t)
    <3>1. PICK r : r = [tasks[t].end EXCEPT !.attempt = tasks[t].end.attempt + 1]
      OBVIOUS
    <3>2. r.file = tasks[t].end.file /\ r.status # "ok" /\ r.blksize = tasks[t].end.blksize
      BY <1>2, <3>1 DEF Receivers
    <3>3. tasks' = [tasks EXCEPT ![t].end = r]
      BY <1>2, <2>2, <3>1 DEF TaskReAcks
    <3>4. \A e \in net' : e \in net \/ e.src = t
      BY <2>2 DEF TaskReAcks, Datagrams
    <3> QED
      BY <1>1, <1>2, <1>5, <2>1, <3>2, <3>3, <3>4
  <2>3. CASE TaskGivesUp(t)
    <3>1. PICK r : r = [tasks[t].end EXCEPT !.status = "failed"]
      OBVIOUS
    <3>2. r.file = tasks[t].end.file /\ r.status # "ok" /\ r.blksize = tasks[t].end.blksize
      BY <1>2, <3>1 DEF Receivers
    <3>3. tasks' = [tasks EXCEPT ![t].end = r]
      BY <1>2, <2>3, <3>1 DEF TaskGivesUp
    <3>4. \A e \in net' : e \in net \/ e.src = t
      BY <2>3 DEF TaskGivesUp, Datagrams
    <3> QED
      BY <1>1, <1>2, <1>5, <2>1, <3>2, <3>3, <3>4
  <2> QED
    BY <1>7, <2>2, <2>3 DEF TaskTimeout
<1> QED
  BY <1>6, <1>7

\* The block that a receiver expects is the next one, if the numbers do not wrap.
LEMMA ExpectsTheNext ==
  ASSUME NEW source \in Seq(Stretch), Len(source) < Modulus, NEW window, NEW b,
         NEW r, Receives(r, window, b), Len(r.file) <= Len(source),
         NEW n \in 1 .. Len(source), Expects(r, Number(n))
  PROVE  n = Len(r.file) + 1
<1>1. Len(source) \in Nat /\ Len(r.file) \in Nat
  BY FileLength, LenProperties
<1>2. PICK m : m = Len(r.file) + 1
  OBVIOUS
<1>3. n \in Int /\ m \in Int /\ n - m < Modulus /\ m - n < Modulus
  BY <1>1, <1>2, ModulusAssumption
<1>4. n % Modulus = m % Modulus
  BY <1>2 DEF Expects, Receives, Number
<1>5. n = m
  BY ONLY <1>3, <1>4, EqualNumbers
<1> QED
  BY <1>2, <1>5

\* What the theorems assume of request and configuration stays true.
LEMMA SameAssumptions ==
  ASSUME PutInv, [Next]_vars
  PROVE  /\ config' = config /\ Params' = Params /\ Choices' = Choices
         /\ NoWrap' <=> NoWrap
<1>1. config' = config /\ client'.request = client.request
  <2>1. CASE ClientReceives \/ ClientTimeout
    BY <2>1, ClientShape
  <2>2. CASE ~(ClientReceives \/ ClientTimeout)
    BY <2>2 DEF Next, vars, TaskStarts, TaskReceives, TaskTimeout, Lose, Terminated
  <2> QED
    BY <2>1, <2>2
<1> QED
  BY <1>1, SameTerms DEF NoWrap

\* A step of the client: what it counts as acknowledged has been written.
LEMMA PeerClientStep ==
  ASSUME PutInv, PutInv', NoWrap, PeerInv, ClientReceives \/ ClientTimeout
  PROVE  PeerInv'
<1>1. /\ UNCHANGED <<config, tasks>> /\ client'.request = client.request
      /\ client \in Clients
  BY ClientShape DEF PutInv, StateInv
<1>2. client'.peer = client.peer /\ client'.blksize = client.blksize
        => (BlksizeSettled' <=> BlksizeSettled)
  BY <1>1 DEF BlksizeSettled
<1>3. \A p \in Choices : p.blksize \in Nat \ {0} /\ p.windowsize \in Nat \ {0}
  BY ChoicesFacts DEF PutInv
<1>4. CASE /\ client.peer = Client /\ client'.phase = "data"
           /\ \E d \in net : /\ d.dst = Client /\ d.packet.type # "ERROR"
                             /\ client'.peer = d.src
           /\ \E p \in Choices :
                /\ client'.blksize = p.blksize
                /\ client'.end = NextRound(NewSender(Cut(p.blksize), p.windowsize))
  <2>1. client'.peer \in DOMAIN tasks /\ client'.peer # client.peer
    BY <1>4, OnTheirWay, TaskNumbers DEF PutInv
  <2>2. PICK task : task = tasks[client'.peer]
    OBVIOUS
  <2>3. task.pos = 0 /\ Len(task.end.file) = 0 /\ task.end.status # "ok"
    BY <2>1, <2>2 DEF PutInv, TaskInv
  <2>4. PICK p \in Choices :
          /\ client'.blksize = p.blksize
          /\ client'.end = NextRound(NewSender(Cut(p.blksize), p.windowsize))
    BY <1>4
  <2>5. PICK b, source, window : b = p.blksize /\ source = Cut(b) /\ window = p.windowsize
    OBVIOUS
  <2>6. /\ b \in Nat \ {0} /\ window \in Nat \ {0} /\ source \in Seq(Stretch)
        /\ Len(Cut(b)) \in Nat \ {0} /\ End(b, 0) = 0
    BY <1>3, <2>5, EndFacts
  <2>7. PICK s : s = NewSender(source, window)
    OBVIOUS
  <2>8. Sends(s, source, window) /\ Acked(s) = 0
    BY <2>6, <2>7, NewSenderSends
  <2>9. Acked(NextRound(s)) = 0
    BY <2>6, <2>8, NextRoundSends
  <2>10. Acked(client'.end) = 0 /\ client'.blksize = b /\ client'.phase = "data"
    BY <1>4, <2>4, <2>5, <2>7, <2>9
  <2>11. tasks'[client'.peer] = task /\ Blocks' = Cut(b)
    BY <1>1, <2>2, <2>10 DEF Blocks
  <2> QED
    BY <2>3, <2>6, <2>10, <2>11 DEF PeerInv
<1>5. CASE /\ client'.peer = client.peer /\ client'.blksize = client.blksize
           /\ Acked(client'.end) = Acked(client.end)
           /\ client'.phase = "ok" => client.phase = "ok"
  <2>1. Blocks' = Blocks
    BY <1>5 DEF Blocks
  <2> QED
    BY <1>1, <1>2, <1>5, <2>1 DEF PeerInv
<1>6. CASE /\ client'.peer = client.peer /\ client'.blksize = client.blksize
           /\ Transferring
           /\ \E n \in 0 .. Len(tasks[client.peer].end.file) :
                client'.end = NextRound(ConsumeAck(client.end, Number(n)))
           /\ client'.phase = IF client'.end.status = "ok" THEN "ok" ELSE "data"
  <2>1. /\ client.peer # Client /\ client.peer \in DOMAIN tasks
        /\ client.end.status = "sending"
        /\ Blocks \in Seq(Stretch) /\ Len(Blocks) \in Nat \ {0}
    BY <1>6, WhileSending
  <2>2. PICK p \in Choices : /\ p.windowsize \in Nat \ {0} /\ client.blksize = p.blksize
                             /\ Sends(client.end, Blocks, p.windowsize)
    BY <1>6, WhileSending
  <2>3. PICK k, task : task = tasks[client.peer] /\ k = Len(task.end.file)
    OBVIOUS
  <2>4. /\ k \in Nat /\ k <= Len(Blocks) /\ task.pos = End(client.blksize, k)
        /\ BlksizeSettled => (task.end.status = "ok" <=> k = Len(Blocks))
        /\ Acked(client.end) <= k
    BY <2>1, <2>3, TaskNumbers DEF PeerInv, PutInv
  <2>5. PICK n \in 0 .. k : client'.end = NextRound(ConsumeAck(client.end, Number(n)))
    BY <1>6, <2>3
  <2>6. PICK e, source, window :
          e = client.end /\ source = Blocks /\ window = p.windowsize
    OBVIOUS
  <2>7. /\ Sends(e, source, window) /\ source \in Seq(Stretch) /\ window \in Nat \ {0}
        /\ Len(source) + window < Modulus /\ n \in Nat /\ n <= Len(source)
    BY <2>1, <2>2, <2>4, <2>6 DEF NoWrap, Blocks
  <2>8. PICK count : count = Cardinality(Covered(e.in_flight, Number(n), window))
    OBVIOUS
  <2>9. count = 0 \/ Acked(e) + count <= n
    BY ONLY <2>7, <2>8, CoveredBound
  <2>10. PICK c : c = ConsumeAck(e, Number(n))
    OBVIOUS
  <2>11. /\ Sends(c, source, window) /\ count \in Nat /\ Acked(c) = Acked(e) + count
         /\ c.status = e.status
    BY <2>7, <2>8, <2>10, ConsumeAckSends
  <2>12. PICK s : s = NextRound(c)
    OBVIOUS
  <2>13. /\ Acked(s) = Acked(c)
         /\ s.status = "ok" /\ c.status # "ok" => Acked(s) = Len(source)
    BY <2>7, <2>11, <2>12, NextRoundSends
  <2>14. Acked(e) \in Nat /\ Acked(e) <= k
    BY <2>4, <2>6, <2>7, SendsCounters
  <2>15. Acked(s) <= k
    BY <2>4, <2>9, <2>11, <2>13, <2>14
  <2>16. /\ client'.end = s /\ (s.status = "ok" => Acked(s) = Len(Blocks))
    BY <2>1, <2>5, <2>6, <2>10, <2>11, <2>12, <2>13
  <2>17. Blocks' = Blocks /\ tasks'[client'.peer] = task
    BY <1>1, <1>6, <2>3 DEF Blocks
  <2>18. client'.phase = "ok" => Acked(client'.end) = Len(Blocks)
    BY <1>6, <2>16
  <2> QED
    BY <1>2, <1>6, <2>3, <2>4, <2>15, <2>16, <2>17, <2>18 DEF PeerInv
<1> QED
  BY <1>4, <1>5, <1>6, ClientShape

\* The block that the peer expects is the next one of the file.
LEMMA PeerExpects ==
  ASSUME PutInv, NoWrap, PeerInv, client.peer # Client,
         NEW n \in 1 .. Len(Blocks), Expects(tasks[client.peer].end, Number(n))
  PROVE  /\ n = Len(tasks[client.peer].end.file) + 1
         /\ tasks[client.peer].pos = End(client.blksize, n - 1)
         /\ client.blksize \in Nat \ {0}
<1>1. PICK task, r, k, b : /\ task = tasks[client.peer] /\ r = task.end
                           /\ k = Len(r.file) /\ b = client.blksize
  OBVIOUS
<1>2. /\ k \in Nat /\ k <= Len(Cut(b)) /\ task.pos = End(b, k) /\ client.peer \in DOMAIN tasks
  BY <1>1, TaskNumbers DEF PeerInv, PutInv, Blocks, ClientInv
<1>3. PICK p \in Choices : b = p.blksize /\ b \in Nat \ {0} /\ p.windowsize \in Nat
  BY <1>1, ChoicesFacts DEF PutInv, ClientInv
<1>4. PICK q \in Choices : Receives(r, q.windowsize, q.blksize)
  BY <1>1, <1>2 DEF PutInv, TaskInv
<1>5. PICK source : source = Cut(b)
  OBVIOUS
<1>6. source \in Seq(Stretch) /\ Len(source) \in Nat \ {0} /\ Len(source) < Modulus
  <2>1. Len(source) + p.windowsize < Modulus
    BY <1>3, <1>5 DEF NoWrap
  <2>2. source \in Seq(Stretch) /\ Len(source) \in Nat \ {0}
    BY <1>3, <1>5, EndFacts
  <2> QED
    BY <1>3, <2>1, <2>2, ModulusAssumption
<1>7. Len(r.file) <= Len(source) /\ n \in 1 .. Len(source) /\ Expects(r, Number(n))
  BY <1>1, <1>2, <1>5 DEF Blocks
<1>8. n = Len(r.file) + 1
  BY ONLY <1>4, <1>6, <1>7, ExpectsTheNext
<1>9. n - 1 = k
  BY <1>1, <1>2, <1>8
<1> QED
  BY <1>1, <1>2, <1>3, <1>8, <1>9

\* A step of a task: the block it writes is the next one.
LEMMA PeerTaskStep ==
  ASSUME PutInv, NoWrap, PeerInv, NEW t \in DOMAIN tasks, TaskReceives(t) \/ TaskTimeout(t)
  PROVE  PeerInv'
<1>1. /\ UNCHANGED <<config, client>> /\ tasks[t].end.status = "receiving"
      /\ \A u \in DOMAIN tasks : u # t => tasks'[u] = tasks[u]
      /\ tasks'[t].end.blksize = tasks[t].end.blksize
  BY TaskShape
<1>2. (BlksizeSettled' <=> BlksizeSettled) /\ Blocks' = Blocks
  BY <1>1 DEF BlksizeSettled, Blocks, PutInv, ClientInv
<1>3. CASE client.peer = Client
  BY <1>1, <1>3 DEF PeerInv
<1>4. CASE client.peer # Client /\ client.peer # t
  <2>1. tasks'[client'.peer] = tasks[client.peer]
    BY <1>1, <1>4 DEF PutInv, ClientInv
  <2> QED
    BY <1>1, <1>2, <2>1 DEF PeerInv
<1>5. CASE client.peer # Client /\ client.peer = t
  <2>1. PICK task, new, k, b : /\ task = tasks[t] /\ new = tasks'[t]
                               /\ k = Len(task.end.file) /\ b = client.blksize
    OBVIOUS
  <2>2. /\ k \in Nat /\ k <= Len(Cut(b)) /\ task.pos = End(b, k)
        /\ BlksizeSettled => (task.end.status = "ok" <=> k = Len(Cut(b)))
        /\ Acked(client.end) <= k
        /\ client.phase = "ok" => Acked(client.end) = Len(Cut(b))
    BY <1>5, <2>1, TaskNumbers DEF PeerInv, PutInv, Blocks
  <2>3. PICK p \in Choices : b = p.blksize /\ b \in Nat \ {0} /\ p.windowsize \in Nat
    BY <1>5, <2>1, ChoicesFacts DEF PutInv, ClientInv
  <2>4. PICK q \in Choices : Receives(task.end, q.windowsize, q.blksize)
    BY <2>1 DEF PutInv, TaskInv
  <2>5. CASE new.pos = task.pos /\ new.end.file = task.end.file /\ new.end.status # "ok"
    <3>1. BlksizeSettled => k # Len(Cut(b))
      BY <1>1, <2>1, <2>2
    <3> QED
      BY <1>1, <1>2, <1>5, <2>1, <2>2, <2>5, <3>1 DEF PeerInv, Blocks
  <2>6. CASE \E n \in 1 .. Len(Cut(b)) :
               /\ Expects(task.end, Number(n))
               /\ new.end = AcceptBlock(task.end, Number(n), Cut(b)[n])
               /\ new.pos = task.pos + Cut(b)[n].len
    <3>1. PICK n \in 1 .. Len(Cut(b)) :
            /\ Expects(task.end, Number(n))
            /\ new.end = AcceptBlock(task.end, Number(n), Cut(b)[n])
            /\ new.pos = task.pos + Cut(b)[n].len
      BY <2>6
    <3>2. PICK r, data : r = task.end /\ data = Cut(b)[n]
      OBVIOUS
    <3>3. Receives(r, q.windowsize, q.blksize) /\ Expects(r, Number(n)) /\ data \in Stretch
      BY <2>3, <2>4, <3>1, <3>2, EndFacts
    <3>4. n \in 1 .. Len(Blocks) /\ Expects(tasks[client.peer].end, Number(n))
      BY <1>5, <2>1, <3>1 DEF Blocks
    <3>5. n = k + 1
      BY <1>5, <2>1, <3>4, PeerExpects
    <3>6. /\ Len(new.end.file) = Len(r.file) + 1
          /\ new.end.status = IF data.len < q.blksize THEN "ok" ELSE r.status
      <4>1. PICK s : s = new.end /\ s = AcceptBlock(r, Number(n), data)
        BY <3>1, <3>2
      <4>2. /\ Len(s.file) = Len(r.file) + 1
            /\ s.status = IF data.len < q.blksize THEN "ok" ELSE r.status
        BY ONLY <3>3, <4>1, AcceptBlockReceives
      <4> QED
        BY <4>1, <4>2
    <3>7. new.pos = End(b, n)
      <4>1. End(b, n - 1) + Cut(b)[n].len = End(b, n)
        BY <2>3, EndFacts
      <4>2. n - 1 = k
        BY <2>2, <3>5
      <4> QED
        BY <2>2, <3>1, <4>1, <4>2
    <3>8. Len(new.end.file) = n /\ n <= Len(Cut(b)) /\ Acked(client.end) <= n
      <4>1. Acked(client.end) \in Int
        BY LenProperties DEF Acked, PutInv, StateInv, Clients, Senders
      <4> QED
        BY <2>1, <2>2, <3>2, <3>5, <3>6, <4>1
    <3>9. BlksizeSettled => (new.end.status = "ok" <=> n = Len(Cut(b)))
      <4>1. SUFFICES ASSUME BlksizeSettled
                     PROVE  new.end.status = "ok" <=> n = Len(Cut(b))
        OBVIOUS
      <4>2. q.blksize = b
        BY <1>5, <2>1, <2>4, <4>1 DEF BlksizeSettled, Receives
      <4>3. Cut(b)[n].len < b <=> n = Len(Cut(b))
        BY <2>3, CutFacts
      <4>4. r.status = "receiving"
        BY <1>1, <2>1, <3>2
      <4> QED
        BY <3>2, <3>6, <4>2, <4>3, <4>4
    <3> QED
      BY <1>1, <1>2, <1>5, <2>1, <2>2, <3>7, <3>8, <3>9 DEF PeerInv, Blocks
  <2> QED
    BY <1>5, <2>1, <2>5, <2>6, TaskShape DEF Blocks
<1> QED
  BY <1>3, <1>4, <1>5

\* No task is beyond the end of the file.
LEMMA Places ==
  ASSUME PutInv, PeerInv, NEW t \in DOMAIN tasks
  PROVE  tasks[t].pos \in 0 .. FileLen
<1>1. CASE t # client.peer
  BY <1>1, SessionAssumption DEF PutInv, TaskInv
<1>2. CASE t = client.peer
  <2>1. client.peer # Client /\ Len(tasks[t].end.file) \in Nat
    BY <1>2, TaskNumbers DEF PutInv
  <2>2. PICK b, k : b = client.blksize /\ k = Len(tasks[t].end.file)
    OBVIOUS
  <2>3. b \in Nat \ {0}
    BY <2>1, <2>2, ChoicesFacts DEF PutInv, ClientInv
  <2>4. k \in 0 .. Len(Cut(b)) /\ tasks[t].pos = End(b, k)
    BY <1>2, <2>1, <2>2, <2>3, EndFacts DEF PeerInv, Blocks
  <2> QED
    BY <2>3, <2>4, EndFacts
<1> QED
  BY <1>1, <1>2

\* The beginning of the file is not the file that was there before, nor none.
LEMMA PrefixFacts ==
  ASSUME NEW n \in 0 .. FileLen
  PROVE  Prefix(n) # OldFile /\ Prefix(n) # None /\ Prefix(0) = << >>
<1>1. FileLen \in Nat
  BY SessionAssumption
<1>2. Prefix(n) \in Seq(0 .. FileLen + 1) /\ Len(Prefix(n)) = n
  BY <1>1 DEF Prefix
<1>3. Prefix(n) # OldFile
  <2>1. CASE n = 0
    BY <1>2, <2>1 DEF OldFile
  <2>2. CASE n # 0
    <3>1. Prefix(n)[1] = 1 /\ Len(OldFile) = 1 /\ OldFile[1] = FileLen + 1
      BY <2>2 DEF Prefix, OldFile
    <3> QED
      BY <1>1, <2>2, <3>1
  <2> QED
    BY <2>1, <2>2
<1>4. Prefix(n) # None
  BY <1>2, NoneIsNoFile
<1>5. Prefix(0) = << >>
  BY DEF Prefix
<1> QED
  BY <1>3, <1>4, <1>5

\* Writing the next block makes it longer.
LEMMA WriteNext ==
  ASSUME NEW pos \in Nat, NEW data \in Stretch, data.at = pos
  PROVE  WriteAt(Prefix(pos), pos, data) = Prefix(pos + data.len)
<1>1. PICK len \in Nat : len = data.len
  BY DEF Stretch
<1>2. CASE len = 0
  BY <1>1, <1>2 DEF WriteAt
<1>3. CASE len # 0
  <2>1. Len(Prefix(pos)) = pos /\ \A i \in 1 .. pos : Prefix(pos)[i] = i
    BY DEF Prefix
  <2>2. ~(Len(Prefix(pos)) > pos + len)
    BY <2>1
  <2>3. WriteAt(Prefix(pos), pos, data) =
          [i \in 1 .. pos + len |->
             IF i \in pos + 1 .. pos + len THEN pos + (i - pos)
             ELSE IF i <= pos THEN Prefix(pos)[i] ELSE Hole]
    BY <1>1, <1>3, <2>1, <2>2 DEF WriteAt
  <2>4. \A i \in 1 .. pos + len :
          (IF i \in pos + 1 .. pos + len THEN pos + (i - pos)
           ELSE IF i <= pos THEN Prefix(pos)[i] ELSE Hole) = i
    BY <2>1
  <2> QED
    BY <1>1, <2>3, <2>4 DEF Prefix
<1> QED
  BY <1>2, <1>3

\* A step of the client: it can only choose the first task.
LEMMA OnceClientStep ==
  ASSUME PutInv, OnceInv, ClientReceives \/ ClientTimeout
  PROVE  OnceInv'
<1>1. /\ UNCHANGED <<config, tasks, disk>> /\ client'.request = client.request
      /\ \A e \in net' : e \in net \/ e.dst # Client
      /\ \/ client'.peer = client.peer
         \/ \E d \in net : /\ d.dst = Client /\ d.packet.type # "ERROR"
                           /\ client'.peer = d.src
  BY ClientShape
<1>2. (Once' <=> Once) /\ Params' = Params
  BY <1>1, SameTerms DEF Once
<1> QED
  BY <1>1, <1>2 DEF OnceInv

\* A step of a task: only the first can be alive, and it goes on with the file.
LEMMA OnceTaskStep ==
  ASSUME PutInv, NoWrap, PeerInv, OnceInv,
         NEW t \in DOMAIN tasks, TaskReceives(t) \/ TaskTimeout(t)
  PROVE  OnceInv'
<1>1. /\ UNCHANGED <<config, client>> /\ tasks[t].end.status = "receiving"
      /\ DOMAIN tasks' = DOMAIN tasks /\ Len(tasks') = Len(tasks)
      /\ \A u \in DOMAIN tasks : u # t => tasks'[u] = tasks[u]
      /\ \A e \in net' : e \in net \/ e.src = t
      /\ tasks'[t].end.blksize = tasks[t].end.blksize
  BY TaskShape
<1>2. SUFFICES ASSUME Once'
               PROVE  OnceInv'
  BY DEF OnceInv
<1>3. Once
  BY <1>1, <1>2 DEF Once
<1>4. /\ t = 1 /\ disk # OldFile /\ tasks # << >>
      /\ disk = Prefix(tasks[1].pos) /\ tasks[1].end.blksize = Params.blksize
      /\ Params' = Params
  BY <1>1, <1>3, TaskNumbers, SameTerms DEF OnceInv, PutInv
<1>5. tasks' # << >> /\ tasks[1].pos \in 0 .. FileLen
  BY <1>1, <1>4, Places, TaskNumbers DEF PutInv
<1>6. /\ disk' = Prefix(tasks'[1].pos) /\ disk' # OldFile
      /\ tasks'[1].end.blksize = Params'.blksize
  <2>1. CASE UNCHANGED disk /\ tasks'[t].pos = tasks[t].pos
    BY <1>1, <1>4, <2>1
  <2>2. CASE /\ t = client.peer
             /\ \E n \in 1 .. Len(Blocks) :
                  /\ Expects(tasks[t].end, Number(n))
                  /\ tasks'[t].pos = tasks[t].pos + Blocks[n].len
                  /\ disk' = WriteAt(disk, tasks[t].pos, Blocks[n])
    <3>1. PICK n \in 1 .. Len(Blocks) :
            /\ Expects(tasks[t].end, Number(n))
            /\ tasks'[t].pos = tasks[t].pos + Blocks[n].len
            /\ disk' = WriteAt(disk, tasks[t].pos, Blocks[n])
      BY <2>2
    <3>2. client.peer # Client
      BY <2>2, TaskNumbers DEF PutInv
    <3>3. /\ n = Len(tasks[t].end.file) + 1 /\ client.blksize \in Nat \ {0}
          /\ tasks[t].pos = End(client.blksize, n - 1)
      BY <2>2, <3>1, <3>2, PeerExpects
    <3>4. PICK b, pos, data : b = client.blksize /\ pos = tasks[t].pos /\ data = Blocks[n]
      OBVIOUS
    <3>5. /\ data \in Stretch /\ data.at = pos /\ pos + data.len = End(b, n)
          /\ End(b, n) \in 0 .. FileLen /\ pos \in Nat
      <4>1. b \in Nat \ {0} /\ n \in 1 .. Len(Cut(b)) /\ Cut(b)[n] = data
        BY <3>3, <3>4 DEF Blocks
      <4>2. /\ Cut(b)[n] \in Stretch /\ Cut(b)[n].at = End(b, n - 1)
            /\ End(b, n - 1) + Cut(b)[n].len = End(b, n)
        BY <4>1, EndFacts
      <4>3. End(b, n) \in 0 .. FileLen
        <5>1. n \in 0 .. Len(Cut(b))
          BY <4>1
        <5> QED
          BY <4>1, <5>1, EndFacts
      <4> QED
        BY <1>4, <1>5, <3>3, <3>4, <4>1, <4>2, <4>3
    <3>6. WriteAt(Prefix(pos), pos, data) = Prefix(pos + data.len)
      BY <3>5, WriteNext
    <3>7. disk' = Prefix(End(b, n)) /\ tasks'[t].pos = End(b, n)
      BY <1>4, <3>1, <3>4, <3>5, <3>6
    <3> QED
      BY <1>1, <1>4, <3>5, <3>7, PrefixFacts
  <2> QED
    BY <2>1, <2>2, TaskShape
<1>7. \A u \in DOMAIN tasks' : tasks'[u].end.status # "failed" => u = 1
  BY <1>1, <1>3, <1>4 DEF OnceInv
<1>8. \A e \in net' : e.dst = Client /\ e.packet.type # "ERROR" => e.src = 1 /\ disk' # OldFile
  BY <1>1, <1>3, <1>4, <1>6 DEF OnceInv
<1>9. client'.peer \in {Client, 1}
  BY <1>1, <1>3 DEF OnceInv
<1> QED
  BY <1>5, <1>6, <1>7, <1>8, <1>9 DEF OnceInv

\* A request is refused, or it is the first, and opens the file.
LEMMA OnceStarts ==
  ASSUME PutInv, PeerInv, OnceInv, TaskStarts, Once'
  PROVE  /\ Once /\ UNCHANGED <<config, client>>
         /\ \/ /\ tasks = << >> /\ tasks' = Append(tasks, NewTask(Params)) /\ disk' = << >>
               /\ \E packet : net' \subseteq net \cup Datagrams(NewTid, Client, {packet})
            \/ /\ disk # None /\ UNCHANGED disk
               /\ \E task : /\ tasks' = Append(tasks, task)
                            /\ task.end.status = "failed" /\ Len(task.end.file) = 0
               /\ net' \subseteq
                    net \cup Datagrams(NewTid, Client, {ErrorPacket("FileExists")})
<1>1. PICK d \in net : \E rest \in {net, net \ {d}} :
        /\ Arrives(d, Listener, rest)
        /\ TaskOpens(d, rest) \/ TaskIsRefused(d, rest)
  BY DEF TaskStarts
<1>2. PICK rest \in {net, net \ {d}} :
        /\ Arrives(d, Listener, rest)
        /\ TaskOpens(d, rest) \/ TaskIsRefused(d, rest)
  BY <1>1
<1>3. UNCHANGED <<config, client>> /\ rest \subseteq net /\ d.dst = Listener
  BY <1>2 DEF TaskStarts, Arrives
<1>4. tasks \in Seq(Tasks) /\ Len(tasks) \in Nat /\ DOMAIN tasks = 1 .. Len(tasks)
  BY TaskNumbers DEF PutInv, StateInv
<1>5. \E task : tasks' = Append(tasks, task)
  BY <1>2 DEF TaskOpens, TaskIsRefused, TaskRefuses
<1>6. Len(tasks') = Len(tasks) + 1
  BY <1>4, <1>5
<1>7. Once /\ (config.allow_overwrite => Len(tasks) = 0)
  BY <1>3, <1>4, <1>6 DEF Once
<1>8. CASE TaskOpens(d, rest)
  <2>1. FromPairs(d.packet.options) = Requested
    BY <1>3, OnTheirWay DEF Requested
  <2>2. PICK packet : /\ tasks' = Append(tasks, NewTask(Params)) /\ disk' = << >> /\ MayOpen
                      /\ net' = rest \cup Datagrams(NewTid, Client, {packet})
    BY <1>8, <2>1 DEF TaskOpens, Params
  <2>3. tasks = << >>
    <3>1. CASE config.allow_overwrite
      BY <1>4, <1>7, <3>1, EmptySeq
    <3>2. CASE ~config.allow_overwrite
      <4>1. disk = None
        BY <2>2, <3>2 DEF MayOpen
      <4>2. SUFFICES ASSUME tasks # << >>
                     PROVE  FALSE
        OBVIOUS
      <4>3. 1 \in DOMAIN tasks
        BY <1>4, <4>2, EmptySeq
      <4>4. Prefix(tasks[1].pos) # None
        BY <4>3, Places, PrefixFacts
      <4>5. OldFile # None
        <5>1. FileLen + 1 \in 0 .. FileLen + 1
          BY SessionAssumption
        <5>2. <<FileLen + 1>> \in Seq(0 .. FileLen + 1)
          BY <5>1
        <5> QED
          BY <5>2, NoneIsNoFile DEF OldFile
      <4> QED
        BY <1>7, <4>1, <4>2, <4>4, <4>5 DEF OnceInv
    <3> QED
      BY <3>1, <3>2
  <2> QED
    BY <1>3, <1>7, <2>2, <2>3
<1>9. CASE TaskIsRefused(d, rest)
  <2>1. PICK task : task = [NewTask(Defaults) EXCEPT !.end.status = "failed"]
    OBVIOUS
  <2>2. /\ tasks' = Append(tasks, task)
        /\ net' = rest \cup Datagrams(NewTid, Client, {ErrorPacket("FileExists")})
        /\ disk # None /\ UNCHANGED disk
    BY <1>9, <2>1 DEF TaskIsRefused, TaskRefuses, MayOpen
  <2>3. task.end.status = "failed" /\ Len(task.end.file) = 0
    BY <2>1 DEF NewTask, NewReceiver
  <2>4. net' \subseteq net \cup Datagrams(NewTid, Client, {ErrorPacket("FileExists")})
    BY <1>3, <2>2
  <2> QED
    BY <1>3, <1>7, <2>2, <2>3, <2>4
<1> QED
  BY <1>2, <1>8, <1>9

\* A request: the file is opened only by the first.
LEMMA OnceStartStep ==
  ASSUME PutInv, PeerInv, OnceInv, TaskStarts
  PROVE  OnceInv'
<1>1. SUFFICES ASSUME Once'
               PROVE  OnceInv'
  BY DEF OnceInv
<1>2. /\ Once /\ UNCHANGED <<config, client>> /\ Params' = Params
      /\ Once' /\ tasks \in Seq(Tasks) /\ Len(tasks) \in Nat
      /\ DOMAIN tasks = 1 .. Len(tasks) /\ NewTid = Len(tasks) + 1
  BY <1>1, OnceStarts, SameTerms, TaskNumbers DEF PutInv, StateInv, NewTid
<1>3. ASSUME NEW task, tasks' = Append(tasks, task)
      PROVE  /\ Len(tasks') = Len(tasks) + 1 /\ DOMAIN tasks' = 1 .. Len(tasks) + 1
             /\ tasks' # << >> /\ tasks'[Len(tasks) + 1] = task
             /\ \A t \in DOMAIN tasks : tasks'[t] = tasks[t]
  BY <1>2, <1>3
<1>4. ASSUME tasks = << >>, tasks' = Append(tasks, NewTask(Params)), disk' = << >>,
             NEW packet, net' \subseteq net \cup Datagrams(NewTid, Client, {packet})
      PROVE  OnceInv'
  <2>1. PICK task : /\ tasks' = Append(tasks, task) /\ task.pos = 0
                    /\ task.end.blksize = Params.blksize
    BY <1>4 DEF NewTask, NewReceiver
  <2>2. Len(tasks) = 0 /\ DOMAIN tasks = {} /\ NewTid = 1
    BY <1>2, <1>4
  <2>3. DOMAIN tasks' = {1} /\ tasks'[1] = task /\ tasks' # << >>
    BY <1>3, <2>1, <2>2
  <2>4. client'.peer = Client
    BY <1>2, <2>2 DEF PutInv, ClientInv
  <2>5. disk' = Prefix(tasks'[1].pos) /\ disk' # OldFile
    <3>1. 0 \in 0 .. FileLen
      BY SessionAssumption
    <3> QED
      BY <1>4, <2>1, <2>3, <3>1, PrefixFacts
  <2>6. \A e \in net' : e.dst = Client /\ e.packet.type # "ERROR" => e.src = 1
    BY <1>2, <1>4, <2>2 DEF OnceInv, Datagrams
  <2> QED
    BY <1>2, <2>1, <2>3, <2>4, <2>5, <2>6 DEF OnceInv
<1>5. ASSUME disk # None, UNCHANGED disk,
             NEW task, tasks' = Append(tasks, task), task.end.status = "failed",
             net' \subseteq net \cup Datagrams(NewTid, Client, {ErrorPacket("FileExists")})
      PROVE  OnceInv'
  <2>1. /\ Len(tasks') = Len(tasks) + 1 /\ DOMAIN tasks' = 1 .. Len(tasks) + 1
        /\ tasks' # << >> /\ tasks'[Len(tasks) + 1] = task
        /\ \A t \in DOMAIN tasks : tasks'[t] = tasks[t]
    BY <1>3, <1>5
  <2>2. \A t \in DOMAIN tasks' : t \in DOMAIN tasks \/ tasks'[t].end.status = "failed"
    BY <1>2, <1>5, <2>1
  <2>3. ErrorPacket("FileExists").type = "ERROR"
    BY DEF ErrorPacket
  <2>4. \A e \in net' : e \in net \/ e.packet.type = "ERROR"
    BY <1>5, <2>3 DEF Datagrams
  <2>5. \/ disk = OldFile
        \/ disk = Prefix(tasks'[1].pos) /\ tasks'[1].end.blksize = Params.blksize
    <3>1. CASE tasks = << >>
      BY <1>2, <1>5, <3>1 DEF OnceInv
    <3>2. CASE tasks # << >>
      <4>1. 1 \in DOMAIN tasks
        BY <1>2, <3>2, EmptySeq
      <4> QED
        BY <1>2, <2>1, <3>2, <4>1 DEF OnceInv
    <3> QED
      BY <3>1, <3>2
  <2>6. \A t \in DOMAIN tasks' : tasks'[t].end.status # "failed" => t = 1
    BY <1>2, <2>1, <2>2 DEF OnceInv
  <2>7. disk = OldFile => /\ client.peer = Client
                          /\ \A t \in DOMAIN tasks' : tasks'[t].end.status = "failed"
    BY <1>2, <2>1, <2>2 DEF OnceInv
  <2>8. /\ client.peer \in {Client, 1}
        /\ \A e \in net' : e.dst = Client /\ e.packet.type # "ERROR" => e.src = 1 /\ disk # OldFile
    BY <1>2, <2>4 DEF OnceInv
  <2> QED
    BY <1>2, <1>5, <2>1, <2>5, <2>6, <2>7, <2>8 DEF OnceInv
<1> QED
  BY <1>1, <1>4, <1>5, OnceStarts

WholeInv == PeerInv /\ OnceInv

\* At the beginning nobody has anything.
LEMMA InitWhole ==
  ASSUME Init
  PROVE  WholeInv
<1>1. client.peer = Client
  BY DEF Init, NewClient
<1>2. tasks = << >> /\ DOMAIN tasks = {} /\ disk \in {None, OldFile}
  BY DEF Init
<1>3. \A d \in net : d.dst # Client
  BY DEF Init, Ask, Datagrams, Client, Listener
<1> QED
  BY <1>1, <1>2, <1>3 DEF WholeInv, PeerInv, OnceInv

\* Every step keeps it.
LEMMA NextWhole ==
  ASSUME PutInv, PutInv', NoWrap, WholeInv, [Next]_vars
  PROVE  WholeInv'
<1>1. PeerInv /\ OnceInv
  BY DEF WholeInv
<1>2. CASE ClientReceives \/ ClientTimeout
  BY <1>1, <1>2, PeerClientStep, OnceClientStep DEF WholeInv
<1>3. CASE TaskStarts
  <2>1. UNCHANGED <<config, client>> /\ \E task : tasks' = Append(tasks, task)
    BY <1>3 DEF TaskStarts, TaskOpens, TaskIsRefused, TaskRefuses
  <2>2. tasks \in Seq(Tasks)
    BY DEF PutInv, StateInv
  <2>3. client.peer # Client => tasks'[client.peer] = tasks[client.peer]
    BY <2>1, <2>2 DEF PutInv, ClientInv
  <2>4. Blocks' = Blocks /\ (BlksizeSettled' <=> BlksizeSettled)
    BY <2>1, <2>3 DEF Blocks, BlksizeSettled
  <2>5. PeerInv'
    BY <1>1, <2>1, <2>3, <2>4 DEF PeerInv
  <2> QED
    BY <1>1, <1>3, <2>5, OnceStartStep DEF WholeInv
<1>4. ASSUME NEW t \in DOMAIN tasks, TaskReceives(t) \/ TaskTimeout(t)
      PROVE  WholeInv'
  BY <1>1, <1>4, PeerTaskStep, OnceTaskStep DEF WholeInv
<1>5. CASE Lose \/ UNCHANGED vars
  <2>1. UNCHANGED <<config, client, tasks, disk>> /\ net' \subseteq net
    BY <1>5 DEF Lose, vars
  <2>2. Blocks' = Blocks /\ (BlksizeSettled' <=> BlksizeSettled) /\ (Once' <=> Once)
    BY <2>1 DEF Blocks, BlksizeSettled, Once
  <2>3. PeerInv'
    BY <1>1, <2>1, <2>2 DEF PeerInv
  <2>4. OnceInv'
    <3>1. Params' = Params
      BY <2>1, SameTerms
    <3> QED
      BY <1>1, <2>1, <2>2, <3>1 DEF OnceInv
  <2> QED
    BY <2>3, <2>4 DEF WholeInv
<1> QED
  BY <1>2, <1>3, <1>4, <1>5 DEF Next, Terminated

\* What both theorems rest on, and that their hypotheses never change.
LEMMA WholeInvariance ==
  Spec => [](PutInv /\ (NoWrap => WholeInv))
<1> DEFINE Inv == PutInv /\ (NoWrap => WholeInv)
<1>1. Init => Inv
  BY InitPutInv, InitWhole
<1>2. Inv /\ [Next]_vars => Inv'
  <2>1. SUFFICES ASSUME Inv, [Next]_vars
                 PROVE  Inv'
    OBVIOUS
  <2>2. PutInv' /\ (NoWrap' <=> NoWrap)
    BY <2>1, NextPutInv, SameAssumptions
  <2> QED
    BY <2>1, <2>2, NextWhole
<1> QED
  BY <1>1, <1>2, PTL DEF Spec

\* As long as the file does not wrap the block numbers, the state has its shape, and no
\* task writes beyond the end of the file.
THEOREM PutTypes == Spec => [](NoWrap => TypeOK)
<1>1. ASSUME PutInv, WholeInv
      PROVE  TypeOK
  <2>1. /\ Len(tasks) \in Nat /\ DOMAIN tasks = 1 .. Len(tasks)
        /\ \A t \in DOMAIN tasks : tasks[t] \in Tasks /\ tasks[t].end \in Receivers
    BY <1>1, TaskNumbers DEF PutInv
  <2>2. \A t \in DOMAIN tasks :
          /\ tasks[t].end.status \in {"receiving", "ok", "failed"}
          /\ tasks[t].end.attempt \in 0 .. config.retries
          /\ tasks[t].pos \in 0 .. FileLen
    <3>1. ASSUME NEW t \in DOMAIN tasks
          PROVE  /\ tasks[t].end.status \in {"receiving", "ok", "failed"}
                 /\ tasks[t].end.attempt \in 0 .. config.retries
      <4>1. config.retries \in Nat /\ tasks[t].end.attempt <= config.retries
        BY <1>1, SessionAssumption DEF PutInv, StateInv, CounterInv
      <4> QED
        BY <2>1, <4>1 DEF Receivers
    <3> QED
      BY <1>1, <3>1, Places DEF WholeInv
  <2>3. /\ client.phase \in {"request", "data", "ok", "failed"}
        /\ client.error \in {"none", "timeout", "FileExists", "NotDefined"}
        /\ client.attempt \in 0 .. client.opts.retries
        /\ client.end.attempt \in 0 .. client.opts.retries
    <3>1. client \in Clients /\ client.opts.retries \in Nat
      BY <1>1, SessionAssumption DEF PutInv, StateInv, Clients
    <3>2. client.attempt \in Nat /\ client.end.attempt \in Nat
      BY <3>1 DEF Clients, Senders
    <3> QED
      BY <1>1, <3>1, <3>2 DEF PutInv, CounterInv, Clients
  <2>4. client.peer \in 0 .. Len(tasks)
    BY <1>1, <2>1 DEF PutInv, ClientInv, Client
  <2> QED
    BY <1>1, <2>2, <2>3, <2>4 DEF TypeOK, PutInv, StateInv, CounterInv
<1> QED
  BY <1>1, WholeInvariance, PTL

\* Nor does anybody then report success wrongly, if the file has been opened once and
\* the two ends agree on the size of a block: put returns Ok, and the task ends, only
\* when the remote file is the local one.
THEOREM Intact == Spec => [](NoWrap => SuccessMeansIntact)
<1>1. ASSUME PutInv, WholeInv
      PROVE  SuccessMeansIntact
  <2>1. SUFFICES ASSUME Once, BlksizeSettled
                 PROVE  /\ OkMeansIntact
                        /\ client.phase = "ok" => tasks[client.peer].end.status = "ok"
                        /\ \A t \in DOMAIN tasks : tasks[t].end.status = "ok" => disk = File
    BY DEF SuccessMeansIntact
  <2>2. Once /\ BlksizeSettled /\ PeerInv
    BY <1>1, <2>1 DEF WholeInv
  <2>3. ASSUME NEW t \in DOMAIN tasks, tasks[t].end.status = "ok"
        PROVE  disk = File
    <3>1. t = client.peer /\ t = 1 /\ client.peer # Client
      BY <1>1, <2>2, <2>3, TaskNumbers DEF WholeInv, OnceInv, PutInv, TaskInv
    <3>2. PICK b : b = client.blksize /\ b \in Nat \ {0}
      BY <1>1, <3>1, ChoicesFacts DEF PutInv, ClientInv
    <3>3. tasks[t].pos = End(b, Len(Cut(b)))
      BY <1>1, <2>2, <2>3, <3>1, <3>2 DEF PeerInv, Blocks
    <3>4. tasks[t].pos = FileLen
      BY <3>2, <3>3, EndFacts
    <3>5. disk = Prefix(FileLen)
      <4>1. tasks # << >>
        BY <2>3
      <4>2. disk # OldFile
        BY <1>1, <2>2, <2>3 DEF WholeInv, OnceInv
      <4> QED
        BY <1>1, <2>2, <3>1, <3>4, <4>1, <4>2 DEF WholeInv, OnceInv
    <3> QED
      BY <3>5 DEF Prefix, File
  <2>4. ASSUME client.phase = "ok"
        PROVE  client.peer \in DOMAIN tasks /\ tasks[client.peer].end.status = "ok"
    <3>1. client.peer # Client /\ client.peer \in DOMAIN tasks
      BY <1>1, <2>4 DEF PutInv, ClientInv
    <3>2. PICK k : k = Len(tasks[client.peer].end.file) /\ k \in Nat
      BY <1>1, <3>1, TaskNumbers DEF PutInv
    <3>3. Len(Blocks) \in Nat
      BY <1>1, <3>1, ChoicesFacts, EndFacts DEF PutInv, ClientInv, Blocks
    <3>4. k <= Len(Blocks) /\ Len(Blocks) <= k
      BY <2>2, <2>4, <3>1, <3>2 DEF PeerInv
    <3>5. k = Len(Blocks)
      BY <3>2, <3>3, <3>4
    <3> QED
      BY <1>1, <2>2, <3>1, <3>2, <3>5 DEF PeerInv
  <2> QED
    BY <2>3, <2>4 DEF OkMeansIntact
<1> QED
  BY <1>1, WholeInvariance, PTL

-----------------------------------------------------------------------------
(* An upload implements TransferPromise, as long as the file is opened     *)
(* once and the blksize settled.  What is on the disk is what the first    *)
(* task has written, so a block more of it is the abstract Write, with     *)
(* which the task returns if it is the last; the other tasks are refused.  *)

\* How many blocks the first task has written.
Written == IF tasks = << >> THEN 0 ELSE Len(tasks[1].end.file)

\* The source as far as its first n blocks.
First(n) == [i \in 1 .. n |-> Source[i]]

\* The disk holds the blocks written, all of them iff the first task has ended well.
DiskInv ==
  Once /\ BlksizeSettled =>
    /\ Written \in 0 .. Len(Source)
    /\ Pieces(disk, OnDisk) = First(Written)
    /\ FirstTask = "ok" <=> Written = Len(Source)

\* How often b goes into a multiple of it.
LEMMA MultipleDiv ==
  ASSUME NEW b \in Nat \ {0}, NEW k \in Nat
  PROVE  (k * b) \div b = k
<1> DEFINE q == (k * b) \div b
           r == (k * b) % b
<1>1. k * b \in Nat
  OBVIOUS
<1>2. q \in Int /\ r \in 0 .. b - 1 /\ k * b = b * q + r
  BY <1>1
<1> HIDE DEF q, r
<1>3. PICK x \in Int : x = k - q
  BY <1>2
<1>4. b * x = r
  <2>1. b * (k - q) = b * k - b * q /\ b * k = k * b
    BY <1>2
  <2> QED
    BY <1>2, <1>3, <2>1
<1>5. x = 0
  <2>1. CASE x >= 1
    <3>1. PICK y \in Nat : x = y + 1
      BY <2>1
    <3>2. b * (y + 1) = b * y + b /\ b * y \in Nat
      OBVIOUS
    <3> QED
      BY <1>2, <1>4, <3>1, <3>2
  <2>2. CASE x <= -1
    <3>1. PICK y \in Nat : x = -1 - y
      BY <2>2
    <3>2. b * (-1 - y) = -b - b * y /\ b * y \in Nat
      OBVIOUS
    <3> QED
      BY <1>2, <1>4, <3>1, <3>2
  <2> QED
    BY <2>1, <2>2
<1> QED
  BY <1>2, <1>3, <1>5 DEF q

\* All blocks before the last are full.
LEMMA FullBlocks ==
  ASSUME NEW b \in Nat \ {0}, NEW k \in 0 .. Len(Cut(b)), k # Len(Cut(b))
  PROVE  End(b, k) = k * b
<1>1. Len(Cut(b)) = FileLen \div b + 1 /\ FileLen \div b \in Nat
  BY CutFacts, SessionAssumption
<1> DEFINE full == FileLen \div b
           block(i) == [at |-> (i - 1) * b, len |-> IF i <= full THEN b ELSE FileLen % b]
<1>2. Cut(b) = [i \in 1 .. full + 1 |-> block(i)]
  BY DEF Cut
<1>3. k + 1 \in 1 .. full + 1 /\ (k + 1) - 1 = k
  BY <1>1
<1> HIDE DEF full
<1>4. Cut(b)[k + 1].at = ((k + 1) - 1) * b
  BY <1>2, <1>3
<1> QED
  BY <1>3, <1>4 DEF End

\* The blocks end one after the other.
LEMMA EndsGrow ==
  ASSUME NEW b \in Nat \ {0}, NEW k \in 0 .. Len(Cut(b)), NEW i \in 0 .. k
  PROVE  End(b, i) <= End(b, k)
<1>1. /\ Len(Cut(b)) \in Nat /\ i \in 0 .. Len(Cut(b)) /\ FileLen \in Nat
      /\ End(b, Len(Cut(b))) = FileLen /\ End(b, i) \in 0 .. FileLen
  <2>1. Len(Cut(b)) \in Nat
    BY EndFacts
  <2>2. i \in 0 .. Len(Cut(b))
    BY <2>1
  <2> QED
    BY <2>1, <2>2, EndFacts, SessionAssumption
<1>2. CASE k = Len(Cut(b))
  BY <1>1, <1>2
<1>3. CASE k # Len(Cut(b))
  <2>1. i # Len(Cut(b))
    BY <1>1, <1>3
  <2>2. End(b, k) = k * b /\ End(b, i) = i * b
    BY <1>1, <1>3, <2>1, FullBlocks
  <2>3. PICK j \in Nat : k = i + j
    BY <1>1
  <2>4. (i + j) * b = i * b + j * b /\ i * b \in Nat /\ j * b \in Nat
    BY <1>1
  <2> QED
    BY <2>2, <2>3, <2>4
<1> QED
  BY <1>2, <1>3

\* The bytes of a stretch of the file.
Bytes(at, len) == [j \in 1 .. len |-> at + j]

\* They are the same in every part of the file that the stretch lies in.
LEMMA StretchOfPrefix ==
  ASSUME NEW n \in Nat, NEW at \in Nat, NEW len \in Nat, at + len <= n
  PROVE  SubSeq(Prefix(n), at + 1, at + len) = Bytes(at, len)
<1>1. PICK from, to : from = at + 1 /\ to = at + len
  OBVIOUS
<1>2. from \in Int /\ to \in Int /\ to - from + 1 = len /\ (from <= to <=> len # 0)
  BY <1>1
<1>3. \A i \in from .. to : Prefix(n)[i] \in Nat
  BY <1>1 DEF Prefix
<1>4. /\ SubSeq(Prefix(n), from, to) \in Seq(Nat)
      /\ Len(SubSeq(Prefix(n), from, to)) = len
      /\ \A j \in 1 .. len : SubSeq(Prefix(n), from, to)[j] = Prefix(n)[from + j - 1]
  BY <1>2, <1>3, SubSeqProperties
<1>5. \A j \in 1 .. len : Prefix(n)[from + j - 1] = at + j
  BY <1>1 DEF Prefix
<1>6. /\ Bytes(at, len) \in Seq(Nat) /\ Len(Bytes(at, len)) = len
      /\ \A j \in 1 .. len : Bytes(at, len)[j] = at + j
  BY DEF Bytes
<1>7. SubSeq(Prefix(n), from, to) = Bytes(at, len)
  <2>1. PICK s, bytes : s = SubSeq(Prefix(n), from, to) /\ bytes = Bytes(at, len)
    OBVIOUS
  <2>2. /\ s \in Seq(Nat) /\ bytes \in Seq(Nat) /\ Len(s) = Len(bytes)
        /\ \A j \in 1 .. Len(s) : s[j] = bytes[j]
    BY <1>4, <1>5, <1>6, <2>1
  <2> QED
    BY <2>1, <2>2, SeqEqual
<1> QED
  BY <1>1, <1>7

\* The first k blocks of the file, cut out of a part of the file that ends with them.
LEMMA PiecesOfPrefix ==
  ASSUME StateInv, NEW k \in 0 .. Len(Cut(Params.blksize))
  PROVE  /\ Len(Source) = Len(Cut(Params.blksize)) /\ Len(Source) \in Nat \ {0}
         /\ Pieces(Prefix(End(Params.blksize, k)), k) = First(k)
<1>1. PICK b \in Nat \ {0} : b = Params.blksize
  BY ChoicesFacts DEF Choices
<1>2. PICK count \in Nat \ {0} : count = Len(Cut(b))
  BY EndFacts
<1> DEFINE piece(bytes, i) == SubSeq(bytes, Cut(b)[i].at + 1, Cut(b)[i].at + Cut(b)[i].len)
<1>3. \A bytes, n : Pieces(bytes, n) = [i \in 1 .. n |-> piece(bytes, i)]
  BY <1>1 DEF Pieces
<1>4. File = Prefix(FileLen) /\ FileLen \in Nat
  BY SessionAssumption DEF File, Prefix
<1>5. ASSUME NEW i \in 1 .. k
      PROVE  piece(Prefix(End(b, k)), i) = piece(File, i)
  <2>1. /\ i \in 1 .. count /\ k \in 0 .. count /\ i \in 0 .. k
    BY <1>1, <1>2
  <2>2. PICK at, len : at = Cut(b)[i].at /\ len = Cut(b)[i].len
    OBVIOUS
  <2>3. at \in Nat /\ len \in Nat /\ at + len = End(b, i)
    <3>1. /\ Cut(b)[i] \in Stretch /\ Cut(b)[i].at = End(b, i - 1)
          /\ End(b, i - 1) + Cut(b)[i].len = End(b, i)
      BY <1>2, <2>1, EndFacts
    <3>2. Cut(b)[i].at \in Nat /\ Cut(b)[i].len \in Nat
      BY <3>1 DEF Stretch
    <3> QED
      BY <2>2, <3>1, <3>2
  <2>4. End(b, i) <= End(b, k) /\ End(b, k) \in 0 .. FileLen
    BY <1>2, <2>1, EndFacts, EndsGrow
  <2>5. PICK n : n = End(b, k)
    OBVIOUS
  <2>6. at + len <= n /\ n \in Nat /\ at + len <= FileLen
    BY <1>4, <2>3, <2>4, <2>5
  <2>7. SubSeq(Prefix(n), at + 1, at + len) = SubSeq(File, at + 1, at + len)
    <3>1. SubSeq(Prefix(n), at + 1, at + len) = Bytes(at, len)
      BY <2>3, <2>6, StretchOfPrefix
    <3>2. SubSeq(Prefix(FileLen), at + 1, at + len) = Bytes(at, len)
      BY <1>4, <2>3, <2>6, StretchOfPrefix
    <3> QED
      BY <1>4, <3>1, <3>2
  <2> QED
    BY <2>2, <2>5, <2>7
<1>6. Source = [i \in 1 .. count |-> piece(File, i)]
  BY <1>1, <1>2, <1>3 DEF Source
<1> HIDE DEF piece
<1>7. Len(Source) = count
  BY <1>6
<1>8. \A i \in 1 .. k : Source[i] = piece(File, i)
  BY <1>1, <1>2, <1>6
<1>9. Pieces(Prefix(End(b, k)), k) = First(k)
  BY <1>3, <1>5, <1>8 DEF First
<1> QED
  BY <1>1, <1>2, <1>7, <1>9

\* The disk holds what the first task has written.
LEMMA DiskHolds ==
  PutInv /\ WholeInv => DiskInv
<1> SUFFICES ASSUME PutInv, WholeInv, Once, BlksizeSettled
             PROVE  /\ Written \in 0 .. Len(Source)
                    /\ Pieces(disk, OnDisk) = First(Written)
                    /\ FirstTask = "ok" <=> Written = Len(Source)
  BY DEF DiskInv
<1>1. StateInv /\ PeerInv /\ OnceInv
  BY DEF PutInv, WholeInv
<1>2. PICK b \in Nat \ {0} : b = Params.blksize
  BY <1>1, ChoicesFacts DEF Choices
<1>3. /\ Len(Source) = Len(Cut(b)) /\ Len(Source) \in Nat \ {0}
      /\ 0 \in 0 .. Len(Cut(b)) /\ End(b, 0) = 0
  <2>1. /\ Len(Cut(b)) \in Nat \ {0} /\ End(b, 0) = 0
    BY EndFacts
  <2>2. 0 \in 0 .. Len(Cut(b))
    BY <2>1
  <2>3. Len(Source) = Len(Cut(b))
    BY <1>1, <1>2, <2>2, PiecesOfPrefix
  <2> QED
    BY <2>1, <2>2, <2>3
<1>4. \A bytes : Pieces(bytes, 0) = First(0)
  BY DEF Pieces, First
<1>5. ASSUME tasks = << >>
      PROVE  Written = 0 /\ FirstTask # "ok" /\ OnDisk = 0
  BY <1>1, <1>5 DEF OnceInv, Written, FirstTask, OnDisk
<1>6. ASSUME tasks # << >>
      PROVE  /\ 1 \in DOMAIN tasks /\ Written = Len(tasks[1].end.file) /\ Written \in Nat
             /\ FirstTask = tasks[1].end.status
             /\ tasks[1].pos \in 0 .. FileLen /\ Prefix(tasks[1].pos) \notin {None, OldFile}
             /\ client.peer \in {Client, 1} /\ Client # 1
  <2>1. 1 \in DOMAIN tasks /\ Len(tasks[1].end.file) \in Nat
    <3>1. tasks \in Seq(Tasks) /\ DOMAIN tasks = 1 .. Len(tasks)
      BY <1>1, LenProperties DEF StateInv
    <3>2. 1 \in DOMAIN tasks
      BY <1>6, <3>1, EmptySeq
    <3> QED
      BY <3>2, TaskNumbers DEF PutInv
  <2>2. tasks[1].pos \in 0 .. FileLen
    BY <1>1, <2>1, Places
  <2> QED
    BY <1>1, <1>6, <2>1, <2>2, PrefixFacts DEF OnceInv, Written, FirstTask, Client
<1>7. ASSUME tasks # << >>, client.peer = Client
      PROVE  /\ Written = 0 /\ FirstTask # "ok" /\ OnDisk = 0
  <2>1. Written = 0 /\ FirstTask # "ok" /\ tasks[1].pos = 0
    BY <1>6, <1>7 DEF PutInv, TaskInv
  <2>2. CASE disk = OldFile
    BY <2>1, <2>2 DEF OnDisk
  <2>3. CASE disk # OldFile
    <3>1. disk = Prefix(0) /\ disk \notin {None, OldFile}
      BY <1>1, <1>6, <1>7, <2>1, <2>3 DEF OnceInv
    <3>2. Len(disk) = 0
      BY <3>1 DEF Prefix
    <3>3. 0 \div b = 0
      OBVIOUS
    <3> QED
      BY <1>2, <2>1, <3>1, <3>2, <3>3 DEF OnDisk
  <2> QED
    BY <2>1, <2>2, <2>3
<1>8. ASSUME Written = 0, FirstTask # "ok", OnDisk = 0
      PROVE  /\ Written \in 0 .. Len(Source)
             /\ Pieces(disk, OnDisk) = First(Written)
             /\ FirstTask = "ok" <=> Written = Len(Source)
  BY <1>3, <1>4, <1>8
<1>9. ASSUME tasks # << >>, client.peer = 1
      PROVE  /\ Written \in 0 .. Len(Source)
             /\ Pieces(disk, OnDisk) = First(Written)
             /\ FirstTask = "ok" <=> Written = Len(Source)
  <2>1. /\ disk = Prefix(tasks[1].pos) /\ tasks[1].end.blksize = b
        /\ disk \notin {None, OldFile}
    BY <1>1, <1>2, <1>6, <1>9 DEF OnceInv
  <2>2. client.blksize = b /\ Len(Blocks) = Len(Source)
    BY <1>2, <1>3, <1>6, <1>9, <2>1 DEF BlksizeSettled, Blocks
  <2>3. /\ Written <= Len(Source) /\ tasks[1].pos = End(b, Written)
        /\ FirstTask = "ok" <=> Written = Len(Source)
    BY <1>1, <1>6, <1>9, <2>2 DEF PeerInv
  <2>4. PICK k \in 0 .. Len(Cut(b)) : k = Written
    BY <1>3, <1>6, <1>9, <2>3
  <2>5. OnDisk = k
    <3>1. CASE FirstTask = "ok"
      BY <1>2, <1>3, <2>1, <2>3, <2>4, <3>1 DEF OnDisk
    <3>2. CASE FirstTask # "ok"
      <4>1. k # Len(Cut(b)) /\ k \in Nat
        BY <1>3, <2>3, <2>4, <3>2
      <4>2. disk = Prefix(k * b) /\ k * b \in Nat
        BY <2>1, <2>3, <2>4, <4>1, FullBlocks
      <4>3. Len(disk) = k * b
        BY <4>2 DEF Prefix
      <4>4. (k * b) \div b = k
        BY <4>1, MultipleDiv
      <4> QED
        BY <1>2, <2>1, <3>2, <4>3, <4>4 DEF OnDisk
    <3> QED
      BY <3>1, <3>2
  <2>6. Pieces(disk, k) = First(k)
    BY <1>1, <1>2, <2>1, <2>3, <2>4, PiecesOfPrefix
  <2> QED
    BY <1>3, <1>6, <1>9, <2>3, <2>4, <2>5, <2>6
<1> QED
  BY <1>5, <1>6, <1>7, <1>8, <1>9

\* One block more.
LEMMA NextPiece ==
  ASSUME StateInv, NEW n \in 0 .. Len(Source)
  PROVE  /\ Len(First(n)) = n
         /\ n < Len(Source) => First(n + 1) = Append(First(n), Source[n + 1])
         /\ First(n) = Source <=> n = Len(Source)
<1>1. Len(Source) \in Nat /\ DOMAIN Source = 1 .. Len(Source)
      /\ Source = [i \in 1 .. Len(Source) |-> Source[i]]
  <2>1. PICK count \in Nat : count = Len(Cut(Params.blksize))
    BY ChoicesFacts, EndFacts DEF Choices
  <2> DEFINE piece(i) == LET block == Cut(Params.blksize)[i]
                         IN  SubSeq(File, block.at + 1, block.at + block.len)
  <2>2. Source = [i \in 1 .. count |-> piece(i)]
    BY <2>1 DEF Source, Pieces
  <2> HIDE DEF piece
  <2> QED
    BY <2>2
<1> DEFINE all == {Source[i] : i \in 1 .. Len(Source)}
<1>2. \A m \in 0 .. Len(Source) : /\ First(m) \in Seq(all) /\ Len(First(m)) = m
                                  /\ \A i \in 1 .. m : First(m)[i] = Source[i]
  BY <1>1 DEF First
<1>3. ASSUME n < Len(Source)
      PROVE  First(n + 1) = Append(First(n), Source[n + 1])
  <2>1. n + 1 \in 0 .. Len(Source) /\ Source[n + 1] \in all
    BY <1>1, <1>3
  <2>2. PICK longer : longer = Append(First(n), Source[n + 1])
    OBVIOUS
  <2> HIDE DEF all
  <2>3. /\ longer \in Seq(all) /\ Len(longer) = n + 1
        /\ \A i \in 1 .. n : longer[i] = Source[i]
        /\ longer[n + 1] = Source[n + 1]
    BY <1>2, <2>1, <2>2, AppendProperties
  <2>4. \A i \in 1 .. n + 1 : longer[i] = First(n + 1)[i]
    BY <1>1, <1>2, <2>1, <2>3
  <2> QED
    BY <1>2, <2>1, <2>2, <2>3, <2>4, SeqEqual
<1>4. First(n) = Source <=> n = Len(Source)
  BY <1>1, <1>2 DEF First
<1> QED
  BY <1>2, <1>3, <1>4

\* In the beginning nothing has been written, and nobody has returned.
LEMMA InitPromise ==
  ASSUME Init
  PROVE  Promise!Init
<1>1. client.phase = "request" /\ tasks = << >> /\ disk \in {None, OldFile}
  BY DEF Init, NewClient
<1>2. OnDisk = 0 /\ FirstTask = "receiving"
  BY <1>1 DEF OnDisk, FirstTask
<1>3. Pieces(disk, 0) = << >>
  BY DEF Pieces
<1> QED
  BY <1>1, <1>2, <1>3 DEF Promise!Init

\* A step after which the file has been opened once, and the blksize is settled, starts
\* in such a state, and with the same source.
LEMMA SettledBefore ==
  ASSUME PutInv, [Next]_vars, Once', BlksizeSettled'
  PROVE  Once /\ BlksizeSettled /\ Source' = Source
<1>1. config' = config /\ Params' = Params
  BY SameAssumptions
<1>2. /\ tasks \in Seq(Tasks) /\ Len(tasks) \in Nat /\ DOMAIN tasks = 1 .. Len(tasks)
      /\ client.peer # Client => client.peer \in DOMAIN tasks
  BY TaskNumbers DEF PutInv, StateInv, ClientInv
<1>3. /\ Len(tasks) <= Len(tasks') /\ Len(tasks') \in Nat
      /\ \A t \in DOMAIN tasks : tasks'[t].end.blksize = tasks[t].end.blksize
      /\ client.peer # Client => client'.peer = client.peer /\ client'.blksize = client.blksize
  <2>1. CASE ClientReceives \/ ClientTimeout
    BY <1>2, <2>1, ClientShape
  <2>2. CASE TaskStarts
    <3>1. UNCHANGED client /\ \E task : tasks' = Append(tasks, task)
      BY <2>2 DEF TaskStarts, TaskOpens, TaskIsRefused, TaskRefuses
    <3> QED
      BY <1>2, <3>1
  <2>3. ASSUME NEW t \in DOMAIN tasks, TaskReceives(t) \/ TaskTimeout(t)
        PROVE  /\ UNCHANGED client /\ Len(tasks') = Len(tasks)
               /\ \A u \in DOMAIN tasks : tasks'[u].end.blksize = tasks[u].end.blksize
    <3>1. /\ UNCHANGED client /\ Len(tasks') = Len(tasks)
          /\ \A u \in DOMAIN tasks : u # t => tasks'[u] = tasks[u]
          /\ tasks'[t].end.blksize = tasks[t].end.blksize
      BY <2>3, TaskShape
    <3> QED
      BY <3>1
  <2>4. CASE Lose \/ UNCHANGED vars
    BY <1>2, <2>4 DEF Lose, vars
  <2> QED
    BY <1>2, <2>1, <2>2, <2>3, <2>4 DEF Next, Terminated
<1>4. Once
  BY <1>1, <1>2, <1>3 DEF Once
<1>5. BlksizeSettled
  BY <1>2, <1>3 DEF BlksizeSettled
<1>6. Source' = Source
  BY <1>1 DEF Source, Pieces
<1> QED
  BY <1>4, <1>5, <1>6

\* A step of the client returns, or does nothing to what is promised.
LEMMA ClientPromise ==
  ASSUME PutInv, PutInv', WholeInv', Source' = Source, DiskInv, Once, BlksizeSettled,
         SuccessMeansIntact', Once', BlksizeSettled', ClientReceives \/ ClientTimeout
  PROVE  [Promise!Next]_(Promise!promised)
<1>1. UNCHANGED <<config, tasks, disk>> /\ client'.request = client.request
  BY ClientShape
<1>2. Params' = Params
  BY <1>1, SameTerms
<1>3. /\ Pieces(disk, OnDisk)' = Pieces(disk, OnDisk)
      /\ FirstTask' = FirstTask
  BY <1>1, <1>2 DEF Pieces, OnDisk, FirstTask
<1>4. client.phase \in {"request", "data"}
  <2>1. Listens(Client)
    BY DEF ClientReceives, ClientTimeout, Arrives, Deadline
  <2> QED
    BY <2>1 DEF Listens, Client, Listener, Requesting, Transferring
<1>5. client'.phase \in {"request", "data", "ok", "failed"}
  BY DEF PutInv, StateInv, Clients
<1>6. CASE client'.phase = "ok"
  <2>1. tasks[client'.peer].end.status = "ok" /\ client'.peer = 1 /\ 1 \in DOMAIN tasks
    BY <1>1, <1>6 DEF SuccessMeansIntact, PutInv, ClientInv, WholeInv, OnceInv
  <2>2. FirstTask = "ok"
    BY <2>1 DEF FirstTask
  <2>3. Pieces(disk, OnDisk) = Source
    BY <2>2, NextPiece DEF DiskInv, PutInv
  <2> QED
    BY <1>3, <1>4, <1>6, <2>2, <2>3
    DEF Promise!Next, Promise!SenderSucceeds, Promise!Complete
<1>7. CASE client'.phase = "failed"
  BY <1>3, <1>4, <1>7 DEF Promise!Next, Promise!SenderFails
<1>8. CASE client'.phase \in {"request", "data"}
  BY <1>3, <1>4, <1>8 DEF Promise!promised
<1> QED
  BY <1>5, <1>6, <1>7, <1>8

\* A request is refused, which is the end if it is the first, or opens the file.
LEMMA StartPromise ==
  ASSUME PutInv, WholeInv, Source' = Source, DiskInv, DiskInv', Once, BlksizeSettled,
         Once', BlksizeSettled', TaskStarts
  PROVE  [Promise!Next]_(Promise!promised)
<1>1. /\ UNCHANGED <<config, client>>
      /\ \E task : /\ tasks' = Append(tasks, task)
                   /\ \/ tasks = << >> /\ task = NewTask(Params)
                      \/ task.end.status = "failed" /\ Len(task.end.file) = 0
  BY OnceStarts DEF WholeInv
<1>2. PICK task : /\ tasks' = Append(tasks, task)
                  /\ \/ tasks = << >> /\ task = NewTask(Params)
                     \/ task.end.status = "failed" /\ Len(task.end.file) = 0
  BY <1>1
<1>3. tasks \in Seq(Tasks) /\ Len(tasks) \in Nat /\ DOMAIN tasks = 1 .. Len(tasks)
  BY TaskNumbers DEF PutInv, StateInv
<1>4. Pieces(disk, OnDisk) = First(Written) /\ Pieces(disk, OnDisk)' = First(Written)'
  BY DEF DiskInv
<1>5. First(Written)' = First(Written')
  BY DEF First
<1>6. CASE tasks = << >>
  <2>1. tasks' # << >> /\ tasks'[1] = task /\ Written = 0 /\ FirstTask = "receiving"
    BY <1>2, <1>6 DEF Written, FirstTask
  <2>2. Len(task.end.file) = 0 /\ task.end.status \in {"receiving", "failed"}
    BY <1>2 DEF NewTask, NewReceiver
  <2>3. Written' = 0 /\ FirstTask' \in {"receiving", "failed"}
    BY <2>1, <2>2 DEF Written, FirstTask
  <2>4. Pieces(disk, OnDisk)' = Pieces(disk, OnDisk)
    BY <1>4, <1>5, <2>1, <2>3
  <2> QED
    BY <1>1, <2>1, <2>3, <2>4 DEF Promise!Next, Promise!ReceiverFails, Promise!promised
<1>7. CASE tasks # << >>
  <2>1. tasks' # << >> /\ tasks'[1] = tasks[1]
    <3>1. 1 \in DOMAIN tasks
      BY <1>3, <1>7, EmptySeq
    <3> QED
      BY <1>2, <1>3, <3>1
  <2>2. Written' = Written /\ FirstTask' = FirstTask
    BY <1>7, <2>1 DEF Written, FirstTask
  <2>3. Pieces(disk, OnDisk)' = Pieces(disk, OnDisk)
    BY <1>4, <1>5, <2>2
  <2> QED
    BY <1>1, <2>2, <2>3 DEF Promise!promised
<1> QED
  BY <1>6, <1>7

\* A task writes the next block of the source, fails, or does nothing to the disk.
LEMMA TaskPromise ==
  ASSUME PutInv, PutInv', WholeInv, Source' = Source, DiskInv, DiskInv', Once,
         BlksizeSettled, Once', BlksizeSettled',
         NEW t \in DOMAIN tasks, TaskReceives(t) \/ TaskTimeout(t)
  PROVE  [Promise!Next]_(Promise!promised)
<1>1. /\ UNCHANGED <<config, client>> /\ tasks[t].end.status = "receiving"
      /\ DOMAIN tasks' = DOMAIN tasks
  BY TaskShape
<1>2. t = 1 /\ 1 \in DOMAIN tasks /\ tasks # << >> /\ tasks' # << >>
  BY <1>1 DEF WholeInv, OnceInv
<1>3. /\ Pieces(disk, OnDisk) = First(Written) /\ Pieces(disk, OnDisk)' = First(Written')
      /\ Written \in 0 .. Len(Source) /\ Written' \in 0 .. Len(Source)
      /\ FirstTask = "ok" <=> Written = Len(Source)
      /\ FirstTask' = "ok" <=> Written' = Len(Source)
  <2>1. First(Written)' = First(Written')
    BY DEF First
  <2> QED
    BY <2>1 DEF DiskInv
<1>4. /\ Written = Len(tasks[t].end.file) /\ Written' = Len(tasks'[t].end.file)
      /\ FirstTask = "receiving" /\ FirstTask' = tasks'[t].end.status
      /\ tasks'[t].end.status \in {"receiving", "ok", "failed"}
  <2>1. tasks'[t].end.status \in {"receiving", "ok", "failed"}
    <3>1. tasks' \in Seq(Tasks)
      BY DEF PutInv, StateInv
    <3>2. tasks'[t] \in Tasks
      BY <1>1, <3>1, LenProperties
    <3> QED
      BY <3>2 DEF Tasks, Receivers
  <2> QED
    BY <1>1, <1>2, <2>1 DEF Written, FirstTask
<1>5. CASE tasks'[t].end.file = tasks[t].end.file /\ tasks'[t].end.status # "ok"
  <2>1. Pieces(disk, OnDisk)' = Pieces(disk, OnDisk)
    BY <1>3, <1>4, <1>5
  <2> QED
    BY <1>1, <1>4, <1>5, <2>1 DEF Promise!Next, Promise!ReceiverFails, Promise!promised
<1>6. CASE \E n \in 1 .. Len(Blocks) :
             tasks'[t].end = AcceptBlock(tasks[t].end, Number(n), Blocks[n])
  <2>1. PICK n \in 1 .. Len(Blocks) :
          tasks'[t].end = AcceptBlock(tasks[t].end, Number(n), Blocks[n])
    BY <1>6
  <2>2. tasks[t] \in Tasks
    BY TaskNumbers DEF PutInv
  <2>3. PICK r, s, data : /\ r = tasks[t].end /\ s = tasks'[t].end /\ data = Blocks[n]
                          /\ r \in Receivers /\ s = AcceptBlock(r, Number(n), data)
    BY <2>1, <2>2 DEF Tasks
  <2>4. s.file = Append(r.file, data) /\ s.status \in {r.status, "ok"} /\ r.file \in Seq(Stretch)
    BY <2>3 DEF AcceptBlock, Receivers
  <2>5. Written' = Written + 1 /\ FirstTask' \in {"receiving", "ok"}
    BY <1>1, <1>4, <2>3, <2>4
  <2>6. /\ Len(Source) \in Nat /\ Written < Len(Source)
        /\ First(Written') = Append(First(Written), Source[Written + 1])
        /\ Len(First(Written)) = Written
        /\ First(Written) # Source
        /\ First(Written') = Source <=> Written' = Len(Source)
    <3>1. Len(Source) \in Nat /\ StateInv
      BY PiecesOfPrefix, ChoicesFacts, EndFacts DEF PutInv, Choices
    <3>2. Written # Len(Source)
      BY <1>3, <1>4
    <3>3. Written < Len(Source)
      BY <1>3, <3>1, <3>2
    <3> QED
      BY <1>3, <2>5, <3>1, <3>2, <3>3, NextPiece
  <2> QED
    BY <1>1, <1>3, <1>4, <2>5, <2>6 DEF Promise!Next, Promise!Write, Promise!Complete
<1> QED
  BY <1>5, <1>6, TaskShape

\* As long as the file does not wrap the block numbers, is opened once, and the two ends
\* have settled on a blksize, an upload does what TransferPromise says, however its
\* requests, refusals and tasks multiply.
THEOREM Implements == Spec => (NoWrap => KeepsPromise)
<1> DEFINE Inv == PutInv /\ (NoWrap => WholeInv /\ DiskInv /\ SuccessMeansIntact)
           Step == Once' /\ BlksizeSettled' => Promise!Next \/ UNCHANGED Promise!promised
<1>1. Init => Promise!Init
  BY InitPromise
<1>2. Spec => []Inv
  BY WholeInvariance, DiskHolds, Intact, PTL
<1>3. PutInv /\ [Next]_vars => (NoWrap' <=> NoWrap)
  BY SameAssumptions
<1>4. ASSUME PutInv, PutInv', WholeInv, WholeInv', DiskInv, DiskInv', SuccessMeansIntact',
             [Next]_vars
      PROVE  Step
  <2>1. SUFFICES ASSUME Once', BlksizeSettled'
                 PROVE  Promise!Next \/ UNCHANGED Promise!promised
    OBVIOUS
  <2>2. Once /\ BlksizeSettled /\ Source' = Source
    BY <1>4, <2>1, SettledBefore
  <2>3. CASE ClientReceives \/ ClientTimeout
    BY <1>4, <2>1, <2>2, <2>3, ClientPromise
  <2>4. CASE TaskStarts
    BY <1>4, <2>1, <2>2, <2>4, StartPromise
  <2>5. ASSUME NEW t \in DOMAIN tasks, TaskReceives(t) \/ TaskTimeout(t)
        PROVE  Promise!Next \/ UNCHANGED Promise!promised
    BY <1>4, <2>1, <2>2, <2>5, TaskPromise
  <2>6. CASE Lose \/ UNCHANGED vars
    <3>1. UNCHANGED <<config, client, tasks, disk>>
      BY <2>6 DEF Lose, vars
    <3>2. Params' = Params
      BY <3>1, SameTerms
    <3>3. Pieces(disk, OnDisk)' = Pieces(disk, OnDisk) /\ FirstTask' = FirstTask
      BY <3>1, <3>2 DEF Pieces, OnDisk, FirstTask
    <3> QED
      BY <2>2, <3>1, <3>3 DEF Promise!promised
  <2> QED
    BY <1>4, <2>3, <2>4, <2>5, <2>6 DEF Next, Terminated
<1> QED
  BY <1>1, <1>2, <1>3, <1>4, PTL DEF Spec, KeepsPromise
=============================================================================
