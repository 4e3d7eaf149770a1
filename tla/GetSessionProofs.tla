-------------------------- MODULE GetSessionProofs --------------------------
(***************************************************************************)
(* Theorems about downloads, for every file, all options and               *)
(* configurations, and any number of requests, tasks and misfortunes.      *)
(***************************************************************************)
EXTENDS GetSessionProperties, SessionProofs

\* What the server offers, the same for every copy of the request.
Offer == Granted(config, Requested, FileLen)

Asked == {RequestPacket("RRQ", BuildRequestOptions(o, 0)) : o \in ClientOptions}

Clients ==
  [opts : ClientOptions, request : Asked, attempt : Nat, peer : Nat,
   phase : {"request", "data", "finishing", "ok", "failed"}, blksize : Nat, end : Receivers,
   error : {"none", "timeout", "FileNotFound", "NotDefined", "UnexpectedPacket", "Io"}]

Tasks(offer) == [end : Senders, blksize : Nat, oack : {None, OackPacket(offer)}]

Received == Len(client.end.file)

StateInv ==
  /\ config \in Configs /\ disk \in {None, File}
  /\ client \in Clients
  /\ tasks \in Seq(Tasks(Offer))

\* How often something has been repeated.
CounterInv ==
  /\ client.attempt <= client.opts.retries /\ client.end.attempt <= client.opts.retries
  /\ Len(tasks) <= MaxTasks
  /\ \A t \in DOMAIN tasks : tasks[t].end.attempt <= config.retries
  /\ faults \in 0 .. MaxFaults

\* The client has no peer before it has parameters, and no data of a peer that
\* still waits for ACK(0).
ClientInv ==
  /\ Requesting => client.peer = Client
  /\ client.peer = Client => Received = 0
  /\ client.peer # Client => client.peer \in DOMAIN tasks
                             /\ (Waiting(client.peer) => Received = 0)
  /\ client.phase \in {"data", "finishing", "ok"} =>
       /\ disk # None /\ client.peer # Client
       /\ client.blksize = Params.blksize
       /\ Receives(client.end, Params.windowsize, Params.blksize)

\* All tasks send the same blocks, and one that is not the peer has had no ACK.
TaskInv(t) ==
  /\ disk = None => tasks[t].end.status = "failed"
  /\ disk # None => /\ Sends(tasks[t].end, Source, Params.windowsize)
                    /\ tasks[t].blksize = Params.blksize
  /\ t # client.peer => Acked(tasks[t].end) = 0
  /\ Waiting(t) => Offer # << >>
  /\ Requesting /\ Active(t) /\ ~Waiting(t) => Offer = << >>

\* What a task may have sent.
FromTask(t, packet) ==
  \/ packet \in {ErrorPacket("FileNotFound"), ErrorPacket("NotDefined")}
  \/ disk # None /\ Offer # << >> /\ packet = OackPacket(Offer)
  \/ /\ disk # None /\ ~Waiting(t)
     /\ \E n \in 1 .. Len(Source) :
          /\ packet = DataPacket(Number(n), Source[n])
          /\ Requesting => n <= Params.windowsize /\ Offer = << >>

\* What the client may have sent to a task.
ToTask(t, packet) ==
  /\ ~Requesting
  /\ \/ packet = ErrorPacket("UnknownTid")
     \/ t = client.peer /\ \E n \in 0 .. Received : packet = AckPacket(Number(n))

Proper(d) ==
  \/ d.dst = Listener /\ d.packet.type = "RRQ" /\ d.packet.options = client.request.options
  \/ d.dst = Client /\ d.src \in DOMAIN tasks /\ FromTask(d.src, d.packet)
  \/ d.dst \in DOMAIN tasks /\ ToTask(d.dst, d.packet)

GetInv ==
  /\ StateInv /\ CounterInv /\ ClientInv
  /\ \A t \in DOMAIN tasks : TaskInv(t)
  /\ \A d \in net : Proper(d)

-----------------------------------------------------------------------------
(* Facts about the terms of the invariant.                                 *)

\* The parameters of a transfer are numbers, and what is offered says what they are.
LEMMA ParamsFacts ==
  ASSUME StateInv
  PROVE  /\ Params.blksize \in Nat \ {0} /\ Params.windowsize \in Nat \ {0}
         /\ Source \in Seq(Stretch) /\ Len(Source) \in Nat \ {0}
         /\ \A i \in 1 .. Len(Source) : Source[i].len < Params.blksize <=> i = Len(Source)
         /\ MergeOack(Defaults, FromPairs(ToPairs(Offer))) = Params
         /\ Offer = << >> => Params = Defaults
         /\ OptionSet(Offer)
<1>1. config.max_block_size \in Nat /\ config.max_block_size >= MinBlockSize
  BY SessionAssumption DEF StateInv
<1>2. OptionSet(Requested)
  BY FromPairsOptionSet DEF Requested
<1>3. ~ClampPanics(config, Requested)
  BY <1>1, NegotiationAssumption DEF ClampPanics
<1>4. FileLen \in (0 .. MaxU64) \cup {None}
  BY SessionAssumption
<1>5. Params \in [blksize : MinBlockSize .. MaxBlockSize, timeout : 1 .. MaxU8,
                  windowsize : 1 .. MaxU16]
  BY <1>1, <1>2, <1>3, NegotiatedValid DEF Params
<1>6. Params.blksize \in Nat \ {0} /\ Params.windowsize \in Nat \ {0}
  BY <1>5, NegotiationAssumption
<1>7. MergeOack(Defaults, FromPairs(ToPairs(Offer))) = Params /\ OptionSet(Offer)
  BY <1>1, <1>2, <1>3, <1>4, OackTellsAll, GrantedOptionSet DEF Params, Offer
<1>8. Offer = << >> => Params = Defaults
  <2>1. FromPairs(ToPairs(Offer)) = Offer
    BY <1>7, DecodeEncode
  <2>2. DOMAIN << >> = {}
    OBVIOUS
  <2>3. MergeOack(Defaults, << >>) = Defaults
    BY <2>2 DEF MergeOack, OrElse, Defaults
  <2> QED
    BY <1>7, <2>1, <2>3
<1> QED
  BY <1>6, <1>7, <1>8, CutFacts DEF Source

\* None is no OACK.
LEMMA OackIsNotNone ==
  ASSUME StateInv
  PROVE  OackPacket(Offer) # None
<1> DEFINE values == {Offer[n] : n \in DOMAIN Offer}
           pairs == ToPairs(Offer)
<1>1. values \subseteq Nat
  BY ParamsFacts, NegotiationAssumption DEF OptionSet, Valid
<1>2. pairs \in Seq([name : Names, value : values])
  BY ToPairsLists DEF Lists
<1> HIDE DEF values, pairs
<1>3. [name : Names, value : values] \subseteq [name : Names, value : Nat]
  BY <1>1
<1>4. pairs \in Seq([name : Names, value : Nat])
  BY <1>2, <1>3, SeqMonotonic
<1>5. OackPacket(Offer) \in [type : {"OACK"}, options : Seq([name : Names, value : Nat])]
  BY <1>4 DEF OackPacket, pairs
<1> QED
  BY <1>5, NoneIsNoPacket

\* The tasks are numbered from 1, so that none is the listener or the client.
LEMMA TaskNumbers ==
  ASSUME StateInv
  PROVE  /\ Len(tasks) \in Nat /\ DOMAIN tasks = 1 .. Len(tasks)
         /\ Client \notin DOMAIN tasks /\ Listener \notin DOMAIN tasks /\ Client # Listener
         /\ \A t \in DOMAIN tasks : tasks[t] \in Tasks(Offer)
<1>1. tasks \in Seq(Tasks(Offer))
  BY DEF StateInv
<1>2. Len(tasks) \in Nat /\ DOMAIN tasks = 1 .. Len(tasks)
      /\ \A t \in DOMAIN tasks : tasks[t] \in Tasks(Offer)
  BY <1>1, LenProperties, ElementOfSeq
<1> QED
  BY <1>2 DEF Client, Listener

\* What follows from request and configuration stays what it is.
LEMMA SameTerms ==
  ASSUME client'.request = client.request, config' = config
  PROVE  Params' = Params /\ Offer' = Offer /\ Source' = Source
<1>1. Requested' = Requested
  BY DEF Requested
<1> QED
  BY <1>1 DEF Params, Offer, Source

\* A datagram stays proper as long as the client does not go back to asking, keeps
\* the peer it has and what it has received, and no task waits again.
LEMMA ProperStays ==
  ASSUME GetInv, NEW d \in net,
         config' = config, disk' = disk, client'.request = client.request,
         Requesting' => Requesting,
         ~Requesting => client'.peer = client.peer,
         Received' \in Nat, Received <= Received',
         DOMAIN tasks \subseteq DOMAIN tasks',
         \A t \in DOMAIN tasks : Waiting(t)' => Waiting(t)
  PROVE  Proper(d)'
<1>1. Params' = Params /\ Offer' = Offer /\ Source' = Source
  BY SameTerms
<1>2. Proper(d)
  BY DEF GetInv
<1>3. CASE d.dst = Listener /\ d.packet.type = "RRQ" /\ d.packet.options = client.request.options
  BY <1>3 DEF Proper
<1>4. CASE d.dst = Client /\ d.src \in DOMAIN tasks /\ FromTask(d.src, d.packet)
  <2>1. ~Waiting(d.src) => ~Waiting(d.src)'
    BY <1>4
  <2>2. FromTask(d.src, d.packet)'
    BY <1>1, <1>4, <2>1 DEF FromTask
  <2> QED
    BY <1>4, <2>2 DEF Proper
<1>5. CASE d.dst \in DOMAIN tasks /\ ToTask(d.dst, d.packet)
  <2>1. ~Requesting /\ ~Requesting' /\ client'.peer = client.peer
    BY <1>5 DEF ToTask
  <2>2. Received \in Nat
    BY FileLength DEF GetInv, StateInv, Clients, Receivers, Received
  <2>3. 0 .. Received \subseteq 0 .. Received'
    BY <2>2
  <2>4. ToTask(d.dst, d.packet)'
    BY <1>5, <2>1, <2>3 DEF ToTask
  <2> QED
    BY <1>5, <2>4 DEF Proper
<1> QED
  BY <1>2, <1>3, <1>4, <1>5 DEF Proper

-----------------------------------------------------------------------------
(* The steps, by what they may change.                                     *)

\* A step of the client keeps the invariant if the client stays what it should be
\* and sends what it may.
LEMMA ClientStep ==
  ASSUME GetInv, UNCHANGED <<config, tasks, disk>>, faults' \in 0 .. MaxFaults,
         client' \in Clients, client'.request = client.request, client'.opts = client.opts,
         client'.attempt <= client.opts.retries, client'.end.attempt <= client.opts.retries,
         ClientInv', Requesting' => Requesting,
         ~Requesting => client'.peer = client.peer,
         Received <= Received',
         \A d \in net' : d \in net \/ Proper(d)'
  PROVE  GetInv'
<1>1. Params' = Params /\ Offer' = Offer /\ Source' = Source
  BY SameTerms
<1>2. StateInv'
  BY <1>1 DEF GetInv, StateInv
<1>3. CounterInv'
  BY DEF GetInv, CounterInv
<1>4. ASSUME NEW t \in DOMAIN tasks'
      PROVE  TaskInv(t)'
  <2>1. t \in DOMAIN tasks /\ TaskInv(t)
    BY DEF GetInv
  <2>2. t # client'.peer => t # client.peer
    BY <2>1, TaskNumbers DEF GetInv, ClientInv
  <2> QED
    BY <1>1, <2>1, <2>2 DEF TaskInv, Active, Waiting
<1>5. ASSUME NEW d \in net'
      PROVE  Proper(d)'
  <2>1. Received' \in Nat
    BY LenProperties DEF Clients, Receivers, Received
  <2>2. \A t \in DOMAIN tasks : Waiting(t)' => Waiting(t)
    BY DEF Waiting
  <2>3. CASE d \in net
    BY <2>1, <2>2, <2>3, ProperStays
  <2> QED
    BY <2>3
<1> QED
  BY <1>2, <1>3, <1>4, <1>5 DEF GetInv

\* What a task sends is proper: an ERROR, the OACK if it waits for its answer, and
\* else its window.
LEMMA TaskSends ==
  ASSUME GetInv, NEW t \in DOMAIN tasks', t # Client, disk # None, Offer' = Offer, Params' = Params,
         disk' = disk, client' = client, DOMAIN tasks \subseteq DOMAIN tasks',
         NEW s, Sends(s, Source, Params.windowsize),
         t # client.peer => Acked(s) = 0,
         Requesting /\ ~Waiting(t)' => Offer = << >>,
         NEW d, NEW packet, d \in Datagrams(t, Client, {packet}),
         \/ packet = ErrorPacket("NotDefined")
         \/ Offer # << >> /\ packet = OackPacket(Offer)
         \/ ~Waiting(t)' /\ packet \in SendWindow(s)
  PROVE  Proper(d)'
<1>1. d.dst = Client /\ d.src = t /\ d.packet = packet
  BY DEF Datagrams
<1>2. Source' = Source
  BY DEF Source
<1>3. CASE packet \in SendWindow(s) /\ ~Waiting(t)'
  <2>1. Source \in Seq(Stretch) /\ Params.windowsize \in Nat
    BY ParamsFacts DEF GetInv
  <2>2. PICK n \in 1 .. Len(Source) : /\ packet = DataPacket(Number(n), Source[n])
                                      /\ n <= Acked(s) + Params.windowsize
    BY <1>3, <2>1, WindowPackets
  <2>3. Requesting => n <= Params.windowsize /\ Offer = << >>
    <3>1. SUFFICES ASSUME Requesting
                   PROVE  n <= Params.windowsize /\ Offer = << >>
      OBVIOUS
    <3>2. Offer = << >>
      BY <1>3, <3>1
    <3>3. Acked(s) = 0
      BY <3>1 DEF GetInv, ClientInv
    <3> QED
      BY <2>1, <2>2, <3>2, <3>3
  <2>4. FromTask(t, packet)'
    BY <1>2, <1>3, <2>2, <2>3 DEF FromTask, Requesting
  <2> QED
    BY <1>1, <2>4 DEF Proper
<1>4. CASE packet = ErrorPacket("NotDefined") \/ (Offer # << >> /\ packet = OackPacket(Offer))
  BY <1>1, <1>4 DEF Proper, FromTask
<1> QED
  BY <1>3, <1>4

\* A step of a task keeps the invariant if its end goes on sending the same blocks,
\* it does not wait again, and it sends what it may.
LEMMA TaskStep ==
  ASSUME GetInv, UNCHANGED <<config, client, disk>>, faults' \in 0 .. MaxFaults,
         NEW t \in DOMAIN tasks, Active(t),
         NEW s, Sends(s, Source, Params.windowsize), s.attempt <= config.retries,
         NEW oack \in {None, tasks[t].oack},
         NEW task \in Tasks(Offer), task.end = s, task.blksize = tasks[t].blksize, task.oack = oack,
         tasks' = [tasks EXCEPT ![t] = task],
         t # client.peer => Acked(s) = 0,
         Requesting => oack = tasks[t].oack,
         \A d \in net' : d \in net \/ \E packet :
           /\ d \in Datagrams(t, Client, {packet})
           /\ \/ packet = ErrorPacket("NotDefined")
              \/ oack # None /\ packet = oack
              \/ oack = None /\ packet \in SendWindow(s)
  PROVE  GetInv'
<1>1. Params' = Params /\ Offer' = Offer /\ Source' = Source
  BY SameTerms
<1>2. /\ tasks[t] \in Tasks(Offer) /\ TaskInv(t) /\ disk # None
      /\ t # Client /\ StateInv
      /\ tasks[t].end.status = "sending"
  <2>1. tasks[t] \in Tasks(Offer) /\ TaskInv(t) /\ t # Client /\ StateInv
    BY TaskNumbers DEF GetInv
  <2>2. tasks[t].end.status = "sending"
    BY <2>1 DEF Active, Tasks, Senders
  <2> QED
    BY <2>1, <2>2 DEF TaskInv
<1>4. /\ tasks' \in Seq(Tasks(Offer)) /\ Len(tasks') = Len(tasks) /\ DOMAIN tasks' = DOMAIN tasks
      /\ tasks'[t] = task
      /\ \A u \in DOMAIN tasks : u # t => tasks'[u] = tasks[u]
  <2>1. tasks \in Seq(Tasks(Offer)) /\ t \in 1 .. Len(tasks)
    BY <1>2, TaskNumbers DEF StateInv
  <2>2. /\ [tasks EXCEPT ![t] = task] \in Seq(Tasks(Offer))
        /\ Len([tasks EXCEPT ![t] = task]) = Len(tasks)
        /\ \A u \in 1 .. Len(tasks) :
             [tasks EXCEPT ![t] = task][u] = IF u = t THEN task ELSE tasks[u]
    BY <2>1, ExceptSeq
  <2>4. DOMAIN tasks = 1 .. Len(tasks) /\ DOMAIN tasks' = 1 .. Len(tasks')
    BY <2>1, <2>2, LenProperties
  <2> QED
    BY <2>1, <2>2, <2>4
<1>5. /\ \A u \in DOMAIN tasks : Waiting(u)' => Waiting(u)
      /\ Waiting(t)' <=> oack # None
      /\ Requesting => (Waiting(t)' <=> Waiting(t))
  BY <1>4 DEF Waiting
<1>6. StateInv'
  BY <1>1, <1>2, <1>4 DEF GetInv, StateInv
<1>7. CounterInv'
  <2>1. ASSUME NEW u \in DOMAIN tasks'
        PROVE  tasks'[u].end.attempt <= config'.retries
    BY <1>4 DEF GetInv, CounterInv
  <2> QED
    BY <1>4, <2>1 DEF GetInv, CounterInv
<1>8. ClientInv'
  BY <1>1, <1>4, <1>5 DEF GetInv, ClientInv, Requesting, Received
<1>9. ASSUME NEW u \in DOMAIN tasks'
      PROVE  TaskInv(u)'
  <2>1. CASE u = t
    <3>1. Sends(tasks'[t].end, Source', Params'.windowsize) /\ tasks'[t].blksize = Params'.blksize
      BY <1>1, <1>2, <1>4 DEF TaskInv
    <3>2. t # client'.peer => Acked(tasks'[t].end) = 0
      BY <1>4
    <3>3. Requesting' /\ ~Waiting(t)' => Offer' = << >>
      BY <1>1, <1>2, <1>5 DEF TaskInv, Requesting
    <3>4. Waiting(t)' => Offer' # << >>
      BY <1>1, <1>2, <1>5 DEF TaskInv
    <3> QED
      BY <1>2, <2>1, <3>1, <3>2, <3>3, <3>4 DEF TaskInv
  <2>2. CASE u # t
    <3>1. TaskInv(u) /\ tasks'[u] = tasks[u]
      BY <1>4, <2>2 DEF GetInv
    <3> QED
      BY <1>1, <3>1 DEF TaskInv, Active, Waiting, Requesting
  <2> QED
    BY <2>1, <2>2
<1>10. ASSUME NEW d \in net'
       PROVE  Proper(d)'
  <2>1. CASE d \in net
    <3>1. Received \in Nat /\ Received' = Received /\ Requesting' = Requesting
      BY FileLength, LenProperties DEF GetInv, StateInv, Clients, Receivers, Received, Requesting
    <3> QED
      BY <1>4, <1>5, <2>1, <3>1, ProperStays
  <2>2. CASE d \notin net
    <3>1. PICK packet :
            /\ d \in Datagrams(t, Client, {packet})
            /\ \/ packet = ErrorPacket("NotDefined")
               \/ oack # None /\ packet = oack
               \/ oack = None /\ packet \in SendWindow(s)
      BY <2>2
    <3>2. oack # None => oack = OackPacket(Offer)
      BY <1>2 DEF Tasks
    <3>3. oack # None => Offer # << >>
      BY <1>2 DEF TaskInv, Waiting
    <3>4. Requesting /\ ~Waiting(t)' => Offer = << >>
      BY <1>2, <1>5 DEF TaskInv
    <3> QED
      BY <1>1, <1>2, <1>4, <1>5, <3>1, <3>2, <3>3, <3>4, TaskSends
  <2> QED
    BY <2>1, <2>2
<1> QED
  BY <1>6, <1>7, <1>8, <1>9, <1>10 DEF GetInv

\* A step of the listener keeps the invariant: it adds a task that has sent its
\* first datagrams.
LEMMA ListenerStep ==
  ASSUME GetInv, UNCHANGED <<config, client, disk>>, faults' \in 0 .. MaxFaults,
         NEW tid, tid = NewTid,
         Len(tasks) < MaxTasks,
         NEW task \in Tasks(Offer), tasks' = Append(tasks, task),
         task.end.attempt = 0, Acked(task.end) = 0,
         disk = None => task.end.status = "failed" /\ task.oack = None,
         disk # None => /\ Sends(task.end, Source, Params.windowsize)
                        /\ task.blksize = Params.blksize
                        /\ task.oack = None <=> Offer = << >>,
         \A d \in net' : d \in net \/ \E packet :
           /\ d \in Datagrams(tid, Client, {packet})
           /\ \/ packet = ErrorPacket("FileNotFound")
              \/ /\ disk # None
                 /\ \/ task.oack # None /\ packet = task.oack
                    \/ task.oack = None /\ packet \in SendWindow(task.end)
  PROVE  GetInv'
<1>1. Params' = Params /\ Offer' = Offer /\ Source' = Source
  BY SameTerms
<1>2. /\ StateInv /\ tasks \in Seq(Tasks(Offer))
      /\ Len(tasks) \in Nat /\ DOMAIN tasks = 1 .. Len(tasks)
      /\ tid = Len(tasks) + 1
  BY LenProperties DEF GetInv, StateInv, NewTid
<1>3. /\ tasks' \in Seq(Tasks(Offer)) /\ Len(tasks') = Len(tasks) + 1
      /\ DOMAIN tasks' = 1 .. Len(tasks) + 1
      /\ tasks'[tid] = task
      /\ \A t \in DOMAIN tasks : tasks'[t] = tasks[t]
  <2>1. /\ Append(tasks, task) \in Seq(Tasks(Offer))
        /\ Len(Append(tasks, task)) = Len(tasks) + 1
        /\ \A i \in 1 .. Len(tasks) : Append(tasks, task)[i] = tasks[i]
        /\ Append(tasks, task)[Len(tasks) + 1] = task
    BY <1>2, AppendProperties
  <2>2. DOMAIN Append(tasks, task) = 1 .. Len(Append(tasks, task))
    BY <2>1, LenProperties
  <2> QED
    BY <1>2, <2>1, <2>2
<1>4. /\ DOMAIN tasks \subseteq DOMAIN tasks' /\ tid \in DOMAIN tasks'
      /\ \A t \in DOMAIN tasks' : t \in DOMAIN tasks \/ t = tid
      /\ tid # Client /\ tid \notin DOMAIN tasks
  BY <1>2, <1>3 DEF Client
<1>5. /\ \A t \in DOMAIN tasks : Waiting(t)' <=> Waiting(t)
      /\ Waiting(tid)' <=> task.oack # None
  BY <1>2, <1>3 DEF Waiting
<1>6. StateInv'
  BY <1>1, <1>3 DEF GetInv, StateInv
<1>7. CounterInv'
  <2>1. config.retries \in Nat /\ config' = config
    BY SessionAssumption DEF GetInv, StateInv
  <2>2. ASSUME NEW t \in DOMAIN tasks'
        PROVE  tasks'[t].end.attempt <= config'.retries
    BY <1>3, <1>4, <2>1 DEF GetInv, CounterInv
  <2>3. Len(tasks') <= MaxTasks
    BY <1>2, <1>3, SessionAssumption
  <2> QED
    BY <2>2, <2>3 DEF GetInv, CounterInv
<1>8. ClientInv'
  BY <1>1, <1>4, <1>5 DEF GetInv, ClientInv, Requesting, Received
<1>9. ASSUME NEW t \in DOMAIN tasks'
      PROVE  TaskInv(t)'
  <2>1. CASE t \in DOMAIN tasks
    <3>1. TaskInv(t) /\ tasks'[t] = tasks[t]
      BY <1>3, <2>1 DEF GetInv
    <3> QED
      BY <1>1, <3>1 DEF TaskInv, Active, Waiting, Requesting
  <2>2. CASE t = tid
    <3>1. tasks'[t] = task
      BY <1>3, <2>2
    <3>2. disk' = None => tasks'[t].end.status = "failed"
      BY <3>1
    <3>3. disk' # None => /\ Sends(tasks'[t].end, Source', Params'.windowsize)
                          /\ tasks'[t].blksize = Params'.blksize
      BY <1>1, <3>1
    <3>4. Waiting(t)' => Offer' # << >>
      BY <1>1, <3>1 DEF Waiting
    <3>5. Active(t)' /\ ~Waiting(t)' => Offer' = << >>
      BY <1>1, <3>1 DEF Waiting, Active
    <3> QED
      BY <3>1, <3>2, <3>3, <3>4, <3>5 DEF TaskInv
  <2> QED
    BY <1>4, <2>1, <2>2
<1>10. ASSUME NEW d \in net'
       PROVE  Proper(d)'
  <2>1. CASE d \in net
    <3>1. Received \in Nat /\ Received' = Received /\ Requesting' = Requesting
      BY FileLength, LenProperties DEF GetInv, StateInv, Clients, Receivers, Received, Requesting
    <3> QED
      BY <1>4, <1>5, <2>1, <3>1, ProperStays
  <2>2. CASE d \notin net
    <3>1. PICK packet :
            /\ d \in Datagrams(tid, Client, {packet})
            /\ \/ packet = ErrorPacket("FileNotFound")
               \/ /\ disk # None
                  /\ \/ task.oack # None /\ packet = task.oack
                     \/ task.oack = None /\ packet \in SendWindow(task.end)
      BY <2>2
    <3>2. CASE packet = ErrorPacket("FileNotFound")
      <4>1. d.dst = Client /\ d.src = tid /\ d.packet = packet
        BY <3>1 DEF Datagrams
      <4>2. d.src \in DOMAIN tasks'
        BY <1>4, <4>1
      <4> QED
        BY <3>2, <4>1, <4>2 DEF Proper, FromTask
    <3>3. CASE /\ disk # None
               /\ \/ task.oack # None /\ packet = task.oack
                  \/ task.oack = None /\ packet \in SendWindow(task.end)
      <4>1. task.oack # None => task.oack = OackPacket(Offer) /\ Offer # << >>
        BY <3>3 DEF Tasks
      <4>2. \/ Offer # << >> /\ packet = OackPacket(Offer)
            \/ ~Waiting(tid)' /\ packet \in SendWindow(task.end)
        BY <1>5, <3>3, <4>1
      <4>3. Requesting /\ ~Waiting(tid)' => Offer = << >>
        BY <1>5, <3>3
      <4>4. disk' = disk /\ client' = client /\ d \in Datagrams(tid, Client, {packet})
        BY <3>1
      <4>5. Sends(task.end, Source, Params.windowsize) /\ Acked(task.end) = 0
        BY <3>3
      <4>6. PICK s : s = task.end
        OBVIOUS
      <4>7. /\ Sends(s, Source, Params.windowsize) /\ Acked(s) = 0
            /\ \/ packet = ErrorPacket("NotDefined")
               \/ Offer # << >> /\ packet = OackPacket(Offer)
               \/ ~Waiting(tid)' /\ packet \in SendWindow(s)
        BY <4>2, <4>5, <4>6
      <4> QED
        BY ONLY GetInv, <1>1, <1>4, <3>3, <4>3, <4>4, <4>7, TaskSends
    <3> QED
      BY <3>1, <3>2, <3>3
  <2> QED
    BY <2>1, <2>2
<1> QED
  BY <1>6, <1>7, <1>8, <1>9, <1>10 DEF GetInv

-----------------------------------------------------------------------------
(* Who sends what.                                                         *)

\* The request is that of the client's options.
LEMMA AskIsProper ==
  ASSUME client.request \in Asked, NEW n, NEW d \in Ask(client.request, n)
  PROVE  d.dst = Listener /\ d.packet.type = "RRQ" /\ d.packet.options = client.request.options
<1>1. PICK o : client.request = [type |-> "RRQ", options |-> ToPairs(o), copy |-> 0]
  BY DEF Asked, RequestPacket
<1>2. d.dst = Listener /\ d.packet = [client.request EXCEPT !.copy = n]
  BY DEF Ask, Datagrams
<1> QED
  BY <1>1, <1>2

\* What is addressed to the client comes from a task, and what is addressed to a task
\* comes from a client that has chosen a peer.
LEMMA OnTheirWay ==
  ASSUME GetInv, NEW d \in net
  PROVE  /\ d.dst = Client => d.src \in DOMAIN tasks /\ FromTask(d.src, d.packet)
         /\ d.dst \in DOMAIN tasks => ToTask(d.dst, d.packet)
         /\ d.dst = Listener => d.packet.options = client.request.options
<1>1. Proper(d)
  BY DEF GetInv
<1>2. Client \notin DOMAIN tasks /\ Listener \notin DOMAIN tasks /\ Client # Listener
  BY TaskNumbers DEF GetInv
<1> QED
  BY <1>1, <1>2 DEF Proper

\* An ERROR, the OACK and DATA of a task are told apart by their type.
LEMMA FromTaskTypes ==
  ASSUME NEW t, NEW packet, FromTask(t, packet)
  PROVE  /\ packet.type = "ERROR" => packet.code \in {"FileNotFound", "NotDefined"}
         /\ packet.type = "OACK" => disk # None /\ packet = OackPacket(Offer)
         /\ packet.type = "DATA" =>
              /\ disk # None /\ ~Waiting(t)
              /\ \E n \in 1 .. Len(Source) :
                   /\ packet.block = Number(n) /\ packet.data = Source[n]
                   /\ Requesting => n <= Params.windowsize /\ Offer = << >>
<1>1. CASE packet \in {ErrorPacket("FileNotFound"), ErrorPacket("NotDefined")}
  BY <1>1 DEF ErrorPacket
<1>2. CASE disk # None /\ Offer # << >> /\ packet = OackPacket(Offer)
  BY <1>2 DEF OackPacket
<1>3. CASE /\ disk # None /\ ~Waiting(t)
           /\ \E n \in 1 .. Len(Source) :
                /\ packet = DataPacket(Number(n), Source[n])
                /\ Requesting => n <= Params.windowsize /\ Offer = << >>
  <2>1. PICK n \in 1 .. Len(Source) :
          /\ packet = DataPacket(Number(n), Source[n])
          /\ Requesting => n <= Params.windowsize /\ Offer = << >>
    BY <1>3
  <2>2. packet.type = "DATA" /\ packet.block = Number(n) /\ packet.data = Source[n]
    BY <2>1 DEF DataPacket
  <2> QED
    BY <1>3, <2>1, <2>2
<1> QED
  BY <1>1, <1>2, <1>3 DEF FromTask

-----------------------------------------------------------------------------
(* The steps of the client.                                                *)

\* A client that fails keeps the peer and what it has received.
LEMMA ClientFailsStep ==
  ASSUME GetInv, UNCHANGED <<config, tasks, disk>>, faults' \in 0 .. MaxFaults,
         net' \subseteq net,
         NEW error \in {"timeout", "FileNotFound", "NotDefined", "UnexpectedPacket"},
         ClientFailsWith(error)
  PROVE  GetInv'
<1>1. client \in Clients
  BY DEF GetInv, StateInv
<1>2. /\ client' \in Clients /\ client'.phase = "failed"
      /\ client'.request = client.request /\ client'.opts = client.opts
      /\ client'.attempt = client.attempt /\ client'.end = client.end
      /\ client'.peer = client.peer
  BY <1>1 DEF ClientFailsWith, Clients
<1>3. Received' = Received /\ Received \in Nat
  BY <1>1, <1>2, LenProperties DEF Received, Clients, Receivers
<1>4. ~Requesting'
  BY <1>2 DEF Requesting
<1>5. ClientInv'
  BY <1>2, <1>3, <1>4 DEF GetInv, ClientInv, Waiting
<1> QED
  BY <1>2, <1>3, <1>4, <1>5, ClientStep DEF GetInv, CounterInv

\* A client that has an answer to its request begins to receive from the task that
\* has sent it.
LEMMA ClientStartsStep ==
  ASSUME GetInv, UNCHANGED <<config, tasks, disk>>, faults' \in 0 .. MaxFaults,
         Requesting, disk # None, NEW src \in DOMAIN tasks,
         NEW r, Receives(r, Params.windowsize, Params.blksize), r.attempt = 0,
         Waiting(src) => Len(r.file) = 0,
         NEW acks, \A a \in acks : \E n \in 0 .. Len(r.file) : a = AckPacket(Number(n)),
         NEW rest \in SUBSET net,
         StartsReceiving(src, Params, r, acks, rest)
  PROVE  GetInv'
<1>1. client \in Clients /\ src # Client /\ src \in Nat /\ r \in Receivers
  BY TaskNumbers DEF GetInv, StateInv, Receives
<1>2. Params.blksize \in Nat
  BY ParamsFacts DEF GetInv
<1>3. /\ client' \in Clients /\ client'.phase \in {"data", "finishing"}
      /\ client'.request = client.request /\ client'.opts = client.opts
      /\ client'.attempt = client.attempt /\ client'.end = r
      /\ client'.peer = src /\ client'.blksize = Params.blksize
  BY <1>1, <1>2 DEF StartsReceiving, PhaseOf, Clients
<1>4. /\ Received = 0 /\ Received' = Len(r.file) /\ Received' \in Nat /\ ~Requesting'
      /\ client.opts.retries \in Nat
  BY <1>1, <1>3, LenProperties, SessionAssumption
     DEF GetInv, ClientInv, Received, Requesting, Receivers, Clients
<1>5. Params' = Params
  BY <1>3, SameTerms
<1>6. ClientInv'
  BY <1>1, <1>3, <1>4, <1>5 DEF ClientInv, Waiting
<1>7. ASSUME NEW d \in net'
      PROVE  d \in net \/ Proper(d)'
  <2>1. CASE d \in rest
    BY <2>1
  <2>2. CASE d \in Datagrams(Client, src, acks)
    <3>1. d.dst = src /\ d.packet \in acks
      BY <2>2 DEF Datagrams
    <3>2. ToTask(d.dst, d.packet)'
      BY <1>3, <1>4, <3>1 DEF ToTask
    <3> QED
      BY <3>1, <3>2 DEF Proper
  <2> QED
    BY <2>1, <2>2 DEF StartsReceiving
<1> QED
  BY <1>3, <1>4, <1>6, <1>7, ClientStep DEF GetInv, CounterInv

\* The OACK names the parameters of the task that has sent it.
LEMMA ClientMergesOackStep ==
  ASSUME GetInv, UNCHANGED <<config, tasks, disk>>, faults' \in 0 .. MaxFaults,
         NEW d \in net, d.dst = Client, NEW rest \in SUBSET net,
         ClientMergesOack(d, rest)
  PROVE  GetInv'
<1>1. d.src \in DOMAIN tasks /\ disk # None /\ d.packet = OackPacket(Offer) /\ Requesting
  BY OnTheirWay, FromTaskTypes DEF ClientMergesOack
<1>2. MergeOack(Defaults, FromPairs(d.packet.options)) = Params
  BY <1>1, ParamsFacts DEF GetInv, OackPacket
<1> DEFINE r == NewReceiver(Params.windowsize, Params.blksize)
<1>3. Receives(r, Params.windowsize, Params.blksize) /\ r.attempt = 0 /\ Len(r.file) = 0
  BY ParamsFacts, NewReceiverReceives DEF GetInv
<1>4. \A a \in {AckPacket(0)} : \E n \in 0 .. Len(r.file) : a = AckPacket(Number(n))
  BY <1>3, ModulusAssumption, SmallResidue DEF Number, BlockNumber
<1>5. StartsReceiving(d.src, Params, r, {AckPacket(0)}, rest)
  BY <1>2 DEF ClientMergesOack
<1> HIDE DEF r
<1> QED
  BY <1>1, <1>3, <1>4, <1>5, ClientStartsStep

\* A first block comes from a task that has granted nothing.
LEMMA ClientTakesFirstStep ==
  ASSUME GetInv, UNCHANGED <<config, tasks, disk>>, faults' \in 0 .. MaxFaults,
         NEW d \in net, d.dst = Client, NEW rest \in SUBSET net,
         ClientTakesFirst(d, rest)
  PROVE  GetInv'
<1>1. d.src \in DOMAIN tasks /\ FromTask(d.src, d.packet) /\ Requesting
  BY OnTheirWay DEF ClientTakesFirst
<1>2. /\ disk # None /\ ~Waiting(d.src) /\ Offer = << >>
      /\ \E n \in 1 .. Len(Source) : d.packet.data = Source[n]
  BY <1>1, FromTaskTypes DEF ClientTakesFirst
<1>3. Params = Defaults /\ Params.windowsize \in Nat /\ Params.blksize \in Nat
  BY <1>2, ParamsFacts DEF GetInv
<1>4. d.packet.data \in Stretch
  BY <1>2, ParamsFacts, ElementOfSeq DEF GetInv
<1> DEFINE r == NewReceiver(Defaults.windowsize, Defaults.blksize)
           s == AcceptBlock(r, 1, d.packet.data)
           acks == IF AnswersAtOnce(r, d.packet.data) THEN {AckPacket(1)} ELSE {}
<1>5. Receives(r, Params.windowsize, Params.blksize) /\ Len(r.file) = 0 /\ Expects(r, 1)
  BY <1>3, NewReceiverReceives DEF NewReceiver, Expects
<1>6. CASE d.packet.block = 1
  <2>1. StartsReceiving(d.src, Params, s, acks, rest)
    BY <1>3, <1>6 DEF ClientTakesFirst
  <2> HIDE DEF r
  <2>2. Receives(s, Params.windowsize, Params.blksize) /\ Len(s.file) = 1 /\ s.attempt = 0
    <3>1. PICK t, b, w, data : /\ t = AcceptBlock(r, 1, data) /\ data = d.packet.data
                               /\ b = Params.blksize /\ w = Params.windowsize
      OBVIOUS
    <3>2. data \in Stretch /\ Receives(r, w, b) /\ Expects(r, 1)
      BY <1>4, <1>5, <3>1
    <3>3. Receives(t, w, b) /\ Len(t.file) = Len(r.file) + 1 /\ t.attempt = 0
      BY ONLY <3>1, <3>2, AcceptBlockReceives
    <3>4. Receives(t, Params.windowsize, Params.blksize) /\ Len(t.file) = Len(r.file) + 1
          /\ t.attempt = 0
      BY <3>1, <3>3
    <3> QED
      BY <1>5, <3>1, <3>4
  <2> HIDE DEF s
  <2>3. ASSUME NEW a \in acks
        PROVE  \E n \in 0 .. Len(s.file) : a = AckPacket(Number(n))
    BY <2>2, ModulusAssumption, SmallResidue DEF Number, BlockNumber
  <2> HIDE DEF acks
  <2> QED
    BY <1>1, <1>2, <2>1, <2>2, <2>3, ClientStartsStep
<1>7. CASE d.packet.block # 1
  BY <1>7, ClientFailsStep DEF ClientTakesFirst
<1> QED
  BY <1>6, <1>7

\* A client that goes on receiving acknowledges what it has.
LEMMA ReceivingStep ==
  ASSUME GetInv, UNCHANGED <<config, tasks, disk>>, faults' \in 0 .. MaxFaults,
         Transferring, NEW r, Receives(r, Params.windowsize, Params.blksize),
         r.attempt <= client.opts.retries,
         Received <= Len(r.file), Waiting(client.peer) => Len(r.file) = 0,
         NEW phase \in {"data", "finishing"},
         client' = [client EXCEPT !.end = r, !.phase = phase],
         NEW n \in 0 .. Len(r.file),
         net' \subseteq net \cup Datagrams(Client, client.peer, {AckPacket(Number(n))})
  PROVE  GetInv'
<1>1. client \in Clients /\ r \in Receivers /\ ClientInv
  BY DEF GetInv, StateInv, Receives
<1>2. /\ disk # None /\ client.peer # Client /\ client.blksize = Params.blksize
      /\ client.peer \in DOMAIN tasks /\ ~Requesting
  BY <1>1 DEF ClientInv, Transferring, Requesting
<1>3. /\ client' \in Clients /\ client'.phase = phase
      /\ client'.request = client.request /\ client'.opts = client.opts
      /\ client'.attempt = client.attempt /\ client'.end = r
      /\ client'.peer = client.peer /\ client'.blksize = client.blksize
  BY <1>1 DEF Clients
<1>4. Received' = Len(r.file) /\ Received' \in Nat /\ ~Requesting'
  BY <1>1, <1>3, LenProperties DEF Received, Requesting, Receivers
<1>5. Params' = Params
  BY <1>3, SameTerms
<1>6. ClientInv'
  BY <1>1, <1>2, <1>3, <1>4, <1>5 DEF ClientInv, Waiting
<1>7. ASSUME NEW d \in net', d \notin net
      PROVE  Proper(d)'
  <2>1. d \in Datagrams(Client, client.peer, {AckPacket(Number(n))})
    BY <1>7
  <2>2. d.dst = client.peer /\ d.packet = AckPacket(Number(n))
    BY <2>1 DEF Datagrams
  <2>3. ToTask(d.dst, d.packet)'
    BY <1>3, <1>4, <2>2 DEF ToTask
  <2> QED
    BY <1>2, <2>2, <2>3 DEF Proper
<1> QED
  BY <1>2, <1>3, <1>4, <1>6, <1>7, ClientStep DEF GetInv, CounterInv

\* While it receives, the client has a receiver with the right parameters.
LEMMA WhileReceiving ==
  ASSUME GetInv, Transferring
  PROVE  /\ client \in Clients /\ ClientInv /\ CounterInv /\ client.opts.retries \in Nat
         /\ Receives(client.end, Params.windowsize, Params.blksize)
         /\ client.end.last_acked = Number(Received) /\ Received \in Nat
         /\ client.phase = "data" /\ client.phase # "request" /\ ~Requesting
<1>1. client \in Clients /\ ClientInv /\ CounterInv /\ client.phase = "data"
  BY DEF GetInv, StateInv, Transferring
<1>2. Receives(client.end, Params.windowsize, Params.blksize)
  BY <1>1 DEF ClientInv
<1>3. client.end.last_acked = Number(Received) /\ Received \in Nat
  BY <1>2, FileLength DEF Receives, Received
<1>4. client.opts.retries \in Nat
  BY <1>1, SessionAssumption DEF Clients
<1> QED
  BY <1>1, <1>2, <1>3, <1>4 DEF Requesting

\* A block that is expected is written and, it may be, acknowledged.
LEMMA ClientAcceptsStep ==
  ASSUME GetInv, UNCHANGED <<config, tasks, disk>>, faults' \in 0 .. MaxFaults,
         NEW d \in net, d.dst = Client, NEW rest \in SUBSET net,
         ClientAccepts(d, rest)
  PROVE  GetInv'
<1> DEFINE block == d.packet.block
           data == d.packet.data
           r == AcceptBlock(client.end, block, data)
           phase == PhaseOf(r)
<1>1. Transferring /\ d.src = client.peer /\ Expects(client.end, block)
  BY DEF ClientAccepts, FromPeer
<1>2. ~Waiting(d.src) /\ \E n \in 1 .. Len(Source) : data = Source[n]
  BY OnTheirWay, FromTaskTypes DEF ClientAccepts
<1>3. data \in Stretch
  BY <1>2, ParamsFacts, ElementOfSeq DEF GetInv
<1>4. /\ client' = [client EXCEPT !.end = r, !.phase = phase]
      /\ net' \subseteq rest \cup Datagrams(Client, client.peer, {AckPacket(block)})
  BY <1>1 DEF ClientAccepts, Datagrams
<1>5. phase \in {"data", "finishing"}
  BY DEF PhaseOf
<1> HIDE DEF block, data, phase
<1>6. /\ Receives(r, Params.windowsize, Params.blksize)
      /\ Len(r.file) = Received + 1 /\ r.attempt = 0
  <2>1. Receives(client.end, Params.windowsize, Params.blksize)
    BY <1>1, WhileReceiving
  <2>2. PICK t, s, b, w : /\ t = AcceptBlock(s, block, data) /\ s = client.end
                          /\ b = Params.blksize /\ w = Params.windowsize
    OBVIOUS
  <2>3. Receives(s, w, b) /\ Expects(s, block)
    BY <1>1, <2>1, <2>2
  <2>4. Receives(t, w, b) /\ Len(t.file) = Len(s.file) + 1 /\ t.attempt = 0
    BY ONLY <1>3, <2>2, <2>3, AcceptBlockReceives
  <2> QED
    BY <2>2, <2>4 DEF Received
<1>7. block = Number(Len(r.file))
  BY <1>1, <1>6, WhileReceiving DEF Expects, Receives, Received
<1> HIDE DEF r
<1>8. Received \in Nat /\ client.opts.retries \in Nat
  BY <1>1, WhileReceiving
<1>9. /\ Len(r.file) \in 0 .. Len(r.file)
      /\ net' \subseteq net \cup Datagrams(Client, client.peer, {AckPacket(Number(Len(r.file)))})
  <2>1. Len(r.file) \in 0 .. Len(r.file)
    BY <1>6, <1>8
  <2>2. rest \subseteq net /\ AckPacket(block) = AckPacket(Number(Len(r.file)))
    BY <1>7
  <2> QED
    BY <1>4, <2>1, <2>2
<1>10. r.attempt <= client.opts.retries /\ Received <= Len(r.file)
  BY <1>6, <1>8
<1> QED
  BY <1>1, <1>2, <1>4, <1>5, <1>6, <1>9, <1>10, ReceivingStep

\* Any other block has the last ACK repeated.
LEMMA ClientRejectsStep ==
  ASSUME GetInv, UNCHANGED <<config, tasks, disk>>, faults' \in 0 .. MaxFaults,
         NEW d \in net, NEW rest \in SUBSET net,
         ClientRejects(d, rest)
  PROVE  GetInv'
<1> DEFINE r == RejectBlock(client.end)
<1>1. /\ Transferring /\ client' = [client EXCEPT !.end = r]
      /\ net' = rest \cup Datagrams(Client, client.peer, {AckPacket(client.end.last_acked)})
  BY DEF ClientRejects, FromPeer
<1>2. /\ client \in Clients /\ client.opts.retries \in Nat
      /\ client.end.last_acked = Number(Received) /\ Received \in Nat
      /\ client.phase = "data" /\ ClientInv
      /\ Receives(client.end, Params.windowsize, Params.blksize)
  BY <1>1, WhileReceiving
<1>3. /\ Receives(r, Params.windowsize, Params.blksize) /\ r.file = client.end.file
      /\ r.attempt = 0
  BY <1>2, RejectBlockReceives
<1> HIDE DEF r
<1>4. client' = [client EXCEPT !.end = r, !.phase = "data"]
  BY <1>1, <1>2 DEF Clients
<1>5. Waiting(client.peer) => Len(r.file) = 0
  BY <1>2, <1>3 DEF ClientInv, Received
<1>6. Len(r.file) = Received
  BY <1>3 DEF Received
<1>7. /\ Received \in 0 .. Len(r.file)
      /\ net' \subseteq net \cup Datagrams(Client, client.peer, {AckPacket(Number(Received))})
  BY <1>1, <1>2, <1>6
<1>8. /\ r.attempt <= client.opts.retries /\ Received <= Len(r.file)
      /\ "data" \in {"data", "finishing"}
  BY <1>2, <1>3, <1>6
<1> QED
  BY <1>1, <1>3, <1>4, <1>5, <1>7, <1>8, ReceivingStep

\* After a timeout the last ACK is repeated as well.
LEMMA ClientReAcksStep ==
  ASSUME GetInv, UNCHANGED <<config, tasks, disk>>, faults' \in 0 .. MaxFaults,
         ClientReAcks
  PROVE  GetInv'
<1> DEFINE r == [client.end EXCEPT !.attempt = @ + 1]
<1>1. /\ Transferring /\ client' = [client EXCEPT !.end = r]
      /\ client.end.attempt < client.opts.retries
      /\ net' = net \cup Datagrams(Client, client.peer, {AckPacket(client.end.last_acked)})
  BY DEF ClientReAcks
<1>2. /\ client \in Clients /\ client.opts.retries \in Nat
      /\ client.end.last_acked = Number(Received) /\ Received \in Nat
      /\ client.phase = "data" /\ ClientInv /\ client.end \in Receivers
      /\ Receives(client.end, Params.windowsize, Params.blksize)
  BY <1>1, WhileReceiving DEF Receives
<1>3. /\ r \in Receivers /\ r.window = client.end.window /\ r.blksize = client.end.blksize
      /\ r.file = client.end.file /\ r.last_acked = client.end.last_acked
      /\ r.next_block = client.end.next_block /\ r.attempt = client.end.attempt + 1
  BY <1>2 DEF Receivers
<1> HIDE DEF r
<1>4. Receives(r, Params.windowsize, Params.blksize)
  BY <1>2, <1>3, SameFileReceives
<1>5. client' = [client EXCEPT !.end = r, !.phase = "data"]
  BY <1>1, <1>2 DEF Clients
<1>6. Len(r.file) = Received /\ (Waiting(client.peer) => Len(r.file) = 0)
  BY <1>2, <1>3 DEF ClientInv, Received
<1>7. /\ r.attempt <= client.opts.retries /\ Received <= Len(r.file)
      /\ "data" \in {"data", "finishing"}
  BY <1>1, <1>2, <1>3, <1>6 DEF Receivers
<1>8. /\ Received \in 0 .. Len(r.file)
      /\ net' \subseteq net \cup Datagrams(Client, client.peer, {AckPacket(Number(Received))})
  BY <1>1, <1>2, <1>6
<1> QED
  BY <1>1, <1>4, <1>5, <1>6, <1>7, <1>8, ReceivingStep

\* A client that stays as it is may turn a task away.
LEMMA ClientSameStep ==
  ASSUME GetInv, UNCHANGED <<config, client, tasks, disk>>, faults' \in 0 .. MaxFaults,
         \A d \in net' : d \in net \/ (~Requesting /\ \E t \in DOMAIN tasks :
           d \in Datagrams(Client, t, {ErrorPacket("UnknownTid")}))
  PROVE  GetInv'
<1>1. client \in Clients /\ ClientInv /\ CounterInv
  BY DEF GetInv, StateInv
<1>2. Params' = Params
  BY SameTerms
<1>3. ClientInv'
  BY <1>1, <1>2 DEF ClientInv, Requesting, Received, Waiting
<1>4. Received' = Received /\ Received \in Nat
  BY <1>1, LenProperties DEF Received, Clients, Receivers
<1>5. ASSUME NEW d \in net', d \notin net
      PROVE  Proper(d)'
  <2>1. PICK t \in DOMAIN tasks : d \in Datagrams(Client, t, {ErrorPacket("UnknownTid")})
    BY <1>5
  <2>2. d.dst = t /\ d.packet = ErrorPacket("UnknownTid") /\ ~Requesting
    BY <1>5, <2>1 DEF Datagrams
  <2> QED
    BY <2>2 DEF Proper, ToTask, Requesting
<1> QED
  BY <1>1, <1>3, <1>4, <1>5, ClientStep DEF CounterInv, Requesting

\* The request that is sent again is the same.
LEMMA ClientAsksAgainStep ==
  ASSUME GetInv, UNCHANGED <<config, tasks, disk>>, faults' \in 0 .. MaxFaults,
         ClientAsksAgain
  PROVE  GetInv'
<1>1. client \in Clients /\ ClientInv /\ CounterInv /\ Requesting
  BY DEF GetInv, StateInv, ClientAsksAgain
<1>2. client.opts.retries \in Nat
  BY <1>1, SessionAssumption DEF Clients
<1>3. /\ client' \in Clients /\ client'.phase = client.phase
      /\ client'.request = client.request /\ client'.opts = client.opts
      /\ client'.attempt <= client.opts.retries /\ client'.end = client.end
      /\ client'.peer = client.peer
  BY <1>1, <1>2 DEF Clients, ClientAsksAgain
<1>4. Received' = Received /\ Received \in Nat /\ Requesting'
  BY <1>1, <1>3, LenProperties DEF Received, Clients, Receivers, Requesting
<1>5. ClientInv'
  BY <1>1, <1>3, <1>4 DEF ClientInv, Requesting, Waiting
<1>6. ASSUME NEW d \in net', d \notin net
      PROVE  Proper(d)'
  <2>1. PICK n : d \in Ask(client.request, n)
    BY <1>6 DEF ClientAsksAgain
  <2>2. d.dst = Listener /\ d.packet.type = "RRQ" /\ d.packet.options = client.request.options
    BY <1>1, <2>1, AskIsProper DEF Clients
  <2> QED
    BY <1>3, <2>2 DEF Proper
<1> QED
  BY <1>1, <1>3, <1>4, <1>5, <1>6, ClientStep DEF CounterInv

\* A client that returns from writer.finish changes nothing but its phase.
LEMMA ClientReturnsFrame ==
  ASSUME GetInv, ClientReturns
  PROVE  /\ UNCHANGED <<config, tasks, disk, net, faults>>
         /\ client' \in Clients /\ client.phase = "finishing"
         /\ client'.request = client.request /\ client'.opts = client.opts
         /\ client'.attempt = client.attempt /\ client'.end = client.end
         /\ client'.peer = client.peer /\ client'.blksize = client.blksize
         /\ \/ client'.phase = "ok" /\ client'.error = client.error
            \/ client'.phase = "failed" /\ client'.error = "Io"
BY DEF ClientReturns, ClientFinishes, ClientFinishFails, ClientFailsWith, GetInv, StateInv, Clients

LEMMA ClientReturnsStep ==
  ASSUME GetInv, ClientReturns
  PROVE  GetInv'
<1>1. /\ UNCHANGED <<config, tasks, disk, net, faults>>
      /\ client' \in Clients /\ client.phase = "finishing"
      /\ client'.request = client.request /\ client'.opts = client.opts
      /\ client'.attempt = client.attempt /\ client'.end = client.end
      /\ client'.peer = client.peer /\ client'.blksize = client.blksize
      /\ client'.phase \in {"ok", "failed"}
  BY ClientReturnsFrame
<1>2. Received' = Received /\ Received \in Nat
  BY <1>1, LenProperties DEF Received, Clients, Receivers
<1>3. ~Requesting' /\ Params' = Params
  BY <1>1, SameTerms DEF Requesting
<1>4. ClientInv'
  BY <1>1, <1>2, <1>3 DEF GetInv, ClientInv, Waiting
<1> QED
  BY <1>1, <1>2, <1>3, <1>4, ClientStep DEF GetInv, CounterInv

\* Every reception of the client keeps the invariant.
LEMMA ClientReceivesStep ==
  ASSUME GetInv, ClientReceives
  PROVE  GetInv'
<1>1. PICK d \in net : \E rest \in {net, net \ {d}} :
        /\ Arrives(d, Client, rest)
        /\ \/ ClientMergesOack(d, rest) \/ ClientTakesFirst(d, rest)
           \/ ClientAccepts(d, rest) \/ ClientRejects(d, rest) \/ ClientIgnores(d, rest)
           \/ ClientHearsError(d, rest) \/ ClientTurnsAway(d, rest)
        /\ UNCHANGED <<config, tasks, disk>>
  BY DEF ClientReceives
<1>2. PICK rest \in {net, net \ {d}} :
        /\ Arrives(d, Client, rest)
        /\ \/ ClientMergesOack(d, rest) \/ ClientTakesFirst(d, rest)
           \/ ClientAccepts(d, rest) \/ ClientRejects(d, rest) \/ ClientIgnores(d, rest)
           \/ ClientHearsError(d, rest) \/ ClientTurnsAway(d, rest)
        /\ UNCHANGED <<config, tasks, disk>>
  BY <1>1
<1>3. d.dst = Client /\ faults' \in 0 .. MaxFaults /\ rest \in SUBSET net
  BY <1>2, FaultsBounded DEF GetInv, CounterInv
<1>4. d.src \in DOMAIN tasks /\ FromTask(d.src, d.packet)
  BY <1>3, OnTheirWay
<1>5. CASE ClientMergesOack(d, rest)
  BY <1>2, <1>3, <1>5, ClientMergesOackStep
<1>6. CASE ClientTakesFirst(d, rest)
  BY <1>2, <1>3, <1>6, ClientTakesFirstStep
<1>7. CASE ClientAccepts(d, rest)
  BY <1>2, <1>3, <1>7, ClientAcceptsStep
<1>8. CASE ClientRejects(d, rest)
  BY <1>2, <1>3, <1>8, ClientRejectsStep
<1>9. CASE ClientIgnores(d, rest)
  <2>1. UNCHANGED client /\ net' \subseteq net
    BY <1>3, <1>9 DEF ClientIgnores
  <2> QED
    BY <1>2, <1>3, <2>1, ClientSameStep
<1>10. CASE ClientHearsError(d, rest)
  <2>1. d.packet.code \in {"FileNotFound", "NotDefined"}
    BY <1>4, <1>10, FromTaskTypes DEF ClientHearsError
  <2>2. ClientFailsWith(d.packet.code) /\ net' \subseteq net
    BY <1>3, <1>10 DEF ClientHearsError
  <2> QED
    BY <1>2, <1>3, <2>1, <2>2, ClientFailsStep
<1>11. CASE ClientTurnsAway(d, rest)
  <2>1. /\ UNCHANGED client
        /\ net' = rest \cup Datagrams(Client, d.src, {ErrorPacket("UnknownTid")})
        /\ ~Requesting
    BY <1>11 DEF ClientTurnsAway, Transferring, Requesting
  <2> QED
    BY <1>2, <1>3, <1>4, <2>1, ClientSameStep
<1> QED
  BY <1>2, <1>5, <1>6, <1>7, <1>8, <1>9, <1>10, <1>11

\* So does the end of its patience.
LEMMA ClientTimeoutStep ==
  ASSUME GetInv, ClientTimeout
  PROVE  GetInv'
<1>1. UNCHANGED <<config, tasks, disk>> /\ faults' \in 0 .. MaxFaults
  BY FaultsBounded DEF ClientTimeout, GetInv, CounterInv
<1>2. CASE ClientAsksAgain
  BY <1>1, <1>2, ClientAsksAgainStep
<1>3. CASE ClientReAcks
  BY <1>1, <1>3, ClientReAcksStep
<1>4. CASE ClientGivesUp
  BY <1>1, <1>4, ClientFailsStep DEF ClientGivesUp
<1> QED
  BY <1>2, <1>3, <1>4 DEF ClientTimeout

-----------------------------------------------------------------------------
(* The steps of the server.                                                *)

\* A task that has been spawned for a file that exists answers the request.
LEMMA TaskOpensStep ==
  ASSUME GetInv, UNCHANGED <<config, client, disk>>, faults' \in 0 .. MaxFaults,
         Len(tasks) < MaxTasks,
         NEW d \in net, d.dst = Listener, NEW rest \in SUBSET net,
         TaskOpens(d, rest)
  PROVE  GetInv'
<1> DEFINE oack == IF Offer = << >> THEN None ELSE OackPacket(Offer)
           s == NewSender(Source, Params.windowsize)
           t == NextRound(s)
           task == [end |-> IF oack = None THEN t ELSE s, blksize |-> Params.blksize,
                    oack |-> oack]
           sent == IF oack = None THEN SendWindow(t) ELSE {oack}
<1>1. disk # None /\ Len(disk) = FileLen
  <2>1. disk # None /\ disk = [i \in 1 .. FileLen |-> i] /\ FileLen \in Nat
    BY SessionAssumption DEF TaskOpens, GetInv, StateInv, File
  <2> QED
    BY <2>1
<1>2. FromPairs(d.packet.options) = Requested
  BY OnTheirWay DEF Requested
<1>3. /\ Source \in Seq(Stretch) /\ Params.windowsize \in Nat \ {0} /\ Params.windowsize \in Nat
      /\ Params.blksize \in Nat
      /\ OackPacket(Offer) # None
  BY ParamsFacts, OackIsNotNone DEF GetInv
<1>4. Sends(s, Source, Params.windowsize) /\ Acked(s) = 0 /\ s.attempt = 0
  BY <1>3, NewSenderSends
<1>5. /\ tasks' = Append(tasks, task)
      /\ net' = rest \cup Datagrams(NewTid, Client, sent)
  BY <1>1, <1>2 DEF TaskOpens, NewTask, Params, Offer, Source
<1> HIDE DEF s
<1>6. Sends(t, Source, Params.windowsize) /\ Acked(t) = 0 /\ t.attempt = 0
  BY <1>3, <1>4, NextRoundSends
<1> HIDE DEF t
<1>7. /\ Sends(task.end, Source, Params.windowsize) /\ Acked(task.end) = 0
      /\ task.end.attempt = 0
  BY <1>4, <1>6
<1>8. task \in Tasks(Offer)
  BY <1>3, <1>7 DEF Tasks, Sends
<1>9. /\ task.oack = oack /\ task.blksize = Params.blksize
      /\ oack = None <=> Offer = << >>
      /\ oack = None => task.end = t
  BY <1>3
<1> HIDE DEF oack, task
<1>10. ASSUME NEW e \in net', e \notin net
       PROVE  \E packet :
                /\ e \in Datagrams(NewTid, Client, {packet})
                /\ \/ packet = ErrorPacket("FileNotFound")
                   \/ /\ disk # None
                      /\ \/ task.oack # None /\ packet = task.oack
                         \/ task.oack = None /\ packet \in SendWindow(task.end)
  <2>1. e.packet \in sent /\ e \in Datagrams(NewTid, Client, {e.packet})
    BY <1>5, <1>10, OneDatagram
  <2> QED
    BY <1>1, <1>9, <2>1
<1> QED
  BY <1>1, <1>5, <1>7, <1>8, <1>9, <1>10, ListenerStep

\* A task that finds no file ends with an ERROR.
LEMMA TaskFindsNoFileStep ==
  ASSUME GetInv, UNCHANGED <<config, client, disk>>, faults' \in 0 .. MaxFaults,
         Len(tasks) < MaxTasks,
         NEW d \in net, NEW rest \in SUBSET net,
         TaskFindsNoFile(d, rest)
  PROVE  GetInv'
<1> DEFINE source == Cut(Defaults.blksize)
           s == NewSender(source, Defaults.windowsize)
           f == [s EXCEPT !.status = "failed"]
           task == [end |-> f, blksize |-> Defaults.blksize, oack |-> None]
<1>1. Defaults.blksize \in Nat \ {0} /\ Defaults.windowsize \in Nat
  BY NegotiationAssumption DEF Defaults
<1>2. source \in Seq(Stretch)
  BY <1>1, CutFacts
<1>3. /\ disk = None /\ tasks' = Append(tasks, task)
      /\ net' = rest \cup Datagrams(NewTid, Client, {ErrorPacket("FileNotFound")})
  BY DEF TaskFindsNoFile, TaskRefuses, NewTask
<1> HIDE DEF source
<1>4. s \in Senders /\ Acked(s) = 0 /\ s.attempt = 0
  BY <1>1, <1>2, NewSenderSends DEF Sends
<1> HIDE DEF s
<1>5. f \in Senders /\ Acked(f) = 0 /\ f.attempt = 0 /\ f.status = "failed"
  BY <1>4 DEF Senders, Acked
<1> HIDE DEF f
<1>6. /\ task \in Tasks(Offer) /\ task.end = f /\ task.oack = None
  BY <1>1, <1>5 DEF Tasks
<1> HIDE DEF task
<1>7. ASSUME NEW e \in net', e \notin net
      PROVE  \E packet :
               /\ e \in Datagrams(NewTid, Client, {packet})
               /\ packet = ErrorPacket("FileNotFound")
  BY <1>3, <1>7
<1> QED
  BY <1>3, <1>5, <1>6, <1>7, ListenerStep

\* Every request that reaches the listener keeps the invariant.
LEMMA TaskStartsStep ==
  ASSUME GetInv, TaskStarts
  PROVE  GetInv'
<1>1. PICK d \in net : \E rest \in {net, net \ {d}} :
        /\ Arrives(d, Listener, rest)
        /\ TaskOpens(d, rest) \/ TaskFindsNoFile(d, rest)
        /\ UNCHANGED <<config, client, disk>>
  BY DEF TaskStarts
<1>2. PICK rest \in {net, net \ {d}} :
        /\ Arrives(d, Listener, rest)
        /\ TaskOpens(d, rest) \/ TaskFindsNoFile(d, rest)
        /\ UNCHANGED <<config, client, disk>>
  BY <1>1
<1>3. /\ d.dst = Listener /\ faults' \in 0 .. MaxFaults /\ rest \in SUBSET net
      /\ Listens(Listener)
  BY <1>2, FaultsBounded DEF GetInv, CounterInv
<1>4. Len(tasks) < MaxTasks
  BY <1>3 DEF Listens, Listener, Client
<1>5. CASE TaskOpens(d, rest)
  BY <1>2, <1>3, <1>4, <1>5, TaskOpensStep
<1>6. CASE TaskFindsNoFile(d, rest)
  BY <1>2, <1>3, <1>4, <1>6, TaskFindsNoFileStep
<1> QED
  BY <1>2, <1>5, <1>6

\* A task that has not returned has found the file, and sends its blocks.
LEMMA WhileSending ==
  ASSUME GetInv, NEW t \in DOMAIN tasks, Active(t)
  PROVE  /\ tasks[t] \in Tasks(Offer) /\ disk # None /\ t # Client
         /\ Sends(tasks[t].end, Source, Params.windowsize)
         /\ tasks[t].end \in Senders
         /\ t # client.peer => Acked(tasks[t].end) = 0
         /\ tasks[t].end.attempt \in Nat /\ tasks[t].end.attempt <= config.retries
         /\ config.retries \in Nat
<1>1. tasks[t] \in Tasks(Offer) /\ TaskInv(t) /\ t # Client
  BY TaskNumbers DEF GetInv
<1>2. tasks[t].end \in Senders
  BY <1>1 DEF Tasks
<1>3. tasks[t].end.status = "sending" /\ tasks[t].end.attempt \in Nat
  BY <1>2 DEF Active, Senders
<1>4. disk # None
  BY <1>1, <1>3 DEF TaskInv
<1>5. tasks[t].end.attempt <= config.retries /\ config.retries \in Nat
  BY SessionAssumption DEF GetInv, StateInv, CounterInv
<1> QED
  BY <1>1, <1>2, <1>3, <1>4, <1>5 DEF TaskInv

\* ACK(0) begins the data phase.
LEMMA TaskBeginsStep ==
  ASSUME GetInv, UNCHANGED <<config, client, disk>>, faults' \in 0 .. MaxFaults,
         NEW t \in DOMAIN tasks, Active(t),
         NEW d \in net, d.dst = t, NEW rest \in SUBSET net,
         TaskBegins(t, d, rest)
  PROVE  GetInv'
<1> DEFINE s == NextRound(tasks[t].end)
<1>1. /\ tasks[t] \in Tasks(Offer) /\ tasks[t].end.attempt <= config.retries
      /\ Sends(tasks[t].end, Source, Params.windowsize)
      /\ t # client.peer => Acked(tasks[t].end) = 0
      /\ config.retries \in Nat
  BY WhileSending
<1>2. Source \in Seq(Stretch) /\ Params.windowsize \in Nat \ {0}
  BY ParamsFacts DEF GetInv
<1>3. ~Requesting
  BY OnTheirWay DEF ToTask
<1> DEFINE task == [tasks[t] EXCEPT !.end = s, !.oack = None]
<1>4. /\ tasks' = [tasks EXCEPT ![t] = task]
      /\ net' \subseteq rest \cup Datagrams(t, Client, SendWindow(s))
  BY DEF TaskBegins, SendsWindow, Datagrams
<1> HIDE DEF s
<1>5. /\ Sends(s, Source, Params.windowsize) /\ s.attempt <= config.retries
      /\ Acked(s) = Acked(tasks[t].end)
  BY <1>1, <1>2, NextRoundSends DEF s
<1>6. /\ task \in Tasks(Offer) /\ task.end = s /\ task.blksize = tasks[t].blksize
      /\ task.oack = None
  BY <1>1, <1>5 DEF Tasks, Sends
<1> HIDE DEF task
<1>7. \A e \in net' : e \in net \/ \E packet :
        e \in Datagrams(t, Client, {packet}) /\ packet \in SendWindow(s)
  BY <1>4, OneDatagram
<1> QED
  BY <1>1, <1>3, <1>4, <1>5, <1>6, <1>7, TaskStep

\* A task that goes on sending keeps its blksize and does not wait again.
LEMMA SendingStep ==
  ASSUME GetInv, UNCHANGED <<config, client, disk>>, faults' \in 0 .. MaxFaults,
         NEW t \in DOMAIN tasks, Active(t),
         NEW s, Sends(s, Source, Params.windowsize), s.attempt <= config.retries,
         t # client.peer => Acked(s) = 0,
         tasks' = [tasks EXCEPT ![t] = [tasks[t] EXCEPT !.end = s]],
         \A e \in net' : e \in net \/ \E packet :
           /\ e \in Datagrams(t, Client, {packet})
           /\ \/ packet = ErrorPacket("NotDefined")
              \/ Waiting(t) /\ packet = tasks[t].oack
              \/ ~Waiting(t) /\ packet \in SendWindow(s)
  PROVE  GetInv'
<1> DEFINE task == [tasks[t] EXCEPT !.end = s]
<1>1. tasks[t] \in Tasks(Offer)
  BY WhileSending
<1>2. /\ task \in Tasks(Offer) /\ task.end = s /\ task.blksize = tasks[t].blksize
      /\ task.oack = tasks[t].oack
  BY <1>1 DEF Tasks, Sends
<1>3. tasks' = [tasks EXCEPT ![t] = task]
  OBVIOUS
<1> HIDE DEF task
<1> QED
  BY <1>2, <1>3, TaskStep DEF Waiting

\* An ACK that moves the window has the next one sent.
LEMMA TaskAdvancesStep ==
  ASSUME GetInv, UNCHANGED <<config, client, disk>>, faults' \in 0 .. MaxFaults,
         NEW t \in DOMAIN tasks, Active(t),
         NEW d \in net, d.dst = t, NEW rest \in SUBSET net,
         TaskAdvances(t, d, rest)
  PROVE  GetInv'
<1> DEFINE ack == d.packet.block
           c == ConsumeAck(tasks[t].end, ack)
           s == NextRound(c)
<1>1. /\ tasks[t].end.attempt <= config.retries /\ config.retries \in Nat
      /\ Sends(tasks[t].end, Source, Params.windowsize)
  BY WhileSending
<1>2. Source \in Seq(Stretch) /\ Params.windowsize \in Nat \ {0}
  BY ParamsFacts DEF GetInv
<1>3. t = client.peer /\ ~Waiting(t)
  BY OnTheirWay DEF ToTask, TaskAdvances, ErrorPacket
<1>4. /\ tasks' = [tasks EXCEPT ![t] = [tasks[t] EXCEPT !.end = s]]
      /\ net' \subseteq rest \cup Datagrams(t, Client, SendWindow(s))
  BY DEF TaskAdvances, SendsWindow, Datagrams
<1> HIDE DEF ack
<1>5. Sends(c, Source, Params.windowsize) /\ c.attempt <= config.retries
  BY <1>1, <1>2, ConsumeAckSends
<1> HIDE DEF c
<1>6. Sends(s, Source, Params.windowsize) /\ s.attempt <= config.retries
  BY <1>1, <1>2, <1>5, NextRoundSends
<1> HIDE DEF s
<1>7. \A e \in net' : e \in net \/ \E packet :
        e \in Datagrams(t, Client, {packet}) /\ ~Waiting(t) /\ packet \in SendWindow(s)
  BY <1>3, <1>4, OneDatagram
<1> QED
  BY <1>3, <1>4, <1>6, <1>7, SendingStep

\* Any other ACK has the window sent again.
LEMMA TaskStaleAckStep ==
  ASSUME GetInv, UNCHANGED <<config, client, disk>>, faults' \in 0 .. MaxFaults,
         NEW t \in DOMAIN tasks, Active(t),
         NEW d \in net, d.dst = t, NEW rest \in SUBSET net,
         TaskStaleAck(t, d, rest)
  PROVE  GetInv'
<1> DEFINE s == tasks[t].end
<1>1. /\ tasks[t] \in Tasks(Offer) /\ s.attempt <= config.retries
      /\ Sends(s, Source, Params.windowsize) /\ (t # client.peer => Acked(s) = 0)
  BY WhileSending
<1>2. ~Waiting(t) /\ net' \subseteq rest \cup Datagrams(t, Client, SendWindow(s))
  BY DEF TaskStaleAck, SendsWindow, Datagrams
<1>3. tasks' = [tasks EXCEPT ![t] = [tasks[t] EXCEPT !.end = s]]
  <2>1. tasks \in [1 .. Len(tasks) -> Tasks(Offer)] /\ UNCHANGED tasks
    BY LenProperties DEF GetInv, StateInv, TaskStaleAck
  <2>2. [tasks[t] EXCEPT !.end = s] = tasks[t]
    BY <1>1 DEF Tasks
  <2> QED
    BY <2>1, <2>2
<1> HIDE DEF s
<1>4. \A e \in net' : e \in net \/ \E packet :
        e \in Datagrams(t, Client, {packet}) /\ ~Waiting(t) /\ packet \in SendWindow(s)
  BY <1>2, OneDatagram
<1> QED
  BY <1>1, <1>3, <1>4, SendingStep

\* A task that only counts a timeout, or returns, has the blocks it had.
LEMMA SameQueueStep ==
  ASSUME GetInv, UNCHANGED <<config, client, disk>>, faults' \in 0 .. MaxFaults,
         NEW t \in DOMAIN tasks, Active(t),
         NEW s \in Senders, s.attempt <= config.retries,
         s.source = tasks[t].end.source, s.window = tasks[t].end.window,
         s.read = tasks[t].end.read, s.in_flight = tasks[t].end.in_flight,
         s.next_block = tasks[t].end.next_block,
         tasks' = [tasks EXCEPT ![t] = [tasks[t] EXCEPT !.end = s]],
         \A e \in net' : e \in net \/ \E packet :
           /\ e \in Datagrams(t, Client, {packet})
           /\ \/ packet = ErrorPacket("NotDefined")
              \/ Waiting(t) /\ packet = tasks[t].oack
              \/ ~Waiting(t) /\ packet \in SendWindow(s)
  PROVE  GetInv'
<1>1. Sends(tasks[t].end, Source, Params.windowsize)
      /\ (t # client.peer => Acked(tasks[t].end) = 0)
  BY WhileSending
<1>2. Sends(s, Source, Params.windowsize) /\ Acked(s) = Acked(tasks[t].end)
  BY <1>1, SameQueueSends
<1> QED
  BY <1>1, <1>2, SendingStep

\* A task returns an error, and may say so.
LEMMA TaskFailsStep ==
  ASSUME GetInv, UNCHANGED <<config, client, disk>>, faults' \in 0 .. MaxFaults,
         NEW t \in DOMAIN tasks, Active(t),
         tasks' = [tasks EXCEPT ![t].end.status = "failed"],
         net' \subseteq net \cup Datagrams(t, Client, {ErrorPacket("NotDefined")})
  PROVE  GetInv'
<1> DEFINE s == [tasks[t].end EXCEPT !.status = "failed"]
<1>1. tasks[t].end \in Senders /\ tasks[t].end.attempt <= config.retries
  BY WhileSending
<1>2. /\ s \in Senders /\ s.attempt = tasks[t].end.attempt
      /\ s.source = tasks[t].end.source /\ s.window = tasks[t].end.window
      /\ s.read = tasks[t].end.read /\ s.in_flight = tasks[t].end.in_flight
      /\ s.next_block = tasks[t].end.next_block
  BY <1>1 DEF Senders
<1>3. tasks' = [tasks EXCEPT ![t] = [tasks[t] EXCEPT !.end = s]]
  OBVIOUS
<1> HIDE DEF s
<1> QED
  BY <1>1, <1>2, <1>3, SameQueueStep

\* After a timeout a task sends its OACK or its window again.
LEMMA TaskRepeatsStep ==
  ASSUME GetInv, UNCHANGED <<config, client, disk>>, faults' \in 0 .. MaxFaults,
         NEW t \in DOMAIN tasks, Active(t),
         TaskRepeats(t)
  PROVE  GetInv'
<1> DEFINE s == [tasks[t].end EXCEPT !.attempt = @ + 1]
           packets == IF Waiting(t) THEN {tasks[t].oack} ELSE SendWindow(tasks[t].end)
<1>1. /\ tasks[t].end \in Senders /\ tasks[t].end.attempt \in Nat
      /\ tasks[t].end.attempt < config.retries /\ config.retries \in Nat
  BY WhileSending DEF TaskRepeats
<1>2. /\ s \in Senders /\ s.attempt = tasks[t].end.attempt + 1
      /\ s.source = tasks[t].end.source /\ s.window = tasks[t].end.window
      /\ s.read = tasks[t].end.read /\ s.in_flight = tasks[t].end.in_flight
      /\ s.next_block = tasks[t].end.next_block
  BY <1>1 DEF Senders
<1>3. tasks' = [tasks EXCEPT ![t] = [tasks[t] EXCEPT !.end = s]]
      /\ net' = net \cup Datagrams(t, Client, packets)
  BY DEF TaskRepeats
<1>4. s.attempt <= config.retries /\ SendWindow(s) = SendWindow(tasks[t].end)
  BY <1>1, <1>2 DEF SendWindow
<1> HIDE DEF s
<1>5. ASSUME NEW e \in net', e \notin net
      PROVE  \E packet :
               /\ e \in Datagrams(t, Client, {packet})
               /\ \/ Waiting(t) /\ packet = tasks[t].oack
                  \/ ~Waiting(t) /\ packet \in SendWindow(s)
  <2>1. e.packet \in packets /\ e \in Datagrams(t, Client, {e.packet})
    BY <1>3, <1>5, OneDatagram
  <2> QED
    BY <1>4, <2>1
<1> QED
  BY <1>2, <1>3, <1>4, <1>5, SameQueueStep

\* Every step of a task keeps the invariant.
LEMMA TaskReceivesStep ==
  ASSUME GetInv, NEW t \in DOMAIN tasks, TaskReceives(t)
  PROVE  GetInv'
<1>1. PICK d \in net : \E rest \in {net, net \ {d}} :
        /\ Arrives(d, t, rest)
        /\ \/ TaskBegins(t, d, rest)
           \/ TaskAdvances(t, d, rest) \/ TaskStaleAck(t, d, rest)
           \/ TaskHearsError(t, d, rest)
        /\ UNCHANGED <<config, client, disk>>
  BY DEF TaskReceives
<1>2. PICK rest \in {net, net \ {d}} :
        /\ Arrives(d, t, rest)
        /\ \/ TaskBegins(t, d, rest)
           \/ TaskAdvances(t, d, rest) \/ TaskStaleAck(t, d, rest)
           \/ TaskHearsError(t, d, rest)
        /\ UNCHANGED <<config, client, disk>>
  BY <1>1
<1>3. d.dst = t /\ faults' \in 0 .. MaxFaults /\ rest \in SUBSET net /\ Listens(t)
  BY <1>2, FaultsBounded DEF GetInv, CounterInv
<1>4. Active(t)
  BY <1>3, TaskNumbers DEF Listens, GetInv
<1>5. CASE TaskBegins(t, d, rest)
  BY <1>2, <1>3, <1>4, <1>5, TaskBeginsStep
<1>6. CASE TaskAdvances(t, d, rest)
  BY <1>2, <1>3, <1>4, <1>6, TaskAdvancesStep
<1>7. CASE TaskStaleAck(t, d, rest)
  BY <1>2, <1>3, <1>4, <1>7, TaskStaleAckStep
<1>8. CASE TaskHearsError(t, d, rest)
  BY <1>2, <1>3, <1>4, <1>8, TaskFailsStep DEF TaskHearsError
<1> QED
  BY <1>2, <1>5, <1>6, <1>7, <1>8

\* So does the end of its patience.
LEMMA TaskTimeoutStep ==
  ASSUME GetInv, NEW t \in DOMAIN tasks, TaskTimeout(t)
  PROVE  GetInv'
<1>1. UNCHANGED <<config, client, disk>> /\ faults' \in 0 .. MaxFaults /\ Listens(t)
  BY FaultsBounded DEF TaskTimeout, GetInv, CounterInv
<1>2. Active(t)
  BY <1>1, TaskNumbers DEF Listens, GetInv
<1>3. CASE TaskRepeats(t)
  BY <1>1, <1>2, <1>3, TaskRepeatsStep
<1>4. CASE TaskLosesClient(t)
  BY <1>1, <1>2, <1>4, TaskFailsStep DEF TaskLosesClient
<1>5. CASE TaskGivesUp(t)
  BY <1>1, <1>2, <1>5, TaskFailsStep DEF TaskGivesUp
<1> QED
  BY <1>3, <1>4, <1>5 DEF TaskTimeout

-----------------------------------------------------------------------------
(* The invariant holds.                                                    *)

\* It holds before anything has been sent but the request.
LEMMA InitGetInv ==
  ASSUME Init
  PROVE  GetInv
<1>1. PICK opts \in ClientOptions : client = NewClient(opts, "RRQ", 0, NewReceiver(1, 1))
  BY DEF Init
<1>2. NewReceiver(1, 1) \in Receivers /\ Len(NewReceiver(1, 1).file) = 0
      /\ NewReceiver(1, 1).attempt = 0
  <2>1. PICK r, one : r = NewReceiver(one, one) /\ one = 1
    OBVIOUS
  <2>2. r \in Receivers /\ Len(r.file) = 0 /\ r.attempt = 0
    BY <2>1, NewReceiverReceives DEF Receives
  <2> QED
    BY <2>1, <2>2
<1>3. opts.retries \in Nat
  BY SessionAssumption
<1>4. /\ client \in Clients /\ client.phase = "request" /\ client.peer = Client
      /\ client.attempt = 0 /\ client.end.attempt = 0 /\ client.opts = opts /\ Received = 0
  BY <1>1, <1>2 DEF NewClient, Clients, Asked, Received, Client
<1>5. tasks = << >> /\ Len(tasks) = 0 /\ DOMAIN tasks = {} /\ tasks \in Seq(Tasks(Offer))
  BY EmptySeq DEF Init
<1>6. StateInv
  BY <1>4, <1>5 DEF Init, StateInv
<1>7. CounterInv
  BY <1>3, <1>4, <1>5, SessionAssumption DEF Init, CounterInv
<1>8. ClientInv
  BY <1>4 DEF ClientInv, Requesting
<1>9. \A d \in net : Proper(d)
  BY <1>4, AskIsProper DEF Init, Clients, Proper
<1> QED
  BY <1>5, <1>6, <1>7, <1>8, <1>9 DEF GetInv

\* Every step keeps it.
LEMMA NextGetInv ==
  ASSUME GetInv, [Next]_vars
  PROVE  GetInv'
<1>1. CASE ClientReceives
  BY <1>1, ClientReceivesStep
<1>2. CASE ClientTimeout
  BY <1>2, ClientTimeoutStep
<1>3. CASE TaskStarts
  BY <1>3, TaskStartsStep
<1>4. ASSUME NEW t \in DOMAIN tasks, TaskReceives(t) \/ TaskTimeout(t)
      PROVE  GetInv'
  BY <1>4, TaskReceivesStep, TaskTimeoutStep
<1>5. CASE Lose
  <2>1. /\ UNCHANGED <<config, client, tasks, disk>> /\ net' \subseteq net
        /\ faults' \in 0 .. MaxFaults
    BY <1>5, FaultsBounded DEF Lose, GetInv, CounterInv
  <2> QED
    BY <2>1, ClientSameStep
<1>6. CASE UNCHANGED vars
  <2>1. UNCHANGED <<config, client, tasks, disk, net, faults>>
    BY <1>6 DEF vars
  <2> QED
    BY <2>1, ClientSameStep DEF GetInv, CounterInv
<1>7. CASE ClientReturns
  BY <1>7, ClientReturnsStep
<1> QED
  BY <1>1, <1>2, <1>3, <1>4, <1>5, <1>6, <1>7 DEF Next, Terminated

\* In every download, everything that is on its way is what its sender may have
\* sent with the parameters that all tasks derive from the one request, and the client
\* receives with them too.
THEOREM GetInvariance == Spec => []GetInv
<1>1. Init => GetInv
  BY InitGetInv
<1>2. GetInv /\ [Next]_vars => GetInv'
  BY NextGetInv
<1> QED
  BY <1>1, <1>2, PTL DEF Spec

\* The states of a download have the shape they should have.
THEOREM GetTypes == Spec => []TypeOK
<1>1. ASSUME GetInv
      PROVE  TypeOK
  <2>1. client \in Clients /\ StateInv /\ CounterInv /\ ClientInv
    BY <1>1 DEF GetInv, StateInv
  <2>2. /\ client.opts \in ClientOptions /\ client.attempt \in Nat
        /\ client.phase \in {"request", "data", "finishing", "ok", "failed"}
        /\ client.end.attempt \in Nat /\ client.peer \in Nat
        /\ client.error \in {"none", "timeout", "FileNotFound", "NotDefined", "UnexpectedPacket",
                             "Io"}
    BY <2>1 DEF Clients, Receivers
  <2>3. client.opts.retries \in Nat /\ config.retries \in Nat
    BY <2>1, <2>2, SessionAssumption DEF StateInv
  <2>4. client.peer \in 0 .. Len(tasks)
    BY <2>1, TaskNumbers DEF ClientInv, Client
  <2>5. ASSUME NEW t \in DOMAIN tasks
        PROVE  /\ tasks[t].end.status \in {"sending", "ok", "failed"}
               /\ tasks[t].end.attempt \in 0 .. config.retries
    <3>1. tasks[t].end \in Senders /\ tasks[t].end.attempt <= config.retries
      BY <2>1, TaskNumbers DEF Tasks, CounterInv
    <3> QED
      BY <2>3, <3>1 DEF Senders
  <2>6. /\ client.attempt \in 0 .. client.opts.retries
        /\ client.end.attempt \in 0 .. client.opts.retries
    BY <2>1, <2>2, <2>3 DEF CounterInv
  <2> QED
    BY <2>1, <2>2, <2>4, <2>5, <2>6 DEF TypeOK, StateInv, CounterInv
<1> QED
  BY <1>1, GetInvariance, PTL

\* Client and peer agree on the parameters, whichever OACK or first block has settled
\* them.
THEOREM ParametersAgree == Spec => []SameParameters
<1>1. ASSUME GetInv
      PROVE  SameParameters
  <2>1. SUFFICES ASSUME client.phase \in {"data", "finishing", "ok"}
                 PROVE  /\ client.blksize = tasks[client.peer].blksize
                        /\ client.end.window = tasks[client.peer].end.window
    BY DEF SameParameters
  <2>2. /\ client.peer \in DOMAIN tasks /\ disk # None /\ client.blksize = Params.blksize
        /\ Receives(client.end, Params.windowsize, Params.blksize)
    BY <1>1, <2>1 DEF GetInv, ClientInv
  <2>3. TaskInv(client.peer)
    BY <1>1, <2>2 DEF GetInv
  <2> QED
    BY <2>2, <2>3 DEF TaskInv, Sends, Receives
<1> QED
  BY <1>1, GetInvariance, PTL

\* A task that waits for ACK(0) is sent nothing else by its client.
THEOREM OnlyAck0 == Spec => []NothingElseAwaited
<1>1. ASSUME GetInv
      PROVE  NothingElseAwaited
  <2>1. SUFFICES ASSUME NEW d \in net, d.dst \in DOMAIN tasks, Waiting(d.dst)
                 PROVE  d.packet \in {AckPacket(0), ErrorPacket("UnknownTid")}
    BY DEF NothingElseAwaited
  <2>2. ToTask(d.dst, d.packet)
    BY <1>1, <2>1, OnTheirWay
  <2>3. SUFFICES ASSUME d.dst = client.peer,
                        \E n \in 0 .. Received : d.packet = AckPacket(Number(n))
                 PROVE  d.packet = AckPacket(0)
    BY <2>2 DEF ToTask
  <2>4. Received = 0
    BY <1>1, <2>1, <2>3, TaskNumbers DEF GetInv, ClientInv
  <2>5. Number(0) = 0
    BY ModulusAssumption, SmallResidue DEF Number, BlockNumber
  <2> QED
    BY <2>3, <2>4, <2>5
<1> QED
  BY <1>1, GetInvariance, PTL

\* With a default windowsize of one, the client's first DATA is the first block.
THEOREM FirstBlockFirst ==
  ASSUME DefaultWindowSize = 1
  PROVE  Spec => []FirstComesFirst
<1>1. ASSUME GetInv
      PROVE  FirstComesFirst
  <2>1. SUFFICES ASSUME Requesting, NEW d \in net, d.dst = Client, d.packet.type = "DATA"
                 PROVE  d.packet.block = 1
    BY DEF FirstComesFirst, Requesting
  <2>2. FromTask(d.src, d.packet)
    BY <1>1, <2>1, OnTheirWay
  <2>3. PICK n \in 1 .. Len(Source) : /\ d.packet.block = Number(n)
                                      /\ n <= Params.windowsize /\ Offer = << >>
    BY <2>1, <2>2, FromTaskTypes
  <2>4. Params.windowsize = 1 /\ Len(Source) \in Nat
    BY <1>1, <2>3, ParamsFacts DEF GetInv, Defaults
  <2>5. n = 1
    BY <2>3, <2>4
  <2> QED
    BY <2>3, <2>5, ModulusAssumption, SmallResidue DEF Number, BlockNumber
<1> QED
  BY <1>1, GetInvariance, PTL

-----------------------------------------------------------------------------
(* What success means, in a download whose file does not wrap the block    *)
(* numbers.  The parameters, and so the blocks, stay the same throughout.  *)

NoWrap == Len(Source) + Params.windowsize < Modulus

\* The client has got to writer.finish, if not further.
HasFinal == client.phase \in {"finishing", "ok"} \/ client.error = "Io"

\* The client has the blocks from the first on, and all of them iff it has received the
\* last; what is left is to flush them.
WholeClient ==
  /\ Received <= Len(Source)
  /\ \A i \in 1 .. Received : client.end.file[i] = Source[i]
  /\ Received = Len(Source) <=> HasFinal
  /\ client.error = "Io" => client.phase = "failed"
  /\ Transferring => client.end.status = "receiving"

\* No task counts a block as acknowledged that the client does not have.
WholeTask(t) ==
  /\ Acked(tasks[t].end) <= Received
  /\ tasks[t].end.status = "ok" => Acked(tasks[t].end) = Len(Source)

WholeInv == WholeClient /\ \A t \in DOMAIN tasks : WholeTask(t)

\* A packet or a deadline gives the client at most one block, and none when it makes it
\* fail; and it is not what makes it succeed.
OneBlockAtMost ==
  /\ client'.phase # "ok"
  /\ \/ Received' = Received
     \/ Received' = Received + 1 /\ client'.phase # "failed"

\* The lengths that the invariant compares are numbers.
LEMMA WholeFacts ==
  ASSUME GetInv
  PROVE  /\ Source \in Seq(Stretch) /\ Len(Source) \in Nat /\ Len(Source) > 0
         /\ Params.windowsize \in Nat /\ Params.windowsize > 0
         /\ Received \in Nat
         /\ NoWrap => Len(Source) < Modulus
<1>1. /\ Source \in Seq(Stretch) /\ Len(Source) \in Nat /\ Len(Source) > 0
      /\ Params.windowsize \in Nat /\ Params.windowsize > 0
  BY ParamsFacts DEF GetInv
<1>2. Received \in Nat
  BY LenProperties DEF GetInv, StateInv, Clients, Receivers, Received
<1>3. NoWrap => Len(Source) < Modulus
  BY <1>1, ModulusAssumption DEF NoWrap
<1> QED
  BY <1>1, <1>2, <1>3

\* A client that receives no block keeps those it has.
LEMMA SameFileWhole ==
  ASSUME WholeClient, Source' = Source,
         client'.end.file = client.end.file, client'.end.status = client.end.status,
         \/ client'.phase = client.phase /\ client'.error = client.error
         \/ client'.phase = "failed" /\ (Requesting \/ Transferring) /\ client'.error # "Io"
  PROVE  WholeClient' /\ Received' = Received
<1>1. Received' = Received
  BY DEF Received
<1> QED
  BY <1>1 DEF WholeClient, HasFinal, Requesting, Transferring

\* A block that is expected is the next one of the source.
LEMMA NextBlockWhole ==
  ASSUME GetInv, NoWrap, Source' = Source,
         NEW r, Receives(r, Params.windowsize, Params.blksize), r.status = "receiving",
         Len(r.file) < Len(Source), \A i \in 1 .. Len(r.file) : r.file[i] = Source[i],
         NEW n \in 1 .. Len(Source), Expects(r, Number(n)),
         client'.end = AcceptBlock(r, Number(n), Source[n]),
         client'.phase = PhaseOf(client'.end), client'.error # "Io"
  PROVE  WholeClient' /\ Received' = Len(r.file) + 1
<1>1. PICK t, source, w, b : /\ t = client'.end /\ source = Source
                             /\ w = Params.windowsize /\ b = Params.blksize
  OBVIOUS
<1>2. /\ source \in Seq(Stretch) /\ Len(source) < Modulus
      /\ \A i \in 1 .. Len(source) : source[i].len < b <=> i = Len(source)
  BY <1>1, ParamsFacts, WholeFacts DEF GetInv
<1>3. /\ Receives(r, w, b) /\ Len(r.file) < Len(source)
      /\ \A i \in 1 .. Len(r.file) : r.file[i] = source[i]
      /\ n \in 1 .. Len(source) /\ t = AcceptBlock(r, Number(n), source[n])
  BY <1>1
<1>4. /\ Len(t.file) = Len(r.file) + 1 /\ Len(t.file) <= Len(source)
      /\ \A i \in 1 .. Len(t.file) : t.file[i] = source[i]
      /\ t.status = IF Len(t.file) = Len(source) THEN "ok" ELSE "receiving"
  BY ONLY <1>2, <1>3, r.status = "receiving", Expects(r, Number(n)), AcceptBlockOfSource
<1>5. Received' = Len(t.file)
  BY <1>1 DEF Received
<1>6. (Received = Len(Source) <=> HasFinal)'
  BY <1>1, <1>4, <1>5 DEF PhaseOf, HasFinal
<1>7. (Transferring => client.end.status = "receiving")'
  BY <1>1, <1>4 DEF PhaseOf, Transferring
<1> QED
  BY <1>1, <1>4, <1>5, <1>6, <1>7 DEF WholeClient

\* The client's step that accepts a block.
LEMMA WholeAccepts ==
  ASSUME GetInv, NoWrap, WholeInv, Source' = Source,
         NEW d \in net, d.dst = Client, NEW rest, ClientAccepts(d, rest)
  PROVE  WholeClient' /\ Received' = Received + 1
<1>1. Transferring /\ d.packet.type = "DATA" /\ Expects(client.end, d.packet.block)
  BY DEF ClientAccepts
<1>2. PICK n \in 1 .. Len(Source) : d.packet.block = Number(n) /\ d.packet.data = Source[n]
  BY <1>1, OnTheirWay, FromTaskTypes
<1>3. /\ Receives(client.end, Params.windowsize, Params.blksize) /\ client \in Clients
      /\ client.phase = "data" /\ Received \in Nat
  BY <1>1, WhileReceiving
<1>4. /\ client'.end = AcceptBlock(client.end, Number(n), Source[n])
      /\ client'.phase = PhaseOf(client'.end) /\ client'.error # "Io"
  BY <1>2, <1>3 DEF ClientAccepts, Clients, WholeInv, WholeClient
<1>5. /\ client.end.status = "receiving" /\ Len(client.end.file) < Len(Source)
      /\ \A i \in 1 .. Len(client.end.file) : client.end.file[i] = Source[i]
  BY <1>1, <1>3, WholeFacts DEF WholeInv, WholeClient, HasFinal, Received
<1>6. WholeClient' /\ Received' = Len(client.end.file) + 1
  <2>1. PICK r : r = client.end
    OBVIOUS
  <2>2. /\ Receives(r, Params.windowsize, Params.blksize) /\ r.status = "receiving"
        /\ Len(r.file) < Len(Source) /\ \A i \in 1 .. Len(r.file) : r.file[i] = Source[i]
        /\ Expects(r, Number(n)) /\ client'.end = AcceptBlock(r, Number(n), Source[n])
    BY <1>1, <1>2, <1>3, <1>4, <1>5, <2>1
  <2>3. WholeClient' /\ Received' = Len(r.file) + 1
    BY <1>4, <2>2, NextBlockWhole
  <2> QED
    BY <2>1, <2>3
<1> QED
  BY <1>6 DEF Received

\* The client's first step, when nothing has been granted.
LEMMA WholeFirst ==
  ASSUME GetInv, NoWrap, WholeInv, Source' = Source,
         NEW d \in net, d.dst = Client, NEW rest, ClientTakesFirst(d, rest)
  PROVE  WholeClient' /\ OneBlockAtMost
<1>1. /\ d.src \in DOMAIN tasks /\ FromTask(d.src, d.packet) /\ Requesting
      /\ d.packet.type = "DATA" /\ client \in Clients
  BY OnTheirWay DEF ClientTakesFirst, GetInv, StateInv
<1>2. PICK n \in 1 .. Len(Source) : /\ d.packet.block = Number(n) /\ d.packet.data = Source[n]
                                    /\ Offer = << >>
  BY <1>1, FromTaskTypes
<1>3. Params = Defaults /\ Params.windowsize \in Nat /\ Params.blksize \in Nat
  BY <1>2, ParamsFacts DEF GetInv
<1>4. Received = 0 /\ client.error # "Io"
  BY <1>1 DEF GetInv, ClientInv, WholeInv, WholeClient, Requesting
<1>5. CASE d.packet.block = 1
  <2>1. PICK r : r = NewReceiver(Params.windowsize, Params.blksize)
    OBVIOUS
  <2>2. /\ client'.end = AcceptBlock(r, Number(n), Source[n])
        /\ client'.phase = PhaseOf(client'.end) /\ client'.error # "Io"
    <3>1. PICK s, acks : /\ s = AcceptBlock(r, 1, d.packet.data)
                         /\ StartsReceiving(d.src, Defaults, s, acks, rest)
      BY <1>3, <1>5, <2>1 DEF ClientTakesFirst
    <3>2. client'.end = s /\ client'.phase = PhaseOf(s) /\ client'.error = client.error
      BY <1>1, <3>1 DEF StartsReceiving, Clients
    <3> QED
      BY <1>2, <1>4, <1>5, <3>1, <3>2
  <2>3. /\ Receives(r, Params.windowsize, Params.blksize) /\ Len(r.file) = 0
        /\ r.status = "receiving"
    BY <1>3, <2>1, NewReceiverReceives
  <2>4. Expects(r, Number(n))
    BY <1>2, <1>5, <2>1 DEF NewReceiver, Expects
  <2>5. Len(r.file) < Len(Source) /\ \A i \in 1 .. Len(r.file) : r.file[i] = Source[i]
    BY <2>3, WholeFacts
  <2>6. WholeClient' /\ Received' = Len(r.file) + 1
    BY <2>2, <2>3, <2>4, <2>5, NextBlockWhole
  <2> QED
    BY <1>4, <2>2, <2>3, <2>6 DEF PhaseOf, OneBlockAtMost
<1>6. CASE d.packet.block # 1
  <2>1. client'.end = client.end /\ client'.phase = "failed" /\ client'.error # "Io"
    BY <1>1, <1>6 DEF ClientTakesFirst, ClientFailsWith, Clients, Requesting
  <2>2. WholeClient' /\ Received' = Received
    BY <1>1, <2>1, SameFileWhole DEF WholeInv
  <2> QED
    BY <2>1, <2>2 DEF OneBlockAtMost
<1> QED
  BY <1>5, <1>6

\* The client's first step, when an OACK has come.
LEMMA WholeMerges ==
  ASSUME GetInv, WholeInv, Source' = Source,
         NEW d \in net, d.dst = Client, NEW rest, ClientMergesOack(d, rest)
  PROVE  WholeClient' /\ OneBlockAtMost
<1>1. /\ d.src \in DOMAIN tasks /\ d.packet = OackPacket(Offer) /\ Requesting
      /\ client \in Clients /\ Received = 0
  BY OnTheirWay, FromTaskTypes DEF ClientMergesOack, GetInv, StateInv, ClientInv
<1>2. MergeOack(Defaults, FromPairs(d.packet.options)) = Params
  BY <1>1, ParamsFacts DEF GetInv, OackPacket
<1> DEFINE r == NewReceiver(Params.windowsize, Params.blksize)
<1>3. Len(r.file) = 0 /\ r.status = "receiving"
  BY ParamsFacts, NewReceiverReceives DEF GetInv
<1>4. client'.end = r /\ client'.phase = "data" /\ client'.error # "Io"
  BY <1>1, <1>2, <1>3
  DEF ClientMergesOack, StartsReceiving, PhaseOf, Clients, WholeInv, WholeClient, Requesting
<1>5. Received' = 0 /\ Len(Source) \in Nat /\ Len(Source) > 0
  BY <1>3, <1>4, WholeFacts DEF Received
<1>6. (Transferring => client.end.status = "receiving")'
  BY <1>3, <1>4
<1>7. (Received = Len(Source) <=> HasFinal)'
  BY <1>4, <1>5 DEF HasFinal
<1> QED
  BY <1>1, <1>4, <1>5, <1>6, <1>7 DEF WholeClient, OneBlockAtMost

\* What the client has asked for, and of whom, stays the same.
LEMMA SameRequest ==
  ASSUME GetInv, [Next]_vars
  PROVE  /\ client'.request = client.request /\ client'.opts = client.opts /\ config' = config
         /\ Params' = Params /\ Source' = Source /\ (NoWrap' <=> NoWrap)
<1> DEFINE Same == client'.request = client.request /\ client'.opts = client.opts
<1>1. client \in Clients
  BY DEF GetInv, StateInv
<1>2. config' = config
  BY DEF Next, vars, ClientReceives, ClientTimeout, ClientReturns, ClientFinishes,
         ClientFinishFails, TaskStarts, TaskReceives, TaskTimeout, Lose, Terminated
<1>3. Same
  <2>1. ASSUME NEW d, NEW rest
        PROVE  /\ ClientMergesOack(d, rest) => Same
               /\ ClientTakesFirst(d, rest) => Same
    BY <1>1 DEF ClientMergesOack, ClientTakesFirst, StartsReceiving, ClientFailsWith, Clients
  <2>2. ASSUME NEW d, NEW rest
        PROVE  /\ ClientAccepts(d, rest) => Same
               /\ ClientRejects(d, rest) => Same
               /\ ClientIgnores(d, rest) => Same
               /\ ClientHearsError(d, rest) => Same
               /\ ClientTurnsAway(d, rest) => Same
    BY <1>1 DEF ClientAccepts, ClientRejects, ClientIgnores, ClientHearsError, ClientTurnsAway,
                ClientFailsWith, Clients
  <2>3. ClientReceives => Same
    BY <2>1, <2>2 DEF ClientReceives
  <2>4. ClientTimeout => Same
    BY <1>1 DEF ClientTimeout, ClientAsksAgain, ClientReAcks, ClientGivesUp, ClientFailsWith,
                Clients
  <2>5. ClientReturns => Same
    BY <1>1 DEF ClientReturns, ClientFinishes, ClientFinishFails, ClientFailsWith, Clients
  <2> QED
    BY <2>3, <2>4, <2>5 DEF Next, vars, TaskStarts, TaskReceives, TaskTimeout, Lose, Terminated
<1>4. Params' = Params /\ Source' = Source
  BY <1>2, <1>3, SameTerms
<1> QED
  BY <1>2, <1>3, <1>4 DEF NoWrap

\* A step of the client keeps what it has, and takes the next block if any.
LEMMA WholeClientStep ==
  ASSUME GetInv, NoWrap, WholeInv, Source' = Source, ClientReceives \/ ClientTimeout
  PROVE  WholeClient' /\ OneBlockAtMost /\ UNCHANGED tasks /\ (Requesting \/ Transferring)
<1>1. client \in Clients /\ Received \in Nat
  BY WholeFacts DEF GetInv, StateInv
<1>2. ASSUME client'.end.file = client.end.file, client'.end.status = client.end.status,
             Requesting \/ Transferring,
             \/ client'.phase = client.phase /\ client'.error = client.error
             \/ client'.phase = "failed" /\ client'.error # "Io"
      PROVE  WholeClient' /\ OneBlockAtMost
  BY <1>1, <1>2, SameFileWhole DEF WholeInv, Requesting, Transferring, OneBlockAtMost
<1>3. ASSUME NEW d \in net, NEW rest \in {net, net \ {d}}, Arrives(d, Client, rest),
             \/ ClientMergesOack(d, rest) \/ ClientTakesFirst(d, rest)
             \/ ClientAccepts(d, rest) \/ ClientRejects(d, rest) \/ ClientIgnores(d, rest)
             \/ ClientHearsError(d, rest) \/ ClientTurnsAway(d, rest)
      PROVE  WholeClient' /\ OneBlockAtMost
  <2>1. d.dst = Client /\ (Requesting \/ Transferring)
    BY <1>3 DEF Arrives, Listens, Client, Listener
  <2>2. CASE ClientMergesOack(d, rest)
    BY <2>1, <2>2, WholeMerges
  <2>3. CASE ClientTakesFirst(d, rest)
    BY <2>1, <2>3, WholeFirst
  <2>4. CASE ClientAccepts(d, rest)
    <3>1. client'.phase \notin {"failed", "ok"}
      BY <1>1, <2>4 DEF ClientAccepts, PhaseOf, Clients
    <3> QED
      BY <1>1, <2>1, <2>4, <3>1, WholeAccepts DEF OneBlockAtMost
  <2>5. CASE ClientRejects(d, rest)
    <3>1. /\ client'.end.file = client.end.file /\ client'.end.status = client.end.status
          /\ client'.phase = client.phase /\ client'.error = client.error
      BY <1>1, <2>5 DEF ClientRejects, RejectBlock, Clients, Receivers
    <3> QED
      BY <1>2, <2>1, <3>1
  <2>6. CASE ClientIgnores(d, rest) \/ ClientTurnsAway(d, rest)
    BY <1>2, <2>1, <2>6 DEF ClientIgnores, ClientTurnsAway
  <2>7. CASE ClientHearsError(d, rest)
    <3>1. client'.end = client.end /\ client'.phase = "failed" /\ client'.error # "Io"
      <4>1. d.packet.code # "Io"
        BY <2>1, <2>7, OnTheirWay, FromTaskTypes DEF ClientHearsError
      <4> QED
        BY <1>1, <2>7, <4>1 DEF ClientHearsError, ClientFailsWith, Clients
    <3> QED
      BY <1>2, <2>1, <3>1
  <2> QED
    BY <1>3, <2>2, <2>3, <2>4, <2>5, <2>6, <2>7
<1>4. ASSUME ClientTimeout
      PROVE  WholeClient' /\ OneBlockAtMost
  <2>1. CASE ClientAsksAgain \/ ClientReAcks
    <3>1. /\ client'.end.file = client.end.file /\ client'.end.status = client.end.status
          /\ client'.phase = client.phase /\ client'.error = client.error
          /\ Requesting \/ Transferring
      BY <1>1, <2>1 DEF ClientAsksAgain, ClientReAcks, Clients, Receivers
    <3> QED
      BY <1>2, <3>1
  <2>2. CASE ClientGivesUp
    <3>1. /\ client'.end = client.end /\ client'.phase = "failed" /\ client'.error # "Io"
          /\ Requesting \/ Transferring
      BY <1>1, <2>2 DEF ClientGivesUp, ClientFailsWith, Clients
    <3> QED
      BY <1>2, <3>1
  <2> QED
    BY <1>4, <2>1, <2>2 DEF ClientTimeout
<1>5. Requesting \/ Transferring
  <2>1. Listens(Client)
    BY DEF ClientReceives, ClientTimeout, Arrives, Deadline
  <2> QED
    BY <2>1 DEF Listens, Client, Listener
<1> QED
  BY <1>3, <1>4, <1>5 DEF ClientReceives, ClientTimeout

\* A step of one task leaves the others as they are.
LEMMA OneTaskWhole ==
  ASSUME GetInv, WholeInv, UNCHANGED client, Source' = Source,
         NEW t \in DOMAIN tasks, NEW task, tasks' = [tasks EXCEPT ![t] = task],
         Acked(task.end) <= Received,
         task.end.status = "ok" => Acked(task.end) = Len(Source)
  PROVE  \A u \in DOMAIN tasks' : WholeTask(u)'
<1>1. tasks \in [1 .. Len(tasks) -> Tasks(Offer)]
  BY LenProperties DEF GetInv, StateInv
<1>2. /\ DOMAIN tasks' = DOMAIN tasks
      /\ \A u \in DOMAIN tasks : tasks'[u] = IF u = t THEN task ELSE tasks[u]
  BY <1>1
<1> QED
  BY <1>2 DEF WholeInv, WholeTask, Received

\* A task succeeds when the client has acknowledged the last block.
LEMMA WholeTaskReceives ==
  ASSUME GetInv, NoWrap, WholeInv, Source' = Source, NEW t \in DOMAIN tasks, TaskReceives(t)
  PROVE  \A u \in DOMAIN tasks' : WholeTask(u)'
<1>1. PICK d \in net : \E rest \in {net, net \ {d}} :
        /\ Arrives(d, t, rest)
        /\ \/ TaskBegins(t, d, rest)
           \/ TaskAdvances(t, d, rest) \/ TaskStaleAck(t, d, rest)
           \/ TaskHearsError(t, d, rest)
        /\ UNCHANGED <<config, client, disk>>
  BY DEF TaskReceives
<1>2. PICK rest \in {net, net \ {d}} :
        /\ Arrives(d, t, rest)
        /\ \/ TaskBegins(t, d, rest)
           \/ TaskAdvances(t, d, rest) \/ TaskStaleAck(t, d, rest)
           \/ TaskHearsError(t, d, rest)
        /\ UNCHANGED <<config, client, disk>>
  BY <1>1
<1>3. d.dst = t /\ Active(t)
  BY <1>2, TaskNumbers DEF Arrives, Listens, GetInv
<1> DEFINE e == tasks[t].end
<1>4. /\ tasks[t] \in Tasks(Offer) /\ e \in Senders /\ Sends(e, Source, Params.windowsize)
      /\ e.status = "sending" /\ WholeTask(t)
  BY <1>3, WhileSending DEF Active, Tasks, Senders, WholeInv
<1>5. /\ Source \in Seq(Stretch) /\ Params.windowsize \in Nat \ {0} /\ Received \in Nat
      /\ Len(Source) \in Nat /\ Received <= Len(Source)
      /\ Len(Source) + Params.windowsize < Modulus
  BY WholeFacts DEF NoWrap, WholeInv, WholeClient
<1> HIDE DEF e
<1>6. Acked(e) \in Nat /\ Acked(e) <= Received
  BY <1>4, <1>5, SendsCounters DEF WholeTask, e
<1>7. ASSUME NEW c, Sends(c, Source, Params.windowsize), c.status = "sending",
             Acked(c) <= Received, NEW oack,
             tasks' = [tasks EXCEPT ![t] = [tasks[t] EXCEPT !.end = NextRound(c), !.oack = oack]]
      PROVE  \A u \in DOMAIN tasks' : WholeTask(u)'
  <2> DEFINE s == NextRound(c)
             task == [tasks[t] EXCEPT !.end = s, !.oack = oack]
  <2>1. task.end = s /\ tasks' = [tasks EXCEPT ![t] = task]
    BY <1>4, <1>7 DEF Tasks
  <2>2. Acked(s) = Acked(c) /\ (s.status = "ok" => Acked(s) = Len(Source))
    BY <1>5, <1>7, NextRoundSends
  <2> HIDE DEF s, task
  <2> QED
    BY <1>2, <1>7, <2>1, <2>2, OneTaskWhole
<1>8. CASE TaskBegins(t, d, rest)
  <2>1. tasks' = [tasks EXCEPT ![t] = [tasks[t] EXCEPT !.end = NextRound(e), !.oack = None]]
    BY <1>8 DEF TaskBegins, e
  <2> QED
    BY <1>4, <1>6, <1>7, <2>1
<1>9. CASE TaskAdvances(t, d, rest)
  <2> DEFINE ack == d.packet.block
             c == ConsumeAck(e, ack)
             k == Cardinality(Covered(e.in_flight, ack, Params.windowsize))
             task == [tasks[t] EXCEPT !.end = NextRound(c)]
  <2>1. PICK n \in 0 .. Received : ack = Number(n)
    <3>1. ToTask(d.dst, d.packet) /\ d.packet.type = "ACK"
      BY <1>3, <1>9, OnTheirWay DEF TaskAdvances
    <3>2. PICK n \in 0 .. Received : d.packet = AckPacket(Number(n))
      BY <3>1 DEF ToTask, ErrorPacket
    <3> QED
      BY <3>2 DEF AckPacket
  <2>2. /\ Sends(c, Source, Params.windowsize) /\ c.status = "sending" /\ k \in Nat
        /\ Acked(c) = Acked(e) + k
    BY <1>4, <1>5, ConsumeAckSends
  <2>3. k = 0 \/ Acked(e) + k <= n
    BY <1>4, <1>5, <2>1, CoveredBound
  <2>4. Acked(c) <= Received
    BY <1>5, <1>6, <2>1, <2>2, <2>3
  <2>5. tasks' = [tasks EXCEPT ![t] = task]
    BY <1>9 DEF TaskAdvances, e
  <2> HIDE DEF c
  <2>6. Acked(NextRound(c)) = Acked(c)
        /\ (NextRound(c).status = "ok" => Acked(NextRound(c)) = Len(Source))
    BY <1>5, <2>2, NextRoundSends
  <2>7. task.end = NextRound(c)
    BY <1>4 DEF Tasks
  <2> HIDE DEF task
  <2> QED
    BY <1>2, <2>4, <2>5, <2>6, <2>7, OneTaskWhole
<1>10. CASE TaskStaleAck(t, d, rest)
  BY <1>2, <1>10 DEF TaskStaleAck, WholeInv, WholeTask, Received
<1>11. CASE TaskHearsError(t, d, rest)
  <2> DEFINE s == [e EXCEPT !.status = "failed"]
             task == [tasks[t] EXCEPT !.end = s]
  <2>1. tasks' = [tasks EXCEPT ![t] = task]
    BY <1>11 DEF TaskHearsError, e
  <2>2. Acked(s) = Acked(e) /\ s.status = "failed"
    BY <1>4 DEF Senders, Acked
  <2> HIDE DEF s
  <2>3. task.end = s
    BY <1>4 DEF Tasks
  <2> HIDE DEF task
  <2> QED
    BY <1>2, <1>6, <2>1, <2>2, <2>3, OneTaskWhole
<1> QED
  BY <1>2, <1>8, <1>9, <1>10, <1>11

\* A timeout makes no task successful.
LEMMA WholeTaskTimeout ==
  ASSUME GetInv, WholeInv, Source' = Source, NEW t \in DOMAIN tasks, TaskTimeout(t)
  PROVE  \A u \in DOMAIN tasks' : WholeTask(u)'
<1> DEFINE e == tasks[t].end
<1>1. UNCHANGED client /\ Active(t)
  BY TaskNumbers DEF TaskTimeout, Deadline, Listens, GetInv
<1>2. tasks[t] \in Tasks(Offer) /\ e \in Senders /\ e.status = "sending" /\ WholeTask(t)
  BY <1>1, WhileSending DEF Active, Senders, WholeInv
<1>3. PICK s : /\ tasks' = [tasks EXCEPT ![t] = [tasks[t] EXCEPT !.end = s]]
               /\ Acked(s) = Acked(e) /\ s.status # "ok"
  <2>1. CASE TaskRepeats(t)
    <3> DEFINE s == [e EXCEPT !.attempt = @ + 1]
    <3>1. tasks' = [tasks EXCEPT ![t] = [tasks[t] EXCEPT !.end = s]]
      BY <2>1 DEF TaskRepeats
    <3>2. Acked(s) = Acked(e) /\ s.status # "ok"
      BY <1>2 DEF Senders, Acked
    <3> QED
      BY <3>1, <3>2
  <2>2. CASE TaskLosesClient(t) \/ TaskGivesUp(t)
    <3> DEFINE s == [e EXCEPT !.status = "failed"]
    <3>1. tasks' = [tasks EXCEPT ![t] = [tasks[t] EXCEPT !.end = s]]
      BY <2>2 DEF TaskLosesClient, TaskGivesUp
    <3>2. Acked(s) = Acked(e) /\ s.status # "ok"
      BY <1>2 DEF Senders, Acked
    <3> QED
      BY <3>1, <3>2
  <2> QED
    BY <2>1, <2>2 DEF TaskTimeout
<1> DEFINE task == [tasks[t] EXCEPT !.end = s]
<1>4. task.end = s /\ Acked(s) <= Received
  BY <1>2, <1>3 DEF Tasks, WholeTask
<1> HIDE DEF task
<1> QED
  BY <1>1, <1>3, <1>4, OneTaskWhole DEF task

\* A new task has no block acknowledged, and the source is not empty.
LEMMA WholeTaskStarts ==
  ASSUME GetInv, GetInv', WholeInv, Source' = Source, TaskStarts
  PROVE  \A u \in DOMAIN tasks' : WholeTask(u)'
<1>1. PICK task : /\ tasks' = Append(tasks, task)
                  /\ task.end.status = "ok" => Acked(task.end) = Len(Source)
  <2>1. PICK d \in net : \E rest : /\ d.dst = Listener
                                   /\ TaskOpens(d, rest) \/ TaskFindsNoFile(d, rest)
    BY DEF TaskStarts, Arrives
  <2>2. PICK rest : TaskOpens(d, rest) \/ TaskFindsNoFile(d, rest)
    BY <2>1
  <2>3. CASE TaskFindsNoFile(d, rest)
    <3>1. PICK end : /\ tasks' = Append(tasks, [end EXCEPT !.end.status = "failed"])
                     /\ end = NewTask(Defaults, None)
      BY <2>3 DEF TaskFindsNoFile, TaskRefuses
    <3> QED
      BY <3>1 DEF NewTask, NewSender
  <2>4. CASE TaskOpens(d, rest)
    <3> DEFINE s == NewSender(Source, Params.windowsize)
    <3>1. FromPairs(d.packet.options) = Requested
      BY <2>1, OnTheirWay DEF Requested
    <3>2. Sends(s, Source, Params.windowsize) /\ s.status = "sending"
      BY WholeFacts, NewSenderSends
    <3>3. PICK task : tasks' = Append(tasks, task) /\ task.end \in {s, NextRound(s)}
      BY <2>4, <3>1 DEF TaskOpens, NewTask, Params, Source
    <3> HIDE DEF s
    <3>4. NextRound(s).status = "ok" => Acked(NextRound(s)) = Len(Source)
      BY <3>2, WholeFacts, NextRoundSends
    <3> QED
      BY <3>2, <3>3, <3>4
  <2> QED
    BY <2>2, <2>3, <2>4
<1>2. UNCHANGED client /\ Received' = Received /\ Received \in Nat
  BY WholeFacts DEF TaskStarts, Received
<1>3. tasks \in Seq(Tasks(Offer)) /\ Len(tasks) \in Nat
  BY LenProperties DEF GetInv, StateInv
<1>4. /\ \A t \in DOMAIN tasks' : t \in DOMAIN tasks \/ t = Len(tasks) + 1
      /\ \A t \in DOMAIN tasks : tasks'[t] = tasks[t]
      /\ tasks'[Len(tasks) + 1] = task
  BY <1>1, <1>3
<1>5. ASSUME NEW t \in DOMAIN tasks', t \notin DOMAIN tasks
      PROVE  WholeTask(t)'
  <2>1. tasks'[t] = task
    BY <1>4, <1>5
  <2>2. t # client'.peer
    BY <1>2, <1>3, <1>4, <1>5 DEF GetInv, ClientInv, Client
  <2>3. Acked(tasks'[t].end) = 0
    BY <1>5, <2>2 DEF GetInv, TaskInv
  <2> QED
    BY <1>1, <1>2, <2>1, <2>3 DEF WholeTask
<1> QED
  BY <1>2, <1>4, <1>5 DEF WholeInv, WholeTask

\* At the beginning nobody has anything.
LEMMA InitWhole ==
  ASSUME Init
  PROVE  WholeInv
<1>1. GetInv
  BY InitGetInv
<1>2. PICK opts \in ClientOptions : client = NewClient(opts, "RRQ", 0, NewReceiver(1, 1))
  BY DEF Init
<1>3. /\ client.phase = "request" /\ client.error = "none"
      /\ client.end = NewReceiver(1, 1) /\ Received = 0
  BY <1>2, NewReceiverReceives DEF NewClient, Received
<1>4. Len(Source) \in Nat /\ Len(Source) > 0
  BY <1>1, WholeFacts
<1>5. DOMAIN tasks = {}
  BY DEF Init
<1> QED
  BY <1>3, <1>4, <1>5 DEF WholeInv, WholeClient, HasFinal, Transferring

\* Every step keeps it.
LEMMA NextWhole ==
  ASSUME GetInv, GetInv', NoWrap, WholeInv, [Next]_vars
  PROVE  WholeInv'
<1>1. Source' = Source
  BY SameRequest
<1>2. CASE ClientReceives \/ ClientTimeout
  <2>1. WholeClient' /\ OneBlockAtMost /\ UNCHANGED tasks
    BY <1>1, <1>2, WholeClientStep
  <2>2. Received \in Nat /\ Received' \in Nat /\ Received <= Received'
    BY <2>1, WholeFacts DEF OneBlockAtMost
  <2>3. ASSUME NEW t \in DOMAIN tasks
        PROVE  WholeTask(t)'
    <3>1. WholeTask(t) /\ tasks[t].end \in Senders
      BY TaskNumbers DEF GetInv, WholeInv, Tasks
    <3>2. Acked(tasks[t].end) <= Received'
      <4>1. Acked(tasks[t].end) \in Int
        BY <3>1, LenProperties DEF Acked, Senders
      <4> QED
        BY <2>1, <2>2, <3>1, <4>1 DEF WholeTask
    <3> QED
      BY <1>1, <2>1, <3>1, <3>2 DEF WholeTask
  <2> QED
    BY <2>1, <2>3 DEF WholeInv
<1>3. ASSUME UNCHANGED client, \A t \in DOMAIN tasks' : WholeTask(t)'
      PROVE  WholeInv'
  BY <1>1, <1>3 DEF WholeInv, WholeClient, HasFinal, Received, Transferring
<1>4. CASE TaskStarts
  <2>1. UNCHANGED client
    BY <1>4 DEF TaskStarts
  <2> QED
    BY <1>1, <1>3, <1>4, <2>1, WholeTaskStarts
<1>5. ASSUME NEW t \in DOMAIN tasks, TaskReceives(t) \/ TaskTimeout(t)
      PROVE  WholeInv'
  <2>1. UNCHANGED client
    BY <1>5 DEF TaskReceives, TaskTimeout
  <2> QED
    BY <1>1, <1>3, <1>5, <2>1, WholeTaskReceives, WholeTaskTimeout
<1>6. CASE Lose \/ UNCHANGED vars
  <2>1. UNCHANGED <<client, tasks>>
    BY <1>6 DEF Lose, vars
  <2> QED
    BY <1>1, <1>3, <2>1 DEF WholeInv, WholeTask, Received
<1>7. CASE ClientReturns
  <2>1. WholeClient' /\ Received' = Received /\ UNCHANGED tasks
    BY <1>1, <1>7, ClientReturnsFrame
    DEF WholeInv, WholeClient, HasFinal, Received, Transferring
  <2> QED
    BY <1>1, <2>1 DEF WholeInv, WholeTask
<1> QED
  BY <1>2, <1>4, <1>5, <1>6, <1>7 DEF Next, Terminated

\* A client that has got to writer.finish has the source.
LEMMA FinalMeansAll ==
  ASSUME GetInv, WholeInv
  PROVE  client.end.file = Source <=> HasFinal
<1>1. client.end.file \in Seq(Stretch) /\ Source \in Seq(Stretch)
  BY WholeFacts DEF GetInv, StateInv, Clients, Receivers
<1>2. Len(client.end.file) = Len(Source) => client.end.file = Source
  BY <1>1, SeqEqual DEF WholeInv, WholeClient, Received
<1> QED
  BY <1>2 DEF WholeInv, WholeClient, Received

\* As long as the file does not wrap the block numbers, get returns Ok only with all
\* its blocks, each once and in its place, and a task reports success only when the
\* client has written them all: nothing but writer.finish can make that client fail.
THEOREM WholeFiles == Spec => [](NoWrap => SuccessMeansWhole)
<1> DEFINE Inv == GetInv /\ (NoWrap => WholeInv)
<1>1. Init => Inv
  BY InitGetInv, InitWhole
<1>2. Inv /\ [Next]_vars => Inv'
  <2>1. SUFFICES ASSUME Inv, [Next]_vars
                 PROVE  Inv'
    OBVIOUS
  <2>2. GetInv' /\ (NoWrap' <=> NoWrap)
    BY <2>1, NextGetInv, SameRequest
  <2> QED
    BY <2>1, <2>2, NextWhole
<1>3. Inv => (NoWrap => SuccessMeansWhole)
  <2>1. SUFFICES ASSUME GetInv, WholeInv
                 PROVE  SuccessMeansWhole
    OBVIOUS
  <2>2. client.phase = "ok" => client.end.file = Source
    BY <2>1, FinalMeansAll DEF HasFinal
  <2>3. ASSUME NEW t \in DOMAIN tasks, tasks[t].end.status = "ok"
        PROVE  client.peer = t /\ client.end.file = Source /\ HasFinal
    <3>1. Acked(tasks[t].end) = Len(Source) /\ Len(Source) <= Received
      BY <2>1, <2>3 DEF WholeInv, WholeTask
    <3>2. Received = Len(Source) /\ Len(Source) # 0
      BY <2>1, <3>1, WholeFacts DEF WholeInv, WholeClient
    <3>3. client.peer = t
      BY <2>1, <3>1, <3>2 DEF GetInv, TaskInv
    <3> QED
      BY <2>1, <3>2, <3>3, FinalMeansAll DEF WholeInv, WholeClient
  <2> QED
    BY <2>2, <2>3 DEF SuccessMeansWhole, HasFinal
<1> QED
  BY <1>1, <1>2, <1>3, PTL DEF Spec

-----------------------------------------------------------------------------
(* What one misfortune can do.  As long as there have been no more of them *)
(* than either end has retries, a download that has begun does not fail:   *)
(* a deadline that passes by rights has been preceded by a misfortune that *)
(* cut the exchange off, and that no deadline has paid for yet.            *)

Few == faults <= client.opts.retries /\ faults <= config.retries

\* An ERROR is the last word of a task, and one that the client sends goes to others
\* than its peer.
PacketInv ==
  \A d \in net :
    /\ d.dst # Client => d.src = Client
    /\ d.packet.type = "ERROR" => IF d.dst = Client THEN tasks[d.src].end.status = "failed"
                                                    ELSE d.dst # client.peer

\* The task is at work, with as large a window as the source allows.
AtWork(t) ==
  LET e == tasks[t].end
  IN  /\ e.status = "sending" /\ e.attempt <= faults
      /\ Len(e.in_flight) = Params.windowsize \/ e.read = Len(Source)

FirstBlockFrom(t) == \E d \in net : d.src = t /\ d.dst = Client /\ d.packet.type = "DATA"

\* Whoever of client and peer receives this datagram, now or after what is received
\* before it, answers it.
Answerable(d) ==
  \/ d.dst = client.peer
  \/ /\ d.dst = Client /\ d.src = client.peer /\ d.packet.type = "DATA"
     /\ \/ d.packet.block <= Received \/ d.packet.block = Len(Source)
        \/ client.end.blocks_in_window + (d.packet.block - Received) >= Params.windowsize

GoesOn == \E d \in net : Answerable(d)

RequestGoesWell ==
  Requesting /\ disk # None =>
    \A t \in DOMAIN tasks : ~Waiting(t) =>
      AtWork(t) /\ (FirstBlockFrom(t) \/ tasks[t].end.attempt < faults)

TransferGoesWell ==
  LET p == client.peer
  IN  Transferring =>
        /\ ~Waiting(p) => AtWork(p)
        /\ Active(p) =>
             /\ client.end.attempt <= faults
             /\ \/ GoesOn
                \/ /\ client.end.attempt < faults
                   /\ ~Waiting(p) => tasks[p].end.attempt < faults

WellInv ==
  /\ client.phase = "failed" => Received = 0 \/ client.error = "Io"
  /\ RequestGoesWell
  /\ TransferGoesWell

BegunInv == PacketInv /\ (Few => WellInv)

-----------------------------------------------------------------------------
(* What a step of the client, a task or the listener leaves alone.         *)

\* Misfortunes are only added to.
LEMMA FaultsGrow ==
  ASSUME GetInv, [Next]_vars
  PROVE  /\ faults \in Nat /\ faults' \in Nat /\ faults' \in {faults, faults + 1}
         /\ client.opts.retries \in Nat /\ config.retries \in Nat
         /\ Few' => Few
<1>1. faults \in Nat /\ client.opts.retries \in Nat /\ config.retries \in Nat
  BY SessionAssumption DEF GetInv, CounterInv, StateInv, Clients
<1>2. UNCHANGED faults \/ Fault
  BY DEF Next, ClientReceives, ClientTimeout, ClientReturns, ClientFinishes, ClientFinishFails,
         TaskStarts, TaskReceives, TaskTimeout, Lose, Terminated, vars, Arrives, Deadline
<1>3. faults' \in {faults, faults + 1}
  BY <1>2 DEF Fault
<1>4. client'.opts = client.opts /\ config' = config
  BY SameRequest
<1> QED
  BY <1>1, <1>3, <1>4 DEF Few

\* A step of the client changes no task, and no ERROR of it goes to its peer.
LEMMA ClientFrame ==
  ASSUME GetInv, ClientReceives \/ ClientTimeout
  PROVE  /\ UNCHANGED <<config, tasks, disk>>
         /\ ~Requesting => client'.peer = client.peer
         /\ \A d \in net' : d \in net \/ (/\ d.dst # Client /\ d.src = Client
                                          /\ d.packet.type = "ERROR" => /\ Transferring
                                                                       /\ d.dst # client.peer)
<1>1. client \in Clients /\ Client \notin DOMAIN tasks /\ Client # Listener
  BY TaskNumbers DEF GetInv, StateInv
<1>2. \A n : AckPacket(n).type # "ERROR"
  BY DEF AckPacket
<1>3. ASSUME NEW d \in net, NEW rest \in {net, net \ {d}}, Arrives(d, Client, rest),
             \/ ClientMergesOack(d, rest) \/ ClientTakesFirst(d, rest)
             \/ ClientAccepts(d, rest) \/ ClientRejects(d, rest) \/ ClientIgnores(d, rest)
             \/ ClientHearsError(d, rest) \/ ClientTurnsAway(d, rest)
      PROVE  /\ ~Requesting => client'.peer = client.peer
             /\ \A e \in net' : e \in net \/ (/\ e.dst # Client /\ e.src = Client
                                              /\ e.packet.type = "ERROR" =>
                                                   Transferring /\ e.dst # client.peer)
  <2>1. d.dst = Client /\ rest \subseteq net
    BY <1>3 DEF Arrives
  <2>2. d.src \in DOMAIN tasks
    BY <2>1, OnTheirWay
  <2>3. ASSUME NEW p \in DOMAIN tasks, NEW packets, \A k \in packets : k.type # "ERROR",
               net' \subseteq rest \cup Datagrams(Client, p, packets)
        PROVE  \A e \in net' : e \in net \/ (/\ e.dst # Client /\ e.src = Client
                                             /\ e.packet.type = "ERROR" =>
                                                  Transferring /\ e.dst # client.peer)
    BY <1>1, <2>1, <2>3 DEF Datagrams
  <2>4. CASE ClientMergesOack(d, rest)
    <3>1. net' = rest \cup Datagrams(Client, d.src, {AckPacket(0)}) /\ Requesting
      BY <2>4 DEF ClientMergesOack, StartsReceiving
    <3> QED
      BY <1>2, <2>2, <2>3, <3>1
  <2>5. CASE ClientTakesFirst(d, rest)
    <3>1. net' \subseteq rest \cup Datagrams(Client, d.src, {AckPacket(1)}) /\ Requesting
      BY <2>5 DEF ClientTakesFirst, StartsReceiving, Datagrams
    <3> QED
      BY <1>2, <2>2, <2>3, <3>1
  <2>6. CASE ClientAccepts(d, rest)
    <3>1. /\ net' \subseteq rest \cup Datagrams(Client, d.src, {AckPacket(d.packet.block)})
          /\ client'.peer = client.peer
      BY <1>1, <2>6 DEF ClientAccepts, Datagrams, Clients
    <3> QED
      BY <1>2, <2>2, <2>3, <3>1
  <2>7. CASE ClientRejects(d, rest)
    <3>1. /\ net' = rest \cup Datagrams(Client, d.src, {AckPacket(client.end.last_acked)})
          /\ client'.peer = client.peer
      BY <1>1, <2>7 DEF ClientRejects, Clients
    <3> QED
      BY <1>2, <2>2, <2>3, <3>1
  <2>8. CASE ClientIgnores(d, rest)
    BY <2>1, <2>8 DEF ClientIgnores
  <2>9. CASE ClientHearsError(d, rest)
    BY <1>1, <2>1, <2>9 DEF ClientHearsError, ClientFailsWith, Clients
  <2>10. CASE ClientTurnsAway(d, rest)
    <3>1. /\ net' = rest \cup Datagrams(Client, d.src, {ErrorPacket("UnknownTid")})
          /\ client' = client /\ Transferring /\ d.src # client.peer
      BY <2>10 DEF ClientTurnsAway, FromPeer
    <3> QED
      BY <1>1, <2>1, <2>2, <3>1 DEF Datagrams
  <2> QED
    BY <1>3, <2>4, <2>5, <2>6, <2>7, <2>8, <2>9, <2>10
<1>4. ASSUME ClientTimeout
      PROVE  /\ ~Requesting => client'.peer = client.peer
             /\ \A e \in net' : e \in net \/ (/\ e.dst # Client /\ e.src = Client
                                              /\ e.packet.type = "ERROR" =>
                                                   Transferring /\ e.dst # client.peer)
  <2>1. CASE ClientAsksAgain
    <3>1. ASSUME NEW e \in Ask(client.request, client'.attempt)
          PROVE  e.dst # Client /\ e.src = Client /\ e.packet.type # "ERROR"
      <4>1. e.dst = Listener /\ e.packet.type = "RRQ"
        BY <1>1, <3>1, AskIsProper DEF Clients
      <4>2. e.src = Client
        BY <3>1 DEF Ask, Datagrams
      <4> QED
        BY <1>1, <4>1, <4>2
    <3> QED
      BY <2>1, <3>1 DEF ClientAsksAgain
  <2>2. CASE ClientReAcks
    <3>1. /\ net' = net \cup Datagrams(Client, client.peer, {AckPacket(client.end.last_acked)})
          /\ client'.peer = client.peer /\ Transferring
      BY <1>1, <2>2 DEF ClientReAcks, Clients
    <3>2. client.peer # Client
      BY <3>1, WhileReceiving DEF ClientInv
    <3> QED
      BY <1>2, <3>1, <3>2 DEF Datagrams
  <2>3. CASE ClientGivesUp
    BY <1>1, <2>3 DEF ClientGivesUp, ClientFailsWith, Clients
  <2> QED
    BY <1>4, <2>1, <2>2, <2>3 DEF ClientTimeout
<1> QED
  BY <1>3, <1>4 DEF ClientReceives, ClientTimeout

\* A step of a task changes no other, takes only what was sent to it, and sends an
\* ERROR only as its last word.
LEMMA TaskFrame ==
  ASSUME GetInv, NEW t \in DOMAIN tasks, TaskReceives(t) \/ TaskTimeout(t)
  PROVE  /\ UNCHANGED <<config, client, disk>> /\ tasks[t].end.status = "sending"
         /\ DOMAIN tasks' = DOMAIN tasks /\ \A u \in DOMAIN tasks : u # t => tasks'[u] = tasks[u]
         /\ \A d \in net : d \in net' \/ d.dst = t
         /\ \A d \in net' : d \in net \/ (/\ d.src = t /\ d.dst = Client
                                          /\ d.packet.type = "ERROR" =>
                                               tasks'[t].end.status = "failed")
<1>1. /\ tasks \in [1 .. Len(tasks) -> Tasks(Offer)] /\ tasks[t] \in Tasks(Offer)
      /\ t # Client /\ t # Listener
  BY TaskNumbers, LenProperties DEF GetInv, StateInv
<1>2. \A s : \A k \in SendWindow(s) : k.type # "ERROR"
  BY DEF SendWindow, DataPacket
<1>3. Waiting(t) => tasks[t].oack.type # "ERROR"
  BY <1>1 DEF Waiting, Tasks, OackPacket
<1> DEFINE Good ==
             /\ DOMAIN tasks' = DOMAIN tasks
             /\ \A u \in DOMAIN tasks : u # t => tasks'[u] = tasks[u]
             /\ \A d \in net : d \in net' \/ d.dst = t
             /\ \A d \in net' : d \in net \/ (/\ d.src = t /\ d.dst = Client
                                              /\ d.packet.type = "ERROR" =>
                                                   tasks'[t].end.status = "failed")
<1>4. ASSUME NEW task, tasks' = tasks \/ tasks' = [tasks EXCEPT ![t] = task],
             NEW rest, net \subseteq rest \/ (\E d \in net : d.dst = t /\ net \ {d} \subseteq rest),
             rest \subseteq net,
             NEW packets, \A k \in packets : k.type # "ERROR",
             net' = rest \cup Datagrams(t, Client, packets)
      PROVE  Good
  BY <1>1, <1>4 DEF Datagrams
<1> HIDE DEF Good
<1>5. ASSUME NEW task, tasks' = tasks \/ tasks' = [tasks EXCEPT ![t] = task],
             NEW rest, net \subseteq rest \/ (\E d \in net : d.dst = t /\ net \ {d} \subseteq rest),
             rest \subseteq net,
             NEW s, SendsWindow(t, s, rest)
      PROVE  Good
  <2>1. PICK packets : /\ packets = IF s.status = "ok" THEN {} ELSE SendWindow(s)
                       /\ net' = rest \cup Datagrams(t, Client, packets)
    BY <1>5 DEF SendsWindow
  <2>2. \A k \in packets : k.type # "ERROR"
    BY <1>2, <2>1
  <2> QED
    BY <1>4, <1>5, <2>1, <2>2
<1>6. ASSUME NEW d \in net, NEW rest \in {net, net \ {d}}, Arrives(d, t, rest),
             \/ TaskBegins(t, d, rest)
             \/ TaskAdvances(t, d, rest) \/ TaskStaleAck(t, d, rest)
             \/ TaskHearsError(t, d, rest)
      PROVE  Good
  <2>1. d.dst = t /\ rest \subseteq net /\ (net \subseteq rest \/ net \ {d} \subseteq rest)
    BY <1>6 DEF Arrives
  <2>2. CASE TaskBegins(t, d, rest)
    <3>1. PICK task, s : /\ tasks' = [tasks EXCEPT ![t] = task]
                         /\ SendsWindow(t, s, rest)
      BY <2>2 DEF TaskBegins
    <3> QED
      BY <1>5, <2>1, <3>1
  <2>3. CASE TaskAdvances(t, d, rest)
    <3>1. PICK task, s : /\ tasks' = [tasks EXCEPT ![t] = task]
                         /\ SendsWindow(t, s, rest)
      BY <2>3 DEF TaskAdvances
    <3> QED
      BY <1>5, <2>1, <3>1
  <2>4. CASE TaskStaleAck(t, d, rest)
    BY <1>5, <2>1, <2>4 DEF TaskStaleAck
  <2>5. CASE TaskHearsError(t, d, rest)
    <3>1. PICK task, packets : /\ tasks' = [tasks EXCEPT ![t] = task] /\ packets = {}
      BY <2>5 DEF TaskHearsError
    <3>2. net' = rest \cup Datagrams(t, Client, packets)
      BY <2>5, <3>1 DEF TaskHearsError, Datagrams
    <3>3. \A k \in packets : k.type # "ERROR"
      BY <3>1
    <3> QED
      BY <1>4, <2>1, <3>1, <3>2, <3>3
  <2> QED
    BY <1>6, <2>2, <2>3, <2>4, <2>5
<1>7. ASSUME TaskTimeout(t)
      PROVE  Good
  <2>1. CASE TaskRepeats(t)
    <3> DEFINE packets == IF Waiting(t) THEN {tasks[t].oack} ELSE SendWindow(tasks[t].end)
    <3>1. PICK task : /\ tasks' = [tasks EXCEPT ![t] = task]
                      /\ net' = net \cup Datagrams(t, Client, packets)
      BY <2>1 DEF TaskRepeats
    <3>2. \A k \in packets : k.type # "ERROR"
      BY <1>2, <1>3
    <3> HIDE DEF packets
    <3> QED
      BY <1>4, <3>1, <3>2
  <2>2. CASE TaskLosesClient(t)
    <3>1. PICK task, packets : /\ tasks' = [tasks EXCEPT ![t] = task] /\ packets = {}
      BY <2>2 DEF TaskLosesClient
    <3>2. net' = net \cup Datagrams(t, Client, packets)
      BY <2>2, <3>1 DEF TaskLosesClient, Datagrams
    <3>3. \A k \in packets : k.type # "ERROR"
      BY <3>1
    <3> QED
      BY <1>4, <3>1, <3>2, <3>3
  <2>3. CASE TaskGivesUp(t)
    <3>1. /\ tasks' = [tasks EXCEPT ![t] = [tasks[t] EXCEPT !.end.status = "failed"]]
          /\ net' = net \cup Datagrams(t, Client, {ErrorPacket("NotDefined")})
      BY <2>3 DEF TaskGivesUp
    <3>2. tasks'[t].end.status = "failed"
      BY <1>1, <3>1 DEF Tasks, Senders
    <3> QED
      BY <1>1, <3>1, <3>2 DEF Good, Datagrams
  <2> QED
    BY <1>7, <2>1, <2>2, <2>3 DEF TaskTimeout
<1>8. UNCHANGED <<config, client, disk>> /\ Active(t)
  BY <1>1 DEF TaskReceives, TaskTimeout, Arrives, Deadline, Listens
<1>9. tasks[t].end.status = "sending"
  BY <1>1, <1>8 DEF Active, Tasks, Senders
<1> QED
  BY <1>6, <1>7, <1>8, <1>9 DEF Good, TaskReceives

\* A window is not empty while there are blocks to send.
LEMMA WindowNotEmpty ==
  ASSUME NEW source \in Seq(Stretch), NEW window \in Nat \ {0}, NEW s, Sends(s, source, window),
         Len(s.in_flight) = window \/ s.read = Len(source), Acked(s) < Len(source)
  PROVE  \E k \in SendWindow(s) : k.type = "DATA"
<1>1. /\ Len(s.in_flight) \in Nat /\ s.read \in Nat /\ Len(source) \in Nat
      /\ Acked(s) \in Nat /\ Acked(s) + Len(s.in_flight) = s.read
  BY SendsCounters
<1>2. 1 \in 1 .. Len(s.in_flight)
  BY <1>1
<1>3. DataPacket(s.in_flight[1].block, s.in_flight[1].data) \in SendWindow(s)
  BY <1>2 DEF SendWindow
<1> QED
  BY <1>3 DEF DataPacket

\* A request that reaches the listener adds a task, which speaks to the client only,
\* and begins with its first window if it does not wait.
LEMMA StartsFrame ==
  ASSUME GetInv, TaskStarts, NEW t, t = NewTid
  PROVE  /\ UNCHANGED <<config, client, disk>>
         /\ DOMAIN tasks' = DOMAIN tasks \cup {t} /\ t \notin DOMAIN tasks
         /\ \A u \in DOMAIN tasks : tasks'[u] = tasks[u]
         /\ \A d \in net : d \in net' \/ d.dst = Listener
         /\ \A d \in net' : d \in net \/ (/\ d.src = t /\ d.dst = Client
                                          /\ d.packet.type = "ERROR" =>
                                               tasks'[t].end.status = "failed")
         /\ disk # None /\ ~Waiting(t)' => AtWork(t)' /\ FirstBlockFrom(t)'
<1>1. PICK d \in net : \E rest \in {net, net \ {d}} :
         Arrives(d, Listener, rest) /\ (TaskOpens(d, rest) \/ TaskFindsNoFile(d, rest))
  BY DEF TaskStarts
<1>2. PICK rest \in {net, net \ {d}} :
         Arrives(d, Listener, rest) /\ (TaskOpens(d, rest) \/ TaskFindsNoFile(d, rest))
  BY <1>1
<1>3. /\ d.dst = Listener /\ rest \subseteq net /\ net \ {d} \subseteq rest
      /\ FromPairs(d.packet.options) = Requested
  BY <1>2, OnTheirWay DEF Arrives, Requested
<1>4. tasks \in Seq(Tasks(Offer)) /\ Len(tasks) \in Nat /\ DOMAIN tasks = 1 .. Len(tasks)
  BY TaskNumbers DEF GetInv, StateInv
<1>5. UNCHANGED <<config, client, disk>> /\ faults \in Nat /\ faults' \in Nat
      /\ Params' = Params /\ Source' = Source
  <2>1. UNCHANGED <<config, client, disk>> /\ faults' \in {faults, faults + 1}
    BY <1>2 DEF TaskStarts, Arrives, Fault
  <2>2. faults \in Nat
    BY SessionAssumption DEF GetInv, CounterInv
  <2> QED
    BY <2>1, <2>2, SameTerms
<1>6. ASSUME NEW task, tasks' = Append(tasks, task),
             NEW packets, net' = rest \cup Datagrams(t, Client, packets),
             \A k \in packets : k.type = "ERROR" => task.end.status = "failed"
      PROVE  /\ DOMAIN tasks' = DOMAIN tasks \cup {t} /\ t \notin DOMAIN tasks
             /\ \A u \in DOMAIN tasks : tasks'[u] = tasks[u]
             /\ tasks'[t] = task
             /\ \A e \in net : e \in net' \/ e.dst = Listener
             /\ \A e \in net' : e \in net \/ (/\ e.src = t /\ e.dst = Client
                                              /\ e.packet.type = "ERROR" =>
                                                   tasks'[t].end.status = "failed")
  <2>1. t = Len(tasks) + 1
    BY DEF NewTid
  <2>2. /\ Len(tasks') = Len(tasks) + 1 /\ DOMAIN tasks' = 1 .. Len(tasks')
        /\ \A u \in 1 .. Len(tasks) : tasks'[u] = tasks[u]
        /\ tasks'[Len(tasks) + 1] = task
    BY <1>4, <1>6
  <2>3. /\ DOMAIN tasks' = DOMAIN tasks \cup {t} /\ t \notin DOMAIN tasks
        /\ \A u \in DOMAIN tasks : tasks'[u] = tasks[u]
        /\ tasks'[t] = task
    BY <1>4, <2>1, <2>2
  <2>4. \A e \in net : e \in net' \/ e.dst = Listener
    BY <1>3, <1>6
  <2>5. \A e \in net' : e \in net \/ (/\ e.src = t /\ e.dst = Client
                                      /\ e.packet.type = "ERROR" =>
                                           tasks'[t].end.status = "failed")
    BY <1>3, <1>6, <2>3 DEF Datagrams
  <2> QED
    BY <2>3, <2>4, <2>5
<1>7. CASE TaskFindsNoFile(d, rest)
  <2>1. PICK task, packets : /\ tasks' = Append(tasks, task) /\ task.end.status = "failed"
                             /\ packets = {ErrorPacket("FileNotFound")}
                             /\ net' = rest \cup Datagrams(t, Client, packets)
    <3>1. PICK end, task : /\ end = NewTask(Defaults, None)
                           /\ task = [end EXCEPT !.end.status = "failed"]
                           /\ tasks' = Append(tasks, task)
      BY <1>7 DEF TaskFindsNoFile, TaskRefuses
    <3>2. task.end.status = "failed"
      BY <3>1 DEF NewTask, NewSender
    <3> QED
      BY <1>7, <3>1, <3>2 DEF TaskFindsNoFile, TaskRefuses
  <2>2. disk = None
    BY <1>7 DEF TaskFindsNoFile
  <2> QED
    BY <1>5, <1>6, <2>1, <2>2
<1>8. CASE TaskOpens(d, rest)
  <2> DEFINE s == NewSender(Source, Params.windowsize)
             granted == Granted(config, Requested, Len(disk))
             oack == IF granted = << >> THEN None ELSE OackPacket(granted)
             task == [end |-> IF oack = None THEN NextRound(s) ELSE s,
                      blksize |-> Params.blksize, oack |-> oack]
             packets == IF oack = None THEN SendWindow(task.end) ELSE {oack}
  <2>1. tasks' = Append(tasks, task) /\ net' = rest \cup Datagrams(t, Client, packets)
    BY <1>3, <1>8 DEF TaskOpens, NewTask, Params, Source
  <2>2. /\ Source \in Seq(Stretch) /\ Params.windowsize \in Nat \ {0} /\ Len(Source) \in Nat \ {0}
    BY ParamsFacts DEF GetInv
  <2>3. Sends(s, Source, Params.windowsize) /\ Acked(s) = 0 /\ s.status = "sending"
    BY <2>2, NewSenderSends
  <2> HIDE DEF s
  <2>4. oack # None => oack.type # "ERROR"
    BY DEF OackPacket
  <2> HIDE DEF oack
  <2>5. \A k \in packets : k.type # "ERROR"
    BY <2>4 DEF SendWindow, DataPacket
  <2>6. PICK e : e = NextRound(s)
    OBVIOUS
  <2>7. /\ Sends(e, Source, Params.windowsize) /\ Acked(e) = 0
        /\ e.status = "sending" /\ e.attempt = 0
        /\ Len(e.in_flight) = Params.windowsize \/ e.read = Len(Source)
    BY <2>2, <2>3, <2>6, NextRoundSends
  <2>8. \E k \in SendWindow(e) : k.type = "DATA"
    BY <2>2, <2>7, WindowNotEmpty
  <2>9. PICK it, sent : it = task /\ sent = packets
    OBVIOUS
  <2>10. /\ it.oack = oack
         /\ oack = None => it.end = e /\ sent = SendWindow(e)
    BY <2>6, <2>9
  <2> HIDE DEF task, packets
  <2>11. /\ DOMAIN tasks' = DOMAIN tasks \cup {t} /\ t \notin DOMAIN tasks
         /\ \A u \in DOMAIN tasks : tasks'[u] = tasks[u]
         /\ tasks'[t] = it
         /\ \A f \in net : f \in net' \/ f.dst = Listener
         /\ \A f \in net' : f \in net \/ (/\ f.src = t /\ f.dst = Client
                                          /\ f.packet.type = "ERROR" =>
                                               tasks'[t].end.status = "failed")
    BY <1>6, <2>1, <2>5, <2>9
  <2>12. ASSUME ~Waiting(t)'
         PROVE  AtWork(t)' /\ FirstBlockFrom(t)'
    <3>1. oack = None
      BY <2>10, <2>11, <2>12 DEF Waiting
    <3>2. AtWork(t)'
      BY <1>5, <2>7, <2>10, <2>11, <3>1 DEF AtWork
    <3>3. PICK k \in SendWindow(e) : k.type = "DATA"
      BY <2>8
    <3>4. [src |-> t, dst |-> Client, packet |-> k] \in net'
      BY <2>1, <2>9, <2>10, <3>1, <3>3 DEF Datagrams
    <3>5. FirstBlockFrom(t)'
      BY <3>3, <3>4 DEF FirstBlockFrom
    <3> QED
      BY <3>2, <3>5
  <2> QED
    BY <1>5, <2>11, <2>12
<1> QED
  BY <1>2, <1>7, <1>8

\* Who has sent a datagram, and how an ERROR came about, stays true.
LEMMA NextPackets ==
  ASSUME GetInv, PacketInv, [Next]_vars
  PROVE  PacketInv'
<1>1. /\ Client \notin DOMAIN tasks
      /\ \A d \in net : /\ d.dst = Client => d.src \in DOMAIN tasks
                        /\ d.dst # Client => d.src = Client
                        /\ d.packet.type = "ERROR" =>
                             IF d.dst = Client THEN tasks[d.src].end.status = "failed"
                                               ELSE d.dst # client.peer
  BY TaskNumbers, OnTheirWay DEF GetInv, PacketInv
<1>2. CASE ClientReceives \/ ClientTimeout
  <2>1. /\ UNCHANGED tasks /\ (~Requesting => client'.peer = client.peer)
        /\ \A d \in net' : d \in net \/ (/\ d.dst # Client /\ d.src = Client
                                         /\ d.packet.type = "ERROR" => /\ Transferring
                                                                      /\ d.dst # client.peer)
    BY <1>2, ClientFrame
  <2>2. ASSUME NEW d \in net, d.dst # Client, d.packet.type = "ERROR"
        PROVE  ~Requesting
    <3>1. Proper(d)
      BY DEF GetInv
    <3> QED
      BY <2>2, <3>1 DEF Proper, ToTask
  <2>3. Transferring => ~Requesting
    BY DEF Transferring, Requesting
  <2>4. ASSUME NEW d \in net'
        PROVE  /\ d.dst # Client => d.src = Client
               /\ d.packet.type = "ERROR" =>
                    IF d.dst = Client THEN tasks'[d.src].end.status = "failed"
                                      ELSE d.dst # client'.peer
    BY <1>1, <2>1, <2>2, <2>3
  <2> QED
    BY <2>4 DEF PacketInv
<1>3. CASE TaskStarts
  <2>1. PICK t : t = NewTid
    OBVIOUS
  <2>2. /\ UNCHANGED client /\ t \notin DOMAIN tasks
        /\ \A u \in DOMAIN tasks : tasks'[u] = tasks[u]
        /\ \A d \in net' : d \in net \/ (/\ d.src = t /\ d.dst = Client
                                         /\ d.packet.type = "ERROR" =>
                                              tasks'[t].end.status = "failed")
    BY <1>3, <2>1, StartsFrame
  <2> QED
    BY <1>1, <2>2 DEF PacketInv
<1>4. ASSUME NEW t \in DOMAIN tasks, TaskReceives(t) \/ TaskTimeout(t)
      PROVE  PacketInv'
  <2>1. /\ UNCHANGED client /\ tasks[t].end.status = "sending"
        /\ \A u \in DOMAIN tasks : u # t => tasks'[u] = tasks[u]
        /\ \A d \in net' : d \in net \/ (/\ d.src = t /\ d.dst = Client
                                         /\ d.packet.type = "ERROR" =>
                                              tasks'[t].end.status = "failed")
    BY <1>4, TaskFrame
  <2> QED
    BY <1>1, <2>1 DEF PacketInv
<1>5. CASE Lose \/ UNCHANGED vars
  <2>1. UNCHANGED <<client, tasks>> /\ net' \subseteq net
    BY <1>5 DEF Lose, vars
  <2> QED
    BY <1>1, <2>1 DEF PacketInv
<1>6. CASE ClientReturns
  <2>1. UNCHANGED <<tasks, net>> /\ client'.peer = client.peer
    BY <1>6, ClientReturnsFrame
  <2> QED
    BY <1>1, <2>1 DEF PacketInv
<1> QED
  BY <1>2, <1>3, <1>4, <1>5, <1>6 DEF Next, Terminated

\* A window that begins no later than the receiver's next block, and is as large as it
\* may be, has a block that the receiver answers: one that it has already, the last of
\* the file, or the one that fills its own window.
LEMMA WindowReaches ==
  ASSUME NEW source \in Seq(Stretch), Len(source) < Modulus,
         NEW window \in Nat \ {0}, NEW s, Sends(s, source, window),
         Len(s.in_flight) = window \/ s.read = Len(source),
         NEW received \in Nat, Acked(s) <= received, received < Len(source), NEW filled \in Nat
  PROVE  \E k \in SendWindow(s) :
           /\ k.type = "DATA"
           /\ \/ k.block <= received \/ k.block = Len(source)
              \/ filled + (k.block - received) >= window
<1> DEFINE a == Acked(s)
           L == Len(s.in_flight)
           packet(i) == DataPacket(s.in_flight[i].block, s.in_flight[i].data)
<1>1. /\ L \in Nat /\ s.read \in Nat /\ Len(source) \in Nat /\ a \in Nat /\ a + L = s.read
      /\ s.read <= Len(source)
  BY SendsCounters DEF Sends
<1>2. ASSUME NEW i \in 1 .. L
      PROVE  packet(i) \in SendWindow(s) /\ packet(i).type = "DATA" /\ packet(i).block = a + i
  <2>1. s.in_flight[i].block = Number(a + i)
    BY DEF Sends
  <2>2. a + i \in 0 .. Modulus - 1
    BY <1>1, ModulusAssumption
  <2>3. Number(a + i) = a + i
    BY <2>2, ModulusAssumption, SmallResidue DEF Number, BlockNumber
  <2> QED
    BY <2>1, <2>3 DEF SendWindow, DataPacket
<1>3. L > 0
  BY <1>1
<1> HIDE DEF packet, a, L
<1>4. CASE a < received
  <2>1. packet(1) \in SendWindow(s) /\ packet(1).type = "DATA" /\ packet(1).block = a + 1
    BY <1>1, <1>2, <1>3
  <2> QED
    BY <1>1, <1>4, <2>1
<1>5. CASE a = received
  <2>1. packet(L) \in SendWindow(s) /\ packet(L).type = "DATA" /\ packet(L).block = a + L
    BY <1>1, <1>2, <1>3
  <2>2. L = window \/ a + L = Len(source)
    BY <1>1 DEF L
  <2> QED
    BY <1>1, <1>5, <2>1, <2>2
<1> QED
  BY <1>1, <1>4, <1>5 DEF a

\* As long as something that client or peer will answer is on its way, no deadline of
\* theirs passes by rights.
LEMMA QuietTransfer ==
  ASSUME GetInv, PacketInv, Transferring, Active(client.peer),
         NEW end \in {Client, client.peer}, Quiet(end)
  PROVE  ~GoesOn
<1>1. /\ client.peer \in DOMAIN tasks /\ client.peer # Client /\ client.peer # Listener
      /\ Client # Listener
  BY TaskNumbers, WhileReceiving DEF GetInv, ClientInv
<1>2. Listens(Client) /\ Listens(client.peer)
  BY <1>1 DEF Listens
<1>3. (IF end = Client THEN client.peer ELSE end) = client.peer
  BY <1>1
<1>4. ASSUME NEW d \in net, Answerable(d)
      PROVE  FALSE
  <2>1. {d.src, d.dst} \subseteq {Client, client.peer}
    BY <1>1, <1>4 DEF Answerable, PacketInv
  <2>2. Listens(d.dst)
    BY <1>2, <1>4 DEF Answerable
  <2>3. Concerns(d, end)
    BY <1>3, <2>1 DEF Concerns
  <2> QED
    BY <2>2, <2>3 DEF Quiet
<1> QED
  BY <1>4 DEF GoesOn

\* While the client still asks, everybody waits for everything.
LEMMA QuietRequest ==
  ASSUME GetInv, Requesting, NEW t \in DOMAIN tasks, Quiet(t)
  PROVE  ~FirstBlockFrom(t)
<1>1. Listens(Client)
  BY DEF Listens, Client, Listener
<1> QED
  BY <1>1 DEF FirstBlockFrom, Quiet, Concerns

\* A deadline is a misfortune, or there has been one that is not paid for.
LEMMA DeadlinePaid ==
  ASSUME NEW end, Deadline(end), faults \in Nat, NEW n \in Nat, n <= faults,
         Quiet(end) => n < faults
  PROVE  n + 1 <= faults'
BY DEF Deadline, Fault

-----------------------------------------------------------------------------
(* The invariant holds.                                                    *)

\* The numbers that the attempts are compared with.
LEMMA AttemptFacts ==
  ASSUME GetInv, [Next]_vars
  PROVE  /\ faults \in Nat /\ faults' \in Nat /\ faults <= faults'
         /\ client.opts.retries \in Nat /\ config.retries \in Nat
         /\ client.end.attempt \in Nat
         /\ \A t \in DOMAIN tasks : tasks[t].end.attempt \in Nat
<1>1. /\ faults \in Nat /\ faults' \in Nat /\ faults' \in {faults, faults + 1}
      /\ client.opts.retries \in Nat /\ config.retries \in Nat
  BY FaultsGrow
<1>2. client.end.attempt \in Nat
  BY DEF GetInv, StateInv, Clients, Receivers
<1>3. ASSUME NEW t \in DOMAIN tasks
      PROVE  tasks[t].end.attempt \in Nat
  BY TaskNumbers DEF GetInv, Tasks, Senders
<1> QED
  BY <1>1, <1>2, <1>3

\* A step that leaves client and peer alone either loses nothing that they answer or
\* is a misfortune.
LEMMA TransferFrame ==
  ASSUME GetInv, [Next]_vars, Transferring, TransferGoesWell, UNCHANGED client,
         tasks'[client.peer] = tasks[client.peer],
         faults < faults' \/ \A d \in net : Answerable(d) => d \in net'
  PROVE  TransferGoesWell'
<1>1. Params' = Params /\ Source' = Source
  BY SameRequest
<1>2. /\ faults \in Nat /\ faults' \in Nat /\ faults <= faults' /\ client.end.attempt \in Nat
      /\ tasks[client.peer].end.attempt \in Nat
  BY AttemptFacts, WhileReceiving DEF ClientInv
<1> DEFINE p == client.peer
<1>3. (Waiting(p)' <=> Waiting(p)) /\ (Active(p)' <=> Active(p))
  BY DEF Waiting, Active
<1>4. ASSUME ~Waiting(p)
      PROVE  AtWork(p)'
  BY <1>1, <1>2, <1>4 DEF TransferGoesWell, AtWork
<1>5. ASSUME NEW d \in net, Answerable(d)
      PROVE  Answerable(d)'
  BY <1>1, <1>5 DEF Answerable, Received
<1>6. CASE faults < faults'
  BY <1>2, <1>3, <1>4, <1>6 DEF TransferGoesWell, AtWork
<1>7. CASE \A d \in net : Answerable(d) => d \in net'
  <2>1. GoesOn => GoesOn'
    BY <1>5, <1>7 DEF GoesOn
  <2> QED
    BY <1>2, <1>3, <1>4, <2>1 DEF TransferGoesWell
<1> QED
  BY <1>6, <1>7

\* The peer has sent its window: the client answers some of it.
LEMMA WindowSent ==
  ASSUME GetInv, [Next]_vars, GetInv', NoWrap, WholeInv', Transferring',
         NEW p, p = client'.peer, ~Waiting(p)', AtWork(p)', client'.end.attempt <= faults',
         \A k \in SendWindow(tasks'[p].end) : [src |-> p, dst |-> Client, packet |-> k] \in net'
  PROVE  TransferGoesWell'
<1> DEFINE s == tasks'[p].end
           filled == client'.end.blocks_in_window
<1>1. /\ Source \in Seq(Stretch) /\ Len(Source) < Modulus /\ Params.windowsize \in Nat \ {0}
      /\ Source' = Source /\ Params' = Params
  BY WholeFacts, SameRequest
<1>2. /\ p \in DOMAIN tasks' /\ disk' # None /\ client'.end \in Receivers
      /\ client'.phase = "data"
  BY DEF GetInv, ClientInv, StateInv, Clients, Transferring
<1>3. Received' \in Nat /\ filled \in Nat
  BY <1>2, LenProperties DEF Receivers, Received
<1>4. Sends(s, Source, Params.windowsize)
  BY <1>1, <1>2 DEF GetInv, TaskInv
<1>5. /\ Acked(s) <= Received' /\ Received' <= Len(Source) /\ Received' # Len(Source)
      /\ Len(Source) \in Nat
  BY <1>1, <1>2, LenProperties DEF WholeInv, WholeClient, WholeTask, HasFinal
<1>6. Len(s.in_flight) = Params.windowsize \/ s.read = Len(Source)
  BY <1>1 DEF AtWork
<1> HIDE DEF s, filled
<1>7. PICK k \in SendWindow(s) :
        /\ k.type = "DATA"
        /\ \/ k.block <= Received' \/ k.block = Len(Source)
           \/ filled + (k.block - Received') >= Params.windowsize
  <2>1. PICK r, w, source : r = Received' /\ w = Params.windowsize /\ source = Source
    OBVIOUS
  <2>2. /\ source \in Seq(Stretch) /\ Len(source) < Modulus /\ w \in Nat \ {0}
        /\ Sends(s, source, w)
        /\ Len(s.in_flight) = w \/ s.read = Len(source)
        /\ r \in Nat /\ Acked(s) <= r /\ r < Len(source)
    BY <1>1, <1>3, <1>4, <1>5, <1>6, <2>1
  <2>3. \E k \in SendWindow(s) : /\ k.type = "DATA"
                                 /\ \/ k.block <= r \/ k.block = Len(source)
                                    \/ filled + (k.block - r) >= w
    BY ONLY <1>3, <2>2, WindowReaches
  <2> QED
    BY <2>1, <2>3
<1>8. [src |-> p, dst |-> Client, packet |-> k] \in net'
  BY <1>7 DEF s
<1>9. Answerable([src |-> p, dst |-> Client, packet |-> k])'
  BY <1>1, <1>7 DEF Answerable, filled
<1>10. GoesOn'
  BY <1>8, <1>9 DEF GoesOn
<1> QED
  BY <1>10 DEF TransferGoesWell

\* A client that still asks after a step has received nothing.
LEMMA StillAsking ==
  ASSUME GetInv, ClientReceives \/ ClientTimeout, Requesting'
  PROVE  Requesting /\ net \subseteq net' /\ UNCHANGED <<tasks, disk>>
<1>1. client \in Clients
  BY DEF GetInv, StateInv
<1>2. ASSUME NEW d, NEW rest
      PROVE  /\ ClientMergesOack(d, rest) => ~Requesting'
             /\ ClientTakesFirst(d, rest) => ~Requesting'
  <2>1. ASSUME NEW neg, NEW r, NEW acks, StartsReceiving(d.src, neg, r, acks, rest)
        PROVE  ~Requesting'
    BY <1>1, <2>1 DEF StartsReceiving, PhaseOf, Requesting, Clients
  <2>2. ASSUME NEW error, ClientFailsWith(error)
        PROVE  ~Requesting'
    BY <1>1, <2>2 DEF ClientFailsWith, Requesting, Clients
  <2> QED
    BY <2>1, <2>2 DEF ClientMergesOack, ClientTakesFirst
<1>3. ASSUME NEW d, NEW rest
      PROVE  /\ ClientAccepts(d, rest) => ~Requesting'
             /\ ClientRejects(d, rest) => ~Requesting'
             /\ ClientIgnores(d, rest) => ~Requesting'
             /\ ClientHearsError(d, rest) => ~Requesting'
             /\ ClientTurnsAway(d, rest) => ~Requesting'
  BY <1>1 DEF ClientAccepts, ClientRejects, ClientIgnores, ClientHearsError, ClientTurnsAway,
              ClientFailsWith, PhaseOf, Clients, Requesting, Transferring
<1>4. ClientReceives => ~Requesting'
  BY <1>2, <1>3 DEF ClientReceives
<1>5. ClientTimeout => ClientAsksAgain /\ UNCHANGED <<tasks, disk>>
  BY <1>1 DEF ClientTimeout, ClientReAcks, ClientGivesUp, ClientFailsWith, Clients,
              Requesting, Transferring
<1> QED
  BY <1>4, <1>5 DEF ClientAsksAgain

\* While the client asks, the tasks that send blocks at once go on: the first block of
\* each is on its way, or was lost.
LEMMA RequestStep ==
  ASSUME GetInv, [Next]_vars, GetInv', Few', RequestGoesWell
  PROVE  RequestGoesWell'
<1> SUFFICES ASSUME Requesting', disk' # None, NEW u \in DOMAIN tasks', ~Waiting(u)'
             PROVE  AtWork(u)' /\ (FirstBlockFrom(u)' \/ tasks'[u].end.attempt < faults')
  BY DEF RequestGoesWell
<1> DEFINE Goal == AtWork(u)' /\ (FirstBlockFrom(u)' \/ tasks'[u].end.attempt < faults')
<1>1. /\ faults \in Nat /\ faults' \in Nat /\ faults <= faults' /\ config.retries \in Nat
      /\ \A t \in DOMAIN tasks : tasks[t].end.attempt \in Nat
      /\ Params' = Params /\ Source' = Source /\ config' = config
  BY AttemptFacts, SameRequest
<1>2. ASSUME Requesting, disk # None, u \in DOMAIN tasks, tasks'[u] = tasks[u],
             faults < faults' \/ \A d \in net : d \in net' \/ d.dst # Client
      PROVE  Goal
  <2>1. AtWork(u) /\ (FirstBlockFrom(u) \/ tasks[u].end.attempt < faults)
    BY <1>2 DEF RequestGoesWell, Waiting
  <2>2. AtWork(u)'
    BY <1>1, <1>2, <2>1 DEF AtWork
  <2>3. CASE faults < faults'
    BY <1>1, <1>2, <2>1, <2>2, <2>3 DEF AtWork
  <2>4. CASE \A d \in net : d \in net' \/ d.dst # Client
    <3>1. FirstBlockFrom(u) => FirstBlockFrom(u)'
      BY <2>4 DEF FirstBlockFrom
    <3> QED
      BY <1>1, <1>2, <2>1, <2>2, <3>1
  <2> QED
    BY <1>2, <2>3, <2>4
<1>3. CASE ClientReceives \/ ClientTimeout
  <2>1. Requesting /\ net \subseteq net' /\ UNCHANGED <<tasks, disk>>
    BY <1>3, StillAsking
  <2> QED
    BY <1>2, <2>1
<1>4. CASE TaskStarts
  <2>1. PICK t : t = NewTid
    OBVIOUS
  <2>2. /\ UNCHANGED <<config, client, disk>> /\ DOMAIN tasks' = DOMAIN tasks \cup {t}
        /\ \A v \in DOMAIN tasks : tasks'[v] = tasks[v]
        /\ \A d \in net : d \in net' \/ d.dst = Listener
        /\ disk # None /\ ~Waiting(t)' => AtWork(t)' /\ FirstBlockFrom(t)'
    BY <1>4, <2>1, StartsFrame
  <2>3. CASE u = t
    BY <2>2, <2>3
  <2>4. CASE u \in DOMAIN tasks
    BY <1>2, <2>2, <2>4 DEF Requesting, Client, Listener
  <2> QED
    BY <2>2, <2>3, <2>4
<1>5. ASSUME NEW t \in DOMAIN tasks, TaskReceives(t) \/ TaskTimeout(t)
      PROVE  Goal
  <2>1. /\ UNCHANGED <<config, client, disk>> /\ DOMAIN tasks' = DOMAIN tasks
        /\ \A v \in DOMAIN tasks : v # t => tasks'[v] = tasks[v]
        /\ \A d \in net : d \in net' \/ d.dst = t
        /\ t # Client /\ tasks[t] \in Tasks(Offer) /\ Requesting /\ disk # None
    BY <1>5, TaskFrame, TaskNumbers DEF GetInv, Requesting
  <2>2. CASE u # t
    BY <1>2, <2>1, <2>2
  <2>3. CASE u = t
    <3>1. ~TaskReceives(t)
      BY <2>1, OnTheirWay DEF TaskReceives, Arrives, ToTask
    <3>2. TaskTimeout(t) /\ Deadline(t)
      BY <1>5, <3>1 DEF TaskTimeout
    <3>3. ~Waiting(t)
      BY <2>1, <2>3, <3>2 DEF TaskTimeout, TaskRepeats, TaskLosesClient, TaskGivesUp, Waiting,
                              Tasks
    <3>4. AtWork(t) /\ (FirstBlockFrom(t) \/ tasks[t].end.attempt < faults)
      BY <2>1, <3>3 DEF RequestGoesWell
    <3>5. tasks[t].end.attempt + 1 <= faults'
      <4>1. Quiet(t) => tasks[t].end.attempt < faults
        BY <2>1, <3>4, QuietRequest
      <4> QED
        BY <1>1, <3>2, <3>4, <4>1, DeadlinePaid DEF AtWork
    <3>6. tasks[t].end.attempt < config.retries
      BY <1>1, <3>5 DEF Few
    <3>7. TaskRepeats(t)
      BY <1>1, <3>2, <3>3, <3>6 DEF TaskTimeout, TaskLosesClient, TaskGivesUp
    <3> DEFINE e == [tasks[t].end EXCEPT !.attempt = @ + 1]
    <3>8. tasks'[t].end = e /\ tasks[t].end \in Senders
      BY <2>1, <3>7 DEF TaskRepeats, Tasks
    <3>9. /\ e.attempt = tasks[t].end.attempt + 1 /\ e.status = tasks[t].end.status
          /\ e.in_flight = tasks[t].end.in_flight /\ e.read = tasks[t].end.read
      BY <3>8 DEF Senders
    <3> HIDE DEF e
    <3>10. AtWork(t)'
      BY <1>1, <3>4, <3>5, <3>8, <3>9 DEF AtWork
    <3>11. \E k \in SendWindow(tasks[t].end) : k.type = "DATA"
      <4>1. Active(t) /\ t # client.peer
        BY <2>1, <3>4 DEF AtWork, Active, GetInv, ClientInv
      <4>2. /\ Sends(tasks[t].end, Source, Params.windowsize) /\ Acked(tasks[t].end) = 0
        BY <4>1, WhileSending
      <4>3. Source \in Seq(Stretch) /\ Params.windowsize \in Nat \ {0} /\ Len(Source) \in Nat \ {0}
        BY ParamsFacts DEF GetInv
      <4> QED
        BY <3>4, <4>2, <4>3, WindowNotEmpty DEF AtWork
    <3>12. PICK k \in SendWindow(tasks[t].end) : k.type = "DATA"
      BY <3>11
    <3>13. [src |-> t, dst |-> Client, packet |-> k] \in net'
      BY <3>3, <3>7, <3>12 DEF TaskRepeats, Datagrams
    <3>14. FirstBlockFrom(t)'
      BY <3>12, <3>13 DEF FirstBlockFrom
    <3> QED
      BY <2>3, <3>10, <3>14
  <2> QED
    BY <2>2, <2>3
<1>6. CASE Lose
  <2>1. UNCHANGED <<client, tasks, disk>> /\ faults' = faults + 1
    BY <1>6 DEF Lose, Fault
  <2> QED
    BY <1>1, <1>2, <2>1 DEF Requesting
<1>7. CASE UNCHANGED vars
  <2>1. UNCHANGED <<client, tasks, disk, net>>
    BY <1>7 DEF vars
  <2> QED
    BY <1>2, <2>1 DEF Requesting
<1>8. CASE ClientReturns
  <2>1. client'.phase \in {"ok", "failed"}
    BY <1>8, ClientReturnsFrame
  <2> QED
    BY <2>1 DEF Requesting
<1> QED
  BY <1>3, <1>4, <1>5, <1>6, <1>7, <1>8 DEF Next, Terminated

\* What a task is doing when it has been sent an ACK, or its window has gone out.
LEMMA PeerSends ==
  ASSUME GetInv, [Next]_vars, GetInv', NoWrap, WholeInv', Transferring, UNCHANGED client,
         client.end.attempt <= faults, NEW p, p = client.peer, p \in DOMAIN tasks,
         NEW task, tasks' = [tasks EXCEPT ![p] = task], task.oack = None,
         NEW s, task.end = s, s.status \in {"ok", "sending"},
         s.status = "ok" \/ s.attempt <= faults',
         Len(s.in_flight) = Params.windowsize \/ s.read = Len(Source),
         NEW rest, SendsWindow(p, s, rest)
  PROVE  TransferGoesWell'
<1>1. /\ faults \in Nat /\ faults' \in Nat /\ faults <= faults' /\ client.end.attempt \in Nat
      /\ Params' = Params /\ Source' = Source
  BY AttemptFacts, SameRequest
<1>2. tasks \in [1 .. Len(tasks) -> Tasks(Offer)]
  BY LenProperties DEF GetInv, StateInv
<1>3. tasks'[p] = task /\ p \in DOMAIN tasks'
  BY <1>2
<1>4. Transferring' /\ client'.peer = p /\ client.phase = "data"
  BY DEF Transferring
<1>5. s.status = "sending"
  <2>1. SUFFICES ASSUME s.status = "ok"
                 PROVE  FALSE
    OBVIOUS
  <2>2. Acked(s) <= Received' /\ Acked(s) = Len(Source)
    BY <1>1, <1>3, <2>1 DEF WholeInv, WholeTask
  <2>3. Received' <= Len(Source) /\ Received' # Len(Source)
    BY <1>1, <1>4 DEF WholeInv, WholeClient, HasFinal, Transferring
  <2>4. Received' \in Nat /\ Len(Source) \in Nat
    BY <1>1, WholeFacts DEF Received
  <2> QED
    BY <2>2, <2>3, <2>4
<1>6. ~Waiting(p)' /\ AtWork(p)'
  BY <1>1, <1>3, <1>5 DEF Waiting, AtWork
<1>7. \A k \in SendWindow(s) : [src |-> p, dst |-> Client, packet |-> k] \in net'
  BY <1>5 DEF SendsWindow, Datagrams
<1> QED
  BY <1>1, <1>3, <1>4, <1>6, <1>7, WindowSent

\* A step of a task keeps a transfer going.
LEMMA TransferTask ==
  ASSUME GetInv, [Next]_vars, GetInv', NoWrap, WholeInv, WholeInv', PacketInv, Few',
         Transferring, TransferGoesWell,
         NEW t \in DOMAIN tasks, TaskReceives(t) \/ TaskTimeout(t)
  PROVE  TransferGoesWell'
<1> DEFINE p == client.peer
<1>1. /\ faults \in Nat /\ faults' \in Nat /\ faults <= faults' /\ config.retries \in Nat
      /\ client.end.attempt \in Nat /\ tasks[t].end.attempt \in Nat
      /\ Params' = Params /\ Source' = Source /\ config' = config
  BY AttemptFacts, SameRequest
<1>2. /\ UNCHANGED <<config, client, disk>> /\ tasks[t].end.status = "sending"
      /\ DOMAIN tasks' = DOMAIN tasks /\ \A u \in DOMAIN tasks : u # t => tasks'[u] = tasks[u]
      /\ \A d \in net : d \in net' \/ d.dst = t
  BY TaskFrame
<1>3. t # Client /\ p \in DOMAIN tasks /\ p # Client /\ tasks[t] \in Tasks(Offer)
  BY TaskNumbers, WhileReceiving DEF GetInv, ClientInv
<1>4. CASE t # p
  <2>1. \A d \in net : Answerable(d) => d \in net'
    BY <1>2, <1>3, <1>4 DEF Answerable
  <2> QED
    BY <1>2, <1>3, <1>4, <2>1, TransferFrame
<1>5. CASE t = p /\ TaskReceives(t)
  <2>1. PICK d \in net : \E rest \in {net, net \ {d}} :
          /\ Arrives(d, t, rest)
          /\ \/ TaskBegins(t, d, rest)
             \/ TaskAdvances(t, d, rest) \/ TaskStaleAck(t, d, rest)
             \/ TaskHearsError(t, d, rest)
    BY <1>5 DEF TaskReceives
  <2>2. PICK rest \in {net, net \ {d}} :
          /\ Arrives(d, t, rest)
          /\ \/ TaskBegins(t, d, rest)
             \/ TaskAdvances(t, d, rest) \/ TaskStaleAck(t, d, rest)
             \/ TaskHearsError(t, d, rest)
    BY <2>1
  <2>3. d.dst = t /\ d.packet.type # "ERROR"
    BY <1>3, <1>5, <2>2 DEF Arrives, PacketInv
  <2>4. Active(t)
    BY <1>2 DEF Active
  <2>5. client.end.attempt <= faults
    BY <1>5, <2>4 DEF TransferGoesWell
  <2> DEFINE e == tasks[t].end
  <2>6. Sends(e, Source, Params.windowsize) /\ e.status = "sending" /\ e \in Senders
    BY <1>2, <2>4, WhileSending
  <2>7. Source \in Seq(Stretch) /\ Params.windowsize \in Nat \ {0}
    BY ParamsFacts DEF GetInv
  <2> HIDE DEF e
  <2>8. ASSUME NEW c, Sends(c, Source, Params.windowsize), c.status = "sending",
               NEW s, s = NextRound(c), NEW task, task.end = s, task.oack = None,
               tasks' = [tasks EXCEPT ![t] = task], SendsWindow(t, s, rest)
        PROVE  TransferGoesWell'
    <3>1. /\ s.status \in {"ok", "sending"} /\ (s.status = "ok" \/ s.attempt <= faults')
          /\ Len(s.in_flight) = Params.windowsize \/ s.read = Len(Source)
      BY <1>1, <2>7, <2>8, NextRoundSends
    <3> QED
      BY <1>2, <1>3, <1>5, <2>5, <2>8, <3>1, PeerSends
  <2>9. CASE TaskBegins(t, d, rest)
    <3>1. PICK task, s : /\ tasks' = [tasks EXCEPT ![t] = task] /\ s = NextRound(e)
                         /\ task = [tasks[t] EXCEPT !.end = s, !.oack = None]
                         /\ SendsWindow(t, s, rest)
      BY <2>9 DEF TaskBegins, e
    <3>2. task.end = s /\ task.oack = None
      BY <1>3, <3>1 DEF Tasks
    <3> QED
      BY <2>6, <2>8, <3>1, <3>2
  <2>10. CASE TaskAdvances(t, d, rest)
    <3>1. PICK task, s, c : /\ tasks' = [tasks EXCEPT ![t] = task]
                            /\ c = ConsumeAck(e, d.packet.block) /\ s = NextRound(c)
                            /\ task = [tasks[t] EXCEPT !.end = s]
                            /\ SendsWindow(t, s, rest)
      BY <2>10 DEF TaskAdvances, e
    <3>2. task.end = s /\ task.oack = None
      BY <1>3, <2>10, <3>1 DEF Tasks, TaskAdvances, Waiting
    <3>3. Sends(c, Source, Params.windowsize) /\ c.status = "sending"
      BY <2>6, <2>7, <3>1, ConsumeAckSends
    <3> QED
      BY <2>8, <3>1, <3>2, <3>3
  <2>11. CASE TaskStaleAck(t, d, rest)
    <3>1. /\ UNCHANGED tasks /\ SendsWindow(t, e, rest) /\ ~Waiting(t)
      BY <2>11 DEF TaskStaleAck, e
    <3>2. e.attempt <= faults' /\ (Len(e.in_flight) = Params.windowsize \/ e.read = Len(Source))
      BY <1>1, <1>5, <3>1 DEF TransferGoesWell, AtWork, e
    <3>3. tasks' = [tasks EXCEPT ![t] = tasks[t]]
      <4>1. tasks \in [1 .. Len(tasks) -> Tasks(Offer)]
        BY LenProperties DEF GetInv, StateInv
      <4> QED
        BY <3>1, <4>1
    <3> QED
      BY <1>1, <1>2, <1>3, <1>5, <2>5, <2>6, <3>1, <3>2, <3>3, PeerSends DEF Waiting, e
  <2>12. CASE TaskHearsError(t, d, rest)
    BY <2>3, <2>12 DEF TaskHearsError
  <2> QED
    BY <2>2, <2>9, <2>10, <2>11, <2>12
<1>6. CASE t = p /\ TaskTimeout(t)
  <2> DEFINE e == tasks[t].end
  <2>1. /\ Active(p) /\ Deadline(p) /\ e \in Senders /\ e.status = "sending"
        /\ tasks \in [1 .. Len(tasks) -> Tasks(Offer)] /\ DOMAIN tasks = 1 .. Len(tasks)
    BY <1>2, <1>3, <1>6, LenProperties
       DEF Active, TaskTimeout, Tasks, GetInv, StateInv
  <2>2. /\ client.end.attempt <= faults
        /\ \/ GoesOn
           \/ client.end.attempt < faults /\ (~Waiting(p) => e.attempt < faults)
    BY <1>6, <2>1 DEF TransferGoesWell
  <2>3. ASSUME Waiting(p), TaskRepeats(p)
        PROVE  TransferGoesWell'
    <3>1. tasks'[p].oack = tasks[p].oack /\ net \subseteq net'
      BY <1>3, <1>6, <2>1, <2>3 DEF TaskRepeats, Tasks
    <3>2. Waiting(p)' /\ client'.peer = p
      BY <1>2, <2>3, <3>1 DEF Waiting
    <3>3. GoesOn => GoesOn'
      BY <1>1, <1>2, <3>1 DEF GoesOn, Answerable, Received
    <3> QED
      BY <1>1, <1>2, <2>2, <3>2, <3>3 DEF TransferGoesWell
  <2>4. ASSUME Waiting(p), TaskLosesClient(p)
        PROVE  TransferGoesWell'
    <3>1. tasks'[p].oack = tasks[p].oack /\ tasks'[p].end.status = "failed"
      BY <1>3, <1>6, <2>1, <2>4 DEF TaskLosesClient, Tasks, Senders
    <3>2. Waiting(p)' /\ ~Active(p)' /\ client'.peer = p
      BY <1>2, <2>4, <3>1 DEF Waiting, Active
    <3> QED
      BY <3>2 DEF TransferGoesWell
  <2>5. ASSUME ~Waiting(p)
        PROVE  TransferGoesWell'
    <3>1. AtWork(p)
      BY <2>5 DEF TransferGoesWell
    <3>2. e.attempt + 1 <= faults'
      <4>1. Quiet(p) => e.attempt < faults
        BY <2>1, <2>2, <2>5, QuietTransfer
      <4> QED
        BY <1>1, <1>6, <2>1, <3>1, <4>1, DeadlinePaid DEF AtWork
    <3>3. e.attempt < config.retries
      BY <1>1, <1>6, <3>2 DEF Few
    <3>4. TaskRepeats(p)
      BY <1>1, <1>6, <2>5, <3>3 DEF TaskTimeout, TaskLosesClient, TaskGivesUp
    <3>5. PICK s, task : /\ s = [e EXCEPT !.attempt = @ + 1]
                         /\ task = [tasks[t] EXCEPT !.end = s]
                         /\ tasks' = [tasks EXCEPT ![t] = task]
                         /\ net' = net \cup Datagrams(t, Client, SendWindow(e))
      BY <1>6, <2>5, <3>4 DEF TaskRepeats
    <3>6. /\ s.status = "sending" /\ s.attempt = e.attempt + 1
          /\ s.in_flight = e.in_flight /\ s.read = e.read
      BY <2>1, <3>5 DEF Senders
    <3>7. task.end = s /\ task.oack = None
      BY <1>3, <1>6, <2>5, <3>5 DEF Tasks, Waiting
    <3>8. SendsWindow(t, s, net)
      BY <3>5, <3>6 DEF SendsWindow, SendWindow
    <3>9. s.attempt <= faults' /\ (Len(s.in_flight) = Params.windowsize \/ s.read = Len(Source))
      BY <1>6, <3>1, <3>2, <3>6 DEF AtWork
    <3>10. /\ s.status \in {"ok", "sending"}
           /\ s.status = "ok" \/ s.attempt <= faults'
           /\ Len(s.in_flight) = Params.windowsize \/ s.read = Len(Source)
           /\ t = client.peer /\ UNCHANGED client /\ client.end.attempt <= faults
           /\ tasks' = [tasks EXCEPT ![t] = task]
      BY <1>2, <1>6, <2>2, <3>5, <3>6, <3>9
    <3> HIDE DEF e, p
    <3> QED
      BY <3>7, <3>8, <3>10, PeerSends
  <2> QED
    BY <1>6, <2>3, <2>4, <2>5 DEF TaskTimeout, TaskLosesClient
<1> QED
  BY <1>4, <1>5, <1>6

\* The client has sent its peer a packet.
LEMMA ClientAnswers ==
  ASSUME GetInv, [Next]_vars, UNCHANGED tasks,
         NEW p \in DOMAIN tasks, p = client'.peer, ~Waiting(p) => AtWork(p),
         Active(p) => client'.end.attempt <= faults',
         NEW packet, [src |-> Client, dst |-> p, packet |-> packet] \in net'
  PROVE  TransferGoesWell'
<1>1. /\ faults \in Nat /\ faults' \in Nat /\ faults <= faults'
      /\ tasks[p].end.attempt \in Nat /\ Params' = Params /\ Source' = Source
  BY AttemptFacts, SameRequest
<1>2. ~Waiting(p)' => AtWork(p)'
  BY <1>1 DEF Waiting, AtWork
<1>3. Active(p)' => client'.end.attempt <= faults'
  BY DEF Active
<1>4. Answerable([src |-> Client, dst |-> p, packet |-> packet])'
  BY DEF Answerable
<1>5. GoesOn'
  BY <1>4 DEF GoesOn
<1> QED
  BY <1>2, <1>3, <1>5 DEF TransferGoesWell

\* The client's first answer, to an OACK or a first block.
LEMMA TransferBegins ==
  ASSUME GetInv, [Next]_vars, DefaultWindowSize = 1, Requesting, RequestGoesWell,
         UNCHANGED <<config, tasks, disk>>, NEW d \in net, d.dst = Client, NEW rest,
         ClientMergesOack(d, rest) \/ ClientTakesFirst(d, rest), Transferring'
  PROVE  TransferGoesWell'
<1>1. d.src \in DOMAIN tasks /\ FromTask(d.src, d.packet) /\ client \in Clients /\ faults' \in Nat
  BY OnTheirWay, AttemptFacts DEF GetInv, StateInv
<1>2. CASE ClientMergesOack(d, rest)
  <2>1. disk # None /\ Offer # << >>
    <3>1. d.packet.type = "OACK"
      BY <1>2 DEF ClientMergesOack
    <3>2. \A n : DataPacket(Number(n), Source[n]).type # "OACK"
      BY DEF DataPacket
    <3>3. \A code : ErrorPacket(code).type # "OACK"
      BY DEF ErrorPacket
    <3> QED
      BY <1>1, <3>1, <3>2, <3>3 DEF FromTask
  <2>2. Waiting(d.src)
    BY <1>1, <2>1 DEF RequestGoesWell, AtWork, Active, GetInv, TaskInv
  <2>3. PICK neg, r : /\ r = NewReceiver(neg.windowsize, neg.blksize)
                      /\ StartsReceiving(d.src, neg, r, {AckPacket(0)}, rest)
    BY <1>2 DEF ClientMergesOack
  <2>4. r.attempt = 0
    BY <2>3 DEF NewReceiver
  <2>5. client'.end.attempt = 0 /\ client'.peer = d.src
    BY <1>1, <2>3, <2>4 DEF StartsReceiving, Clients
  <2>6. [src |-> Client, dst |-> d.src, packet |-> AckPacket(0)] \in net'
    BY <2>3 DEF StartsReceiving, Datagrams
  <2> QED
    BY <1>1, <2>2, <2>5, <2>6, ClientAnswers
<1>3. CASE ClientTakesFirst(d, rest)
  <2>1. disk # None /\ ~Waiting(d.src)
    BY <1>1, <1>3, FromTaskTypes DEF ClientTakesFirst
  <2>2. AtWork(d.src)
    BY <1>1, <2>1 DEF RequestGoesWell
  <2>3. PICK r : r = NewReceiver(Defaults.windowsize, Defaults.blksize)
    OBVIOUS
  <2>4. AnswersAtOnce(r, d.packet.data)
    BY <2>3 DEF NewReceiver, AnswersAtOnce, WindowFull, Defaults
  <2>5. d.packet.block = 1
    BY <1>1, <1>3 DEF ClientTakesFirst, ClientFailsWith, Transferring, Clients
  <2>6. PICK s : /\ s = AcceptBlock(r, 1, d.packet.data)
                 /\ StartsReceiving(d.src, Defaults, s, {AckPacket(1)}, rest)
    BY <1>3, <2>3, <2>4, <2>5 DEF ClientTakesFirst
  <2>7. s.attempt = 0
    BY <2>3, <2>6 DEF NewReceiver, AcceptBlock
  <2>8. client'.end.attempt = 0 /\ client'.peer = d.src
    BY <1>1, <2>6, <2>7 DEF StartsReceiving, Clients
  <2>9. [src |-> Client, dst |-> d.src, packet |-> AckPacket(1)] \in net'
    BY <2>6 DEF StartsReceiving, Datagrams
  <2> QED
    BY <1>1, <2>2, <2>8, <2>9, ClientAnswers
<1> QED
  BY <1>2, <1>3

\* The client takes a block.  If it does not answer at once, this was not a block that
\* the exchange depended on.
LEMMA TransferAccepts ==
  ASSUME GetInv, [Next]_vars, NoWrap, WholeInv, Transferring, TransferGoesWell,
         UNCHANGED <<config, tasks, disk>>, NEW d \in net, d.dst = Client,
         NEW rest, net \ {d} \subseteq rest, ClientAccepts(d, rest)
  PROVE  TransferGoesWell'
<1> DEFINE p == client.peer
           b == client.end.blocks_in_window
<1>1. /\ client \in Clients /\ client.end \in Receivers /\ p \in DOMAIN tasks /\ p # Client
      /\ Receives(client.end, Params.windowsize, Params.blksize)
      /\ Received \in Nat /\ client.phase = "data" /\ client.end.attempt \in Nat
      /\ b \in Nat
  BY WhileReceiving DEF ClientInv, Clients, Receivers
<1>2. /\ faults \in Nat /\ faults' \in Nat /\ faults <= faults' /\ tasks[p].end.attempt \in Nat
      /\ Params' = Params /\ Source' = Source
  BY <1>1, AttemptFacts, SameRequest
<1>3. PICK r : /\ r = AcceptBlock(client.end, d.packet.block, d.packet.data)
               /\ client'.end = r /\ client'.peer = p
  BY <1>1 DEF ClientAccepts, Clients
<1>4. r.attempt = 0
  BY <1>1, <1>3 DEF AcceptBlock, Receivers
<1>5. d.src = p /\ d.packet.type = "DATA" /\ d.packet.block = Number(Received + 1)
  BY <1>1 DEF ClientAccepts, FromPeer, Expects, Receives, Received
<1>6. CASE AnswersAtOnce(client.end, d.packet.data)
  <2>1. [src |-> Client, dst |-> p, packet |-> AckPacket(d.packet.block)] \in net'
    BY <1>5, <1>6 DEF ClientAccepts, Datagrams
  <2> QED
    BY <1>1, <1>2, <1>3, <1>4, <2>1, ClientAnswers DEF TransferGoesWell
<1>7. CASE ~AnswersAtOnce(client.end, d.packet.data)
  <2>1. net' = rest
    BY <1>7 DEF ClientAccepts, Datagrams
  <2>2. PICK n \in 1 .. Len(Source) : d.packet.block = Number(n) /\ d.packet.data = Source[n]
    BY <1>5, OnTheirWay, FromTaskTypes
  <2>3. /\ Received < Len(Source) /\ Len(Source) \in Nat /\ Len(Source) < Modulus
        /\ Params.windowsize \in Nat
    BY <1>1, WholeFacts DEF WholeInv, WholeClient, HasFinal, Transferring
  <2>4. n = Received + 1 /\ d.packet.block = Received + 1
    <3>1. n \in 0 .. Modulus - 1 /\ Received + 1 \in 0 .. Modulus - 1
      BY <1>1, <2>3, ModulusAssumption
    <3>2. Number(n) = n /\ Number(Received + 1) = Received + 1
      BY <3>1, ModulusAssumption, SmallResidue DEF Number, BlockNumber
    <3> QED
      BY <1>5, <2>2, <3>2
  <2>5. ~(d.packet.data.len < Params.blksize) /\ b + 1 < Params.windowsize
    BY <1>1, <1>7, <2>3 DEF AnswersAtOnce, IsFinal, WindowFull, Receives
  <2>6. n # Len(Source)
    BY <2>2, <2>5, ParamsFacts DEF GetInv
  <2>7. ~Answerable(d)
    BY <1>1, <2>3, <2>4, <2>5, <2>6 DEF Answerable
  <2>8. /\ client'.end.blocks_in_window = b + 1 /\ Received' = Received + 1
    <3>1. r.blocks_in_window = b + 1 /\ r.file = Append(client.end.file, d.packet.data)
      BY <1>1, <1>3, <1>7 DEF AcceptBlock, Receivers, AnswersAtOnce
    <3>2. Len(r.file) = Len(client.end.file) + 1
      BY <1>1, <3>1 DEF Receivers
    <3> QED
      BY <1>3, <3>1, <3>2 DEF Received
  <2>9. ASSUME NEW e \in net, Answerable(e)
        PROVE  e \in net' /\ Answerable(e)'
    <3>1. e \in net'
      BY <2>1, <2>7, <2>9
    <3>2. CASE e.dst = p
      BY <1>3, <3>1, <3>2 DEF Answerable
    <3>3. CASE e.dst # p
      <4>1. /\ e.dst = Client /\ e.src = p /\ e.packet.type = "DATA"
            /\ \/ e.packet.block <= Received \/ e.packet.block = Len(Source)
               \/ b + (e.packet.block - Received) >= Params.windowsize
        BY <2>9, <3>3 DEF Answerable
      <4>2. e.packet.block \in Int
        BY <4>1, OnTheirWay, FromTaskTypes, ModulusAssumption DEF Number
      <4>3. PICK k, have, l, w, f : /\ k = e.packet.block /\ have = Received /\ f = b
                                  /\ l = Len(Source) /\ w = Params.windowsize
        OBVIOUS
      <4>4. /\ k \in Int /\ have \in Nat /\ w \in Nat /\ f \in Nat
            /\ k <= have \/ k = l \/ f + (k - have) >= w
        BY <1>1, <2>3, <4>1, <4>2, <4>3
      <4>5. k <= have + 1 \/ k = l \/ (f + 1) + (k - (have + 1)) >= w
        BY ONLY <4>4
      <4>6. \/ e.packet.block <= Received' \/ e.packet.block = Len(Source)
            \/ (b + 1) + (e.packet.block - Received') >= Params.windowsize
        BY <2>8, <4>3, <4>5
      <4> QED
        BY <1>2, <1>3, <2>8, <3>1, <4>1, <4>6 DEF Answerable
    <3> QED
      BY <3>2, <3>3
  <2>10. GoesOn => GoesOn'
    BY <2>9 DEF GoesOn
  <2>11. (Active(p)' <=> Active(p)) /\ (Waiting(p)' <=> Waiting(p))
    BY <1>3 DEF Active, Waiting
  <2>12. ~Waiting(p) => AtWork(p)'
    BY <1>2, <1>3 DEF TransferGoesWell, AtWork
  <2> QED
    BY <1>1, <1>2, <1>3, <1>4, <2>10, <2>11, <2>12 DEF TransferGoesWell
<1> QED
  BY <1>6, <1>7

\* A step of a client that has a peer keeps the transfer going.
LEMMA TransferClient ==
  ASSUME GetInv, [Next]_vars, NoWrap, WholeInv, PacketInv,
         Transferring, TransferGoesWell, Transferring',
         ClientReceives \/ ClientTimeout
  PROVE  TransferGoesWell'
<1> DEFINE p == client.peer
<1>1. /\ client \in Clients /\ client.end \in Receivers /\ p \in DOMAIN tasks /\ p # Client
      /\ faults \in Nat /\ faults' \in Nat /\ faults <= faults' /\ client.end.attempt \in Nat
      /\ client.phase = "data" /\ ~Requesting
      /\ ~Waiting(p) => AtWork(p)
  BY AttemptFacts, WhileReceiving DEF ClientInv, Receives, TransferGoesWell
<1>2. ASSUME NEW d \in net, NEW rest \in {net, net \ {d}}, Arrives(d, Client, rest),
             UNCHANGED <<config, tasks, disk>>,
             \/ ClientMergesOack(d, rest) \/ ClientTakesFirst(d, rest)
             \/ ClientAccepts(d, rest) \/ ClientRejects(d, rest) \/ ClientIgnores(d, rest)
             \/ ClientHearsError(d, rest) \/ ClientTurnsAway(d, rest)
      PROVE  TransferGoesWell'
  <2>1. d.dst = Client /\ net \ {d} \subseteq rest
    BY <1>2 DEF Arrives
  <2>2. CASE ClientAccepts(d, rest)
    BY <1>2, <2>1, <2>2, TransferAccepts
  <2>3. CASE ClientRejects(d, rest)
    <3>1. /\ client'.end.attempt = 0 /\ client'.peer = p
          /\ [src |-> Client, dst |-> p, packet |-> AckPacket(client.end.last_acked)] \in net'
      BY <1>1, <2>3 DEF ClientRejects, RejectBlock, FromPeer, Datagrams, Clients, Receivers
    <3> QED
      BY <1>1, <1>2, <3>1, ClientAnswers
  <2>4. ASSUME UNCHANGED client, ~Answerable(d), rest \subseteq net'
        PROVE  TransferGoesWell'
    <3>1. \A e \in net : Answerable(e) => e \in net'
      BY <2>1, <2>4
    <3> QED
      BY <1>2, <2>4, <3>1, TransferFrame
  <2>5. CASE ClientIgnores(d, rest)
    BY <1>1, <2>1, <2>4, <2>5 DEF ClientIgnores, Answerable
  <2>6. CASE ClientTurnsAway(d, rest)
    BY <1>1, <2>1, <2>4, <2>6 DEF ClientTurnsAway, FromPeer, Answerable
  <2>7. CASE ClientHearsError(d, rest)
    BY <1>1, <2>7 DEF ClientHearsError, ClientFailsWith, Transferring, Clients
  <2> QED
    BY <1>1, <1>2, <2>2, <2>3, <2>5, <2>6, <2>7 DEF ClientMergesOack, ClientTakesFirst
<1>3. CASE ClientTimeout
  <2>1. UNCHANGED <<config, tasks, disk>> /\ Deadline(Client) /\ ClientReAcks
    BY <1>1, <1>3 DEF ClientTimeout, ClientAsksAgain, ClientGivesUp, ClientFailsWith, Clients,
                      Transferring
  <2>2. /\ client'.end.attempt = client.end.attempt + 1 /\ client'.peer = p
        /\ [src |-> Client, dst |-> p, packet |-> AckPacket(client.end.last_acked)] \in net'
    BY <1>1, <2>1 DEF ClientReAcks, Datagrams, Clients, Receivers
  <2>3. ASSUME Active(p)
        PROVE  client.end.attempt + 1 <= faults'
    <3>1. client.end.attempt <= faults /\ (Quiet(Client) => client.end.attempt < faults)
      BY <2>3, QuietTransfer DEF TransferGoesWell
    <3> QED
      BY <1>1, <2>1, <3>1, DeadlinePaid
  <2> QED
    BY <1>1, <2>1, <2>2, <2>3, ClientAnswers
<1> QED
  BY <1>2, <1>3 DEF ClientReceives

\* How a client fails.
LEMMA ClientFails ==
  ASSUME GetInv, ClientReceives \/ ClientTimeout, client'.phase = "failed"
  PROVE  /\ Requesting \/ Transferring
         /\ client'.end = client.end
         /\ Transferring =>
              \/ Deadline(Client) /\ client.end.attempt >= client.opts.retries
              \/ \E d \in net : /\ d.dst = Client /\ d.src = client.peer
                                /\ d.packet.type = "ERROR"
<1>1. client \in Clients
  BY DEF GetInv, StateInv
<1>2. ASSUME NEW d \in net, NEW rest \in {net, net \ {d}}, Arrives(d, Client, rest),
             \/ ClientMergesOack(d, rest) \/ ClientTakesFirst(d, rest)
             \/ ClientAccepts(d, rest) \/ ClientRejects(d, rest) \/ ClientIgnores(d, rest)
             \/ ClientHearsError(d, rest) \/ ClientTurnsAway(d, rest)
      PROVE  \/ ClientTakesFirst(d, rest) /\ client'.end = client.end
             \/ ClientHearsError(d, rest) /\ client'.end = client.end
  <2>1. ASSUME NEW neg, NEW r, NEW acks
        PROVE  ~StartsReceiving(d.src, neg, r, acks, rest)
    BY <1>1 DEF StartsReceiving, PhaseOf, Clients
  <2>2. ASSUME NEW error, ClientFailsWith(error)
        PROVE  client'.end = client.end
    BY <1>1, <2>2 DEF ClientFailsWith, Clients
  <2>3. ~ClientMergesOack(d, rest)
    BY <2>1 DEF ClientMergesOack
  <2>4. CASE ClientTakesFirst(d, rest)
    BY <2>1, <2>2, <2>4 DEF ClientTakesFirst
  <2>5. CASE ClientHearsError(d, rest)
    BY <2>2, <2>5 DEF ClientHearsError
  <2>6. /\ ~ClientAccepts(d, rest) /\ ~ClientRejects(d, rest) /\ ~ClientIgnores(d, rest)
        /\ ~ClientTurnsAway(d, rest)
    BY <1>1 DEF ClientAccepts, PhaseOf, ClientRejects, ClientIgnores, ClientTurnsAway, Clients,
                Transferring
  <2> QED
    BY <1>2, <2>3, <2>4, <2>5, <2>6
<1>3. CASE ClientReceives
  <2>1. PICK d \in net : \E rest \in {net, net \ {d}} :
          /\ Arrives(d, Client, rest)
          /\ \/ ClientTakesFirst(d, rest) /\ client'.end = client.end
             \/ ClientHearsError(d, rest) /\ client'.end = client.end
    BY <1>2, <1>3 DEF ClientReceives
  <2> QED
    BY <2>1 DEF Arrives, ClientTakesFirst, ClientHearsError, FromPeer, Requesting, Transferring,
                Listens, Client, Listener
<1>4. CASE ClientTimeout
  BY <1>1, <1>4 DEF ClientTimeout, ClientAsksAgain, ClientReAcks, ClientGivesUp, ClientFailsWith,
                    Clients, Requesting, Transferring
<1> QED
  BY <1>3, <1>4

\* A client that fails for too few misfortunes has received nothing, or cannot flush.
LEMMA FailsEmpty ==
  ASSUME GetInv, [Next]_vars, WholeInv, PacketInv, WellInv, Few', client'.phase = "failed"
  PROVE  Received' = 0 \/ client'.error = "Io"
<1>1. UNCHANGED client \/ ClientReceives \/ ClientTimeout \/ ClientReturns
  BY DEF Next, TaskStarts, TaskReceives, TaskTimeout, Lose, Terminated, vars
<1>2. CASE client.phase = "failed" /\ UNCHANGED client
  BY <1>2 DEF WellInv, Received
<1>3. CASE ClientReceives \/ ClientTimeout
  <2>1. /\ Requesting \/ Transferring
        /\ client'.end = client.end
        /\ Transferring =>
             \/ Deadline(Client) /\ client.end.attempt >= client.opts.retries
             \/ \E d \in net : /\ d.dst = Client /\ d.src = client.peer
                               /\ d.packet.type = "ERROR"
    BY <1>3, ClientFails
  <2>2. CASE Requesting
    BY <2>1, <2>2 DEF GetInv, ClientInv, Received
  <2>3. CASE Transferring
    <3> DEFINE p == client.peer
    <3>1. p \in DOMAIN tasks /\ (Waiting(p) => Received = 0) /\ (~Waiting(p) => AtWork(p))
      BY <2>3, WhileReceiving DEF ClientInv, WellInv, TransferGoesWell
    <3>2. ASSUME NEW d \in net, d.dst = Client, d.src = client.peer, d.packet.type = "ERROR"
          PROVE  Waiting(p)
      BY <3>1, <3>2 DEF PacketInv, AtWork
    <3>3. ASSUME Deadline(Client), client.end.attempt >= client.opts.retries
          PROVE  Waiting(p)
      <4>1. SUFFICES ASSUME AtWork(p)
                     PROVE  FALSE
        BY <3>1
      <4>2. Active(p)
        BY <4>1 DEF AtWork, Active
      <4>3. client.end.attempt <= faults /\ (Quiet(Client) => client.end.attempt < faults)
        BY <2>3, <4>2, QuietTransfer DEF WellInv, TransferGoesWell
      <4>4. /\ faults \in Nat /\ client.end.attempt \in Nat /\ client.opts.retries \in Nat
            /\ client'.opts = client.opts /\ faults' \in Nat
        BY AttemptFacts, SameRequest
      <4>5. client.end.attempt + 1 <= faults'
        BY <3>3, <4>3, <4>4, DeadlinePaid
      <4> QED
        BY <3>3, <4>4, <4>5 DEF Few
    <3> QED
      BY <2>1, <2>3, <3>1, <3>2, <3>3 DEF Received
  <2> QED
    BY <2>1, <2>2, <2>3
<1>4. CASE ClientReturns
  BY <1>4, ClientReturnsFrame
<1> QED
  BY <1>1, <1>2, <1>3, <1>4

\* Every step keeps the invariant.
LEMMA NextBegun ==
  ASSUME DefaultWindowSize = 1,
         GetInv, [Next]_vars, GetInv', NoWrap, WholeInv, WholeInv', BegunInv
  PROVE  BegunInv'
<1>1. PacketInv /\ PacketInv'
  BY NextPackets DEF BegunInv
<1> SUFFICES ASSUME Few'
             PROVE  WellInv'
  BY <1>1 DEF BegunInv
<1>2. Few /\ WellInv
  BY FaultsGrow DEF BegunInv
<1>3. client'.phase = "failed" => Received' = 0 \/ client'.error = "Io"
  BY <1>1, <1>2, FailsEmpty
<1>4. RequestGoesWell'
  BY <1>2, RequestStep DEF WellInv
<1>5. ASSUME Transferring'
      PROVE  TransferGoesWell'
  <2>1. CASE ClientReceives \/ ClientTimeout
    <3>1. CASE Transferring
      BY <1>1, <1>2, <1>5, <2>1, <3>1, TransferClient DEF WellInv
    <3>2. CASE ~Transferring
      <4>1. client \in Clients
        BY DEF GetInv, StateInv
      <4>2. ~ClientTimeout
        BY <1>5, <3>2, <4>1 DEF ClientTimeout, ClientAsksAgain, ClientReAcks, ClientGivesUp,
                                ClientFailsWith, Clients, Requesting, Transferring
      <4>3. PICK d \in net : \E rest \in {net, net \ {d}} :
              /\ Arrives(d, Client, rest)
              /\ \/ ClientMergesOack(d, rest) \/ ClientTakesFirst(d, rest)
                 \/ ClientHearsError(d, rest)
              /\ UNCHANGED <<config, tasks, disk>>
        BY <2>1, <3>2, <4>2 DEF ClientReceives, ClientAccepts, ClientRejects, ClientIgnores,
                                ClientTurnsAway
      <4>4. PICK rest \in {net, net \ {d}} :
              /\ Arrives(d, Client, rest)
              /\ \/ ClientMergesOack(d, rest) \/ ClientTakesFirst(d, rest)
                 \/ ClientHearsError(d, rest)
              /\ UNCHANGED <<config, tasks, disk>>
        BY <4>3
      <4>5. ~ClientHearsError(d, rest)
        BY <1>5, <4>1 DEF ClientHearsError, ClientFailsWith, Clients, Transferring
      <4>6. d.dst = Client /\ Requesting
        BY <4>4, <4>5 DEF Arrives, ClientMergesOack, ClientTakesFirst
      <4> QED
        BY <1>2, <1>5, <4>4, <4>5, <4>6, TransferBegins DEF WellInv
    <3> QED
      BY <3>1, <3>2
  <2>2. ASSUME UNCHANGED client
        PROVE  Transferring /\ TransferGoesWell /\ client.peer \in DOMAIN tasks
               /\ client.peer # Client /\ client.peer # Listener
    <3>1. Transferring
      BY <1>5, <2>2 DEF Transferring
    <3> QED
      BY <1>2, <3>1, WhileReceiving, TaskNumbers DEF ClientInv, WellInv, GetInv
  <2>3. CASE TaskStarts
    <3>1. PICK t : t = NewTid
      OBVIOUS
    <3>2. /\ UNCHANGED client /\ \A u \in DOMAIN tasks : tasks'[u] = tasks[u]
          /\ \A d \in net : d \in net' \/ d.dst = Listener
      BY <2>3, <3>1, StartsFrame
    <3>3. \A d \in net : Answerable(d) => d \in net'
      BY <2>2, <3>2 DEF Answerable, Client, Listener
    <3> QED
      BY <2>2, <3>2, <3>3, TransferFrame
  <2>4. ASSUME NEW t \in DOMAIN tasks, TaskReceives(t) \/ TaskTimeout(t)
        PROVE  TransferGoesWell'
    <3>1. UNCHANGED client
      BY <2>4 DEF TaskReceives, TaskTimeout
    <3> QED
      BY <1>1, <2>2, <2>4, <3>1, TransferTask
  <2>5. CASE Lose
    <3>1. UNCHANGED <<client, tasks>> /\ faults < faults'
      BY <2>5, AttemptFacts DEF Lose, Fault
    <3> QED
      BY <2>2, <3>1, TransferFrame
  <2>6. CASE UNCHANGED vars
    <3>1. UNCHANGED <<client, tasks, net>>
      BY <2>6 DEF vars
    <3> QED
      BY <2>2, <3>1, TransferFrame
  <2>7. ~ClientReturns
    BY <1>5, ClientReturnsFrame DEF Transferring
  <2> QED
    BY <2>1, <2>3, <2>4, <2>5, <2>6, <2>7 DEF Next, Terminated
<1>6. TransferGoesWell'
  BY <1>5 DEF TransferGoesWell
<1> QED
  BY <1>3, <1>4, <1>6 DEF WellInv

\* It holds when nothing has been sent but the request.
LEMMA InitBegun ==
  ASSUME Init
  PROVE  BegunInv
<1>1. GetInv
  BY InitGetInv
<1>2. PICK opts \in ClientOptions : client = NewClient(opts, "RRQ", 0, NewReceiver(1, 1))
  BY DEF Init
<1>3. client.phase = "request" /\ client \in Clients
  BY <1>1, <1>2 DEF NewClient, GetInv, StateInv
<1>4. tasks = << >> /\ DOMAIN tasks = {} /\ net = Ask(client.request, 0)
  BY DEF Init
<1>5. ASSUME NEW d \in net
      PROVE  d.src = Client /\ d.packet.type # "ERROR"
  <2>1. d.packet.type = "RRQ"
    BY <1>3, <1>4, AskIsProper DEF Clients
  <2> QED
    BY <1>4, <2>1 DEF Ask, Datagrams
<1> QED
  BY <1>3, <1>4, <1>5 DEF BegunInv, PacketInv, WellInv, RequestGoesWell, TransferGoesWell,
                          Transferring

\* Once the client has a block, no more misfortunes than either end has retries make
\* the download fail, unless writer.finish does, as long as the file does not wrap the
\* block numbers, whatever has been negotiated and however many tasks have answered the
\* request.  (The default windowsize is 1: a client that has got no OACK answers the first
\* block at once.)
THEOREM RobustnessOnceBegun ==
  ASSUME DefaultWindowSize = 1
  PROVE  Spec => [](NoWrap => RobustOnceBegun)
<1> DEFINE Inv == GetInv /\ (NoWrap => WholeInv /\ BegunInv)
<1>1. Init => Inv
  BY InitGetInv, InitWhole, InitBegun
<1>2. Inv /\ [Next]_vars => Inv'
  <2>1. SUFFICES ASSUME Inv, [Next]_vars
                 PROVE  Inv'
    OBVIOUS
  <2>2. GetInv' /\ (NoWrap' <=> NoWrap)
    BY <2>1, NextGetInv, SameRequest
  <2>3. NoWrap => WholeInv'
    BY <2>1, <2>2, NextWhole
  <2> QED
    BY <2>1, <2>2, <2>3, NextBegun
<1>3. Inv => (NoWrap => RobustOnceBegun)
  <2>1. SUFFICES ASSUME GetInv, BegunInv, Few, client.phase = "failed", client.error # "Io"
                 PROVE  client.end.file = << >>
    BY DEF RobustOnceBegun, Few
  <2>2. Len(client.end.file) = 0 /\ client.end.file \in Seq(Stretch)
    BY <2>1 DEF BegunInv, WellInv, Received, GetInv, StateInv, Clients, Receivers
  <2> QED
    BY <2>2, EmptySeq
<1> QED
  BY <1>1, <1>2, <1>3, PTL DEF Spec

-----------------------------------------------------------------------------
(* A download implements TransferPromise.  The file of the client is the   *)
(* part of the source that it has received, so a block more of it is the   *)
(* abstract Write; with the last one the client has acknowledged all, and  *)
(* it returns when it has flushed them.  A task ends well only when the    *)
(* client has acknowledged the last block, and may do so before that.      *)

\* In the beginning nothing has been written, and nobody has returned.
LEMMA InitPromise ==
  ASSUME Init
  PROVE  Promise!Init
<1>1. PICK opts \in ClientOptions : client = NewClient(opts, "RRQ", 0, NewReceiver(1, 1))
  BY DEF Init
<1>2. client.phase = "request" /\ client.end.file = << >>
  BY <1>1 DEF NewClient, NewReceiver
<1>3. DOMAIN tasks = {}
  BY DEF Init
<1> QED
  BY <1>2, <1>3 DEF Promise!Init

\* A packet or a deadline makes the client write the next block, fail, or do nothing to
\* the file.
LEMMA ClientPromise ==
  ASSUME GetInv, GetInv', NoWrap, WholeInv, Source' = Source, ClientReceives \/ ClientTimeout
  PROVE  [Promise!Next]_(Promise!promised)
<1>1. /\ WholeClient' /\ OneBlockAtMost /\ UNCHANGED tasks
      /\ client.phase \in {"request", "data"}
      /\ client'.phase \in {"request", "data", "finishing", "failed"}
  BY WholeClientStep DEF Requesting, Transferring, OneBlockAtMost, GetInv, StateInv, Clients
<1>2. /\ client.end.file \in Seq(Stretch) /\ client'.end.file \in Seq(Stretch)
      /\ Received \in Nat /\ Received' \in Nat
      /\ \A i \in 1 .. Received : client.end.file[i] = Source[i]
      /\ \A i \in 1 .. Received' : client'.end.file[i] = Source[i]
  <2>1. client.end.file \in Seq(Stretch) /\ client'.end.file \in Seq(Stretch)
    BY DEF GetInv, StateInv, Clients, Receivers
  <2> QED
    BY <1>1, <2>1, LenProperties DEF WholeInv, WholeClient, Received
<1>3. CASE Received' = Received
  <2>1. client'.end.file = client.end.file
    BY <1>2, <1>3, SeqEqual DEF Received
  <2> QED
    BY <1>1, <2>1 DEF Promise!Next, Promise!ReceiverFails, Promise!promised
<1>4. CASE Received' = Received + 1 /\ client'.phase # "failed"
  <2> DEFINE next == Source[Received + 1]
             longer == Append(client.end.file, next)
  <2>1. Received + 1 <= Len(Source) /\ Len(Source) \in Nat
    BY <1>1, <1>4, WholeFacts DEF WholeClient
  <2>2. next \in Stretch
    BY <1>2, <2>1, WholeFacts, ElementOfSeq
  <2>3. /\ longer \in Seq(Stretch) /\ Len(longer) = Received + 1
        /\ \A i \in 1 .. Received : longer[i] = client.end.file[i]
        /\ longer[Received + 1] = next
    BY <1>2, <2>2, AppendProperties DEF Received
  <2>4. client'.end.file = longer
    <3>1. Len(client'.end.file) = Len(longer)
      BY <1>4, <2>3 DEF Received
    <3>2. \A i \in 1 .. Len(longer) : client'.end.file[i] = longer[i]
      BY <1>2, <1>4, <2>3
    <3> QED
      BY <1>2, <2>3, <3>1, <3>2, SeqEqual
  <2>5. client.end.file # Source
    BY <1>2, <2>1 DEF Received
  <2> QED
    BY <1>1, <1>4, <2>4, <2>5
    DEF Promise!Next, Promise!Write, Promise!Complete, Received
<1> QED
  BY <1>1, <1>3, <1>4 DEF OneBlockAtMost

\* A client that returns from writer.finish succeeds with the whole file, or fails.
LEMMA ReturnPromise ==
  ASSUME GetInv, WholeInv, Source' = Source, ClientReturns
  PROVE  [Promise!Next]_(Promise!promised)
<1>1. /\ UNCHANGED tasks /\ client.phase = "finishing"
      /\ client'.end = client.end /\ client'.phase \in {"ok", "failed"}
  BY ClientReturnsFrame
<1>2. client.end.file = Source
  BY <1>1, FinalMeansAll DEF HasFinal
<1> QED
  BY <1>1, <1>2
  DEF Promise!Next, Promise!ReceiverSucceeds, Promise!ReceiverFails, Promise!Complete

\* A step of a task, or a request that starts one, makes the sender succeed or does
\* nothing to what is promised.
LEMMA TaskPromise ==
  ASSUME GetInv, GetInv', WholeInv, WholeInv', Source' = Source, UNCHANGED client,
         \A t \in DOMAIN tasks : /\ t \in DOMAIN tasks'
                                 /\ tasks[t].end.status = "ok" => tasks'[t].end.status = "ok"
  PROVE  [Promise!Next]_(Promise!promised)
<1> DEFINE Succeeded == \E t \in DOMAIN tasks : tasks[t].end.status = "ok"
<1>1. Succeeded => Succeeded'
  OBVIOUS
<1>2. Succeeded' => client.end.file = Source
  <2>1. SUFFICES ASSUME NEW t \in DOMAIN tasks', tasks'[t].end.status = "ok"
                 PROVE  HasFinal
    BY FinalMeansAll
  <2>2. Acked(tasks'[t].end) = Len(Source) /\ Acked(tasks'[t].end) <= Received
    BY <2>1 DEF WholeInv, WholeTask, Received
  <2> QED
    BY <2>2, WholeFacts DEF WholeInv, WholeClient
<1> HIDE DEF Succeeded
<1>3. CASE Succeeded' = Succeeded
  BY <1>3 DEF Promise!promised, Succeeded
<1>4. CASE Succeeded' /\ ~Succeeded
  BY <1>2, <1>4
  DEF Promise!Next, Promise!SenderSucceeds, Promise!Complete, Succeeded
<1> QED
  BY <1>1, <1>3, <1>4 DEF Succeeded

\* As long as the file does not wrap the block numbers, a download does what
\* TransferPromise says, however its requests, OACKs and tasks multiply: no task succeeds
\* before the client has written the whole file, which it may yet fail to flush.
THEOREM Implements == Spec => (NoWrap => KeepsPromise)
<1> DEFINE Inv == GetInv /\ (NoWrap => WholeInv)
<1>1. Init => Inv /\ Promise!Init
  BY InitGetInv, InitWhole, InitPromise
<1>2. Inv /\ [Next]_vars => Inv' /\ (NoWrap' <=> NoWrap)
  <2>1. SUFFICES ASSUME Inv, [Next]_vars
                 PROVE  Inv' /\ (NoWrap' <=> NoWrap)
    OBVIOUS
  <2>2. GetInv' /\ (NoWrap' <=> NoWrap)
    BY <2>1, NextGetInv, SameRequest
  <2> QED
    BY <2>1, <2>2, NextWhole
<1>3. ASSUME GetInv, WholeInv, GetInv', WholeInv', NoWrap, [Next]_vars
      PROVE  [Promise!Next]_(Promise!promised)
  <2>1. Source' = Source
    BY <1>3, SameRequest
  <2>2. CASE ClientReceives \/ ClientTimeout
    BY <1>3, <2>1, <2>2, ClientPromise
  <2>3. CASE TaskStarts
    <3>1. PICK t : t = NewTid
      OBVIOUS
    <3>2. /\ UNCHANGED client /\ DOMAIN tasks' = DOMAIN tasks \cup {t}
          /\ \A u \in DOMAIN tasks : tasks'[u] = tasks[u]
      BY <1>3, <2>3, <3>1, StartsFrame
    <3> QED
      BY <1>3, <2>1, <3>2, TaskPromise
  <2>4. ASSUME NEW t \in DOMAIN tasks, TaskReceives(t) \/ TaskTimeout(t)
        PROVE  [Promise!Next]_(Promise!promised)
    <3>1. /\ UNCHANGED client /\ tasks[t].end.status = "sending"
          /\ DOMAIN tasks' = DOMAIN tasks
          /\ \A u \in DOMAIN tasks : u # t => tasks'[u] = tasks[u]
      BY <1>3, <2>4, TaskFrame
    <3>2. \A u \in DOMAIN tasks : tasks[u].end.status = "ok" => tasks'[u].end.status = "ok"
      BY <3>1
    <3> QED
      BY <1>3, <2>1, <3>1, <3>2, TaskPromise
  <2>5. CASE Lose \/ UNCHANGED vars
    <3>1. UNCHANGED <<client, tasks>>
      BY <2>5 DEF Lose, vars
    <3> QED
      BY <2>1, <3>1 DEF Promise!promised
  <2>6. CASE ClientReturns
    BY <1>3, <2>1, <2>6, ReturnPromise
  <2> QED
    BY <1>3, <2>2, <2>3, <2>4, <2>5, <2>6 DEF Next, Terminated
<1> QED
  BY <1>1, <1>2, <1>3, PTL DEF Spec, KeepsPromise, Promise!Spec
=============================================================================
