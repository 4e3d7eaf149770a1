# A verification of aitftp

aitftp is a TFTP client and server (RFC 1350, with the options of RFC 2347,
2348, 2349 and 7440) written in async Rust. This directory holds TLA+ models of
it, the TLC configurations that check them, and proofs checked by TLAPS. Paths
such as `src/server.rs` and line numbers refer to the repository; PROJECT.json
maps every definition to the lines it models.

To run: `tlc -config get.cfg MCTransfer.tla` (the module of each configuration
is in the table of runs), and `tlapm TransferProofs.tla`.

## 1. The system

### Components

**The listener and the daemon** (`server.rs:111-228`, `bin/aitftpd.rs`). State:
the listening socket, the configuration, the set of spawned tasks. `run` receives
a packet, spawns a task for it and goes on; `handle_initial` decodes the packet
and turns a request into a transfer with a socket, and so a transfer identifier
(TID), of its own. `run_until` drops `run` when a future resolves. Tasks share
nothing but the configuration and the file system. *Correct* if no packet stops
the listener, and a shutdown does what the documents say to the transfers under way.

**Option negotiation** (`proto/options.rs`, `negotiate`, `build_request_options`,
`merge_oack`). No state, but two computations that must come to the same result:
the server computes its parameters from the request, the client from the OACK it
decodes. *Correct* if both use the same blksize, timeout and windowsize, and the
OACK grants nothing that was not asked for or is not allowed.

**The data phase.** `RrqSender` (`server.rs:367-560`) and the sending loop of
`do_put` (`client.rs:434-519`) are one algorithm: a window of blocks in flight is
filled from the file, sent as a whole, and sent again after a timeout and after
every packet that does not advance it; ACKs are cumulative. `WrqReceiver`
(`server.rs:622-726`) and the receiving loop of `do_get` (`client.rs:306-375`) are
the other: take the expected block, write it, acknowledge when the window is full
or the block is short, acknowledge again whatever was last accepted when anything
else arrives or the deadline passes. Block numbers are u16 and wrap to 0.
*Correct* if the file is written in order and completely, nobody reports a success
that is none, and both ends return.

**An upload** (`do_put`, `serve_wrq`, `recv_one`). The client sends its request
up to `retries + 1` times from one socket; every copy that reaches the listener
becomes a task, which opens (creates, truncates, or is refused) the file and answers from
its own TID. The client takes the first answer and turns every other source away.
*Correct* if an upload that reports success leaves the local file at the remote
end, and every task that was spawned ends.

**A download** (`do_get`, `serve_rrq`, `send_oack_and_wait_ack0`). As above, in
the other direction. A task that grants an option sends its OACK and waits for ACK(0),
repeating the OACK after every deadline and every other packet; a task that grants
none begins with DATA(1), from which the client learns that the defaults hold.
*Correct* if both ends use the same parameters, a download that reports success has
the whole file, and everybody returns.

**Reading a request** (`handle_initial`, `Request::decode`, `path_safe.rs`,
`map_io_to_error`): which datagrams are requests at all, where their path leads, and
which ERROR answers a file that cannot be opened. *Correct* if no path leaves the
root, and a request that ends in an ERROR leaves the files as they were.

**Cutting and translating a file** (`read_one_block`, `Sender::next_block`,
`netascii.rs`): a buffer that turns reads of any length into blocks of
exactly blksize bytes and one short last block, and a streaming translation
of line ends with one byte of carry. *Correct* if the blocks are the translated file,
cut, whatever the reads return, and the receiver writes the same bytes wherever the
cuts fall.

**The codec** (`proto/packet.rs`, `proto/opcode.rs`), **errors**, **configuration and
command lines**: pure functions and data.

### How they interact

Client and server interact through UDP datagrams only. Within the server the
listener hands each task a packet and never hears of it again; tasks meet on
disk. Every endpoint is sequential: between two `recv` calls it touches only its
own state, its file and its socket. All concurrency is therefore between
endpoints, through a network that loses, duplicates, delays and reorders, and
through the file two tasks may have open.

### What is hard

- Retransmission at both ends at once: each side's repeats provoke the other's.
- Acknowledgements by numbers that wrap, which a delayed datagram may outlive.
- Endpoints that return while their peer still waits: the last ACK is never repeated.
- Requests served twice, on one file.
- A handshake in which the repetition of a message is another message:
  a lost OACK is repeated as ACK(0) in an upload; and one in which the repetition is
  not answered: an OACK that comes again in a download.
- Bytes that belong together in two blocks, and reads that end anywhere.
- I/O errors between receiving, writing, acknowledging and flushing.
- Shutting down with transfers under way.

PROJECT.json lists these as hazards, line by line, with the properties that
watch over each, or the reason why none does yet.

## 2. The modules

    BlockNumbers ---- BlockSender   --+-- WindowedTransfer -- TransferProperties -- MCTransfer
                 \--- BlockReceiver --+                       (TransferProofs, BlockNumbersProofs)
                                      |
    Negotiation --+-------------------+-- Session --+-- PutSession -- PutSessionProperties -- MCPutSession
     (Negotiation-|                 (SessionProofs) |                 (PutSessionProofs)
      Proofs)     |                                 +-- GetSession -- GetSessionProperties -- MCGetSession
                  |                                                   (GetSessionProofs)
    Requests -----+-- Handshake -- MCHandshake
                      (HandshakeProofs)

    Netascii -- BlockReader -- BlockReaderProperties -- MCBlockReader
                               (BlockReaderProofs)
    Daemon -- MCDaemon

    TransferPromise, the abstract specification, is what TransferProperties,
    GetSessionProperties and PutSessionProperties show their systems to implement

| Module | Models | Its state and actions, and the code |
| --- | --- | --- |
| BlockNumbers | `wrapping_add`, `wrapping_sub`, `u16_le_in_window` | Arithmetic modulo `Modulus`, 2^16 in the code |
| BlockSender | `RrqSender`; `in_flight`, `next_block` of `do_put` | A sender is a record with the code's field names; `FillWindow`, `ConsumeAck`, `NextRound` are `fill_window`, `consume_ack`, and the top of `run`'s outer loop |
| BlockReceiver | `WrqReceiver`; the variables of `do_get` | A record with `next_block`, `blocks_in_window`, `last_acked`; `AcceptBlock` and `RejectBlock` are the two branches of the DATA arm |
| WindowedTransfer | The data phase, both directions | `snd`, `rcv`, `net`. One action per arm of the `match` after `recv_one`: `SenderAdvances`, `SenderStaleAck`, `SenderOther`, `SenderError`, timeouts (`SenderRetransmits`, `SenderGivesUp`), read errors, and likewise for the receiver. `Server` says which end is the server's; the ends differ in who sends ERROR when it gives up, and in who flushes before the last ACK |
| TransferPromise | Nothing: it says what a transfer promises | Four variables (the source, the file written, the word of either end), no packets: `Write`, `SenderSucceeds`, `ReceiverSucceeds` (the last flush, where it comes after the last ACK), and failures. Implemented by the data phase, by a download and by an upload |
| Negotiation | `OptionValue::parse`, `from_pairs`, `negotiate`, `build_request_options`, `merge_oack` | Operators on functions from option names to values |
| Requests | `Request::decode`, `Mode::from_str`, `resolve`, opening a file, `map_io_to_error` | Operators on a frame: what is told apart are the opcode, whether the strings are complete, the mode, the components of the path, and the options |
| Handshake | A request and its answer, nothing lost | `Request` (of this client) or `OtherRequest` (of any program), then `Ignore`, `Refuse` or `Open`, then `Answer` or `Die`, then `Merge` or `FallBack`, for every configuration, every object at the path and every option list |
| Session | What `do_get` and `do_put`, `serve_rrq` and `serve_wrq` have in common; `recv_one` | `client`, a sequence of `tasks`, the `disk`, `net`. Datagrams carry TIDs; requests are repeated, errors heard, strangers turned away. It is built from BlockSender, BlockReceiver and Negotiation |
| PutSession | `do_put` from its first WRQ, `serve_wrq` | The client has a sender, a task a receiver and the offset `pos` of its file handle |
| GetSession | `do_get` from its first RRQ, `serve_rrq`, `send_oack_and_wait_ack0` | The client has a receiver, a task a sender and the OACK for whose ACK(0) it waits; `TaskBegins` is the return of `send_oack_and_wait_ack0`. After the last ACK the client is `"finishing"` until `writer.finish()` returns (`ClientFinishes`) or fails (`ClientFinishFails`) |
| Netascii | `ToWire`, `FromWire`, `finish` | The decoder is a record with the code's `pending_cr` |
| BlockReader | `read_one_block`, `next_block` of the client's `Sender`, `write_block` | `pos`, `pending`, `eof`, `final`, the `blocks`, and what the receiver has written; one action for each read, each end of file, each block and each write |
| Daemon | `run`, `run_until`, `handle_initial`, `main` of aitftpd | The listening socket and its queue, what has become of each task, and whether the program has ended |

A *block* is told apart by its place in the file, and has a length, because the
length ends a transfer; in a session a *byte* is told apart by its place, because
there two ends may cut the file differently; in BlockReader a byte is a byte.
BlockReader shows that the blocks of a file are what the other modules call `Source`
and `Cut`. Names and messages are left out.

**One action spans one `recv` to the next.** An endpoint's code between two
receives does not read anything that another endpoint writes, so finer
steps would add interleavings that nobody can observe. In a session binding,
opening, negotiating and answering are one step for the same reason: until a task has
answered nobody knows its TID, and tasks that open the file in either order leave
the same file. There is one exception: after the last ACK of a download the server may
return before the client's `writer.finish()` does, and whether that fails is not yet
decided, so its return is a step of its own in GetSession. (In WindowedTransfer its
failure is part of the step that takes the last block, `ReceiverFinishFails`: the ends
share no state, and all that can be seen is what either has returned at last.)

**A block counts as written** when the file's handle has taken it. tokio's `File` may
report that a write has failed only at a later write or flush: in WindowedTransfer that
is `ReceiverWriteFails` for a later block, or the failure of the last flush.

**The network** is a set of datagrams, each with its destination. An endpoint may take any of
them (delay and reordering), `Lose` removes one, and a datagram may be taken
without being removed (duplication). Two identical datagrams on their way at the same
time are merged; since any of them may be duplicated this costs only the fault
it takes. In WindowedTransfer a datagram bears as a stamp the number of blocks written
when it was sent, and vanishes when more than `MaxAge` blocks have been written
since: without a bound of this kind no protocol with wrapping numbers is correct.
In a session the requests are numbered, so that several may be on their way, and
nothing vanishes by age: the files are shorter than a lap of the numbers.

**Faults** are losses, duplicates, I/O errors, and deadlines that pass although a
datagram is on its way to somebody who listens. `MaxFaults` bounds them. A deadline
that passes when nothing is on its way (`Quiet`) is no fault and costs nothing,
so every wait ends. In a session `Quiet` looks at the conversation between the
client and one task: what goes on in another keeps nobody waiting here.

## 3. The runs

| Run | Module, bounds | Shows |
| --- | --- | --- |
| `get` | MCTransfer; 5 blocks, 4 numbers, windows 2, 1 retry, lifetime 1, 2 faults, I/O errors, last block empty | A download: the inductive invariant IInv, which has TypeOK in it (so the window keeps to windowsize), and KeepsPromise: the transfer implements TransferPromise |
| `put` | MCTransfer; 5 blocks, 4 numbers, sender's window 1 and receiver's 2, 1 retry, lifetime 2, 2 faults, I/O errors | An upload whose ends disagree on windowsize, as after a lost OACK: WrittenInOrder, NeverForgetsUnwritten, SuccessMeansWritten, and BothEnd: no deadlock, no endless conversation |
| `get_robust` | MCTransfer; 5 blocks, 5 numbers, windows 2, 2 retries, lifetime 2, 2 faults | With no more faults than retries the file arrives (Robust, Delivered), across a wrap; RobustInv, on which the proof of Robust rests |
| `handshake` | MCHandshake; values on both sides of every limit, block caps below, within and above the legal range; frames of other programs with up to two options or up to three path components; five kinds of objects at the path | Agree, OackAnswersRequest for every request, repeated and invalid options included; TouchesOnlyWhatItServes and Confined: what is not served leaves the files as they were, and no path leaves the root on its way |
| `block_reader` | MCBlockReader; every file of up to 5 bytes over CR, LF, NUL and one other, blocks of 2 and 3 bytes, reads of every length, encoder and decoder on and off | BlocksAreCut, RoundTrip, DecodingIgnoresCuts, the inductive invariant CutInv behind them, which has TypeOK in it (so the pending buffer stays small), and EveryFileEnds |
| `put_session` | MCPutSession; 4 bytes in blocks of 2 (so an empty last one), or of 3 if that is asked for, window 2, 1 retry, up to 4 tasks, 2 faults, with and without allow_overwrite, with and without an old file | SuccessMeansIntact, OnlyPeerWrites, RefusalNotMistaken, KeepsPromise (the upload implements TransferPromise while the file is opened once and the blksize settled), AllReturn |
| `get_session` | MCGetSession; 4 bytes in blocks of 2 or 3, window 2 asked for and granted or not, 1 or 2 retries of the client and 2 of the server, up to 4 tasks, 2 faults, the file there or not, `writer.finish()` failing or not | SameParameters, SuccessMeansWhole (a task's success means that the client has written everything, not that it has flushed it), FirstComesFirst, NothingElseAwaited, RobustOnceBegun, KeepsPromise (the download implements TransferPromise), AllReturn |
| `daemon` | MCDaemon; two requests and a malformed packet, in a program that goes on and in one that exits, with and without listener errors | EveryPacketRead, DetachedFinish |
| `server_timeout` | MCHandshake | Finding 1 |
| `put_reopened` | MCPutSession; 3 bytes, allow_overwrite | Finding 2 |
| `put_unsettled` | MCPutSession; blksize 4 requested, default 2 | Finding 3 |
| `daemon_shutdown` | MCDaemon; the program is aitftpd | Finding 4 |

Each property of a passing run has a mutant in PROJECT.json, a plausible bug in a
modelled definition that the run catches.

### Why the bounds are enough

Five blocks against four or five block numbers make the numbers wrap, and the
wrap falls inside a window. Two faults are the least that
combine: a duplicate that stays behind and a loss that makes room for it. A
window of two is the least in which a cumulative ACK covers something, a window
starts in the middle of another and DATA overtakes DATA. For the safety properties the
proofs of section 5 remove these bounds altogether. In `put_session` two WRQs
and their duplicates make up to four tasks, and one retry makes every counter
reach its limit; the blksize is the default or is asked for, so that an OACK that is lost
leaves it settled or not. In `get_session` the client has fewer retries than the server, or as
many, and of the blksize and the windowsize both are granted, or one, or none, so that
an OACK precedes the data or not; 4 bytes are two full blocks and an empty one, or a
full one and a short one. No constant of `handshake` is essential beyond having
values on both sides of each limit: 0 and 1, 2 and 3 for MaxU8, 1 and 2, 3 and 4 for the
block sizes, 4 and 5 for MaxU16, 5 and 6 for MaxU64. In `block_reader` five bytes encode to up to ten,
so a pair falls on a cut, a file is a whole number of blocks or not before and
after translation, and what is pending stretches over more than one block.

`Robust` is sharp: with more faults than the smaller of the two `retries` TLC
finds a transfer that fails, and section 5 names the other conditions of it. Two remarks on its statement: the sender may fail
when the file is complete, since the receiver does not wait for repetitions of
the last block; and a premature deadline counts as a fault.

### Fairness

A tokio task whose socket is readable or whose deadline has passed is polled
again, so an endpoint that can receive does, and a deadline that passes with nothing on
its way is acted upon: weak fairness of the receive actions and of the timeouts
while `Quiet`. A socket is a queue, so a datagram that has arrived is
received before those that arrive later for ever; hence also weak fairness of the
actions that make progress (`SenderAdvances`, `ReceiverAccepts` and their likes in
the sessions). A download's `writer.finish()` returns, one way or the other. No fault need happen, no loss need stop, and no deadline
need pass while something is on its way. The two ends of BlockReader share one weak
fairness: they go on as long as one of them can. In Daemon every transfer is assumed to end, which is what
BothEnd and AllReturn establish.

## 4. Findings

1. **The server's timeout is never used** (`server.rs:242`). `Negotiated::defaults`
   takes the constant 5 seconds, and nothing reads `Config::timeout`. README.md:85
   calls `--timeout` the per-packet retransmit interval. The client has the same
   defect (`client.rs:263`): its own timeout is in force until the first answer only,
   while `bin/aitftp.rs:45` says that only an OACK overrides it.
2. **A repeated WRQ truncates the file under an upload** (`server.rs:584`). With
   allow_overwrite a WRQ that was retransmitted or duplicated is
   served by a second task, which truncates what the first has written. The first
   writes on at its own offset, the client reports success, and the file has a
   hole or is empty. SuccessMeansIntact shows that the second opening is
   the only cause but for finding 3: if the file has been opened once and the blksize is
   settled, success is right.
3. **A lost OACK leaves the ends with different parameters** (`server.rs:672`). The
   server's timeout repeats it as ACK(0), which the client understands as a refusal
   of all options. A different windowsize does no harm to the file (runs `put` and
   `put_session`), but a receiver that waits for a larger window than it is sent
   acknowledges only after its deadlines, and what retries are for is then spent on
   them; a different blksize ends the upload after the first block, with
   success reported by the server, or leaves the server waiting.
4. **Ctrl-C cuts transfers off** (`bin/aitftpd.rs:92`). Transfers are detached from
   `run_until`, but main returns after it and the runtime drops them; README.md:91
   says that they finish. In a program that goes on they do (DetachedFinish).

Five things no document speaks of:

- Without allow_overwrite a second copy of the WRQ is refused with FileExists, because of
  the file that the first has just created. If that refusal reaches the client first, `put`
  fails with it: when it overtakes the first answer, or when the first answer is lost and
  the client has sent its WRQ again. RefusalNotMistaken says that this cannot happen once
  the client has heard the first answer.
- `max_block_size` below 8 makes `clamp` panic on every request with a blksize, and
  `negotiate` runs after `open`: a WRQ of that kind first truncates or creates its file
  (`server.rs:591`, `Die` of Handshake).
- An RRQ for a directory opens it, and the first read fails inside the task: the
  client hears nothing (`server.rs:331`, `Die` of Handshake). The same goes for a file
  whose metadata cannot be read once it is open (`server.rs:335`).
- If ACK(0) is lost, the server repeats its OACK, which the client ignores
  (`client.rs:368`) but for which it starts its deadline over again; so ACK(0) goes out
  again only after the server has fallen silent. One lost packet can thus end a
  download, and RobustOnceBegun speaks only of those that have a block.
- In a download the last ACK goes out before `writer.finish()` (`client.rs:354`): the server
  may report success, and the flush of the client then fail. In an upload it is the other
  way round (`server.rs:691`).

## 5. The proofs

TLAPS proves the following for every file and file length, windowsize, number of
retries, number of faults and of tasks, and both directions.

| Theorem | States |
| --- | --- |
| TransferProofs!Invariance | `Spec => []IInv` |
| TransferProofs!TypeCorrect | `Spec => []TypeOK`, the limit of the window included |
| TransferProofs!Remembers | `Spec => []NeverForgetsUnwritten` |
| TransferProofs!InOrder | `Spec => []WrittenInOrder` |
| TransferProofs!Success | `Spec => []SuccessMeansWritten` |
| TransferProofs!Implements | `Spec => KeepsPromise`, that is, WindowedTransfer implements TransferPromise |
| TransferProofs!RobustInvariance | `Spec => []RobustInv` |
| TransferProofs!Robustness | `Spec => []Robust` |
| BlockReaderProofs!CutsDoNotMatter | Decoding two pieces of a text one after the other is decoding the text |
| BlockReaderProofs!TextComesBack | Decoding what has been encoded gives back every sequence of bytes |
| BlockReaderProofs!DecodesMeaning | The streaming decoder computes what the rules say of the whole text, whatever the text |
| BlockReaderProofs!CuttingInvariance | `Spec => []CutInv` |
| BlockReaderProofs!ReaderTypes | `Spec => []TypeOK`: pending stays below three blocks |
| BlockReaderProofs!Cutting | `Spec => []BlocksAreCut` |
| BlockReaderProofs!FilesComeBack | `Spec => []RoundTrip` |
| BlockReaderProofs!CutsAreInvisible | `Spec => []DecodingIgnoresCuts` |
| NegotiationProofs!OackTellsAll | What the client makes of the OACK are the parameters of `negotiate` |
| HandshakeProofs!HandshakeInvariance | `Spec => []HInv` |
| HandshakeProofs!HandshakeTypes | `Spec => []TypeOK`: no value that `parse` refuses becomes a parameter |
| HandshakeProofs!Agreement | `Spec => []Agree` |
| HandshakeProofs!OackAnswers | `Spec => []OackAnswersRequest` |
| HandshakeProofs!Touches | `Spec => []TouchesOnlyWhatItServes` |
| HandshakeProofs!Confinement | `Spec => []Confined`, for paths of any length |
| GetSessionProofs!GetInvariance | `Spec => []GetInv` |
| GetSessionProofs!GetTypes | `Spec => []TypeOK` |
| GetSessionProofs!ParametersAgree | `Spec => []SameParameters` |
| GetSessionProofs!OnlyAck0 | `Spec => []NothingElseAwaited` |
| GetSessionProofs!FirstBlockFirst | `Spec => []FirstComesFirst`, if DefaultWindowSize = 1 |
| GetSessionProofs!WholeFiles | `Spec => [](NoWrap => SuccessMeansWhole)` |
| GetSessionProofs!RobustnessOnceBegun | `Spec => [](NoWrap => RobustOnceBegun)`, if DefaultWindowSize = 1 |
| GetSessionProofs!Implements | `Spec => (NoWrap => KeepsPromise)`, that is, a download implements TransferPromise |
| PutSessionProofs!PutInvariance | `Spec => []PutInv` |
| PutSessionProofs!OnlyOneWrites | `Spec => []OnlyPeerWrites` |
| PutSessionProofs!NoMistake | `Spec => []RefusalNotMistaken` |
| PutSessionProofs!PutTypes | `Spec => [](NoWrap => TypeOK)` |
| PutSessionProofs!Intact | `Spec => [](NoWrap => SuccessMeansIntact)` |
| PutSessionProofs!Implements | `Spec => (NoWrap => KeepsPromise)`, that is, an upload implements TransferPromise |

### What they assume

Of the constants, what their modules say: `TransferAssumption`, `ModulusAssumption`,
`NegotiationAssumption` (the defaults lie within the limits), `HandshakeAssumption`,
`SessionAssumption`, and `NoneIsNoPacket` and `NoneIsNoFile`, which keep None apart
from what it stands in for. The theorems of TransferProofs, KeepsPromise included,
assume further

    WindowFits == MaxAge + SWindow < Modulus

A datagram may stay on its way while at most `MaxAge` blocks are written, and
the window must fit into the rest of the number space. The code does not see to
this: windowsize is granted up to 65535. The assumption is needed: with 4
numbers, windows of 3 and a lifetime of 1 TLC finds an ACK that makes the sender
drop a block nobody has written. In practice (windows of a few dozen
blocks, 65536 numbers) it allows a datagram to be delayed by tens of thousands of blocks.

RobustInvariance and Robustness assume more, all of it in

    Forgiving == /\ WindowFits
                 /\ ~IoErrors
                 /\ MaxFaults <= SRetries /\ MaxFaults <= RRetries
                 /\ RWindow <= SWindow /\ RWindow <= MaxAge + 1

No disk fails, and there are no more misfortunes than either end has retries: this is
what retries promise. A receiver whose window is larger than the sender's
acknowledges after deadlines only; with windows 3 and 2 TLC finds a transfer that
fails for any number of retries from 0 to 2 and as many faults. It is what a lost OACK leads to,
and no promise of the code is broken by it. The last conjunct is about the model of the
network: datagrams that vanish while the receiver is still filling one window would be
lost without a misfortune to count.

A session knows no lifetimes, so what is proved there about contents holds under

    NoWrap

which says that the blocks of the file and a window fit into the numbers: nothing that
is ever on its way can then be taken for something else. (Longer files are the business
of WindowedTransfer.) Two more conditions are not assumptions of the
theorems but parts of SuccessMeansIntact and of the KeepsPromise of an upload: `Once`, that the file
has been opened once at most, which is the negation of finding 2, and `BlksizeSettled`, that
client and task cut the file alike, which is what finding 3 refutes. Without either an
upload breaks its promise. No configuration and no request is excluded by them. FirstBlockFirst and RobustnessOnceBegun assume what the code
has, a default windowsize of one. (A client that has no OACK then answers the first
block at once. With a larger default that block could be overtaken by a later one, which
the client takes for a mistake; and the proof of the second would have to follow the rest of
that window, too.)

### The argument for the data phase

None of the properties is inductive. What carries them is that
every block number is that of a known place in the file:

- `Aligned`: the window is a stretch of the source, each block under the number
  of its place, and `next_block` is the number of the block after it.
- `FileInv`: what is written is a prefix of the source, and the receiver's two
  numbers are those of its end.
- `ProgressInv`: acknowledged <= written <= read.
- `DatagramInv`, for each datagram: a DATA packet holds a block of the source
  under its number, and the block is from less than a window before the
  place where the receiver stood when it was sent; an ACK has the number of that
  place; and neither place is more than `MaxAge` ago.
- `StatusInv`: what the ends have returned agrees with how far the file has come.

So an ACK and the blocks it might cover are within `MaxAge + SWindow` places
of one another, and so are a DATA packet and the block the receiver expects;
two places that close with equal numbers are equal (`EqualNumbers`), and
the modular test of `consume_ack` means on places what it was meant to
(`LeInWindow`). BlockNumbersProofs derives these two from the defining equation of
`%`. TransferProofs goes on with lemmas about the operators (`FillWindowFacts`,
`CoveredFacts`, `ConsumeAckFacts`, `NextRoundFacts`), then `SenderInv` and
`ReceiverInv`, with a step for each action, `NextInv`, and the theorems.
The refinement maps steps to steps: the sender's end in
`SenderSucceeds` or `SenderFails`, writing is `Write`, everything else stutters.

Robust speaks of failures, and needs accounts: every attempt that an end makes must
have been paid for by a misfortune. Attempts are made after deadlines; a
deadline passes without a misfortune only when nothing is on its way. So `RobustInv`
says: neither end has made more attempts than there have been misfortunes, and while
the receiver is at work, either something is on its way that will be answered
(`GoesOn`) or both ends have made fewer, so that there is one that no deadline
has been spent on yet. The crux is to say what will be answered. An ACK will: what does
not advance the window makes the sender send it again. A DATA packet will if the
receiver has its block already, if it is the last, or if it fills the window when all
before it arrive; any other could be accepted in silence (`Answerable`). And
it must not vanish before that (`Fresh`). Whenever a window is sent, one of its
blocks is of that kind, since the receiver's window is no larger; and whatever is
taken without being answered leaves that block where it was, answerable still.

### The argument for cutting and translating

CutInv says that three things are pieces of one wire, the translated file: `pending` is
what has been taken of it and is in no block, the blocks are its pieces of
`blksize`, and what the receiver has written is what it would make of the blocks
in one piece. That this is enough rests on what the two folds compute. Encoding a
chunk and then another is encoding both, likewise for decoding, with the
carry at the end of the first (`CutsDoNotMatter`). These are inductions over the
length of a text. The library's induction theorem takes a predicate, which the provers cannot
instantiate, but its well-foundedness of the natural numbers takes a set: so each
induction is a least counterexample (`NatLessThanWellFounded`, `WFMin`), which
the step rules out. The inductions along a path in HandshakeProofs go the same way.

### The argument for the negotiation

NegotiationProofs follows each option through `from_pairs`, `negotiate`, the OACK and
`merge_oack`: decoding drops what is out of range, and what is granted is within the range
that decoding lets through, so nothing is lost between the two ends. The invariant
of HandshakeProofs, `HInv`, says of each phase what the frame, the OACK and the
two sets of parameters have to do with one another. Confinement is stated by counting,
the way a reader would check a path; it holds because `resolve` lets no ".." through,
not even one that a name before it makes up for.

### The argument for the sessions

SessionProofs restates the lemmas about senders and receivers for files that are
cut into blocks (`Sends`, `Receives`), and proves what `Cut` yields: the blocks lie
end to end, and only the last is short.

In a session the difficulty is another one: any number of tasks, spawned by repetitions
of one request, talk to one client. Both invariants, `GetInv` and `PutInv`, have the
same three parts. `Proper` says of each datagram on its way that it is what its sender may
have sent *by now*: blocks of the one file under their numbers, ACKs of blocks that are
in the receiver's file, the OACK that every task derives from the one request. `ClientInv`
ties the client to its peer: before it has one it has nothing, and then it uses
parameters the peer has offered. `TaskInv` says that a task which is not the peer has
got nowhere, no block acknowledged in a download, no byte written in an upload. All
three are needed in every step: a datagram can be accepted only because it is
proper, and stays proper because what its sender has done does not go back. In an
upload `RefusalInv` adds that a task which refuses the request says nothing else, so the
client never chooses one. In a download whether there is an OACK follows
from the request, so all tasks begin alike.

On top of them, under NoWrap, `WholeInv` says how far everybody has come. In a download:
the client has the blocks from the first on, it has them all if and only if it has
got to `writer.finish()` (`HasFinal`), and no task counts a block
as acknowledged that the client does not have. In an upload: the peer has written
the blocks from the first on, up to the place in the file where the last of them ends,
and the client counts none as acknowledged that is not written (`PeerInv`); if the file
has been opened once, only the first task can have done it, and the file is what that
task has written, neither the old one nor another's (`OnceInv`).

RobustnessOnceBegun keeps accounts as Robustness does, under the condition `Few` that
there have been no more misfortunes than either end has retries; and since misfortunes
only add up, the condition, if it holds, has held all along. `BegunInv` says, first, that
nobody else can end the download: an ERROR is the last word of the task that sends it,
and the client sends one only to strangers (`PacketInv`). While the client
still asks, every task that began with DATA has its first block on its way or has
made fewer attempts than there have been misfortunes (`RequestGoesWell`): whichever
task the client takes first, the exchange is then in order. From there on
(`TransferGoesWell`) the argument is that of Robustness, except that the peer may
still be waiting for ACK(0); as long as it is, the client has no block, and is
allowed to fail. So is a client whose `writer.finish()` fails: that is no misfortune of
the exchange, which is over.

The refinements rest on WholeInv, too. The source of the promise is the file cut with the
parameters that every task derives from the request, and it never changes. In a
download the file of the promise is the client's, and its sender is no task in
particular: it has succeeded when one of them has. Its receiver has succeeded when `get`
has returned. A client that has a block has as many as
its `WholeInv` says, so its file is determined by their number, and what a step may
do to it follows from `OneBlockAtMost`, an action property: no step gives the client
more than one block, and none returns success at once. A task succeeds only when its last
block is acknowledged, and by WholeInv the client then has written the whole
(`FinalMeansAll`): it is in `writer.finish()`, has returned from it, or has failed in it. That
the receiver has flushed when the sender succeeds is promised by an upload only; the
promise of a download has FlushesFirst FALSE.

In an upload the file of the promise is what lies on the disk, in bytes, cut into pieces
of the blksize. `OnDisk` counts the pieces, `DiskInv` says that while the task
receives only full blocks have been written, and `OnceInv` says with which blksize.
Writing a block appends a piece (`NextPiece`); opening leaves nothing, and
no later task opens the file (`OnceStarts`). The conditions of KeepsPromise are about
the state after a step, and the proof needs them before it: a file that
has been opened once had not been opened twice before, and a client that agrees with its
peer has agreed since it has had one (`SettledBefore`).

### What is only model-checked

The liveness properties (BothEnd, Delivered, AllReturn, EveryPacketRead,
DetachedFinish, EveryFileEnds), which are beyond the prover. Of the safety properties
that passing runs check, only the TypeOK of Daemon: what matters there, that every
packet is read and that detached transfers finish, is liveness, and the types by
themselves say little.

## 6. What is not modelled, and why

- The byte layout of packets: pure functions of a few bytes each. What
  decoding does to options is modelled, as is which first packets are requests; that a
  data phase ignores what it cannot decode has the shape of `SenderOther` and
  `ReceiverOther`. A malformed answer ends the request phase of a client
  (`client.rs:282`, `414`); this server sends none.
- Error texts, logging, command lines, builders, name resolution. Splitting a
  path into components is the standard library's.
- I/O errors in a session, except that the `writer.finish()` of a download may fail: they
  are in WindowedTransfer, for both ends of both directions, and in BlockReader a read
  never fails.
- Errors of the socket of a transfer: the endpoint returns, and its peer sees what
  it sees when all packets of a dead endpoint are lost.
- Time. Deadlines are steps that may happen, not clocks; the length of a
  timeout matters only in `server_timeout`.
- Several clients on one file: the code promises nothing about them.

## 7. What is left to do

1. Errors of a transfer's socket in WindowedTransfer: an endpoint that returns at once,
   without a word, and the proofs of StatusInv with it.
2. The other I/O errors in PutSession and GetSession, where a peer's ERROR meets the
   repetitions of a request.
3. Two clients that upload the same file, once the code says what it promises them.
4. A lifetime of datagrams in the sessions, so that WholeFiles, Intact and the
   two refinements hold for files of any length, as InOrder and Success do for the data phase.
