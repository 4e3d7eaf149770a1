----------------------------- MODULE Handshake ------------------------------
(***************************************************************************)
(* One request and its answer, with nothing lost: from the options of the  *)
(* client and the configuration of the server to the parameters that each  *)
(* end uses in the data phase, or to the reason why there is none.  The    *)
(* request may also come from another program, which may put anything into *)
(* its datagram.                                                           *)
(*                                                                         *)
(* What loss and retransmission do to a handshake is the business of       *)
(* PutSession and GetSession.                                              *)
(***************************************************************************)
EXTENDS Negotiation, Requests

CONSTANTS
  Configs,        (* Configurations of the server.                          *)
  ClientOptions,  (* Options of the client.                                 *)
  OtherFrames,    (* Frames as other programs may send them.                *)
  FileSize        (* Length of the file that is read or written.            *)

ASSUME HandshakeAssumption ==
  /\ \A c \in Configs : c.max_block_size \in Nat
  /\ \A f \in OtherFrames : /\ f.path.components \in Seq({"normal", "cur", "parent"})
                            /\ f.pairs \in Seq([name : STRING, value : Nat])
  /\ FileSize \in 0 .. MaxU64

VARIABLES
  config,         (* The server's Config.                                   *)
  opts,           (* The client's Options, None for another program.        *)
  object,         (* What the path leads to: "nothing", "nowhere" (nor a    *)
                  (* directory for it), "file", "directory" or "forbidden"; *)
                  (* "new" if the server has created or truncated it.       *)
  before,         (* The object before the request.                         *)
  frame,          (* The request, None before it is sent.                   *)
  oack,           (* The options of the OACK, as pairs; empty if none.      *)
  server,         (* The parameters the server uses.                        *)
  client,         (* The parameters the client uses.                        *)
  phase           (* "start", "requested", "opened", "answered", "agreed",  *)
                  (* "ignored", "died", or the code of an ERROR.            *)

environment == <<config, opts, before>>
vars == <<environment, object, frame, oack, server, client, phase>>

Init ==
  /\ config \in Configs
  /\ opts \in ClientOptions \cup {None}
  /\ before \in {"nothing", "nowhere", "file", "directory", "forbidden"}
  /\ object = before
  /\ frame = None /\ oack = << >>
  /\ server = Defaults /\ client = Defaults
  /\ phase = "start"

\* do_get and do_put up to the first send_to.
Request ==
  /\ phase = "start"
  /\ opts # None
  /\ \E verb \in {"RRQ", "WRQ"} :
       frame' = [opcode |-> verb, complete |-> TRUE, mode |-> "octet",
                 path   |-> [absolute |-> FALSE, components |-> <<"normal">>],
                 pairs  |-> ToPairs(BuildRequestOptions(opts,
                              IF verb = "WRQ" THEN FileSize ELSE 0))]
  /\ phase' = "requested"
  /\ UNCHANGED <<environment, object, oack, server, client>>

OtherRequest ==
  /\ phase = "start"
  /\ opts = None
  /\ frame' \in OtherFrames
  /\ phase' = "requested"
  /\ UNCHANGED <<environment, object, oack, server, client>>

\* handle_initial of a packet that it cannot decode, or that is no request.
Ignore ==
  /\ phase = "requested"
  /\ ~IsRequest(frame)
  /\ phase' = "ignored"
  /\ UNCHANGED <<environment, object, frame, oack, server, client>>

\* The path is resolved and the file opened; opening to write creates or truncates it.
Open ==
  /\ phase = "requested"
  /\ IsRequest(frame)
  /\ Verdict(config, frame, object) = "ok"
  /\ object' = IF frame.opcode = "WRQ" THEN "new" ELSE object
  /\ phase' = "opened"
  /\ UNCHANGED <<environment, frame, oack, server, client>>

\* A mutant: the file is opened before the path is looked at.
OpenFirst ==
  /\ phase = "requested"
  /\ IsRequest(frame)
  /\ Verdict(config, frame, object) # "ok"
  /\ phase' = Verdict(config, frame, object)
  /\ object' = IF frame.opcode = "WRQ" /\ Opens(config, "WRQ", object) = "ok"
               THEN "new" ELSE object
  /\ UNCHANGED <<environment, frame, oack, server, client>>

Refuse ==
  /\ phase = "requested"
  /\ IsRequest(frame)
  /\ Verdict(config, frame, object) # "ok"
  /\ phase' = Verdict(config, frame, object)
  /\ UNCHANGED <<environment, object, frame, oack, server, client>>

Size == IF frame.opcode = "RRQ" THEN FileSize ELSE None

\* The first read of a directory fails.
ReadFails == object = "directory" /\ Granted(config, FromPairs(frame.pairs), Size) = << >>

\* serve_rrq and serve_wrq from negotiate to the first packet they send.
Answer ==
  /\ phase = "opened"
  /\ ~ReadFails
  /\ LET requested == FromPairs(frame.pairs)
     IN  /\ ~ClampPanics(config, requested)
         /\ oack' = ToPairs(Granted(config, requested, Size))
         /\ server' = Negotiated(config, requested)
  /\ phase' = "answered"
  /\ UNCHANGED <<environment, object, frame, client>>

\* The task ends before it has answered; only the client's timeout will tell.  The
\* metadata of a file that is to be read may be refused although it could be opened.
Die ==
  /\ phase = "opened"
  /\ \/ frame.opcode = "RRQ"
     \/ ClampPanics(config, FromPairs(frame.pairs))
     \/ ReadFails
  /\ phase' = "died"
  /\ UNCHANGED <<environment, object, frame, oack, server, client>>

\* The client receives the OACK.
Merge ==
  /\ phase = "answered"
  /\ opts # None
  /\ oack # << >>
  /\ client' = MergeOack(client, FromPairs(oack))
  /\ phase' = "agreed"
  /\ UNCHANGED <<environment, object, frame, oack, server>>

\* The server has granted nothing and answers with ACK(0) or DATA(1).
FallBack ==
  /\ phase = "answered"
  /\ opts # None
  /\ oack = << >>
  /\ phase' = "agreed"
  /\ UNCHANGED <<environment, object, frame, oack, server, client>>

Next ==
  \/ Request \/ OtherRequest \/ Ignore \/ Open \/ Refuse
  \/ Answer \/ Die \/ Merge \/ FallBack

Spec == Init /\ [][Next]_vars

-----------------------------------------------------------------------------
Parameters == [blksize : MinBlockSize .. MaxBlockSize, timeout : 1 .. MaxU8,
               windowsize : 1 .. MaxU16]

Codes == {"FileNotFound", "AccessViolation", "FileExists", "NotDefined"}

Served == {"opened", "answered", "agreed", "died"}

\* The shape of the state; in particular no value that parse refuses ever
\* becomes a parameter of a transfer.
TypeOK ==
  /\ config \in Configs /\ opts \in ClientOptions \cup {None}
  /\ object \in {before, "new"}
  /\ server \in Parameters /\ client \in Parameters
  /\ phase \in Served \cup Codes \cup {"start", "requested", "ignored"}

\* Both ends of a transfer use the same blksize, timeout and windowsize,
\* whatever the client asked for and the server refused, capped or dropped.
Agree == phase = "agreed" => client = server

\* The OACK answers the request: it grants only what the last word of the
\* client on that option asked for and decoding let through, never a larger
\* block than the client or max_block_size allows, never a window against
\* allow_windowsize, and everything else as requested.
OackAnswersRequest ==
  phase \in {"answered", "agreed"} =>
    \A i \in DOMAIN oack : \E k \in DOMAIN frame.pairs :
      LET name    == oack[i].name
          asked   == frame.pairs[k].value
          granted == oack[i].value
      IN  /\ frame.pairs[k].name = name
          /\ \A j \in DOMAIN frame.pairs : j > k => frame.pairs[j].name # name
          /\ Valid(name, asked)
          /\ name = "blksize" => granted <= asked /\ granted <= config.max_block_size
          /\ name = "windowsize" => config.allow_windowsize /\ granted = asked
          /\ name = "timeout" => granted = asked
          /\ name = "tsize" => granted = IF Size = None THEN asked ELSE Size

\* A request touches a file only if it is a WRQ that is going to be served, and
\* one that was there before only with allow_overwrite: whatever ends in an
\* ERROR, or in silence because it makes no sense, leaves everything as it was.
TouchesOnlyWhatItServes ==
  object = "new" =>
    /\ phase \in Served
    /\ frame.opcode = "WRQ"
    /\ before = "nothing" \/ (before = "file" /\ config.allow_overwrite)

\* Following the path of a request that is served never leaves the root, not
\* even on the way: at no place do its ".." outnumber the names before them.
Confined ==
  phase \in Served =>
    /\ ~frame.path.absolute
    /\ \A n \in 0 .. Len(frame.path.components) :
         LET walked(c) == {i \in 1 .. n : frame.path.components[i] = c}
         IN  Cardinality(walked("parent")) <= Cardinality(walked("normal"))

\* README.md says of the server's --timeout that it is the retransmit interval:
\* it is in force unless the client asks for another.
ConfiguredTimeoutInForce ==
  phase \in {"answered", "agreed"} =>
    \/ server.timeout = config.timeout
    \/ "timeout" \in DOMAIN FromPairs(frame.pairs)
=============================================================================
