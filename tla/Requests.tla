------------------------------ MODULE Requests ------------------------------
(***************************************************************************)
(* What the first packet of a transfer goes through before its options     *)
(* count: decoding, the resolution of its path, and the opening of the     *)
(* file.  A frame is what a client has put into a datagram:                *)
(*   opcode    "RRQ", "WRQ", "other" (another packet) or "unknown"         *)
(*   complete  every string ends in NUL, and every option has a value      *)
(*   mode      the text of the mode, in lower case                         *)
(*   path      absolute or not, and its components: "normal" names, "cur"  *)
(*             (.) and "parent" (..); without any it is the empty string   *)
(*   pairs     the options, as in Negotiation                              *)
(***************************************************************************)
EXTENDS Naturals, Sequences, FiniteSets

\* Modes that FromStr knows.  "mail" is not among them.
Modes == {"netascii", "octet", "binary"}

\* Decoding succeeds, and what it yields is a request.
IsRequest(frame) ==
  /\ frame.opcode \in {"RRQ", "WRQ"}
  /\ frame.complete
  /\ frame.mode \in Modes

\* A mutant: it is enough that the path does not begin with a "..".
ResolvesByStart(path) ==
  /\ path.components # << >>
  /\ ~path.absolute
  /\ path.components[1] # "parent"

\* resolve accepts the path.  The name of a decoded request has no NUL in it.
Resolves(path) ==
  /\ path.components # << >>
  /\ ~path.absolute
  /\ \A i \in DOMAIN path.components : path.components[i] \in {"normal", "cur"}

\* What open and map_io_to_error make of the object at the end of the path:
\* "ok", or the code of an ERROR.  A directory can be opened for reading; to
\* write into a directory that is not there is an error.
Opens(config, opcode, object) ==
  IF opcode = "RRQ"
  THEN CASE object \in {"nothing", "nowhere"} -> "FileNotFound"
         [] object = "forbidden" -> "AccessViolation"
         [] OTHER                -> "ok"
  ELSE CASE object = "nothing"   -> "ok"
         [] object = "nowhere"   -> "FileNotFound"
         [] ~config.allow_overwrite -> "FileExists"
         [] object = "forbidden" -> "AccessViolation"
         [] object = "directory" -> "NotDefined"
         [] OTHER                -> "ok"

\* The code that the client is sent, "ok" if none.
Verdict(config, frame, object) ==
  IF Resolves(frame.path) THEN Opens(config, frame.opcode, object) ELSE "AccessViolation"
=============================================================================
