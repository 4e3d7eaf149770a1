----------------------------- MODULE MCHandshake -----------------------------
(***************************************************************************)
(* Small instances of Handshake: Values lie on both sides of every limit   *)
(* of an option, and max_block_size may lie below the smallest block size. *)
(***************************************************************************)
EXTENDS Handshake

CONSTANTS
  Values,      (* Values of an option, valid and invalid.                    *)
  BlockCaps,   (* Values of the server's max_block_size.                     *)
  Timeouts,    (* Values of the server's --timeout.                          *)
  MaxPairs     (* Length of another client's list of options.                *)

MCConfigs == [max_block_size  : BlockCaps, allow_windowsize : BOOLEAN,
              allow_overwrite : BOOLEAN,   timeout          : Timeouts]

MCClientOptions ==
  [blksize       : (Values \cap (0 .. MaxU16)) \cup {None},
   timeout_secs  : (Values \cap (0 .. MaxU8)) \cup {None},
   windowsize    : (Values \cap (0 .. MaxU16)) \cup {None},
   request_tsize : BOOLEAN]

UpTo(n, S) == UNION {[1 .. k -> S] : k \in 0 .. n}

Plain == [absolute |-> FALSE, components |-> <<"normal">>]

\* Requests that make sense, with any options.
Optioned ==
  [opcode : {"RRQ", "WRQ"}, complete : {TRUE}, mode : {"octet"}, path : {Plain},
   pairs  : UpTo(MaxPairs, [name : Names \cup {"unknown"}, value : Values])]

\* Anything else, without options.
Odd ==
  [opcode : {"RRQ", "WRQ", "other", "unknown"}, complete : BOOLEAN,
   mode   : {"netascii", "binary", "mail"},
   path   : [absolute : BOOLEAN, components : UpTo(3, {"normal", "cur", "parent"})],
   pairs  : {<< >>}]

MCOtherFrames == Optioned \cup Odd
=============================================================================
