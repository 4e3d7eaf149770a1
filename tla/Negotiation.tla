---------------------------- MODULE Negotiation -----------------------------
(***************************************************************************)
(* Option negotiation (RFC 2347, 2348, 2349, 7440): what the client asks   *)
(* for, what survives the decoding of a packet, what the server grants,    *)
(* and which parameters each end takes from it.                            *)
(*                                                                         *)
(* An OptionSet is a function from option names to values.  The order of   *)
(* its items is left out: it is visible only in the layout of a packet.    *)
(* On the wire options are a sequence of pairs, in which a name may be     *)
(* repeated or unknown, and a value may be anything; a text that is no     *)
(* number is treated like a number out of range, names are in lower case.  *)
(***************************************************************************)
EXTENDS Naturals, Sequences

CONSTANTS
  None,               (* An option that is absent (a model value).         *)
  MinBlockSize,       (* MIN_BLOCK_SIZE, 8                                 *)
  MaxBlockSize,       (* MAX_BLOCK_SIZE, 65464                             *)
  MaxU8,              (* u8::MAX                                           *)
  MaxU16,             (* u16::MAX                                          *)
  MaxU64,             (* u64::MAX                                          *)
  DefaultBlockSize,   (* DEFAULT_BLOCK_SIZE, 512                           *)
  DefaultTimeout,     (* DEFAULT_TIMEOUT_SECS, 5                           *)
  DefaultWindowSize   (* DEFAULT_WINDOW_SIZE, 1                            *)

ASSUME NegotiationAssumption ==
  /\ MinBlockSize \in Nat \ {0} /\ MaxBlockSize \in 0 .. MaxU16
  /\ MaxU8 \in Nat /\ MaxU16 \in Nat /\ MaxU64 \in Nat
  /\ DefaultBlockSize \in MinBlockSize .. MaxBlockSize
  /\ DefaultTimeout \in 1 .. MaxU8
  /\ DefaultWindowSize \in 1 .. MaxU16

Names == {"blksize", "timeout", "tsize", "windowsize"}

\* What both ends start from.
Defaults == [blksize |-> DefaultBlockSize, timeout |-> DefaultTimeout,
             windowsize |-> DefaultWindowSize]

-----------------------------------------------------------------------------
(* On the wire.                                                            *)

\* A mutant: only the width of the integer is checked.
Parses(name, value) ==
  \/ name = "blksize"    /\ value \in 0 .. MaxU16
  \/ name = "timeout"    /\ value \in 0 .. MaxU8
  \/ name = "tsize"      /\ value \in 0 .. MaxU64
  \/ name = "windowsize" /\ value \in 0 .. MaxU16

\* The values that OptionValue::parse accepts.
Valid(name, value) ==
  \/ name = "blksize"    /\ value \in MinBlockSize .. MaxBlockSize
  \/ name = "timeout"    /\ value \in 1 .. MaxU8
  \/ name = "tsize"      /\ value \in 0 .. MaxU64
  \/ name = "windowsize" /\ value \in 1 .. MaxU16

Given(pairs, name) == {i \in DOMAIN pairs : pairs[i].name = name}

\* A mutant: the first pair of a name counts.
Earliest(pairs, name) ==
  pairs[CHOOSE i \in Given(pairs, name) : \A j \in Given(pairs, name) : i <= j].value

\* The last pair of a name counts, even if it is invalid and an earlier one is not.
Latest(pairs, name) ==
  pairs[CHOOSE i \in Given(pairs, name) : \A j \in Given(pairs, name) : j <= i].value

\* Decoding drops unknown names and invalid values without a word.
FromPairs(pairs) ==
  [name \in {n \in Names : Given(pairs, n) # {} /\ Valid(n, Latest(pairs, n))}
     |-> Latest(pairs, name)]

\* One item of the set is written, if it is there.
WithItem(pairs, options, name) ==
  IF name \in DOMAIN options THEN Append(pairs, [name |-> name, value |-> options[name]])
                             ELSE pairs

\* Encoding writes every item of the set, valid or not.
ToPairs(options) ==
  LET item(pairs, name) == WithItem(pairs, options, name)
  IN  item(item(item(item(<< >>, "blksize"), "timeout"), "tsize"), "windowsize")

-----------------------------------------------------------------------------
(* The client.  opts is its Options record; len the length of the file it  *)
(* puts, 0 for a get.                                                      *)

BuildRequestOptions(opts, len) ==
  LET wanted == [blksize    |-> opts.blksize,
                 timeout    |-> opts.timeout_secs,
                 tsize      |-> IF opts.request_tsize THEN len ELSE None,
                 windowsize |-> opts.windowsize]
  IN  [name \in {n \in Names : wanted[n] # None} |-> wanted[name]]

OrElse(options, name, default) ==
  IF name \in DOMAIN options THEN options[name] ELSE default

\* A mutant: the windowsize of the OACK is forgotten.
MergeWithoutWindow(initial, oack) ==
  [initial EXCEPT !.blksize = OrElse(oack, "blksize", @),
                  !.timeout = OrElse(oack, "timeout", @)]

MergeOack(initial, oack) ==
  [blksize    |-> OrElse(oack, "blksize", initial.blksize),
   timeout    |-> OrElse(oack, "timeout", initial.timeout),
   windowsize |-> OrElse(oack, "windowsize", initial.windowsize)]

-----------------------------------------------------------------------------
(* The server.  config is its Config record, size the length of the file   *)
(* it is asked to read, None for a write.                                  *)

\* clamp panics if its bounds are the wrong way round.
ClampPanics(config, requested) ==
  "blksize" \in DOMAIN requested /\ config.max_block_size < MinBlockSize

Clamp(config, blksize) ==
  IF blksize > config.max_block_size THEN config.max_block_size ELSE blksize

GrantsWindow(config, requested) ==
  "windowsize" \in DOMAIN requested /\ config.allow_windowsize

\* The options of the OACK.
Granted(config, requested, size) ==
  LET granted == (DOMAIN requested \ {"windowsize"})
                   \cup (IF GrantsWindow(config, requested) THEN {"windowsize"} ELSE {})
  IN  [name \in granted |->
         CASE name = "blksize" -> Clamp(config, requested.blksize)
           [] name = "tsize" /\ size # None -> size
           [] OTHER -> requested[name]]

\* The parameters that the server itself uses from now on.  Those that were
\* not requested stay at the defaults, config.timeout notwithstanding.
Negotiated(config, requested) ==
  [blksize    |-> IF "blksize" \in DOMAIN requested
                  THEN Clamp(config, requested.blksize) ELSE DefaultBlockSize,
   timeout    |-> OrElse(requested, "timeout", DefaultTimeout),
   windowsize |-> IF GrantsWindow(config, requested)
                  THEN requested.windowsize ELSE DefaultWindowSize]
=============================================================================
