------------------------------ MODULE Netascii ------------------------------
(***************************************************************************)
(* The streaming netascii translation of netascii.rs.  On the wire a line  *)
(* ends in CR LF, and a CR of the text is CR NUL.  The encoder has no      *)
(* state.  A decoder is a record                                           *)
(*   out         the bytes it has put out                                  *)
(*   pending_cr  the last byte was a CR whose partner is still to come     *)
(***************************************************************************)
EXTENDS Naturals, Sequences

CONSTANTS
  Byte,            (* The values of a byte.                                  *)
  CR, LF, NUL      (* Those that mean something.                             *)

ASSUME NetasciiAssumption ==
  /\ {CR, LF, NUL} \subseteq Byte
  /\ CR # LF /\ CR # NUL /\ LF # NUL

EncodeByte(b) ==
  CASE b = LF -> <<CR, LF>>
    [] b = CR -> <<CR, NUL>>
    [] OTHER  -> <<b>>

\* What has been put out after each of the bytes.
Encoded(bytes) ==
  LET out[n \in 0 .. Len(bytes)] ==
        IF n = 0 THEN << >> ELSE out[n - 1] \o EncodeByte(bytes[n])
  IN  out

\* ToWire::translate.
ToWire(bytes) == Encoded(bytes)[Len(bytes)]

NewDecoder == [out |-> << >>, pending_cr |-> FALSE]

\* What a CR and the byte after it stand for.
Pair(b) ==
  CASE b = LF  -> <<LF>>
    [] b = NUL -> <<CR>>
    [] OTHER   -> <<CR, b>>

DecodeByte(d, b) ==
  IF d.pending_cr THEN [out |-> d.out \o Pair(b), pending_cr |-> FALSE]
  ELSE IF b = CR  THEN [d EXCEPT !.pending_cr = TRUE]
  ELSE                 [d EXCEPT !.out = Append(@, b)]

\* The decoder after each of the bytes.
After(d, bytes) ==
  LET after[n \in 0 .. Len(bytes)] ==
        IF n = 0 THEN d ELSE DecodeByte(after[n - 1], bytes[n])
  IN  after

\* A mutant: the carry does not outlive the call.
ForgetsCr(d, bytes) == [After(d, bytes)[Len(bytes)] EXCEPT !.pending_cr = FALSE]

\* FromWire::translate.
FromWire(d, bytes) == After(d, bytes)[Len(bytes)]

\* A mutant: the end of the stream is not looked at.
FinishLoses(d) == [d EXCEPT !.pending_cr = FALSE]

\* A CR without a partner at the end of the stream.
Finish(d) ==
  IF d.pending_cr THEN [out |-> Append(d.out, CR), pending_cr |-> FALSE] ELSE d
=============================================================================
