----------------------------- MODULE MCGetSession -----------------------------
(***************************************************************************)
(* Small instances of GetSession: the client asks for a windowsize, with   *)
(* or without a blksize; the server does or does not allow windows, so     *)
(* that it grants both, one or none, and begins with an OACK or with the   *)
(* first block; the file is there or not.                                  *)
(***************************************************************************)
EXTENDS GetSessionProperties

CONSTANTS
  Blksizes,    (* The client's --blksize, None if not given.                 *)
  Windowsizes, (* The client's --windowsize, None if not given.              *)
  Retries,     (* The client's --retries.                                    *)
  ServerRetries (* The server's --retries.                                   *)

MCOptions == [blksize : Blksizes, timeout_secs : {None}, windowsize : Windowsizes,
              request_tsize : {FALSE}, retries : Retries]

MCConfigs == [max_block_size : {MaxBlockSize}, allow_windowsize : BOOLEAN,
              retries : {ServerRetries}]
=============================================================================
