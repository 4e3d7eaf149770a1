----------------------------- MODULE MCPutSession -----------------------------
(***************************************************************************)
(* Small instances of PutSession.  The client asks for the options that    *)
(* are not None, the server grants all of them, with and without           *)
(* --allow-overwrite.                                                      *)
(***************************************************************************)
EXTENDS PutSessionProperties

CONSTANTS
  Blksizes,    (* The client's --blksize, None if not given.                 *)
  Windowsize,  (* The client's --windowsize, or None.                        *)
  Retries,     (* The --retries of both ends.                                *)
  Overwrite    (* Values of the server's --allow-overwrite.                  *)

MCOptions == [blksize : Blksizes, timeout_secs : {None}, windowsize : {Windowsize},
              request_tsize : {FALSE}, retries : {Retries}]

MCConfigs == [max_block_size : {MaxBlockSize}, allow_windowsize : {TRUE},
              allow_overwrite : Overwrite, retries : {Retries}]
=============================================================================
