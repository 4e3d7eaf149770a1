------------------------------ MODULE MCDaemon -------------------------------
(***************************************************************************)
(* Model values for Daemon: three packets, one of which is no request.     *)
(***************************************************************************)
EXTENDS Daemon

CONSTANTS rrq, wrq, junk
=============================================================================
