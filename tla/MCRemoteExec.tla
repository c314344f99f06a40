----------------------------- MODULE MCRemoteExec -----------------------------
(* RemoteExec for TLC. *)
EXTENDS RemoteExec
=============================================================================
