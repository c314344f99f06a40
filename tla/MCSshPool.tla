----------------------------- MODULE MCSshPool -----------------------------
(* SshPool for TLC. *)
EXTENDS SshPool
=============================================================================
