------------------------------ MODULE MCMcpStdio ------------------------------
(* McpStdio for TLC. *)
EXTENDS McpStdio
=============================================================================
