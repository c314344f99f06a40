------------------------------ MODULE MCMcpProxy ------------------------------
(* McpProxy for TLC. *)
EXTENDS McpProxy, TLC
Symmetric == Permutations(Requests) \cup Permutations(Ids)
=============================================================================
