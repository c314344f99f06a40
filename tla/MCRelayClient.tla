--------------------------- MODULE MCRelayClient ---------------------------
(* RelayClient for TLC. *)
EXTENDS RelayClient
=============================================================================
