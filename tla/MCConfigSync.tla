---------------------------- MODULE MCConfigSync ----------------------------
(* Small instances of ConfigSync for TLC. *)
EXTENDS ConfigSync, TLC

MCIds == Names \X {"main", "ssh"}
MCInstances == (Pushes \cup {Boot}) \X MCIds
MCPooled == {<<n, "ssh">> : n \in Discovery}
MCFlaky == {<<n, "main">> : n \in Names \ (Local \cup Discovery)}
=============================================================================
