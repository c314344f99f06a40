----------------------------- MODULE MCVerifier -----------------------------
(* Verifier on a small instance: two nonces, three envelopes, two goroutines. *)
EXTENDS Verifier, TLC

Symmetric == Permutations(Nonces) \cup Permutations(Goroutines)
=============================================================================
