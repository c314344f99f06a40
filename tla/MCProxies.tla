------------------------------ MODULE MCProxies ------------------------------
(* Small instances of the proxies and of the credential stores for TLC. *)
EXTENDS Proxies, TLC

CONSTANTS k1, k2, k3

MCReadOnlyOf == k1 :> "yes" @@ k2 :> "no" @@ k3 :> "unset"
MCCapOf == k1 :> 1 @@ k2 :> MaxInt @@ k3 :> 2

Symmetric == Permutations(Requests)
=============================================================================
