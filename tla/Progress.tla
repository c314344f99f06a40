------------------------------- MODULE Progress -------------------------------
(* What the proofs that something comes to its end have in common.           *)
EXTENDS Integers

\* Of what some goroutines have before them, none has got more and one has got
\* less.  With finitely many goroutines and natural numbers that cannot go on for
\* ever.
Fewer(new, old) ==
    /\ \A g \in DOMAIN old : new[g] <= old[g]
    /\ \E g \in DOMAIN old : new[g] < old[g]
=============================================================================
