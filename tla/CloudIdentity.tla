---------------------------- MODULE CloudIdentity ----------------------------
(***************************************************************************)
(* enrichCloudIdentity (pkg/proxy/discovery): the last part of a sweep on  *)
(* a datasource with SSH credentials.  One goroutine for each host found   *)
(* with the SSH port open; a semaphore's worth of them dial their host and *)
(* run a command on it, and the sweep waits for all of them.  They do not  *)
(* differ, so the module counts them.                                      *)
(***************************************************************************)
EXTENDS Integers

CONSTANT IdentitySlots  \* cfg.concurrency

ASSUME IdentityAssumption == IdentitySlots \in Nat \ {0}

VARIABLES identityStage,     \* none, asking, done
          waiting,           \* goroutines at the semaphore
          asking,            \* goroutines that dial or run the command
          silenced,          \* goroutines whose host says nothing any more
          identityCancelled  \* the request's context is done

identityVars == <<identityStage, waiting, asking, silenced, identityCancelled>>

\* The type invariant of the stage; it has at most its semaphore's worth of hosts.
IdentityTypeOK ==
    /\ identityStage \in {"none", "asking", "done"}
    /\ waiting \in Nat /\ asking \in Nat /\ silenced \in Nat
    /\ asking + silenced <= IdentitySlots
    /\ identityCancelled \in BOOLEAN

IdentityInit ==
    /\ identityStage = "none"
    /\ waiting = 0 /\ asking = 0 /\ silenced = 0
    /\ identityCancelled = FALSE

\* The goroutines are started: n hosts, under a context that may be done already.
EnrichCloudIdentity(n, cancelled) ==
    /\ identityStage = "none"
    /\ identityStage' = "asking"
    /\ waiting' = n
    /\ identityCancelled' = cancelled
    /\ UNCHANGED <<asking, silenced>>

\* The select at the semaphore: a token, or the end of the context.
AskHost ==
    /\ waiting > 0 /\ asking + silenced < IdentitySlots
    /\ waiting' = waiting - 1
    /\ asking' = asking + 1
    /\ UNCHANGED <<identityStage, silenced, identityCancelled>>

SkipHost ==
    /\ waiting > 0 /\ identityCancelled
    /\ waiting' = waiting - 1
    /\ UNCHANGED <<identityStage, asking, silenced, identityCancelled>>

\* The host has an identity or failed to give one: every way out is the same here.
HostAsked ==
    /\ asking > 0
    /\ asking' = asking - 1
    /\ UNCHANGED <<identityStage, waiting, silenced, identityCancelled>>

\* As in an inventory, a host that keeps its connection up and answers neither
\* client.NewSession nor session.Start holds its goroutine for good.
HostSilent ==
    /\ asking > 0
    /\ asking' = asking - 1
    /\ silenced' = silenced + 1
    /\ UNCHANGED <<identityStage, waiting, identityCancelled>>

\* wg.Wait returns.
IdentityReturns ==
    /\ identityStage = "asking"
    /\ waiting = 0 /\ asking = 0 /\ silenced = 0
    /\ identityStage' = "done"
    /\ UNCHANGED <<waiting, asking, silenced, identityCancelled>>

IdentityCancel ==
    /\ identityStage = "asking" /\ ~identityCancelled
    /\ identityCancelled' = TRUE
    /\ UNCHANGED <<identityStage, waiting, asking, silenced>>

\* Nothing of it is left for the next request.
IdentityReset ==
    /\ identityStage' = "none"
    /\ identityCancelled' = FALSE
    /\ UNCHANGED <<waiting, asking, silenced>>

IdentityStep == AskHost \/ SkipHost \/ HostAsked \/ IdentityReturns
IdentityNext == IdentityStep \/ HostSilent \/ IdentityCancel

\* The stage waits for silent hosts only: whoever still waits has no token to get.
IdentityHeld ==
    /\ silenced > 0 /\ asking = 0
    /\ waiting > 0 => silenced = IdentitySlots /\ ~identityCancelled
=============================================================================
