---------------------------- MODULE ProxyContract ----------------------------
(***************************************************************************)
(* What the operations of the Proxy interface (pkg/proxy/registry.go)      *)
(* promise a caller, whatever locks an implementation takes and however    *)
(* long it waits for the network: each takes effect at one instant.        *)
(***************************************************************************)
CONSTANTS Calls,     \* calls of Configure, each with its own configuration
          Requests,  \* calls of HandleRequest and HealthCheck
          None

VARIABLES current,   \* the configuration in force, or None
          retired,   \* Close has been called on a proxy that remembers it
          servedBy   \* the configuration each request was served with

contractVars == <<current, retired, servedBy>>

ContractInit ==
    /\ current = None
    /\ retired = FALSE
    /\ servedBy = [r \in Requests |-> None]

\* A configuration comes into force with its client, settings and credentials.
Install(k) ==
    /\ ~retired
    /\ current' = k
    /\ UNCHANGED <<retired, servedBy>>

\* It is given up: its client is closed, before a new one is dialled or for good.
Withdraw ==
    /\ current' = None
    /\ UNCHANGED <<retired, servedBy>>

Retire ==
    /\ retired' = TRUE
    /\ current' = None
    /\ UNCHANGED servedBy

\* A request is served with all of the configuration in force at this instant.
Serve(r) ==
    /\ current # None
    /\ servedBy[r] = None
    /\ servedBy' = [servedBy EXCEPT ![r] = current]
    /\ UNCHANGED <<current, retired>>

ContractNext ==
    \/ \E k \in Calls : Install(k)
    \/ Withdraw
    \/ Retire
    \/ \E r \in Requests : Serve(r)

ContractSpec == ContractInit /\ [][ContractNext]_contractVars
=============================================================================
