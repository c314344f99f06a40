------------------------------ MODULE Discovery ------------------------------
(***************************************************************************)
(* The discovery proxy: HandleRequest dispatches a request to the sweep or *)
(* to the inventory.  Both keep their working state in the call, and share *)
(* only the configuration, which a proxy instance gets once; so the module *)
(* explores one request at a time, of either kind, one after another.      *)
(* discovery_ldap is a query to a directory and has no state here.         *)
(***************************************************************************)
EXTENDS Sweep, CloudIdentity, Inventory

CONSTANTS Scopes,  \* the allowed_cidrs of a datasource: networks and host names
          SshPort  \* cfg.Port, and whether a sweep's ports include it

ASSUME DiscoveryAssumption ==
    /\ Scopes \subseteq [nets : SUBSET Prefix, names : SUBSET (Targets \ Literals)]
    /\ HostAddresses \in [Targets -> SUBSET Address]

discoveryVars == <<sweepVars, identityVars, inventoryVars>>

\* What the networks that parseAllowedCIDRs found contain.
Inside(nets) == {a \in Address : \E p \in nets : PrefixContains(p, a)}

DiscoveryInit(scopes) ==
    \E scope \in scopes :
        /\ SweepInit(scope.nets)
        /\ IdentityInit
        /\ InventoryInit(Inside(scope.nets), scope.names)

\* The hosts of a sweep that enrichCloudIdentity asks; the datasource may have no
\* SSH credentials, and then it asks none.
Asked(credentials) ==
    IF credentials THEN Cardinality({a \in DOMAIN hosts : SshPort \in hosts[a]}) ELSE 0

\* handleSweep after runSweep: the cloud identities, then the answer.
FinishSweep ==
    \/ /\ \E credentials \in BOOLEAN : EnrichCloudIdentity(Asked(credentials), sweepCancelled)
       /\ UNCHANGED sweepVars
    \/ IdentityNext /\ UNCHANGED sweepVars
    \/ identityStage = "done" /\ SweepAnswered /\ IdentityReset

HandleRequest ==
    \/ /\ stage = "idle" /\ UNCHANGED inventoryVars
       /\ \/ sweepStage # "returned" /\ SweepNext /\ UNCHANGED identityVars
          \/ sweepStage = "returned" /\ FinishSweep
    \/ sweepStage = "idle" /\ InventoryNext /\ UNCHANGED <<sweepVars, identityVars>>

DiscoverySpec == DiscoveryInit(Scopes) /\ [][HandleRequest]_discoveryVars

\* Every goroutine the handlers start keeps running: channel operations that
\* can go on do, and probes, dials and lookups end by their timeouts; commands do
\* once the host has let them start, which nothing makes it do (HostHangs and
\* HostSilent are not steps here).  Nothing is assumed of cancellations, host
\* timeouts or further requests.
DiscoveryFairness ==
    /\ WF_discoveryVars(SweepStep /\ UNCHANGED <<identityVars, inventoryVars>>)
    /\ WF_discoveryVars(/\ sweepStage = "returned"
                        /\ \/ \E credentials \in BOOLEAN :
                                 EnrichCloudIdentity(Asked(credentials), sweepCancelled)
                           \/ IdentityStep
                        /\ UNCHANGED <<sweepVars, inventoryVars>>)
    /\ WF_discoveryVars(InventoryStep /\ UNCHANGED <<sweepVars, identityVars>>)

\* No probe and no connection leaves the datasource's scope: a sweep's whole
\* networks are compared with the allowed ones (prefixWithinAny) and exclusions
\* are skipped address by address, while an inventory's targets are judged one by
\* one by concurrent lookups (isTargetAllowed) that may fail or be cancelled.
ScopeRespected == SweepInScope /\ OnlyInScopeContacted

\* A sweep or an inventory has been started and has not returned.
DiscoveryBusy ==
    \/ sweepStage \notin {"idle", "refused", "returned"}
    \/ sweepStage = "returned" /\ identityStage # "done"
    \/ stage \notin {"idle", "refused", "returned"}

\* It has nobody left to wait for but hosts that say nothing.
DiscoveryHeld == IdentityHeld \/ InventoryHeld
=============================================================================
