------------------------------- MODULE Proxies -------------------------------
(***************************************************************************)
(* The other proxies that newProxyByType creates (pkg/ws/handler.go),      *)
(* and the stores of the credentials they are configured with.  Instances  *)
(* share nothing but those stores, so a behaviour is that of one instance  *)
(* of one kind, or of a store: active says which, and the rest is at rest. *)
(***************************************************************************)
EXTENDS ClientProxy, SshPool, CredentialStore, SecretCache

VARIABLE active

Parts == {"client", "ssh", "credentials", "secrets"}

proxyVars == <<active, clientVars, poolVars, storeVars, secretVars>>

\* newProxyByType: a client proxy is of one of five kinds.
NewProxyByType ==
    /\ active \in Parts
    /\ ClientInit(IF active = "client" THEN Kinds ELSE {"http"})
    /\ PoolInit
    /\ StoreInit
    /\ CacheInit

ProxyNext ==
    \/ active = "client" /\ ClientNext /\ UNCHANGED <<active, poolVars, storeVars, secretVars>>
    \/ active = "ssh" /\ PoolNext /\ UNCHANGED <<active, clientVars, storeVars, secretVars>>
    \/ active = "credentials" /\ StoreNext /\ UNCHANGED <<active, clientVars, poolVars, secretVars>>
    \/ active = "secrets" /\ CacheNext /\ UNCHANGED <<active, clientVars, poolVars, storeVars>>

ProxySpec == NewProxyByType /\ [][ProxyNext]_proxyVars

\* The type invariant of the parts.
ProxyTypeOK == active \in Parts /\ ClientTypeOK /\ PoolTypeOK /\ StoreTypeOK /\ CacheTypeOK
=============================================================================
