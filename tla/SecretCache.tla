------------------------------ MODULE SecretCache ------------------------------
(***************************************************************************)
(* The two caches of fetched secrets: Manager.Resolve                      *)
(* (pkg/secrets/manager.go), which keeps what a provider returned for      *)
(* cacheTTL, and getOAuthToken                                             *)
(* (pkg/proxy/mcp/proxy.go), which keeps an access token until shortly     *)
(* before it expires.  Resolve holds no lock, so its load, delete, fetch   *)
(* and store interleave with those of other callers; getOAuthToken holds   *)
(* oauthMu throughout.                                                     *)
(*                                                                         *)
(* One cache key and one token are modelled.  A value is known by the time *)
(* at which the provider read or issued it.                                *)
(***************************************************************************)
EXTENDS Naturals, FiniteSets, Goroutines

CONSTANTS TTL,           \* cacheTTL
          Buffer,        \* the 30 s margin of a token
          Lifetimes,     \* what expires_in may be; 0: absent
          DefaultLife,   \* the 5 min kept for a token without expires_in
          MaxFetch,      \* bound on the time from reading or issuing to storing
          MaxTime        \* bound on the clock

ASSUME SecretCacheAssumption ==
    /\ None \notin Callers /\ None \notin Nat
    /\ {TTL, Buffer, DefaultLife, MaxFetch, MaxTime} \subseteq Nat
    /\ TTL > 0
    /\ Lifetimes \subseteq Nat

VARIABLES clock,
          entry,     \* Manager.cache: None, or when it was read and when it expires
          token,     \* oauthToken, oauthExpAt: None, or issued, lifetime, expires
          oauthMu,
          phase,     \* where each caller is
          fetched,   \* what it has fetched
          result     \* what it was given, and when

secretVars == <<clock, entry, token, oauthMu, phase, fetched, result>>

Times == 0..(MaxTime + TTL + DefaultLife)

\* The type invariant of the caches.
CacheTypeOK ==
    /\ clock \in 0..MaxTime
    /\ entry = None \/ (entry.read \in 0..MaxTime /\ entry.expires \in Times)
    /\ token = None \/ (token.issued \in 0..MaxTime /\ token.lifetime \in Lifetimes)
    /\ oauthMu \in Callers \cup {None}
    /\ phase \in [Callers -> {"idle", "stale", "miss", "fetched", "asking", "issued", "done"}]
    /\ DOMAIN fetched = Callers /\ DOMAIN result = Callers

CacheInit ==
    /\ clock = 0
    /\ entry = None /\ token = None /\ oauthMu = None
    /\ phase = [c \in Callers |-> "idle"]
    /\ fetched = [c \in Callers |-> None]
    /\ result = [c \in Callers |-> None]

-----------------------------------------------------------------------------
To(c, ph) == phase' = [phase EXCEPT ![c] = ph]
Failed(c) == To(c, "done") /\ UNCHANGED result
Given(c, value) == To(c, "done") /\ result' = [result EXCEPT ![c] = [value |-> value, when |-> clock]]

\* The clock goes on, but a fetch is stored within MaxFetch; a caller that is done
\* may call again.
Tick ==
    /\ clock < MaxTime
    /\ \A c \in Callers : phase[c] = "fetched" => clock < fetched[c].read + MaxFetch
    /\ \A c \in Callers : phase[c] = "issued" => clock < fetched[c].issued + MaxFetch
    /\ clock' = clock + 1
    /\ UNCHANGED <<entry, token, oauthMu, phase, fetched, result>>

CallAgain(c) ==
    /\ phase[c] = "done"
    /\ To(c, "idle")
    /\ fetched' = [fetched EXCEPT ![c] = None]
    /\ result' = [result EXCEPT ![c] = None]
    /\ UNCHANGED <<clock, entry, token, oauthMu>>

\* Resolve loads the entry: it is returned, found stale, or missing.
FreshEntry_Mutant == entry # None
FreshEntry == entry # None /\ clock < entry.expires

ResolveLoad(c) ==
    /\ phase[c] = "idle"
    /\ \/ FreshEntry /\ Given(c, entry)
       \/ entry # None /\ ~FreshEntry /\ To(c, "stale") /\ UNCHANGED result
       \/ entry = None /\ To(c, "miss") /\ UNCHANGED result
    /\ UNCHANGED <<clock, entry, token, oauthMu, fetched>>

\* It deletes the key, whatever is there by now.
ResolveDelete(c) ==
    /\ phase[c] = "stale"
    /\ entry' = None
    /\ To(c, "miss")
    /\ UNCHANGED <<clock, token, oauthMu, fetched, result>>

\* The provider reads the secret, or there is an error.
ResolveFetch(c) ==
    /\ phase[c] = "miss"
    /\ \/ To(c, "fetched") /\ fetched' = [fetched EXCEPT ![c] = [read |-> clock]] /\ UNCHANGED result
       \/ Failed(c) /\ UNCHANGED fetched
    /\ UNCHANGED <<clock, entry, token, oauthMu>>

ResolveStore(c) ==
    /\ phase[c] = "fetched"
    /\ entry' = [read |-> fetched[c].read, expires |-> clock + TTL]
    /\ Given(c, entry')
    /\ UNCHANGED <<clock, token, oauthMu, fetched>>

\* InvalidateCache.
Invalidate ==
    /\ entry # None
    /\ entry' = None
    /\ UNCHANGED <<clock, token, oauthMu, phase, fetched, result>>

-----------------------------------------------------------------------------
\* When a token that has come now is fetched again.
Margin(lifetime) == IF Buffer > lifetime \div 2 THEN lifetime \div 2 ELSE Buffer

TokenExpires(lifetime) ==
    IF lifetime > 0 THEN clock + (lifetime - Margin(lifetime)) ELSE clock + DefaultLife

UsableToken == token # None /\ clock < token.expires

\* getOAuthToken takes the mutex and looks at the token it has.
TokenCheck(c) ==
    /\ phase[c] = "idle"
    /\ oauthMu = None
    /\ \/ /\ UsableToken
          /\ Given(c, token)
          /\ UNCHANGED oauthMu
       \/ /\ ~UsableToken
          /\ oauthMu' = c
          /\ To(c, "asking")
          /\ UNCHANGED result
    /\ UNCHANGED <<clock, entry, token, fetched>>

\* The endpoint issues a token, or the request fails.
TokenIssue(c) ==
    /\ phase[c] = "asking"
    /\ \/ /\ \E life \in Lifetimes :
                 fetched' = [fetched EXCEPT ![c] = [issued |-> clock, lifetime |-> life]]
          /\ To(c, "issued")
          /\ UNCHANGED <<oauthMu, result>>
       \/ Failed(c) /\ oauthMu' = None /\ UNCHANGED fetched
    /\ UNCHANGED <<clock, entry, token>>

TokenStore(c) ==
    /\ phase[c] = "issued"
    /\ token' = [issued |-> fetched[c].issued, lifetime |-> fetched[c].lifetime,
                 expires |-> TokenExpires(fetched[c].lifetime)]
    /\ Given(c, token')
    /\ oauthMu' = None
    /\ UNCHANGED <<clock, entry, fetched>>

CacheNext ==
    \/ Tick
    \/ Invalidate
    \/ \E c \in Callers : CallAgain(c)
    \/ \E c \in Callers : ResolveLoad(c)
    \/ \E c \in Callers : ResolveDelete(c)
    \/ \E c \in Callers : ResolveFetch(c)
    \/ \E c \in Callers : ResolveStore(c)
    \/ \E c \in Callers : TokenCheck(c)
    \/ \E c \in Callers : TokenIssue(c)
    \/ \E c \in Callers : TokenStore(c)

CacheSpec == CacheInit /\ [][CacheNext]_secretVars
-----------------------------------------------------------------------------
\* A secret that Resolve returns was read less than cacheTTL plus the time of a
\* fetch ago, however the loads, deletes, fetches and stores of several callers
\* interleave; and a token that getOAuthToken returns has not expired at the
\* endpoint, when it took no longer to arrive than the margin of its lifetime.
SecretsAreCurrent ==
    \A c \in Callers :
        result[c] # None =>
            LET v == result[c].value
            IN  IF "read" \in DOMAIN v
                THEN result[c].when < v.read + TTL + MaxFetch
                ELSE (v.lifetime > 0 /\ MaxFetch <= Margin(v.lifetime))
                        => result[c].when < v.issued + v.lifetime
=============================================================================
