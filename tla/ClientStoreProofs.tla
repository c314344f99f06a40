-------------------------- MODULE ClientStoreProofs --------------------------
(***************************************************************************)
(* Proofs about the stores of credentials and secrets, for every set of    *)
(* goroutines and datasources, any number of pushes and crashes, any TTL   *)
(* and margin, any lifetimes of tokens and any bound on the time a fetch   *)
(* takes; and about the five client proxies, for every set of Configure    *)
(* calls and requests, every configuration and every response size.        *)
(***************************************************************************)
EXTENDS ClientProxy, CredentialStore, SecretCache, TLAPS

-----------------------------------------------------------------------------
(***************************************************************************)
(* The credential store.  StoredNotLost speaks of the map in memory,       *)
(* but after a crash that map comes from the file: what has to be kept is  *)
(* that a file the agent would start from is no older than what was        *)
(* accepted, and that who is about to write it has the current map.        *)
(***************************************************************************)
\* A goroutine inside Set has the mutex, in an agent that is up.
InsideHasMutex ==
    \A s \in Callers : stage[s] # "idle" => agent = "up" /\ storeMu = s

\* Its credentials are in the map, and what it has encrypted is the map.
WritesTheMap ==
    \A s \in Callers :
        /\ stage[s] # "idle" => target[s] \in Datasources /\ number[s] = creds[target[s]]
        /\ stage[s] \in {"encrypted", "truncated"} => snapshot[s] = creds

\* A file the agent can start from is not older than what was accepted.
FileIsRecent ==
    file.is # "torn" => \A d \in Datasources : file.holds[d] >= accepted[d]

\* Nothing has a number that was not given out.
AllWerePushed ==
    \A d \in Datasources : creds[d] <= sets /\ file.holds[d] <= sets /\ accepted[d] <= sets

StoreIInv ==
    /\ StoreTypeOK
    /\ InsideHasMutex
    /\ WritesTheMap
    /\ FileIsRecent
    /\ AllWerePushed
    /\ StoredNotLost

-----------------------------------------------------------------------------
\* A first start has nothing accepted and nothing to lose.
LEMMA StoreInitIInv == StoreInit => StoreIInv
BY CredentialStoreAssumption
   DEF StoreInit, StoreIInv, StoreTypeOK, InsideHasMutex, WritesTheMap, FileIsRecent,
       AllWerePushed, StoredNotLost, Credentials, NoCredentials

\* Set puts newer credentials in the map than any that were accepted.
LEMMA SetLockedIInv ==
    ASSUME StoreIInv, NEW s \in Callers, NEW d \in Datasources, SetLocked(s, d)
    PROVE  StoreIInv'
<1> USE CredentialStoreAssumption DEF StoreIInv, SetLocked, StageIs, ToStage, MayLockStore
<1>1. StoreTypeOK'
  BY DEF StoreTypeOK, Credentials
<1>2. InsideHasMutex'
  BY DEF StoreTypeOK, InsideHasMutex
<1>3. WritesTheMap'
  BY DEF StoreTypeOK, Credentials, InsideHasMutex, WritesTheMap
<1>4. FileIsRecent'
  BY DEF FileIsRecent
<1>5. AllWerePushed' /\ StoredNotLost'
  BY DEF StoreTypeOK, Credentials, AllWerePushed, StoredNotLost
<1> QED
  BY <1>1, <1>2, <1>3, <1>4, <1>5, ZenonT(20)

\* saveToDisk takes its copy of the map with the mutex.
LEMMA EncryptIInv ==
    ASSUME StoreIInv, NEW s \in Callers, Encrypt(s)
    PROVE  StoreIInv'
<1> USE CredentialStoreAssumption DEF StoreIInv, Encrypt, StageIs, ToStage
<1>1. StoreTypeOK'
  BY DEF StoreTypeOK
<1>2. InsideHasMutex' /\ WritesTheMap'
  BY DEF StoreTypeOK, InsideHasMutex, WritesTheMap
<1>3. FileIsRecent' /\ AllWerePushed' /\ StoredNotLost'
  BY DEF FileIsRecent, AllWerePushed, StoredNotLost
<1> QED
  BY <1>1, <1>2, <1>3, ZenonT(20)

\* Truncating the file leaves nothing to start from.
LEMMA TruncateIInv ==
    ASSUME StoreIInv, NEW s \in Callers, Truncate(s)
    PROVE  StoreIInv'
<1> USE CredentialStoreAssumption DEF StoreIInv, Truncate, StageIs, ToStage
<1>1. NoCredentials \in Credentials
  BY DEF NoCredentials, Credentials
<1>2. StoreTypeOK'
  BY <1>1 DEF StoreTypeOK
<1>3. InsideHasMutex' /\ WritesTheMap'
  BY DEF StoreTypeOK, InsideHasMutex, WritesTheMap
<1>4. FileIsRecent' /\ StoredNotLost'
  BY DEF FileIsRecent, StoredNotLost
<1>5. AllWerePushed'
  BY DEF StoreTypeOK, AllWerePushed, NoCredentials
<1> QED
  BY <1>2, <1>3, <1>4, <1>5, ZenonT(20)

\* When Set returns nil the file is the map, which has what is now accepted.
LEMMA SetStoredIInv ==
    ASSUME StoreIInv, NEW s \in Callers, SetStored(s)
    PROVE  StoreIInv'
<1> USE CredentialStoreAssumption DEF StoreIInv, SetStored, StageIs, ToStage
<1>1. snapshot[s] = creds /\ target[s] \in Datasources /\ number[s] = creds[target[s]]
  BY DEF WritesTheMap
<1>2. StoreTypeOK'
  BY <1>1 DEF StoreTypeOK, Credentials
<1>3. InsideHasMutex' /\ WritesTheMap'
  BY DEF StoreTypeOK, InsideHasMutex, WritesTheMap
<1>4. \A d \in Datasources : creds[d] >= accepted'[d] /\ accepted'[d] <= sets
  BY <1>1 DEF StoreTypeOK, Credentials, AllWerePushed, StoredNotLost
<1>5. FileIsRecent' /\ AllWerePushed' /\ StoredNotLost'
  BY <1>1, <1>4 DEF FileIsRecent, AllWerePushed, StoredNotLost
<1> QED
  BY <1>2, <1>3, <1>5, ZenonT(20)

\* A Set that fails leaves the map ahead of the file, never behind it.
LEMMA SetFailedIInv ==
    ASSUME StoreIInv, NEW s \in Callers, SetFailed(s)
    PROVE  StoreIInv'
<1> USE CredentialStoreAssumption DEF StoreIInv, SetFailed, StageIs, ToStage
<1>1. StoreTypeOK'
  BY DEF StoreTypeOK
<1>2. InsideHasMutex' /\ WritesTheMap'
  BY DEF StoreTypeOK, InsideHasMutex, WritesTheMap
<1>3. FileIsRecent' /\ AllWerePushed' /\ StoredNotLost'
  BY DEF FileIsRecent, AllWerePushed, StoredNotLost
<1> QED
  BY <1>1, <1>2, <1>3

\* A crash at any point leaves the file as it is.
LEMMA CrashIInv ==
    ASSUME StoreIInv, Crash
    PROVE  StoreIInv'
<1> USE CredentialStoreAssumption DEF StoreIInv, Crash
<1>1. NoCredentials \in Credentials
  BY DEF NoCredentials, Credentials
<1>2. StoreTypeOK'
  BY <1>1 DEF StoreTypeOK
<1>3. InsideHasMutex' /\ WritesTheMap'
  BY DEF InsideHasMutex, WritesTheMap
<1>4. FileIsRecent' /\ StoredNotLost'
  BY DEF FileIsRecent, StoredNotLost
<1>5. AllWerePushed'
  BY DEF StoreTypeOK, AllWerePushed, NoCredentials
<1> QED
  BY <1>2, <1>3, <1>4, <1>5, ZenonT(20)

\* A start from a file that can be read takes over what it holds.
LEMMA StartIInv ==
    ASSUME StoreIInv, NewCloudPushStore
    PROVE  StoreIInv'
<1> USE CredentialStoreAssumption DEF StoreIInv, NewCloudPushStore, Unreadable, setters
<1>1. StoreTypeOK'
  BY DEF StoreTypeOK
<1>2. InsideHasMutex' /\ WritesTheMap'
  BY DEF InsideHasMutex, WritesTheMap
<1>3. FileIsRecent' /\ AllWerePushed' /\ StoredNotLost'
  BY DEF FileIsRecent, AllWerePushed, StoredNotLost
<1> QED
  BY <1>1, <1>2, <1>3, ZenonT(20)

\* The invariant holds however pushes, failed saves, crashes and restarts follow
\* one another.
THEOREM StoreInductive == StoreSpec => []StoreIInv
<1>1. StoreIInv /\ [StoreNext]_storeVars => StoreIInv'
  <2> SUFFICES ASSUME StoreIInv, [StoreNext]_storeVars PROVE StoreIInv'
    OBVIOUS
  <2>1. CASE UNCHANGED storeVars
    BY <2>1 DEF storeVars, setters, StoreIInv, StoreTypeOK, InsideHasMutex, WritesTheMap,
       FileIsRecent, AllWerePushed, StoredNotLost
  <2> QED
    BY ZenonT(20), <2>1, SetLockedIInv, EncryptIInv, TruncateIInv, SetStoredIInv, SetFailedIInv,
       CrashIInv, StartIInv DEF StoreNext
<1> QED
  BY <1>1, StoreInitIInv, PTL DEF StoreSpec

\* Credentials for which Set returned nil are never replaced by older ones, by an
\* overlapping push, a failed save, or a crash at any point and the start after it.
THEOREM CredentialsAreNotLost == StoreSpec => []StoredNotLost
<1>1. StoreIInv => StoredNotLost
  BY DEF StoreIInv
<1> QED
  BY <1>1, StoreInductive, PTL

-----------------------------------------------------------------------------
(***************************************************************************)
(* The caches of secrets.                                                  *)
(***************************************************************************)
\* What the caches hold, and what a caller has fetched.
Entries == [read : Nat, expires : Nat]
Tokens == [issued : Nat, lifetime : Nat, expires : Nat]
Fetched == [read : Nat] \cup [issued : Nat, lifetime : Nat]

\* An entry expires no later than cacheTTL after the end of its fetch, and a token
\* by its margin earlier than its lifetime after the end of the request.
EntryEnds(v) == v.expires <= v.read + MaxFetch + TTL
TokenEnds(v) ==
    v.lifetime > 0 => v.expires + Margin(v.lifetime) <= v.issued + MaxFetch + v.lifetime

\* The inductive invariant: so much holds of what is cached, and a caller that has
\* not stored what it fetched has fetched it recently.
CachesWellTyped ==
    /\ clock \in Nat
    /\ entry \in Entries \cup {None}
    /\ token \in Tokens \cup {None}
    /\ phase \in [Callers -> {"idle", "stale", "miss", "fetched", "asking", "issued", "done"}]
    /\ fetched \in [Callers -> Fetched \cup {None}]
    /\ result \in [Callers -> [value : Entries \cup Tokens, when : Nat] \cup {None}]

CachedExpires ==
    /\ entry # None => EntryEnds(entry)
    /\ token # None => TokenEnds(token)

FetchIsRecent ==
    \A c \in Callers :
        /\ phase[c] = "fetched" => /\ fetched[c] \in [read : Nat]
                                   /\ clock <= fetched[c].read + MaxFetch
        /\ phase[c] = "issued" => /\ fetched[c] \in [issued : Nat, lifetime : Nat]
                                  /\ clock <= fetched[c].issued + MaxFetch

CacheIInv == CachesWellTyped /\ CachedExpires /\ FetchIsRecent /\ SecretsAreCurrent

-----------------------------------------------------------------------------
\* The constants are natural numbers.
LEMMA Constants ==
    /\ TTL \in Nat /\ TTL > 0 /\ Buffer \in Nat /\ DefaultLife \in Nat /\ MaxFetch \in Nat
    /\ Lifetimes \subseteq Nat
  BY SecretCacheAssumption

\* The margin is at most half of the lifetime.
LEMMA MarginIsSmall ==
    ASSUME NEW life \in Nat
    PROVE  Margin(life) \in Nat /\ 2 * Margin(life) <= life
  BY Constants DEF Margin

\* What a caller may be given at the present moment.
Current(v) ==
    \/ v \in Entries /\ clock < v.read + TTL + MaxFetch
    \/ /\ v \in Tokens
       /\ v.lifetime > 0 /\ MaxFetch <= Margin(v.lifetime) => clock < v.issued + v.lifetime

\* A caller that is given such a value leaves the property true.
LEMMA GivenIsCurrent ==
    ASSUME CacheIInv, NEW c \in Callers, NEW v, Current(v), Given(c, v)
    PROVE  /\ phase' \in [Callers -> {"idle", "stale", "miss", "fetched", "asking", "issued",
                                      "done"}]
           /\ result' \in [Callers -> [value : Entries \cup Tokens, when : Nat] \cup {None}]
           /\ SecretsAreCurrent'
<1> USE DEF CacheIInv, CachesWellTyped, Given, To
<1>1. v \in Entries \cup Tokens
  BY DEF Current
<1>2. [value |-> v, when |-> clock] \in [value : Entries \cup Tokens, when : Nat]
  BY <1>1
<1>3. IF "read" \in DOMAIN v
      THEN clock < v.read + TTL + MaxFetch
      ELSE (v.lifetime > 0 /\ MaxFetch <= Margin(v.lifetime)) => clock < v.issued + v.lifetime
  BY DEF Current, Entries, Tokens
<1>4. result'[c] = [value |-> v, when |-> clock] /\ \A d \in Callers \ {c} : result'[d] = result[d]
  OBVIOUS
<1>5. SecretsAreCurrent'
  BY <1>3, <1>4, ZenonT(20) DEF SecretsAreCurrent
<1> QED
  BY <1>2, <1>5

\* Initially nothing is cached.
LEMMA CacheInitIInv == CacheInit => CacheIInv
  BY DEF CacheInit, CacheIInv, CachesWellTyped, CachedExpires, FetchIsRecent, SecretsAreCurrent

\* The clock goes on only as far as the fetches under way allow.
LEMMA TickIInv == CacheIInv /\ Tick => CacheIInv'
<1> SUFFICES ASSUME CacheIInv, Tick PROVE CacheIInv'
  BY ZenonT(20)
<1> USE Constants DEF CacheIInv, Tick, CachesWellTyped
<1>1. CachesWellTyped' /\ CachedExpires' /\ SecretsAreCurrent'
  BY DEF CachedExpires, EntryEnds, TokenEnds, SecretsAreCurrent
<1>2. FetchIsRecent'
  BY DEF FetchIsRecent
<1> QED
  BY <1>1, <1>2

\* A call that begins again, a deletion and an invalidation give nothing.
LEMMA DropIInv ==
    ASSUME CacheIInv,
           Invalidate \/ \E c \in Callers : CallAgain(c) \/ ResolveDelete(c)
    PROVE  CacheIInv'
<1> USE DEF CacheIInv, Invalidate, CallAgain, ResolveDelete, To, CachesWellTyped
<1>1. CachesWellTyped'
  OBVIOUS
<1>2. CachedExpires'
  BY DEF CachedExpires, EntryEnds, TokenEnds
<1>3. FetchIsRecent'
  BY DEF FetchIsRecent
<1>4. SecretsAreCurrent'
  BY DEF SecretsAreCurrent
<1> QED
  BY <1>1, <1>2, <1>3, <1>4, ZenonT(20)

\* A fresh entry is young enough to be returned.
LEMMA ResolveLoadIInv ==
    ASSUME CacheIInv, NEW c \in Callers, ResolveLoad(c)
    PROVE  CacheIInv'
<1> USE DEF ResolveLoad
<1>1. CachedExpires' /\ FetchIsRecent'
  BY DEF CacheIInv, CachesWellTyped, CachedExpires, EntryEnds, TokenEnds, FetchIsRecent, To, Given
<1>2. CASE FreshEntry /\ Given(c, entry)
  <2>1. Current(entry)
    BY <1>2, Constants, SMTT(30) DEF CacheIInv, CachesWellTyped, CachedExpires, EntryEnds, FreshEntry,
       Current, Entries
  <2> QED
    BY <1>1, <1>2, <2>1, GivenIsCurrent, ZenonT(20) DEF CacheIInv, CachesWellTyped
<1>3. CASE (To(c, "stale") \/ To(c, "miss")) /\ UNCHANGED result
  BY <1>1, <1>3, ZenonT(20) DEF CacheIInv, CachesWellTyped, To, SecretsAreCurrent
<1> QED
  BY <1>2, <1>3, ZenonT(20)

\* A fetch is as recent as can be when it is made.
LEMMA FetchIInv ==
    ASSUME CacheIInv, NEW c \in Callers, ResolveFetch(c) \/ TokenIssue(c)
    PROVE  CacheIInv'
<1> USE Constants DEF CacheIInv, CachesWellTyped, ResolveFetch, TokenIssue, To, Failed
<1>1. phase' \in [Callers -> {"idle", "stale", "miss", "fetched", "asking", "issued", "done"}]
  OBVIOUS
<1>2. fetched' \in [Callers -> Fetched \cup {None}]
  BY DEF Fetched
<1>3. CachedExpires' /\ SecretsAreCurrent'
  BY DEF CachedExpires, EntryEnds, TokenEnds, SecretsAreCurrent
<1>4. FetchIsRecent'
  BY SMTT(30) DEF FetchIsRecent
<1> QED
  BY <1>1, <1>2, <1>3, <1>4, ZenonT(20)

\* What was fetched recently is current, and so is what is cached from then on.
LEMMA ResolveStoreIInv ==
    ASSUME CacheIInv, NEW c \in Callers, ResolveStore(c)
    PROVE  CacheIInv'
<1> USE Constants DEF ResolveStore
<1>1. fetched[c].read \in Nat /\ clock \in Nat /\ clock <= fetched[c].read + MaxFetch
  BY ZenonT(20) DEF CacheIInv, CachesWellTyped, FetchIsRecent
<1>2. entry' \in Entries /\ EntryEnds(entry') /\ Current(entry')
  BY <1>1 DEF Entries, EntryEnds, Current
<1>3. CachedExpires'
  BY <1>2 DEF CacheIInv, CachedExpires, EntryEnds, TokenEnds
<1>4. FetchIsRecent'
  BY DEF CacheIInv, CachesWellTyped, FetchIsRecent, Given, To
<1>5. Given(c, entry')
  BY ZenonT(20)
<1>6. CachesWellTyped' /\ SecretsAreCurrent'
  BY <1>2, <1>5, GivenIsCurrent DEF CacheIInv, CachesWellTyped
<1> QED
  BY <1>3, <1>4, <1>6, ZenonT(20) DEF CacheIInv

\* A usable token has not expired at the endpoint, if its margin covers the time
\* it took to arrive.
LEMMA TokenCheckIInv ==
    ASSUME CacheIInv, NEW c \in Callers, TokenCheck(c)
    PROVE  CacheIInv'
<1> USE DEF TokenCheck
<1>1. CachedExpires' /\ FetchIsRecent'
  BY DEF CacheIInv, CachesWellTyped, CachedExpires, EntryEnds, TokenEnds, FetchIsRecent, To, Given
<1>2. CASE UsableToken /\ Given(c, token)
  <2>1. token \in Tokens /\ clock \in Nat /\ clock < token.expires /\ TokenEnds(token)
    BY <1>2 DEF CacheIInv, CachesWellTyped, CachedExpires, UsableToken
  <2>2. Margin(token.lifetime) \in Nat
    BY <2>1, MarginIsSmall DEF Tokens
  <2>3. Current(token)
    BY <2>1, <2>2, Constants, SMTT(30) DEF TokenEnds, Current, Tokens
  <2> QED
    BY <1>1, <1>2, <2>3, GivenIsCurrent, ZenonT(20) DEF CacheIInv, CachesWellTyped
<1>3. CASE To(c, "asking") /\ UNCHANGED result
  BY <1>1, <1>3, ZenonT(20) DEF CacheIInv, CachesWellTyped, To, SecretsAreCurrent
<1> QED
  BY <1>2, <1>3, ZenonT(20)

\* A token that comes within its margin is current.
LEMMA TokenStoreIInv ==
    ASSUME CacheIInv, NEW c \in Callers, TokenStore(c)
    PROVE  CacheIInv'
<1> USE Constants DEF TokenStore
<1> DEFINE life == fetched[c].lifetime
<1>1. /\ fetched[c].issued \in Nat /\ life \in Nat
      /\ clock \in Nat /\ clock <= fetched[c].issued + MaxFetch
  BY ZenonT(20) DEF CacheIInv, CachesWellTyped, FetchIsRecent
<1>2. Margin(life) \in Nat /\ 2 * Margin(life) <= life
  BY <1>1, MarginIsSmall, ZenonT(20)
<1>3. /\ TokenExpires(life) \in Nat
      /\ life > 0 => TokenExpires(life) + Margin(life) = clock + life
  BY <1>1, <1>2, SMTT(30) DEF TokenExpires
<1>4. /\ token' \in Tokens /\ token'.issued = fetched[c].issued
      /\ token'.lifetime = life /\ token'.expires = TokenExpires(life)
  BY <1>1, <1>3, ZenonT(20) DEF Tokens
<1>5. TokenEnds(token') /\ Current(token')
  BY <1>1, <1>2, <1>3, <1>4, SMTT(30) DEF TokenEnds, Current
<1>6. CachedExpires'
  BY <1>5, ZenonT(20) DEF CacheIInv, CachedExpires, EntryEnds, TokenEnds
<1>7. FetchIsRecent'
  BY DEF CacheIInv, CachesWellTyped, FetchIsRecent, Given, To
<1>8. Given(c, token')
  BY ZenonT(20)
<1>9. CachesWellTyped' /\ SecretsAreCurrent'
  BY <1>4, <1>5, <1>8, GivenIsCurrent, ZenonT(20) DEF CacheIInv, CachesWellTyped
<1> QED
  BY <1>6, <1>7, <1>9, ZenonT(20) DEF CacheIInv

\* The invariant holds however callers of both caches interleave.
THEOREM CacheInductive == CacheSpec => []CacheIInv
<1>1. CacheIInv /\ [CacheNext]_secretVars => CacheIInv'
  <2> SUFFICES ASSUME CacheIInv, [CacheNext]_secretVars PROVE CacheIInv'
    OBVIOUS
  <2>1. CASE UNCHANGED secretVars
    BY <2>1, ZenonT(20) DEF secretVars, CacheIInv, CachesWellTyped, CachedExpires, EntryEnds, TokenEnds,
       FetchIsRecent, SecretsAreCurrent
  <2> QED
    BY ZenonT(20), <2>1, TickIInv, DropIInv, ResolveLoadIInv, FetchIInv, ResolveStoreIInv, TokenCheckIInv,
       TokenStoreIInv DEF CacheNext
<1> QED
  BY <1>1, CacheInitIInv, PTL DEF CacheSpec

\* No caller is given a secret older than cacheTTL and a fetch, nor a token that
\* has expired at the endpoint although it arrived within its margin.
THEOREM SecretsStayCurrent == CacheSpec => []SecretsAreCurrent
<1>1. CacheIInv => SecretsAreCurrent
  BY DEF CacheIInv
<1> QED
  BY <1>1, CacheInductive, PTL

\* What the type invariant of the caches needs to be inductive: a caller that has
\* not stored what it fetched has fetched something with a time.
CacheTypeIInv ==
    /\ CacheTypeOK
    /\ \A c \in Callers :
          /\ phase[c] = "fetched" => fetched[c].read \in 0 .. MaxTime
          /\ phase[c] = "issued" => fetched[c].issued \in 0 .. MaxTime /\ fetched[c].lifetime \in Lifetimes

\* The type invariant of the caches.
THEOREM CacheTypeCorrect == CacheSpec => []CacheTypeOK
<1>1. CacheInit => CacheTypeIInv
  BY Constants, SecretCacheAssumption, SMTT(30) DEF CacheInit, CacheTypeIInv, CacheTypeOK
<1>2. CacheTypeIInv /\ [CacheNext]_secretVars => CacheTypeIInv'
  <2> SUFFICES ASSUME CacheTypeIInv, [CacheNext]_secretVars PROVE CacheTypeIInv'
    OBVIOUS
  <2> USE Constants, SecretCacheAssumption DEF CacheTypeIInv, CacheTypeOK
  <2>1. CASE Tick \/ Invalidate
    BY <2>1, SMTT(30) DEF Tick, Invalidate
  <2>2. ASSUME NEW c \in Callers, CallAgain(c) \/ ResolveLoad(c) \/ ResolveDelete(c) PROVE CacheTypeIInv'
    BY <2>2 DEF CallAgain, ResolveLoad, ResolveDelete, To, Given
  <2>3. ASSUME NEW c \in Callers, ResolveFetch(c) PROVE CacheTypeIInv'
    BY <2>3, SMTT(30) DEF ResolveFetch, To, Failed
  <2>4. ASSUME NEW c \in Callers, ResolveStore(c) PROVE CacheTypeIInv'
    BY <2>4, SMTT(30) DEF ResolveStore, To, Given, Times
  <2>5. ASSUME NEW c \in Callers, TokenCheck(c) \/ TokenIssue(c) PROVE CacheTypeIInv'
    BY <2>5, SMTT(30) DEF TokenCheck, TokenIssue, To, Failed, Given
  <2>6. ASSUME NEW c \in Callers, TokenStore(c) PROVE CacheTypeIInv'
    BY <2>6, ZenonT(20) DEF TokenStore, To, Given
  <2>7. CASE UNCHANGED secretVars
    BY <2>7 DEF secretVars
  <2> QED
    BY <2>1, <2>2, <2>3, <2>4, <2>5, <2>6, <2>7, ZenonT(40) DEF CacheNext
<1>3. CacheTypeIInv => CacheTypeOK
  BY DEF CacheTypeIInv
<1> QED
  BY <1>1, <1>2, <1>3, PTL DEF CacheSpec

-----------------------------------------------------------------------------
(***************************************************************************)
(* The client proxies.  Two of the proxies swap the client, three          *)
(* hold the lock while they dial; what both rest on is that one Configure  *)
(* is under way at a time, and that a client a request has taken is the    *)
(* current one or closed.                                                  *)
(***************************************************************************)
Swapping == kind \in {"http", "redis"}

\* One Configure at a time, behind configMu or the write lock; the proxies that
\* hold the lock while they dial have no client meanwhile and forget Close.
OneConfigure ==
    \A k \in Calls :
        IF Swapping
        THEN writer = None /\ call[k] # "assign"
             /\ (call[k] \in {"dial", "built", "retire"} => configMu = k)
        ELSE call[k] # "retire" /\ (call[k] \in {"assign", "dial", "built"} => writer = k)

NoClientWhileDialling == ~Swapping => ~shut /\ (writer # None => client = None)

\* Only http detaches a client and closes it later, and only its requests keep
\* the read lock.
Detached ==
    /\ \A k \in Calls : old[k] # None => kind = "http" /\ call[k] = "retire"
    /\ closing # None => kind = "http" /\ shut
    /\ \A k \in Calls : call[k] = "retire" => kind = "http"
    /\ \A r \in Callers : r \in readers <=> step[r] = "reading"
    /\ kind # "http" => readers = {}

\* The current client, and those that requests have taken, have been installed.
Installed ==
    /\ client # None => call[client] \in {"retire", "done"}
    /\ \A r \in Callers : conn[r] # None => call[conn[r]] \in {"retire", "done"}

\* Where settings are read on their own, they are those of the current client.
SettingsMatch ==
    /\ kind \in {"http", "mongodb", "db"} /\ client # None => settings = client
    /\ kind \in {"mongodb", "db"} =>
           \A k \in Calls : call[k] \in {"dial", "built"} => settings = k

\* So is readOnly.
ReadOnlyMatches ==
    kind = "db" =>
        /\ client # None /\ ReadOnlyOf[client] = "yes" => readOnly
        /\ \A k \in Calls : call[k] \in {"dial", "built"} /\ ReadOnlyOf[k] = "yes" => readOnly

\* What a request has taken belongs together, as long as its client is open.
Taken ==
    \A r \in Callers :
        /\ step[r] \in {"idle", "reading"} => conn[r] = None
        /\ step[r] = "reading" => seen[r] = settings
        /\ step[r] = "sending" /\ kind = "http" => conn[r] # None /\ seen[r] = conn[r]
        /\ step[r] \in {"taken", "executing"} => kind # "http" /\ seen[r] = conn[r]
        /\ step[r] = "sending" /\ conn[r] \in open => seen[r] = conn[r]
        /\ step[r] = "executing" /\ conn[r] \in open => ReadOnlyOf[conn[r]] # "yes"

ClientIInv ==
    /\ ClientTypeOK
    /\ OneConfigure
    /\ NoClientWhileDialling
    /\ Detached
    /\ Installed
    /\ SettingsMatch
    /\ ReadOnlyMatches
    /\ Taken
    /\ ClientsReleased
    /\ ReadOnlyHonoured
    /\ WholeOrRefused

\* Initially nothing is configured and no request has begun.
LEMMA ClientInitIInv == ClientInit(Kinds) => ClientIInv
<1> SUFFICES ASSUME ClientInit(Kinds) PROVE ClientIInv
  OBVIOUS
<1> USE ClientProxyAssumption DEF ClientInit
<1>1. ClientTypeOK
  <2>1. body \in [Callers -> [sent : 0 .. MaxInt, kept : 0 .. MaxInt]]
    <3>1. 0 \in 0 .. MaxInt
      OBVIOUS
    <3> QED
      BY <3>1
  <2> QED
    BY <2>1, Zenon DEF ClientTypeOK
<1>2. OneConfigure /\ NoClientWhileDialling /\ Detached /\ Installed
  BY DEF Swapping, OneConfigure, NoClientWhileDialling, Detached, Installed
<1>3. SettingsMatch /\ ReadOnlyMatches /\ Taken
  BY DEF SettingsMatch, ReadOnlyMatches, Taken
<1>4. ClientsReleased /\ ReadOnlyHonoured /\ WholeOrRefused
  BY DEF ClientsReleased, ReadOnlyHonoured, WholeOrRefused
<1> QED
  BY <1>1, <1>2, <1>3, <1>4 DEF ClientIInv

\* A response that is not over the cap was read to its end, although the limit is
\* not above the cap when the cap is the largest integer.
LEMMA LimitIsEnough ==
    ASSUME NEW n \in 0 .. MaxInt, NEW cap \in 1 .. MaxInt
    PROVE  /\ LimitRead(n, ReadLimit(cap)) \in Nat
           /\ LimitRead(n, ReadLimit(cap)) <= cap => LimitRead(n, ReadLimit(cap)) = n
  BY ClientProxyAssumption DEF LimitRead, ReadLimit

\* A request takes a client or finds none.
LEMMA TakeClientTypeOK ==
    ASSUME ClientTypeOK, NEW r \in Callers,
           NEW next \in {"taken", "sending"}, TakeClient(r, next)
    PROVE  ClientTypeOK'
<1> USE DEF ClientTypeOK, TakeClient, StepAt
<1>1. (IF client = None THEN "failed" ELSE next) \in {"taken", "sending", "failed"}
  OBVIOUS
<1>2. step' \in [Callers -> {"idle", "reading", "taken", "sending", "executing",
                             "served", "executed", "failed"}]
  BY <1>1
<1>3. conn' \in [Callers -> Calls \cup {None}]
  OBVIOUS
<1>4. seen' \in [Callers -> Calls \cup {None, "torn"}]
  BY ZenonT(20)
<1> QED
  BY <1>2, <1>3, <1>4 DEF locks, fields, calls

-----------------------------------------------------------------------------
(* Configure.                                                                *)

\* http: the new client is in the hands of the call until it is swapped in, and
\* the old one from then on until it is closed.
LEMMA HttpConfigureIInv ==
    ASSUME ClientIInv, NEW k \in Calls, HttpConfigure(k)
    PROVE  ClientIInv'
<1> USE ClientProxyAssumption DEF ClientIInv, ClientTypeOK, Swapping,
       HttpConfigure, Enter, Leave, CallAt, MayWrite, Refused, locks, fields,
       calls, requests
<1>1. ClientTypeOK'
  OBVIOUS
<1>2. OneConfigure' /\ NoClientWhileDialling'
  BY DEF OneConfigure, NoClientWhileDialling
<1>3. Detached'
  BY DEF Detached, OneConfigure
<1>4. Installed'
  BY SMTT(30) DEF Installed, OneConfigure, NoClientWhileDialling
<1>5. SettingsMatch'
  BY DEF SettingsMatch, OneConfigure, NoClientWhileDialling, Detached
<1>6. ReadOnlyMatches'
  BY ZenonT(20) DEF ReadOnlyMatches, OneConfigure, NoClientWhileDialling
<1>7. Taken'
  BY DEF Taken, Detached, Installed
<1>8. ClientsReleased'
  BY DEF ClientsReleased, InProgress, OneConfigure, NoClientWhileDialling,
     Detached, Installed
<1>9. ReadOnlyHonoured' /\ WholeOrRefused'
  BY ZenonT(20) DEF ReadOnlyHonoured, Taken, WholeOrRefused
<1> QED
  BY <1>1, <1>2, <1>3, <1>4, <1>5, <1>6, <1>7, <1>8, <1>9

\* redis: the new client is in the hands of the call until the old one is closed.
LEMMA RedisConfigureIInv ==
    ASSUME ClientIInv, NEW k \in Calls, RedisConfigure(k)
    PROVE  ClientIInv'
<1> USE ClientProxyAssumption DEF ClientIInv, ClientTypeOK, Swapping,
       RedisConfigure, Enter, Leave, CallAt, MayRead, MayWrite, Refused, locks,
       fields, calls, requests
<1>1. ClientTypeOK'
  OBVIOUS
<1>2. OneConfigure' /\ NoClientWhileDialling'
  BY SMTT(30) DEF OneConfigure, NoClientWhileDialling
<1>3. Detached'
  BY DEF Detached, OneConfigure
<1>4. Installed'
  BY DEF Installed, OneConfigure, NoClientWhileDialling
<1>5. SettingsMatch'
  BY DEF SettingsMatch, OneConfigure, NoClientWhileDialling, Detached
<1>6. ReadOnlyMatches'
  BY ZenonT(20) DEF ReadOnlyMatches, OneConfigure, NoClientWhileDialling
<1>7. Taken'
  BY SMTT(30) DEF Taken, Detached, Installed
<1>8. ClientsReleased'
  BY SMTT(30) DEF ClientsReleased, InProgress, OneConfigure, NoClientWhileDialling,
     Detached, Installed
<1>9. ReadOnlyHonoured' /\ WholeOrRefused'
  BY ZenonT(20) DEF ReadOnlyHonoured, Taken, WholeOrRefused
<1> QED
  BY <1>1, <1>2, <1>3, <1>4, <1>5, <1>6, <1>7, <1>8, <1>9, ZenonT(20)

\* kafka, mongodb and db: the old client is closed under the lock ...
LEMMA LockAndDropIInv ==
    ASSUME ClientIInv, NEW k \in Calls, NEW next \in {"assign", "dial"}, ~Swapping,
           next = "dial" => kind = "kafka", LockAndDrop(k, next),
           UNCHANGED <<kind, old, closing, requests>>
    PROVE  ClientIInv'
<1> USE ClientProxyAssumption DEF ClientIInv, ClientTypeOK, Swapping, LockAndDrop,
       DropOld, MayWrite, CallAt, locks, fields, calls, requests
<1>1. ClientTypeOK'
  OBVIOUS
<1>2. OneConfigure' /\ NoClientWhileDialling' /\ Detached'
  BY DEF OneConfigure, NoClientWhileDialling, Detached
<1>3. Installed' /\ SettingsMatch' /\ ReadOnlyMatches'
  BY DEF Installed, OneConfigure, NoClientWhileDialling, SettingsMatch, Detached,
     ReadOnlyMatches
<1>4. Taken'
  BY DEF Taken, Detached, Installed
<1>5. ClientsReleased'
  BY DEF ClientsReleased, InProgress, OneConfigure, NoClientWhileDialling,
     Detached, Installed
<1>6. ReadOnlyHonoured' /\ WholeOrRefused'
  BY DEF ReadOnlyHonoured, Taken, WholeOrRefused
<1> QED
  BY <1>1, <1>2, <1>3, <1>4, <1>5, <1>6

\* ... the new one is closed when it fails ...
LEMMA FailLockedIInv ==
    ASSUME ClientIInv, NEW k \in Calls, ~Swapping,
           FailLocked(k, {"assign", "dial", "built"}),
           UNCHANGED <<kind, old, closing, requests>>
    PROVE  ClientIInv'
<1> USE ClientProxyAssumption DEF ClientIInv, ClientTypeOK, Swapping, FailLocked,
       CallAt, locks, fields, calls, requests
<1>1. ClientTypeOK'
  OBVIOUS
<1>2. OneConfigure' /\ NoClientWhileDialling' /\ Detached'
  BY DEF OneConfigure, NoClientWhileDialling, Detached
<1>3. Installed' /\ SettingsMatch' /\ ReadOnlyMatches'
  BY DEF Installed, OneConfigure, NoClientWhileDialling, SettingsMatch, Detached,
     ReadOnlyMatches
<1>4. Taken'
  BY DEF Taken, Detached, Installed
<1>5. ClientsReleased'
  BY DEF ClientsReleased, InProgress, OneConfigure, NoClientWhileDialling,
     Detached, Installed
<1>6. ReadOnlyHonoured' /\ WholeOrRefused'
  BY DEF ReadOnlyHonoured, Taken, WholeOrRefused
<1> QED
  BY <1>1, <1>2, <1>3, <1>4, <1>5, <1>6

\* ... settings and readOnly change while there is no client ...
LEMMA AssignIInv ==
    ASSUME ClientIInv, NEW k \in Calls, NEW ro \in BOOLEAN, ~Swapping,
           kind = "db" /\ ReadOnlyOf[k] = "yes" => ro, Assign(k, ro),
           UNCHANGED <<kind, old, closing, requests>>
    PROVE  ClientIInv'
<1> USE ClientProxyAssumption DEF ClientIInv, ClientTypeOK, Swapping, Assign,
       CallAt, locks, fields, calls, requests
<1>1. ClientTypeOK'
  OBVIOUS
<1>2. OneConfigure' /\ NoClientWhileDialling' /\ Detached'
  BY DEF OneConfigure, NoClientWhileDialling, Detached
<1>3. Installed' /\ SettingsMatch' /\ ReadOnlyMatches'
  BY DEF Installed, OneConfigure, NoClientWhileDialling, SettingsMatch, Detached,
     ReadOnlyMatches
<1>4. Taken'
  BY DEF Taken, Detached, Installed
<1>5. ClientsReleased'
  BY DEF ClientsReleased, InProgress, OneConfigure, NoClientWhileDialling,
     Detached, Installed
<1>6. ReadOnlyHonoured' /\ WholeOrRefused'
  BY DEF ReadOnlyHonoured, Taken, WholeOrRefused
<1> QED
  BY <1>1, <1>2, <1>3, <1>4, <1>5, <1>6

\* ... the new client is in the hands of the call ...
LEMMA DialIInv ==
    ASSUME ClientIInv, NEW k \in Calls, ~Swapping, Dial(k),
           UNCHANGED <<kind, old, closing, requests>>
    PROVE  ClientIInv'
<1> USE ClientProxyAssumption DEF ClientIInv, ClientTypeOK, Swapping, Dial, CallAt,
       locks, fields, calls, requests
<1>1. ClientTypeOK'
  BY ZenonT(20)
<1>2. OneConfigure' /\ NoClientWhileDialling' /\ Detached'
  BY ZenonT(20) DEF OneConfigure, NoClientWhileDialling, Detached
<1>3. Installed' /\ SettingsMatch' /\ ReadOnlyMatches'
  BY ZenonT(20) DEF Installed, OneConfigure, NoClientWhileDialling, SettingsMatch, Detached,
     ReadOnlyMatches
<1>4. Taken'
  BY DEF Taken, Detached, Installed
<1>5. ClientsReleased'
  BY DEF ClientsReleased, InProgress, OneConfigure, NoClientWhileDialling,
     Detached, Installed
<1>6. ReadOnlyHonoured' /\ WholeOrRefused'
  BY ZenonT(20) DEF ReadOnlyHonoured, Taken, WholeOrRefused
<1> QED
  BY <1>1, <1>2, <1>3, <1>4, <1>5, <1>6

\* ... until it becomes the current one.
LEMMA InstallLockedIInv ==
    ASSUME ClientIInv, NEW k \in Calls, ~Swapping, InstallLocked(k),
           UNCHANGED <<kind, old, closing, requests>>
    PROVE  ClientIInv'
<1> USE ClientProxyAssumption DEF ClientIInv, ClientTypeOK, Swapping,
       InstallLocked, CallAt, locks, fields, calls, requests
<1>1. ClientTypeOK'
  BY ZenonT(20)
<1>2. OneConfigure' /\ NoClientWhileDialling' /\ Detached'
  BY ZenonT(20) DEF OneConfigure, NoClientWhileDialling, Detached
<1>3. Installed' /\ SettingsMatch' /\ ReadOnlyMatches'
  BY ZenonT(20) DEF Installed, OneConfigure, NoClientWhileDialling, SettingsMatch, Detached,
     ReadOnlyMatches
<1>4. Taken'
  BY ZenonT(20) DEF Taken, Detached, Installed
<1>5. ClientsReleased'
  BY DEF ClientsReleased, InProgress, OneConfigure, NoClientWhileDialling,
     Detached, Installed
<1>6. ReadOnlyHonoured' /\ WholeOrRefused'
  BY DEF ReadOnlyHonoured, Taken, WholeOrRefused
<1> QED
  BY <1>1, <1>2, <1>3, <1>4, <1>5, <1>6, ZenonT(20)

\* These are the steps of the three Configure functions.
LEMMA LockedConfigureIInv ==
    ASSUME ClientIInv, NEW k \in Calls,
           KafkaConfigure(k) \/ MongoConfigure(k) \/ DbConfigure(k)
    PROVE  ClientIInv'
<1> USE DEF KafkaConfigure, MongoConfigure, DbConfigure, Swapping
<1>1. ~Swapping /\ UNCHANGED <<kind, old, closing, requests>>
  BY ZenonT(20)
<1>2. CASE FailLocked(k, {"dial", "built"}) \/ FailLocked(k, {"assign", "dial", "built"})
  BY <1>1, <1>2, FailLockedIInv DEF FailLocked
<1>3. CASE Dial(k) \/ InstallLocked(k)
  BY <1>1, <1>3, DialIInv, InstallLockedIInv
<1>4. CASE kind = "kafka" /\ LockAndDrop(k, "dial")
  BY <1>1, <1>4, LockAndDropIInv
<1>5. CASE LockAndDrop(k, "assign")
  BY <1>1, <1>5, LockAndDropIInv
<1>6. CASE kind = "mongodb" /\ Assign(k, readOnly)
  <2>1. readOnly \in BOOLEAN
    BY DEF ClientIInv, ClientTypeOK
  <2> QED
    BY <1>1, <1>6, <2>1, AssignIInv
<1>7. CASE Assign(k, IF ReadOnlyOf[k] = "unset" THEN readOnly ELSE ReadOnlyOf[k] = "yes")
  <2> DEFINE ro == IF ReadOnlyOf[k] = "unset" THEN readOnly ELSE ReadOnlyOf[k] = "yes"
  <2>1. ro \in BOOLEAN /\ (ReadOnlyOf[k] = "yes" => ro)
    BY Zenon DEF ClientIInv, ClientTypeOK
  <2> HIDE DEF ro
  <2>2. Assign(k, ro)
    BY <1>7 DEF ro
  <2> QED
    BY <1>1, <2>1, <2>2, AssignIInv
<1> QED
  BY <1>2, <1>3, <1>4, <1>5, <1>6, <1>7

-----------------------------------------------------------------------------
(* Requests.                                                                 *)

\* A request that changes only what it knows itself disturbs nothing of the proxy.
LEMMA RequestFrame ==
    ASSUME ClientIInv, UNCHANGED <<kind, locks, fields, open, calls>>
    PROVE  /\ OneConfigure' /\ NoClientWhileDialling'
           /\ SettingsMatch' /\ ReadOnlyMatches' /\ ClientsReleased'
<1> USE DEF ClientIInv, Swapping, locks, fields, calls
<1>1. OneConfigure' /\ NoClientWhileDialling'
  BY DEF OneConfigure, NoClientWhileDialling
<1>2. SettingsMatch' /\ ReadOnlyMatches'
  BY ZenonT(20) DEF SettingsMatch, ReadOnlyMatches
<1>3. ClientsReleased'
  BY ZenonT(20) DEF ClientsReleased, InProgress
<1> QED
  BY <1>1, <1>2, <1>3

\* http: no Configure or Close comes between the fields that a request copies.
LEMMA HttpReadIInv ==
    ASSUME ClientIInv, NEW r \in Callers, HttpRead(r)
    PROVE  ClientIInv'
<1> USE ClientProxyAssumption DEF ClientIInv, ClientTypeOK, Swapping, HttpRead,
       StepAt, MayRead, locks, fields, calls, requests
<1>1. ClientTypeOK'
  BY SMTT(30)
<1>2. OneConfigure' /\ NoClientWhileDialling' /\ SettingsMatch' /\ ReadOnlyMatches'
  BY ZenonT(20) DEF OneConfigure, NoClientWhileDialling, SettingsMatch, Detached,
     ReadOnlyMatches
<1>3. Detached' /\ Installed'
  BY DEF Detached, Installed
<1>4. Taken'
  <2>1. CASE step[r] = "idle"
    BY <2>1, SMTT(30) DEF Taken
  <2>2. CASE step[r] = "reading"
    BY <2>2, SMTT(30) DEF Taken, SettingsMatch
  <2> QED
    BY <2>1, <2>2, ZenonT(20)
<1>5. ClientsReleased'
  BY SMTT(30) DEF ClientsReleased, InProgress, OneConfigure, NoClientWhileDialling,
     Detached, Installed
<1>6. ReadOnlyHonoured' /\ WholeOrRefused'
  BY SMTT(30) DEF ReadOnlyHonoured, Taken, WholeOrRefused
<1> QED
  BY <1>1, <1>2, <1>3, <1>4, <1>5, <1>6, ZenonT(20)

\* http: the response is passed on whole or refused.
LEMMA HttpDoIInv ==
    ASSUME ClientIInv, NEW r \in Callers, NEW n \in 0 .. MaxInt, HttpDo(r, n)
    PROVE  ClientIInv'
<1>1. CapOf[seen[r]] \in 1 .. MaxInt
  BY ClientProxyAssumption, ZenonT(20) DEF HttpDo, ClientIInv, ClientTypeOK, Taken
<1>2. LimitRead(n, ReadLimit(CapOf[seen[r]])) <= CapOf[seen[r]] =>
          LimitRead(n, ReadLimit(CapOf[seen[r]])) = n
  BY <1>1, LimitIsEnough, Zenon
<1>3. PICK how \in {"failed", "served"} : StepAt(r, how)
  BY Zenon DEF HttpDo
<1>4. body' = body \/ body' = [body EXCEPT ![r] = [sent |-> n, kept |-> n]]
  BY <1>2, ZenonT(20) DEF HttpDo
<1>5. /\ kind = "http" /\ step[r] = "sending"
      /\ UNCHANGED <<kind, locks, fields, open, calls, conn, seen>>
  BY ZenonT(20) DEF HttpDo
<1> USE <1>3, <1>4, <1>5 DEF ClientIInv, ClientTypeOK, StepAt, locks, fields, calls
<1>6. ClientTypeOK'
  <2>1. body' \in [Callers -> [sent : 0 .. MaxInt, kept : 0 .. MaxInt]]
    BY <1>4
  <2> QED
    BY <2>1, ZenonT(40)
<1>7. Detached' /\ Installed'
  BY DEF Detached, Installed
<1>8. Taken'
  BY ZenonT(20) DEF Taken
<1>9. ReadOnlyHonoured' /\ WholeOrRefused'
  BY SMTT(30) DEF ReadOnlyHonoured, WholeOrRefused
<1>10. /\ OneConfigure' /\ NoClientWhileDialling'
       /\ SettingsMatch' /\ ReadOnlyMatches' /\ ClientsReleased'
  BY RequestFrame
<1> QED
  BY <1>6, <1>7, <1>8, <1>9, <1>10, ZenonT(20)

\* The client that a request of the others has taken is current or closed.
LEMMA TakenIsCurrent ==
    ASSUME ClientIInv, NEW r \in Callers, kind # "http", conn[r] \in open
    PROVE  client = conn[r] /\ client # None
  BY ClientProxyAssumption, SMTT(30) DEF ClientIInv, ClientTypeOK, ClientsReleased, InProgress, Detached,
     Installed

\* They take the client under the read lock, when there is no Configure ...
LEMMA TakeClientIInv ==
    ASSUME ClientIInv, NEW r \in Callers, NEW next \in {"taken", "sending"}, kind # "http",
           TakeClient(r, next)
    PROVE  ClientIInv'
<1> USE ClientProxyAssumption DEF ClientIInv, ClientTypeOK, Swapping, TakeClient,
       StepAt, MayRead, locks, fields, calls, requests
<1>1. ClientTypeOK'
  BY TakeClientTypeOK, ZenonT(40)
<1>2. Detached' /\ Installed'
  BY ZenonT(20) DEF Detached, Installed
<1>3. Taken'
  BY ZenonT(40) DEF Taken
<1>4. ReadOnlyHonoured' /\ WholeOrRefused'
  BY ZenonT(40) DEF ReadOnlyHonoured, Taken, WholeOrRefused
<1>5. /\ OneConfigure' /\ NoClientWhileDialling'
      /\ SettingsMatch' /\ ReadOnlyMatches' /\ ClientsReleased'
  BY RequestFrame, ZenonT(40)
<1> QED
  BY <1>1, <1>2, <1>3, <1>4, <1>5, ZenonT(40)

\* ... and it answers only while it is open ...
LEMMA UseClientIInv ==
    ASSUME ClientIInv, NEW r \in Callers, kind # "http",
           \/ step[r] = "sending" /\ UseClient(r, "served")
           \/ step[r] = "executing" /\ UseClient(r, "executed")
    PROVE  ClientIInv'
<1>1. PICK how \in {"failed", "served", "executed"} :
          /\ StepAt(r, how)
          /\ step[r] # "reading"
          /\ how = "executed" => step[r] = "executing" /\ conn[r] \in open
  BY ZenonT(40) DEF UseClient
<1>2. UNCHANGED <<kind, locks, fields, open, calls, conn, seen, body>>
  BY ZenonT(20) DEF UseClient
<1> USE <1>1, <1>2 DEF ClientIInv, ClientTypeOK, StepAt, locks, fields, calls
<1>3. ClientTypeOK'
  BY ZenonT(40)
<1>4. Detached' /\ Installed'
  BY ZenonT(40) DEF Detached, Installed
<1>5. Taken'
  BY ZenonT(40) DEF Taken
<1>6. ReadOnlyHonoured' /\ WholeOrRefused'
  BY ZenonT(40) DEF ReadOnlyHonoured, WholeOrRefused, Taken
<1>7. /\ OneConfigure' /\ NoClientWhileDialling'
      /\ SettingsMatch' /\ ReadOnlyMatches' /\ ClientsReleased'
  BY RequestFrame, ZenonT(40)
<1> QED
  BY <1>3, <1>4, <1>5, <1>6, <1>7, ZenonT(40)

\* ... mongodb: the database that is read later belongs to the client taken
\* before, unless that has been closed meanwhile ...
LEMMA GetDatabaseIInv ==
    ASSUME ClientIInv, NEW r \in Callers, kind = "mongodb", GetDatabase(r)
    PROVE  ClientIInv'
<1> USE ClientProxyAssumption DEF ClientIInv, ClientTypeOK, Swapping, GetDatabase,
       StepAt, locks, fields, calls, requests
<1>1. ClientTypeOK'
  <2>1. \A c \in {settings} \cup (IF writer # None THEN {"torn"} ELSE {}) :
            c \in Calls \cup {None, "torn"}
    BY ZenonT(20)
  <2>2. seen' \in [Callers -> Calls \cup {None, "torn"}]
    BY <2>1, ZenonT(20)
  <2> QED
    BY <2>2, ZenonT(20)
<1>2. Detached' /\ Installed'
  BY ZenonT(40) DEF Detached, Installed
<1>3. Taken'
  <2>1. conn[r] \in open => seen'[r] = conn[r]
    BY TakenIsCurrent, ZenonT(40) DEF NoClientWhileDialling, SettingsMatch
  <2>2. \A q \in Callers \ {r} : seen'[q] = seen[q] /\ step'[q] = step[q]
    BY ZenonT(20)
  <2>3. step'[r] = "sending"
    BY ZenonT(20)
  <2> QED
    BY <2>1, <2>2, <2>3, ZenonT(40) DEF Taken
<1>4. ReadOnlyHonoured' /\ WholeOrRefused'
  BY ZenonT(40) DEF ReadOnlyHonoured, Taken, WholeOrRefused
<1>5. /\ OneConfigure' /\ NoClientWhileDialling'
      /\ SettingsMatch' /\ ReadOnlyMatches' /\ ClientsReleased'
  BY RequestFrame, ZenonT(40)
<1> QED
  BY <1>1, <1>2, <1>3, <1>4, <1>5, ZenonT(40)

\* ... db: so does readOnly.
LEMMA HandleExecuteIInv ==
    ASSUME ClientIInv, NEW r \in Callers, kind = "db", HandleExecute(r)
    PROVE  ClientIInv'
<1> USE ClientProxyAssumption DEF ClientIInv, ClientTypeOK, Swapping,
       HandleExecute, StepAt, locks, fields, calls, requests
<1>1. ClientTypeOK'
  BY ZenonT(20)
<1>2. Detached' /\ Installed'
  BY ZenonT(40) DEF Detached, Installed
<1>3. Taken'
  <2>1. conn[r] \in open /\ ~readOnly => ReadOnlyOf[conn[r]] # "yes"
    BY TakenIsCurrent, ZenonT(40) DEF ReadOnlyMatches
  <2> QED
    BY <2>1, ZenonT(40) DEF Taken
<1>4. ReadOnlyHonoured' /\ WholeOrRefused'
  BY ZenonT(40) DEF ReadOnlyHonoured, Taken, WholeOrRefused
<1>5. /\ OneConfigure' /\ NoClientWhileDialling'
      /\ SettingsMatch' /\ ReadOnlyMatches' /\ ClientsReleased'
  BY RequestFrame, ZenonT(40)
<1> QED
  BY <1>1, <1>2, <1>3, <1>4, <1>5, ZenonT(40)

\* These are the steps of their requests.
LEMMA OtherRequestIInv ==
    ASSUME ClientIInv, NEW r \in Callers,
           RedisRequest(r) \/ KafkaRequest(r) \/ MongoRequest(r) \/ DbRequest(r)
    PROVE  ClientIInv'
  BY TakeClientIInv, UseClientIInv, GetDatabaseIInv, HandleExecuteIInv, ZenonT(20)
     DEF RedisRequest, KafkaRequest, MongoRequest, DbRequest

-----------------------------------------------------------------------------
(* Close.                                                                    *)

\* http: the detached client is in the hands of Close until it is closed.
LEMMA HttpCloseIInv ==
    ASSUME ClientIInv, HttpClose
    PROVE  ClientIInv'
<1> USE ClientProxyAssumption DEF ClientIInv, ClientTypeOK, Swapping, HttpClose,
       MayWrite, locks, fields, calls, requests
<1>1. ClientTypeOK'
  BY ZenonT(40)
<1>2. OneConfigure' /\ NoClientWhileDialling' /\ Detached'
  BY ZenonT(40) DEF OneConfigure, NoClientWhileDialling, Detached
<1>3. Installed' /\ SettingsMatch' /\ ReadOnlyMatches'
  BY ZenonT(40) DEF Installed, OneConfigure, NoClientWhileDialling, SettingsMatch, Detached,
     ReadOnlyMatches
<1>4. Taken'
  BY ZenonT(40) DEF Taken
<1>5. ClientsReleased'
  BY ZenonT(20) DEF ClientsReleased, InProgress, Detached
<1>6. ReadOnlyHonoured' /\ WholeOrRefused'
  BY ZenonT(40) DEF ReadOnlyHonoured, Taken, WholeOrRefused
<1> QED
  BY <1>1, <1>2, <1>3, <1>4, <1>5, <1>6, ZenonT(40)

\* The others close the client under the lock.
LEMMA CloseLockedIInv ==
    ASSUME ClientIInv, NEW flag \in BOOLEAN, kind # "http", flag => kind = "redis",
           CloseLocked(flag)
    PROVE  ClientIInv'
<1> USE ClientProxyAssumption DEF ClientIInv, ClientTypeOK, Swapping, CloseLocked,
       DropOld, MayWrite, locks, fields, calls, requests
<1>1. ClientTypeOK'
  BY ZenonT(40)
<1>2. OneConfigure' /\ NoClientWhileDialling' /\ Detached'
  BY ZenonT(40) DEF OneConfigure, NoClientWhileDialling, Detached
<1>3. Installed' /\ SettingsMatch' /\ ReadOnlyMatches'
  BY ZenonT(40) DEF Installed, OneConfigure, NoClientWhileDialling, SettingsMatch, Detached,
     ReadOnlyMatches
<1>4. Taken'
  BY ZenonT(40) DEF Taken
<1>5. ClientsReleased'
  BY SMTT(30) DEF ClientsReleased, InProgress
<1>6. ReadOnlyHonoured' /\ WholeOrRefused'
  BY Zenon DEF ReadOnlyHonoured, Taken, WholeOrRefused
<1> QED
  BY <1>1, <1>2, <1>3, <1>4, <1>5, <1>6, ZenonT(40)

\* So do all of their Close functions; only redis remembers it.
LEMMA LockedCloseIInv ==
    ASSUME ClientIInv, RedisClose \/ KafkaClose \/ MongoClose \/ DbClose
    PROVE  ClientIInv'
  BY CloseLockedIInv, ZenonT(40) DEF RedisClose, KafkaClose, MongoClose, DbClose

\* The invariant holds for each of the five proxies.
THEOREM ClientInductive == ClientSpec => []ClientIInv
<1>1. ClientIInv /\ [ClientNext]_clientVars => ClientIInv'
  <2> SUFFICES ASSUME ClientIInv, [ClientNext]_clientVars PROVE ClientIInv'
    OBVIOUS
  <2>1. CASE UNCHANGED clientVars
    <3> USE <2>1 DEF clientVars, locks, fields, calls, requests, ClientIInv
    <3>1. ClientTypeOK'
      BY ZenonT(20) DEF ClientTypeOK
    <3>2. Detached' /\ Installed' /\ Taken' /\ ReadOnlyHonoured' /\ WholeOrRefused'
      BY Zenon DEF Detached, Installed, Taken, ReadOnlyHonoured, WholeOrRefused
    <3> QED
      BY <3>1, <3>2, RequestFrame
  <2> QED
    BY <2>1, HttpConfigureIInv, RedisConfigureIInv, LockedConfigureIInv, HttpReadIInv,
       HttpDoIInv, OtherRequestIInv, HttpCloseIInv, LockedCloseIInv DEF ClientNext
<1> QED
  BY <1>1, ClientInitIInv, PTL DEF ClientSpec

\* No client is lost open by Configure or Close, and a closed http or redis proxy
\* has none.
THEOREM NoClientLeaked == ClientSpec => []ClientsReleased
<1>1. ClientIInv => ClientsReleased
  BY DEF ClientIInv
<1> QED
  BY <1>1, ClientInductive, PTL

\* db_execute runs no statement on a pool that was configured read-only, although
\* it tests readOnly without a lock.
THEOREM ReadOnlyIsHonoured == ClientSpec => []ReadOnlyHonoured
<1>1. ClientIInv => ReadOnlyHonoured
  BY DEF ClientIInv
<1> QED
  BY <1>1, ClientInductive, PTL

\* The http proxy never passes on a response that it has cut short.
THEOREM ResponsesAreWhole == ClientSpec => []WholeOrRefused
<1>1. ClientIInv => WholeOrRefused
  BY ZenonT(20) DEF ClientIInv
<1> QED
  BY <1>1, ClientInductive, PTL

-----------------------------------------------------------------------------
(***************************************************************************)
(* The refinement.  The configuration of the contract is the installed     *)
(* client; a request is served when http has copied its fields, and with   *)
(* the others when the client answers.                                     *)
(***************************************************************************)

\* Configure and Close change no request.
LEMMA ServedByUnchanged ==
    ASSUME UNCHANGED kind, UNCHANGED requests
    PROVE  [r \in Callers |-> ServedBy(r)]' = [r \in Callers |-> ServedBy(r)]
  BY DEF ServedBy, requests

\* A Configure installs its client or withdraws the old one, in one step.
LEMMA ConfigureRefines ==
    ASSUME ClientIInv, NEW k \in Calls,
           \/ HttpConfigure(k) \/ RedisConfigure(k)
           \/ KafkaConfigure(k) \/ MongoConfigure(k) \/ DbConfigure(k)
    PROVE  [Contract!ContractNext]_(Contract!contractVars)
<1>1. [r \in Callers |-> ServedBy(r)]' = [r \in Callers |-> ServedBy(r)]
  BY ServedByUnchanged, ZenonT(40) DEF HttpConfigure, RedisConfigure, KafkaConfigure, MongoConfigure,
     DbConfigure
<1>2. \/ UNCHANGED <<client, shut>>
      \/ ~shut /\ client' = k /\ UNCHANGED shut
      \/ client' = None /\ UNCHANGED shut
  BY ZenonT(40) DEF HttpConfigure, RedisConfigure, KafkaConfigure, MongoConfigure, DbConfigure, Refused,
     LockAndDrop, FailLocked, Assign, Dial, InstallLocked, DropOld, fields, ClientIInv,
     NoClientWhileDialling, Swapping
<1> QED
  BY <1>1, <1>2, ZenonT(20) DEF Contract!ContractNext, Contract!contractVars, Contract!Install,
     Contract!Withdraw

\* A Close withdraws the client, for good if it is remembered.
LEMMA CloseRefines ==
    ASSUME ClientIInv, HttpClose \/ RedisClose \/ KafkaClose \/ MongoClose \/ DbClose
    PROVE  [Contract!ContractNext]_(Contract!contractVars)
<1>1. [r \in Callers |-> ServedBy(r)]' = [r \in Callers |-> ServedBy(r)]
  BY ServedByUnchanged, ZenonT(20) DEF HttpClose, RedisClose, KafkaClose, MongoClose, DbClose, CloseLocked
<1>2. \/ UNCHANGED <<client, shut>>
      \/ client' = None /\ shut' = TRUE
      \/ client' = None /\ UNCHANGED shut
  BY Zenon DEF HttpClose, RedisClose, KafkaClose, MongoClose, DbClose, CloseLocked, DropOld,
     ClientIInv, NoClientWhileDialling, ClientTypeOK, Swapping
<1> QED
  BY <1>1, <1>2, ZenonT(20) DEF Contract!ContractNext, Contract!contractVars, Contract!Retire,
     Contract!Withdraw

\* What a step of one request does to the contract's view of it.
ServedNow(r) ==
    /\ client # None
    /\ ServedBy(r) = None
    /\ ServedBy(r)' = client

\* A step of one request that serves it with the current configuration, or leaves
\* the contract's view of it as it was, is a step of the contract.
LEMMA RequestRefines ==
    ASSUME NEW r \in Callers, UNCHANGED <<client, shut>>,
           ServedNow(r) \/ ServedBy(r)' = ServedBy(r),
           \A q \in Callers \ {r} : ServedBy(q)' = ServedBy(q)
    PROVE  [Contract!ContractNext]_(Contract!contractVars)
<1> DEFINE served == [q \in Callers |-> ServedBy(q)]
<1>1. CASE ServedNow(r)
  <2>1. ServedBy(r)' = client
    BY <1>1 DEF ServedNow
  <2>2. \A q \in Callers : ServedBy(q)' = IF q = r THEN client ELSE ServedBy(q)
    BY <2>1
  <2>3. served' = [served EXCEPT ![r] = client]
    BY <2>2, Zenon
  <2> QED
    BY <1>1, <2>3, ZenonT(40) DEF ServedNow, Contract!ContractNext, Contract!Serve
<1>2. CASE ServedBy(r)' = ServedBy(r)
  <2>1. served' = served
    BY <1>2
  <2> QED
    BY <2>1 DEF Contract!contractVars
<1> QED
  BY <1>1, <1>2

\* http: a request is served when it has copied the last field.
LEMMA HttpRequestRefines ==
    ASSUME ClientIInv, NEW r \in Callers,
           HttpRead(r) \/ \E n \in 0 .. MaxInt : HttpDo(r, n)
    PROVE  [Contract!ContractNext]_(Contract!contractVars)
<1> USE ClientProxyAssumption DEF ClientIInv, ClientTypeOK, HttpRead, HttpDo, StepAt, ServedBy
<1>1. UNCHANGED <<client, shut>>
  BY ZenonT(40) DEF fields
<1>2. \A q \in Callers \ {r} : ServedBy(q)' = ServedBy(q)
  BY ZenonT(40)
<1>3. ServedNow(r) \/ ServedBy(r)' = ServedBy(r)
  BY ZenonT(40) DEF ServedNow, Taken, SettingsMatch
<1> QED
  BY <1>1, <1>2, <1>3, RequestRefines, ZenonT(40)

\* The others: a request is served when the client it has taken answers, which it
\* does only while it is the current one.
LEMMA OtherRequestRefines ==
    ASSUME ClientIInv, NEW r \in Callers,
           RedisRequest(r) \/ KafkaRequest(r) \/ MongoRequest(r) \/ DbRequest(r)
    PROVE  [Contract!ContractNext]_(Contract!contractVars)
<1>1. /\ kind # "http"
      /\ \/ \E next \in {"taken", "sending"} : TakeClient(r, next)
         \/ GetDatabase(r)
         \/ HandleExecute(r)
         \/ step[r] = "sending" /\ UseClient(r, "served")
         \/ step[r] = "executing" /\ UseClient(r, "executed")
  BY ZenonT(20) DEF RedisRequest, KafkaRequest, MongoRequest, DbRequest
<1> USE ClientProxyAssumption DEF ClientIInv, ClientTypeOK, StepAt, ServedBy
<1>2. CASE \E next \in {"taken", "sending"} : TakeClient(r, next)
  <2>1. step[r] = "idle" /\ step'[r] \in {"taken", "sending", "failed"}
    BY <1>2, ZenonT(20) DEF TakeClient
  <2>2. \A q \in Callers \ {r} : ServedBy(q)' = ServedBy(q)
    BY <1>2, ZenonT(20) DEF TakeClient
  <2>3. ServedBy(r)' = ServedBy(r)
    BY <1>1, <1>2, <2>1, ZenonT(20) DEF TakeClient
  <2> QED
    BY <1>2, <2>2, <2>3, RequestRefines, ZenonT(40) DEF TakeClient, fields
<1>3. CASE GetDatabase(r) \/ HandleExecute(r)
  <2>1. step[r] = "taken" /\ step'[r] \in {"sending", "executing", "failed"}
    BY <1>3, ZenonT(20) DEF GetDatabase, HandleExecute
  <2>2. \A q \in Callers \ {r} : ServedBy(q)' = ServedBy(q)
    <3>1. CASE GetDatabase(r)
      BY <3>1, ZenonT(20) DEF GetDatabase
    <3>2. CASE HandleExecute(r)
      BY <3>2, ZenonT(20) DEF HandleExecute
    <3> QED
      BY <1>3, <3>1, <3>2, ZenonT(40)
  <2>3. ServedBy(r)' = ServedBy(r)
    BY <1>1, <1>3, <2>1, ZenonT(20) DEF GetDatabase, HandleExecute
  <2> QED
    BY <1>3, <2>2, <2>3, RequestRefines, ZenonT(40) DEF GetDatabase, HandleExecute, fields
<1>4. CASE \/ step[r] = "sending" /\ UseClient(r, "served")
           \/ step[r] = "executing" /\ UseClient(r, "executed")
  <2>1. \A q \in Callers \ {r} : ServedBy(q)' = ServedBy(q)
    BY <1>4, ZenonT(20) DEF UseClient
  <2>2. ServedNow(r) \/ ServedBy(r)' = ServedBy(r)
    BY <1>1, <1>4, TakenIsCurrent, ZenonT(40) DEF ServedNow, UseClient, Taken
  <2> QED
    BY <1>4, <2>1, <2>2, RequestRefines, ZenonT(40) DEF UseClient, fields
<1> QED
  BY <1>1, <1>2, <1>3, <1>4, ZenonT(20)

\* The five proxies implement the contract of the Proxy interface: every request
\* is served with one whole configuration that was in force at some instant of
\* the call, and with none after a Close that is remembered.
THEOREM ProxiesImplementContract == ClientSpec => ImplementsContract
<1>1. ClientInit(Kinds) => Contract!ContractInit
  BY DEF ClientInit, Contract!ContractInit, ServedBy
<1>2. ClientIInv /\ [ClientNext]_clientVars => [Contract!ContractNext]_(Contract!contractVars)
  <2> SUFFICES ASSUME ClientIInv, [ClientNext]_clientVars
               PROVE  [Contract!ContractNext]_(Contract!contractVars)
    OBVIOUS
  <2>1. CASE UNCHANGED clientVars
    <3>1. UNCHANGED <<kind, requests, client, shut>>
      BY <2>1 DEF clientVars, fields
    <3> QED
      BY <3>1, ServedByUnchanged DEF Contract!contractVars
  <2> QED
    BY <2>1, ConfigureRefines, CloseRefines, HttpRequestRefines, OtherRequestRefines
       DEF ClientNext
<1> QED
  BY <1>1, <1>2, ClientInductive, PTL DEF ClientSpec, ImplementsContract, Contract!ContractSpec
=============================================================================
