# Forager: a TLA+ verification project

Forager is an agent that runs beside a customer's datasources. It keeps one
WebSocket connection to a relay, receives signed requests and configuration
pushes over it, and hands each request to the proxy of the datasource it names.
This directory models the agent's concurrent core in TLA+, checks it with TLC on
small instances, shows that five of its proxies implement one abstract contract,
and proves every safety property of its passing runs with TLAPS for every
instance, together with what most of its liveness properties rest on besides
fairness.

Run a check with `tlc -config MCX.cfg MCX`, a proof with `tlapm XProofs.tla`.

## 1. The system

| part | code | state | operations | what makes it hard |
|---|---|---|---|---|
| relay client | `pkg/ws/client.go` | connection, `sendCh` (64), `healthNow` (1), session context | connect, read, write, ping, close, health loop, `Send`, `TriggerHealthReport` | five goroutines per session, half-open links, lost triggers, shutdown that waits for everyone |
| message verification | `pkg/signing` | `seenNonces` | `Sign`, `Verify`, eviction | copies delivered twice, late and in parallel; restart |
| handler | `pkg/ws/handler.go` | none of its own | route a request, apply a config push, test a config | one goroutine per message, nothing orders them |
| registry | `pkg/proxy/registry.go` | proxies, configs, `lastSuccess`, `reqErrors` | `Register`, `Remove`, `Get`, `RecordRequestResult`, `HealthReport`, `CloseAll` | results that arrive after the proxy was replaced |
| ssh proxy | `pkg/proxy/ssh` | pool of connections, two mutexes, clean-up loop | exec, SFTP, `Close` | lock order, pool limit, eviction, deadlines |
| discovery proxy | `pkg/proxy/discovery` | configuration, verified packs | sweep, inventory, LDAP | worker pools, cancellation, scope |
| mcp proxy | `pkg/proxy/mcp` | session cache, stdio process, OAuth token | request with session, sweep, `Close` | racing initializes, sessions the server forgets |
| http, db, redis, kafka, mongodb proxies | `pkg/proxy/*` | a client each | configure, request, health check, close | configuration replaced under a request |
| VM service map | `pkg/proxy/http/vmservicemap.go` | none between calls | bounded fan-out of queries, join of their answers | partial failure, ambiguous addresses, fractional counts |
| secrets | `pkg/secrets` | credential file, cache | `Set`, `Resolve` | crash during a write, stale cache |
| start-up | `cmd` | | configure local datasources, run, stop | |

A message goes relay -> `readLoop` -> a new goroutine -> `HandleMessage` ->
`Verify` -> `handleConfigSync` or `handleRequest` -> registry -> proxy -> `Send`
-> `writeLoop` -> relay. The handler goroutines meet each other only in the
nonce cache, the registry, `sendCh`/`healthNow` and inside a proxy. The modules
are cut along these meeting points.

## 2. Modules

| module | models | run | proofs |
|---|---|---|---|
| `Verifier` | replay protection | `verifier` | `RelayClientProofs` |
| `Registry` | registry, requests and a health report over it | `registry` | `RegistryProofs` |
| `ConfigSync` | `handleConfigSync`, composed with `Registry`, whose actions it conjoins | `config_sync`, `config_sync_race` | `RegistryProofs` |
| `RelayClient` | sessions and their goroutines | `relay_client`, `relay_writes` | `RelayClientProofs` |
| `ProxyContract` | what the `Proxy` interface promises a caller; abstract | (property of `proxies`) | |
| `ClientProxy` | http, redis, kafka, mongodb and db; refines `ProxyContract` | `proxies` | `ClientStoreProofs` |
| `SshPool` | ssh connections in dynamic mode | `proxies`, `ssh_pool_close` | `ProxiesProofs` |
| `CredentialStore` | `CloudPushStore`: memory, file and crashes | `proxies` | `ClientStoreProofs` |
| `SecretCache` | `Manager.Resolve` and `getOAuthToken` | `proxies` | `ClientStoreProofs` |
| `McpSession` | MCP sessions of the http and sse transports | `mcp` | `McpProofs` |
| `McpStdio` | the MCP server process behind two pipes | `mcp`, `stdio_serialized` | `McpProofs` |
| `Sweep`, `CloudIdentity`, `Inventory`, `Discovery` | a sweep and the cloud identities of what it found, an inventory, and their dispatch | `actions` | `SweepProofs`, `ActionProofs` |
| `RemoteExec` | reading a remote command: `runCommand` and `handleExec` | `actions`, `remote_exec_deadline` | `ExecMapProofs`, `ActionProofs` |
| `ServiceMap` | `queryAll` and the join into a service map | `actions` | `ExecMapProofs`, `ActionProofs` |
| `Goroutines` | constants that several modules share | | |
| `Progress` | the order on what goroutines have before them | | used by `SweepProofs`, `ExecMapProofs`, `ActionProofs` |

Three modules put components side by side. `Proxies` (one instance of a proxy,
or a store), `McpProxy` (one of the transports) and `ActionHandlers` (one action
in progress) choose in the initial state which part runs. In the program these
parts share no variable: instances meet only in the registry, and an action keeps
its state in the call. Interleaving them would add products of states and no
behaviour, so each such module is a choice of part and not a product. Where parts do
share state, the modules are conjoined: `ConfigSync` with `Registry`.

`MC*` modules only define constants and symmetry sets. Operators named
`X_Mutant` are deliberately wrong versions of `X`; no specification uses them.
For each checked property one of them shows that the property would notice a
plausible mistake in the code.

### How state and steps correspond to the code

- **Verifier.** `seen`/`seenAt` are `seenNonces`; `checks` are the goroutines
  between the timestamp test and `checkAndRecordNonce`, which is atomic under
  `nonceMu`. What the test looks at besides the signature is the envelope, a
  nonce and a `signed_at`, and neither is covered by the signature
  (`pkg/signing/sign.go:167-173`). So a message is known by its envelope, not by its
  payload: `Sign` sends a fresh one, and `Rewrite` sends a payload on with any other
  envelope, an old nonce included. The signature is the bit `intact`. Stamps are at most
  `Offset` away from the agent's clock when they are made. Verification is enabled.
- **Registry.** Each method that runs under `mu` is one action. A request is
  open between `Get` and `RecordRequestResult`; a check between `TakeTarget` and
  `FinishCheck`. A proxy is an instance that is registered once; `lastSuccess` and
  `reqErrors` hold the instance that earned the entry instead of a time or text.
  `Flaky` are ids whose `Close` may fail. Two calls may never return: the `Close` of
  a pooled ssh proxy (`Pooled`; see `ssh_pool_close`), after which `mu` stays held
  (`wedged`), and a `HealthCheck` that ignores its context (`Unbounded`; ssh in static
  mode, `pkg/proxy/ssh/proxy.go:707`).
- **ConfigSync.** One goroutine per push, interleaved at every registry call.
  An item is skipped (credentials, type or `Configure`), or registered, with or
  without its ssh sibling, or the registry call hangs in a `Close` (`PushHangs`).
  `Shutdown` is `CloseAll` under running goroutines. A push lists cloud ids only, each
  once: the code does not test that (`pkg/ws/handler.go:373`), it is an assumption about
  the cloud, whose ids do not begin with `local:`.
- **RelayClient.** `alive` holds the goroutines `wg.Wait` waits for; `writing`
  those inside `conn.WriteMessage`; `loop` the position in `healthReportLoop`;
  `config` says whether a complete report has read the latest registry. A link is
  up, down, or half open (the agent's writes are lost, the relay's arrive). `hung` are
  the goroutines inside a call of the registry that never returns (`Hang`), and `Run`
  itself may be in one before its session has begun (`InventoryHangs`).
- **ClientProxy.** A call of `Configure` brings a configuration and builds one
  client, and all three carry its name. `kind` selects the code: http and redis
  build the client outside `mu`, serialized by `configMu`, and swap it in; kafka,
  mongodb and db close the old client and hold `mu` while they dial. Reads that the code
  makes without the lock (`config.Database` of mongodb, `readOnly` of db) are
  steps of their own; a string read during its assignment may be torn. `open` are
  clients not closed yet. The program configures an instance once, before it is
  registered; that `Configure` may come again, from any goroutine, is what the http
  proxy's `TestProxy_ConcurrentConfigureAndRequests` exercises and what `configMu`
  is for.
- **ProxyContract.** Three variables: the configuration in force, whether the
  proxy is retired, and what each request was served with. The refinement mapping
  takes `client` and `shut` for the first two. For http a request counts as
  served when it has copied its fields, because a client that is replaced later keeps
  working for it; for the others when the client answers. A request served
  with one call's client and another's settings maps to a value the contract
  never produces.
- **SshPool.** A lock that is held across another step is a variable (`sshMu`,
  `poolMu`); `recent` is the order of `lastUsed`. Keepalive and dial happen with
  `poolMu` held, as in the code.
- **CredentialStore.** `Set` is split where a crash matters: map changed,
  encrypted, file truncated, file written. Credentials are the number of the `Set`
  that pushed them. A torn file cannot be decrypted, and the agent does not start
  from it.
- **SecretCache.** `Resolve` holds no lock, so load, delete, fetch and store are
  four steps; `getOAuthToken` holds `oauthMu` throughout. Values are known by the
  time they were read or issued.
- **McpSession.** A request is between two acquisitions of `sessionMu`, or
  waiting for the server. `asked` sessions are those the agent has told the
  server to delete; `lost` those whose id an error has cost it: an `initialize` that
  the server answered and `post` could not read, or with a 5xx, and a 404. A request
  that takes longer than the idle TTL (with OAuth it may wait its turn for the token
  that long) is `overdue`.
- **McpStdio.** `Proxy.stdio` is read and written without a lock. The exchange
  runs in a goroutine that outlives a `send` whose context ends. The test of the field,
  the new object, `start` and `send` are steps of their own, each reading the field
  again, so first requests can start several processes and be handed each other's. A
  line is named after the request it carries or answers; the server may also leave a
  line unanswered or print one of its own (`uneven`), which `send` takes for an
  answer. The nil dereference of a request that finds an object without a process, or
  no object, is the step `Panic`.
- **Sweep / Inventory.** Goroutines are positions; an unbuffered channel is a
  joint step of both ends; a semaphore is a counter. CIDR arithmetic is done on
  `Width`-bit addresses, and compared with a set definition (`Wanted`). The inner
  loop of `expandCIDRs` is the ascending enumeration (`Ascending`) of the set of
  hosts it keeps; the outer one, with its size test, is a recursive function. A scope
  is a set of networks (`allowedNets`) and of names (`allowedHosts`). A target is an
  address, or a name that `isTargetAllowed` looks up and `dial` looks up again, each
  time with any of the addresses it may have. A host that keeps its connection up and
  answers neither `NewSession` nor `Start` holds its goroutine for good (`HostHangs`).
- **CloudIdentity.** The stage of `handleSweep` after `runSweep`, for a datasource with
  SSH credentials: one goroutine per host with the SSH port open, as many at work as
  the semaphore lets. They do not differ, so they are counted. `HostSilent` is the
  `HostHangs` of this stage.
- **RemoteExec.** Each stream has a flow-control window. The process blocks
  when it is full; closing the session unblocks everybody. The channel may be lost
  before the exit status arrives (`LoseChannel`), and the call then fails. `caller`
  selects the function; both share the remote side.
- **ServiceMap.** A query's answer is a function from label sets to values in
  tenths, so that fractional counts occur. The answers are independent of each
  other, since the store goes on taking in samples between two queries. The join is
  a set of operators over one choice of answers.

## 3. Runs

Passing runs, with their distinct states and bounds:

| run | states | shows | bounds and why they suffice |
|---|---|---|---|
| `verifier` | 4.3 M | `AcceptedAtMostOnce`, `RecordedMeansAccepted` | 2 nonces, 3 envelopes, 2 goroutines, skew 3, clock to 7: the cache overflows, evicts, a copy straddles the eviction, and a nonce returns under another stamp |
| `registry` | 1.0 M | `FailuresHaveOwner`, `SuccessIsOwn`, `NoVerdictFromClosed`, `NoLeak`, `ReportCompletes` | 2 ids, 3 proxies, 1 request, 1 worker; one id whose Close may hang, one whose Close may fail and whose check may hang: a slot is replaced twice under a check |
| `config_sync` | 160 k | `AppliesLatestPush`, `SiblingMatchesParent`, `KeptWhenAlwaysListed` | 2 overlapping pushes over a discovery, a plain and a local datasource |
| `relay_client` | 408 k | `NoLostTrigger`, `EveryChangeIsReported`, `ShutdownCompletes`, `DeadWriterEndsSession` | 1 handler goroutine, queue of 1, so that it is empty or full; sessions repeat without bound |
| `proxies` | 500 k | `ImplementsContract`, `ClientsReleased`, `ReadOnlyHonoured`, `WholeOrRefused` | 3 Configure calls (read_only yes, no, unset; caps 1, 2 and the largest integer), 2 requests: a request spans two reconfigurations |
| | | `PoolBounded`, `NothingSurvivesClose`, `NoConnectionLost` | 3 requests, 3 addresses, 4 connections, pool of 2: full pool, dead entry and Close at once |
| | | `StoredNotLost` | 2 callers, 2 datasources, 4 pushes, 2 crashes: overlapping pushes, a failed save and a crash inside the next |
| | | `SecretsAreCurrent` | 2 callers, TTL 2, margin 2, lifetimes absent and 2, clock to 4: an entry expires between one caller's load and another's store |
| `mcp` | 3.6 M | `NoSessionLeaked`, `NotTerminatedInUse`, `WorkingSessionIsKept`, `AnswersPaired` | 2 requests, 2 keys, 3 sessions; 2 process objects, 2 processes, up to 2 lines in a pipe: racing initializes with a retry, and racing starts in which either request finds what the other left |
| `actions` | 638 k | `SweepComplete`, `EveryTargetAnswered`, `ScopeRespected` | 3-bit addresses, 2 CIDRs, 4 addresses a sweep, 2 workers, 2 ports, 2 identities at a time; 3 targets (2 addresses, 1 name with an address on either side), 2 slots; scopes of a name, of a network, and of two networks and a name |
| | | `OutputExact`, `CommandCompletes` | window 2, cap 1, up to 3 units per stream: below, at and above cap and window |
| | | `CallsAreShown`, `DestinationsNotGuessed`, `AllOrNothing` | 3 queries, 2 slots, 2 hosts and 2 containers, limit of 2 edges |
| | | `ActionsReturn` | all of the above |

`config_sync`, `proxies`, `mcp` and `actions` also check the type invariant of
their parts; the type invariants of `Verifier`, `Registry` and `RelayClient` are
proved.

Deadlock is checked in `verifier`, `config_sync` and `relay_client`. It is not in
the others, where behaviours may end: a `Close` that hangs keeps the registry's
mutex for good, calls of `Configure`, dials and sessions are bounded in number, `Close`
ends an instance, a host may stay silent and a remote command hang for good, and the
two locks of the ssh pool can block each other (next table).

Violation runs, each stating what the repository says of the code:

| run | property | what TLC shows |
|---|---|---|
| `config_sync_race` | `LatestPushWins` | two pushes overlap and the older one's registrations or removals come last |
| `relay_writes` | `SerializedWrites` | writer, pinger and closer can be inside `WriteMessage` at once |
| `ssh_pool_close` | `CloseReturns` | `Close` (mu, then poolMu) against `getPooledClient` (poolMu, then mu) |
| `remote_exec_deadline` | `ExecHonoursDeadline` | `handleExec` reads both streams before it looks at the context |
| `stdio_serialized` | `RequestsSerialized` | a cancelled `send` releases its mutex while its goroutine still uses the pipes |

`AnswersPaired` is the other side of `stdio_serialized`: as long as no request is
cancelled and lines go one for one, each answer goes to the request it is for, however
many processes the first requests have started.

Some properties hold but for what the code leaves open, and name it: where such an
exception applies, nothing in the code would make the property true.

| property | holds unless |
|---|---|
| `ReportCompletes` | a `Close` keeps `Registry.mu`, or every check still out ignores its context (`Stalled`) |
| `EveryChangeIsReported` | the health loop, or the handler that is to trigger it, is in a registry call that never returns; or the report was dropped because `sendCh` was full |
| `ShutdownCompletes` | everybody still waited for is in such a call (`Held`) |
| `DeadWriterEndsSession` | the link is half open and the relay's traffic keeps extending the read deadline |
| `NoSessionLeaked` | the id was lost by an error, or the handshake outlasted the TTL |
| `NotTerminatedInUse` | the proxy is being closed, or the request has used the session for the whole TTL |
| `AnswersPaired` | a send was abandoned, or lines did not go one for one |
| `ActionsReturn` | only silent hosts are left to wait for (`InventoryHeld`, `IdentityHeld`) |
| `ScopeRespected` | the datasource has no networks (sweeps), or the target is a name and its second lookup differs (inventories) |
| `DestinationsNotGuessed` | the other service listens on 0.0.0.0 besides the address |
| `StoredNotLost` | the agent is not up: it does not start from a file that a crash has torn |

### Fairness

- `Registry`: workers are scheduled, and a check returns where the proxy heeds the
  10 s context `HealthReport` gives it; of `Unbounded` checks nothing is assumed, nor
  of a `Close` that holds `mu`. `ReportCompletes` rests on it.
- `RelayClient`: runnable goroutines run; writes and reads end by their timeouts; the
  initial delay passes; reports, metadata collection and pushes end unless they
  hang. Nothing is assumed of the health ticker, relay or network. Leaving the health
  loop has strong fairness because Go's `select` picks at random among ready cases.
- `SshPool` (`ssh_pool_close` only): goroutines that can take a step do; a keepalive
  and a dial end.
- `RemoteExec`: goroutines and the remote process are scheduled; a command that
  `hangs` never exits, and the deadline need not come, nor the channel be lost.
- `Discovery`: the goroutines of a request keep running. Probes, dials,
  handshakes, lookups and commands have timeouts; `NewSession` and `Start` have
  none, and nothing is assumed of them: whether a host answers or stays silent is
  a choice.
- `ServiceMap`: its goroutines run, and a query ends, by an answer or by the
  timeout of the http client.

## 4. Proofs

All theorems are about specifications without their fairness, with the constants
arbitrary up to the assumptions named. Every invariant and every action property
of a passing run is proved. `ClientSpec`, `PoolSpec`, `StoreSpec` and `CacheSpec`
are the parts that `ProxySpec` of the run `proxies` chooses from, `SessionSpec` and
`StdioSpec` those of `McpSpec`; `ProxiesSafe` and `McpSafe` carry the results over
to the compositions the runs check.

**RegistryProofs** (any ids, proxies, requests, workers). `IInv` adds that
registered and closed instances have been used, an instance is in one slot at
most, and a registered one is open unless its `Close` may fail. The last is what
makes `StillTarget` a sufficient test. `ReportsDoNotStall` is about the worker pool
of `HealthReport`: no more checks run than there are workers (`WithinPool`), a
report that runs has a check under way, a worker free for a queued target, or
nothing left (`ReportGoesOn`), and whatever is registered, replaced or removed
meanwhile leaves its targets alone and only brings one of them nearer to its result
(`ReportGetsNearer`). Theorems: `Inductive`, `TypeCorrect`, `NoOrphanFailures`,
`SuccessBelongsToProxy`, `ReportsIgnoreClosedProxies`, `ProxiesAreNotLeaked`,
`ReportsDoNotStall`.

The same module proves `ConfigSync` (any names, any number of pushes, overlapping
or not). `SyncIInv` keeps `IInv` of the registry and adds that a push has noted what
it has registered and removes nothing it has noted and nothing local
(`NotesMatchTable`, `SparesNotedAndLocal`), that while pushes do not overlap only the
latest is being applied (`OnlyLatestRuns`), and that then what it registered is in
the table and what it did not note is in its removal loop (`LatestIsApplied`).
`ConfigSyncAssumption` says that `Close` of an ssh sibling does not fail: a sibling is
made in dynamic mode (`pkg/proxy/discovery/ssh_access.go:47`), where
`closeAllLocked` has no error to return. Without it `SiblingMatchesParent` would be
false, since a sibling whose `Close` fails stays in the table. Theorems:
`SyncInductive`, `SyncTypeCorrect`, `LatestPushIsApplied`,
`SiblingsMatch`, `ListedAreKept` (an action property).

**RelayClientProofs** has two parts.

*The relay client* (any handlers, any capacity). `TypeOK /\ NoLostTrigger` is
inductive: draining happens before the registry is read, so each way of
clearing the trigger leaves a report ahead. `SessionsWindDown` is about the end of a
session, and its invariant is `SessionShape`. Whatever a goroutine of the session
waits for once the session has to end is there, a registry call that hangs
excepted: the context is done after a signal
and after a failed read; the reader, which does not look at the context, has the
closer ahead of it or is bound to fail; a writer or pinger that has given up means a
done context or a link that is not up. And a session only shrinks: it gains no
goroutine, its context stays done and its connection closed. Theorems: `Inductive`,
`TypeCorrect`, `TriggersAreNotLost`, `SessionsWindDown`.

*The verifier* (any nonces, goroutines, skew, cache limit; any rewriting of
envelopes). `AcceptedAtMostOnce` is not inductive: it does not say why a second copy is
refused. `VerifierIInv` adds that no envelope is stamped more than `Offset` ahead of the
agent's clock (`SentByNow`), that a copy past the timestamp test is at most
`Skew + MaxLag` behind its stamp (`ChecksTimely`), that a cached nonce was
recorded no earlier than `Offset` before the stamp of any accepted envelope with it
(`CachedSinceSigned`), and that an accepted envelope's nonce is cached or the envelope
is more than `2*Skew - Offset` old (`AcceptedIsRemembered`). A copy that would be
accepted again would have to be younger and older than that at once. The argument
uses `Offset + MaxLag <= Skew` (`VerifierAssumption`): with a clock offset and a
verification time beyond five minutes together, a replay could be accepted. The
theorem is about envelopes, which is all that `Verify` compares: a payload sent on under
another nonce is another envelope, and is accepted once for each.
Theorems: `VerifierTypeCorrect`, `VerifierInductive`, `ReplayProtection`,
`DamagedCopiesHarmless`, `EvictionIsLate`.

**ClientStoreProofs** has three parts.

*The client proxies* (any Configure calls, requests, configurations, response
sizes). None of the properties is inductive alone. `ClientIInv` adds that one
`Configure` is under way at a time (`OneConfigure`), that a proxy which dials under
its lock has no client meanwhile (`NoClientWhileDialling`), that only http
detaches clients and closes them later (`Detached`), that what requests have taken was
installed (`Installed`), and that `settings` and `readOnly` are those of the
current client (`SettingsMatch`, `ReadOnlyMatches`). From these follows the fact
everything turns on, `TakenIsCurrent`: with the proxies other than http, a client
that a request has taken is the current one or closed. So a field that is read later
without the lock either belongs to that client, or the request fails.
`ProxiesImplementContract` is then a step simulation: each action is mapped to
`Install`, `Withdraw`, `Retire`, `Serve` or a stutter. Theorems:
`ClientInductive`, `NoClientLeaked`, `ReadOnlyIsHonoured`, `ResponsesAreWhole`,
`ProxiesImplementContract`.

*The credential store* (any callers, datasources, pushes, crashes).
`StoreIInv` adds that a goroutine inside `Set` holds the mutex
(`InsideHasMutex`), that what it is about to write is the whole map
(`WritesTheMap`), and that a file that is not torn holds everything accepted
(`FileIsRecent`). Theorems: `StoreInductive`, `CredentialsAreNotLost`.

*The secret caches* (any callers, TTL, margin, lifetimes). `CacheIInv` adds
when entries and tokens expire relative to the end of their fetch
(`CachedExpires`), and that a fetch not stored yet is at most `MaxFetch` old
(`FetchIsRecent`); it needs `TTL > 0`, which `NewManager` sets to five
minutes. Theorems: `CacheInductive`, `SecretsStayCurrent`, `CacheTypeCorrect`.

**ProxiesProofs** has the ssh pool and the composition of all these parts.

*The ssh pool* (any requests, addresses, `pool_max_size`, dials). `PoolIInv` adds that
the order of use lists exactly the addresses with a connection, each once
(`Lists`), that a request which holds `poolMu` still finds the entry it saw, or the
room for its own (`HoldersFindWhatTheySaw`), and that after `Close` has taken the
pool nobody dials (`CloseEmptiesForGood`). The limit follows from `Lists` by counting:
the list is a bijection onto the pool. Theorems: `PoolInductive`,
`PoolKeepsToItsSize`, `ConnectionsAreNotLost`, `CloseLeavesNothing`.

`ProxiesTypeCorrect` and `ProxiesSafe` follow because a part that is not chosen does
not move.

**McpProofs.** *Sessions* (any requests, keys, ids). `SessionIInv` adds that a session
a request has opened and not stored is known to nobody else (`OpenedAreOwn`), that
storing it replaces nothing (`HandshakeFindsRoom`), that a session in use is used under
its own key and is not idle (`UsedIsFresh`), both of requests that are not overdue, and
that `Close` forbids new sessions before it takes the map (`CloseIsFinal`). *Stdio* (any
requests, objects, processes). `StdioIInv` adds that a process belongs to one object
(`ProcessesOwned`), that a request inside `send` has the mutex of its object
(`SendHasMutex`), that until a send is abandoned whoever is at the pipes is waited for
(`SendersWait`), and, as long as lines also go one for one, that the pipes of an
object's process hold nothing but what is for the one request that reads them
(`PipesPaired`, `LinesPaired`). No fact says how many processes there are.
`ChannelSerializes` says when the claim that `stdio_serialized` refutes is true: as
long as no send was abandoned, whatever the lines. Theorems:
`SessionInductive`, `SessionsAreNotLeaked`, `SessionsInUseAreSpared`,
`WorkingSessionsAreKept` (an action property), `StdioInductive`,
`AnswersGoToTheirRequests`, `ChannelSerializes`, `McpInductive`, `McpTypeCorrect`,
`McpSafe`.

**SweepProofs**, **ExecMapProofs** and **ActionProofs** prove the four actions: the
sweep, the remote command with the service map, and the inventory with the
composition, where the theorems are stated. Each action has an inductive invariant of
its own, and `ActionIInv` is their conjunction with the agreement of the two scope
tests (`ScopesAgree`): what an inventory lets through by address is what the networks
that a sweep compares with contain.

*Sweep* (any address width, CIDRs, exclusions, ports, workers). The first half is
about pure operators: a prefix is an interval of a power of two that starts at a
multiple of it (`PrefixIsInterval`), a prefix whose first address lies in another
with no more bits lies in it entirely (`PrefixWithin`; this is why
`prefixWithinAny` may compare no more than that), and `expandCIDRs` lists exactly the
hosts of the CIDRs without the exclusions (`ExpandIsExact`). The second half is
`SweepIInv`: an address that was handed over has been probed on each port, or a
worker is on its way to it (`HandedOverIsProbed`), and what answered is in the
result or with a worker (`AnswersAreKept`). Theorems: `SweepsAreComplete`, and with
the inventory `ScopeIsRespected`.

*Inventory* (any finite sets of targets and collectors, any concurrency). `InventoryIInv`
adds that the semaphore counts the goroutines that hold a token (`TokensAreHeld`),
that a positive verdict has its ground, in the scope or in the lookup, and that only
targets with one are contacted (`VerdictsInScope`), and which
results exist for the position of each goroutine (`ResultsMatchSteps`).
`ContactedAreInNets` puts the scope in terms of the networks: where targets are
addresses and there is a scope, what is contacted lies in a network of it. Theorems:
`TargetsAreAnswered`, `ContactedAreInNets`.

*Remote command* (any cap, window, amount of output). `ExecIInv` adds that what was
read is what was written and is no longer in the window (`KeptIsRead`), and that a
reader ends only at the end of its stream, at the cap or after a time-out
(`ReadersEndAtEnd`). Theorem: `OutputIsExact`.

*Service map* (any number of queries and slots, any answers with finitely many
samples: `StoreAnswersAssumption`, which `parsePromVector` gives by dropping
values that are no numbers). Theorems: `MapsAreAllOrNothing`, `CallsAreNotHidden`,
`DestinationsAreNotGuessed`. They speak of the join `buildServiceMap` for every
choice of answers.

`ActionsInductive` and `ActionsTypeCorrect` are about all four.

`SweepsDoNotStall` (the cloud identities included), `InventoriesDoNotStall`,
`CommandsDoNotStall` and `MapsDoNotStall` prove what `ActionsReturn` and
`CommandCompletes` rest on besides
fairness. Each has two halves. The first says that a running action is never stuck
(`SweepGoesOn` and so on): a goroutine can take a step, or only silent hosts are left
(`InventoryHeld`, `IdentityHeld`), because no token or slot is lost, a channel always
has somebody at its other end, and `runCommand` goes on reading
past the cap. The second says that no step leads away from the end
(`SweepGetsNearer` and so on): apart from the end of a context, which comes once, each
step leaves less before the goroutines (`Fewer`, `CommandAhead`). Of `handleExec` only
the second half holds; `remote_exec_deadline` shows the first failing. The steps named
are those of the goroutines; that they are taken is the fairness of section 3.

The proof system cannot apply the library's induction theorems, which take an
operator as a parameter. Where a recursive function had to be understood for every
input (`Pow2`, and the loop of `ExpandCIDRs` over its CIDRs), `SweepProofs` argues by
the least counterexample instead (`LeastElement`, `InductionUpto`,
`RecursionExists`).

Only model-checked: the liveness properties `ReportCompletes`,
`EveryChangeIsReported`, `ShutdownCompletes`, `DeadWriterEndsSession`,
`CommandCompletes` and `ActionsReturn`, because fairness and ENABLED are beyond the
prover; and what the violation runs refute. The theorems about progress
(`ReportsDoNotStall`, `SessionsWindDown` and the four above) are the safety half of
the argument: nobody waits in vain, and nothing leads back. For a session there is no
decreasing measure, since its writer and pinger may write any number of times before
they look at the context; and `EveryChangeIsReported` rests on `NoLostTrigger` alone.

Tlapm gives up on an obligation that takes it more than five seconds to translate for
the SMT solver, whatever time the solver is given, and the translation slows with
everything in scope. This is why the parts of an action are in three modules, why
the proofs extend no more of the library than they cite, and why many leaves name
Zenon.

## 5. Behaviours without a property

These are in the models, or visible in the code, and nothing in the repository
says how they should be:

- `maxNonces` (`pkg/signing/verify.go:261`) starts an eviction and is no limit:
  entries inside the window stay.
- A config push is acknowledged as ok even when all of its items failed
  (`pkg/ws/handler.go:460`).
- `CloseAll` may run during a push, which then registers proxies that nobody
  closes (`cmd/app.go:99`); the process ends right after.
- `Send` drops a message when `sendCh` is full (`pkg/ws/client.go:473`), and
  messages left in it by one session are sent before the metadata of the next
  (`pkg/ws/client.go:233`).
- The clean-up loop of the ssh pool may capture a nil channel when `Close` comes
  first (`pkg/proxy/ssh/proxy.go:383`); it then runs until the process ends.
- `nonce` and `signed_at` are not among the signed fields
  (`pkg/signing/sign.go:152-173`), so `Verify` protects against a repeated envelope and
  not against a repeated payload.
- A scope of host names only leaves `allowedNets` empty, and `handleSweep` then
  limits no sweep (`pkg/proxy/discovery/proxy.go:350`), although the comment before it
  says that the forager refuses CIDRs outside what the datasource was configured for,
  and `pkg/proxy/discovery/README.md:41` that they must fall within `allowed_cidrs`.
- A target given by name is judged by one lookup and dialled after another
  (`pkg/proxy/discovery/executor.go:149`), and is let through when any of its addresses
  is inside (`pkg/proxy/discovery/proxy.go:298`).
- A service bound to an address that also listens on 0.0.0.0 does not count as bound
  to it (`pkg/proxy/http/vmservicemap.go:574`, `:670`); another service bound to the
  address alone is then named, although "a port several services share is left
  unresolved" (`docs/proxy-modules.md:86`).
- A host that falls silent before `NewSession` or `Start` returns keeps its goroutine,
  its token and the request, since neither has a deadline
  (`pkg/proxy/discovery/executor.go:205`, `:224`).
- An MCP session whose id was lost by a failed `initialize` or a 404 is left to the
  server's own timeout (`pkg/proxy/mcp/session.go:173`, `:74`).
- A request that began on a replaced proxy records its failure against the new one
  (`pkg/proxy/registry.go:141`).
- Two first requests to a stdio server may start two processes; `Close` finds one
  of them (`pkg/proxy/mcp/proxy.go:179`).

The other hazards, with their source lines and the properties aimed at them, are
in `PROJECT.json`.

## 6. Not modelled

- **ssh static mode and SFTP.** One client made by `Configure` and used as it is;
  the file calls are I/O on it.
- **Routing of legacy requests and `test_datasource_config`.** The former differ
  in how the datasource is found; the latter makes a temporary proxy nobody
  shares.
- **Content packs.** Selection and verification are sequential and done before an
  inventory starts; whether they succeed is a choice in `Inventory`.
- **LDAP, ARP, DNS enrichment, what a metadata probe returns, cloud secret providers, database
  drivers, queries.** I/O without shared state; a call succeeds or fails.
- **`reconnectWait`.** The length of a wait; a new session may begin at any time.
- **Cryptography, JSON, YAML, environment, TLS material, URLs, headers,
  redaction, logging.** Data the properties do not look at.
- **Command line, standalone commands and the Windows service wrapper.** They
  start and stop the same components.
