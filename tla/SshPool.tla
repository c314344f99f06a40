------------------------------- MODULE SshPool -------------------------------
(***************************************************************************)
(* pkg/proxy/ssh/proxy.go in dynamic mode: the pool of connections that    *)
(* requests to any allowed host share, its clean-up loop, and Close.       *)
(*                                                                         *)
(* Proxy.mu guards the configuration and poolMu the pool.  A read lock on  *)
(* mu that only copies a field is one step, taken when no writer has mu;   *)
(* everything a goroutine does between two steps of another is one step.   *)
(* getPooledClient keeps poolMu while it waits for the network.            *)
(***************************************************************************)
EXTENDS Integers, Sequences, FiniteSets, Functions, Goroutines

CONSTANTS Addrs,     \* host:port targets
          MaxDials,  \* bound on the connections that are dialled
          MaxSize    \* pool_max_size

ASSUME SshPoolAssumption ==
    /\ MaxSize \in Nat \ {0}
    /\ MaxDials \in Nat
    /\ None \notin Requests \cup {"closer"} /\ None \notin Nat
    /\ "closer" \notin Requests
    /\ IsFiniteSet(Addrs)

\* Connections, numbered in the order in which they are dialled.
Clients == 1 .. MaxDials

VARIABLES sshMu,        \* the writer that has Proxy.mu, or None
          poolMu,       \* the goroutine that has poolMu, or None
          sshConfig,    \* sshConfig is set
          cleanupDone,  \* the channel in the field: "open", or "nil" after Close
          pool,         \* connection by address
          recent,       \* addresses in the pool, least recently used first
          made,         \* connections dialled so far
          hungUp,       \* connections closed by the agent
          place,        \* where each request is
          addr,         \* its address
          poolCloser,   \* where Close is
          cleaner,      \* where poolCleanupLoop is
          captured      \* the channel it has captured

poolVars == <<sshMu, poolMu, sshConfig, cleanupDone, pool, recent, made, hungUp, place, addr,
             poolCloser, cleaner, captured>>
pooled == <<pool, recent, hungUp>>
shutdown == <<sshMu, sshConfig, cleanupDone, poolCloser, cleaner, captured>>

\* The type invariant of the pool.
PoolTypeOK ==
    /\ sshMu \in {"closer", None}
    /\ poolMu \in Requests \cup {"closer", None}
    /\ sshConfig \in BOOLEAN
    /\ cleanupDone \in {"open", "nil"}
    /\ pool \in [Addrs -> Clients \cup {None}]
    /\ recent \in Seq(Addrs)
    /\ made \subseteq Clients
    /\ hungUp \subseteq made
    /\ place \in [Requests -> {"idle", "locking", "keepalive", "config", "dial", "using"}]
    /\ addr \in [Requests -> Addrs \cup {None}]
    /\ poolCloser \in {"idle", "locked", "done"}
    /\ cleaner \in {"starting", "running", "ended"}
    /\ captured \in {"none", "open", "closed", "nil"}

\* Configure has returned: the pool is empty and the clean-up goroutine has
\* been started.
PoolInit ==
    /\ sshMu = None /\ poolMu = None
    /\ sshConfig = TRUE
    /\ cleanupDone = "open"
    /\ pool = [a \in Addrs |-> None]
    /\ recent = <<>>
    /\ made = {} /\ hungUp = {}
    /\ place = [r \in Requests |-> "idle"]
    /\ addr = [r \in Requests |-> None]
    /\ poolCloser = "idle"
    /\ cleaner = "starting"
    /\ captured = "none"

-----------------------------------------------------------------------------
\* The order of use without the entry of a; the mutant keeps it in the order.
Forget_Mutant(a) == recent
Forget(a) ==
    LET i == CHOOSE j \in DOMAIN recent : recent[j] = a
    IN  SubSeq(recent, 1, i - 1) \o SubSeq(recent, i + 1, Len(recent))
GoTo(r, l) == place' = [place EXCEPT ![r] = l]
UnlockPool == poolMu' = None

\* getClient reads the mode under a read lock and finds the host allowed.
GetClient(r, a) ==
    /\ place[r] = "idle"
    /\ sshMu = None
    /\ addr' = [addr EXCEPT ![r] = a]
    /\ GoTo(r, "locking")
    /\ UNCHANGED <<poolMu, pooled, made, shutdown>>

\* The pool size limit; the mutant evicts one too late.
Full_Mutant(keys) == Cardinality(keys) > MaxSize
Full(keys) == Cardinality(keys) >= MaxSize

\* The connections closed once an evicted one is; the mutant drops it open.
CloseEvicted_Mutant(gone, client) == gone
CloseEvicted(gone, client) == gone \cup {client}

\* evictOldestLocked, when the pool is full: the least recently used entry is
\* closed and dropped, whether or not a request is using it.
MakeRoom(entries, order, gone) ==
    LET keys == {a \in Addrs : entries[a] # None}
        full == Full(keys) /\ order # <<>>
        oldest == Head(order)
    IN  /\ pool' = IF full THEN [entries EXCEPT ![oldest] = None] ELSE entries
        /\ recent' = IF full THEN Tail(order) ELSE order
        /\ hungUp' = IF full THEN CloseEvicted(gone, entries[oldest]) ELSE gone

\* getPooledClient takes poolMu and looks the address up: an entry is tested
\* with a keepalive, otherwise room is made for a new connection.
LockPool(r) ==
    /\ place[r] = "locking"
    /\ poolMu = None
    /\ poolMu' = r
    /\ \/ /\ pool[addr[r]] # None
          /\ GoTo(r, "keepalive")
          /\ UNCHANGED pooled
       \/ /\ pool[addr[r]] = None
          /\ GoTo(r, "config")
          /\ MakeRoom(pool, recent, hungUp)
    /\ UNCHANGED <<addr, made, shutdown>>

\* The keepalive is answered: the entry is used and becomes the most recent.
Alive(r) ==
    /\ place[r] = "keepalive"
    /\ pool[addr[r]] \notin hungUp
    /\ GoTo(r, "using")
    /\ recent' = Append(Forget(addr[r]), addr[r])
    /\ UnlockPool
    /\ UNCHANGED <<pool, hungUp, addr, made, shutdown>>

\* It is not: the dead entry is closed and dropped before room is made.
Dead(r) ==
    /\ place[r] = "keepalive"
    /\ GoTo(r, "config")
    /\ MakeRoom([pool EXCEPT ![addr[r]] = None], Forget(addr[r]),
                hungUp \cup {pool[addr[r]]})
    /\ UNCHANGED <<poolMu, addr, made, shutdown>>

\* With poolMu held, sshConfig is read under a read lock on mu.
ReadConfig(r) ==
    /\ place[r] = "config"
    /\ sshMu = None
    /\ \/ sshConfig /\ GoTo(r, "dial") /\ UNCHANGED poolMu
       \/ ~sshConfig /\ GoTo(r, "idle") /\ UnlockPool
    /\ UNCHANGED <<addr, made, pooled, shutdown>>

\* ssh.Dial fails, or the new connection is put in the pool.
DialFails(r) ==
    /\ place[r] = "dial"
    /\ GoTo(r, "idle")
    /\ UnlockPool
    /\ UNCHANGED <<addr, made, pooled, shutdown>>

DialSucceeds(r) ==
    /\ place[r] = "dial"
    /\ made # Clients
    /\ made' = made \cup {Cardinality(made) + 1}
    /\ pool' = [pool EXCEPT ![addr[r]] = Cardinality(made) + 1]
    /\ recent' = Append(recent, addr[r])
    /\ GoTo(r, "using")
    /\ UnlockPool
    /\ UNCHANGED <<addr, hungUp, shutdown>>

\* The request is done with its connection; it does not give it back.
Finish(r) ==
    /\ place[r] = "using"
    /\ GoTo(r, "idle")
    /\ addr' = [addr EXCEPT ![r] = None]
    /\ UNCHANGED <<poolMu, made, pooled, shutdown>>

-----------------------------------------------------------------------------
\* poolCleanupLoop captures the channel under a read lock, once.
Capture ==
    /\ cleaner = "starting"
    /\ sshMu = None
    /\ cleaner' = "running"
    /\ captured' = cleanupDone
    /\ UNCHANGED <<sshMu, poolMu, sshConfig, cleanupDone, pooled, made, place, addr, poolCloser>>

\* cleanupExpiredConnections: the n entries unused for the longest time are past
\* the TTL.
CleanUp(n) ==
    /\ cleaner = "running"
    /\ poolMu = None
    /\ n \in 1 .. Len(recent)
    /\ LET expired == {recent[i] : i \in 1 .. n}
       IN  /\ pool' = [a \in Addrs |-> IF a \in expired THEN None ELSE pool[a]]
           /\ recent' = SubSeq(recent, n + 1, Len(recent))
           /\ hungUp' = hungUp \cup {pool[a] : a \in expired}
    /\ UNCHANGED <<poolMu, made, place, addr, shutdown>>

\* The captured channel is closed and the loop returns.
CleanupEnds ==
    /\ cleaner = "running"
    /\ captured = "closed"
    /\ cleaner' = "ended"
    /\ UNCHANGED <<sshMu, poolMu, sshConfig, cleanupDone, pooled, made, place, addr, poolCloser,
                   captured>>

\* Close takes mu and closes cleanupDone ...
LockForClose ==
    /\ poolCloser = "idle"
    /\ sshMu = None
    /\ sshMu' = "closer"
    /\ poolCloser' = "locked"
    /\ cleanupDone' = "nil"
    /\ captured' = IF captured = "open" THEN "closed" ELSE captured
    /\ UNCHANGED <<poolMu, sshConfig, pooled, made, place, addr, cleaner>>

\* sshConfig after Close; the mutant leaves it set.
ConfigAfterClose_Mutant == sshConfig
ConfigAfterClose == FALSE

\* ... then, still with mu, takes poolMu, closes every pooled connection and
\* forgets the configuration.
ClosePool ==
    /\ poolCloser = "locked"
    /\ poolMu = None
    /\ hungUp' = hungUp \cup ({pool[a] : a \in Addrs} \ {None})
    /\ pool' = [a \in Addrs |-> None]
    /\ recent' = <<>>
    /\ sshConfig' = ConfigAfterClose
    /\ sshMu' = None
    /\ poolCloser' = "done"
    /\ UNCHANGED <<poolMu, cleanupDone, made, place, addr, cleaner, captured>>

PoolNext ==
    \/ \E r \in Requests, a \in Addrs : GetClient(r, a)
    \/ \E r \in Requests : LockPool(r)
    \/ \E r \in Requests : Alive(r)
    \/ \E r \in Requests : Dead(r)
    \/ \E r \in Requests : ReadConfig(r)
    \/ \E r \in Requests : DialFails(r)
    \/ \E r \in Requests : DialSucceeds(r)
    \/ \E r \in Requests : Finish(r)
    \/ Capture
    \/ \E n \in 1 .. Cardinality(Addrs) : CleanUp(n)
    \/ CleanupEnds
    \/ LockForClose
    \/ ClosePool

PoolSpec == PoolInit /\ [][PoolNext]_poolVars

\* Every goroutine that can run is scheduled and the network answers or fails:
\* a keepalive and a dial end.
PoolFairness ==
    /\ \A r \in Requests :
          /\ WF_poolVars(LockPool(r)) /\ WF_poolVars(Alive(r) \/ Dead(r))
          /\ WF_poolVars(ReadConfig(r)) /\ WF_poolVars(DialFails(r)) /\ WF_poolVars(Finish(r))
    /\ WF_poolVars(Capture) /\ WF_poolVars(CleanupEnds)
    /\ SF_poolVars(ClosePool)

PoolFairSpec == PoolSpec /\ PoolFairness
-----------------------------------------------------------------------------
\* The pool keeps to pool_max_size while requests for different hosts, evictions,
\* dead connections and clean-up interleave, and its index of recency is exact.
PoolBounded ==
    LET keys == {a \in Addrs : pool[a] # None}
    IN  Cardinality(keys) <= MaxSize /\ Range(recent) = keys /\ Len(recent) = Cardinality(keys)

\* No connection survives Close: once it has returned, everything ever dialled
\* has been closed and nothing is dialled again, requests that were under way
\* included.
NothingSurvivesClose == poolCloser = "done" => made \subseteq hungUp

\* A connection is open exactly while it is in the pool: none is dropped open.
NoConnectionLost ==
    \A c \in made \ hungUp : \E a \in Addrs : pool[a] = c

\* "Close drains connections and releases resources" (registry.go:83): a Close
\* that has started returns.
CloseReturns == poolCloser = "locked" ~> poolCloser = "done"
=============================================================================
