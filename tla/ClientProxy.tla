----------------------------- MODULE ClientProxy -----------------------------
(***************************************************************************)
(* The proxies that keep one client for their datasource: http, redis,     *)
(* kafka, mongodb and db.  Configure, HandleRequest, HealthCheck and Close *)
(* of one instance are called from any goroutine, in any order.            *)
(*                                                                         *)
(* http and redis build the new client outside mu and swap it in; they     *)
(* remember Close.  kafka, mongodb and db close the old client first and   *)
(* hold mu while they dial; they do not remember Close.  mongodb and db    *)
(* read a part of the configuration without the lock, after the client.    *)
(*                                                                         *)
(* A call of Configure has a client and a configuration of its own, so all *)
(* three have the call's name.  What is done under the write lock without  *)
(* waiting, and out of sight of unlocked readers, is one step.             *)
(***************************************************************************)
EXTENDS Integers, Goroutines

CONSTANTS Calls,      \* calls of Configure
          ReadOnlyOf, \* what read_only says in each configuration, or "unset"
          CapOf,      \* its max_response_bytes
          MaxInt      \* math.MaxInt64

Kinds == {"http", "redis", "kafka", "mongodb", "db"}

ASSUME ClientProxyAssumption ==
    /\ None \notin Calls
    /\ "torn" \notin Calls
    /\ MaxInt \in Nat \ {0}
    /\ ReadOnlyOf \in [Calls -> {"yes", "no", "unset"}]
    /\ CapOf \in [Calls -> 1 .. MaxInt]

VARIABLES kind,      \* which proxy this is
          configMu,  \* the call that has configMu (http and redis)
          writer,    \* the call that has mu for writing
          readers,   \* requests that have mu for reading
          shut,      \* Proxy.closed (http and redis)
          client,    \* Proxy.client, or pool
          settings,  \* the configuration in the other fields
          readOnly,  \* Proxy.readOnly (db)
          open,      \* clients that are not closed
          call,      \* where each Configure is
          old,       \* the client it has detached and not yet closed
          closing,   \* the client Close has detached and not yet closed (http)
          step,      \* where each request is
          conn,      \* the client it has taken
          seen,      \* the configuration it has read
          body       \* the size of the response: what was sent and what was kept

locks == <<configMu, writer, readers>>
fields == <<shut, client, settings, readOnly>>
calls == <<call, old, closing>>
requests == <<step, conn, seen, body>>
clientVars == <<kind, locks, fields, open, calls, requests>>

\* The type invariant of a proxy.
ClientTypeOK ==
    /\ kind \in Kinds
    /\ configMu \in Calls \cup {None}
    /\ writer \in Calls \cup {None}
    /\ readers \subseteq Callers
    /\ shut \in BOOLEAN
    /\ client \in Calls \cup {None}
    /\ settings \in Calls \cup {None}
    /\ readOnly \in BOOLEAN
    /\ open \subseteq Calls
    /\ call \in [Calls -> {"idle", "built", "dial", "assign", "retire", "done", "failed"}]
    /\ old \in [Calls -> Calls \cup {None}]
    /\ closing \in Calls \cup {None}
    /\ step \in [Callers -> {"idle", "reading", "taken", "sending", "executing",
                              "served", "executed", "failed"}]
    /\ conn \in [Callers -> Calls \cup {None}]
    /\ seen \in [Callers -> Calls \cup {None, "torn"}]
    /\ body \in [Callers -> [sent : 0 .. MaxInt, kept : 0 .. MaxInt]]

\* New: nothing is configured.
ClientInit(kinds) ==
    /\ kind \in kinds
    /\ configMu = None /\ writer = None /\ readers = {}
    /\ shut = FALSE /\ client = None /\ settings = None /\ readOnly = FALSE
    /\ open = {}
    /\ call = [k \in Calls |-> "idle"]
    /\ old = [k \in Calls |-> None]
    /\ closing = None
    /\ step = [r \in Callers |-> "idle"]
    /\ conn = [r \in Callers |-> None]
    /\ seen = [r \in Callers |-> None]
    /\ body = [r \in Callers |-> [sent |-> 0, kept |-> 0]]

-----------------------------------------------------------------------------
\* sync.RWMutex: when the write lock can be had; the mutant does not wait for
\* the readers.
MayWrite_Mutant == writer = None
MayWrite == writer = None /\ readers = {}
MayRead == writer = None

CallAt(k, where) == call' = [call EXCEPT ![k] = where]

\* Configure of http and redis holds configMu from its start to its return.
Enter(k) == call[k] = "idle" /\ configMu = None
Leave(k, how) == CallAt(k, how) /\ configMu' = None

\* After the client was built the proxy turns out to be closed; the mutant does
\* not look again.
Refused_Mutant == FALSE
Refused == shut

\* http: validate and build the client without a lock, swap it in, and close the
\* idle connections of the old one after the lock.
HttpConfigure(k) ==
    /\ kind = "http"
    /\ \/ Enter(k) /\ CallAt(k, "failed") /\ UNCHANGED <<locks, fields, open, old>>
       \/ /\ Enter(k)
          /\ configMu' = k
          /\ CallAt(k, "built")
          /\ open' = open \cup {k}
          /\ UNCHANGED <<writer, readers, fields, old>>
       \/ /\ call[k] = "built" /\ MayWrite /\ Refused
          /\ open' = open \ {k}
          /\ Leave(k, "failed")
          /\ UNCHANGED <<writer, readers, fields, old>>
       \/ /\ call[k] = "built" /\ MayWrite /\ ~Refused
          /\ old' = [old EXCEPT ![k] = client]
          /\ client' = k /\ settings' = k
          /\ CallAt(k, "retire")
          /\ UNCHANGED <<locks, shut, readOnly, open>>
       \/ /\ call[k] = "retire"
          /\ open' = open \ {old[k]}
          /\ old' = [old EXCEPT ![k] = None]
          /\ Leave(k, "done")
          /\ UNCHANGED <<writer, readers, fields>>
    /\ UNCHANGED <<kind, closing, requests>>

\* redis: the proxy must not be closed, the new client must answer a ping, and
\* then the old one is closed under the lock.
RedisConfigure(k) ==
    /\ kind = "redis"
    /\ \/ Enter(k) /\ MayRead /\ CallAt(k, "failed") /\ UNCHANGED <<locks, fields, open>>
       \/ /\ Enter(k) /\ MayRead /\ ~shut
          /\ configMu' = k
          /\ CallAt(k, "dial")
          /\ open' = open \cup {k}
          /\ UNCHANGED <<writer, readers, fields>>
       \/ /\ call[k] = "dial"
          /\ open' = open \ {k}
          /\ Leave(k, "failed")
          /\ UNCHANGED <<writer, readers, fields>>
       \/ call[k] = "dial" /\ CallAt(k, "built") /\ UNCHANGED <<locks, fields, open>>
       \/ /\ call[k] = "built" /\ MayWrite /\ Refused
          /\ open' = open \ {k}
          /\ Leave(k, "failed")
          /\ UNCHANGED <<writer, readers, fields>>
       \/ /\ call[k] = "built" /\ MayWrite /\ ~Refused
          /\ open' = open \ {client}
          /\ client' = k /\ settings' = k
          /\ Leave(k, "done")
          /\ UNCHANGED <<writer, readers, shut, readOnly>>
    /\ UNCHANGED <<kind, old, closing, requests>>

-----------------------------------------------------------------------------
\* The old client is closed and forgotten; the mutant only forgets it.
DropOld_Mutant == client' = None /\ open' = open
DropOld == client' = None /\ open' = open \ {client}

\* kafka, mongodb and db: take mu and close the old client ...
LockAndDrop(k, next) ==
    /\ call[k] = "idle"
    /\ MayWrite
    /\ DropOld
    /\ writer' = k
    /\ CallAt(k, next)
    /\ UNCHANGED <<configMu, readers, shut, settings, readOnly>>

\* ... fail under the lock, closing the client if one was opened ...
FailLocked(k, from) ==
    /\ call[k] \in from
    /\ open' = open \ {k}
    /\ writer' = None
    /\ CallAt(k, "failed")
    /\ UNCHANGED <<configMu, readers, fields>>

\* ... assign the settings ...
Assign(k, ro) ==
    /\ call[k] = "assign"
    /\ settings' = k
    /\ readOnly' = ro
    /\ CallAt(k, "dial")
    /\ UNCHANGED <<locks, shut, client, open>>

\* ... open a client that has yet to prove itself ...
Dial(k) ==
    /\ call[k] = "dial"
    /\ open' = open \cup {k}
    /\ CallAt(k, "built")
    /\ UNCHANGED <<locks, fields>>

\* ... or install it.
InstallLocked(k) ==
    /\ call[k] = "built"
    /\ client' = k
    /\ writer' = None
    /\ CallAt(k, "done")
    /\ UNCHANGED <<configMu, readers, shut, settings, readOnly, open>>

\* kafka: the settings are read under the lock only, so when they are assigned
\* does not matter; the admin client may fail on a client that connected.
KafkaConfigure(k) ==
    /\ kind = "kafka"
    /\ \/ LockAndDrop(k, "dial")
       \/ FailLocked(k, {"dial", "built"})
       \/ Dial(k)
       \/ InstallLocked(k)
    /\ UNCHANGED <<kind, old, closing, requests>>

\* mongodb: the configuration may not parse; connecting or the ping may fail.
MongoConfigure(k) ==
    /\ kind = "mongodb"
    /\ \/ LockAndDrop(k, "assign")
       \/ FailLocked(k, {"assign", "dial", "built"})
       \/ Assign(k, readOnly)
       \/ Dial(k)
       \/ InstallLocked(k)
    /\ UNCHANGED <<kind, old, closing, requests>>

\* db: readOnly keeps its value unless the configuration has read_only.
DbConfigure(k) ==
    /\ kind = "db"
    /\ \/ LockAndDrop(k, "assign")
       \/ FailLocked(k, {"assign", "dial", "built"})
       \/ Assign(k, IF ReadOnlyOf[k] = "unset" THEN readOnly ELSE ReadOnlyOf[k] = "yes")
       \/ Dial(k)
       \/ InstallLocked(k)
    /\ UNCHANGED <<kind, old, closing, requests>>

-----------------------------------------------------------------------------
StepAt(r, where) == step' = [step EXCEPT ![r] = where]

\* http: the fields are copied under the read lock; a closed or unconfigured
\* proxy refuses.
HttpRead(r) ==
    /\ kind = "http"
    /\ \/ /\ step[r] = "idle" /\ MayRead /\ shut
          /\ StepAt(r, "failed")
          /\ UNCHANGED <<readers, conn, seen>>
       \/ /\ step[r] = "idle" /\ MayRead /\ ~shut
          /\ readers' = readers \cup {r}
          /\ seen' = [seen EXCEPT ![r] = settings]
          /\ StepAt(r, "reading")
          /\ UNCHANGED conn
       \/ /\ step[r] = "reading"
          /\ readers' = readers \ {r}
          /\ conn' = [conn EXCEPT ![r] = client]
          /\ StepAt(r, IF client = None THEN "failed" ELSE "sending")
          /\ UNCHANGED seen
    /\ UNCHANGED <<kind, configMu, writer, fields, open, calls, body>>

\* One more than the cap is read, to tell a response at the cap from one over it;
\* the mutant adds one to the largest integer too, which wraps around.
ReadLimit_Mutant(cap) == IF cap < MaxInt THEN cap + 1 ELSE -MaxInt - 1
ReadLimit(cap) == IF cap < MaxInt THEN cap + 1 ELSE cap

\* io.LimitReader: a limit of zero or less reads nothing.
LimitRead(n, limit) == IF limit <= 0 THEN 0 ELSE IF n < limit THEN n ELSE limit

\* http: client.Do fails, or a response of n bytes is read and refused when it is
\* over the cap.  A client that was replaced or closed since still works: only
\* its idle connections are closed.
HttpDo(r, n) ==
    LET cap == CapOf[seen[r]]
        kept == LimitRead(n, ReadLimit(cap))
    IN  /\ kind = "http"
        /\ step[r] = "sending"
        /\ \/ StepAt(r, "failed") /\ UNCHANGED body
           \/ kept > cap /\ StepAt(r, "failed") /\ UNCHANGED body
           \/ /\ kept <= cap
              /\ StepAt(r, "served")
              /\ body' = [body EXCEPT ![r] = [sent |-> n, kept |-> kept]]
        /\ UNCHANGED <<kind, locks, fields, open, calls, conn, seen>>

\* The others copy the client under the read lock.
TakeClient(r, next) ==
    /\ step[r] = "idle" /\ MayRead
    /\ conn' = [conn EXCEPT ![r] = client]
    /\ seen' = [seen EXCEPT ![r] = client]
    /\ StepAt(r, IF client = None THEN "failed" ELSE next)
    /\ UNCHANGED <<kind, locks, fields, open, calls, body>>

\* They use it: a call on a closed client fails, one on an open client may.
UseClient(r, how) ==
    /\ StepAt(r, "failed") \/ (conn[r] \in open /\ StepAt(r, how))
    /\ UNCHANGED <<kind, locks, fields, open, calls, conn, seen, body>>

RedisRequest(r) ==
    /\ kind = "redis"
    /\ TakeClient(r, "sending") \/ (step[r] = "sending" /\ UseClient(r, "served"))

KafkaRequest(r) ==
    /\ kind = "kafka"
    /\ TakeClient(r, "sending") \/ (step[r] = "sending" /\ UseClient(r, "served"))

\* mongodb: a request that names no database reads config.Database without the
\* lock; while a Configure assigns it the string may be torn.
GetDatabase(r) ==
    /\ step[r] = "taken"
    /\ \E c \in {settings} \cup (IF writer # None THEN {"torn"} ELSE {}) :
          seen' = [seen EXCEPT ![r] = c]
    /\ StepAt(r, "sending")
    /\ UNCHANGED <<kind, locks, fields, open, calls, conn, body>>

MongoRequest(r) ==
    /\ kind = "mongodb"
    /\ \/ TakeClient(r, "taken")
       \/ TakeClient(r, "sending")
       \/ GetDatabase(r)
       \/ step[r] = "sending" /\ UseClient(r, "served")

\* db: db_execute reads readOnly without the lock before it uses the pool.
HandleExecute(r) ==
    /\ step[r] = "taken"
    /\ StepAt(r, IF readOnly THEN "failed" ELSE "executing")
    /\ UNCHANGED <<kind, locks, fields, open, calls, conn, seen, body>>

DbRequest(r) ==
    /\ kind = "db"
    /\ \/ TakeClient(r, "taken")
       \/ TakeClient(r, "sending")
       \/ HandleExecute(r)
       \/ step[r] = "executing" /\ UseClient(r, "executed")
       \/ step[r] = "sending" /\ UseClient(r, "served")

-----------------------------------------------------------------------------
\* http: Close detaches the client under the lock and closes its idle
\* connections afterwards.
HttpClose ==
    /\ kind = "http"
    /\ \/ /\ MayWrite /\ ~shut
          /\ shut' = TRUE
          /\ client' = None
          /\ closing' = client
          /\ UNCHANGED open
       \/ /\ closing # None
          /\ open' = open \ {closing}
          /\ closing' = None
          /\ UNCHANGED <<shut, client>>
    /\ UNCHANGED <<kind, locks, settings, readOnly, call, old, requests>>

\* The others close it under the lock; redis remembers that it is closed.
CloseLocked(flag) ==
    /\ MayWrite
    /\ shut' = flag
    /\ DropOld
    /\ UNCHANGED <<kind, locks, settings, readOnly, calls, requests>>

RedisClose == kind = "redis" /\ CloseLocked(TRUE)
KafkaClose == kind = "kafka" /\ CloseLocked(FALSE)
MongoClose == kind = "mongodb" /\ CloseLocked(FALSE)
DbClose == kind = "db" /\ CloseLocked(FALSE)

ClientNext ==
    \/ \E k \in Calls : HttpConfigure(k)
    \/ \E k \in Calls : RedisConfigure(k)
    \/ \E k \in Calls : KafkaConfigure(k)
    \/ \E k \in Calls : MongoConfigure(k)
    \/ \E k \in Calls : DbConfigure(k)
    \/ \E r \in Callers : HttpRead(r)
    \/ \E r \in Callers, n \in 0 .. MaxInt : HttpDo(r, n)
    \/ \E r \in Callers : RedisRequest(r)
    \/ \E r \in Callers : KafkaRequest(r)
    \/ \E r \in Callers : MongoRequest(r)
    \/ \E r \in Callers : DbRequest(r)
    \/ HttpClose
    \/ RedisClose
    \/ KafkaClose
    \/ MongoClose
    \/ DbClose

ClientSpec == ClientInit(Kinds) /\ [][ClientNext]_clientVars
-----------------------------------------------------------------------------
\* The clients of calls that have not returned, theirs or the ones they replace.
InProgress ==
    {k \in Calls : call[k] \in {"dial", "built"}} \cup {old[k] : k \in Calls} \cup {closing}

\* "Close drains connections and releases resources" (registry.go:83): a client
\* that was ever opened is the current one, in the hands of a call that has not
\* returned, or closed, however Configure calls overlap and fail and whenever
\* Close comes; and a proxy that remembers Close never has a client again.
ClientsReleased ==
    /\ open \subseteq {client} \cup InProgress
    /\ shut => client = None

\* db_execute tests readOnly without a lock, on a pool it took before: still no
\* statement runs on a pool whose configuration says read_only.
ReadOnlyHonoured ==
    \A r \in Callers : step[r] = "executed" => ReadOnlyOf[conn[r]] # "yes"

\* A response of http is passed on whole or refused, for every cap up to the
\* largest integer.
WholeOrRefused == \A r \in Callers : body[r].kept = body[r].sent

\* What a request was served with: for http the copy it took, which stays valid;
\* for the others the client that answered.
ServedBy(r) ==
    IF kind = "http" \/ step[r] \in {"served", "executed"}
    THEN IF seen[r] = conn[r] \/ conn[r] = None THEN conn[r] ELSE "mixed"
    ELSE None

Contract == INSTANCE ProxyContract
    WITH Requests <- Callers, current <- client, retired <- shut,
         servedBy <- [r \in Callers |-> ServedBy(r)]

\* The five proxies implement the Proxy interface: a request is served with one
\* configuration, the one in force at some instant of the call, and after Close
\* with none; never with the client of one and the settings of another.
ImplementsContract == Contract!ContractSpec
=============================================================================
