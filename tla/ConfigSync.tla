----------------------------- MODULE ConfigSync -----------------------------
(***************************************************************************)
(* pkg/ws/handler.go handleConfigSync, over the Registry: the cloud pushes *)
(* the datasources it wants, and a handler goroutine per push applies it.  *)
(*                                                                         *)
(* readLoop starts a goroutine for every message and does not wait for it, *)
(* so two pushes may be applied at the same time.  A goroutine meets the   *)
(* others only in the registry: between two of its registry calls any      *)
(* other may run.  Resolving credentials and Configure touch no shared     *)
(* state but the credential stores; here they either work or do not.       *)
(*                                                                         *)
(* The cloud is taken to list each of its own datasources once: the prefix *)
(* "local:" is the agent's, and ids are keys in the cloud's configuration. *)
(***************************************************************************)
EXTENDS Registry, Sequences

CONSTANTS Pushes,     \* the pushes the cloud may send, one goroutine each
          Names,      \* datasource names; an id is a name, or a name and the
                      \* suffix of its ssh sibling
          Local,      \* names configured locally (ids with prefix "local:")
          Discovery,  \* names of discovery datasources, which may have a sibling
          Boot        \* stands for the start-up of the agent

\* A push makes at most one proxy for an id, so the pair names the instance.  A
\* sibling is an ssh proxy in dynamic mode, whose Close returns no error.
ASSUME ConfigSyncAssumption ==
    /\ Ids = Names \X {"main", "ssh"}
    /\ Instances = (Pushes \cup {Boot}) \X Ids
    /\ Boot \notin Pushes
    /\ Local \subseteq Names /\ Discovery \subseteq Names
    /\ \A id \in Flaky : id[2] = "main"

VARIABLES pushed,   \* the ids each push lists
          phase,    \* where its goroutine is
          todo,     \* listed ids it has not looked at
          newIDs,   \* handleConfigSync's newIDs
          sibling,  \* ids whose ssh sibling is configured but not registered
          doomed,   \* the rest of its removal loop
          order,    \* the pushes in the order they were received
          alone,    \* no push has arrived while another was being applied
          down      \* app.run has called CloseAll

syncVars == <<pushed, phase, todo, newIDs, sibling, doomed, order, alone, down>>
allVars == <<vars, syncVars>>

Main(n) == <<n, "main">>

\* The id of the sibling is the id and a suffix; the mutant does not use the name.
Sibling_Mutant(id) == <<id, "ssh">>
Sibling(id) == <<id[1], "ssh">>
IsLocal(id) == id[1] \in Local
LocalIds == {id \in Ids : IsLocal(id)}
CloudIds == {Main(n) : n \in Names \ Local}

\* The type invariant of the pushes being applied.
SyncTypeOK ==
    /\ TypeOK
    /\ pushed \in [Pushes -> SUBSET CloudIds]
    /\ phase \in [Pushes -> {"idle", "items", "removing", "done"}]
    /\ todo \in [Pushes -> SUBSET CloudIds]
    /\ newIDs \in [Pushes -> SUBSET Ids]
    /\ sibling \in [Pushes -> SUBSET Ids]
    /\ doomed \in [Pushes -> SUBSET Ids]
    /\ order \in Seq(Pushes)
    /\ alone \in BOOLEAN /\ down \in BOOLEAN

\* newApp has configured the local datasources, and the ssh siblings of the
\* discovery ones, before the client runs; what could not be configured is absent.
SyncInit ==
    /\ \E up \in SUBSET LocalIds :
          /\ \A id \in up : id[2] = "ssh" => id[1] \in Discovery /\ Main(id[1]) \in up
          /\ proxies = [id \in Ids |-> IF id \in up THEN <<Boot, id>> ELSE None]
          /\ used = {<<Boot, id>> : id \in up}
    /\ lastSuccess = [id \in Ids |-> None]
    /\ reqErrors = [id \in Ids |-> None]
    /\ aged = {} /\ closed = {} /\ requests = {} /\ wedged = FALSE
    /\ reporting = FALSE /\ cancelled = FALSE
    /\ targets = [id \in Ids |-> None]
    /\ result = [id \in Ids |-> "none"]
    /\ pushed = [s \in Pushes |-> {}]
    /\ phase = [s \in Pushes |-> "idle"]
    /\ todo = [s \in Pushes |-> {}]
    /\ newIDs = [s \in Pushes |-> {}]
    /\ sibling = [s \in Pushes |-> {}]
    /\ doomed = [s \in Pushes |-> {}]
    /\ order = <<>>
    /\ alone = TRUE /\ down = FALSE

-----------------------------------------------------------------------------
Running(s) == phase[s] \in {"items", "removing"}
InRegistry == UNCHANGED <<phase, pushed, order, alone, down>>

\* A push arrives and its goroutine starts.  Listing the ids in any order is
\* left to the choice of the next item.
Receive(s, ids) ==
    /\ ~down
    /\ phase[s] = "idle"
    /\ phase' = [phase EXCEPT ![s] = "items"]
    /\ pushed' = [pushed EXCEPT ![s] = ids]
    /\ todo' = [todo EXCEPT ![s] = ids]
    /\ order' = Append(order, s)
    /\ alone' = (alone /\ \A t \in Pushes : ~Running(t))
    /\ UNCHANGED <<vars, newIDs, sibling, doomed, down>>

\* newIDs when an item is abandoned: the id is noted before anything can go
\* wrong.  The mutant notes it only after the proxy has been configured.
NotedOnSkip_Mutant(s, id) == newIDs[s]
NotedOnSkip(s, id) == newIDs[s] \cup {id}

\* The credentials cannot be stored or resolved, the proxy type is unknown, or
\* Configure fails: the loop goes on with the next item.
SkipItem(s, id) ==
    /\ sibling[s] = {}
    /\ id \in todo[s]
    /\ todo' = [todo EXCEPT ![s] = @ \ {id}]
    /\ newIDs' = [newIDs EXCEPT ![s] = NotedOnSkip(s, id)]
    /\ UNCHANGED <<vars, sibling, doomed, phase, pushed, order, alone, down>>

\* newIDs when an item is registered; the mutant notes the sibling with it.
NotedOnRegister_Mutant(s, id) == newIDs[s] \cup {id, Sibling(id)}
NotedOnRegister(s, id) == newIDs[s] \cup {id}

\* The proxy is configured and registered.  A discovery datasource with
\* ssh_access has its sibling built next; where that fails, or ssh_access is
\* off, the sibling is not noted in newIDs.
RegisterItem(s, id, access) ==
    /\ sibling[s] = {}
    /\ id \in todo[s]
    /\ access => id[1] \in Discovery
    /\ todo' = [todo EXCEPT ![s] = @ \ {id}]
    /\ newIDs' = [newIDs EXCEPT ![s] = NotedOnRegister(s, id)]
    /\ sibling' = [sibling EXCEPT ![s] = IF access THEN {Sibling(id)} ELSE {}]
    /\ Register(id, <<s, id>>)
    /\ UNCHANGED doomed
    /\ InRegistry

\* The sibling has been configured: it is noted and registered.
RegisterSibling(s, id) ==
    /\ id \in sibling[s]
    /\ newIDs' = [newIDs EXCEPT ![s] = @ \cup {id}]
    /\ sibling' = [sibling EXCEPT ![s] = {}]
    /\ Register(id, <<s, id>>)
    /\ UNCHANGED <<todo, doomed>>
    /\ InRegistry

\* The ids of the snapshot All() that the loop will remove: those not in the
\* new configuration, except local ones.  The mutant compares with the
\* ids the push lists.
ToRemove_Mutant(s) == {id \in Ids : proxies[id] # None /\ id \notin pushed[s] /\ ~IsLocal(id)}
ToRemove(s) == {id \in Ids : proxies[id] # None /\ id \notin newIDs[s] /\ ~IsLocal(id)}

StartRemoval(s) ==
    /\ MuFree
    /\ phase[s] = "items"
    /\ todo[s] = {} /\ sibling[s] = {}
    /\ phase' = [phase EXCEPT ![s] = "removing"]
    /\ doomed' = [doomed EXCEPT ![s] = ToRemove(s)]
    /\ UNCHANGED <<vars, pushed, todo, newIDs, sibling, order, alone, down>>

\* registry.Remove; its error is ignored, and an id that is gone is no error.
RemoveItem(s, id) ==
    /\ id \in doomed[s]
    /\ doomed' = [doomed EXCEPT ![s] = @ \ {id}]
    /\ \/ Remove(id)
       \/ MuFree /\ proxies[id] = None /\ UNCHANGED vars
    /\ UNCHANGED <<todo, newIDs, sibling>>
    /\ InRegistry

\* The Close of the proxy the push replaces or removes does not return.
PushHangs(s, id) ==
    /\ \/ id \in sibling[s] \cup doomed[s]
       \/ sibling[s] = {} /\ id \in todo[s]
    /\ CloseHangs(id)
    /\ UNCHANGED syncVars

\* onConfigSynced is called and the push is acknowledged with status "ok".
Acknowledge(s) ==
    /\ phase[s] = "removing"
    /\ doomed[s] = {}
    /\ phase' = [phase EXCEPT ![s] = "done"]
    /\ UNCHANGED <<vars, pushed, todo, newIDs, sibling, doomed, order, alone, down>>

\* The agent stops: client.Run returns and app.run calls CloseAll.  Handler
\* goroutines are not waited for.
Shutdown ==
    /\ ~down
    /\ down' = TRUE
    /\ CloseAll \/ \E id \in Ids : CloseHangs(id)
    /\ UNCHANGED <<pushed, phase, todo, newIDs, sibling, doomed, order, alone>>

\* Every push has been applied, or the agent is down, or the pushes wait for mu:
\* nothing more happens.
Finished ==
    /\ wedged \/ \A s \in Pushes : ~Running(s) /\ (phase[s] = "idle" => down)
    /\ UNCHANGED allVars

SyncNext ==
    \/ \E s \in Pushes, ids \in SUBSET CloudIds : Receive(s, ids)
    \/ \E s \in Pushes, id \in CloudIds : SkipItem(s, id)
    \/ \E s \in Pushes, id \in CloudIds, access \in BOOLEAN : RegisterItem(s, id, access)
    \/ \E s \in Pushes, id \in Ids : RegisterSibling(s, id)
    \/ \E s \in Pushes : StartRemoval(s)
    \/ \E s \in Pushes, id \in Ids : RemoveItem(s, id)
    \/ \E s \in Pushes, id \in Ids : PushHangs(s, id)
    \/ \E s \in Pushes : Acknowledge(s)
    \/ Shutdown
    \/ Finished

SyncSpec == SyncInit /\ [][SyncNext]_allVars
-----------------------------------------------------------------------------
Quiet == order # <<>> /\ ~down /\ \A s \in Pushes : ~Running(s)
Latest == order[Len(order)]

Applied(id) ==
    /\ proxies[id] # None => id \in newIDs[Latest]
    /\ <<Latest, id>> \in used => proxies[id] = <<Latest, id>>

\* When pushes are applied one after the other the table holds what the last one
\* asked for: no cloud datasource it does not list (unless its Close failed), and
\* no older proxy for one it configured.
AppliesLatestPush ==
    Quiet /\ alone => \A id \in Ids \ Flaky : ~IsLocal(id) => Applied(id)

\* A push "creates/reconfigures proxy instances and removes any datasources not in
\* the new config" (docs/connection-lifecycle.md:60): the same without the proviso.
LatestPushWins == Quiet => \A id \in Ids : ~IsLocal(id) => Applied(id)

\* An ssh sibling never outlives the configuration it was made from: when pushes
\* are applied one after the other, its discovery datasource is registered and
\* both were configured by the same push.
SiblingMatchesParent ==
    Quiet /\ alone => \A n \in Names :
        LET parent == proxies[Main(n)]
            ssh == proxies[Sibling(Main(n))]
        IN  ssh # None => parent # None /\ parent[1] = ssh[1]

\* A step takes an id out of the table only for a push that does not list it.
KeepsListed ==
    \A id \in CloudIds \cup LocalIds :
        proxies[id] # None /\ proxies'[id] = None /\ ~down'
        => ~IsLocal(id) /\ \E s \in Pushes : phase[s] # "idle" /\ id \notin pushed[s]

\* A datasource that every push lists never disappears, even for a moment, not
\* even when a push fails to configure it or two pushes are applied at once; the
\* same holds of every local datasource ("Locally-configured datasources ... are
\* never removed by cloud sync").
KeptWhenAlwaysListed == [][KeepsListed]_allVars
=============================================================================
