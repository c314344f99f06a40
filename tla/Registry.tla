------------------------------ MODULE Registry ------------------------------
(***************************************************************************)
(* pkg/proxy/registry.go: the table of datasource proxies shared by the    *)
(* handler goroutines (requests and config pushes) and the health report.  *)
(*                                                                         *)
(* Register, Remove, RecordRequestResult and CloseAll run under Registry.mu*)
(* and are single steps.  A request runs between Get and                   *)
(* RecordRequestResult without the lock, and a health check between the    *)
(* snapshot of the table and the recording of its result, so a proxy may   *)
(* be replaced or removed under either.                                    *)
(*                                                                         *)
(* Two calls into a proxy may never return: the Close of a pooled ssh proxy*)
(* (see SshPool), which is made with mu held and then keeps it, and the    *)
(* HealthCheck of a static ssh proxy, which ignores its context.           *)
(*                                                                         *)
(* A datasource's configuration is identified with the proxy instance made *)
(* for it (configs is always written together with proxies).  lastSuccess  *)
(* and reqErrors hold, in place of a time or a message, the instance the   *)
(* check or the request ran against.                                       *)
(***************************************************************************)
EXTENDS Integers, FiniteSets

CONSTANTS Ids,        \* datasource ids
          Instances,  \* proxy instances; each is registered at most once
          Requests,   \* handler goroutines with a proxied request
          Workers,    \* defaultHealthCheckConcurrency
          Flaky,      \* ids whose proxy's Close may return an error
          Pooled,     \* ids whose proxy's Close may never return
          Unbounded,  \* ids whose proxy's HealthCheck may never return
          None        \* no entry in the map

ASSUME RegistryAssumption ==
    /\ Workers \in Nat \ {0}
    /\ Flaky \subseteq Ids
    /\ Pooled \subseteq Ids /\ Unbounded \subseteq Ids
    /\ None \notin Instances
    /\ IsFiniteSet(Ids)

VARIABLES proxies,      \* Registry.proxies
          lastSuccess,  \* the instance of the last passing check
          reqErrors,    \* the instance of the last unrecovered failure
          aged,         \* ids whose failure is older than requestErrorTTL
          used,         \* instances registered so far
          closed,       \* instances whose Close has returned
          wedged,       \* mu is held by a Close that will not return
          requests,     \* requests between Get and RecordRequestResult
          reporting,    \* HealthReport is running
          targets,      \* its snapshot of proxies
          result,       \* its results, by id
          cancelled     \* its context has been cancelled

tables == <<proxies, lastSuccess, reqErrors, aged, used, closed>>
health == <<reporting, targets, result, cancelled>>
vars == <<proxies, lastSuccess, reqErrors, aged, used, closed, requests,
          reporting, targets, result, cancelled, wedged>>

\* What a health check says of its datasource, beyond not having finished.
\* "closedfail" is an error raised because the proxy itself was closed.
Verdicts == {"healthy", "reqerror", "fail", "closedfail"}
Results == {"none", "queued", "checking", "superseded", "cancelled"} \cup Verdicts

\* The type invariant of the registry.
TypeOK ==
    /\ proxies \in [Ids -> Instances \cup {None}]
    /\ lastSuccess \in [Ids -> Instances \cup {None}]
    /\ reqErrors \in [Ids -> Instances \cup {None}]
    /\ aged \subseteq Ids
    /\ used \subseteq Instances
    /\ closed \subseteq Instances
    /\ wedged \in BOOLEAN
    /\ requests \subseteq [r : Requests, id : Ids, p : Instances]
    /\ reporting \in BOOLEAN
    /\ targets \in [Ids -> Instances \cup {None}]
    /\ result \in [Ids -> Results]
    /\ cancelled \in BOOLEAN

\* NewRegistry; no report is running.
Init ==
    /\ proxies = [id \in Ids |-> None]
    /\ lastSuccess = [id \in Ids |-> None]
    /\ reqErrors = [id \in Ids |-> None]
    /\ aged = {}
    /\ used = {}
    /\ closed = {}
    /\ wedged = FALSE
    /\ requests = {}
    /\ reporting = FALSE
    /\ targets = [id \in Ids |-> None]
    /\ result = [id \in Ids |-> "none"]
    /\ cancelled = FALSE

-----------------------------------------------------------------------------
\* Registry.mu can be taken.
MuFree == ~wedged

\* Register, Remove or CloseAll calls a Close that does not return: mu stays held,
\* and nobody sees what the tables hold from then on.
CloseHangs(id) ==
    /\ MuFree
    /\ id \in Pooled
    /\ proxies[id] # None
    /\ wedged' = TRUE
    /\ UNCHANGED <<tables, requests, health>>

\* clearRequestError, called with mu held.
ClearRequestError(id) ==
    /\ reqErrors' = [reqErrors EXCEPT ![id] = None]
    /\ aged' = aged \ {id}

\* The proxy Register finds in the slot is closed, whatever Close answers.
\* The mutant overwrites the slot without closing it.
CloseReplaced_Mutant(id) == UNCHANGED closed
CloseReplaced(id) == closed' = closed \cup ({proxies[id]} \ {None})

\* Register installs a configured proxy p that nobody else has.
Register(id, p) ==
    /\ MuFree
    /\ p \notin used
    /\ used' = used \cup {p}
    /\ CloseReplaced(id)
    /\ proxies' = [proxies EXCEPT ![id] = p]
    /\ lastSuccess' = [lastSuccess EXCEPT ![id] = None]
    /\ ClearRequestError(id)
    /\ UNCHANGED <<requests, health, wedged>>

\* Remove closes the proxy first; when Close answers an error it returns there,
\* and the closed proxy stays in the table.
Remove(id) ==
    /\ MuFree
    /\ proxies[id] # None
    /\ closed' = closed \cup {proxies[id]}
    /\ \/ /\ proxies' = [proxies EXCEPT ![id] = None]
          /\ lastSuccess' = [lastSuccess EXCEPT ![id] = None]
          /\ ClearRequestError(id)
       \/ /\ id \in Flaky
          /\ UNCHANGED <<proxies, lastSuccess, reqErrors, aged>>
    /\ UNCHANGED <<used, requests, health, wedged>>

\* CloseAll, deferred by app.run: every proxy is closed and dropped, errors
\* ignored.  It leaves lastSuccess as it is.
CloseAll ==
    /\ MuFree
    /\ closed' = closed \cup ({proxies[id] : id \in Ids} \ {None})
    /\ proxies' = [id \in Ids |-> None]
    /\ reqErrors' = [id \in Ids |-> IF proxies[id] = None THEN reqErrors[id] ELSE None]
    /\ aged' = {id \in aged : proxies[id] = None}
    /\ UNCHANGED <<lastSuccess, used, requests, health, wedged>>

-----------------------------------------------------------------------------
\* Get's second result.
Found(id) == proxies[id] # None

\* handleRequest looks the datasource up and hands the request to its proxy.
Get(r, id) ==
    /\ MuFree
    /\ \A q \in requests : q.r # r
    /\ Found(id)
    /\ requests' = requests \cup {[r |-> r, id |-> id, p |-> proxies[id]]}
    /\ UNCHANGED <<tables, health, wedged>>

\* RecordRequestResult takes the result only of a datasource still present; the
\* mutant leaves out that test.
StillPresent_Mutant(id) == TRUE
StillPresent(id) == proxies[id] # None

\* HandleRequest has returned and RecordRequestResult notes the outcome: a
\* failure of the caller's making or of a cancelled request is ignored, a
\* success clears the recorded failure, an integration failure is recorded.
RecordRequestResult(q) ==
    /\ requests' = requests \ {q}
    /\ \/ UNCHANGED <<reqErrors, aged>>
       \/ /\ MuFree
          /\ StillPresent(q.id)
          /\ ClearRequestError(q.id)
       \/ /\ MuFree
          /\ StillPresent(q.id)
          /\ reqErrors' = [reqErrors EXCEPT ![q.id] = q.p]
          /\ aged' = aged \ {q.id}
    /\ UNCHANGED <<proxies, lastSuccess, used, closed, health, wedged>>

\* requestErrorTTL passes for a recorded failure.
Age(id) ==
    /\ reqErrors[id] # None
    /\ id \notin aged
    /\ aged' = aged \cup {id}
    /\ UNCHANGED <<proxies, lastSuccess, reqErrors, used, closed, requests, health, wedged>>

-----------------------------------------------------------------------------
\* HealthReport takes its snapshot.  An empty table is reported at once, and a
\* context that is already cancelled answers for every target without a check.
StartReport(ended) ==
    /\ MuFree
    /\ ~reporting
    /\ \E id \in Ids : proxies[id] # None
    /\ reporting' = TRUE
    /\ cancelled' = ended
    /\ targets' = proxies
    /\ result' = [id \in Ids |-> IF proxies[id] = None THEN "none"
                                 ELSE IF ended THEN "cancelled" ELSE "queued"]
    /\ UNCHANGED <<tables, requests, wedged>>

\* The session the report belongs to ends while the report is running.
Cancel ==
    /\ reporting /\ ~cancelled
    /\ cancelled' = TRUE
    /\ UNCHANGED <<tables, requests, reporting, targets, result, wedged>>

\* The targets whose check is running.
Checking == {id \in Ids : result[id] = "checking"}

\* An idle worker takes a target from the channel, and starts its check unless
\* the context is done.
TakeTarget(id) ==
    /\ result[id] = "queued"
    /\ Cardinality(Checking) < Workers
    /\ result' = [result EXCEPT ![id] = IF cancelled THEN "cancelled" ELSE "checking"]
    /\ UNCHANGED <<tables, requests, reporting, targets, cancelled, wedged>>

\* recentRequestError: a failure past its TTL is dropped when it is looked at.
Verdict(id) == IF reqErrors[id] = None \/ id \in aged THEN "healthy" ELSE "reqerror"

\* The test of the worker that its proxy is still the registered one; the
\* mutant only looks for the id.
StillTarget_Mutant(id) == proxies[id] # None
StillTarget(id) == proxies[id] = targets[id]

\* What becomes of a check whose proxy is no longer the registered one: it is
\* left out of the report.  The mutant puts it back in the queue.
WhenSuperseded_Mutant(id) == "queued"
WhenSuperseded(id) == "superseded"

\* A check returns and its result is recorded under mu.  A check of a proxy
\* that has been closed may fail for that reason.
FinishCheck(id, err) ==
    /\ MuFree
    /\ result[id] = "checking"
    /\ err = "closedfail" => targets[id] \in closed
    /\ \/ /\ ~StillTarget(id)
          /\ result' = [result EXCEPT ![id] = WhenSuperseded(id)]
          /\ UNCHANGED tables
       \/ /\ StillTarget(id)
          /\ err = "none"
          /\ lastSuccess' = [lastSuccess EXCEPT ![id] = targets[id]]
          /\ result' = [result EXCEPT ![id] = Verdict(id)]
          /\ reqErrors' = [reqErrors EXCEPT ![id] = IF id \in aged THEN None ELSE @]
          /\ aged' = aged \ {id}
          /\ UNCHANGED <<proxies, used, closed>>
       \/ /\ StillTarget(id)
          /\ err # "none"
          /\ result' = [result EXCEPT ![id] = err]
          /\ UNCHANGED tables
    /\ UNCHANGED <<requests, reporting, targets, cancelled, wedged>>

\* wg.Wait returns and the report is built from the results.
FinishReport ==
    /\ reporting
    /\ \A id \in Ids : result[id] \notin {"queued", "checking"}
    /\ reporting' = FALSE
    /\ cancelled' = FALSE
    /\ targets' = [id \in Ids |-> None]
    /\ result' = [id \in Ids |-> "none"]
    /\ UNCHANGED <<tables, requests, wedged>>

-----------------------------------------------------------------------------
CheckReturns(id) == \E err \in {"none", "fail", "closedfail"} : FinishCheck(id, err)

Next ==
    \/ \E id \in Ids, p \in Instances : Register(id, p)
    \/ \E id \in Ids : Remove(id)
    \/ CloseAll
    \/ \E id \in Ids : CloseHangs(id)
    \/ \E r \in Requests, id \in Ids : Get(r, id)
    \/ \E q \in requests : RecordRequestResult(q)
    \/ \E id \in Ids : Age(id)
    \/ \E ended \in BOOLEAN : StartReport(ended)
    \/ Cancel
    \/ \E id \in Ids : TakeTarget(id)
    \/ \E id \in Ids : CheckReturns(id)
    \/ FinishReport

\* The workers and the goroutine waiting for them are scheduled.  A check returns
\* where the proxy heeds the 10 s context HealthReport gives it, and its result is
\* recorded when mu can be taken.
Fairness ==
    /\ \A id \in Ids : WF_vars(TakeTarget(id))
    /\ \A id \in Ids \ Unbounded : WF_vars(CheckReturns(id))
    /\ WF_vars(FinishReport)

Spec == Init /\ [][Next]_vars
FairSpec == Spec /\ Fairness
-----------------------------------------------------------------------------
\* A request failure is held only for a registered datasource: a request that
\* outlives its datasource "cannot resurrect an entry nothing will clean up"
\* (RecordRequestResult).
FailuresHaveOwner == \A id \in Ids : reqErrors[id] # None => proxies[id] # None

\* The last_success of a registered datasource was earned by the proxy that is
\* registered now, never by one a config push has replaced while it was checked.
SuccessIsOwn ==
    \A id \in Ids : proxies[id] # None => lastSuccess[id] \in {None, proxies[id]}

\* No health report blames a datasource because its proxy was closed by a
\* concurrent Register, Remove or CloseAll, as long as its Close does not fail.
NoVerdictFromClosed == \A id \in Ids \ Flaky : result[id] # "closedfail"

\* No proxy is lost with its connections open: an instance handed to Register
\* is in the table or has been closed.
NoLeak == \A p \in used : p \in closed \/ \E id \in Ids : proxies[id] = p

\* The report waits for checks that may never return, and for nothing else: a
\* target is still queued only if such checks keep every worker.
Stalled ==
    /\ Checking # {} /\ Checking \subseteq Unbounded
    /\ (\E id \in Ids : result[id] = "queued") => Cardinality(Checking) = Workers

\* Every health report ends, whatever is replaced or removed meanwhile, except one
\* that finds mu held by a Close that does not return, or that has checked all it
\* can and waits (wg.Wait) for checks that ignore their context.
ReportCompletes == []<>~reporting \/ <>[](wedged \/ Stalled)
=============================================================================
