--------------------------- MODULE RegistryProofs ---------------------------
(***************************************************************************)
(* Proofs about Registry for every set of datasources, proxy instances and *)
(* requests, any number of health check workers and any set of datasources *)
(* whose Close may fail; and about the config pushes that ConfigSync       *)
(* applies to it, for any number of pushes, however they overlap.          *)
(***************************************************************************)
EXTENDS ConfigSync, FiniteSetTheorems, TLAPS

-----------------------------------------------------------------------------
(***************************************************************************)
(* The inductive invariant.  What a report may say of a closed proxy, and  *)
(* which proxies are lost, depend on two facts the code never states: an   *)
(* instance is in at most one slot, and a slot holds an open instance      *)
(* unless its Close has failed.                                            *)
(***************************************************************************)
ClosedWereUsed == closed \subseteq used

RegisteredWereUsed == \A id \in Ids : proxies[id] # None => proxies[id] \in used

RegisteredOnce ==
    \A i, j \in Ids : proxies[i] # None /\ proxies[i] = proxies[j] => i = j

RegisteredOpen ==
    \A id \in Ids \ Flaky : proxies[id] # None => proxies[id] \notin closed

TableInv ==
    /\ TypeOK
    /\ ClosedWereUsed
    /\ RegisteredWereUsed
    /\ RegisteredOnce
    /\ RegisteredOpen
    /\ NoLeak

IInv ==
    /\ TableInv
    /\ FailuresHaveOwner
    /\ SuccessIsOwn
    /\ NoVerdictFromClosed

-----------------------------------------------------------------------------
\* NewRegistry: empty tables satisfy the invariant.
LEMMA InitIInv == Init => IInv
BY Zenon, RegistryAssumption
   DEF Init, IInv, TableInv, TypeOK, ClosedWereUsed, RegisteredWereUsed, RegisteredOnce,
       RegisteredOpen, NoLeak, FailuresHaveOwner, SuccessIsOwn, NoVerdictFromClosed, Results

\* Register: the instance is new, and the one it replaces has been closed.
LEMMA RegisterIInv ==
    ASSUME IInv, NEW id \in Ids, NEW p \in Instances, Register(id, p)
    PROVE  IInv'
<1> USE RegistryAssumption DEF IInv, TableInv, TypeOK, Register, CloseReplaced,
        ClearRequestError, health
<1>1. TypeOK'
  OBVIOUS
<1>2. ClosedWereUsed' /\ RegisteredWereUsed'
  BY DEF ClosedWereUsed, RegisteredWereUsed
<1>3. RegisteredOnce'
  BY DEF RegisteredOnce, RegisteredWereUsed
<1>4. RegisteredOpen'
  BY DEF RegisteredOpen, RegisteredOnce, RegisteredWereUsed, ClosedWereUsed
<1>5. NoLeak'
  <2> SUFFICES ASSUME NEW q \in used', q \notin closed'
               PROVE  \E i \in Ids : proxies'[i] = q
    BY DEF NoLeak
  <2>1. CASE q = p
    BY <2>1
  <2>2. CASE q # p
    <3>1. PICK i \in Ids : proxies[i] = q
      BY <2>2 DEF NoLeak
    <3>2. i # id
      BY <3>1
    <3> QED
      BY <3>1, <3>2
  <2> QED
    BY <2>1, <2>2
<1>6. FailuresHaveOwner' /\ SuccessIsOwn'
  BY DEF FailuresHaveOwner, SuccessIsOwn
<1>7. NoVerdictFromClosed'
  BY DEF NoVerdictFromClosed
<1> QED
  BY <1>1, <1>2, <1>3, <1>4, <1>5, <1>6, <1>7

\* Remove: the proxy is closed before it leaves the table, or stays in it because
\* its Close failed.
LEMMA RemoveIInv ==
    ASSUME IInv, NEW id \in Ids, Remove(id)
    PROVE  IInv'
<1> USE RegistryAssumption DEF IInv, TableInv, TypeOK, Remove, ClearRequestError, health
<1>1. TypeOK'
  OBVIOUS
<1>2. ClosedWereUsed' /\ RegisteredWereUsed' /\ RegisteredOnce'
  BY DEF ClosedWereUsed, RegisteredWereUsed, RegisteredOnce
<1>3. RegisteredOpen'
  BY DEF RegisteredOpen, RegisteredOnce
<1>4. NoLeak'
  <2> SUFFICES ASSUME NEW q \in used, q \notin closed'
               PROVE  \E i \in Ids : proxies'[i] = q
    BY DEF NoLeak
  <2>1. PICK i \in Ids : proxies[i] = q
    BY DEF NoLeak
  <2>2. i # id
    BY <2>1
  <2> QED
    BY <2>1, <2>2
<1>5. FailuresHaveOwner' /\ SuccessIsOwn'
  BY DEF FailuresHaveOwner, SuccessIsOwn
<1>6. NoVerdictFromClosed'
  BY DEF NoVerdictFromClosed
<1> QED
  BY <1>1, <1>2, <1>3, <1>4, <1>5, <1>6

\* CloseAll: everything in the table is closed, and its failures are dropped with it.
LEMMA CloseAllIInv ==
    ASSUME IInv, CloseAll
    PROVE  IInv'
<1> USE RegistryAssumption DEF IInv, TableInv, TypeOK, CloseAll, health
<1>1. TypeOK'
  OBVIOUS
<1>2. ClosedWereUsed' /\ RegisteredWereUsed' /\ RegisteredOnce' /\ RegisteredOpen'
  BY DEF ClosedWereUsed, RegisteredWereUsed, RegisteredOnce, RegisteredOpen
<1>3. NoLeak'
  BY DEF NoLeak
<1>4. FailuresHaveOwner' /\ SuccessIsOwn'
  BY DEF FailuresHaveOwner, SuccessIsOwn
<1>5. NoVerdictFromClosed'
  BY DEF NoVerdictFromClosed
<1> QED
  BY <1>1, <1>2, <1>3, <1>4, <1>5

\* A Close that does not return leaves the tables as they are.
LEMMA CloseHangsIInv ==
    ASSUME IInv, NEW id \in Ids, CloseHangs(id)
    PROVE  IInv'
BY DEF CloseHangs, tables, health, IInv, TableInv, TypeOK, ClosedWereUsed, RegisteredWereUsed,
       RegisteredOnce, RegisteredOpen, NoLeak, FailuresHaveOwner, SuccessIsOwn, NoVerdictFromClosed

\* Requests and ageing touch the failures only.
LEMMA RequestIInv ==
    ASSUME IInv,
           \/ \E r \in Requests, id \in Ids : Get(r, id)
           \/ \E q \in requests : RecordRequestResult(q)
           \/ \E id \in Ids : Age(id)
    PROVE  IInv'
<1> DEFINE OnlyFailures ==
        /\ UNCHANGED <<proxies, lastSuccess, used, closed, reporting, targets, result, cancelled,
                       wedged>>
        /\ TypeOK' /\ FailuresHaveOwner'
<1>1. ASSUME NEW r \in Requests, NEW id \in Ids, Get(r, id) PROVE OnlyFailures
  BY <1>1 DEF Get, Found, FailuresHaveOwner, IInv, TableInv, TypeOK, tables, health
<1>2. ASSUME NEW q \in requests, RecordRequestResult(q) PROVE OnlyFailures
  <2> USE <1>2 DEF IInv, TableInv, TypeOK, RecordRequestResult, ClearRequestError, health
  <2>1. q.id \in Ids /\ q.p \in Instances
    OBVIOUS
  <2>2. TypeOK'
    BY <2>1
  <2>3. FailuresHaveOwner'
    BY <2>1 DEF StillPresent, FailuresHaveOwner
  <2> QED
    BY <2>2, <2>3
<1>3. ASSUME NEW id \in Ids, Age(id) PROVE OnlyFailures
  BY <1>3 DEF Age, FailuresHaveOwner, IInv, TableInv, TypeOK, health
<1>4. OnlyFailures
  <2> HIDE DEF OnlyFailures
  <2> QED
    BY <1>1, <1>2, <1>3
<1> QED
  BY <1>4 DEF IInv, TableInv, ClosedWereUsed, RegisteredWereUsed, RegisteredOnce, RegisteredOpen,
              NoLeak, SuccessIsOwn, NoVerdictFromClosed

\* Of the steps of a report only the end of a check touches the tables, and it
\* records under mu what it found of the proxy that is registered at that time.
LEMMA ReportIInv ==
    ASSUME IInv,
           \/ \E ended \in BOOLEAN : StartReport(ended)
           \/ Cancel
           \/ \E id \in Ids : TakeTarget(id)
           \/ FinishReport
    PROVE  IInv'
<1> DEFINE OnlyReport ==
        /\ UNCHANGED <<proxies, lastSuccess, reqErrors, aged, used, closed, requests, wedged>>
        /\ reporting' \in BOOLEAN /\ cancelled' \in BOOLEAN
        /\ targets' \in [Ids -> Instances \cup {None}]
        /\ result' \in [Ids -> Results]
        /\ NoVerdictFromClosed'
<1>0. TypeOK /\ NoVerdictFromClosed
  BY DEF IInv, TableInv
<1>1. ASSUME NEW ended \in BOOLEAN, StartReport(ended) PROVE OnlyReport
  <2>1. UNCHANGED <<proxies, lastSuccess, reqErrors, aged, used, closed, requests, wedged>>
    BY <1>1 DEF StartReport, tables
  <2>2. reporting' \in BOOLEAN /\ cancelled' \in BOOLEAN /\ targets' = proxies
    BY <1>1 DEF StartReport
  <2>3. targets' \in [Ids -> Instances \cup {None}]
    BY <1>0, <2>2 DEF TypeOK
  <2>4. result' = [id \in Ids |-> IF proxies[id] = None THEN "none"
                                  ELSE IF ended THEN "cancelled" ELSE "queued"]
    BY <1>1 DEF StartReport
  <2>5. result' \in [Ids -> Results]
    BY <2>4 DEF Results
  <2>6. NoVerdictFromClosed'
    BY <2>4 DEF NoVerdictFromClosed
  <2> QED
    BY <2>1, <2>2, <2>3, <2>5, <2>6
<1>2. ASSUME Cancel PROVE OnlyReport
  <2>1. UNCHANGED <<proxies, lastSuccess, reqErrors, aged, used, closed, requests, wedged, reporting,
                    targets, result>>
    BY <1>2 DEF Cancel, tables
  <2>2. cancelled' \in BOOLEAN
    BY <1>2 DEF Cancel
  <2> QED
    BY <1>0, <2>1, <2>2 DEF TypeOK, NoVerdictFromClosed
<1>3. ASSUME NEW id \in Ids, TakeTarget(id) PROVE OnlyReport
  <2>1. UNCHANGED <<proxies, lastSuccess, reqErrors, aged, used, closed, requests, wedged, reporting,
                    targets, cancelled>>
    BY <1>3 DEF TakeTarget, tables
  <2>2. PICK v \in {"cancelled", "checking"} : result' = [result EXCEPT ![id] = v]
    BY <1>3, Zenon DEF TakeTarget
  <2>3. result \in [Ids -> Results]
    BY <1>0 DEF TypeOK
  <2>4. result' \in [Ids -> Results]
    BY <2>2, <2>3 DEF Results
  <2>5. NoVerdictFromClosed'
    BY <1>0, <2>2, <2>3 DEF NoVerdictFromClosed
  <2> QED
    BY <1>0, <2>1, <2>4, <2>5 DEF TypeOK
<1>4. ASSUME FinishReport PROVE OnlyReport
  <2>1. UNCHANGED <<proxies, lastSuccess, reqErrors, aged, used, closed, requests, wedged>>
    BY <1>4 DEF FinishReport, tables
  <2>2. /\ reporting' = FALSE /\ cancelled' = FALSE
        /\ targets' = [id \in Ids |-> None] /\ result' = [id \in Ids |-> "none"]
    BY <1>4 DEF FinishReport
  <2>3. targets' \in [Ids -> Instances \cup {None}] /\ result' \in [Ids -> Results]
    BY <2>2 DEF Results
  <2>4. NoVerdictFromClosed'
    BY <2>2 DEF NoVerdictFromClosed
  <2> QED
    BY <2>1, <2>2, <2>3, <2>4, Zenon
<1>5. OnlyReport
  <2> HIDE DEF OnlyReport
  <2> QED
    BY <1>1, <1>2, <1>3, <1>4
<1>6. TypeOK'
  BY <1>0, <1>5 DEF TypeOK
<1>7. FailuresHaveOwner' /\ SuccessIsOwn'
  BY <1>5 DEF IInv, FailuresHaveOwner, SuccessIsOwn
<1>8. ClosedWereUsed' /\ RegisteredWereUsed' /\ RegisteredOnce' /\ RegisteredOpen' /\ NoLeak'
  BY <1>5 DEF IInv, TableInv, ClosedWereUsed, RegisteredWereUsed, RegisteredOnce, RegisteredOpen,
              NoLeak
<1> QED
  BY <1>5, <1>6, <1>7, <1>8 DEF IInv, TableInv

\* A check returns: a proxy that is still the registered one is open, so a failure
\* caused by its closing is only recorded where Close may fail.
LEMMA FinishCheckIInv ==
    ASSUME IInv, NEW id \in Ids, NEW err \in {"none", "fail", "closedfail"},
           FinishCheck(id, err)
    PROVE  IInv'
<1> USE RegistryAssumption DEF IInv, TableInv, TypeOK, tables, Results, Verdicts, FinishCheck,
        StillTarget
<1>1. TypeOK'
  BY DEF Verdict, WhenSuperseded
<1>2. UNCHANGED <<proxies, used, closed>>
  OBVIOUS
<1>3. FailuresHaveOwner' /\ SuccessIsOwn'
  BY <1>2 DEF FailuresHaveOwner, SuccessIsOwn
<1>4. NoVerdictFromClosed'
  BY DEF NoVerdictFromClosed, RegisteredOpen, WhenSuperseded, Verdict
<1> QED
  BY <1>1, <1>2, <1>3, <1>4
     DEF ClosedWereUsed, RegisteredWereUsed, RegisteredOnce, RegisteredOpen, NoLeak

\* The invariant of the registry's tables holds in every reachable state: each step
\* of Register, Remove, CloseAll, a request or a health report preserves it.
THEOREM Inductive == Spec => []IInv
<1>1. IInv /\ [Next]_vars => IInv'
  <2> SUFFICES ASSUME IInv, [Next]_vars PROVE IInv'
    OBVIOUS
  <2>1. CASE UNCHANGED vars
    BY <2>1 DEF vars, IInv, TableInv, TypeOK, ClosedWereUsed, RegisteredWereUsed, RegisteredOnce,
                RegisteredOpen, NoLeak, FailuresHaveOwner, SuccessIsOwn, NoVerdictFromClosed
  <2> QED
    BY <2>1, RegisterIInv, RemoveIInv, CloseAllIInv, CloseHangsIInv, RequestIInv, ReportIInv,
       FinishCheckIInv
       DEF Next, CheckReturns
<1> QED
  BY <1>1, InitIInv, PTL DEF Spec

\* The type invariant of the registry, for every instance.
THEOREM TypeCorrect == Spec => []TypeOK
<1>1. IInv => TypeOK
  BY DEF IInv, TableInv
<1> QED
  BY <1>1, Inductive, PTL

\* No request revives the failure entry of a removed datasource.
THEOREM NoOrphanFailures == Spec => []FailuresHaveOwner
<1>1. IInv => FailuresHaveOwner
  BY DEF IInv
<1> QED
  BY <1>1, Inductive, PTL

\* A check that a replacement overtakes never marks the new proxy as reached.
THEOREM SuccessBelongsToProxy == Spec => []SuccessIsOwn
<1>1. IInv => SuccessIsOwn
  BY DEF IInv
<1> QED
  BY <1>1, Inductive, PTL

\* No report blames a datasource for a proxy the agent itself has closed.
THEOREM ReportsIgnoreClosedProxies == Spec => []NoVerdictFromClosed
<1>1. IInv => NoVerdictFromClosed
  BY DEF IInv
<1> QED
  BY <1>1, Inductive, PTL

\* Register, Remove and CloseAll together close every proxy that leaves the table.
THEOREM ProxiesAreNotLeaked == Spec => []NoLeak
<1>1. IInv => NoLeak
  BY DEF IInv, TableInv
<1> QED
  BY <1>1, Inductive, PTL

-----------------------------------------------------------------------------
(***************************************************************************)
(* Why a health report ends.  What is ahead of a target is the number of   *)
(* steps a worker still has to take for it: two while it is in the         *)
(* channel, one while its check runs.                                      *)
(***************************************************************************)
TargetAhead(res) == IF res = "queued" THEN 2 ELSE IF res = "checking" THEN 1 ELSE 0

\* No more checks run at once than there are workers.
WithinPool == Cardinality(Checking) <= Workers

\* What a running report waits for: a check, which its timeout ends where the proxy
\* heeds it, or a free worker to take a target from the channel, or nothing more.
ReportGoesOn ==
    reporting =>
        \/ Checking # {}
        \/ \E id \in Ids : result[id] = "queued" /\ Cardinality(Checking) < Workers
        \/ \A id \in Ids : result[id] \notin {"queued", "checking"}

\* No step of a request, a config push or CloseAll takes a running report further
\* from its end: its targets stay, and a result that changes brings one target
\* nearer and leaves the others where they are.
ReportGetsNearer ==
    reporting =>
        \/ ~reporting'
        \/ UNCHANGED <<targets, result>>
        \/ /\ UNCHANGED targets
           /\ \E id \in Ids :
                 /\ TargetAhead(result'[id]) < TargetAhead(result[id])
                 /\ \A i \in Ids \ {id} : result'[i] = result[i]

\* One element more makes a finite set larger by one at most.
LEMMA AddOne ==
    ASSUME NEW S, NEW x, IsFiniteSet(S)
    PROVE  /\ IsFiniteSet(S \cup {x})
           /\ Cardinality(S \cup {x}) <= Cardinality(S) + 1
<1>1. Cardinality(S) \in Nat
  BY FS_CardinalityType, ZenonT(20)
<1> QED
  BY <1>1, FS_AddElement

\* Only TakeTarget starts a check, and it does so when a worker is free.
LEMMA WithinPoolStep ==
    ASSUME TypeOK, WithinPool, [Next]_vars
    PROVE  WithinPool'
<1>1. IsFiniteSet(Checking) /\ Cardinality(Checking) \in Nat /\ IsFiniteSet(Checking')
  BY RegistryAssumption, FS_Subset, FS_CardinalityType DEF Checking
<1>2. ASSUME Checking' \subseteq Checking PROVE WithinPool'
  <2>1. Cardinality(Checking') <= Cardinality(Checking) /\ Cardinality(Checking') \in Nat
    BY <1>1, <1>2, FS_Subset, FS_CardinalityType
  <2> QED
    BY <1>1, <2>1, RegistryAssumption DEF WithinPool
<1>3. CASE UNCHANGED result
  BY <1>2, <1>3 DEF Checking
<1>4. ASSUME NEW ended \in BOOLEAN, StartReport(ended) PROVE WithinPool'
  BY <1>2, <1>4 DEF StartReport, Checking
<1>5. ASSUME NEW id \in Ids, TakeTarget(id) PROVE WithinPool'
  <2>1. Checking' \subseteq Checking \cup {id} /\ Cardinality(Checking) < Workers
    BY <1>5 DEF TakeTarget, Checking, TypeOK
  <2>2. /\ IsFiniteSet(Checking \cup {id})
        /\ Cardinality(Checking \cup {id}) <= Cardinality(Checking) + 1
    BY <1>1, AddOne, ZenonT(40)
  <2>3. Cardinality(Checking') <= Cardinality(Checking \cup {id})
    BY <2>1, <2>2, FS_Subset
  <2>4. Cardinality(Checking') \in Nat /\ Cardinality(Checking \cup {id}) \in Nat
    BY <1>1, <2>2, FS_CardinalityType
  <2> QED
    BY <1>1, <2>1, <2>2, <2>3, <2>4, RegistryAssumption DEF WithinPool
<1>6. ASSUME NEW id \in Ids, NEW err \in {"none", "fail", "closedfail"}, FinishCheck(id, err)
      PROVE  WithinPool'
  <2>1. \E v : result' = [result EXCEPT ![id] = v] /\ v # "checking"
    BY <1>6 DEF FinishCheck, WhenSuperseded, Verdict
  <2> QED
    BY <1>2, <2>1 DEF Checking, TypeOK
<1>7. CASE FinishReport
  BY <1>2, <1>7 DEF FinishReport, Checking
<1> QED
  BY <1>3, <1>4, <1>5, <1>6, <1>7
     DEF Next, CheckReturns, vars, health, Register, Remove, CloseAll, CloseHangs, Get,
         RecordRequestResult, Age, Cancel

\* With no check running every worker is free, and there is one at least.
LEMMA ReportGoesOnAlways == TypeOK => ReportGoesOn
<1>1. CASE Checking = {}
  <2>1. Cardinality(Checking) = 0
    BY <1>1, FS_EmptySet
  <2> QED
    BY <1>1, <2>1, RegistryAssumption DEF ReportGoesOn, Checking
<1>2. CASE Checking # {}
  BY <1>2, ZenonT(20) DEF ReportGoesOn
<1> QED
  BY <1>1, <1>2

\* Each step of the registry, seen from a running report.
LEMMA ReportNearer ==
    ASSUME TypeOK, [Next]_vars
    PROVE  ReportGetsNearer
<1>1. CASE UNCHANGED <<targets, result>>
  BY <1>1 DEF ReportGetsNearer
<1>2. ASSUME NEW ended \in BOOLEAN, StartReport(ended) PROVE ReportGetsNearer
  BY <1>2 DEF StartReport, ReportGetsNearer
<1>3. CASE FinishReport
  BY <1>3 DEF FinishReport, ReportGetsNearer
<1>4. ASSUME NEW id \in Ids, NEW v, result' = [result EXCEPT ![id] = v], UNCHANGED targets,
             TargetAhead(v) < TargetAhead(result[id])
      PROVE  ReportGetsNearer
  BY <1>4 DEF ReportGetsNearer, TypeOK
<1>5. ASSUME NEW id \in Ids, TakeTarget(id) PROVE ReportGetsNearer
  <2>1. PICK v \in {"cancelled", "checking"} : result' = [result EXCEPT ![id] = v]
    BY <1>5, Zenon DEF TakeTarget
  <2>2. TargetAhead(v) < TargetAhead(result[id]) /\ UNCHANGED targets
    BY <1>5, <2>1 DEF TakeTarget, TargetAhead
  <2> QED
    BY <1>4, <2>1, <2>2, Zenon
<1>6. ASSUME NEW id \in Ids, NEW err \in {"none", "fail", "closedfail"}, FinishCheck(id, err)
      PROVE  ReportGetsNearer
  <2>1. PICK v \in Verdicts \cup {"superseded"} : result' = [result EXCEPT ![id] = v]
    BY <1>6 DEF FinishCheck, WhenSuperseded, Verdict, Verdicts
  <2>2. TargetAhead(v) < TargetAhead(result[id]) /\ UNCHANGED targets
    BY <1>6, <2>1 DEF FinishCheck, TargetAhead, Verdicts
  <2> QED
    BY <1>4, <2>1, <2>2, Zenon
<1> QED
  BY <1>1, <1>2, <1>3, <1>5, <1>6
     DEF Next, CheckReturns, vars, health, Register, Remove, CloseAll, CloseHangs, Get,
         RecordRequestResult, Age, Cancel

\* What ReportCompletes rests on besides fairness: the worker pool of HealthReport
\* is never exceeded, a report never waits for a queued target while no check runs,
\* and whatever is registered, replaced, removed or requested meanwhile only brings
\* it nearer to its end.
THEOREM ReportsDoNotStall ==
    Spec => /\ [](WithinPool /\ ReportGoesOn)
            /\ [][ReportGetsNearer]_vars
<1>1. Init => WithinPool
  <2> SUFFICES ASSUME Init PROVE WithinPool
    OBVIOUS
  <2>1. Checking = {}
    BY DEF Init, Checking
  <2> QED
    BY <2>1, FS_EmptySet, RegistryAssumption DEF WithinPool
<1>2. TypeOK /\ WithinPool /\ [Next]_vars => WithinPool'
  BY WithinPoolStep
<1>3. TypeOK /\ [Next]_vars => [ReportGetsNearer]_vars
  BY ReportNearer
<1> QED
  BY <1>1, <1>2, <1>3, ReportGoesOnAlways, TypeCorrect, PTL DEF Spec

-----------------------------------------------------------------------------
(***************************************************************************)
(* handleConfigSync.  The goroutine of a push never has an id in its       *)
(* removal loop that it has noted, and notes every id it has looked at;    *)
(* while pushes do not overlap only the latest one is being applied.       *)
(***************************************************************************)
SyncVarsOK ==
    /\ pushed \in [Pushes -> SUBSET CloudIds]
    /\ phase \in [Pushes -> {"idle", "items", "removing", "done"}]
    /\ todo \in [Pushes -> SUBSET CloudIds]
    /\ newIDs \in [Pushes -> SUBSET Ids]
    /\ sibling \in [Pushes -> SUBSET Ids]
    /\ doomed \in [Pushes -> SUBSET Ids]
    /\ order \in Seq(Pushes)
    /\ alone \in BOOLEAN /\ down \in BOOLEAN

\* Where a goroutine is and what it has left to do agree.
WorkMatchesPhase ==
    \A s \in Pushes :
        /\ phase[s] # "items" => todo[s] = {} /\ sibling[s] = {}
        /\ doomed[s] # {} => phase[s] = "removing"
        /\ pushed[s] \subseteq newIDs[s] \cup todo[s]

\* A push does not remove what it has noted, and touches no local datasource.
SparesNotedAndLocal ==
    \A s \in Pushes :
        /\ doomed[s] \cap newIDs[s] = {}
        /\ \A id \in doomed[s] \cup newIDs[s] \cup sibling[s] : ~IsLocal(id)

\* A push has noted what it has registered, and a sibling it has noted is
\* registered after its parent.
NotesMatchTable ==
    \A s \in Pushes :
        /\ \A id \in Ids : <<s, id>> \in used => id \in newIDs[s] /\ phase[s] # "idle"
        /\ \A id \in newIDs[s] :
              id[2] = "ssh" => <<s, id>> \in used /\ <<s, Main(id[1])>> \in used
        /\ \A id \in sibling[s] : id[2] = "ssh" /\ <<s, Main(id[1])>> \in used

\* While pushes do not overlap, the one being applied is the latest.
OnlyLatestRuns ==
    /\ order # <<>> => phase[Latest] # "idle"
    /\ alone => \A s \in Pushes : Running(s) => order # <<>> /\ s = Latest

\* Then what it has registered is there, and what it has not noted is in its
\* removal loop once that has begun.
LatestIsApplied ==
    alone /\ ~down /\ order # <<>> =>
        \A id \in Ids : ~IsLocal(id) =>
           /\ <<Latest, id>> \in used => proxies[id] = <<Latest, id>>
           /\ id \notin Flaky /\ phase[Latest] \in {"removing", "done"} /\ proxies[id] # None
              => id \in newIDs[Latest] \cup doomed[Latest]

\* Local datasources are as the start-up left them.
LocalAsBooted ==
    ~down => \A id \in LocalIds :
                /\ proxies[id] \in {<<Boot, id>>, None}
                /\ id[2] = "ssh" /\ proxies[id] # None => proxies[Main(id[1])] # None

\* The inductive invariant of the config pushes, with that of the registry.
SyncIInv ==
    /\ IInv
    /\ SyncVarsOK
    /\ WorkMatchesPhase
    /\ SparesNotedAndLocal
    /\ NotesMatchTable
    /\ OnlyLatestRuns
    /\ LatestIsApplied
    /\ LocalAsBooted

LEMMA IdFacts ==
    /\ \A id \in Ids : id[1] \in Names /\ id[2] \in {"main", "ssh"} /\ id = <<id[1], id[2]>>
                       /\ Main(id[1]) \in Ids
    /\ \A id \in CloudIds : /\ id \in Ids /\ id[2] = "main" /\ ~IsLocal(id) /\ Main(id[1]) = id
                            /\ Sibling(id) \in Ids /\ Sibling(id)[1] = id[1]
                            /\ Sibling(id)[2] = "ssh" /\ ~IsLocal(Sibling(id))
    /\ \A s \in Pushes \cup {Boot}, id \in Ids : <<s, id>> \in Instances
    /\ Boot \notin Pushes /\ None \notin Instances
  BY ConfigSyncAssumption, RegistryAssumption DEF Main, Sibling, CloudIds, IsLocal

LEMMA LocalsDiffer ==
    ASSUME NEW id, ~IsLocal(id)
    PROVE  \A i \in LocalIds : i \in Ids /\ i # id /\ Main(i[1]) \in Ids /\ Main(i[1]) # id
<1> TAKE i \in LocalIds
<1>1. i \in Ids /\ i[1] \in Local /\ Main(i[1]) \in Ids /\ Main(i[1])[1] = i[1]
  BY IdFacts DEF LocalIds, IsLocal, Main
<1> QED
  BY <1>1 DEF IsLocal

\* newApp has registered the local datasources and nothing else.
LEMMA SyncInitIInv == SyncInit => SyncIInv
<1> SUFFICES ASSUME SyncInit PROVE SyncIInv
  OBVIOUS
<1>1. PICK up \in SUBSET LocalIds :
        /\ \A id \in up : id[2] = "ssh" => id[1] \in Discovery /\ Main(id[1]) \in up
        /\ proxies = [id \in Ids |-> IF id \in up THEN <<Boot, id>> ELSE None]
        /\ used = {<<Boot, id>> : id \in up}
  BY Zenon DEF SyncInit
<1>2. up \subseteq Ids
  BY DEF LocalIds
<1>3. \A id \in Ids : proxies[id] = IF id \in up THEN <<Boot, id>> ELSE None
  BY <1>1
<1>4. IInv
  <2>1. TypeOK
    <3>1. proxies \in [Ids -> Instances \cup {None}] /\ used \subseteq Instances
      BY <1>1, <1>2, IdFacts
    <3> QED
      BY <3>1, Zenon DEF SyncInit, TypeOK, Results
  <2>2. ClosedWereUsed /\ RegisteredWereUsed /\ RegisteredOnce /\ RegisteredOpen
    BY <1>1, <1>2, <1>3, IdFacts
       DEF SyncInit, ClosedWereUsed, RegisteredWereUsed, RegisteredOnce, RegisteredOpen
  <2>3. NoLeak
    BY <1>1, <1>2, <1>3 DEF NoLeak
  <2>4. FailuresHaveOwner /\ SuccessIsOwn /\ NoVerdictFromClosed
    BY RegistryAssumption DEF SyncInit, FailuresHaveOwner, SuccessIsOwn, NoVerdictFromClosed
  <2> QED
    BY <2>1, <2>2, <2>3, <2>4 DEF IInv, TableInv
<1>5. SyncVarsOK
  <2>1. <<>> \in Seq(Pushes)
    OBVIOUS
  <2> QED
    BY <2>1, Zenon DEF SyncInit, SyncVarsOK
<1>6. WorkMatchesPhase /\ SparesNotedAndLocal /\ OnlyLatestRuns /\ LatestIsApplied
  BY DEF SyncInit, WorkMatchesPhase, SparesNotedAndLocal, OnlyLatestRuns, LatestIsApplied, Running
<1>7. NotesMatchTable
  BY <1>1, IdFacts DEF SyncInit, NotesMatchTable
<1>8. LocalAsBooted
  BY <1>1, <1>2, <1>3, IdFacts DEF LocalAsBooted, LocalIds
<1> QED
  BY <1>4, <1>5, <1>6, <1>7, <1>8 DEF SyncIInv

\* A step that leaves the registry alone keeps its invariant.
LEMMA RegistryRests == ASSUME IInv, UNCHANGED vars PROVE IInv'
  BY DEF vars, IInv, TableInv, TypeOK, ClosedWereUsed, RegisteredWereUsed, RegisteredOnce,
         RegisteredOpen, NoLeak, FailuresHaveOwner, SuccessIsOwn, NoVerdictFromClosed

\* A push arrives: it becomes the latest, and has noted nothing.
LEMMA ReceiveIInv ==
    ASSUME SyncIInv, NEW s \in Pushes, NEW ids \in SUBSET CloudIds, Receive(s, ids) PROVE SyncIInv'
<1> USE DEF SyncIInv
<1>1. /\ ~down /\ phase[s] = "idle" /\ phase' = [phase EXCEPT ![s] = "items"]
      /\ pushed' = [pushed EXCEPT ![s] = ids] /\ todo' = [todo EXCEPT ![s] = ids]
      /\ order' = Append(order, s) /\ UNCHANGED <<vars, newIDs, sibling, doomed, down>>
      /\ UNCHANGED <<proxies, used>>
      /\ alone' = (alone /\ \A t \in Pushes : ~Running(t))
  BY DEF Receive, vars
<1>2. IInv'
  BY <1>1, RegistryRests
<1>3. order' \in Seq(Pushes) /\ order' # <<>> /\ Latest' = s
  BY <1>1 DEF SyncVarsOK, Latest
<1>4. SyncVarsOK'
  BY <1>1, <1>3 DEF SyncVarsOK
<1>5. WorkMatchesPhase'
  BY <1>1 DEF WorkMatchesPhase, SyncVarsOK
<1>6. SparesNotedAndLocal'
  BY <1>1 DEF SparesNotedAndLocal
<1>7. NotesMatchTable'
  BY <1>1 DEF NotesMatchTable, SyncVarsOK
<1>8. OnlyLatestRuns'
  BY <1>1, <1>3 DEF OnlyLatestRuns, SyncVarsOK, Running
<1>9. LatestIsApplied'
  <2>1. phase'[s] = "items" /\ \A id \in Ids : <<s, id>> \notin used'
    BY <1>1 DEF NotesMatchTable, SyncVarsOK
  <2> QED
    BY <1>3, <2>1 DEF LatestIsApplied
<1>10. LocalAsBooted'
  BY <1>1 DEF LocalAsBooted
<1> QED
  BY <1>2, <1>4, <1>5, <1>6, <1>7, <1>8, <1>9, <1>10

\* SkipItem: the abandoned id has been noted.
LEMMA SkipItemIInv ==
    ASSUME SyncIInv, NEW s \in Pushes, NEW id \in CloudIds, SkipItem(s, id) PROVE SyncIInv'
<1> USE DEF SyncIInv
<1>1. /\ id \in todo[s] /\ sibling[s] = {} /\ todo' = [todo EXCEPT ![s] = @ \ {id}]
      /\ newIDs' = [newIDs EXCEPT ![s] = newIDs[s] \cup {id}]
      /\ UNCHANGED <<vars, sibling, doomed, phase, pushed, order, alone, down, proxies, used>>
  BY DEF SkipItem, NotedOnSkip, vars
<1>2. id \in Ids /\ id[2] = "main" /\ ~IsLocal(id) /\ phase[s] = "items" /\ doomed[s] = {}
  BY <1>1, IdFacts DEF WorkMatchesPhase, SyncVarsOK
<1>3. \A t \in Pushes : /\ newIDs'[t] = IF t = s THEN newIDs[s] \cup {id} ELSE newIDs[t]
                        /\ todo'[t] = IF t = s THEN todo[s] \ {id} ELSE todo[t]
  BY <1>1, ZenonT(20) DEF SyncVarsOK
<1>4. IInv'
  BY <1>1, RegistryRests
<1>5. SyncVarsOK'
  BY <1>1, <1>2, ZenonT(20) DEF SyncVarsOK
<1>6. WorkMatchesPhase' /\ SparesNotedAndLocal'
  BY <1>1, <1>2, <1>3, SMTT(30) DEF WorkMatchesPhase, SparesNotedAndLocal
<1>7. NotesMatchTable'
  BY <1>1, <1>2, <1>3 DEF NotesMatchTable
<1>8. OnlyLatestRuns' /\ LocalAsBooted'
  BY <1>1, ZenonT(20) DEF OnlyLatestRuns, LocalAsBooted, Running, Latest
<1>9. LatestIsApplied'
  BY <1>1, <1>3, <1>2 DEF LatestIsApplied, Latest, SyncVarsOK
<1> QED
  BY <1>4, <1>5, <1>6, <1>7, <1>8, <1>9

\* A proxy is registered, a sibling's or not: the push that does it is still at
\* its items, so it is the latest when pushes do not overlap.
LEMMA RegisteringIInv ==
    ASSUME SyncIInv, NEW s \in Pushes, NEW id \in Ids, ~IsLocal(id), phase[s] = "items",
           Register(id, <<s, id>>), newIDs' = [newIDs EXCEPT ![s] = newIDs[s] \cup {id}], InRegistry
    PROVE  IInv' /\ OnlyLatestRuns' /\ LatestIsApplied' /\ LocalAsBooted'
<1> USE DEF SyncIInv
<1>1. /\ used' = used \cup {<<s, id>>} /\ proxies' = [proxies EXCEPT ![id] = <<s, id>>]
      /\ UNCHANGED <<phase, pushed, order, alone, down>>
  BY DEF Register, InRegistry
<1>2. IInv'
  BY IdFacts, RegisterIInv
<1>3. proxies'[id] = <<s, id>> /\ \A i \in Ids \ {id} : proxies'[i] = proxies[i]
  BY <1>1 DEF IInv, TableInv, TypeOK
<1>4. OnlyLatestRuns'
  BY <1>1, ZenonT(20) DEF OnlyLatestRuns, Running, Latest
<1>5. LocalAsBooted'
  <2>1. \A i \in LocalIds : i \in Ids /\ i # id /\ Main(i[1]) \in Ids /\ Main(i[1]) # id
    BY LocalsDiffer, ZenonT(20)
  <2> QED
    BY <1>1, <1>3, <2>1 DEF LocalAsBooted
<1>6. LatestIsApplied'
  <2> SUFFICES ASSUME alone, ~down, order # <<>>, NEW i \in Ids, ~IsLocal(i)
               PROVE  /\ <<s, i>> \in used' => proxies'[i] = <<s, i>>
                      /\ phase'[s] \notin {"removing", "done"} /\ s = Latest'
    BY <1>1 DEF LatestIsApplied, Latest, OnlyLatestRuns, Running
  <2>1. s = Latest /\ s = Latest'
    BY <1>1 DEF OnlyLatestRuns, Running, Latest
  <2>2. i # id => (<<s, i>> \in used' <=> <<s, i>> \in used)
    BY <1>1
  <2> QED
    BY <1>1, <1>3, <2>1, <2>2, ZenonT(20) DEF LatestIsApplied
<1> QED
  BY <1>2, <1>4, <1>5, <1>6

\* RegisterItem: the sibling comes next, after its parent.
LEMMA RegisterItemIInv ==
    ASSUME SyncIInv, NEW s \in Pushes, NEW id \in CloudIds, NEW access \in BOOLEAN,
           RegisterItem(s, id, access)
    PROVE  SyncIInv'
<1> USE DEF SyncIInv
<1>1. /\ id \in todo[s] /\ sibling[s] = {} /\ todo' = [todo EXCEPT ![s] = @ \ {id}]
      /\ newIDs' = [newIDs EXCEPT ![s] = newIDs[s] \cup {id}]
      /\ sibling' = [sibling EXCEPT ![s] = IF access THEN {Sibling(id)} ELSE {}]
      /\ used' = used \cup {<<s, id>>}
      /\ UNCHANGED <<doomed, phase, pushed, order, alone, down>>
  BY DEF RegisterItem, NotedOnRegister, Register, InRegistry
<1>2. /\ id \in Ids /\ id[2] = "main" /\ ~IsLocal(id) /\ phase[s] = "items" /\ doomed[s] = {}
      /\ Main(id[1]) = id /\ Sibling(id) \in Ids /\ Sibling(id)[1] = id[1]
      /\ Sibling(id)[2] = "ssh" /\ ~IsLocal(Sibling(id))
  BY <1>1, IdFacts, ZenonT(20) DEF WorkMatchesPhase, SyncVarsOK
<1>3. \A t \in Pushes : /\ newIDs'[t] = IF t = s THEN newIDs[s] \cup {id} ELSE newIDs[t]
                        /\ todo'[t] = IF t = s THEN todo[s] \ {id} ELSE todo[t]
                        /\ sibling'[t] \subseteq IF t = s THEN {Sibling(id)} ELSE sibling[t]
  BY <1>1 DEF SyncVarsOK
<1>4. IInv' /\ OnlyLatestRuns' /\ LatestIsApplied' /\ LocalAsBooted'
  BY <1>1, <1>2, RegisteringIInv, ZenonT(40) DEF RegisterItem
<1>5. SyncVarsOK'
  BY <1>1, <1>2, ZenonT(20) DEF SyncVarsOK
<1>6. WorkMatchesPhase'
  <2> SUFFICES ASSUME NEW t \in Pushes
               PROVE  /\ phase'[t] # "items" => todo'[t] = {} /\ sibling'[t] = {}
                      /\ doomed'[t] # {} => phase'[t] = "removing"
                      /\ pushed'[t] \subseteq newIDs'[t] \cup todo'[t]
    BY Zenon DEF WorkMatchesPhase
  <2>1. /\ phase[t] # "items" => todo[t] = {} /\ sibling[t] = {}
        /\ doomed[t] # {} => phase[t] = "removing"
        /\ pushed[t] \subseteq newIDs[t] \cup todo[t]
    BY Zenon DEF WorkMatchesPhase
  <2>2. CASE t = s
    BY <1>1, <1>2, <1>3, <2>1, <2>2
  <2>3. CASE t # s
    BY <1>1, <1>3, <2>1, <2>3, ZenonT(20)
  <2> QED
    BY <2>2, <2>3, Zenon
<1>7. SparesNotedAndLocal'
  <2> SUFFICES ASSUME NEW t \in Pushes
               PROVE  /\ doomed'[t] \cap newIDs'[t] = {}
                      /\ \A i \in doomed'[t] \cup newIDs'[t] \cup sibling'[t] : ~IsLocal(i)
    BY Zenon DEF SparesNotedAndLocal
  <2>1. /\ doomed[t] \cap newIDs[t] = {}
        /\ \A i \in doomed[t] \cup newIDs[t] \cup sibling[t] : ~IsLocal(i)
    BY Zenon DEF SparesNotedAndLocal
  <2>2. CASE t = s
    BY <1>1, <1>2, <1>3, <2>1, <2>2
  <2>3. CASE t # s
    BY <1>1, <1>3, <2>1, <2>3, ZenonT(20)
  <2> QED
    BY <2>2, <2>3, Zenon
<1>8. NotesMatchTable'
  <2> SUFFICES ASSUME NEW t \in Pushes
               PROVE  /\ \A i \in Ids : <<t, i>> \in used' => i \in newIDs'[t] /\ phase'[t] # "idle"
                      /\ \A i \in newIDs'[t] :
                            i[2] = "ssh" => <<t, i>> \in used' /\ <<t, Main(i[1])>> \in used'
                      /\ \A i \in sibling'[t] : i[2] = "ssh" /\ <<t, Main(i[1])>> \in used'
    BY DEF NotesMatchTable
  <2>1. \A i : <<t, i>> \in used' => <<t, i>> \in used \/ (t = s /\ i = id)
    BY <1>1
  <2>2. \A i : <<t, i>> \in used => <<t, i>> \in used'
    BY <1>1
  <2>3. <<s, id>> \in used'
    BY <1>1, ZenonT(20)
  <2>a. newIDs[t] \subseteq newIDs'[t] /\ phase'[t] = phase[t] /\ (t = s => id \in newIDs'[t])
    <3>1. newIDs'[s] = newIDs[s] \cup {id} /\ (t # s => newIDs'[t] = newIDs[t])
      BY <1>3, ZenonT(20)
    <3>2. newIDs[s] \subseteq newIDs'[s] /\ id \in newIDs'[s]
      BY <3>1, Zenon
    <3> QED
      BY <1>1, <3>1, <3>2, ZenonT(20)
  <2>4. \A i \in Ids : <<t, i>> \in used' => i \in newIDs'[t] /\ phase'[t] # "idle"
    <3> SUFFICES ASSUME NEW i \in Ids, <<t, i>> \in used' PROVE i \in newIDs'[t] /\ phase'[t] # "idle"
      BY Zenon
    <3>1. CASE <<t, i>> \in used
      BY <2>a, <3>1, ZenonT(20) DEF NotesMatchTable
    <3>2. CASE t = s /\ i = id
      BY <1>2, <2>a, <3>2, ZenonT(20)
    <3> QED
      BY <2>1, <3>1, <3>2, Zenon
  <2>5. \A i \in newIDs'[t] : i[2] = "ssh" => <<t, i>> \in used' /\ <<t, Main(i[1])>> \in used'
    <3>1. \A i \in newIDs'[t] : i \in newIDs[t] \/ i = id
      BY <1>3, ZenonT(20)
    <3>2. ~(id[2] = "ssh")
      BY <1>2, Zenon
    <3> QED
      BY <2>2, <3>1, <3>2, ZenonT(20) DEF NotesMatchTable
  <2>6. \A i \in sibling'[t] : i[2] = "ssh" /\ <<t, Main(i[1])>> \in used'
    BY <1>2, <1>3, <2>2, <2>3 DEF NotesMatchTable
  <2> QED
    BY <2>4, <2>5, <2>6
<1> QED
  BY <1>4, <1>5, <1>6, <1>7, <1>8

\* RegisterSibling: the parent has been registered.
LEMMA RegisterSiblingIInv ==
    ASSUME SyncIInv, NEW s \in Pushes, NEW id \in Ids, RegisterSibling(s, id) PROVE SyncIInv'
<1> USE DEF SyncIInv
<1>1. /\ id \in sibling[s] /\ newIDs' = [newIDs EXCEPT ![s] = newIDs[s] \cup {id}]
      /\ sibling' = [sibling EXCEPT ![s] = {}]
      /\ used' = used \cup {<<s, id>>}
      /\ UNCHANGED <<todo, doomed, phase, pushed, order, alone, down>>
  BY DEF RegisterSibling, Register, InRegistry
<1>2. /\ phase[s] = "items" /\ doomed[s] = {} /\ ~IsLocal(id)
      /\ id[2] = "ssh" /\ <<s, Main(id[1])>> \in used
  BY <1>1 DEF WorkMatchesPhase, SyncVarsOK, SparesNotedAndLocal, NotesMatchTable
<1>3. \A t \in Pushes : /\ newIDs'[t] = IF t = s THEN newIDs[s] \cup {id} ELSE newIDs[t]
                        /\ sibling'[t] = IF t = s THEN {} ELSE sibling[t]
  BY <1>1, ZenonT(20) DEF SyncVarsOK
<1>4. IInv' /\ OnlyLatestRuns' /\ LatestIsApplied' /\ LocalAsBooted'
  BY <1>1, <1>2, RegisteringIInv, Zenon DEF RegisterSibling
<1>5. SyncVarsOK'
  BY <1>1, ZenonT(20) DEF SyncVarsOK
<1>6. WorkMatchesPhase'
  <2> SUFFICES ASSUME NEW t \in Pushes
               PROVE  /\ phase'[t] # "items" => todo'[t] = {} /\ sibling'[t] = {}
                      /\ doomed'[t] # {} => phase'[t] = "removing"
                      /\ pushed'[t] \subseteq newIDs'[t] \cup todo'[t]
    BY Zenon DEF WorkMatchesPhase
  <2>1. /\ phase[t] # "items" => todo[t] = {} /\ sibling[t] = {}
        /\ doomed[t] # {} => phase[t] = "removing"
        /\ pushed[t] \subseteq newIDs[t] \cup todo[t]
    BY Zenon DEF WorkMatchesPhase
  <2>2. CASE t = s
    BY <1>1, <1>2, <1>3, <2>1, <2>2
  <2>3. CASE t # s
    BY <1>1, <1>3, <2>1, <2>3, ZenonT(20)
  <2> QED
    BY <2>2, <2>3, Zenon
<1>7. SparesNotedAndLocal'
  BY <1>1, <1>2, <1>3 DEF SparesNotedAndLocal
<1>8. NotesMatchTable'
  <2> SUFFICES ASSUME NEW t \in Pushes
               PROVE  /\ \A i \in Ids : <<t, i>> \in used' => i \in newIDs'[t] /\ phase'[t] # "idle"
                      /\ \A i \in newIDs'[t] :
                            i[2] = "ssh" => <<t, i>> \in used' /\ <<t, Main(i[1])>> \in used'
                      /\ \A i \in sibling'[t] : i[2] = "ssh" /\ <<t, Main(i[1])>> \in used'
    BY DEF NotesMatchTable
  <2>1. \A i : <<t, i>> \in used' => <<t, i>> \in used \/ (t = s /\ i = id)
    BY <1>1, ZenonT(20)
  <2>2. \A i : <<t, i>> \in used => <<t, i>> \in used'
    BY <1>1, ZenonT(20)
  <2>3. <<s, id>> \in used'
    BY <1>1, ZenonT(20)
  <2>a. newIDs[t] \subseteq newIDs'[t] /\ phase'[t] = phase[t] /\ (t = s => id \in newIDs'[t])
    <3>1. newIDs'[s] = newIDs[s] \cup {id} /\ (t # s => newIDs'[t] = newIDs[t])
      BY <1>3, ZenonT(20)
    <3>2. newIDs[s] \subseteq newIDs'[s] /\ id \in newIDs'[s]
      BY <3>1, Zenon
    <3> QED
      BY <1>1, <3>1, <3>2, ZenonT(20)
  <2>4. \A i \in Ids : <<t, i>> \in used' => i \in newIDs'[t] /\ phase'[t] # "idle"
    <3> SUFFICES ASSUME NEW i \in Ids, <<t, i>> \in used' PROVE i \in newIDs'[t] /\ phase'[t] # "idle"
      BY Zenon
    <3>1. CASE <<t, i>> \in used
      BY <2>a, <3>1, ZenonT(20) DEF NotesMatchTable
    <3>2. CASE t = s /\ i = id
      BY <1>2, <2>a, <3>2, ZenonT(20)
    <3> QED
      BY <2>1, <3>1, <3>2, Zenon
  <2>5. \A i \in newIDs'[t] : i[2] = "ssh" => <<t, i>> \in used' /\ <<t, Main(i[1])>> \in used'
    BY <1>2, <1>3, <2>2, <2>3, ZenonT(40) DEF NotesMatchTable
  <2>6. \A i \in sibling'[t] : i[2] = "ssh" /\ <<t, Main(i[1])>> \in used'
    BY <1>3, <2>2, ZenonT(20) DEF NotesMatchTable
  <2> QED
    BY <2>4, <2>5, <2>6, ZenonT(20)
<1> QED
  BY <1>4, <1>5, <1>6, <1>7, <1>8

\* StartRemoval: what the snapshot holds beyond the noted and the local ids is to go.
LEMMA StartRemovalIInv ==
    ASSUME SyncIInv, NEW s \in Pushes, StartRemoval(s) PROVE SyncIInv'
<1> USE DEF SyncIInv
<1>1. /\ phase[s] = "items" /\ todo[s] = {} /\ sibling[s] = {}
      /\ phase' = [phase EXCEPT ![s] = "removing"] /\ doomed' = [doomed EXCEPT ![s] = ToRemove(s)]
      /\ UNCHANGED <<vars, pushed, todo, newIDs, sibling, order, alone, down, proxies, used>>
  BY DEF StartRemoval, vars
<1>2. \A t \in Pushes : /\ phase'[t] = IF t = s THEN "removing" ELSE phase[t]
                        /\ doomed'[t] = IF t = s THEN ToRemove(s) ELSE doomed[t]
  BY <1>1 DEF SyncVarsOK
<1>3. ToRemove(s) \subseteq Ids /\ \A id \in ToRemove(s) : id \notin newIDs[s] /\ ~IsLocal(id)
  BY DEF ToRemove
<1>4. IInv'
  BY <1>1, RegistryRests
<1>5. SyncVarsOK'
  BY <1>1, <1>3 DEF SyncVarsOK
<1>6. WorkMatchesPhase'
  BY <1>1, <1>2, ZenonT(20) DEF WorkMatchesPhase
<1>7. SparesNotedAndLocal'
  BY <1>1, <1>2, <1>3, ZenonT(20) DEF SparesNotedAndLocal
<1>8. NotesMatchTable'
  <2>1. \A t \in Pushes : phase[t] # "idle" => phase'[t] # "idle"
    BY <1>2, ZenonT(20)
  <2> QED
    BY <1>1, <2>1, ZenonT(20) DEF NotesMatchTable
<1>9. OnlyLatestRuns' /\ LocalAsBooted'
  <2>1. \A t \in Pushes : Running(t)' => Running(t)
    BY <1>1, <1>2 DEF Running
  <2>2. order # <<>> => Latest \in Pushes
    BY SMTT(30) DEF SyncVarsOK, Latest
  <2>3. order # <<>> => phase'[Latest] # "idle"
    BY <1>2, <2>2, ZenonT(20) DEF OnlyLatestRuns
  <2>4. Latest' = Latest
    BY <1>1, Zenon DEF Latest
  <2>5. OnlyLatestRuns'
    BY <1>1, <2>1, <2>3, <2>4, ZenonT(20) DEF OnlyLatestRuns
  <2>6. LocalAsBooted'
    BY <1>1, ZenonT(20) DEF LocalAsBooted
  <2> QED
    BY <2>5, <2>6, Zenon
<1>10. LatestIsApplied'
  <2> SUFFICES ASSUME alone, ~down, order # <<>>, NEW id \in Ids, ~IsLocal(id)
               PROVE  /\ <<Latest, id>> \in used => proxies[id] = <<Latest, id>>
                      /\ id \notin Flaky /\ proxies[id] # None => id \in newIDs[s] \cup doomed'[s]
                      /\ Latest = s
    BY <1>1 DEF LatestIsApplied, Latest
  <2>1. Latest = s
    BY <1>1 DEF OnlyLatestRuns, Running
  <2>2. proxies[id] # None => id \in newIDs[s] \cup doomed'[s]
    BY <1>2, ZenonT(40) DEF ToRemove
  <2> QED
    BY <2>1, <2>2, ZenonT(20) DEF LatestIsApplied
<1> QED
  BY <1>4, <1>5, <1>6, <1>7, <1>8, <1>9, <1>10

\* RemoveItem: the id leaves the table, unless its Close fails, and the loop.
LEMMA RemoveItemIInv ==
    ASSUME SyncIInv, NEW s \in Pushes, NEW id \in Ids, RemoveItem(s, id) PROVE SyncIInv'
<1> USE DEF SyncIInv
<1>1. /\ id \in doomed[s] /\ doomed' = [doomed EXCEPT ![s] = @ \ {id}]
      /\ UNCHANGED <<todo, newIDs, sibling, phase, pushed, order, alone, down, used>>
  BY DEF RemoveItem, InRegistry, Remove, vars
<1>2. IInv'
  BY RemoveIInv, RegistryRests, ZenonT(20) DEF RemoveItem
<1>3. phase[s] = "removing" /\ ~IsLocal(id) /\ id \notin newIDs[s]
  BY <1>1, ZenonT(20) DEF WorkMatchesPhase, SparesNotedAndLocal
<1>4. \A t \in Pushes : doomed'[t] = IF t = s THEN doomed[s] \ {id} ELSE doomed[t]
  BY <1>1 DEF SyncVarsOK
<1>5. /\ \A i \in Ids \ {id} : proxies'[i] = proxies[i]
      /\ id \notin Flaky => proxies'[id] = None
  BY DEF RemoveItem, Remove, vars, IInv, TableInv, TypeOK
<1>6. SyncVarsOK'
  BY <1>1, ZenonT(20) DEF SyncVarsOK
<1>7. WorkMatchesPhase' /\ SparesNotedAndLocal' /\ NotesMatchTable'
  <2>1. WorkMatchesPhase'
    BY <1>1, <1>3, <1>4, ZenonT(20) DEF WorkMatchesPhase
  <2>2. SparesNotedAndLocal'
    <3>1. \A t \in Pushes : doomed'[t] \subseteq doomed[t] /\ newIDs'[t] = newIDs[t] /\ sibling'[t] = sibling[t]
      <4> TAKE t \in Pushes
      <4>1. CASE t = s
        <5>1. doomed'[s] = doomed[s] \ {id}
          BY <1>4, Zenon
        <5>2. doomed'[s] \subseteq doomed[s]
          BY <5>1, Zenon
        <5> QED
          BY <1>1, <4>1, <5>2, Zenon
      <4>2. CASE t # s
        BY <1>1, <1>4, <4>2, ZenonT(20)
      <4> QED
        BY <4>1, <4>2, Zenon
    <3> QED
      BY <3>1, ZenonT(20) DEF SparesNotedAndLocal
  <2>3. NotesMatchTable'
    BY <1>1, ZenonT(20) DEF NotesMatchTable
  <2> QED
    BY <2>1, <2>2, <2>3, Zenon
<1>8. OnlyLatestRuns'
  BY <1>1, ZenonT(20) DEF OnlyLatestRuns, Running, Latest
<1>9. LocalAsBooted'
  <2>1. \A i \in LocalIds : i \in Ids /\ i # id /\ Main(i[1]) \in Ids /\ Main(i[1]) # id
    BY <1>3, LocalsDiffer, ZenonT(20)
  <2> QED
    BY <1>1, <1>5, <2>1, ZenonT(20) DEF LocalAsBooted
<1>10. LatestIsApplied'
  <2> SUFFICES ASSUME alone, ~down, order # <<>>, NEW i \in Ids, ~IsLocal(i)
               PROVE  /\ Latest = s
                      /\ <<s, i>> \in used => proxies'[i] = <<s, i>>
                      /\ i \notin Flaky /\ proxies'[i] # None => i \in newIDs[s] \cup doomed'[s]
    BY <1>1, Zenon DEF LatestIsApplied, Latest
  <2>1. Latest = s
    BY <1>3, ZenonT(20) DEF OnlyLatestRuns, Running
  <2>2. <<s, i>> \in used => i # id
    BY <1>3, ZenonT(20) DEF NotesMatchTable
  <2>3. i # id => (proxies'[i] = proxies[i] /\ (i \in doomed[s] => i \in doomed'[s]))
    BY <1>4, <1>5
  <2> QED
    BY <1>3, <1>5, <2>1, <2>2, <2>3, ZenonT(40) DEF LatestIsApplied
<1> QED
  BY <1>2, <1>6, <1>7, <1>8, <1>9, <1>10, ZenonT(20)

\* Acknowledge: the loop is over.
LEMMA AcknowledgeIInv ==
    ASSUME SyncIInv, NEW s \in Pushes, Acknowledge(s) PROVE SyncIInv'
<1> USE DEF SyncIInv
<1>1. /\ phase[s] = "removing" /\ doomed[s] = {} /\ phase' = [phase EXCEPT ![s] = "done"]
      /\ UNCHANGED <<vars, pushed, todo, newIDs, sibling, doomed, order, alone, down, proxies, used>>
  BY DEF Acknowledge, vars
<1>2. \A t \in Pushes : phase'[t] = IF t = s THEN "done" ELSE phase[t]
  BY <1>1, ZenonT(20) DEF SyncVarsOK
<1>3. IInv'
  BY <1>1, RegistryRests
<1>4. SyncVarsOK'
  BY <1>1, ZenonT(20) DEF SyncVarsOK
<1>5. WorkMatchesPhase' /\ SparesNotedAndLocal' /\ NotesMatchTable'
  <2>1. WorkMatchesPhase'
    BY <1>1, <1>2, ZenonT(20) DEF WorkMatchesPhase
  <2>2. SparesNotedAndLocal'
    BY <1>1, <1>2, ZenonT(20) DEF SparesNotedAndLocal
  <2>3. NotesMatchTable'
    <3>1. \A t \in Pushes : phase[t] # "idle" => phase'[t] # "idle"
      BY <1>2, ZenonT(20)
    <3> QED
      BY <1>1, <3>1, ZenonT(20) DEF NotesMatchTable
  <2> QED
    BY <2>1, <2>2, <2>3, ZenonT(20)
<1>6. order # <<>> => Latest \in Pushes
  BY DEF SyncVarsOK, Latest
<1>7. OnlyLatestRuns' /\ LocalAsBooted'
  <2>1. \A t \in Pushes : Running(t)' => Running(t)
    BY <1>1, <1>2 DEF Running
  <2>2. Latest' = Latest
    BY <1>1 DEF Latest
  <2>3. OnlyLatestRuns'
    <3>1. order # <<>> => phase'[Latest] # "idle"
      BY <1>2, <1>6 DEF OnlyLatestRuns
    <3> QED
      BY <1>1, <2>1, <2>2, <3>1 DEF OnlyLatestRuns
  <2>4. LocalAsBooted'
    BY <1>1, Zenon DEF LocalAsBooted
  <2> QED
    BY <2>3, <2>4
<1>8. LatestIsApplied'
  BY <1>1, <1>2, <1>6, Zenon DEF LatestIsApplied, Latest
<1> QED
  BY <1>3, <1>4, <1>5, <1>7, <1>8

\* PushHangs: the push stays where it is.
LEMMA PushHangsIInv ==
    ASSUME SyncIInv, NEW s \in Pushes, NEW id \in Ids, PushHangs(s, id) PROVE SyncIInv'
<1>1. UNCHANGED syncVars /\ UNCHANGED <<proxies, used>>
  BY Zenon DEF PushHangs, CloseHangs, tables
<1>2. IInv'
  BY CloseHangsIInv, Zenon DEF PushHangs, SyncIInv
<1> QED
  BY <1>1, <1>2, ZenonT(40) DEF syncVars, SyncIInv, SyncVarsOK, WorkMatchesPhase, SparesNotedAndLocal,
     NotesMatchTable, OnlyLatestRuns, LatestIsApplied, LocalAsBooted, Running, Latest

\* Shutdown: CloseAll, and nothing is claimed of the table any more.
LEMMA ShutdownIInv == ASSUME SyncIInv, Shutdown PROVE SyncIInv'
<1> USE DEF SyncIInv
<1>1. /\ down' = TRUE
      /\ UNCHANGED <<pushed, phase, todo, newIDs, sibling, doomed, order, alone, used>>
  BY DEF Shutdown, CloseAll, CloseHangs, tables
<1>2. IInv'
  BY CloseAllIInv, CloseHangsIInv, ZenonT(20) DEF Shutdown
<1>3. SyncVarsOK' /\ WorkMatchesPhase' /\ SparesNotedAndLocal' /\ NotesMatchTable'
  BY <1>1, ZenonT(20) DEF SyncVarsOK, WorkMatchesPhase, SparesNotedAndLocal, NotesMatchTable
<1>4. OnlyLatestRuns' /\ LatestIsApplied' /\ LocalAsBooted'
  BY <1>1 DEF OnlyLatestRuns, LatestIsApplied, LocalAsBooted, Running, Latest
<1> QED
  BY <1>2, <1>3, <1>4

LEMMA SyncNextIInv == SyncIInv /\ [SyncNext]_allVars => SyncIInv'
<1> SUFFICES ASSUME SyncIInv, [SyncNext]_allVars PROVE SyncIInv'
  OBVIOUS
<1>1. ASSUME UNCHANGED allVars PROVE SyncIInv'
  <2>1. UNCHANGED vars /\ UNCHANGED <<proxies, used>> /\ UNCHANGED syncVars
    BY <1>1 DEF allVars, vars
  <2>2. IInv'
    BY <2>1, RegistryRests DEF SyncIInv
  <2> QED
    BY <2>1, <2>2, ZenonT(40) DEF syncVars, SyncIInv, SyncVarsOK, WorkMatchesPhase, SparesNotedAndLocal,
       NotesMatchTable, OnlyLatestRuns, LatestIsApplied, LocalAsBooted, Running, Latest
<1> QED
  BY ZenonT(20), <1>1, ReceiveIInv, SkipItemIInv, RegisterItemIInv, RegisterSiblingIInv, StartRemovalIInv,
     RemoveItemIInv, PushHangsIInv, AcknowledgeIInv, ShutdownIInv DEF SyncNext, Finished

\* The inductive invariant of the registry and of the pushes holds throughout, in
\* particular NoLeak: no proxy is lost, however pushes overlap.
THEOREM SyncInductive == SyncSpec => []SyncIInv
  BY SyncInitIInv, SyncNextIInv, PTL DEF SyncSpec

\* The type invariant of the registry and of the pushes, for every instance.
THEOREM SyncTypeCorrect == SyncSpec => []SyncTypeOK
<1>1. SyncIInv => SyncTypeOK
  BY DEF SyncIInv, IInv, TableInv, SyncVarsOK, SyncTypeOK
<1> QED
  BY <1>1, SyncInductive, PTL

\* When pushes do not overlap, the table holds what the latest one asked for.
THEOREM LatestPushIsApplied == SyncSpec => []AppliesLatestPush
<1>1. SyncIInv => AppliesLatestPush
  <2> SUFFICES ASSUME SyncIInv, Quiet, alone, NEW id \in Ids \ Flaky, ~IsLocal(id) PROVE Applied(id)
    BY DEF AppliesLatestPush
  <2>1. Latest \in Pushes /\ phase[Latest] = "done" /\ doomed[Latest] = {}
    <3>1. Latest \in Pushes
      BY SMTT(30) DEF Quiet, SyncIInv, SyncVarsOK, Latest
    <3> QED
      BY <3>1 DEF Quiet, SyncIInv, SyncVarsOK, WorkMatchesPhase, OnlyLatestRuns, Running
  <2> QED
    BY <2>1 DEF Quiet, SyncIInv, LatestIsApplied, Applied
<1> QED
  BY <1>1, SyncInductive, PTL

\* When pushes do not overlap, an ssh sibling and its discovery datasource come
\* from the same push, or both from the start-up.
THEOREM SiblingsMatch == SyncSpec => []SiblingMatchesParent
<1>1. SyncIInv => SiblingMatchesParent
  <2> SUFFICES ASSUME SyncIInv, Quiet, alone, NEW n \in Names, proxies[Sibling(Main(n))] # None
               PROVE  /\ proxies[Main(n)] # None
                      /\ proxies[Main(n)][1] = proxies[Sibling(Main(n))][1]
    BY DEF SiblingMatchesParent
  <2> DEFINE id == <<n, "ssh">>
  <2>1. /\ id \in Ids /\ id[1] = n /\ id[2] = "ssh" /\ Sibling(Main(n)) = id /\ id \notin Flaky
        /\ Main(n) \in Ids
    BY ConfigSyncAssumption DEF Sibling, Main
  <2>2. CASE n \in Local
    <3>1. id \in LocalIds /\ Main(n) \in LocalIds
      BY <2>1, <2>2 DEF LocalIds, IsLocal, Main
    <3>2. proxies[id] = <<Boot, id>> /\ proxies[Main(n)] # None
      BY <2>1, <3>1 DEF SyncIInv, LocalAsBooted, Quiet
    <3>3. proxies[Main(n)] = <<Boot, Main(n)>>
      BY <3>1, <3>2 DEF SyncIInv, LocalAsBooted, Quiet
    <3> QED
      BY <2>1, <3>2, <3>3
  <2>3. CASE n \notin Local
    <3>1. ~IsLocal(id) /\ ~IsLocal(Main(n))
      BY <2>1, <2>3 DEF IsLocal, Main
    <3>2. Latest \in Pushes /\ phase[Latest] = "done" /\ doomed[Latest] = {}
      <4>1. Latest \in Pushes
        BY DEF Quiet, SyncIInv, SyncVarsOK, Latest
      <4> QED
        BY <4>1 DEF Quiet, SyncIInv, SyncVarsOK, WorkMatchesPhase, OnlyLatestRuns, Running
    <3>3. id \in newIDs[Latest]
      BY <2>1, <3>1, <3>2, Zenon DEF Quiet, SyncIInv, LatestIsApplied
    <3>4. <<Latest, id>> \in used /\ <<Latest, Main(n)>> \in used
      BY <2>1, <3>2, <3>3, ZenonT(20) DEF SyncIInv, NotesMatchTable
    <3>5. proxies[id] = <<Latest, id>> /\ proxies[Main(n)] = <<Latest, Main(n)>>
      BY <2>1, <3>1, <3>4 DEF Quiet, SyncIInv, LatestIsApplied
    <3>6. <<Latest, Main(n)>> # None
      BY <2>1, <3>2, IdFacts
    <3> QED
      BY <2>1, <3>5, <3>6
  <2> QED
    BY <2>2, <2>3, ZenonT(20)
<1> QED
  BY <1>1, SyncInductive, PTL

\* Only the removal loop of a push takes an id out of the table, and it has noted
\* every id the push lists: a datasource that every push lists never disappears.
THEOREM ListedAreKept == SyncSpec => KeptWhenAlwaysListed
<1>1. SyncIInv /\ [SyncNext]_allVars => [KeepsListed]_allVars
  <2> SUFFICES ASSUME SyncIInv, SyncNext, NEW id \in CloudIds \cup LocalIds,
                      proxies[id] # None, proxies'[id] = None, ~down'
               PROVE  ~IsLocal(id) /\ \E s \in Pushes : phase[s] # "idle" /\ id \notin pushed[s]
    BY DEF KeepsListed
  <2>1. id \in Ids
    BY IdFacts, ZenonT(20) DEF LocalIds
  <2>2. PICK s \in Pushes, i \in Ids : RemoveItem(s, i)
    <3>1. proxies' # proxies
      OBVIOUS
    <3>2. ASSUME NEW s \in Pushes, NEW i \in Ids, Register(i, <<s, i>>) PROVE FALSE
      <4>1. proxies'[id] = IF id = i THEN <<s, i>> ELSE proxies[id]
        BY <2>1, <3>2, Zenon DEF Register, SyncIInv, IInv, TableInv, TypeOK
      <4> QED
        BY <4>1, IdFacts
    <3> QED
      BY <3>1, <3>2, IdFacts, ZenonT(40)
         DEF SyncNext, Receive, SkipItem, RegisterItem, RegisterSibling, StartRemoval, PushHangs,
             CloseHangs, tables, Acknowledge, Shutdown, Finished, vars, allVars
  <2>3. i = id
    BY <2>1, <2>2, ZenonT(20) DEF RemoveItem, Remove, vars, SyncIInv, IInv, TableInv, TypeOK
  <2>4. /\ id \in doomed[s] /\ phase[s] = "removing" /\ ~IsLocal(id)
        /\ id \notin newIDs[s] /\ pushed[s] \subseteq newIDs[s]
    BY <2>2, <2>3, Zenon DEF RemoveItem, SyncIInv, WorkMatchesPhase, SparesNotedAndLocal
  <2> QED
    BY <2>4
<1>2. SyncSpec => [][KeepsListed]_allVars
  BY <1>1, SyncInductive, PTL DEF SyncSpec
<1> QED
  BY <1>2 DEF KeptWhenAlwaysListed
=============================================================================
