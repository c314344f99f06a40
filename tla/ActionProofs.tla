----------------------------- MODULE ActionProofs -----------------------------
(***************************************************************************)
(* Proofs about the inventory of the discovery proxy, for every set of     *)
(* targets and every limit, and, with SweepProofs and ExecMapProofs, about *)
(* the four actions of ActionHandlers together.                            *)
(***************************************************************************)
EXTENDS ActionHandlers, SweepProofs, ExecMapProofs

-----------------------------------------------------------------------------
(* The inventory. *)

\* The targets whose goroutine has a token of the semaphore.
Holding == {t \in Targets : pc[t] \in {"check", "dial", "facts", "collect", "hung", "release"}}

TokensAreHeld == sem = Cardinality(Holding)

\* A positive verdict is given to targets of the request that are allowed as they are
\* or had an address inside, a target that is an address was judged by it, and only
\* targets with a positive verdict are contacted.
VerdictsInScope ==
    /\ \A t \in Targets : verdict[t] => t \in batch /\ (AllowedAsIs(t) \/ resolved[t] \cap inNets # {})
    /\ \A t \in Literals : resolved[t] \subseteq HostAddresses[t]
    /\ \A pair \in contacted : verdict[pair[1]] /\ pair[2] \in HostAddresses[pair[1]]
    /\ stage \in {"idle", "refused", "partition"} => contacted = {}

\* Which goroutines there are, and where they can be, in each stage.
GoroutinesMatchStage ==
    /\ stage \in {"idle", "refused"} => batch = {} /\ pc = Blank("none")
    /\ stage = "partition" =>
          \A t \in Targets : IF t \in batch THEN pc[t] \in {"wait", "check", "release", "done"}
                                            ELSE pc[t] = "none"
    /\ stage = "collect" =>
          \A t \in Targets : IF verdict[t]
                             THEN pc[t] \in {"wait", "dial", "facts", "collect", "hung", "release", "done"}
                             ELSE pc[t] = "none"
    /\ stage = "returned" => \A t \in Targets : pc[t] \in {"none", "done"}

\* The results, once the targets out of scope have been set aside: those have
\* theirs, a goroutine that is through has left one, and nobody else has.
ResultsMatchSteps ==
    stage \in {"collect", "returned"} =>
        \A t \in batch :
            /\ ~verdict[t] => status[t] = "error"
            /\ pc[t] \in {"release", "done"} => status[t] # ""
            /\ verdict[t] /\ stage = "returned" => status[t] # ""
            /\ pc[t] \in {"wait", "dial", "facts", "collect", "hung"} => status[t] = ""
            /\ status[t] = "ok" => Left(t) = {}

\* The inductive invariant of the inventory.
InventoryIInv ==
    /\ InventoryTypeOK
    /\ TokensAreHeld
    /\ VerdictsInScope
    /\ GoroutinesMatchStage
    /\ ResultsMatchSteps

\* The tokens are counted from 0 to the size of the semaphore.
LEMMA TokenCount ==
    /\ Concurrency \in Nat \ {0}
    /\ \A n \in 0 .. Concurrency : n \in Nat /\ (n < Concurrency => n + 1 \in 0 .. Concurrency)
    /\ \A n \in 0 .. Concurrency : n > 0 => n - 1 \in 0 .. Concurrency
    /\ 0 \in 0 .. Concurrency
<1>1. Concurrency \in Nat \ {0}
  BY InventoryAssumption
<1> QED
  BY <1>1

LEMMA TokensTyped == ASSUME InventoryTypeOK PROVE sem \in 0 .. Concurrency
BY Zenon DEF InventoryTypeOK

\* A step that leaves scope, verdicts and contacts alone.
LEMMA ScopeStays ==
    ASSUME VerdictsInScope,
           UNCHANGED <<inNets, allowedHosts, batch, verdict, resolved, contacted>>,
           stage' \in {"idle", "refused", "partition"} => stage \in {"idle", "refused", "partition"}
    PROVE  VerdictsInScope'
BY ZenonT(20) DEF VerdictsInScope, AllowedAsIs

LEMMA InventoryInitIInv ==
    ASSUME NEW inside \in SUBSET Int, NEW names \in SUBSET (Targets \ Literals),
           InventoryInit(inside, names)
    PROVE  InventoryIInv
<1> USE DEF InventoryInit, Blank
<1>1. Holding = {} /\ (\A t \in Targets : ~verdict[t]) /\ \A t \in Literals : resolved[t] = {}
  <2>1. \A t \in Literals : t \in Targets
    BY InventoryAssumption, Zenon
  <2> QED
    BY <2>1, Zenon DEF Holding
<1>2. InventoryTypeOK
  <2>1. \A f \in {skipped, collected, failed} : f \in [Targets -> SUBSET Collectors]
    BY Zenon
  <2>2. /\ pc \in [Targets -> Steps] /\ status \in [Targets -> Statuses \cup {""}]
        /\ verdict \in [Targets -> BOOLEAN] /\ resolved \in [Targets -> SUBSET Int]
    BY Zenon DEF Steps
  <2>3. sem \in 0 .. Concurrency
    BY TokenCount, Zenon
  <2> QED
    BY <2>1, <2>2, <2>3, Zenon DEF InventoryTypeOK
<1>3. TokensAreHeld
  BY <1>1, FS_EmptySet, Zenon DEF TokensAreHeld
<1> QED
  BY <1>1, <1>2, <1>3, Zenon DEF InventoryIInv, VerdictsInScope, GoroutinesMatchStage, ResultsMatchSteps

\* A goroutine that takes a token is one more that has one, and one that gives its
\* token back one less; the others keep theirs.
LEMMA HoldingFinite == IsFiniteSet(Holding) /\ Cardinality(Holding) \in Nat
BY InventoryAssumption, FS_Subset, FS_CardinalityType DEF Holding

LEMMA HoldingGrows ==
    ASSUME NEW t \in Targets, t \notin Holding, Holding' = Holding \cup {t}
    PROVE  Cardinality(Holding') = Cardinality(Holding) + 1
BY HoldingFinite, FS_AddElement

LEMMA HoldingShrinks ==
    ASSUME NEW t \in Targets, t \in Holding, Holding' = Holding \ {t}
    PROVE  Cardinality(Holding') = Cardinality(Holding) - 1 /\ Cardinality(Holding) > 0
BY HoldingFinite, FS_RemoveElement, FS_EmptySet, FS_CardinalityType

LEMMA HandleInventoryIInv ==
    ASSUME InventoryIInv, NEW requested \in SUBSET Targets, NEW packAndKeys \in BOOLEAN,
           HandleInventory(requested, packAndKeys)
    PROVE  InventoryIInv'
<1> USE DEF InventoryIInv
<1>1. /\ stage = "idle"
      /\ UNCHANGED <<inNets, allowedHosts, sem, verdict, resolved, status, skipped, collected, failed, expired, contacted,
                     batchCancelled>>
  BY DEF HandleInventory, scopeVars
<1>2. batch = {} /\ \A t \in Targets : pc[t] = "none" /\ ~verdict[t]
  BY <1>1 DEF GoroutinesMatchStage, Blank, VerdictsInScope
<1>3. CASE stage' = "refused" /\ UNCHANGED <<batch, pc>>
  BY Zenon, <1>1, <1>2, <1>3
     DEF InventoryTypeOK, TokensAreHeld, Holding, VerdictsInScope, AllowedAsIs, GoroutinesMatchStage,
         ResultsMatchSteps
<1>4. CASE stage' = "partition" /\ batch' = requested /\ StartAll(requested)
  <2>1. \A t \in Targets : pc'[t] = IF t \in requested THEN "wait" ELSE "none"
    BY <1>4 DEF StartAll
  <2>2. Holding' = {} /\ Holding = {}
    BY <1>2, <2>1 DEF Holding
  <2>3. InventoryTypeOK'
    BY <1>1, <1>4, Zenon DEF InventoryTypeOK, StartAll, Steps
  <2>4. TokensAreHeld' /\ VerdictsInScope'
    <3>1. TokensAreHeld'
      BY <1>1, <2>2, Zenon DEF TokensAreHeld
    <3>2. contacted' = {} /\ \A t \in Targets : ~verdict'[t]
      BY <1>1, <1>2, Zenon DEF VerdictsInScope
    <3> QED
      BY <1>1, <3>1, <3>2, ZenonT(20) DEF VerdictsInScope
  <2>5. GoroutinesMatchStage' /\ ResultsMatchSteps'
    BY <1>4, <2>1, Zenon DEF GoroutinesMatchStage, ResultsMatchSteps
  <2> QED
    BY <2>3, <2>4, <2>5
<1> QED
  BY <1>1, <1>3, <1>4 DEF HandleInventory

LEMMA AcquireIInv == ASSUME InventoryIInv, NEW t \in Targets, Acquire(t) PROVE InventoryIInv'
<1> USE DEF InventoryIInv
<1>1. /\ pc[t] = "wait" /\ sem < Concurrency /\ sem' = sem + 1
      /\ pc' = [pc EXCEPT ![t] = IF stage = "partition" THEN "check" ELSE "dial"]
      /\ UNCHANGED <<inNets, allowedHosts, stage, batch, verdict, resolved, status, skipped, collected, failed, expired,
                     contacted, batchCancelled>>
  BY DEF Acquire, scopeVars
<1>2. \A u \in Targets :
         pc'[u] = IF u = t THEN (IF stage = "partition" THEN "check" ELSE "dial") ELSE pc[u]
  BY <1>1, Zenon DEF InventoryTypeOK
<1>3. stage \in {"partition", "collect"}
  BY <1>1, Zenon DEF GoroutinesMatchStage, InventoryTypeOK, Blank
<1>4. Holding' = Holding \cup {t} /\ t \notin Holding
  BY <1>1, <1>2 DEF Holding
<1>5. TokensAreHeld'
  BY <1>1, <1>4, HoldingGrows DEF TokensAreHeld
<1>6. InventoryTypeOK'
  <2>1. sem' \in 0 .. Concurrency
    BY <1>1, TokenCount, TokensTyped, Zenon
  <2>2. pc' \in [Targets -> Steps]
    BY <1>1, Zenon DEF InventoryTypeOK, Steps
  <2> QED
    BY <1>1, <2>1, <2>2, Zenon DEF InventoryTypeOK
<1>7. VerdictsInScope'
  BY <1>1, ScopeStays, Zenon
<1>8. GoroutinesMatchStage'
  BY <1>1, <1>2, <1>3 DEF GoroutinesMatchStage
<1>9. ResultsMatchSteps'
  <2>1. \A u \in Targets : Left(u)' = Left(u)
    BY <1>1 DEF Left
  <2> QED
    BY <1>1, <1>2, <1>3, <2>1, ZenonT(40) DEF ResultsMatchSteps, InventoryTypeOK
<1> QED
  BY <1>5, <1>6, <1>7, <1>8, <1>9

LEMMA GiveUpIInv == ASSUME InventoryIInv, NEW t \in Targets, GiveUp(t) PROVE InventoryIInv'
<1> USE DEF InventoryIInv
<1>1. /\ pc[t] = "wait" /\ sem' = sem - 0 /\ pc' = [pc EXCEPT ![t] = "done"]
      /\ status' = IF stage = "collect" THEN [status EXCEPT ![t] = "timeout"] ELSE status
      /\ UNCHANGED <<inNets, allowedHosts, stage, batch, verdict, resolved, skipped, collected, failed, expired,
                     contacted, batchCancelled>>
  BY DEF GiveUp, TokensOnCancel, CancelledStatus, scopeVars
<1>2. \A u \in Targets :
         /\ pc'[u] = IF u = t THEN "done" ELSE pc[u]
         /\ status'[u] = IF u = t /\ stage = "collect" THEN "timeout" ELSE status[u]
  BY <1>1, Zenon DEF InventoryTypeOK
<1>3. stage \in {"partition", "collect"}
  BY <1>1, Zenon DEF GoroutinesMatchStage, InventoryTypeOK, Blank
<1>4. Holding' = Holding /\ sem' = sem
  <2>1. sem \in Nat
    BY TokensTyped, TokenCount, Zenon
  <2>2. Holding' = Holding
    BY <1>1, <1>2 DEF Holding
  <2> QED
    BY <1>1, <2>1, <2>2
<1>5. TokensAreHeld' /\ VerdictsInScope'
  BY <1>1, <1>4, ScopeStays, Zenon DEF TokensAreHeld
<1>6. InventoryTypeOK'
  BY <1>1, <1>4, ZenonT(40) DEF InventoryTypeOK, Steps, Statuses
<1>7. GoroutinesMatchStage'
  BY <1>1, <1>2, <1>3 DEF GoroutinesMatchStage
<1>8. ResultsMatchSteps'
  <2>1. \A u \in Targets : Left(u)' = Left(u)
    BY <1>1 DEF Left
  <2>2. stage = "collect" => verdict[t]
    BY <1>1 DEF GoroutinesMatchStage
  <2> QED
    BY <1>1, <1>2, <1>3, <2>1, <2>2, ZenonT(40) DEF ResultsMatchSteps, InventoryTypeOK
<1> QED
  BY <1>5, <1>6, <1>7, <1>8

\* A goroutine that goes on with its token keeps the count.
LEMMA HoldingStays ==
    ASSUME TokensAreHeld, sem' = sem, NEW t \in Targets, t \in Holding,
           \A u \in Targets : u # t => pc'[u] = pc[u],
           pc'[t] \in {"check", "dial", "facts", "collect", "hung", "release"}
    PROVE  TokensAreHeld'
<1>1. Holding' = Holding
  BY DEF Holding
<1> QED
  BY <1>1 DEF TokensAreHeld

LEMMA CheckIInv == ASSUME InventoryIInv, NEW t \in Targets, Check(t) PROVE InventoryIInv'
<1> USE DEF InventoryIInv
<1>1. /\ pc[t] = "check" /\ pc' = [pc EXCEPT ![t] = "release"]
      /\ UNCHANGED <<inNets, allowedHosts, stage, batch, sem, status, skipped, collected, failed, expired,
                     contacted, batchCancelled>>
  BY DEF Check, scopeVars
<1>2. PICK v \in BOOLEAN, found \in SUBSET HostAddresses[t] :
         /\ verdict' = [verdict EXCEPT ![t] = v]
         /\ \/ v /\ AllowedAsIs(t) /\ resolved' = resolved
            \/ (v <=> found \cap inNets # {}) /\ resolved' = [resolved EXCEPT ![t] = found]
  <2>1. CASE AllowedAsIs(t)
    <3>1. verdict' = [verdict EXCEPT ![t] = TRUE] /\ resolved' = resolved
      BY <2>1, Zenon DEF Check
    <3>2. {} \in SUBSET HostAddresses[t]
      BY Zenon
    <3> QED
      BY <2>1, <3>1, <3>2, Zenon
  <2>2. CASE ~AllowedAsIs(t)
    <3>1. PICK found \in Lookups(t) :
             /\ verdict' = [verdict EXCEPT ![t] = found \cap inNets # {}]
             /\ resolved' = [resolved EXCEPT ![t] = found]
      BY <2>2, Zenon DEF Check
    <3>2. found \in SUBSET HostAddresses[t]
      BY Zenon DEF Lookups
    <3>3. (found \cap inNets # {}) \in BOOLEAN
      BY Zenon
    <3> QED
      BY <3>1, <3>2, <3>3, ZenonT(20)
  <2> QED
    BY <2>1, <2>2, Zenon
<1>3. \A u \in Targets : /\ pc'[u] = IF u = t THEN "release" ELSE pc[u]
                         /\ u # t => verdict'[u] = verdict[u] /\ resolved'[u] = resolved[u]
  BY <1>1, <1>2, ZenonT(20) DEF InventoryTypeOK
<1>4. /\ verdict' \in [Targets -> BOOLEAN] /\ resolved' \in [Targets -> SUBSET Int]
      /\ verdict'[t] => AllowedAsIs(t) \/ resolved'[t] \cap inNets # {}
      /\ resolved'[t] \subseteq HostAddresses[t] \/ resolved'[t] = resolved[t]
  <2>1. verdict \in [Targets -> BOOLEAN] /\ resolved \in [Targets -> SUBSET Int]
    BY Zenon DEF InventoryTypeOK
  <2>2. found \in SUBSET Int
    BY InventoryAssumption, Zenon
  <2>3. verdict' \in [Targets -> BOOLEAN] /\ resolved' \in [Targets -> SUBSET Int]
    BY <1>2, <2>1, <2>2, Zenon
  <2>4. /\ verdict'[t] = v
        /\ resolved' = [resolved EXCEPT ![t] = found] => resolved'[t] = found
    BY <1>2, <2>1, Zenon
  <2> QED
    BY <1>2, <2>3, <2>4, ZenonT(20)
<1>5. stage = "partition" /\ t \in batch /\ t \in Holding
  BY <1>1, ZenonT(40) DEF GoroutinesMatchStage, InventoryTypeOK, Blank, Holding
<1>6. TokensAreHeld'
  BY <1>1, <1>3, <1>5, HoldingStays
<1>7. InventoryTypeOK'
  BY <1>1, <1>4, ZenonT(20) DEF InventoryTypeOK, Steps
<1>8. VerdictsInScope'
  <2>1. contacted' = {}
    BY <1>1, <1>5, Zenon DEF VerdictsInScope
  <2>2. \A u \in Targets : AllowedAsIs(u)' <=> AllowedAsIs(u)
    BY <1>1, Zenon DEF AllowedAsIs
  <2>3. ASSUME NEW u \in Targets, verdict'[u]
        PROVE  u \in batch /\ (AllowedAsIs(u) \/ resolved'[u] \cap inNets # {})
    <3>1. CASE u = t
      BY <1>4, <1>5, <2>3, <3>1, Zenon
    <3>2. CASE u # t
      BY <1>3, <2>3, <3>2, ZenonT(20) DEF VerdictsInScope
    <3> QED
      BY <3>1, <3>2
  <2>4. ASSUME NEW u \in Literals PROVE resolved'[u] \subseteq HostAddresses[u]
    <3>1. u \in Targets /\ resolved[u] \subseteq HostAddresses[u]
      BY InventoryAssumption, Zenon DEF VerdictsInScope
    <3> QED
      BY <1>3, <1>4, <3>1, Zenon
  <2> QED
    BY <1>1, <2>1, <2>2, <2>3, <2>4, ZenonT(20) DEF VerdictsInScope
<1>9. GoroutinesMatchStage' /\ ResultsMatchSteps'
  BY <1>1, <1>3, <1>5 DEF GoroutinesMatchStage, ResultsMatchSteps
<1> QED
  BY <1>6, <1>7, <1>8, <1>9

LEMMA SplitIInv == ASSUME InventoryIInv, Split PROVE InventoryIInv'
<1> USE DEF InventoryIInv
<1>1. /\ stage = "partition" /\ stage' = "collect"
      /\ \A t \in batch : pc[t] = "done"
      /\ status' = [t \in Targets |-> IF t \in batch /\ ~verdict[t] THEN "error" ELSE ""]
      /\ pc' = [t \in Targets |-> IF t \in {u \in batch : verdict[u]} THEN "wait" ELSE "none"]
      /\ UNCHANGED <<inNets, allowedHosts, batch, sem, verdict, resolved, skipped, collected, failed, expired, contacted,
                     batchCancelled>>
  BY ZenonT(40) DEF Split, StartAll, scopeVars
<1>2. \A t \in Targets : t \in batch <=> pc[t] # "none"
  BY <1>1, Zenon DEF GoroutinesMatchStage
<1>3. \A t \in Targets : verdict[t] => t \in batch
  BY DEF VerdictsInScope
<1>4. \A t \in Targets : /\ pc'[t] = IF verdict[t] THEN "wait" ELSE "none"
                         /\ status'[t] = IF t \in batch /\ ~verdict[t] THEN "error" ELSE ""
  BY <1>1, <1>3, ZenonT(40)
<1>5. Holding = {} /\ Holding' = {}
  BY <1>1, <1>2, <1>4, ZenonT(40) DEF Holding
<1>6. TokensAreHeld' /\ VerdictsInScope'
  BY <1>1, <1>5, ScopeStays, ZenonT(40) DEF TokensAreHeld
<1>7. InventoryTypeOK'
  <2>1. pc' \in [Targets -> Steps] /\ status' \in [Targets -> Statuses \cup {""}]
    BY <1>1, ZenonT(40) DEF Steps, Statuses
  <2> QED
    BY <1>1, <2>1, ZenonT(40) DEF InventoryTypeOK
<1>8. GoroutinesMatchStage' /\ ResultsMatchSteps'
  BY <1>1, <1>4, ZenonT(40) DEF GoroutinesMatchStage, ResultsMatchSteps, InventoryTypeOK
<1> QED
  BY <1>6, <1>7, <1>8

LEMMA DialIInv == ASSUME InventoryIInv, NEW t \in Targets, Dial(t) PROVE InventoryIInv'
<1> USE DEF InventoryIInv
<1>1. /\ pc[t] = "dial"
      /\ UNCHANGED <<inNets, allowedHosts, stage, batch, sem, verdict, resolved, skipped, collected, failed, expired,
                     batchCancelled>>
  BY DEF Dial, scopeVars
<1>2. PICK tried \in SUBSET HostAddresses[t] :
         /\ contacted' = contacted \cup ({t} \X tried)
         /\ \/ pc' = [pc EXCEPT ![t] = "facts"] /\ status' = status
            \/ pc' = [pc EXCEPT ![t] = "release"] /\ status' = [status EXCEPT ![t] = "unreachable"]
  BY ZenonT(20) DEF Dial, Finish
<1>3. /\ \A u \in Targets : u # t => pc'[u] = pc[u] /\ status'[u] = status[u]
      /\ \/ pc'[t] = "facts" /\ status'[t] = status[t]
         \/ pc'[t] = "release" /\ status'[t] = "unreachable"
  BY <1>2, ZenonT(40) DEF InventoryTypeOK
<1>4. stage = "collect" /\ verdict[t] /\ t \in Holding
  BY <1>1, ZenonT(40) DEF GoroutinesMatchStage, InventoryTypeOK, Blank, Holding
<1>5. TokensAreHeld'
  BY <1>1, <1>3, <1>4, HoldingStays
<1>6. InventoryTypeOK'
  <2>1. pc' \in [Targets -> Steps] /\ status' \in [Targets -> Statuses \cup {""}]
    BY <1>2, ZenonT(40) DEF InventoryTypeOK, Steps, Statuses
  <2>2. tried \subseteq Int /\ contacted \subseteq Targets \X Int
    BY InventoryAssumption, Zenon DEF InventoryTypeOK
  <2>3. contacted' \subseteq Targets \X Int
    BY <1>2, <2>2
  <2> QED
    BY <1>1, <2>1, <2>3, ZenonT(40) DEF InventoryTypeOK
<1>7. VerdictsInScope'
  <2>1. ASSUME NEW pair \in contacted' PROVE verdict[pair[1]] /\ pair[2] \in HostAddresses[pair[1]]
    <3>1. CASE pair \in contacted
      BY <3>1, Zenon DEF VerdictsInScope
    <3>2. CASE pair \in {t} \X tried
      <4>1. pair[1] = t /\ pair[2] \in tried
        BY <3>2
      <4> QED
        BY <1>4, <4>1, Zenon
    <3> QED
      BY <1>2, <3>1, <3>2, Zenon
  <2> QED
    BY <1>1, <1>4, <2>1, ZenonT(20) DEF VerdictsInScope, AllowedAsIs
<1>8. GoroutinesMatchStage'
  BY <1>1, <1>3, <1>4, SMTT(30) DEF GoroutinesMatchStage
<1>9. ResultsMatchSteps'
  <2>1. \A u \in Targets : Left(u)' = Left(u)
    BY <1>1 DEF Left
  <2> QED
    BY <1>1, <1>3, <1>4, <2>1, ZenonT(40) DEF ResultsMatchSteps, InventoryTypeOK
<1> QED
  BY <1>5, <1>6, <1>7, <1>8, <1>9

LEMMA ProbeFactsIInv == ASSUME InventoryIInv, NEW t \in Targets, ProbeFacts(t) PROVE InventoryIInv'
<1> USE DEF InventoryIInv
<1>1. /\ pc[t] = "facts"
      /\ UNCHANGED <<inNets, allowedHosts, stage, batch, sem, verdict, resolved, collected, failed, expired, contacted,
                     batchCancelled>>
  BY DEF ProbeFacts, scopeVars
<1>2. PICK S \in SUBSET Collectors :
         \/ /\ pc' = [pc EXCEPT ![t] = "release"] /\ status' = [status EXCEPT ![t] = "error"]
            /\ skipped' = skipped
         \/ /\ pc' = [pc EXCEPT ![t] = "collect"] /\ status' = status
            /\ skipped' = [skipped EXCEPT ![t] = S]
  BY DEF ProbeFacts, Finish
<1>3. /\ \A u \in Targets :
            u # t => pc'[u] = pc[u] /\ status'[u] = status[u] /\ skipped'[u] = skipped[u]
      /\ \/ pc'[t] = "release" /\ status'[t] = "error"
         \/ pc'[t] = "collect" /\ status'[t] = status[t]
  BY <1>2, ZenonT(40) DEF InventoryTypeOK
<1>4. stage = "collect" /\ verdict[t] /\ t \in Holding
  BY <1>1, ZenonT(40) DEF GoroutinesMatchStage, InventoryTypeOK, Blank, Holding
<1>5. TokensAreHeld'
  BY <1>1, <1>3, <1>4, HoldingStays
<1>6. InventoryTypeOK'
  <2>1. pc' \in [Targets -> Steps] /\ status' \in [Targets -> Statuses \cup {""}]
    BY <1>2, ZenonT(40) DEF InventoryTypeOK, Steps, Statuses
  <2>2. skipped' \in [Targets -> SUBSET Collectors]
    BY <1>2, ZenonT(40) DEF InventoryTypeOK
  <2> QED
    BY <1>1, <2>1, <2>2, ZenonT(40) DEF InventoryTypeOK
<1>7. VerdictsInScope'
  BY <1>1, ScopeStays, Zenon
<1>8. GoroutinesMatchStage'
  BY <1>1, <1>3, <1>4, SMTT(30) DEF GoroutinesMatchStage
<1>9. ResultsMatchSteps'
  <2>1. \A u \in Targets : u # t => Left(u)' = Left(u)
    BY <1>1, <1>3, ZenonT(40) DEF Left
  <2>2. t \in batch => status[t] = ""
    BY <1>1, <1>4, ZenonT(40) DEF ResultsMatchSteps
  <2> QED
    BY <1>1, <1>3, <1>4, <2>1, <2>2, ZenonT(40) DEF ResultsMatchSteps, InventoryTypeOK
<1> QED
  BY <1>5, <1>6, <1>7, <1>8, <1>9

LEMMA RunCollectorIInv ==
    ASSUME InventoryIInv, NEW t \in Targets, RunCollector(t) PROVE InventoryIInv'
<1> USE DEF InventoryIInv
<1>1. /\ pc[t] = "collect"
      /\ UNCHANGED <<inNets, allowedHosts, stage, batch, sem, verdict, resolved, skipped, expired, contacted,
                     batchCancelled>>
  BY DEF RunCollector, scopeVars
<1>2. stage = "collect" /\ verdict[t] /\ t \in Holding /\ t \in batch
  BY <1>1, ZenonT(40) DEF GoroutinesMatchStage, InventoryTypeOK, Blank, Holding, VerdictsInScope
<1>3. status[t] = ""
  BY <1>1, <1>2, ZenonT(40) DEF ResultsMatchSteps
<1>4. VerdictsInScope'
  BY <1>1, ScopeStays, Zenon
<1>5. ASSUME NEW s \in {"ok", "timeout"}, s = "ok" => Left(t) = {},
             Finish(t, s), UNCHANGED <<collected, failed>>
      PROVE  InventoryIInv'
  <2>1. \A u \in Targets : /\ pc'[u] = IF u = t THEN "release" ELSE pc[u]
                           /\ status'[u] = IF u = t THEN s ELSE status[u]
                           /\ Left(u)' = Left(u)
    BY <1>1, <1>5, ZenonT(40) DEF Finish, InventoryTypeOK, Left
  <2>2. TokensAreHeld'
    <3>1. sem' = sem /\ pc'[t] = "release" /\ \A u \in Targets : u # t => pc'[u] = pc[u]
      BY <1>1, <2>1, Zenon
    <3> QED
      BY <1>2, <3>1, HoldingStays, Zenon
  <2>3. InventoryTypeOK'
    BY <1>1, <1>5, ZenonT(40) DEF Finish, InventoryTypeOK, Steps, Statuses
  <2>4. GoroutinesMatchStage'
    BY <1>1, <1>2, <2>1, SMTT(30) DEF GoroutinesMatchStage
  <2>5. ResultsMatchSteps'
    BY <1>1, <1>2, <1>5, <2>1, ZenonT(40) DEF ResultsMatchSteps, InventoryTypeOK
  <2> QED
    BY <1>4, <2>2, <2>3, <2>4, <2>5, SMTT(30)
<1>6. ASSUME Left(t) # {}, UNCHANGED <<pc, status>>,
             \/ collected' = [collected EXCEPT ![t] = @ \cup {Min(Left(t))}] /\ failed' = failed
             \/ failed' = [failed EXCEPT ![t] = @ \cup {Min(Left(t))}] /\ collected' = collected
      PROVE  InventoryIInv'
  <2>1. Min(Left(t)) \in Collectors
    BY <1>6, MinIsLeast, InventoryAssumption, SMTT(30) DEF Left
  <2>2. InventoryTypeOK'
    <3>1. /\ collected \in [Targets -> SUBSET Collectors]
          /\ failed \in [Targets -> SUBSET Collectors]
      BY Zenon DEF InventoryTypeOK
    <3>2. \A m \in Collectors : \A f \in [Targets -> SUBSET Collectors] :
             [f EXCEPT ![t] = @ \cup {m}] \in [Targets -> SUBSET Collectors]
      OBVIOUS
    <3>3. /\ collected' \in [Targets -> SUBSET Collectors]
          /\ failed' \in [Targets -> SUBSET Collectors]
      <4> SUFFICES ASSUME NEW m \in Collectors,
                          \/ collected' = [collected EXCEPT ![t] = @ \cup {m}] /\ failed' = failed
                          \/ failed' = [failed EXCEPT ![t] = @ \cup {m}] /\ collected' = collected
                   PROVE  /\ collected' \in [Targets -> SUBSET Collectors]
                          /\ failed' \in [Targets -> SUBSET Collectors]
        BY <1>6, <2>1, SMTT(30)
      <4> QED
        BY <3>1, <3>2
    <3> QED
      BY <1>1, <1>6, <3>3, ZenonT(40) DEF InventoryTypeOK
  <2>3. TokensAreHeld' /\ GoroutinesMatchStage'
    BY <1>1, <1>6, SMTT(30) DEF TokensAreHeld, Holding, GoroutinesMatchStage
  <2>4. \A u \in Targets : u # t => Left(u)' = Left(u)
    BY <1>1, <1>6, ZenonT(40) DEF Left, InventoryTypeOK
  <2>5. ResultsMatchSteps'
    BY <1>1, <1>2, <1>3, <1>6, <2>4, ZenonT(40) DEF ResultsMatchSteps, InventoryTypeOK
  <2> QED
    BY <1>4, <2>2, <2>3, <2>5
<1> QED
  BY <1>5, <1>6 DEF RunCollector

\* A silent host keeps its goroutine and the token.
LEMMA HostHangsIInv == ASSUME InventoryIInv, NEW t \in Targets, HostHangs(t) PROVE InventoryIInv'
<1> USE DEF InventoryIInv
<1>1. /\ pc[t] \in {"facts", "collect"} /\ pc' = [pc EXCEPT ![t] = "hung"]
      /\ UNCHANGED <<inNets, allowedHosts, stage, batch, sem, verdict, resolved, status, skipped,
                     collected, failed, expired, contacted, batchCancelled>>
  BY ZenonT(20) DEF HostHangs, scopeVars
<1>2. \A u \in Targets : pc'[u] = IF u = t THEN "hung" ELSE pc[u]
  BY <1>1, Zenon DEF InventoryTypeOK
<1>3. stage = "collect" /\ verdict[t] /\ t \in Holding
  BY <1>1, ZenonT(40) DEF GoroutinesMatchStage, InventoryTypeOK, Blank, Holding
<1>4. TokensAreHeld'
  BY <1>1, <1>2, <1>3, HoldingStays
<1>5. InventoryTypeOK'
  BY <1>1, ZenonT(40) DEF InventoryTypeOK, Steps
<1>6. VerdictsInScope'
  BY <1>1, ScopeStays, Zenon
<1>7. GoroutinesMatchStage'
  BY <1>1, <1>2, <1>3, SMTT(30) DEF GoroutinesMatchStage
<1>8. ResultsMatchSteps'
  <2>1. \A u \in Targets : Left(u)' = Left(u)
    BY <1>1 DEF Left
  <2> QED
    BY <1>1, <1>2, <1>3, <2>1, ZenonT(40) DEF ResultsMatchSteps, InventoryTypeOK
<1> QED
  BY <1>4, <1>5, <1>6, <1>7, <1>8

LEMMA ReleaseIInv == ASSUME InventoryIInv, NEW t \in Targets, Release(t) PROVE InventoryIInv'
<1> USE DEF InventoryIInv
<1>1. /\ pc[t] = "release" /\ sem' = sem - 1 /\ pc' = [pc EXCEPT ![t] = "done"]
      /\ UNCHANGED <<inNets, allowedHosts, stage, batch, verdict, resolved, status, skipped, collected, failed, expired,
                     contacted, batchCancelled>>
  BY DEF Release, scopeVars
<1>2. \A u \in Targets : pc'[u] = IF u = t THEN "done" ELSE pc[u]
  BY <1>1, Zenon DEF InventoryTypeOK
<1>3. Holding' = Holding \ {t} /\ t \in Holding
  BY <1>1, <1>2 DEF Holding
<1>4. TokensAreHeld' /\ sem > 0
  BY <1>1, <1>3, HoldingShrinks, SMTT(30) DEF TokensAreHeld
<1>5. InventoryTypeOK'
  <2>1. sem' \in 0 .. Concurrency
    BY <1>1, <1>4, TokenCount, TokensTyped, Zenon
  <2>2. pc' \in [Targets -> Steps]
    BY <1>1, ZenonT(40) DEF InventoryTypeOK, Steps
  <2> QED
    BY <1>1, <2>1, <2>2, Zenon DEF InventoryTypeOK
<1>6. VerdictsInScope'
  BY <1>1, ScopeStays, Zenon
<1>7. GoroutinesMatchStage'
  BY <1>1, <1>2 DEF GoroutinesMatchStage, Blank
<1>8. ResultsMatchSteps'
  <2>1. \A u \in Targets : Left(u)' = Left(u)
    BY <1>1 DEF Left
  <2> QED
    BY <1>1, <1>2, <2>1, ZenonT(40) DEF ResultsMatchSteps, InventoryTypeOK
<1> QED
  BY <1>4, <1>5, <1>6, <1>7, <1>8

LEMMA ReturnInventoryIInv == ASSUME InventoryIInv, ReturnInventory PROVE InventoryIInv'
<1> USE DEF InventoryIInv
<1>1. /\ stage = "collect" /\ stage' = "returned"
      /\ \A t \in Targets : pc[t] \in {"none", "done"}
      /\ UNCHANGED <<inNets, allowedHosts, batch, pc, sem, verdict, resolved, status, skipped, collected, failed, expired,
                     contacted, batchCancelled>>
  BY DEF ReturnInventory, scopeVars
<1>2. InventoryTypeOK' /\ TokensAreHeld' /\ VerdictsInScope' /\ GoroutinesMatchStage'
  BY <1>1, ScopeStays, ZenonT(40) DEF InventoryTypeOK, TokensAreHeld, Holding, GoroutinesMatchStage
<1>3. ResultsMatchSteps'
  <2>1. \A u \in Targets : Left(u)' = Left(u)
    BY <1>1, ZenonT(40) DEF Left
  <2>2. \A t \in batch : verdict[t] => pc[t] = "done"
    BY <1>1, Zenon DEF GoroutinesMatchStage, InventoryTypeOK
  <2> QED
    BY <1>1, <2>1, <2>2, ZenonT(40) DEF ResultsMatchSteps, InventoryTypeOK
<1> QED
  BY <1>2, <1>3

\* A timeout and a cancellation change nothing the invariant speaks of.
LEMMA ContextEndsIInv ==
    ASSUME InventoryIInv, CancelBatch \/ \E t \in Targets : Expire(t)
    PROVE  InventoryIInv'
<1> USE DEF InventoryIInv
<1>1. /\ UNCHANGED <<inNets, allowedHosts, stage, batch, pc, sem, verdict, resolved, status, skipped, collected, failed,
                     contacted>>
      /\ expired' \subseteq Targets /\ batchCancelled' \in BOOLEAN
  BY ZenonT(40) DEF CancelBatch, Expire, scopeVars, InventoryTypeOK
<1>2. InventoryTypeOK' /\ TokensAreHeld' /\ VerdictsInScope' /\ GoroutinesMatchStage'
  BY <1>1, ScopeStays, ZenonT(40) DEF InventoryTypeOK, TokensAreHeld, Holding, GoroutinesMatchStage
<1>3. ResultsMatchSteps'
  BY <1>1, Zenon DEF ResultsMatchSteps, Left
<1> QED
  BY <1>2, <1>3

LEMMA InventoryAnsweredIInv == ASSUME InventoryIInv, InventoryAnswered PROVE InventoryIInv'
<1>1. PICK inside \in SUBSET Int, names \in SUBSET (Targets \ Literals) :
         inside = inNets /\ names = allowedHosts
  BY Zenon DEF InventoryIInv, InventoryTypeOK
<1>2. InventoryInit(inside, names)'
  BY <1>1, Zenon DEF InventoryAnswered, InventoryInit, Blank, scopeVars
<1> QED
  BY <1>2, InventoryInitIInv, PTL

LEMMA InventoryNextIInv ==
    ASSUME InventoryIInv, [InventoryNext]_inventoryVars PROVE InventoryIInv'
<1>1. CASE UNCHANGED inventoryVars
  BY <1>1, ScopeStays, ZenonT(40) DEF inventoryVars, scopeVars, InventoryIInv, InventoryTypeOK,
              TokensAreHeld, Holding, GoroutinesMatchStage, ResultsMatchSteps, Left, Blank
<1>2. CASE InventoryNext
  BY SMTT(30), <1>2, HandleInventoryIInv, AcquireIInv, GiveUpIInv, CheckIInv, SplitIInv, DialIInv,
     ProbeFactsIInv, RunCollectorIInv, HostHangsIInv, ReleaseIInv, ReturnInventoryIInv, ContextEndsIInv,
     InventoryAnsweredIInv
     DEF InventoryNext, InventoryStep
<1> QED
  BY <1>1, <1>2, SMTT(30)

\* What a goroutine at p that has n collectors left can still do in the present
\* fan-out.
StepsFrom(p, n) ==
    CASE p \in {"none", "hung", "done"} -> 0
      [] p = "release" -> 1
      [] p = "check" -> 2
      [] p = "collect" -> 2 + n
      [] p = "facts" -> 3 + Cardinality(Collectors)
      [] p = "dial" -> 4 + Cardinality(Collectors)
      [] p = "wait" -> 5 + Cardinality(Collectors)

InventoryAhead == [t \in Targets |-> StepsFrom(pc[t], Cardinality(Left(t)))]

\* A goroutine that works can go on, and when all the others wait there is a token
\* to be had, unless silent hosts have them all.
InventoryGoesOn ==
    stage \in {"partition", "collect"} =>
        \/ \E t \in Targets :
              \/ pc[t] = "wait" /\ (sem < Concurrency \/ batchCancelled)
              \/ pc[t] \in {"check", "dial", "facts", "collect", "release"}
        \/ \A t \in Targets : pc[t] \in {"none", "done"}
        \/ InventoryHeld

\* What a step of a running inventory does: it goes on to the next stage, leaves
\* less to do, or ends a context, which can happen once to each.
InventoryGetsNearer ==
    stage \in {"partition", "collect"} =>
        \/ stage = "partition" /\ stage' = "collect"
        \/ stage = "collect" /\ stage' = "returned"
        \/ /\ stage' = stage
           /\ \/ Fewer(InventoryAhead', InventoryAhead)
              \/ /\ UNCHANGED InventoryAhead
                 /\ \/ ~batchCancelled /\ batchCancelled' /\ expired' = expired
                    \/ \E t \in Targets \ expired : expired' = expired \cup {t} /\ UNCHANGED batchCancelled

LEMMA InventoryGoesOnAlways == ASSUME InventoryIInv PROVE InventoryGoesOn
<1> DEFINE silent == {t \in Targets : pc[t] = "hung"}
<1> SUFFICES ASSUME NEW t \in Targets, pc[t] \notin {"none", "done"},
                    \A u \in Targets : pc[u] \notin {"check", "dial", "facts", "collect", "release"},
                    \A u \in Targets : ~(pc[u] = "wait" /\ (sem < Concurrency \/ batchCancelled))
             PROVE  InventoryHeld
  BY Zenon DEF InventoryGoesOn
<1>1. \A u \in Targets : pc[u] \in {"none", "wait", "hung", "done"}
  <2>1. \A u \in Targets : pc[u] \in Steps
    BY Zenon DEF InventoryIInv, InventoryTypeOK
  <2> QED
    BY <2>1, Zenon DEF Steps
<1>2. Holding = silent
  BY <1>1, Zenon DEF Holding
<1>3. sem = Cardinality(silent) /\ sem \in 0 .. Concurrency
  BY <1>2, TokensTyped, Zenon DEF InventoryIInv, TokensAreHeld
<1>4. ASSUME NEW u \in Targets, pc[u] = "wait"
      PROVE  ~batchCancelled /\ Cardinality(silent) = Concurrency
  <2>1. ~batchCancelled /\ ~(sem < Concurrency)
    BY <1>4, Zenon
  <2>2. sem = Concurrency
    BY <1>3, <2>1, TokenCount
  <2> QED
    BY <1>3, <2>1, <2>2, Zenon
<1>5. silent # {}
  <2> SUFFICES ASSUME silent = {} PROVE FALSE
    OBVIOUS
  <2>1. pc[t] = "wait"
    BY <1>1, Zenon
  <2>2. Cardinality(silent) = 0
    BY FS_EmptySet
  <2> QED
    BY <1>4, <2>1, <2>2, TokenCount
<1> HIDE DEF silent
<1>6. \A u \in Targets \ silent : \/ pc[u] \in {"none", "done"}
                                  \/ pc[u] = "wait" /\ ~batchCancelled /\ Cardinality(silent) = Concurrency
  BY <1>1, <1>4, Zenon DEF silent
<1> QED
  BY <1>5, <1>6, Zenon DEF InventoryHeld, silent

\* What there is before it at each point.
LEMMA StepsFromPoint ==
    ASSUME NEW p \in Steps, NEW n \in 0 .. Cardinality(Collectors)
    PROVE  LET all == Cardinality(Collectors)
           IN  /\ all \in Nat
               /\ StepsFrom(p, n) \in Nat
               /\ p = "wait" => StepsFrom(p, n) = 5 + all
               /\ p = "dial" => StepsFrom(p, n) = 4 + all
               /\ p = "facts" => StepsFrom(p, n) = 3 + all
               /\ p = "collect" => StepsFrom(p, n) = 2 + n
               /\ p = "check" => StepsFrom(p, n) = 2
               /\ p = "release" => StepsFrom(p, n) = 1
               /\ p \in {"none", "hung", "done"} => StepsFrom(p, n) = 0
<1>1. Cardinality(Collectors) \in Nat
  BY InventoryAssumption, FS_CardinalityType
<1> QED
  BY <1>1 DEF StepsFrom, Steps

LEMMA CollectorCount ==
    ASSUME NEW S \in SUBSET Collectors
    PROVE  Cardinality(S) \in 0 .. Cardinality(Collectors) /\ IsFiniteSet(S)
<1>1. IsFiniteSet(Collectors) /\ Cardinality(Collectors) \in Nat
  BY InventoryAssumption, FS_CardinalityType
<1>2. IsFiniteSet(S) /\ Cardinality(S) <= Cardinality(Collectors)
  BY <1>1, FS_Subset
<1>3. Cardinality(S) \in Nat
  BY <1>2, FS_CardinalityType
<1> QED
  BY <1>1, <1>2, <1>3

\* A step of one goroutine from p to q.
LEMMA OneTargetNearer ==
    ASSUME pc \in [Targets -> Steps], NEW t \in Targets, NEW q \in Steps, pc' = [pc EXCEPT ![t] = q],
           \A u \in Targets \ {t} : Left(u)' = Left(u),
           StepsFrom(q, Cardinality(Left(t)')) < StepsFrom(pc[t], Cardinality(Left(t)))
    PROVE  Fewer(InventoryAhead', InventoryAhead)
<1> DEFINE before == InventoryAhead
           after == InventoryAhead'
<1>1. DOMAIN before = Targets
  BY DEF InventoryAhead
<1>2. ASSUME NEW u \in Targets
      PROVE  before[u] \in Nat /\ after[u] \in Nat /\ (u # t => after[u] = before[u])
  <2>1. pc[u] \in Steps /\ pc'[u] \in Steps /\ (u # t => pc'[u] = pc[u])
    OBVIOUS
  <2>2. Left(u) \in SUBSET Collectors /\ Left(u)' \in SUBSET Collectors
    BY DEF Left
  <2>3. before[u] = StepsFrom(pc[u], Cardinality(Left(u)))
    BY DEF InventoryAhead
  <2>4. after[u] = StepsFrom(pc'[u], Cardinality(Left(u)'))
    BY DEF InventoryAhead
  <2>5. Cardinality(Left(u)) \in 0 .. Cardinality(Collectors)
    BY <2>2, CollectorCount
  <2>6. Cardinality(Left(u)') \in 0 .. Cardinality(Collectors)
    BY <2>2, CollectorCount
  <2>7. before[u] \in Nat /\ after[u] \in Nat
    BY <2>1, <2>3, <2>4, <2>5, <2>6, StepsFromPoint
  <2> QED
    BY <2>1, <2>3, <2>4, <2>7
<1>3. after[t] < before[t]
  BY DEF InventoryAhead
<1> HIDE DEF before, after
<1>4. \A u \in Targets : after[u] <= before[u]
  BY <1>2, <1>3
<1>5. Fewer(after, before)
  BY <1>1, <1>3, <1>4, Zenon DEF Fewer
<1> QED
  BY <1>5 DEF before, after

\* The steps that take a goroutine to its next point.
LEMMA NextPointNearer ==
    ASSUME InventoryIInv, NEW t \in Targets,
           Acquire(t) \/ GiveUp(t) \/ Check(t) \/ Dial(t) \/ HostHangs(t) \/ Release(t)
    PROVE  Fewer(InventoryAhead', InventoryAhead)
<1>1. pc \in [Targets -> Steps]
  BY DEF InventoryIInv, InventoryTypeOK
<1>2. UNCHANGED <<skipped, collected, failed>>
  BY Zenon DEF Acquire, GiveUp, Check, Dial, HostHangs, Release
<1>3. \A u \in Targets : Left(u)' = Left(u)
  BY <1>2 DEF Left
<1>4. PICK n \in 0 .. Cardinality(Collectors) : n = Cardinality(Left(t))
  BY CollectorCount DEF Left
<1>5. PICK q \in Steps :
         /\ pc' = [pc EXCEPT ![t] = q]
         /\ \/ pc[t] = "wait" /\ q \in {"check", "dial", "done"}
            \/ pc[t] = "check" /\ q = "release"
            \/ pc[t] = "dial" /\ q \in {"facts", "release"}
            \/ pc[t] \in {"facts", "collect"} /\ q = "hung"
            \/ pc[t] = "release" /\ q = "done"
  BY Zenon DEF Acquire, GiveUp, Check, Dial, HostHangs, Release, Finish, Steps
<1>6. pc[t] \in Steps
  BY <1>1
<1>7. StepsFrom(q, n) < StepsFrom(pc[t], n)
  BY <1>4, <1>5, <1>6, StepsFromPoint
<1> QED
  BY <1>1, <1>3, <1>4, <1>5, <1>7, OneTargetNearer, ZenonT(30)

LEMMA ProbeFactsNearer ==
    ASSUME InventoryIInv, NEW t \in Targets, ProbeFacts(t)
    PROVE  Fewer(InventoryAhead', InventoryAhead)
<1>1. pc \in [Targets -> Steps] /\ pc[t] = "facts" /\ skipped \in [Targets -> SUBSET Collectors]
  BY DEF InventoryIInv, InventoryTypeOK, ProbeFacts
<1>2. PICK q \in {"release", "collect"} : pc' = [pc EXCEPT ![t] = q]
  BY Zenon DEF ProbeFacts, Finish
<1>3. UNCHANGED <<collected, failed>> /\ \A u \in Targets \ {t} : skipped'[u] = skipped[u]
  BY <1>1 DEF ProbeFacts
<1>4. \A u \in Targets \ {t} : Left(u)' = Left(u)
  BY <1>3 DEF Left
<1>5. Left(t) \in SUBSET Collectors /\ Left(t)' \in SUBSET Collectors
  BY DEF Left
<1>6. PICK n \in 0 .. Cardinality(Collectors) : n = Cardinality(Left(t))
  BY <1>5, CollectorCount
<1>7. PICK m \in 0 .. Cardinality(Collectors) : m = Cardinality(Left(t)')
  BY <1>5, CollectorCount
<1>8. q \in Steps /\ pc[t] \in Steps
  BY <1>1 DEF Steps
<1>9. StepsFrom(q, m) < StepsFrom(pc[t], n)
  BY <1>1, <1>2, <1>8, StepsFromPoint
<1> QED
  BY <1>1, <1>2, <1>4, <1>6, <1>7, <1>8, <1>9, OneTargetNearer, ZenonT(30)

LEMMA RunCollectorNearer ==
    ASSUME InventoryIInv, NEW t \in Targets, RunCollector(t)
    PROVE  Fewer(InventoryAhead', InventoryAhead)
<1>1. /\ pc \in [Targets -> Steps] /\ pc[t] = "collect" /\ UNCHANGED skipped
      /\ collected \in [Targets -> SUBSET Collectors] /\ failed \in [Targets -> SUBSET Collectors]
  BY DEF InventoryIInv, InventoryTypeOK, RunCollector
<1>2. Left(t) \in SUBSET Collectors
  BY DEF Left
<1>3. PICK n \in 0 .. Cardinality(Collectors) : n = Cardinality(Left(t))
  BY <1>2, CollectorCount
<1>4. CASE UNCHANGED <<collected, failed>> /\ pc' = [pc EXCEPT ![t] = "release"]
  <2>1. \A u \in Targets : Left(u)' = Left(u)
    BY <1>1, <1>4 DEF Left
  <2>2. "release" \in Steps /\ pc[t] \in Steps
    BY <1>1 DEF Steps
  <2>3. StepsFrom("release", n) < StepsFrom(pc[t], n)
    BY <1>1, <2>2, StepsFromPoint
  <2> QED
    BY <1>1, <1>3, <1>4, <2>1, <2>2, <2>3, OneTargetNearer, ZenonT(30)
<1>5. CASE /\ Left(t) # {} /\ UNCHANGED pc
           /\ \/ collected' = [collected EXCEPT ![t] = @ \cup {Min(Left(t))}] /\ UNCHANGED failed
              \/ failed' = [failed EXCEPT ![t] = @ \cup {Min(Left(t))}] /\ UNCHANGED collected
  <2>1. PICK c : c = Min(Left(t))
    OBVIOUS
  <2>2. c \in Left(t)
    BY <1>2, <1>5, <2>1, MinIsLeast, InventoryAssumption, ZenonT(20)
  <2>3. \A u \in Targets : Left(u)' = IF u = t THEN Left(t) \ {c} ELSE Left(u)
    BY <1>1, <1>5, <2>1 DEF Left
  <2>4. IsFiniteSet(Left(t))
    BY <1>2, CollectorCount
  <2>5. Cardinality(Left(t)') = n - 1
    BY <1>3, <2>2, <2>3, <2>4, FS_RemoveElement
  <2>6. n - 1 \in 0 .. Cardinality(Collectors)
    BY <2>3, <2>5, <1>2, CollectorCount
  <2>7. pc' = [pc EXCEPT ![t] = "collect"] /\ "collect" \in Steps /\ pc[t] \in Steps
    BY <1>1, <1>5 DEF Steps
  <2>8. StepsFrom("collect", n - 1) < StepsFrom(pc[t], n)
    BY <1>1, <2>6, <2>7, StepsFromPoint
  <2> QED
    BY <1>1, <1>3, <2>3, <2>5, <2>7, <2>8, OneTargetNearer, ZenonT(30)
<1> QED
  BY <1>4, <1>5, Zenon DEF RunCollector, Finish

LEMMA InventoryNearer ==
    ASSUME InventoryIInv, [InventoryNext]_inventoryVars PROVE [InventoryGetsNearer]_inventoryVars
<1> SUFFICES ASSUME InventoryNext, stage \in {"partition", "collect"}
             PROVE  InventoryGetsNearer
  BY Zenon DEF InventoryGetsNearer
<1>1. ASSUME NEW t \in Targets,
             \/ Acquire(t) \/ GiveUp(t) \/ Check(t) \/ Dial(t) \/ HostHangs(t) \/ Release(t)
             \/ ProbeFacts(t) \/ RunCollector(t)
      PROVE  InventoryGetsNearer
  <2>1. Fewer(InventoryAhead', InventoryAhead)
    BY <1>1, NextPointNearer, ProbeFactsNearer, RunCollectorNearer
  <2>2. stage' = stage
    BY <1>1, Zenon DEF Acquire, GiveUp, Check, Dial, HostHangs, Release, ProbeFacts, RunCollector
  <2> QED
    BY <2>1, <2>2, Zenon DEF InventoryGetsNearer
<1>2. CASE Split \/ ReturnInventory
  BY <1>2, Zenon DEF Split, ReturnInventory, InventoryGetsNearer
<1>3. CASE CancelBatch \/ \E t \in Targets : Expire(t)
  <2>1. InventoryAhead' = InventoryAhead
    BY <1>3, Zenon DEF CancelBatch, Expire, InventoryAhead, Left
  <2> QED
    BY <1>3, <2>1, Zenon DEF CancelBatch, Expire, InventoryGetsNearer
<1> QED
  BY <1>1, <1>2, <1>3, Zenon DEF InventoryNext, InventoryStep, HandleInventory, InventoryAnswered
-----------------------------------------------------------------------------
(* The cloud identities. *)

\* The steps of the stage: it is entered, its goroutines work, and it is left.
IdentityMoves ==
    \/ \E n \in Nat, cancelled \in BOOLEAN : EnrichCloudIdentity(n, cancelled)
    \/ IdentityNext
    \/ identityStage = "done" /\ IdentityReset

\* A goroutine that works can go on, and one that waits gets a token or notices the
\* end of the context, unless silent hosts have all the tokens.
IdentityGoesOn ==
    identityStage = "asking" =>
        \/ waiting > 0 /\ (asking + silenced < IdentitySlots \/ identityCancelled)
        \/ asking > 0
        \/ waiting = 0 /\ asking = 0 /\ silenced = 0
        \/ IdentityHeld

\* What a step of the stage does: it returns, leaves less to do or ends the context.
IdentityGetsNearer ==
    identityStage = "asking" =>
        \/ identityStage' = "done"
        \/ identityStage' = "asking" /\ 2 * waiting' + asking' < 2 * waiting + asking
        \/ ~identityCancelled /\ identityCancelled' /\ UNCHANGED <<identityStage, waiting, asking>>

LEMMA IdentityTyped ==
    ASSUME IdentityTypeOK, [IdentityMoves]_identityVars PROVE IdentityTypeOK'
<1> USE IdentityAssumption DEF IdentityTypeOK
<1>1. ASSUME NEW n \in Nat, NEW cancelled \in BOOLEAN, EnrichCloudIdentity(n, cancelled)
      PROVE  IdentityTypeOK'
  BY <1>1 DEF EnrichCloudIdentity
<1>2. CASE AskHost
  BY <1>2 DEF AskHost
<1>3. CASE SkipHost
  BY <1>3 DEF SkipHost
<1>4. CASE HostAsked
  BY <1>4 DEF HostAsked
<1>5. CASE HostSilent
  BY <1>5 DEF HostSilent
<1>6. CASE IdentityReturns \/ IdentityCancel \/ IdentityReset
  BY <1>6 DEF IdentityReturns, IdentityCancel, IdentityReset
<1>7. CASE UNCHANGED identityVars
  BY <1>7 DEF identityVars
<1> QED
  BY <1>1, <1>2, <1>3, <1>4, <1>5, <1>6, <1>7, Zenon DEF IdentityMoves, IdentityNext, IdentityStep

LEMMA IdentityGoesOnAlways == ASSUME IdentityTypeOK PROVE IdentityGoesOn
<1>1. waiting \in Nat /\ asking \in Nat /\ silenced \in Nat /\ asking + silenced <= IdentitySlots
  BY Zenon DEF IdentityTypeOK
<1> SUFFICES ASSUME asking = 0, waiting > 0 => ~(asking + silenced < IdentitySlots) /\ ~identityCancelled,
                    ~(waiting = 0 /\ silenced = 0)
             PROVE  silenced > 0 /\ (waiting > 0 => silenced = IdentitySlots)
  BY <1>1 DEF IdentityGoesOn, IdentityHeld
<1> QED
  BY <1>1, IdentityAssumption

LEMMA IdentityNearer ==
    ASSUME IdentityTypeOK, [IdentityMoves]_identityVars PROVE [IdentityGetsNearer]_identityVars
<1> SUFFICES ASSUME IdentityMoves, identityStage = "asking" PROVE IdentityGetsNearer
  BY Zenon DEF IdentityGetsNearer
<1>1. waiting \in Nat /\ asking \in Nat
  BY Zenon DEF IdentityTypeOK
<1>2. CASE AskHost
  BY <1>1, <1>2 DEF AskHost, IdentityGetsNearer
<1>3. CASE SkipHost
  BY <1>1, <1>3 DEF SkipHost, IdentityGetsNearer
<1>4. CASE HostAsked \/ HostSilent
  BY <1>1, <1>4 DEF HostAsked, HostSilent, IdentityGetsNearer
<1>5. CASE IdentityReturns \/ IdentityCancel
  BY <1>5, Zenon DEF IdentityReturns, IdentityCancel, IdentityGetsNearer
<1> QED
  BY <1>2, <1>3, <1>4, <1>5, Zenon DEF IdentityMoves, IdentityNext, IdentityStep, EnrichCloudIdentity
-----------------------------------------------------------------------------
(* The actions. *)

\* The inventory judges targets by the networks the sweep is confined to.
ScopesAgree == inNets = Inside(allowedNets)

ActionIInv == SweepIInv /\ IdentityTypeOK /\ InventoryIInv /\ ExecIInv /\ MapIInv /\ ScopesAgree

LEMMA ActionInitIInv == ActionInit => ActionIInv
<1> SUFFICES ASSUME ActionInit PROVE ActionIInv
  OBVIOUS
<1>1. PICK nets \in SUBSET Prefix, names \in SUBSET (Targets \ Literals) :
         SweepInit(nets) /\ IdentityInit /\ InventoryInit(Inside(nets), names)
  <2> DEFINE empty == [nets |-> {}, names |-> {}]
             scopes == [nets : SUBSET Prefix, names : SUBSET (Targets \ Literals)]
  <2>1. empty \in scopes
    OBVIOUS
  <2>2. PICK scope \in scopes : /\ SweepInit(scope.nets) /\ IdentityInit
                                /\ InventoryInit(Inside(scope.nets), scope.names)
    <3>1. DiscoveryInit(Scopes) \/ DiscoveryInit({empty})
      BY Zenon DEF ActionInit
    <3> HIDE DEF empty, scopes
    <3>2. Scopes \subseteq scopes
      BY DiscoveryAssumption, Zenon DEF scopes
    <3> QED
      BY <2>1, <3>1, <3>2, Zenon DEF DiscoveryInit
  <2>3. scope.nets \in SUBSET Prefix /\ scope.names \in SUBSET (Targets \ Literals)
    OBVIOUS
  <2> QED
    BY <2>2, <2>3, Zenon
<1>2. PICK callers \in SUBSET (Runners \cup {"none"}) : ExecInit(callers)
  BY DEF ActionInit
<1>3. SweepIInv
  <2>1. allowedNets = nets
    BY <1>1, Zenon DEF SweepInit
  <2>2. SweepAtRest
    BY <1>1, <2>1, Zenon DEF SweepAtRest
  <2> QED
    BY <2>2, SweepInitIInv, Zenon
<1>4. IdentityTypeOK
  <2>1. 0 \in Nat /\ 0 + 0 <= IdentitySlots
    BY IdentityAssumption
  <2> QED
    BY <1>1, <2>1, Zenon DEF IdentityInit, IdentityTypeOK
<1>5. InventoryIInv /\ ScopesAgree
  <2>1. Address \subseteq Int
    BY DEF Address
  <2>2. Inside(nets) \in SUBSET Int
    BY <2>1, Zenon DEF Inside
  <2>3. InventoryIInv
    BY <1>1, <2>2, InventoryInitIInv, Zenon
  <2>4. inNets = Inside(nets) /\ allowedNets = nets
    BY <1>1, Zenon DEF InventoryInit, SweepInit
  <2> QED
    BY <2>3, <2>4, Zenon DEF ScopesAgree
<1>6. ExecIInv
  BY <1>2, ExecInitIInv
<1>7. MapIInv
  BY MapInitIInv DEF ActionInit
<1> QED
  BY <1>3, <1>4, <1>5, <1>6, <1>7 DEF ActionIInv

\* A sweep has found finitely many hosts, so enrichCloudIdentity starts a number of
\* goroutines.
LEMMA AskedIsNumber ==
    ASSUME SweepIInv, NEW credentials \in BOOLEAN
    PROVE  Asked(credentials) \in Nat /\ sweepCancelled \in BOOLEAN
<1>1. DOMAIN hosts \subseteq Address /\ sweepCancelled \in BOOLEAN
  BY Zenon DEF SweepIInv, SweepTypeOK
<1>2. IsFiniteSet(Address)
  <2>1. 0 \in Int /\ Pow2[Width] - 1 \in Int
    BY Pow2Def, SweepAssumption
  <2> QED
    BY <2>1, FS_Interval, Zenon DEF Address
<1>3. {a \in DOMAIN hosts : SshPort \in hosts[a]} \subseteq Address
  BY <1>1, Zenon
<1>4. Cardinality({a \in DOMAIN hosts : SshPort \in hosts[a]}) \in Nat
  BY <1>2, <1>3, FS_Subset, FS_CardinalityType, Zenon
<1> QED
  BY <1>1, <1>4 DEF Asked

\* A step of the whole is a step of one part, or of the sweep and its last stage at
\* once; the others rest.
LEMMA ActionStepParts ==
    ASSUME SweepIInv, [ActionNext]_actionVars
    PROVE  /\ [SweepNext]_sweepVars /\ [IdentityMoves]_identityVars /\ [InventoryNext]_inventoryVars
           /\ [ExecNext]_execVars /\ [MapNext]_mapVars
<1>1. /\ [HandleRequest]_discoveryVars /\ [ExecNext]_execVars /\ [MapNext]_mapVars
  BY Zenon DEF ActionNext, actionVars
<1>2. CASE UNCHANGED discoveryVars
  BY <1>1, <1>2, Zenon DEF discoveryVars
<1>3. CASE FinishSweep /\ UNCHANGED inventoryVars
  <2>1. ASSUME NEW credentials \in BOOLEAN, EnrichCloudIdentity(Asked(credentials), sweepCancelled)
        PROVE  IdentityMoves
    BY <2>1, AskedIsNumber, Zenon DEF IdentityMoves
  <2>2. [SweepNext]_sweepVars /\ IdentityMoves
    BY <1>3, <2>1, Zenon DEF FinishSweep, SweepNext, IdentityMoves
  <2> QED
    BY <1>1, <1>3, <2>2, Zenon
<1>4. CASE \/ SweepNext /\ UNCHANGED <<identityVars, inventoryVars>>
           \/ InventoryNext /\ UNCHANGED <<sweepVars, identityVars>>
  BY <1>1, <1>4, Zenon
<1> QED
  BY <1>1, <1>2, <1>3, <1>4, Zenon DEF HandleRequest

\* The scope of a datasource is not changed by its requests.
LEMMA ScopeIsFixed ==
    ASSUME [SweepNext]_sweepVars, [InventoryNext]_inventoryVars
    PROVE  UNCHANGED <<allowedNets, inNets, allowedHosts>>
<1>1. UNCHANGED allowedNets
  BY ZenonT(40) DEF SweepNext, SweepStep, sweepVars, HandleSweep, Feed, CloseWork, Probe, Collect, EndWorker,
         ReturnSweep, CancelSweep, SweepAnswered
<1>2. UNCHANGED scopeVars
  BY Zenon DEF InventoryNext, InventoryStep, inventoryVars, HandleInventory, Acquire, GiveUp, Check, Split,
         Dial, ProbeFacts, RunCollector, HostHangs, Release, ReturnInventory, Expire, CancelBatch,
         InventoryAnswered
<1> QED
  BY <1>1, <1>2, Zenon DEF scopeVars

\* ActionIInv is an inductive invariant of the handlers: each part keeps its own
\* while it works, and rests while another works.
THEOREM ActionsInductive == ActionSpec => []ActionIInv
<1>1. ActionIInv /\ [ActionNext]_actionVars => ActionIInv'
  <2> SUFFICES ASSUME ActionIInv, [ActionNext]_actionVars PROVE ActionIInv'
    OBVIOUS
  <2>1. /\ [SweepNext]_sweepVars /\ [IdentityMoves]_identityVars /\ [InventoryNext]_inventoryVars
        /\ [ExecNext]_execVars /\ [MapNext]_mapVars
    BY ActionStepParts, Zenon DEF ActionIInv
  <2>2. SweepIInv' /\ IdentityTypeOK' /\ InventoryIInv'
    BY <2>1, SweepNextIInv, IdentityTyped, InventoryNextIInv, Zenon DEF ActionIInv
  <2>3. ExecIInv' /\ MapIInv'
    BY <2>1, ExecNextIInv, MapNextIInv, SMTT(30) DEF ActionIInv
  <2>4. ScopesAgree'
    BY <2>1, ScopeIsFixed, Zenon DEF ActionIInv, ScopesAgree, Inside
  <2> QED
    BY <2>2, <2>3, <2>4 DEF ActionIInv
<1> QED
  BY <1>1, ActionInitIInv, PTL DEF ActionSpec

\* The variables of the handlers keep their types; in particular an inventory
\* never has more than Concurrency tokens out and a map never more than MaxEdges
\* edges.
THEOREM ActionsTypeCorrect == ActionSpec => []ActionTypeOK
<1>1. ActionIInv => ActionTypeOK
  BY DEF ActionIInv, ActionTypeOK, SweepIInv, InventoryIInv, ExecIInv, MapIInv
<1> QED
  BY <1>1, ActionsInductive, PTL

\* A sweep that was not cut short probed every wanted address on every port and no
\* other, and its result is exactly what answered: expandCIDRs, the feeder, the
\* workers and the collector of runSweep lose and invent nothing.
THEOREM SweepsAreComplete == ActionSpec => []SweepComplete
<1>1. ActionIInv => SweepComplete
  BY SweepIsWhole DEF ActionIInv
<1> QED
  BY <1>1, ActionsInductive, PTL

\* What the verdicts are worth when it comes to connections.
LEMMA ContactsAreJudged == ASSUME InventoryIInv PROVE OnlyInScopeContacted
<1> SUFFICES ASSUME NEW pair \in contacted, ~AllowedAsIs(pair[1])
             PROVE  IF pair[1] \in Literals THEN pair[2] \in inNets ELSE resolved[pair[1]] \cap inNets # {}
  BY Zenon DEF OnlyInScopeContacted
<1>1. pair[1] \in Targets /\ verdict[pair[1]] /\ pair[2] \in HostAddresses[pair[1]]
  BY DEF InventoryIInv, InventoryTypeOK, VerdictsInScope
<1>2. resolved[pair[1]] \cap inNets # {}
  BY <1>1, Zenon DEF InventoryIInv, VerdictsInScope
<1>3. ASSUME pair[1] \in Literals PROVE pair[2] \in inNets
  <2>1. PICK a : HostAddresses[pair[1]] = {a}
    BY <1>3, InventoryAssumption, Zenon
  <2>2. resolved[pair[1]] \subseteq {a} /\ pair[2] = a
    BY <1>1, <1>3, <2>1, Zenon DEF InventoryIInv, VerdictsInScope
  <2> QED
    BY <1>2, <2>2, Zenon
<1> QED
  BY <1>2, <1>3, Zenon

\* No probe of a sweep and no connection of an inventory leaves the scope of the
\* datasource, as far as the code confines them: prefixWithinAny, which compares first
\* addresses and lengths only, is enough for a sweep, and isTargetAllowed for the
\* connections to targets given as addresses; a name is confined when it is judged.
THEOREM ScopeIsRespected == ActionSpec => []ScopeRespected
<1>1. ActionIInv => ScopeRespected
  BY SweepStaysInScope, ContactsAreJudged, Zenon DEF ActionIInv, ScopeRespected
<1> QED
  BY <1>1, ActionsInductive, PTL

\* The same of an inventory's targets given as addresses, in terms of the networks of
\* allowed_cidrs: when the datasource has a scope, of networks, of names or of both,
\* every address contacted for such a target lies in one of the networks; so a scope
\* of names only lets no address through.
THEOREM ContactedAreInNets ==
    ActionSpec => [](\A pair \in contacted :
                        pair[1] \in Literals /\ (allowedNets # {} \/ allowedHosts # {}) =>
                            \E p \in allowedNets : PrefixContains(p, pair[2]))
<1>1. ASSUME ActionIInv, NEW pair \in contacted, pair[1] \in Literals,
             allowedNets # {} \/ allowedHosts # {}
      PROVE  \E p \in allowedNets : PrefixContains(p, pair[2])
  <2>1. inNets = {} => allowedNets = {}
    <3> SUFFICES ASSUME NEW p \in allowedNets PROVE inNets # {}
      BY Zenon
    <3>1. p \in Prefix
      BY <1>1, Zenon DEF ActionIInv, SweepIInv, SweepTypeOK
    <3>2. p.addr \in Address /\ PrefixContains(p, p.addr)
      BY <3>1 DEF Prefix, PrefixContains, Masked
    <3> QED
      BY <1>1, <3>2, Zenon DEF ActionIInv, ScopesAgree, Inside
  <2>2. allowedHosts \subseteq Targets \ Literals
    BY <1>1, Zenon DEF ActionIInv, InventoryIInv, InventoryTypeOK
  <2>3. ~AllowedAsIs(pair[1])
    BY <1>1, <2>1, <2>2, Zenon DEF AllowedAsIs
  <2>4. OnlyInScopeContacted
    BY <1>1, ContactsAreJudged, Zenon DEF ActionIInv
  <2>5. pair[2] \in inNets
    BY <1>1, <2>3, <2>4, Zenon DEF OnlyInScopeContacted
  <2> QED
    BY <1>1, <2>5, Zenon DEF ActionIInv, ScopesAgree, Inside
<1>2. ActionIInv => \A pair \in contacted :
                       pair[1] \in Literals /\ (allowedNets # {} \/ allowedHosts # {}) =>
                           \E p \in allowedNets : PrefixContains(p, pair[2])
  BY <1>1, Zenon
<1> QED
  BY <1>2, ActionsInductive, PTL

\* Every target of an inventory has a status when handleInventory answers, "ok"
\* only where every collector was run, failed or was skipped.
THEOREM TargetsAreAnswered == ActionSpec => []EveryTargetAnswered
<1>1. ActionIInv => EveryTargetAnswered
  BY ZenonT(40) DEF ActionIInv, InventoryIInv, EveryTargetAnswered, ResultsMatchSteps, GoroutinesMatchStage
<1> QED
  BY <1>1, ActionsInductive, PTL

\* What a command's caller gets is the start of each stream up to the cap, and
\* runCommand says so exactly when something is missing.
THEOREM OutputIsExact == ActionSpec => []OutputExact
<1>1. ActionIInv => OutputExact
  BY ExecOutputExact DEF ActionIInv
<1> QED
  BY <1>1, ActionsInductive, PTL

\* queryAll fails the map as soon as one query fails: a map is built only from the
\* answers of all of them.
THEOREM MapsAreAllOrNothing == ActionSpec => []AllOrNothing
<1>1. ActionIInv => AllOrNothing
  BY DEF ActionIInv, MapIInv
<1> QED
  BY <1>1, ActionsInductive, PTL

\* buildServiceMap: every call that was measured is on an edge, or was cut off below
\* edges with as many requests; and the bytes of a pair are on one edge at most.
THEOREM CallsAreNotHidden == ActionSpec => []CallsAreShown
<1>1. ActionIInv => CallsAreShown
  BY MapShowsCalls DEF ActionIInv
<1> QED
  BY <1>1, ActionsInductive, PTL

\* resolve names a destination only where no second service can be meant, other than
\* one that listens on 0.0.0.0 besides the address.
THEOREM DestinationsAreNotGuessed == ActionSpec => []DestinationsNotGuessed
<1>1. ActionIInv => DestinationsNotGuessed
  BY MapDestinations DEF ActionIInv
<1> QED
  BY <1>1, ActionsInductive, PTL

\* A step of the whole brings the part that works nearer to its end.
LEMMA ActionNearer ==
    ActionIInv /\ [ActionNext]_actionVars =>
        /\ [SweepGetsNearer]_sweepVars /\ [IdentityGetsNearer]_identityVars
        /\ [InventoryGetsNearer]_inventoryVars
        /\ [CommandGetsNearer]_execVars /\ [MapGetsNearer]_mapVars
<1> SUFFICES ASSUME ActionIInv, [ActionNext]_actionVars
             PROVE  /\ [SweepGetsNearer]_sweepVars /\ [IdentityGetsNearer]_identityVars
                    /\ [InventoryGetsNearer]_inventoryVars
                    /\ [CommandGetsNearer]_execVars /\ [MapGetsNearer]_mapVars
  OBVIOUS
<1>1. SweepIInv /\ IdentityTypeOK /\ InventoryIInv /\ ExecIInv /\ MapIInv
  BY Zenon DEF ActionIInv
<1>2. /\ [SweepNext]_sweepVars /\ [IdentityMoves]_identityVars /\ [InventoryNext]_inventoryVars
      /\ [ExecNext]_execVars /\ [MapNext]_mapVars
  BY <1>1, ActionStepParts, Zenon
<1> QED
  BY <1>1, <1>2, SweepNearer, IdentityNearer, InventoryNearer, CommandNearer, MapNearer, Zenon

\* runSweep cannot stall and cannot go on for ever, cancelled or not: while it
\* probes, its feeder, a worker with its collector or its wait for the workers can
\* take a step, and every step but the end of the context hands out an address of
\* the finite list or takes a goroutine nearer to its return.  The same holds of
\* enrichCloudIdentity, which only hosts that say nothing can keep.
THEOREM SweepsDoNotStall ==
    ActionSpec => /\ []SweepGoesOn /\ [][SweepGetsNearer]_sweepVars
                  /\ []IdentityGoesOn /\ [][IdentityGetsNearer]_identityVars
<1>1. ActionIInv => SweepGoesOn /\ IdentityGoesOn
  BY SweepGoesOnAlways, IdentityGoesOnAlways DEF ActionIInv
<1> QED
  BY <1>1, ActionNearer, ActionsInductive, PTL DEF ActionSpec

\* The same of the two fan-outs of handleInventory: no token of the semaphore is
\* lost, so a goroutine that waits for one gets it unless hosts that say nothing have
\* them all, and every step but the end of a context takes a goroutine nearer to its
\* return, to such a host, or the request to its next stage.
THEOREM InventoriesDoNotStall == ActionSpec => []InventoryGoesOn /\ [][InventoryGetsNearer]_inventoryVars
<1>1. ActionIInv => InventoryGoesOn
  BY InventoryGoesOnAlways DEF ActionIInv
<1> QED
  BY <1>1, ActionNearer, ActionsInductive, PTL DEF ActionSpec

\* runCommand drains both streams and goes on after the cap, so whatever a command
\* writes, and in whatever order, it never waits with a full window for a reader that
\* waits for it; and output, readers and callers together take finitely many steps.
\* (Of handleExec only the second half is true.)
THEOREM CommandsDoNotStall == ActionSpec => []CommandGoesOn /\ [][CommandGetsNearer]_execVars
<1>1. ActionIInv => CommandGoesOn
  BY CommandGoesOnAlways DEF ActionIInv
<1> QED
  BY <1>1, ActionNearer, ActionsInductive, PTL DEF ActionSpec

\* queryAll takes a slot before it starts the goroutine that gives it back, and never
\* waits for one when no query runs.
THEOREM MapsDoNotStall == ActionSpec => []MapGoesOn /\ [][MapGetsNearer]_mapVars
<1>1. ActionIInv => MapGoesOn
  BY MapGoesOnAlways DEF ActionIInv
<1> QED
  BY <1>1, ActionNearer, ActionsInductive, PTL DEF ActionSpec
=============================================================================
