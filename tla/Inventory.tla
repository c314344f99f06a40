------------------------------ MODULE Inventory ------------------------------
(***************************************************************************)
(* discovery_inventory: handleInventory, partitionTargetsByScope,          *)
(* runInventory and inventoryHost (pkg/proxy/discovery).                   *)
(*                                                                         *)
(* Both fan-outs start one goroutine per target, let at most a semaphore's *)
(* worth of them work, and wait for all of them.  A command is one step:   *)
(* RemoteExec models what happens inside runCommand.                       *)
(***************************************************************************)
EXTENDS Integers, FiniteSets, FiniteSetsExt

CONSTANTS Targets,        \* the targets a request may name: addresses and host names
          Literals,       \* the targets that are addresses
          HostAddresses,  \* the addresses a lookup of a target may bring up, now or later
          Collectors,     \* the pack's collectors, 1 .. n in the pack's order
          Concurrency     \* cfg.concurrency

ASSUME InventoryAssumption ==
    /\ IsFiniteSet(Targets) /\ Concurrency \in Nat \ {0}
    /\ IsFiniteSet(Collectors) /\ Collectors \subseteq Nat
    /\ Literals \subseteq Targets /\ HostAddresses \in [Targets -> SUBSET Int]
    /\ \A t \in Literals : \E a \in HostAddresses[t] : HostAddresses[t] = {a}

VARIABLES inNets,          \* the addresses inside allowedNets
          allowedHosts,    \* the entries of allowed_cidrs that are host names
          stage,           \* idle, refused, partition, collect, returned
          batch,           \* the request's targets
          pc,              \* the goroutine of each target
          sem,             \* tokens in the semaphore of the current fan-out
          verdict,         \* verdicts of partitionTargetsByScope
          resolved,        \* the addresses isTargetAllowed looked at, per target (history)
          status,          \* Status of each TargetResult, "" while there is none
          skipped,         \* Skipped, per target
          collected,       \* keys of Collected, per target
          failed,          \* keys of Failed, per target
          expired,         \* targets whose host timeout has passed
          contacted,       \* <<target, address>> pairs dial tried to connect (history)
          batchCancelled   \* the request's context is done

scopeVars == <<inNets, allowedHosts>>
inventoryVars == <<scopeVars, stage, batch, pc, sem, verdict, resolved, status, skipped, collected,
                   failed, expired, contacted, batchCancelled>>

\* "unreachable" stands for the reasons classifyDialError tells apart.
Statuses == {"ok", "unreachable", "timeout", "error"}
\* A goroutine that is "hung" waits for a host that says nothing.
Steps == {"none", "wait", "check", "dial", "facts", "collect", "hung", "release", "done"}

\* The type invariant of the inventory.
InventoryTypeOK ==
    /\ inNets \subseteq Int /\ allowedHosts \subseteq Targets \ Literals
    /\ stage \in {"idle", "refused", "partition", "collect", "returned"}
    /\ batch \subseteq Targets
    /\ pc \in [Targets -> Steps]
    /\ sem \in 0 .. Concurrency
    /\ verdict \in [Targets -> BOOLEAN]
    /\ resolved \in [Targets -> SUBSET Int]
    /\ status \in [Targets -> Statuses \cup {""}]
    /\ \A f \in {skipped, collected, failed} : f \in [Targets -> SUBSET Collectors]
    /\ expired \subseteq Targets
    /\ contacted \subseteq Targets \X Int
    /\ batchCancelled \in BOOLEAN

Blank(S) == [t \in Targets |-> S]

InventoryInit(inside, names) ==
    /\ inNets = inside /\ allowedHosts = names
    /\ stage = "idle"
    /\ batch = {}
    /\ pc = Blank("none")
    /\ sem = 0
    /\ verdict = Blank(FALSE) /\ resolved = Blank({})
    /\ status = Blank("")
    /\ skipped = Blank({}) /\ collected = Blank({}) /\ failed = Blank({})
    /\ expired = {} /\ contacted = {}
    /\ batchCancelled = FALSE

\* A goroutine per member of S, all about to take a token.
StartAll(S) == pc' = [t \in Targets |-> IF t \in S THEN "wait" ELSE "none"]

\* handleInventory up to the first fan-out: without targets, a verified pack
\* and ssh credentials the request is refused.
HandleInventory(requested, packAndKeys) ==
    /\ stage = "idle"
    /\ \/ /\ requested = {} \/ ~packAndKeys
          /\ stage' = "refused"
          /\ UNCHANGED <<batch, pc>>
       \/ /\ requested # {} /\ packAndKeys
          /\ stage' = "partition"
          /\ batch' = requested
          /\ StartAll(requested)
    /\ UNCHANGED <<scopeVars, sem, verdict, resolved, status, skipped, collected, failed,
                   expired, contacted, batchCancelled>>

\* sem <- struct{}{}: the goroutine goes on to the scope test or to the dial.
Acquire(t) ==
    /\ pc[t] = "wait"
    /\ sem < Concurrency
    /\ sem' = sem + 1
    /\ pc' = [pc EXCEPT ![t] = IF stage = "partition" THEN "check" ELSE "dial"]
    /\ UNCHANGED <<scopeVars, stage, batch, verdict, resolved, status, skipped, collected,
                   failed, expired, contacted, batchCancelled>>

\* The token a goroutine returns that leaves by the ctx.Done() case: none.
TokensOnCancel == 0

\* What the collection goroutine of a target that never started reports; the
\* mutant just returns.
CancelledStatus_Mutant == ""
CancelledStatus == "timeout"

\* ctx.Done() wins the select: no verdict, or a result saying the batch was
\* cancelled before the target started.
GiveUp(t) ==
    /\ pc[t] = "wait"
    /\ batchCancelled
    /\ pc' = [pc EXCEPT ![t] = "done"]
    /\ sem' = sem - TokensOnCancel
    /\ status' = IF stage = "collect" THEN [status EXCEPT ![t] = CancelledStatus] ELSE status
    /\ UNCHANGED <<scopeVars, stage, batch, verdict, resolved, skipped, collected, failed,
                   expired, contacted, batchCancelled>>
-----------------------------------------------------------------------------
\* isTargetAllowed: everything without a scope, a name that the scope lists, and
\* whatever has one address, given or looked up, inside the networks.
AllowedAsIs(t) == (inNets = {} /\ allowedHosts = {}) \/ t \in allowedHosts

\* net.LookupHost and ParseIP: an address is itself, a name brings up any of the
\* addresses it may have, or none when the lookup fails.
Lookups(t) == IF t \in Literals THEN {HostAddresses[t]} ELSE SUBSET HostAddresses[t]

Check(t) ==
    /\ pc[t] = "check"
    /\ \/ /\ AllowedAsIs(t)
          /\ verdict' = [verdict EXCEPT ![t] = TRUE]
          /\ UNCHANGED resolved
       \/ /\ ~AllowedAsIs(t)
          /\ \E found \in Lookups(t) :
                /\ verdict' = [verdict EXCEPT ![t] = found \cap inNets # {}]
                /\ resolved' = [resolved EXCEPT ![t] = found]
    /\ pc' = [pc EXCEPT ![t] = "release"]
    /\ UNCHANGED <<scopeVars, stage, batch, sem, status, skipped, collected, failed, expired,
                   contacted, batchCancelled>>

\* After wg.Wait: targets without a positive verdict get their rejection, and
\* runInventory starts on the others.
Split ==
    /\ stage = "partition"
    /\ \A t \in batch : pc[t] = "done"
    /\ stage' = "collect"
    /\ status' = [t \in Targets |-> IF t \in batch /\ ~verdict[t] THEN "error" ELSE ""]
    /\ StartAll({t \in batch : verdict[t]})
    /\ UNCHANGED <<scopeVars, batch, sem, verdict, resolved, skipped, collected, failed, expired,
                   contacted, batchCancelled>>

\* The host's context is done: its own timeout or the request's.
HostDone(t) == batchCancelled \/ t \in expired

\* inventoryHost returns with a status: the client is closed and the slot is
\* about to be given back.
Finish(t, s) ==
    /\ status' = [status EXCEPT ![t] = s]
    /\ pc' = [pc EXCEPT ![t] = "release"]

\* dial and classifyDialError.  DialContext looks a name up again and tries one
\* address after another; none when the lookup fails or the context is done.
Dial(t) ==
    /\ pc[t] = "dial"
    /\ \E tried \in SUBSET HostAddresses[t] :
          /\ contacted' = contacted \cup ({t} \X tried)
          /\ \/ tried # {} /\ pc' = [pc EXCEPT ![t] = "facts"] /\ UNCHANGED status
             \/ Finish(t, "unreachable")
    /\ UNCHANGED <<scopeVars, stage, batch, sem, verdict, resolved, skipped, collected, failed,
                   expired, batchCancelled>>

\* The facts probe, and pack.Select on its output.
ProbeFacts(t) ==
    /\ pc[t] = "facts"
    /\ \/ Finish(t, "error") /\ UNCHANGED skipped
       \/ /\ \E S \in SUBSET Collectors : skipped' = [skipped EXCEPT ![t] = S]
          /\ pc' = [pc EXCEPT ![t] = "collect"]
          /\ UNCHANGED status
    /\ UNCHANGED <<scopeVars, stage, batch, sem, verdict, resolved, collected, failed, expired,
                   contacted, batchCancelled>>

\* The collectors of a target still to run.
Left(t) == Collectors \ (skipped[t] \cup collected[t] \cup failed[t])

\* The loop over the selected collectors: leave when the context is done, run
\* the next one otherwise, and return when there is none.
RunCollector(t) ==
    /\ pc[t] = "collect"
    /\ \/ /\ Left(t) = {}
          /\ Finish(t, "ok")
          /\ UNCHANGED <<collected, failed>>
       \/ /\ Left(t) # {} /\ HostDone(t)
          /\ Finish(t, "timeout")
          /\ UNCHANGED <<collected, failed>>
       \/ /\ Left(t) # {} /\ ~HostDone(t)
          /\ \/ collected' = [collected EXCEPT ![t] = @ \cup {Min(Left(t))}] /\ UNCHANGED failed
             \/ failed' = [failed EXCEPT ![t] = @ \cup {Min(Left(t))}] /\ UNCHANGED collected
          /\ UNCHANGED <<pc, status>>
    /\ UNCHANGED <<scopeVars, stage, batch, sem, verdict, resolved, skipped, expired, contacted,
                   batchCancelled>>

\* client.NewSession and session.Start have no deadline, and dial has cleared the
\* connection's: a host that keeps its connection up and answers neither holds the
\* goroutine and its token, whatever happens to the contexts.
HostHangs(t) ==
    /\ \/ pc[t] = "facts"
       \/ pc[t] = "collect" /\ Left(t) # {} /\ ~HostDone(t)
    /\ pc' = [pc EXCEPT ![t] = "hung"]
    /\ UNCHANGED <<scopeVars, stage, batch, sem, verdict, resolved, status, skipped, collected,
                   failed, expired, contacted, batchCancelled>>

\* The deferred receive from sem, and wg.Done.
Release(t) ==
    /\ pc[t] = "release"
    /\ sem' = sem - 1
    /\ pc' = [pc EXCEPT ![t] = "done"]
    /\ UNCHANGED <<scopeVars, stage, batch, verdict, resolved, status, skipped, collected,
                   failed, expired, contacted, batchCancelled>>

\* handleInventory appends the rejections and answers.
ReturnInventory ==
    /\ stage = "collect"
    /\ \A t \in Targets : pc[t] \in {"none", "done"}
    /\ stage' = "returned"
    /\ UNCHANGED <<scopeVars, batch, pc, sem, verdict, resolved, status, skipped, collected,
                   failed, expired, contacted, batchCancelled>>

\* A host's timeout passes.  What it does to a dial or a command is among their
\* failures; the loop over the collectors looks at it.
Expire(t) ==
    /\ pc[t] = "collect"
    /\ t \notin expired
    /\ expired' = expired \cup {t}
    /\ UNCHANGED <<scopeVars, stage, batch, pc, sem, verdict, resolved, status, skipped,
                   collected, failed, contacted, batchCancelled>>

\* The request's context ends.
CancelBatch ==
    /\ stage \in {"partition", "collect"} /\ ~batchCancelled
    /\ batchCancelled' = TRUE
    /\ UNCHANGED <<scopeVars, stage, batch, pc, sem, verdict, resolved, status, skipped,
                   collected, failed, expired, contacted>>

InventoryAnswered ==
    /\ stage \in {"refused", "returned"}
    /\ stage' = "idle"
    /\ batch' = {}
    /\ pc' = Blank("none")
    /\ sem' = 0
    /\ verdict' = Blank(FALSE) /\ resolved' = Blank({})
    /\ status' = Blank("")
    /\ skipped' = Blank({}) /\ collected' = Blank({}) /\ failed' = Blank({})
    /\ expired' = {} /\ contacted' = {}
    /\ batchCancelled' = FALSE
    /\ UNCHANGED scopeVars

InventoryStep ==
    \/ \E t \in Targets : \/ Acquire(t) \/ GiveUp(t) \/ Check(t) \/ Dial(t) \/ ProbeFacts(t)
                          \/ RunCollector(t) \/ Release(t)
    \/ Split
    \/ ReturnInventory

InventoryNext ==
    \/ \E requested \in SUBSET Targets, packAndKeys \in BOOLEAN :
          HandleInventory(requested, packAndKeys)
    \/ InventoryStep
    \/ \E t \in Targets : Expire(t) \/ HostHangs(t)
    \/ CancelBatch
    \/ InventoryAnswered
-----------------------------------------------------------------------------
\* One target's failure never fails the batch, and no target is forgotten:
\* whatever was cancelled or timed out meanwhile, the answer has a status for
\* every target of the request, and "ok" only where every collector was run,
\* failed or was skipped by its guard.
EveryTargetAnswered ==
    stage = "returned" =>
        \A t \in batch : status[t] # "" /\ (status[t] = "ok" => Left(t) = {})

\* The goroutines of an inventory that waits for silent hosts only: every other one
\* has ended, or waits for a token and silent hosts have them all.
InventoryHeld ==
    LET silent == {t \in Targets : pc[t] = "hung"}
    IN  /\ silent # {}
        /\ \A t \in Targets \ silent :
              \/ pc[t] \in {"none", "done"}
              \/ pc[t] = "wait" /\ ~batchCancelled /\ Cardinality(silent) = Concurrency

\* Connections go only where the datasource's scope lets them: without a scope
\* anywhere, to a host that it lists by name, to a target given as an address
\* inside its networks, or to a name one of whose addresses was inside when
\* isTargetAllowed looked.
\* What such a name leads to when dial looks it up again is not limited.
OnlyInScopeContacted ==
    \A pair \in contacted :
        LET t == pair[1]
            a == pair[2]
        IN  AllowedAsIs(t) \/ IF t \in Literals THEN a \in inNets ELSE resolved[t] \cap inNets # {}
=============================================================================
