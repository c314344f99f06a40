------------------------------- MODULE Sweep -------------------------------
(***************************************************************************)
(* discovery_sweep: handleSweep, parseSweepParams, prefixWithinAny,        *)
(* expandCIDRs and the worker pool of runSweep (pkg/proxy/discovery).      *)
(*                                                                         *)
(* One request at a time; its feeder, workers and collector meet on the    *)
(* unbuffered channels work and results, so a hand-over is one step of     *)
(* both sides.  Addresses are Width bits wide instead of 32; "shorter than *)
(* /31" is then "shorter than Width - 1".  Rate limiting is time only: the *)
(* limiter matters here for being where a worker notices a cancelled       *)
(* context.  What the neighbour cache and reverse DNS add to a host found  *)
(* is left out: it removes no host, and a lookup has two seconds.          *)
(***************************************************************************)
EXTENDS Integers, Sequences, FiniteSets

CONSTANTS Width,              \* bits of an address
          MaxSweepAddresses,  \* maxSweepAddresses
          NWorkers,           \* cfg.workers
          Ports,              \* cfg.ports, 1 .. n
          RawPrefixes,        \* the CIDRs a request may name, host bits included
          MaxCIDRs            \* bound: CIDRs in one request

VARIABLES allowedNets,     \* the datasource's allowed networks
          sweepStage,      \* where the request is: idle, probing, refused, returned
          cidrs,           \* cfg.cidrs
          exclusions,      \* cfg.exclusions
          addrs,           \* what expandCIDRs enumerated
          excluded,        \* how many addresses expandCIDRs dropped
          fed,             \* addresses the feeder has handed over
          workClosed,      \* the feeder has closed work
          worker,          \* the worker goroutines
          hosts,           \* the collector's map: address -> open ports
          answered,        \* <<address, port>> pairs whose probe connected (history)
          probed,          \* <<address, port>> pairs probed (history)
          sweepCancelled   \* the request's context is done

sweepVars == <<allowedNets, sweepStage, cidrs, exclusions, addrs, excluded, fed, workClosed,
               worker, hosts, answered, probed, sweepCancelled>>

Pow2[n \in 0 .. Width] == IF n = 0 THEN 1 ELSE 2 * Pow2[n - 1]

Address == 0 .. Pow2[Width] - 1
Prefix == [addr : Address, bits : 0 .. Width]

ASSUME SweepAssumption ==
    /\ Width \in Nat /\ MaxSweepAddresses \in Nat /\ MaxCIDRs \in Nat /\ NWorkers \in Nat \ {0}
    /\ IsFiniteSet(Ports) /\ Ports # {} /\ Ports = 1 .. Cardinality(Ports)
    /\ RawPrefixes \subseteq Prefix

\* Worker states: at the receive from work, probing port of ip, offering a
\* result, or returned.
Worker == [at : {"receive", "probe", "offer", "ended"}, ip : Address,
           port : 1 .. Cardinality(Ports) + 1, open : SUBSET Ports]

Gone == [at |-> "ended", ip |-> 0, port |-> 1, open |-> {}]
Ready == [at |-> "receive", ip |-> 0, port |-> 1, open |-> {}]

\* The type invariant of the sweep.
SweepTypeOK ==
    /\ allowedNets \subseteq Prefix
    /\ sweepStage \in {"idle", "probing", "refused", "returned"}
    /\ \A i \in DOMAIN cidrs : cidrs[i] \in Prefix
    /\ exclusions \subseteq Prefix
    /\ \A i \in DOMAIN addrs : addrs[i] \in Address
    /\ excluded \in Nat
    /\ fed \in 0 .. Len(addrs)
    /\ workClosed \in BOOLEAN
    /\ worker \in [1 .. NWorkers -> Worker]
    /\ DOMAIN hosts \subseteq Address
    /\ \A a \in DOMAIN hosts : hosts[a] \in SUBSET Ports
    /\ answered \subseteq Address \X Ports
    /\ probed \subseteq Address \X Ports
    /\ sweepCancelled \in BOOLEAN

SweepInit(nets) ==
    /\ allowedNets = nets
    /\ sweepStage = "idle"
    /\ cidrs = <<>> /\ exclusions = {}
    /\ addrs = <<>> /\ excluded = 0
    /\ fed = 0 /\ workClosed = FALSE
    /\ worker = [w \in 1 .. NWorkers |-> Gone]
    /\ hosts = [a \in {} |-> {}]
    /\ answered = {} /\ probed = {}
    /\ sweepCancelled = FALSE
-----------------------------------------------------------------------------
\* netip.Prefix: size, Masked, Contains.
Size(p) == Pow2[Width - p.bits]
Masked(p) == [p EXCEPT !.addr = @ - (@ % Size(p))]
PrefixContains(p, a) == a - (a % Size(p)) = Masked(p).addr

\* prefixWithinAny: the first address inside and at least as many bits; the
\* mutant forgets that the request may be the wider of the two.
PrefixWithinAny_Mutant(requested, configured) ==
    \E p \in configured : PrefixContains(p, requested.addr)
PrefixWithinAny(requested, configured) ==
    \E p \in configured : PrefixContains(p, requested.addr) /\ requested.bits >= p.bits

\* isExcluded
IsExcluded(a, ex) == \E p \in ex : PrefixContains(p, a)

\* The host addresses of a CIDR, without network and broadcast address where
\* there are any.
HostsOf(p) ==
    LET skip == IF p.bits <= Width - 2 THEN 1 ELSE 0
    IN  (Masked(p).addr + skip) .. (Masked(p).addr + Size(p) - 1 - skip)

\* The members of a set of addresses in the order of addr.Next().
Ascending(S) ==
    CHOOSE s \in [1 .. Cardinality(S) -> S] : \A i, j \in DOMAIN s : i < j => s[i] < s[j]

\* One CIDR of expandCIDRs: the size test counts the whole prefix on top of the
\* addresses kept so far.
ExpandOne(acc, p, ex) ==
    IF ~acc.ok \/ Len(acc.addrs) + Size(p) > MaxSweepAddresses
    THEN [acc EXCEPT !.ok = FALSE]
    ELSE LET kept == {a \in HostsOf(p) : ~IsExcluded(a, ex)}
         IN  [acc EXCEPT !.addrs = @ \o Ascending(kept),
                         !.excluded = @ + Cardinality(HostsOf(p) \ kept)]

ExpandCIDRs(cs, ex) ==
    LET upto[n \in 0 .. Len(cs)] ==
            IF n = 0 THEN [ok |-> TRUE, addrs |-> <<>>, excluded |-> 0]
                     ELSE ExpandOne(upto[n - 1], cs[n], ex)
    IN  upto[Len(cs)]

\* parseSweepParams: CIDRs and exclusions are masked; there must be a CIDR.
ParseSweepParams(raw, rawEx) ==
    [ok |-> raw # <<>>,
     cidrs |-> [i \in DOMAIN raw |-> Masked(raw[i])],
     exclusions |-> {Masked(p) : p \in rawEx}]

\* The second of the two scope tests: every requested CIDR lies inside a network
\* the datasource is configured for.  Without networks there is no test, even if
\* allowed_cidrs lists host names.
InScope(cfg) ==
    allowedNets # {} => \A i \in DOMAIN cfg.cidrs : PrefixWithinAny(cfg.cidrs[i], allowedNets)

\* handleSweep up to the start of runSweep's goroutines: min(workers, addresses)
\* of them are started.
HandleSweep(raw, rawEx) ==
    /\ sweepStage = "idle"
    /\ LET cfg == ParseSweepParams(raw, rawEx)
           e == ExpandCIDRs(cfg.cidrs, cfg.exclusions)
       IN  \/ /\ ~cfg.ok \/ ~InScope(cfg) \/ ~e.ok
              /\ sweepStage' = "refused"
              /\ UNCHANGED <<cidrs, exclusions, addrs, excluded, worker>>
           \/ /\ cfg.ok /\ InScope(cfg) /\ e.ok
              /\ sweepStage' = "probing"
              /\ cidrs' = cfg.cidrs
              /\ exclusions' = cfg.exclusions
              /\ addrs' = e.addrs
              /\ excluded' = e.excluded
              /\ worker' = [w \in 1 .. NWorkers |-> IF w <= Len(e.addrs) THEN Ready ELSE Gone]
    /\ UNCHANGED <<allowedNets, fed, workClosed, hosts, answered, probed, sweepCancelled>>
-----------------------------------------------------------------------------
\* work <- ip meets a worker's receive.
Feed(w) ==
    /\ sweepStage = "probing" /\ ~workClosed
    /\ fed < Len(addrs)
    /\ worker[w].at = "receive"
    /\ fed' = fed + 1
    /\ worker' = [worker EXCEPT ![w] = [@ EXCEPT !.at = "probe", !.ip = addrs[fed + 1]]]
    /\ UNCHANGED <<allowedNets, sweepStage, cidrs, exclusions, addrs, excluded, workClosed,
                   hosts, answered, probed, sweepCancelled>>

\* The feeder may close work: the list is exhausted, or the context is done.
\* The mutant ends one address early.
FeedEnds_Mutant == fed + 1 >= Len(addrs) \/ sweepCancelled
FeedEnds == fed = Len(addrs) \/ sweepCancelled

CloseWork ==
    /\ sweepStage = "probing" /\ ~workClosed
    /\ FeedEnds
    /\ workClosed' = TRUE
    /\ UNCHANGED <<allowedNets, sweepStage, cidrs, exclusions, addrs, excluded, fed, worker,
                   hosts, answered, probed, sweepCancelled>>

\* What a worker does after a port: the next one, and after the last one offer
\* what it found or go back for the next address.  The mutant tries one port
\* too many.
AfterPort_Mutant(v) ==
    CASE v.port <= Cardinality(Ports) + 1 -> v
      [] v.port > Cardinality(Ports) + 1 /\ v.open # {} -> [v EXCEPT !.at = "offer"]
      [] OTHER -> Ready
AfterPort(v) ==
    CASE v.port <= Cardinality(Ports) -> v
      [] v.port > Cardinality(Ports) /\ v.open # {} -> [v EXCEPT !.at = "offer"]
      [] OTHER -> Ready

\* limiter.Wait succeeds and probeTCP connects or not.  A context that ends in
\* between makes the probe fail.
Probe(w, connects) ==
    /\ sweepStage = "probing"
    /\ worker[w].at = "probe" /\ ~sweepCancelled
    /\ LET v == worker[w]
       IN  /\ probed' = probed \cup {<<v.ip, v.port>>}
           /\ answered' = IF connects THEN answered \cup {<<v.ip, v.port>>} ELSE answered
           /\ worker' = [worker EXCEPT ![w] = AfterPort(
                 [v EXCEPT !.port = @ + 1,
                           !.open = IF connects THEN @ \cup {v.port} ELSE @])]
    /\ UNCHANGED <<allowedNets, sweepStage, cidrs, exclusions, addrs, excluded, fed, workClosed,
                   hosts, sweepCancelled>>

\* results <- r meets the collector, which runs until results is closed.
Collect(w) ==
    /\ sweepStage = "probing"
    /\ worker[w].at = "offer"
    /\ hosts' = [a \in DOMAIN hosts \cup {worker[w].ip} |->
                    IF a = worker[w].ip THEN worker[w].open ELSE hosts[a]]
    /\ worker' = [worker EXCEPT ![w] = Ready]
    /\ UNCHANGED <<allowedNets, sweepStage, cidrs, exclusions, addrs, excluded, fed, workClosed,
                   answered, probed, sweepCancelled>>

\* A worker returns: work is closed, or limiter.Wait or the select on results
\* sees the context done (what it had found of this address is lost).  The
\* mutant has no ctx.Done() case around the limiter.
WorkerReturns_Mutant(w) ==
    \/ worker[w].at = "receive" /\ workClosed
    \/ worker[w].at = "offer" /\ sweepCancelled
WorkerReturns(w) ==
    \/ worker[w].at = "receive" /\ workClosed
    \/ worker[w].at \in {"probe", "offer"} /\ sweepCancelled

EndWorker(w) ==
    /\ sweepStage = "probing"
    /\ WorkerReturns(w)
    /\ worker' = [worker EXCEPT ![w] = Gone]
    /\ UNCHANGED <<allowedNets, sweepStage, cidrs, exclusions, addrs, excluded, fed, workClosed,
                   hosts, answered, probed, sweepCancelled>>

\* wg.Wait is over, results is closed, the collector's loop ends and runSweep
\* returns.
ReturnSweep ==
    /\ sweepStage = "probing"
    /\ \A w \in 1 .. NWorkers : worker[w].at = "ended"
    /\ sweepStage' = "returned"
    /\ UNCHANGED <<allowedNets, cidrs, exclusions, addrs, excluded, fed, workClosed, worker,
                   hosts, answered, probed, sweepCancelled>>

\* The request's context ends.
CancelSweep ==
    /\ sweepStage = "probing" /\ ~sweepCancelled
    /\ sweepCancelled' = TRUE
    /\ UNCHANGED <<allowedNets, sweepStage, cidrs, exclusions, addrs, excluded, fed, workClosed,
                   worker, hosts, answered, probed>>

\* The answer is out; the next request starts from nothing.
SweepAnswered ==
    /\ sweepStage \in {"refused", "returned"}
    /\ sweepStage' = "idle"
    /\ cidrs' = <<>> /\ exclusions' = {}
    /\ addrs' = <<>> /\ excluded' = 0
    /\ fed' = 0 /\ workClosed' = FALSE
    /\ worker' = [w \in 1 .. NWorkers |-> Gone]
    /\ hosts' = [a \in {} |-> {}]
    /\ answered' = {} /\ probed' = {}
    /\ sweepCancelled' = FALSE
    /\ UNCHANGED allowedNets

\* The feeder goroutine outlives runSweep when every worker has left first; it
\* only closes work then, so the model ends it with the request.
SweepStep ==
    \/ \E w \in 1 .. NWorkers : Feed(w) \/ Collect(w) \/ EndWorker(w)
    \/ \E w \in 1 .. NWorkers, connects \in BOOLEAN : Probe(w, connects)
    \/ CloseWork
    \/ ReturnSweep

SweepNext ==
    \/ \E n \in 0 .. MaxCIDRs, ex \in {{}} \cup {{p} : p \in RawPrefixes} :
          \E raw \in [1 .. n -> RawPrefixes] : HandleSweep(raw, ex)
    \/ SweepStep
    \/ CancelSweep
    \/ SweepAnswered
-----------------------------------------------------------------------------
\* What the request asks for, defined without expandCIDRs: every address of a
\* requested CIDR but its network and broadcast address, minus the exclusions.
Wanted ==
    {a \in Address :
        /\ \E i \in DOMAIN cidrs :
              LET inside == {b \in Address : PrefixContains(cidrs[i], b)}
              IN  /\ a \in inside
                  /\ Cardinality(inside) > 2 => \E lo, hi \in inside : lo < a /\ a < hi
        /\ ~IsExcluded(a, exclusions)}

\* A sweep that was not cut short is complete and exact: every wanted address
\* was probed on every port and no other was, the result names exactly the
\* addresses that answered, and only with ports that answered.
SweepComplete ==
    sweepStage = "returned" /\ ~sweepCancelled =>
        /\ probed = Wanted \X Ports
        /\ DOMAIN hosts = {pair[1] : pair \in answered}
        /\ \A a \in DOMAIN hosts : hosts[a] # {} /\ hosts[a] \subseteq {p \in Ports : <<a, p>> \in answered}

\* No probe leaves the scope: every address probed, cancelled or not, lies outside
\* every exclusion and, when allowed_cidrs has a network, inside one of them.  A
\* scope of host names alone limits inventories and no sweep.
SweepInScope ==
    \A pair \in probed :
        /\ allowedNets # {} => \E p \in allowedNets : PrefixContains(p, pair[1])
        /\ ~IsExcluded(pair[1], exclusions)
=============================================================================
