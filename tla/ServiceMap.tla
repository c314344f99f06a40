------------------------------ MODULE ServiceMap ------------------------------
(***************************************************************************)
(* The vm_service_map action of the http proxy                             *)
(* (pkg/proxy/http/vmservicemap.go): a fixed list of queries is sent to    *)
(* the metric store with bounded concurrency (queryAll), and the samples   *)
(* they return are joined into the call graph of the fleet                 *)
(* (buildServiceMap).                                                      *)
(*                                                                         *)
(* The queries are answered one at a time while the store goes on taking   *)
(* in samples, so nothing relates what one returns to what another         *)
(* returns: a map is built from any member of StoreAnswers.                *)
(*                                                                         *)
(* A query's answer is a function from the label sets it has a sample for  *)
(* to their values, in tenths.  A label set of a call is the instance and  *)
(* container that make it, the address called and the name the store has   *)
(* for that; the destination kind goes with the name.  One port is called. *)
(* An address called is an IPv4 one, which as text is after 0.0.0.0 and    *)
(* before [::].                                                            *)
(***************************************************************************)
EXTENDS Integers, FiniteSets, FiniteSetsExt

CONSTANTS Queries,      \* 1..n: the queries in the order of the list
          QuerySlots,   \* serviceMapConcurrency
          MaxEdges,     \* maxServiceMapEdges
          MaxWindow,    \* maxServiceMapWindow
          Window,       \* defaultServiceMapWindow
          Instants,     \* what start, end and the time now may be
          Garbled,      \* a start or end that does not parse
          Protocols,    \* l7Protocols; "http" is one of them
          ScopeUnits,   \* containers that isServiceContainer drops
          Any4, Any6,   \* the unspecified addresses 0.0.0.0 and [::]
          StoreAnswers, \* what the queries may return between them
          None

ASSUME ServiceMapAssumption ==
    /\ Queries = 1..Cardinality(Queries)
    /\ QuerySlots \in Nat \ {0} /\ MaxEdges \in Nat
    /\ {MaxWindow, Window} \subseteq Nat /\ Instants \subseteq Int
    /\ IsFiniteSet(Protocols) /\ "http" \in Protocols /\ "tcp" \notin Protocols

\* What a query returns: finitely many samples, with values in tenths.
IsAnswer(f) == IsFiniteSet(DOMAIN f) /\ f \in [DOMAIN f -> Int]

ASSUME StoreAnswersAssumption ==
    \A a \in StoreAnswers :
        /\ IsFiniteSet(a.ips) /\ \A o \in a.ips : o = <<o[1], o[2]>>
        /\ IsFiniteSet(a.info)
        /\ \A p \in Protocols :
              IsAnswer(a.requests[p]) /\ IsAnswer(a.errors[p]) /\ IsAnswer(a.durations[p])
        /\ IsAnswer(a.connects) /\ IsAnswer(a.failures) /\ IsAnswer(a.grpcErrors)

VARIABLES mapAt,      \* where the request is
          query,      \* what has become of each query
          queryCtx,   \* the context of queryAll is "live" or "cancelled"
          answers,    \* the samples a map was built from
          graph       \* the map, or the query whose error was returned

mapVars == <<mapAt, query, queryCtx, answers, graph>>

\* The type invariant of a request for the map.
MapTypeOK ==
    /\ mapAt \in {"idle", "refused", "sending", "built", "failed"}
    /\ query \in [Queries -> {"unsent", "running", "answered", "error", "cancelled"}]
    /\ queryCtx \in {"live", "cancelled"}
    /\ mapAt = "failed" => graph \in Queries
    /\ mapAt = "built" => Cardinality(graph.edges) <= MaxEdges

MapInit ==
    /\ mapAt = "idle"
    /\ query = [i \in Queries |-> "unsent"]
    /\ queryCtx = "live"
    /\ answers = None /\ graph = None

-----------------------------------------------------------------------------
(* collectHosts, collectServices and resolve. *)

At(f, k) == IF k \in DOMAIN f THEN f[k] ELSE 0

\* collectServices lists the containers in container_info that are services.
Services(a) == {s \in a.info : s[2] \notin ScopeUnits}

\* collectHosts makes one record per reporting instance, with its addresses.
CollectHosts(a) == {o[1] : o \in a.ips}
Owners(a, ip) == {i \in CollectHosts(a) : <<i, ip>> \in a.ips}

\* A service's listeners on the port are looked at in the order of their
\* addresses as text, and the first that is the address called or unspecified
\* decides what the service is.
ListensAt(a, s, addr) == <<s[1], s[2], addr>> \in a.listen
IsExact(a, s, ip) == ~ListensAt(a, s, Any4) /\ ListensAt(a, s, ip)
IsWild(a, s, ip) == ListensAt(a, s, Any4) \/ (~ListensAt(a, s, ip) /\ ListensAt(a, s, Any6))

Exact(a, i, ip) == {s \in Services(a) : s[1] = i /\ IsExact(a, s, ip)}
Wild(a, i, ip) == {s \in Services(a) : s[1] = i /\ IsWild(a, s, ip)}

\* What the port may belong to; the mutant looks no further than the first.
Sole_Mutant(S) == IF S = {} THEN None ELSE CHOOSE s \in S : TRUE
Sole(S) == IF Cardinality(S) = 1 THEN CHOOSE s \in S : TRUE ELSE None

\* resolve: the instance that owns the address and the service that listens
\* there; None for what is left unresolved.
Resolve(a, ip) ==
    LET i == Sole(Owners(a, ip))
        pick == IF Exact(a, i, ip) # {} THEN Exact(a, i, ip) ELSE Wild(a, i, ip)
    IN  IF i = None THEN [owner |-> None, service |-> None]
                    ELSE [owner |-> i, service |-> Sole(pick)]

-----------------------------------------------------------------------------
(* buildServiceMap. *)

Source(k) == <<k.instance, k.container>>
Pair(k) == <<k.instance, k.container, k.address>>

\* touch returns no edge for a source that is not a service or calls itself.
Touched(a, k) == k.container \notin ScopeUnits /\ Resolve(a, k.address).service # Source(k)

Positive(f) == {k \in DOMAIN f : f[k] > 0}

\* The calls an application protocol was seen on.
Covered_Mutant(a) ==
    {Pair(k) : k \in {l \in Positive(a.requests["http"]) : Touched(a, l)}}
Covered(a) ==
    UNION {{Pair(k) : k \in {l \in Positive(a.requests[p]) : Touched(a, l)}} : p \in Protocols}

\* The label sets that touch makes an edge of, for each protocol.
TcpKeys(a) == {k \in Positive(a.connects) \cup Positive(a.failures) : Pair(k) \notin Covered(a)}
L7Keys(a, p) ==
    Positive(a.requests[p]) \cup DOMAIN a.errors[p] \cup Positive(a.durations[p])
        \cup (IF p = "http" THEN DOMAIN a.grpcErrors ELSE {})
EdgeKeys(a) ==
    {e \in (UNION {L7Keys(a, p) \X {p} : p \in Protocols}) \cup (TcpKeys(a) \X {"tcp"}) :
        Touched(a, e[1])}

RequestsOn(a, k, p) == At(IF p = "tcp" THEN a.connects ELSE a.requests[p], k)
ErrorsOn(a, k, p) ==
    At(IF p = "tcp" THEN a.failures ELSE a.errors[p], k)
        + IF p = "http" THEN At(a.grpcErrors, k) ELSE 0

\* wholeCount rounds tenths, a call that happened never to none.
WholeCount(v) == IF v <= 0 THEN 0 ELSE Max({1, (v + 5) \div 10})

\* For each pair of source and address, the edge that gets the bytes: one with the
\* most requests, the order of a Go map choosing among equals.
MostRequests(a, keys) ==
    {B \in SUBSET keys :
        /\ \A e, f \in B : Pair(e[1]) = Pair(f[1]) => e = f
        /\ \A e \in keys : \E f \in B :
              /\ Pair(e[1]) = Pair(f[1])
              /\ RequestsOn(a, f[1], f[2]) >= RequestsOn(a, e[1], e[2])}

\* The edges before they are sorted, when the edges of best carry the bytes.
Edges(a, best) ==
    {[key |-> e[1], protocol |-> e[2],
      requests |-> WholeCount(RequestsOn(a, e[1], e[2])),
      errors |-> WholeCount(ErrorsOn(a, e[1], e[2])),
      bytes |-> IF e \in best THEN (At(a.bytes, Pair(e[1])) + 5) \div 10 ELSE 0,
      to |-> Resolve(a, e[1].address)] : e \in EdgeKeys(a)}

Shown(edges) == {e \in edges : e.requests > 0 \/ e.errors > 0}

\* The busiest MaxEdges of them, and whether any were cut off.
Truncations(edges) ==
    {[edges |-> K, truncated |-> K # edges] :
        K \in {L \in kSubset(Min({MaxEdges, Cardinality(edges)}), edges) :
                  \A e \in L, f \in edges \ L : e.requests >= f.requests}}

Maps(a) ==
    UNION {Truncations(Shown(Edges(a, best))) : best \in MostRequests(a, EdgeKeys(a))}

-----------------------------------------------------------------------------
(* handleVMServiceMap and queryAll. *)

\* serviceMapRange: a bound that is given and does not parse, an empty window and
\* one that is too long are refused.
RangeRefused(start, end, now) ==
    LET to == IF end = None THEN now ELSE end
        from == IF start = None THEN to - Window ELSE start
    IN  \/ Garbled \in {start, end}
        \/ from >= to
        \/ to - from > MaxWindow

BeginMap(start, end, now) ==
    /\ mapAt = "idle"
    /\ mapAt' = IF RangeRefused(start, end, now) THEN "refused" ELSE "sending"
    /\ UNCHANGED <<query, queryCtx, answers, graph>>

Sent(what) == {i \in Queries : query[i] = what}

\* The queries that have a slot.
SlotsTaken == Sent("running")

\* The loop of queryAll takes a slot and starts a goroutine for the next query; it
\* does not look at the context.
SendQuery(i) ==
    /\ mapAt = "sending"
    /\ i \in Sent("unsent") /\ \A j \in Sent("unsent") : i <= j
    /\ Cardinality(SlotsTaken) < QuerySlots
    /\ query' = [query EXCEPT ![i] = "running"]
    /\ UNCHANGED <<mapAt, queryCtx, answers, graph>>

\* A query ends: with samples; with an error of its own, from the store, the
\* response size, the status or the decoding; or, when the context is cancelled,
\* with that.  Any error cancels the context, and the slot is given back.
QueryEnds(i) ==
    /\ query[i] = "running"
    /\ \/ query' = [query EXCEPT ![i] = "answered"] /\ UNCHANGED queryCtx
       \/ /\ query' = [query EXCEPT ![i] = "error"]
          /\ queryCtx' = "cancelled"
       \/ /\ queryCtx = "cancelled"
          /\ query' = [query EXCEPT ![i] = "cancelled"]
          /\ UNCHANGED queryCtx
    /\ UNCHANGED <<mapAt, answers, graph>>

\* The relay session ends, and the request's context with it.
MapCtxDone ==
    /\ mapAt = "sending"
    /\ queryCtx = "live"
    /\ queryCtx' = "cancelled"
    /\ UNCHANGED <<mapAt, query, answers, graph>>

\* After wg.Wait the error of the lowest index is returned, or the map built; the
\* mutant only looks for errors that are not the context's.
Unanswered_Mutant == Sent("error")
Unanswered == Sent("error") \cup Sent("cancelled")

AllEnded == mapAt = "sending" /\ Sent("unsent") = {} /\ Sent("running") = {}

FinishMap ==
    /\ AllEnded
    /\ \/ /\ Unanswered # {}
          /\ mapAt' = "failed"
          /\ graph' = Min(Unanswered)
          /\ UNCHANGED answers
       \/ /\ Unanswered = {}
          /\ mapAt' = "built"
          /\ answers' \in StoreAnswers
          /\ graph' \in Maps(answers')
    /\ UNCHANGED <<query, queryCtx>>

\* The request has returned.
MapReturned == mapAt \in {"refused", "built", "failed"} /\ UNCHANGED mapVars

MapNext ==
    \/ \E start, end \in Instants \cup {None, Garbled}, now \in Instants : BeginMap(start, end, now)
    \/ \E i \in Queries : SendQuery(i)
    \/ \E i \in Queries : QueryEnds(i)
    \/ MapCtxDone
    \/ FinishMap
    \/ MapReturned

\* While there is a slot the loop goes on, a query ends by the timeout of its
\* client, and once all have ended the handler returns (FinishMap is the only step
\* that leaves "sending").
MapStep ==
    \/ \E i \in Queries : SendQuery(i)
    \/ \E i \in Queries : QueryEnds(i)
    \/ AllEnded /\ mapAt' \in {"built", "failed"} /\ query' = query

MapFairness == WF_<<mapAt, query>>(MapStep)

MapSpec == MapInit /\ [][MapNext]_mapVars
-----------------------------------------------------------------------------
\* Every call that a query reported, by a service to something other than itself,
\* is on an edge of the map with at least one request ("never turns a call that
\* happened into none"), under its application protocol when it has one and as a
\* TCP connection only when it has none; when edges were cut off, no edge that was
\* kept had fewer requests.  The bytes between a service and an address, which the
\* store does not count by protocol, are on one edge at most ("so they are not
\* counted twice").
CallsAreShown ==
    mapAt = "built" =>
        LET shown == {<<e.key, e.protocol>> : e \in graph.edges}
            Missing(k, p) ==
                /\ <<k, p>> \notin shown
                /\ ~(graph.truncated
                     /\ \A e \in graph.edges : e.requests >= WholeCount(RequestsOn(answers, k, p)))
            Calls(p) == {k \in Positive(answers.requests[p]) : Touched(answers, k)}
            Seen == UNION {{Pair(k) : k \in Calls(p)} : p \in Protocols}
        IN  /\ \A p \in Protocols : \A k \in Calls(p) : ~Missing(k, p)
            /\ \A k \in Positive(answers.connects) :
                  Touched(answers, k) /\ Pair(k) \notin Seen => ~Missing(k, "tcp")
            /\ \A e \in graph.edges :
                  /\ e.protocol = "tcp" => Pair(e.key) \notin Seen
                  /\ e.requests > 0 \/ e.errors > 0
            /\ \A e, f \in graph.edges :
                  (Pair(e.key) = Pair(f.key) /\ e.bytes > 0 /\ f.bytes > 0) => e = f

\* The services of instance i that a call to ip may be for: those bound to the
\* address, or else those that listen on every address ("an exact address match
\* wins over a wildcard listener", docs/proxy-modules.md).
Candidates(a, i, ip) ==
    LET on(addrs) == {s \in Services(a) : s[1] = i /\ \E addr \in addrs : ListensAt(a, s, addr)}
    IN  IF on({ip}) # {} THEN on({ip}) ELSE on({Any4, Any6})

\* A destination is named as a service only when one instance alone reports the
\* address and no second service may be meant ("left unresolved rather than
\* guessed"); and no service is shown calling itself.  One guess is left: the
\* listeners of a service are looked at in the order of their text, so one that
\* has 0.0.0.0 besides the address does not count as bound to it, and another one
\* that is bound to the address only is named although they share the port.
DestinationsNotGuessed ==
    mapAt = "built" =>
        \A e \in graph.edges :
            LET s == e.to.service
                ip == e.key.address
            IN  s # None =>
                    /\ s # Source(e.key)
                    /\ {o[1] : o \in {q \in answers.ips : q[2] = ip}} = {s[1]}
                    /\ s \in Candidates(answers, s[1], ip)
                    /\ \A t \in Candidates(answers, s[1], ip) \ {s} :
                          ListensAt(answers, t, ip) /\ ListensAt(answers, t, Any4)

\* A map is returned only when every query has been answered: a failed or cancelled
\* query is never taken for one that found no traffic.
AllOrNothing == mapAt = "built" => Sent("answered") = Queries

\* A request whose window was accepted has not been answered.
MapBusy == mapAt = "sending"
=============================================================================
