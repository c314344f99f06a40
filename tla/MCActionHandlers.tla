--------------------------- MODULE MCActionHandlers ---------------------------
(* Discovery: three-bit addresses; a half, a quarter, an unaligned quarter,    *)
(* one host and the whole space, which is more than a sweep may cover.  Two    *)
(* targets are addresses, one is a name that may have an address on both sides *)
(* of the networks.                                                            *)
(*                                                                             *)
(* Service map: every layout of two instances, three containers and their      *)
(* listeners under some traffic, and every mix of samples for the calls of one *)
(* container under one layout.                                                 *)
EXTENDS ActionHandlers, TLC

CONSTANTS t1, t2, t3, i1, i2, front, back, unit, host, n1, n2

MCPrefixes ==
    {[addr |-> 0, bits |-> 1], [addr |-> 5, bits |-> 2], [addr |-> 2, bits |-> 3],
     [addr |-> 6, bits |-> 0]}

MCHostAddresses == t1 :> {1} @@ t2 :> {5} @@ t3 :> {3, 7}

MCScopes ==
    {[nets |-> {}, names |-> {t3}],
     [nets |-> {[addr |-> 0, bits |-> 1]}, names |-> {}],
     [nets |-> {[addr |-> 4, bits |-> 2], [addr |-> 0, bits |-> 2]}, names |-> {t3}]}

-----------------------------------------------------------------------------
MCProtocols == {"http", "redis"}

Label(i, c, n) == [instance |-> i, container |-> c, address |-> host, name |-> n]
Call1 == Label(i2, front, n1)
Call2 == Label(i2, front, n2)

\* The answers with samples for some of the label sets.
Samples(labels, values) == UNION {[L -> values] : L \in SUBSET labels}
NoSamples == [k \in {} |-> 0]

Quiet ==
    [ips |-> {<<i1, host>>}, info |-> {<<i1, back>>}, listen |-> {<<i1, back, Any4>>},
     requests |-> [p \in MCProtocols |-> NoSamples],
     errors |-> [p \in MCProtocols |-> NoSamples],
     durations |-> [p \in MCProtocols |-> NoSamples],
     grpcErrors |-> NoSamples, connects |-> NoSamples, failures |-> NoSamples,
     bytes |-> [p \in {Pair(Call1)} |-> 27]]

Layouts ==
    {[Quiet EXCEPT !.ips = owned, !.info = containers, !.listen = listeners,
                   !.connects = [k \in {Call1, Label(i1, front, n1), Label(i1, unit, n1)} |-> 16]] :
        owned \in SUBSET ({i1, i2} \X {host}),
        containers \in SUBSET ({i1} \X {front, back, unit}),
        listeners \in SUBSET ({i1} \X {front, back} \X {host, Any4, Any6})}

Traffic ==
    {[Quiet EXCEPT !.requests = [p \in MCProtocols |-> IF p = "http" THEN http ELSE redis],
                   !.errors["http"] = broken, !.grpcErrors = grpc, !.durations["redis"] = timed,
                   !.connects = opened, !.failures = refused] :
        http \in Samples({Call1, Call2}, {0, 4, 16}),
        redis \in Samples({Call1}, {0, 16}),
        broken \in Samples({Call2}, {0, 4}),
        grpc \in Samples({Call1}, {16}),
        timed \in Samples({Call1}, {4}),
        opened \in Samples({Call1, Call2}, {0, 4}),
        refused \in Samples({Call2}, {4})}

MCAnswers == Layouts \cup Traffic
=============================================================================
