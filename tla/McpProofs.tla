------------------------------- MODULE McpProofs -------------------------------
(***************************************************************************)
(* Proofs about the two transports of the MCP proxy: McpSession for any    *)
(* requests, keys and session ids, McpStdio for any requests, process      *)
(* objects and processes, and McpProxy, which has one of them at work.     *)
(***************************************************************************)
EXTENDS McpProxy, TLAPS

-----------------------------------------------------------------------------
(* The sessions.                                                             *)

\* A request past its beginning has a key, and one with a session in hand has
\* just opened it or is using it.
RequestsHold ==
    \A r \in Requests :
        /\ pc[r] # "idle" => key[r] \in Keys
        /\ pc[r] = "store" => sid[r] # None
        /\ sid[r] # None => pc[r] \in {"store", "post"} /\ sid[r] \in issued

\* A session in the map was issued, was not given up, and is there once.
MapHolds ==
    /\ \A k \in Keys : sessions[k] # None => sessions[k] \in issued \ asked
    /\ \A k, l \in Keys : sessions[k] # None /\ sessions[k] = sessions[l] => k = l

\* A session that a request has opened and not stored is known to nobody else.
OpenedAreOwn ==
    \A r \in Requests :
        pc[r] = "store" =>
            /\ sid[r] \notin asked
            /\ \A k \in Keys : sessions[k] # sid[r]
            /\ \A q \in Requests \ {r} : sid[q] # sid[r]

\* While a request is in its handshake, for less than the TTL, nothing idle is kept
\* for its key: what it stores replaces nothing.
HandshakeFindsRoom ==
    \A r \in Requests \ overdue : pc[r] \in {"init", "store"} => key[r] \notin idle

\* A session of the map that is in use is used under its key, and is not idle
\* unless it has been in use for the TTL.
UsedIsFresh ==
    \A r \in Requests, k \in Keys :
        pc[r] = "post" /\ sid[r] # None /\ sid[r] = sessions[k] =>
            key[r] = k /\ (k \in idle => r \in overdue)

\* Close forbids new sessions before it takes them all.
CloseIsFinal ==
    /\ closer # "idle" => closed
    /\ closer = "done" => \A k \in Keys : sessions[k] = None

\* The inductive invariant of the sessions.
SessionIInv ==
    /\ SessionTypeOK /\ RequestsHold /\ MapHolds /\ OpenedAreOwn
    /\ HandshakeFindsRoom /\ UsedIsFresh /\ CloseIsFinal
    /\ NoSessionLeaked /\ NotTerminatedInUse

\* There is no session yet.
LEMMA SessionInitIInv == SessionInit => SessionIInv
<1> SUFFICES ASSUME SessionInit PROVE SessionIInv
  OBVIOUS
<1> USE DEF SessionInit
<1>1. SessionTypeOK
  BY Zenon DEF SessionTypeOK
<1>2. RequestsHold /\ MapHolds /\ OpenedAreOwn /\ HandshakeFindsRoom /\ UsedIsFresh /\ CloseIsFinal
  BY DEF RequestsHold, MapHolds, OpenedAreOwn, HandshakeFindsRoom, UsedIsFresh, CloseIsFinal
<1>3. NoSessionLeaked /\ NotTerminatedInUse
  BY DEF NoSessionLeaked, NotTerminatedInUse
<1> QED
  BY <1>1, <1>2, <1>3 DEF SessionIInv

\* A request arrives: it has nothing in hand.
LEMMA HandleIInv ==
    ASSUME SessionIInv, NEW r \in Requests, NEW k \in Keys, HandleWithSession(r, k)
    PROVE  SessionIInv'
<1> USE DEF SessionIInv, SessionTypeOK, HandleWithSession, server
<1>1. SessionTypeOK'
  OBVIOUS
<1>2. RequestsHold'
  BY DEF RequestsHold
<1>3. MapHolds' /\ CloseIsFinal'
  BY DEF MapHolds, CloseIsFinal
<1>4. OpenedAreOwn'
  BY McpSessionAssumption DEF OpenedAreOwn, RequestsHold
<1>5. HandshakeFindsRoom' /\ UsedIsFresh'
  BY DEF HandshakeFindsRoom, UsedIsFresh
<1>6. InHand' = InHand
  BY DEF InHand
<1>7. NoSessionLeaked' /\ NotTerminatedInUse'
  BY <1>6 DEF NoSessionLeaked, NotTerminatedInUse
<1> QED
  BY <1>1, <1>2, <1>3, <1>4, <1>5, <1>7

\* A request that has opened nothing goes on or returns without a session.
LEMMA NothingInHandIInv ==
    ASSUME SessionIInv, NEW r \in Requests, pc[r] \in {"ensure", "init", "post"},
           Return(r) \/ Post(r, None),
           sessionless' \in BOOLEAN,
           UNCHANGED <<sessions, idle, closed, closer, asked>>,
           issued \subseteq issued' /\ issued' \subseteq Ids,
           lost \subseteq lost' /\ lost' \subseteq issued',
           live' \subseteq issued' /\ live' \subseteq live \cup lost'
    PROVE  SessionIInv'
<1> USE DEF SessionIInv, SessionTypeOK, Return, Post, Goto, server
<1>1. SessionTypeOK'
  OBVIOUS
<1>2. RequestsHold'
  BY DEF RequestsHold
<1>3. MapHolds' /\ CloseIsFinal'
  BY DEF MapHolds, CloseIsFinal
<1>4. OpenedAreOwn'
  BY DEF OpenedAreOwn, RequestsHold
<1>5. HandshakeFindsRoom' /\ UsedIsFresh'
  BY DEF HandshakeFindsRoom, UsedIsFresh
<1>6. InHand' = InHand
  BY DEF InHand
<1>7. NoSessionLeaked' /\ NotTerminatedInUse'
  BY <1>6, McpSessionAssumption DEF NoSessionLeaked, NotTerminatedInUse
<1> QED
  BY <1>1, <1>2, <1>3, <1>4, <1>5, <1>7

\* A fresh session of the map is used.
LEMMA UseFreshIInv ==
    ASSUME SessionIInv, NEW r \in Requests, pc[r] = "ensure", Fresh(key[r]), ~closed,
           Post(r, sessions[key[r]]), Use(key[r]),
           UNCHANGED <<sessions, asked, lost, sessionless, closed, closer, server>>
    PROVE  SessionIInv'
<1> USE DEF SessionIInv, SessionTypeOK, Post, Goto, server, Use, Fresh
<1>0. key[r] \in Keys
  BY DEF RequestsHold
<1>1. SessionTypeOK'
  BY <1>0
<1>2. RequestsHold'
  BY <1>0 DEF RequestsHold, MapHolds
<1>3. MapHolds' /\ CloseIsFinal'
  BY DEF MapHolds, CloseIsFinal
<1>4. OpenedAreOwn'
  BY <1>0 DEF OpenedAreOwn
<1>5. HandshakeFindsRoom' /\ UsedIsFresh'
  BY <1>0 DEF HandshakeFindsRoom, UsedIsFresh, MapHolds
<1>6. InHand' = InHand
  BY DEF InHand
<1>7. NoSessionLeaked' /\ NotTerminatedInUse'
  BY <1>0, <1>6 DEF NoSessionLeaked, NotTerminatedInUse, MapHolds
<1> QED
  BY <1>1, <1>2, <1>3, <1>4, <1>5, <1>7

\* A session that has idled is given up before the handshake for another.
LEMMA ReplaceIdleIInv ==
    ASSUME SessionIInv, NEW r \in Requests, pc[r] = "ensure", ~Fresh(key[r]), ~closed,
           Goto(r, "init", None), Use(key[r]),
           sessions' = [sessions EXCEPT ![key[r]] = None],
           asked' = asked \cup ({sessions[key[r]]} \ {None}),
           UNCHANGED <<sessionless, closed, closer, server, lost>>
    PROVE  SessionIInv'
<1> DEFINE k == key[r]
<1> USE DEF SessionIInv, SessionTypeOK, Goto, server, Use
<1>0. k \in Keys /\ (sessions[k] # None => k \in idle)
  BY DEF RequestsHold, Fresh
<1>1. SessionTypeOK'
  BY <1>0 DEF MapHolds
<1>2. RequestsHold'
  BY <1>0 DEF RequestsHold
<1>3. MapHolds' /\ CloseIsFinal'
  BY <1>0 DEF MapHolds, CloseIsFinal
<1>4. OpenedAreOwn'
  BY <1>0 DEF OpenedAreOwn, RequestsHold
<1>5. HandshakeFindsRoom' /\ UsedIsFresh'
  BY <1>0 DEF HandshakeFindsRoom, UsedIsFresh
<1>6. InHand' = InHand
  BY DEF InHand
<1>7. Range(sessions) \subseteq Range(sessions') \cup asked' \cup {None}
  BY <1>0 DEF Range
<1>8. NoSessionLeaked'
  <2>1. closer' # "done" /\ live' = live /\ asked \subseteq asked' /\ None \notin live
    BY McpSessionAssumption DEF CloseIsFinal
  <2> QED
    BY <1>6, <1>7, <2>1, ZenonT(40) DEF NoSessionLeaked
<1>9. NotTerminatedInUse'
  BY <1>0 DEF NotTerminatedInUse, UsedIsFresh
<1> QED
  BY <1>1, <1>2, <1>3, <1>4, <1>5, <1>8, <1>9

\* ensureSession up to the handshake.
LEMMA EnsureIInv ==
    ASSUME SessionIInv, NEW r \in Requests, EnsureSession(r)
    PROVE  SessionIInv'
<1>1. sessionless' \in BOOLEAN /\ pc[r] = "ensure"
  BY DEF EnsureSession, SessionIInv, SessionTypeOK
<1>2. CASE (Return(r) \/ Post(r, None)) /\ UNCHANGED <<sessions, idle, asked>>
  <2>1. UNCHANGED <<closed, closer, issued, live, lost>>
    BY DEF EnsureSession, server
  <2>2. lost \subseteq issued /\ live \subseteq issued /\ issued \subseteq Ids
    BY DEF SessionIInv, SessionTypeOK
  <2> QED
    BY <1>1, <1>2, <2>1, <2>2, NothingInHandIInv
<1>3. CASE /\ ~closed /\ Fresh(key[r]) /\ Post(r, sessions[key[r]]) /\ Use(key[r])
           /\ UNCHANGED <<sessions, asked>>
  BY <1>1, <1>3, UseFreshIInv DEF EnsureSession
<1>4. CASE /\ ~closed /\ ~Fresh(key[r]) /\ Goto(r, "init", None) /\ Use(key[r])
           /\ sessions' = [sessions EXCEPT ![key[r]] = None]
           /\ asked' = asked \cup ({sessions[key[r]]} \ {None})
  BY <1>1, <1>4, ReplaceIdleIInv, Zenon DEF EnsureSession
<1> QED
  BY <1>2, <1>3, <1>4 DEF EnsureSession

\* The server opens a session with a new id, which is in the hands of the request.
LEMMA OpensIInv ==
    ASSUME SessionIInv, NEW r \in Requests, NEW id \in Ids, InitializeOpens(r, id)
    PROVE  SessionIInv'
<1> USE McpSessionAssumption DEF SessionIInv, SessionTypeOK, InitializeOpens, Goto
<1>1. SessionTypeOK'
  OBVIOUS
<1>2. RequestsHold'
  BY DEF RequestsHold
<1>3. MapHolds' /\ CloseIsFinal'
  BY DEF MapHolds, CloseIsFinal
<1>4. OpenedAreOwn'
  BY DEF OpenedAreOwn, RequestsHold, MapHolds
<1>5. HandshakeFindsRoom' /\ UsedIsFresh'
  BY DEF HandshakeFindsRoom, UsedIsFresh
<1>6. InHand \cup {id} \subseteq InHand'
  BY DEF InHand
<1>7. NoSessionLeaked'
  BY <1>5, <1>6 DEF NoSessionLeaked, HandshakeFindsRoom
<1>8. NotTerminatedInUse'
  BY DEF NotTerminatedInUse
<1> QED
  BY <1>1, <1>2, <1>3, <1>4, <1>5, <1>7, <1>8

\* Once the proxy is closed the session just opened is given up.
LEMMA StoreClosedIInv ==
    ASSUME SessionIInv, NEW r \in Requests, pc[r] = "store", closed,
           asked' = asked \cup {sid[r]}, Return(r),
           UNCHANGED <<sessions, idle, sessionless, closed, closer, server, lost>>
    PROVE  SessionIInv'
<1> USE DEF SessionIInv, SessionTypeOK, Return, Goto, server
<1>1. SessionTypeOK'
  BY DEF RequestsHold
<1>2. RequestsHold'
  BY DEF RequestsHold
<1>3. MapHolds' /\ CloseIsFinal'
  BY DEF MapHolds, CloseIsFinal, OpenedAreOwn
<1>4. OpenedAreOwn'
  BY DEF OpenedAreOwn, RequestsHold
<1>5. HandshakeFindsRoom' /\ UsedIsFresh'
  BY DEF HandshakeFindsRoom, UsedIsFresh
<1>6. InHand \subseteq InHand' \cup {sid[r]}
  BY DEF InHand
<1>7. NoSessionLeaked' /\ NotTerminatedInUse'
  BY <1>6 DEF NoSessionLeaked, NotTerminatedInUse
<1> QED
  BY <1>1, <1>2, <1>3, <1>4, <1>5, <1>7

\* Where another request was first its session is used and the own one given up.
LEMMA StoreLosesIInv ==
    ASSUME SessionIInv, NEW r \in Requests, pc[r] = "store", ~closed, Fresh(key[r]),
           asked' = asked \cup Loser(r), Post(r, Winner(r)), Use(key[r]),
           UNCHANGED <<sessions, sessionless, closed, closer, server, lost>>
    PROVE  SessionIInv'
<1> USE DEF SessionIInv, SessionTypeOK, Post, Goto, server, Loser, Winner, Use, Fresh
<1>0. key[r] \in Keys /\ sid[r] # None
  BY DEF RequestsHold
<1>1. SessionTypeOK'
  BY <1>0 DEF RequestsHold
<1>2. RequestsHold'
  BY <1>0 DEF RequestsHold, MapHolds
<1>3. MapHolds' /\ CloseIsFinal'
  BY DEF MapHolds, CloseIsFinal, OpenedAreOwn
<1>4. OpenedAreOwn'
  BY <1>0 DEF OpenedAreOwn
<1>5. HandshakeFindsRoom' /\ UsedIsFresh'
  BY <1>0 DEF HandshakeFindsRoom, UsedIsFresh, MapHolds
<1>6. InHand \subseteq InHand' \cup {sid[r]}
  BY DEF InHand
<1>7. NoSessionLeaked'
  BY <1>6 DEF NoSessionLeaked
<1>8. NotTerminatedInUse'
  BY <1>0 DEF NotTerminatedInUse, MapHolds, OpenedAreOwn
<1> QED
  BY <1>1, <1>2, <1>3, <1>4, <1>5, <1>7, <1>8

\* Otherwise the session is stored; what it overwrites has idled, and is lost.
LEMMA StoreWinsIInv ==
    ASSUME SessionIInv, NEW r \in Requests, pc[r] = "store", ~closed, ~Fresh(key[r]),
           sessions' = [sessions EXCEPT ![key[r]] = sid[r]], Post(r, sid[r]), Use(key[r]),
           lost' = lost \cup ({sessions[key[r]]} \ {None}),
           UNCHANGED <<asked, sessionless, closed, closer, server>>
    PROVE  SessionIInv'
<1> DEFINE k == key[r]
<1> USE DEF SessionIInv, SessionTypeOK, Post, Goto, server, Use
<1>0. k \in Keys /\ sid[r] # None /\ sid[r] \in Ids /\ sid[r] \in issued
  BY DEF RequestsHold
<1>1. SessionTypeOK'
  BY <1>0 DEF MapHolds
<1>2. RequestsHold'
  BY <1>0 DEF RequestsHold
<1>3. MapHolds' /\ CloseIsFinal'
  BY <1>0 DEF MapHolds, CloseIsFinal, OpenedAreOwn
<1>4. OpenedAreOwn'
  BY <1>0 DEF OpenedAreOwn
<1>5. HandshakeFindsRoom' /\ UsedIsFresh'
  BY <1>0 DEF HandshakeFindsRoom, UsedIsFresh, OpenedAreOwn
<1>6. InHand \subseteq InHand' \cup {sid[r]}
  BY DEF InHand
<1>7. Range(sessions) \cup {sid[r]} \subseteq Range(sessions') \cup lost' \cup {None}
  BY <1>0 DEF Range
<1>8. NoSessionLeaked'
  <2>1. /\ live' = live /\ None \notin live /\ closer' # "done"
        /\ asked' = asked /\ lost \subseteq lost'
    BY McpSessionAssumption DEF CloseIsFinal
  <2> QED
    BY <1>5, <1>6, <1>7, <2>1, Zenon DEF NoSessionLeaked, HandshakeFindsRoom
<1>9. NotTerminatedInUse'
  BY <1>0 DEF NotTerminatedInUse, OpenedAreOwn
<1> QED
  BY <1>1, <1>2, <1>3, <1>4, <1>5, <1>8, <1>9

\* ensureSession after the handshake.
LEMMA StoreIInv ==
    ASSUME SessionIInv, NEW r \in Requests, StoreSession(r)
    PROVE  SessionIInv'
<1>1. CASE closed /\ asked' = asked \cup {sid[r]} /\ Return(r)
           /\ UNCHANGED <<sessions, idle, lost>>
  BY <1>1, StoreClosedIInv DEF StoreSession
<1>2. CASE /\ ~closed /\ Fresh(key[r]) /\ asked' = asked \cup Loser(r)
           /\ Post(r, Winner(r)) /\ Use(key[r]) /\ UNCHANGED <<sessions, lost>>
  BY <1>2, StoreLosesIInv DEF StoreSession
<1>3. CASE /\ ~closed /\ ~Fresh(key[r]) /\ sessions' = [sessions EXCEPT ![key[r]] = sid[r]]
           /\ lost' = lost \cup ({sessions[key[r]]} \ {None})
           /\ Post(r, sid[r]) /\ Use(key[r]) /\ UNCHANGED asked
  BY <1>3, StoreWinsIInv, Zenon DEF StoreSession
<1> QED
  BY <1>1, <1>2, <1>3 DEF StoreSession

\* A session that was answered 404 leaves the map, if it is still there, and is lost.
LEMMA GoneIInv ==
    ASSUME SessionIInv, NEW r \in Requests, SessionGone(r)
    PROVE  SessionIInv'
<1> DEFINE k == key[r]
<1> USE DEF SessionIInv, SessionTypeOK, SessionGone, server
<1>0. k \in Keys /\ sid[r] # None /\ sid[r] \in issued
  BY DEF RequestsHold
<1>a. /\ sessions' \in [Keys -> Ids \cup {None}]
      /\ \A l \in Keys : sessions'[l] \in {sessions[l], None}
      /\ \A l \in Keys : sessions'[l] = sessions[l] \/ sessions[l] = sid[r]
  BY <1>0 DEF Drops
<1>b. idle' \subseteq idle /\ \A l \in idle' : sessions'[l] = sessions[l]
  BY <1>0 DEF Drops
<1>1. SessionTypeOK'
  BY <1>0, <1>a, <1>b
<1> HIDE DEF k
<1>2. RequestsHold'
  BY DEF RequestsHold
<1>3. MapHolds' /\ CloseIsFinal'
  BY <1>a DEF MapHolds, CloseIsFinal
<1>4. OpenedAreOwn'
  BY <1>a DEF OpenedAreOwn, RequestsHold
<1>5. HandshakeFindsRoom' /\ UsedIsFresh'
  BY <1>a, <1>b DEF HandshakeFindsRoom, UsedIsFresh
<1>6. InHand' = InHand
  BY DEF InHand
<1>7. Range(sessions) \subseteq Range(sessions') \cup {sid[r]}
  BY <1>a DEF Range
<1>8. NoSessionLeaked'
  <2>1. live' = live /\ lost' = lost \cup {sid[r]} /\ asked' = asked /\ closer' = closer
    OBVIOUS
  <2> QED
    BY <1>5, <1>6, <1>7, <2>1, Zenon DEF NoSessionLeaked, HandshakeFindsRoom
<1>9. NotTerminatedInUse'
  BY DEF NotTerminatedInUse
<1> QED
  BY <1>1, <1>2, <1>3, <1>4, <1>5, <1>8, <1>9

\* The sweeper takes what is idle, which no request uses; Close takes everything.
LEMMA TakeIInv ==
    ASSUME SessionIInv, NEW ks \in SUBSET Keys, TakeSessions(ks),
           ks = idle \/ closed,
           closed' = closed,
           closer' = closer \/ (closed /\ ks = Keys /\ closer' = "done"),
           UNCHANGED <<sessionless, server, lost, request>>
    PROVE  SessionIInv'
<1> USE DEF SessionIInv, SessionTypeOK, server, request
<1>a. sessions' = [k \in Keys |-> IF k \in ks THEN None ELSE sessions[k]] /\ idle' = idle \ ks
  BY DEF TakeSessions, Take
<1>b. asked' = asked \cup ({sessions[k] : k \in ks} \ {None})
  BY DEF TakeSessions
<1>1. SessionTypeOK'
  BY <1>a, <1>b DEF MapHolds
<1>2. RequestsHold'
  BY DEF RequestsHold
<1>3. MapHolds' /\ CloseIsFinal'
  BY <1>a, <1>b DEF MapHolds, CloseIsFinal
<1>4. OpenedAreOwn'
  BY <1>a, <1>b DEF OpenedAreOwn, RequestsHold
<1>5. HandshakeFindsRoom' /\ UsedIsFresh'
  BY <1>a DEF HandshakeFindsRoom, UsedIsFresh
<1>6. InHand' = InHand
  BY DEF InHand
<1>7. Range(sessions) \subseteq Range(sessions') \cup asked' \cup {None}
  BY <1>a, <1>b DEF Range
<1>8. NoSessionLeaked'
  <2>1. /\ live' = live /\ asked \subseteq asked' /\ None \notin live
        /\ closer' = closer \/ Range(sessions') \subseteq {None}
        /\ lost' = lost
    BY <1>a, <1>b, McpSessionAssumption DEF Range
  <2> QED
    BY <1>5, <1>6, <1>7, <2>1 DEF NoSessionLeaked, HandshakeFindsRoom
<1>9. NotTerminatedInUse'
  BY <1>a, <1>b DEF NotTerminatedInUse, UsedIsFresh
<1> QED
  BY <1>1, <1>2, <1>3, <1>4, <1>5, <1>8, <1>9

\* Steps that touch neither the map nor a request.
LEMMA ElsewhereIInv ==
    ASSUME SessionIInv,
           \/ CloseMarks
           \/ TrySessionsAgain
           \/ \E k \in Keys : Age(k)
           \/ \E id \in Ids : ServerForgets(id)
    PROVE  SessionIInv'
<1> USE DEF SessionIInv, SessionTypeOK, CloseMarks, TrySessionsAgain, Age, ServerForgets, Fresh,
        server, request
<1>1. SessionTypeOK'
  BY ZenonT(40)
<1>2. RequestsHold' /\ MapHolds' /\ OpenedAreOwn'
  BY DEF RequestsHold, MapHolds, OpenedAreOwn
<1>3. HandshakeFindsRoom' /\ UsedIsFresh'
  BY DEF HandshakeFindsRoom, UsedIsFresh
<1>4. CloseIsFinal' /\ NotTerminatedInUse'
  BY DEF CloseIsFinal, NotTerminatedInUse
<1>5. NoSessionLeaked'
  <2>1. /\ live' \subseteq live /\ sessions' = sessions /\ asked' = asked /\ InHand' = InHand
        /\ closer' = "done" => closer = "done"
    BY DEF InHand
  <2> QED
    BY <2>1 DEF NoSessionLeaked
<1> QED
  BY <1>1, <1>2, <1>3, <1>4, <1>5

\* Every step of the sessions preserves the invariant.
LEMMA SessionNextIInv == SessionIInv /\ [SessionNext]_sessionVars => SessionIInv'
<1> SUFFICES ASSUME SessionIInv, [SessionNext]_sessionVars PROVE SessionIInv'
  OBVIOUS
<1>1. CASE UNCHANGED sessionVars
  BY <1>1 DEF sessionVars, SessionIInv, SessionTypeOK, RequestsHold, MapHolds, OpenedAreOwn,
     HandshakeFindsRoom, UsedIsFresh, CloseIsFinal, NoSessionLeaked, NotTerminatedInUse, InHand
<1>2. ASSUME NEW r \in Requests, NEW k \in Keys, HandleWithSession(r, k) PROVE SessionIInv'
  BY <1>2, HandleIInv
<1>3. ASSUME NEW r \in Requests, EnsureSession(r) PROVE SessionIInv'
  BY <1>3, EnsureIInv
<1>4. ASSUME NEW r \in Requests, NEW id \in Ids, InitializeOpens(r, id) PROVE SessionIInv'
  BY <1>4, OpensIInv
<1>5. ASSUME NEW r \in Requests, InitializeSessionless(r) \/ InitializeFails(r) PROVE SessionIInv'
  <2>1. sessionless' \in BOOLEAN
    BY <1>5, Zenon DEF InitializeSessionless, InitializeFails, SessionIInv, SessionTypeOK
  <2>2. /\ issued \subseteq issued' /\ issued' \subseteq Ids
        /\ lost \subseteq lost' /\ lost' \subseteq issued'
        /\ live' \subseteq issued' /\ live' \subseteq live \cup lost'
    BY <1>5 DEF InitializeSessionless, InitializeFails, server, SessionIInv, SessionTypeOK
  <2>3. /\ pc[r] = "init" /\ (Return(r) \/ Post(r, None))
        /\ UNCHANGED <<sessions, idle, closed, closer, asked>>
    BY <1>5 DEF InitializeSessionless, InitializeFails, WithoutSession
  <2> QED
    BY <2>1, <2>2, <2>3, NothingInHandIInv
<1>6. ASSUME NEW r \in Requests, StoreSession(r) PROVE SessionIInv'
  BY <1>6, StoreIInv
<1>7. ASSUME NEW r \in Requests, Answered(r) PROVE SessionIInv'
  <2>1. /\ sessionless \in BOOLEAN /\ lost \subseteq issued /\ live \subseteq issued
        /\ issued \subseteq Ids
    BY DEF SessionIInv, SessionTypeOK
  <2> QED
    BY <1>7, <2>1, NothingInHandIInv DEF Answered, server
<1>8. ASSUME NEW r \in Requests, SessionGone(r) PROVE SessionIInv'
  BY <1>8, GoneIInv
<1>9. CASE Sweep
  BY <1>9, TakeIInv DEF Sweep, SessionIInv, SessionTypeOK
<1>10. CASE CloseTakes
  BY <1>10, TakeIInv DEF CloseTakes, SessionIInv, CloseIsFinal
<1>11. CASE CloseMarks \/ TrySessionsAgain \/ (\E k \in Keys : Age(k)) \/ \E id \in Ids : ServerForgets(id)
  BY <1>11, ElsewhereIInv
<1> QED
  BY <1>1, <1>2, <1>3, <1>4, <1>5, <1>6, <1>7, <1>8, <1>9, <1>10, <1>11, SMTT(30) DEF SessionNext

\* SessionIInv is an inductive invariant of the sessions.
THEOREM SessionInductive == SessionSpec => []SessionIInv
  BY SessionInitIInv, SessionNextIInv, PTL DEF SessionSpec

\* No upstream session is leaked, however requests, the sweeper, Close and a server
\* that forgets sessions interleave, other than by a handshake whose answer fails, a
\* 404, or a handshake that outlasts the idle TTL.
THEOREM SessionsAreNotLeaked == SessionSpec => []NoSessionLeaked
<1>1. SessionIInv => NoSessionLeaked
  BY DEF SessionIInv
<1> QED
  BY <1>1, SessionInductive, PTL

\* Neither the sweeper nor a request that lost a race terminates a session that
\* another request is using.
THEOREM SessionsInUseAreSpared == SessionSpec => []NotTerminatedInUse
<1>1. SessionIInv => NotTerminatedInUse
  BY DEF SessionIInv
<1> QED
  BY <1>1, SessionInductive, PTL

\* One step takes a working session out of the map only after a 404 in it, or once
\* the proxy is closed.
KeepsWorking ==
    \A k \in Keys :
        (Fresh(k) /\ sessions[k] \in live /\ sessions'[k] # sessions[k]) =>
            closed \/ sessions[k] \in lost'

\* A step that changes the map replaces or takes an idle session, drops one that was
\* answered 404, fills an empty slot, or is Close's.
LEMMA StepKeepsWorking == SessionIInv /\ [SessionNext]_sessionVars => [KeepsWorking]_sessionVars
<1> SUFFICES ASSUME SessionIInv, SessionNext, NEW k \in Keys, Fresh(k), sessions[k] \in live,
                    sessions'[k] # sessions[k]
             PROVE  closed \/ sessions[k] \in lost'
  BY DEF KeepsWorking
<1> USE DEF SessionIInv, SessionTypeOK
<1>1. ASSUME NEW r \in Requests, EnsureSession(r) \/ StoreSession(r) PROVE closed
  <2>1. key[r] \in Keys
    BY <1>1 DEF EnsureSession, StoreSession, RequestsHold
  <2> QED
    BY <1>1, <2>1 DEF EnsureSession, StoreSession, Fresh
<1>2. ASSUME NEW r \in Requests, SessionGone(r) PROVE sessions[k] \in lost'
  <2>1. key[r] \in Keys
    BY <1>2 DEF SessionGone, RequestsHold
  <2> QED
    BY <1>2, <2>1 DEF SessionGone, Drops, Fresh
<1>3. CASE Sweep
  BY <1>3 DEF Sweep, TakeSessions, Take, Fresh
<1>4. CASE CloseTakes
  BY <1>4, ZenonT(20) DEF CloseTakes, CloseIsFinal
<1>5. UNCHANGED sessions \/ (\E r \in Requests : EnsureSession(r) \/ StoreSession(r) \/ SessionGone(r))
        \/ Sweep \/ CloseTakes
  BY DEF SessionNext, HandleWithSession, InitializeOpens, InitializeSessionless, InitializeFails,
     Answered, CloseMarks, Age, TrySessionsAgain, ServerForgets
<1> QED
  BY <1>1, <1>2, <1>3, <1>4, <1>5

\* A session that works leaves the map only when it is idle, was answered 404, or the
\* proxy is closed.
THEOREM WorkingSessionsAreKept == SessionSpec => WorkingSessionIsKept
<1>1. SessionSpec => [][KeepsWorking]_sessionVars
  BY SessionInductive, StepKeepsWorking, PTL DEF SessionSpec
<1> QED
  BY <1>1 DEF WorkingSessionIsKept, KeepsWorking

-----------------------------------------------------------------------------
(* The process behind two pipes.                                             *)

\* What AnswersPaired asks for.
Even == ~abandoned /\ ~uneven

\* A process that an object has was started, for it alone, and has no lines before
\* that.
ProcessesOwned ==
    /\ \A o \in Objects : cmd[o] # None => process[cmd[o]] # "unborn"
    /\ \A o, p \in Objects : cmd[o] # None /\ cmd[o] = cmd[p] => o = p
    /\ \A q \in Procs : process[q] = "unborn" => stdin[q] = <<>> /\ stdout[q] = <<>>

\* A request inside send has the mutex of its object, and its goroutine, which may
\* outlive it, has a process.
SendHasMutex ==
    \A r \in Requests :
        /\ at[r] = "locking" => object[r] \in Objects
        /\ at[r] = "waiting" => sendMu[object[r]] = r /\ exchange[r] # "none"
        /\ exchange[r] # "none" => /\ at[r] \in {"waiting", "returned"}
                                   /\ object[r] \in Objects
                                   /\ cmd[object[r]] # None

\* A goroutine at the pipes belongs to a request that waits for it.
SendersWait ==
    ~abandoned =>
        \A r \in Requests : exchange[r] \in {"writing", "reading"} => at[r] = "waiting"

Silent(q) == stdin[q] = <<>> /\ stdout[q] = <<>>

\* All that can be in the pipes of a process is the line of r or the answer to it.
HasOnly(q, r) ==
    \/ Silent(q)
    \/ stdin[q] = <<r>> /\ stdout[q] = <<>>
    \/ stdin[q] = <<>> /\ stdout[q] = <<r>>

Reads(r, o) == exchange[r] = "reading" /\ object[r] = o

\* The pipes of an object's process hold what is for the one that reads them; while
\* nobody does, those of a process that runs are empty.
PipesPaired ==
    \A o \in Objects :
        cmd[o] # None =>
            /\ \A r \in Requests : Reads(r, o) => HasOnly(cmd[o], r)
            /\ (\A r \in Requests : ~Reads(r, o)) /\ process[cmd[o]] = "running" => Silent(cmd[o])

LinesPaired == \A r \in Requests : line[r] \in {r, None} /\ answer[r] \in {r, None}

\* The inductive invariant of the transport.
StdioIInv ==
    /\ StdioTypeOK /\ ProcessesOwned /\ SendHasMutex /\ SendersWait
    /\ Even => PipesPaired /\ LinesPaired

\* No process has been started.
LEMMA StdioInitIInv == StdioInit => StdioIInv
<1> SUFFICES ASSUME StdioInit PROVE StdioIInv
  OBVIOUS
<1> USE DEF StdioInit
<1>1. StdioTypeOK
  <2>1. <<>> \in Seq(Requests) /\ <<>> \in Seq(Lines)
    OBVIOUS
  <2> QED
    BY <2>1, Zenon DEF StdioTypeOK
<1>2. ProcessesOwned /\ SendHasMutex /\ SendersWait
  BY DEF ProcessesOwned, SendHasMutex, SendersWait
<1>3. PipesPaired /\ LinesPaired
  BY DEF PipesPaired, LinesPaired
<1> QED
  BY <1>1, <1>2, <1>3 DEF StdioIInv

\* One request at most is at the pipes of an object, until a send is abandoned.
LEMMA OneSender ==
    ASSUME StdioIInv, ~abandoned, NEW r \in Requests, NEW q \in Requests,
           exchange[r] \in {"writing", "reading"}, exchange[q] \in {"writing", "reading"},
           object[r] = object[q]
    PROVE  r = q
  BY DEF StdioIInv, SendHasMutex, SendersWait

\* A step that leaves the pipes, and who reads them, alone.
LEMMA PipesRest ==
    ASSUME StdioIInv, Even, UNCHANGED <<cmd, stdin, stdout>>,
           \A q \in Procs : process'[q] = "running" => process[q] = "running",
           \A r \in Requests : exchange'[r] = "reading" <=> exchange[r] = "reading",
           \A r \in Requests : exchange[r] = "reading" => object'[r] = object[r]
    PROVE  PipesPaired'
<1>1. \A r \in Requests, o \in Objects : Reads(r, o)' <=> Reads(r, o)
  BY DEF Reads
<1>2. \A o \in Objects : cmd[o] # None => cmd[o] \in Procs
  BY DEF StdioIInv, StdioTypeOK
<1> QED
  BY <1>1, <1>2, Zenon DEF StdioIInv, PipesPaired, HasOnly, Silent

\* handleStdio up to the mutex: the field and where the request is change, and a
\* request that is to lock an object has found one.
LEMMA ApproachIInv ==
    ASSUME StdioIInv, NEW r \in Requests, HandleStdio(r) \/ NewProcess(r) \/ Call(r)
    PROVE  StdioIInv'
<1> USE DEF StdioIInv, StdioTypeOK
<1>a. /\ UNCHANGED <<cmd, sendMu, process, stdin, stdinShut, stdout, exchange, line, answer>>
      /\ UNCHANGED <<abandoned, uneven, ending>>
      /\ panicked' \in BOOLEAN
      /\ stdio' \in Objects \cup {None}
  BY ZenonT(20) DEF HandleStdio, NewProcess, Call, processes, Panic
<1>b. \/ at' = at
      \/ \E where \in {"allocating", "starting", "calling", "locking"} :
            at' = [at EXCEPT ![r] = where]
  BY ZenonT(20) DEF HandleStdio, NewProcess, Call, AtPoint
<1>c. \/ object' = object /\ at'[r] # "locking"
      \/ stdio \in Objects /\ object' = [object EXCEPT ![r] = stdio]
      \/ object' = object /\ at' = at
  BY ZenonT(20) DEF HandleStdio, NewProcess, Call, AtPoint
<1>d. at[r] \in {"idle", "allocating", "calling"} /\ exchange[r] = "none"
  BY ZenonT(20) DEF HandleStdio, NewProcess, Call, SendHasMutex
<1>1. StdioTypeOK'
  <2>1. at' \in [Requests -> {"idle", "allocating", "starting", "calling", "locking", "waiting",
                             "returned"}]
    BY <1>b, ZenonT(20)
  <2>2. object' \in [Requests -> Objects \cup {None}]
    BY <1>c, ZenonT(20)
  <2> QED
    BY <1>a, <2>1, <2>2, ZenonT(20)
<1>2. \A q \in Requests \ {r} : at'[q] = at[q] /\ object'[q] = object[q]
  BY <1>b, <1>c, ZenonT(20)
<1>3. ProcessesOwned'
  BY <1>a, ZenonT(20) DEF ProcessesOwned
<1>4. SendHasMutex'
  <2>1. at'[r] # "waiting" /\ (at'[r] = "locking" => object'[r] \in Objects)
    BY <1>b, <1>c, <1>d, ZenonT(20)
  <2> QED
    BY <1>a, <1>2, <1>d, <2>1, ZenonT(20) DEF SendHasMutex
<1>5. SendersWait'
  BY <1>a, <1>2, <1>d, ZenonT(20) DEF SendersWait
<1>6. ASSUME Even' PROVE PipesPaired' /\ LinesPaired'
  <2>1. Even
    BY <1>6, <1>a, ZenonT(20) DEF Even
  <2>2. \A q \in Requests : exchange[q] = "reading" => object'[q] = object[q]
    BY <1>2, <1>d, ZenonT(20)
  <2>3. PipesPaired'
    BY <1>a, <2>1, <2>2, PipesRest, ZenonT(20)
  <2> QED
    BY <1>a, <2>1, <2>3, ZenonT(20) DEF LinesPaired
<1> QED
  BY <1>1, <1>3, <1>4, <1>5, <1>6, ZenonT(20)

\* A start fails, panics, or gives the object in the field a new process, whose
\* pipes are empty.
LEMMA StartIInv ==
    ASSUME StdioIInv, NEW r \in Requests, Start(r)
    PROVE  StdioIInv'
<1> USE DEF StdioIInv, StdioTypeOK
<1>a. /\ UNCHANGED <<sendMu, stdin, stdinShut, stdout, object, exchange, line, answer, abandoned,
                     uneven, ending>>
      /\ at' \in [Requests -> {"idle", "allocating", "starting", "calling", "locking", "waiting",
                              "returned"}]
      /\ at'[r] \notin {"locking", "waiting"} /\ \A q \in Requests \ {r} : at'[q] = at[q]
      /\ at[r] = "starting"
  BY ZenonT(20) DEF Start, Fail, Panic, AtPoint
<1>b. \/ UNCHANGED <<cmd, process>>
      \/ \E q \in Procs : /\ stdio \in Objects
                          /\ process[q] = "unborn"
                          /\ cmd' = [cmd EXCEPT ![stdio] = q]
                          /\ process' = [process EXCEPT ![q] = "running"]
  BY Zenon DEF Start, Fail, Panic, Becomes
<1>1. StdioTypeOK'
  <2>1. stdio' \in Objects \cup {None} /\ panicked' \in BOOLEAN
    BY ZenonT(40) DEF Start, Fail, Panic
  <2> QED
    BY <1>a, <1>b, <2>1, ZenonT(40)
<1>2. exchange[r] = "none"
  BY <1>a, ZenonT(20) DEF SendHasMutex
<1>3. SendersWait'
  BY <1>a, <1>2, ZenonT(20) DEF SendersWait
<1>4. ASSUME Even' PROVE Even /\ LinesPaired'
  BY <1>4, <1>a, ZenonT(20) DEF Even, LinesPaired
<1>5. CASE UNCHANGED <<cmd, process>>
  <2>1. ProcessesOwned'
    BY <1>5, <1>a, ZenonT(20) DEF ProcessesOwned
  <2>2. SendHasMutex'
    BY <1>5, <1>a, <1>2, ZenonT(20) DEF SendHasMutex
  <2>3. ASSUME Even' PROVE PipesPaired'
    BY <1>4, <1>5, <1>a, <2>3, PipesRest, ZenonT(20)
  <2> QED
    BY <1>1, <1>3, <1>4, <2>1, <2>2, <2>3, ZenonT(20)
<1>6. ASSUME NEW q \in Procs, stdio \in Objects, process[q] = "unborn",
             cmd' = [cmd EXCEPT ![stdio] = q], process' = [process EXCEPT ![q] = "running"]
      PROVE  StdioIInv'
  <2>0. q # None
    BY McpStdioAssumption
  <2>1. /\ cmd'[stdio] = q
        /\ \A o \in Objects \ {stdio} : cmd'[o] = cmd[o] /\ (cmd[o] # None => cmd[o] # q)
    BY <1>6, ZenonT(20) DEF ProcessesOwned
  <2>2. process'[q] = "running" /\ \A p \in Procs \ {q} : process'[p] = process[p]
    BY <1>6, ZenonT(20)
  <2>3. ProcessesOwned'
    <3>1. ASSUME NEW o \in Objects, cmd'[o] # None PROVE process'[cmd'[o]] # "unborn"
      <4>1. CASE o = stdio
        BY <2>1, <2>2, <4>1
      <4>2. CASE o # stdio
        <5>1. cmd[o] \in Procs \ {q} /\ cmd'[o] = cmd[o]
          BY <2>1, <3>1, <4>2
        <5> QED
          BY <2>2, <3>1, <5>1, Zenon DEF ProcessesOwned
      <4> QED
        BY <4>1, <4>2
    <3>2. \A o, p \in Objects : cmd'[o] # None /\ cmd'[o] = cmd'[p] => o = p
      BY <2>0, <2>1, ZenonT(20) DEF ProcessesOwned
    <3>3. \A p \in Procs : process'[p] = "unborn" => stdin'[p] = <<>> /\ stdout'[p] = <<>>
      BY <1>a, <2>2, ZenonT(20) DEF ProcessesOwned
    <3> QED
      BY <3>1, <3>2, <3>3 DEF ProcessesOwned
  <2>4. SendHasMutex'
    <3>1. \A o \in Objects : cmd[o] # None => cmd'[o] # None
      BY <2>0, <2>1, Zenon
    <3> QED
      BY <1>a, <1>2, <3>1, ZenonT(20) DEF SendHasMutex
  <2>5. ASSUME Even' PROVE PipesPaired'
    <3>1. PipesPaired
      BY <1>4, <2>5
    <3>2. Silent(q)'
      BY <1>6, <1>a, ZenonT(20) DEF ProcessesOwned, Silent
    <3>3. \A t \in Requests, o \in Objects : Reads(t, o)' <=> Reads(t, o)
      BY <1>a, ZenonT(20) DEF Reads
    <3> SUFFICES ASSUME NEW o \in Objects, cmd'[o] # None
                 PROVE  /\ \A t \in Requests : Reads(t, o)' => HasOnly(cmd[o], t)'
                        /\ (\A t \in Requests : ~Reads(t, o)') /\ process'[cmd'[o]] = "running"
                              => Silent(cmd[o])'
      BY Zenon DEF PipesPaired
    <3>4. CASE o = stdio
      BY <2>1, <3>2, <3>4, Zenon DEF HasOnly
    <3>5. CASE o # stdio
      <4>1. cmd'[o] = cmd[o] /\ cmd[o] \in Procs /\ cmd[o] # q
        BY <2>1, <3>5
      <4>2. process'[cmd[o]] = process[cmd[o]] /\ cmd'[o] = cmd[o]
        BY <2>2, <4>1
      <4> QED
        BY <1>a, <3>1, <3>3, <4>1, <4>2, Zenon DEF PipesPaired, HasOnly, Silent
    <3> QED
      BY <3>4, <3>5
  <2> QED
    BY <1>1, <1>3, <1>4, <2>3, <2>4, <2>5, ZenonT(20)
<1> QED
  BY <1>b, <1>5, <1>6, Zenon

\* A request enters send with the mutex of its object.
LEMMA SendIInv ==
    ASSUME StdioIInv, NEW r \in Requests, Send(r)
    PROVE  StdioIInv'
<1> USE DEF StdioIInv, StdioTypeOK
<1>a. /\ UNCHANGED <<stdio, cmd, process, stdin, stdinShut, stdout, object, line, answer, abandoned,
                     uneven, ending>>
      /\ at[r] = "locking" /\ object[r] \in Objects /\ exchange[r] = "none"
  BY DEF Send, Fail, Panic, processes, SendHasMutex
<1>b. ProcessesOwned'
  BY <1>a, ZenonT(20) DEF ProcessesOwned
<1>c. ASSUME Even' PROVE Even /\ LinesPaired'
  BY <1>a, <1>c, ZenonT(20) DEF Even, LinesPaired
<1>d. panicked' \in BOOLEAN
  BY ZenonT(20) DEF Send, Panic
<1>1. CASE UNCHANGED <<sendMu, exchange>> /\ at' \in {at, [at EXCEPT ![r] = "returned"]}
  <2>1. StdioTypeOK'
    BY <1>1, <1>a, <1>d, ZenonT(20)
  <2>2. SendHasMutex' /\ SendersWait'
    <3>1. at'[r] \in {"locking", "returned"} /\ \A q \in Requests \ {r} : at'[q] = at[q]
      BY <1>1, <1>a
    <3> QED
      BY <1>1, <1>a, <3>1, ZenonT(20) DEF SendHasMutex, SendersWait
  <2>3. ASSUME Even' PROVE PipesPaired'
    BY <1>1, <1>a, <1>c, <2>3, PipesRest, ZenonT(20)
  <2> QED
    BY <1>b, <1>c, <2>1, <2>2, <2>3, ZenonT(20)
<1>2. CASE /\ cmd[object[r]] # None /\ sendMu[object[r]] = None
           /\ sendMu' = [sendMu EXCEPT ![object[r]] = r]
           /\ exchange' = [exchange EXCEPT ![r] = "writing"]
           /\ at' = [at EXCEPT ![r] = "waiting"]
  <2>1. StdioTypeOK'
    BY <1>2, <1>a, <1>d, ZenonT(20)
  <2>2. SendHasMutex'
    <3>1. ASSUME NEW q \in Requests, q # r, at[q] = "waiting" PROVE object[q] # object[r]
      BY <1>2, <3>1, McpStdioAssumption DEF SendHasMutex
    <3>2. sendMu'[object[r]] = r /\ \A o \in Objects \ {object[r]} : sendMu'[o] = sendMu[o]
      BY <1>2, <1>a, ZenonT(20)
    <3>3. /\ at'[r] = "waiting" /\ exchange'[r] = "writing"
          /\ \A q \in Requests \ {r} : at'[q] = at[q] /\ exchange'[q] = exchange[q]
      BY <1>2, ZenonT(20)
    <3> SUFFICES ASSUME NEW q \in Requests
                 PROVE  /\ at'[q] = "locking" => object'[q] \in Objects
                        /\ at'[q] = "waiting" => sendMu'[object'[q]] = q /\ exchange'[q] # "none"
                        /\ exchange'[q] # "none" => /\ at'[q] \in {"waiting", "returned"}
                                                   /\ object'[q] \in Objects
                                                   /\ cmd'[object'[q]] # None
      BY Zenon DEF SendHasMutex
    <3>4. CASE q = r
      BY <1>2, <1>a, <3>2, <3>3, <3>4, ZenonT(20)
    <3>5. CASE q # r
      <4>1. at[q] = "waiting" => object[q] \in Objects \ {object[r]}
        BY <3>1, <3>5, ZenonT(20) DEF SendHasMutex
      <4> QED
        BY <1>a, <3>2, <3>3, <3>5, <4>1, ZenonT(20) DEF SendHasMutex
    <3> QED
      BY <3>4, <3>5
  <2>3. SendersWait'
    BY <1>2, <1>a, ZenonT(20) DEF SendersWait
  <2>4. ASSUME Even' PROVE PipesPaired'
    <3>1. \A q \in Requests : exchange'[q] = "reading" <=> exchange[q] = "reading"
      BY <1>2, <1>a, ZenonT(20)
    <3> QED
      BY <1>a, <1>c, <2>4, <3>1, PipesRest, ZenonT(20)
  <2> QED
    BY <1>b, <1>c, <2>1, <2>2, <2>3, <2>4, ZenonT(20)
<1> QED
  BY <1>1, <1>2, ZenonT(20) DEF Send, Fail, Panic, AtPoint, MayEnter

\* A line is written to a process that runs, whose pipes are empty because this
\* request alone is at them.
LEMMA WriteIInv ==
    ASSUME StdioIInv, NEW r \in Requests, Write(r)
    PROVE  StdioIInv'
<1> DEFINE c == object[r]
<1> DEFINE q == cmd[c]
<1> USE DEF StdioIInv, StdioTypeOK
<1>a. /\ UNCHANGED <<stdio, cmd, sendMu, process, stdinShut, stdout, at, object, line, answer,
                     abandoned, ending, panicked>>
      /\ exchange[r] = "writing"
      /\ c \in Objects /\ q \in Procs /\ q # None /\ process[q] # "unborn"
  BY McpStdioAssumption DEF Write, SendHasMutex, ProcessesOwned
<1>1. ASSUME NEW n \in 1 .. MaxLines, process[q] = "running",
             stdin' = [stdin EXCEPT ![q] = @ \o [i \in 1 .. n |-> r]],
             uneven' = (uneven \/ n # 1),
             exchange' = [exchange EXCEPT ![r] = "reading"]
      PROVE  StdioIInv'
  <2>1. StdioTypeOK'
    <3>1. [i \in 1 .. n |-> r] \in Seq(Requests)
      OBVIOUS
    <3>2. stdin[q] \o [i \in 1 .. n |-> r] \in Seq(Requests)
      BY <1>a, <3>1
    <3>3. stdin' \in [Procs -> Seq(Requests)] /\ uneven' \in BOOLEAN
      BY <1>1, <1>a, <3>2, ZenonT(20)
    <3> QED
      BY <1>1, <1>a, <3>3, ZenonT(20)
  <2>2. \A p \in Procs \ {q} : stdin'[p] = stdin[p]
    BY <1>1, ZenonT(20)
  <2>3. ProcessesOwned'
    BY <1>1, <1>a, <2>2, ZenonT(20) DEF ProcessesOwned
  <2>4. exchange'[r] = "reading" /\ \A t \in Requests \ {r} : exchange'[t] = exchange[t]
    BY <1>1, ZenonT(20)
  <2>5. SendHasMutex' /\ SendersWait'
    BY <1>a, <2>4, ZenonT(20) DEF SendHasMutex, SendersWait
  <2>6. ASSUME Even' PROVE PipesPaired' /\ LinesPaired'
    <3>1. Even /\ n = 1
      BY <1>1, <1>a, <2>6 DEF Even
    <3>2. \A t \in Requests : ~Reads(t, c)
      BY <1>a, <3>1, OneSender DEF Reads, Even
    <3>3. Silent(q)
      BY <1>1, <1>a, <3>1, <3>2, Zenon DEF PipesPaired
    <3>4. stdin'[q] = <<r>> /\ stdout'[q] = <<>>
      <4>1. stdin'[q] = <<>> \o [i \in 1 .. 1 |-> r]
        BY <1>1, <1>a, <3>1, <3>3, ZenonT(20) DEF Silent
      <4>2. <<>> \o [i \in 1 .. 1 |-> r] = <<r>>
        OBVIOUS
      <4> QED
        BY <1>a, <3>3, <4>1, <4>2, Zenon DEF Silent
    <3> SUFFICES ASSUME NEW o \in Objects, cmd'[o] # None
                 PROVE  /\ \A t \in Requests : Reads(t, o)' => HasOnly(cmd[o], t)'
                        /\ (\A t \in Requests : ~Reads(t, o)') /\ process'[cmd'[o]] = "running"
                              => Silent(cmd[o])'
      BY <1>a, <3>1, Zenon DEF PipesPaired, LinesPaired
    <3>5. CASE o = c
      <4>1. \A t \in Requests : Reads(t, o)' <=> t = r
        BY <1>a, <2>4, <3>2, <3>5, Zenon DEF Reads
      <4> QED
        BY <1>a, <3>4, <3>5, <4>1, Zenon DEF HasOnly
    <3>6. CASE o # c
      <4>1. cmd[o] # None /\ cmd[o] # q /\ cmd[o] \in Procs
        BY <1>a, <3>6 DEF ProcessesOwned
      <4>2. \A t \in Requests : Reads(t, o)' <=> Reads(t, o)
        BY <1>a, <2>4, <3>6, Zenon DEF Reads
      <4>3. stdin'[cmd[o]] = stdin[cmd[o]]
        BY <2>2, <4>1
      <4> QED
        BY <1>a, <3>1, <4>1, <4>2, <4>3, Zenon DEF PipesPaired, HasOnly, Silent
    <3> QED
      BY <3>5, <3>6
  <2> QED
    BY <2>1, <2>3, <2>5, <2>6, ZenonT(20)
<1>2. CASE UNCHANGED <<stdin, uneven>> /\ exchange' = [exchange EXCEPT ![r] = "finished"]
  <2>1. StdioTypeOK' /\ ProcessesOwned'
    BY <1>2, <1>a, ZenonT(20) DEF ProcessesOwned
  <2>2. exchange'[r] = "finished" /\ \A t \in Requests \ {r} : exchange'[t] = exchange[t]
    BY <1>2, ZenonT(20)
  <2>3. SendHasMutex' /\ SendersWait'
    BY <1>a, <2>2, ZenonT(20) DEF SendHasMutex, SendersWait
  <2>4. ASSUME Even' PROVE PipesPaired' /\ LinesPaired'
    <3>1. Even /\ LinesPaired'
      BY <1>2, <1>a, <2>4, ZenonT(20) DEF Even, LinesPaired
    <3>2. \A t \in Requests : exchange'[t] = "reading" <=> exchange[t] = "reading"
      BY <1>a, <2>2, Zenon
    <3> QED
      BY <1>2, <1>a, <3>1, <3>2, PipesRest, ZenonT(20)
  <2> QED
    BY <2>1, <2>3, <2>4, ZenonT(20)
<1> QED
  BY <1>1, <1>2, ZenonT(20) DEF Write

\* The reader takes the answer to its own line, or finds its process gone.
LEMMA ReadLineIInv ==
    ASSUME StdioIInv, NEW r \in Requests, ReadLine(r)
    PROVE  StdioIInv'
<1> DEFINE c == object[r]
<1> DEFINE q == cmd[c]
<1> USE DEF StdioIInv, StdioTypeOK
<1>a. /\ UNCHANGED <<stdio, cmd, sendMu, process, stdin, stdinShut, at, object, answer, abandoned,
                     uneven, ending, panicked>>
      /\ exchange[r] = "reading"
      /\ exchange' = [exchange EXCEPT ![r] = "finished"]
      /\ c \in Objects /\ q \in Procs /\ q # None /\ process[q] # "unborn"
  BY McpStdioAssumption DEF ReadLine, SendHasMutex, ProcessesOwned
<1>b. exchange'[r] = "finished" /\ \A t \in Requests \ {r} : exchange'[t] = exchange[t]
  BY <1>a, ZenonT(20)
<1>c. SendHasMutex' /\ SendersWait'
  BY <1>a, <1>b, ZenonT(20) DEF SendHasMutex, SendersWait
<1>d. /\ \A p \in Procs \ {q} : stdout'[p] = stdout[p]
      /\ \A t \in Requests \ {r} : line'[t] = line[t]
  BY <1>a, ZenonT(20) DEF ReadLine
<1>e. ProcessesOwned'
  BY <1>a, <1>d, ZenonT(20) DEF ProcessesOwned
<1>f. ASSUME Even', line'[r] \in {r, None}, process[q] = "running" => Silent(q)'
      PROVE  PipesPaired' /\ LinesPaired'
  <2>1. Even
    BY <1>a, <1>f, ZenonT(20) DEF Even
  <2>2. LinesPaired'
    BY <1>a, <1>d, <1>f, <2>1, ZenonT(20) DEF LinesPaired
  <2>3. \A t \in Requests : Reads(t, c) => t = r
    BY <1>a, <2>1, OneSender DEF Reads, Even
  <2> SUFFICES ASSUME NEW o \in Objects, cmd'[o] # None
               PROVE  /\ \A t \in Requests : Reads(t, o)' => HasOnly(cmd[o], t)'
                      /\ (\A t \in Requests : ~Reads(t, o)') /\ process'[cmd'[o]] = "running"
                            => Silent(cmd[o])'
    BY <2>2, Zenon DEF PipesPaired
  <2>4. CASE o = c
    <3>1. \A t \in Requests : ~Reads(t, o)'
      BY <1>a, <1>b, <2>3, <2>4, Zenon DEF Reads
    <3> QED
      BY <1>a, <1>f, <2>4, <3>1, Zenon
  <2>5. CASE o # c
    <3>1. cmd[o] # None /\ cmd[o] # q /\ cmd[o] \in Procs
      BY <1>a, <2>5 DEF ProcessesOwned
    <3>2. \A t \in Requests : Reads(t, o)' <=> Reads(t, o)
      BY <1>a, <1>b, <2>5, Zenon DEF Reads
    <3>3. stdout'[cmd[o]] = stdout[cmd[o]]
      BY <1>d, <3>1
    <3> QED
      BY <1>a, <2>1, <3>1, <3>2, <3>3, Zenon DEF PipesPaired, HasOnly, Silent
  <2> QED
    BY <2>4, <2>5
<1>1. CASE /\ stdout[q] # <<>>
           /\ line' = [line EXCEPT ![r] = Head(stdout[q])]
           /\ stdout' = [stdout EXCEPT ![q] = Tail(@)]
  <2>1. StdioTypeOK'
    <3>1. Head(stdout[q]) \in Lines /\ Tail(stdout[q]) \in Seq(Lines)
      BY <1>1, <1>a
    <3> QED
      BY <1>1, <1>a, <3>1, ZenonT(20)
  <2>2. ASSUME Even' PROVE line'[r] \in {r, None} /\ Silent(q)'
    <3>1. HasOnly(q, r)
      BY <1>a, <2>2, Zenon DEF PipesPaired, Reads, Even
    <3>2. stdin[q] = <<>> /\ stdout[q] = <<r>>
      BY <1>1, <3>1, Zenon DEF HasOnly, Silent
    <3>3. line'[r] = Head(stdout[q]) /\ stdout'[q] = Tail(stdout[q]) /\ stdin'[q] = stdin[q]
      BY <1>1, <1>a, ZenonT(20)
    <3>4. Head(<<r>>) = r /\ Tail(<<r>>) = <<>>
      OBVIOUS
    <3> QED
      BY <1>a, <3>2, <3>3, <3>4, Zenon DEF Silent
  <2> QED
    BY <1>c, <1>e, <1>f, <2>1, <2>2, ZenonT(20)
<1>2. CASE process[q] # "running" /\ UNCHANGED <<line, stdout>>
  <2>1. StdioTypeOK'
    BY <1>2, <1>a, ZenonT(20)
  <2>2. Even' => line'[r] \in {r, None}
    BY <1>2, <1>a, ZenonT(20) DEF Even, LinesPaired
  <2> QED
    BY <1>2, <1>c, <1>e, <1>f, <2>1, <2>2, ZenonT(20)
<1> QED
  BY <1>1, <1>2, ZenonT(20) DEF ReadLine

\* send returns with the line of its goroutine; where it does not wait for it,
\* abandoned says so.
LEMMA SendReturnsIInv ==
    ASSUME StdioIInv, NEW r \in Requests, SendReturns(r)
    PROVE  StdioIInv'
<1> USE DEF StdioIInv, StdioTypeOK
<1>a. /\ UNCHANGED <<stdio, cmd, process, stdin, stdinShut, stdout, object, exchange, line, uneven,
                     ending, panicked>>
      /\ at[r] = "waiting" /\ at' = [at EXCEPT ![r] = "returned"]
      /\ sendMu' = [sendMu EXCEPT ![object[r]] = None]
      /\ answer' \in {answer, [answer EXCEPT ![r] = line[r]]}
      /\ abandoned' \in BOOLEAN
      /\ ~abandoned' => ~abandoned /\ exchange[r] = "finished"
  BY Zenon DEF SendReturns, processes, AtPoint, Release
<1>1. StdioTypeOK' /\ ProcessesOwned'
  BY <1>a, ZenonT(40) DEF ProcessesOwned
<1>2. SendHasMutex'
  <2>1. ASSUME NEW q \in Requests, q # r, at[q] = "waiting" PROVE object[q] # object[r]
    BY <1>a, <2>1 DEF SendHasMutex
  <2>2. at'[r] = "returned" /\ \A q \in Requests \ {r} : at'[q] = at[q]
    BY <1>a, ZenonT(20)
  <2>3. \A o \in Objects : o # object[r] => sendMu'[o] = sendMu[o]
    BY <1>a, ZenonT(20)
  <2>4. \A q \in Requests : at[q] = "waiting" => object[q] \in Objects
    BY ZenonT(20) DEF SendHasMutex
  <2> QED
    BY <1>a, <2>1, <2>2, <2>3, <2>4, ZenonT(40) DEF SendHasMutex
<1>3. SendersWait'
  BY <1>a, ZenonT(20) DEF SendersWait
<1>4. ASSUME Even' PROVE PipesPaired' /\ LinesPaired'
  <2>1. Even
    BY <1>a, <1>4, ZenonT(20) DEF Even
  <2>2. PipesPaired'
    BY <1>a, <2>1, PipesRest, ZenonT(20)
  <2>3. LinesPaired'
    BY <1>a, <2>1, ZenonT(20) DEF LinesPaired
  <2> QED
    BY <2>2, <2>3
<1> QED
  BY <1>1, <1>2, <1>3, <1>4, ZenonT(20)

\* The server answers the line of the one that reads, or lines are uneven.
LEMMA ServerAnswersIInv ==
    ASSUME StdioIInv, NEW q \in Procs, ServerAnswers(q)
    PROVE  StdioIInv'
<1> USE DEF StdioIInv, StdioTypeOK
<1>a. /\ UNCHANGED <<stdio, cmd, sendMu, process, stdinShut, at, object, exchange, line, answer,
                     abandoned, ending, panicked>>
      /\ process[q] = "running" /\ stdin[q] # <<>>
      /\ stdin' = [stdin EXCEPT ![q] = Tail(@)]
      /\ \/ stdout' = [stdout EXCEPT ![q] = Append(@, Head(stdin[q]))] /\ uneven' = uneven
         \/ stdout' = stdout /\ uneven' = TRUE
  BY DEF ServerAnswers, AtWork
<1>b. PICK c \in Objects : cmd[c] = q
  BY Zenon DEF ServerAnswers, AtWork
<1>c. \A p \in Procs \ {q} : stdin'[p] = stdin[p] /\ stdout'[p] = stdout[p]
  BY <1>a, ZenonT(20)
<1>1. StdioTypeOK'
  <2>1. Head(stdin[q]) \in Requests /\ Tail(stdin[q]) \in Seq(Requests)
    BY <1>a
  <2>2. Append(stdout[q], Head(stdin[q])) \in Seq(Lines)
    BY <2>1 DEF Lines
  <2>3. stdout' \in [Procs -> Seq(Lines)] /\ uneven' \in BOOLEAN
    BY <1>a, <2>2, ZenonT(20)
  <2> QED
    BY <1>a, <2>1, <2>3, ZenonT(20)
<1>2. ProcessesOwned'
  BY <1>a, <1>c, ZenonT(20) DEF ProcessesOwned
<1>3. SendHasMutex' /\ SendersWait'
  BY <1>a, ZenonT(20) DEF SendHasMutex, SendersWait
<1>4. ASSUME Even' PROVE PipesPaired' /\ LinesPaired'
  <2>1. Even /\ stdout' = [stdout EXCEPT ![q] = Append(@, Head(stdin[q]))]
    BY <1>a, <1>4 DEF Even
  <2>2. q # None
    BY McpStdioAssumption
  <2>3. PICK r \in Requests : Reads(r, c)
    BY <1>a, <1>b, <2>1, <2>2, Zenon DEF PipesPaired, Silent
  <2>4. stdin[q] = <<r>> /\ stdout[q] = <<>>
    BY <1>a, <1>b, <2>1, <2>2, <2>3, Zenon DEF PipesPaired, HasOnly, Silent
  <2>5. stdin'[q] = <<>> /\ stdout'[q] = <<r>>
    <3>1. stdin'[q] = Tail(<<r>>) /\ stdout'[q] = Append(<<>>, Head(<<r>>))
      BY <1>a, <2>1, <2>4, ZenonT(20)
    <3>2. Tail(<<r>>) = <<>> /\ Append(<<>>, Head(<<r>>)) = <<r>>
      OBVIOUS
    <3> QED
      BY <3>1, <3>2, Zenon
  <2>6. \A t \in Requests : Reads(t, c) => t = r
    BY <2>1, <2>3, OneSender DEF Reads, Even
  <2>7. \A t \in Requests, o \in Objects : Reads(t, o)' <=> Reads(t, o)
    BY <1>a, ZenonT(20) DEF Reads
  <2> SUFFICES ASSUME NEW o \in Objects, cmd'[o] # None
               PROVE  /\ \A t \in Requests : Reads(t, o)' => HasOnly(cmd[o], t)'
                      /\ (\A t \in Requests : ~Reads(t, o)') /\ process'[cmd'[o]] = "running"
                            => Silent(cmd[o])'
    BY <1>a, <2>1, Zenon DEF PipesPaired, LinesPaired
  <2>8. CASE o = c
    BY <1>a, <1>b, <2>3, <2>5, <2>6, <2>7, <2>8, Zenon DEF HasOnly
  <2>9. CASE o # c
    <3>1. cmd[o] # None /\ cmd[o] # q /\ cmd[o] \in Procs
      BY <1>a, <1>b, <2>9 DEF ProcessesOwned
    <3>2. stdin'[cmd[o]] = stdin[cmd[o]] /\ stdout'[cmd[o]] = stdout[cmd[o]]
      BY <1>c, <3>1
    <3> QED
      BY <1>a, <2>1, <2>7, <3>1, <3>2, Zenon DEF PipesPaired, HasOnly, Silent
  <2> QED
    BY <2>8, <2>9
<1> QED
  BY <1>1, <1>2, <1>3, <1>4, ZenonT(20)

\* A line of the server's own makes lines uneven.
LEMMA ServerNotifiesIInv ==
    ASSUME StdioIInv, NEW q \in Procs, ServerNotifies(q)
    PROVE  StdioIInv'
<1> USE DEF StdioIInv, StdioTypeOK
<1>a. /\ UNCHANGED <<stdio, cmd, sendMu, process, stdin, stdinShut, at, object, exchange, line,
                     answer, abandoned, ending, panicked>>
      /\ process[q] = "running" /\ uneven' = TRUE
      /\ stdout' = [stdout EXCEPT ![q] = Append(@, "note")]
  BY DEF ServerNotifies, AtWork
<1>1. StdioTypeOK'
  <2>1. Append(stdout[q], "note") \in Seq(Lines)
    BY DEF Lines
  <2> QED
    BY <1>a, <2>1, ZenonT(20)
<1>2. ProcessesOwned'
  <2>1. \A p \in Procs \ {q} : stdout'[p] = stdout[p]
    BY <1>a, ZenonT(20)
  <2> QED
    BY <1>a, <2>1, ZenonT(20) DEF ProcessesOwned
<1>3. SendHasMutex' /\ SendersWait'
  BY <1>a, ZenonT(20) DEF SendHasMutex, SendersWait
<1> QED
  BY <1>1, <1>2, <1>3, <1>a, ZenonT(20) DEF Even

\* A process that exits or is reaped has whatever is left in its pipes.
LEMMA ProcessEndsIInv ==
    ASSUME StdioIInv, CloseStdio \/ \E q \in Procs : ServerExits(q)
    PROVE  StdioIInv'
<1> USE DEF StdioIInv, StdioTypeOK
<1>a. /\ UNCHANGED <<stdio, cmd, sendMu, stdin, stdout, at, object, exchange, line, answer,
                     abandoned, uneven, panicked>>
      /\ stdinShut' \subseteq Procs /\ ending' \in Procs \cup {"idle", "done"}
      /\ \/ process' = process
         \/ \E p \in Procs, what \in {"exited", "reaped"} : process' = [process EXCEPT ![p] = what]
  <2>1. Current # None => Current \in Procs
    BY ZenonT(20) DEF Current
  <2> QED
    BY <2>1, ZenonT(20) DEF CloseStdio, ServerExits, Becomes
<1>b. \A p \in Procs : process'[p] = process[p] \/ process'[p] \in {"exited", "reaped"}
  BY <1>a, ZenonT(20)
<1>1. StdioTypeOK'
  BY <1>a, ZenonT(20)
<1>2. ProcessesOwned'
  <2>1. \A o \in Objects : cmd[o] # None => cmd[o] \in Procs
    OBVIOUS
  <2> QED
    BY <1>a, <1>b, <2>1, ZenonT(20) DEF ProcessesOwned
<1>3. SendHasMutex' /\ SendersWait'
  BY <1>a, ZenonT(20) DEF SendHasMutex, SendersWait
<1>4. ASSUME Even' PROVE PipesPaired' /\ LinesPaired'
  <2>1. Even /\ LinesPaired'
    BY <1>a, <1>4, ZenonT(20) DEF Even, LinesPaired
  <2>2. \A q \in Procs : process'[q] = "running" => process[q] = "running"
    BY <1>b, ZenonT(20)
  <2> QED
    BY <1>a, <2>1, <2>2, PipesRest, ZenonT(20)
<1> QED
  BY <1>1, <1>2, <1>3, <1>4, ZenonT(20)

\* Every step of the transport preserves the invariant.
LEMMA StdioNextIInv == StdioIInv /\ [StdioNext]_stdioVars => StdioIInv'
<1> SUFFICES ASSUME StdioIInv, [StdioNext]_stdioVars PROVE StdioIInv'
  OBVIOUS
<1>1. CASE UNCHANGED stdioVars
  <2>1. /\ UNCHANGED <<stdio, cmd, sendMu, process, stdin, stdinShut, stdout, at, object, exchange>>
        /\ UNCHANGED <<line, answer, abandoned, uneven, ending, panicked>>
    BY <1>1, ZenonT(20) DEF stdioVars, processes
  <2>2. StdioTypeOK' /\ ProcessesOwned' /\ SendHasMutex' /\ SendersWait'
    BY <2>1, SMTT(30) DEF StdioIInv, StdioTypeOK, ProcessesOwned, SendHasMutex, SendersWait
  <2>3. Even' => PipesPaired' /\ LinesPaired'
    BY <2>1, Zenon DEF StdioIInv, Even, PipesPaired, LinesPaired, Reads, HasOnly, Silent
  <2> QED
    BY <2>2, <2>3 DEF StdioIInv
<1>2. ASSUME NEW r \in Requests, HandleStdio(r) \/ NewProcess(r) \/ Call(r) PROVE StdioIInv'
  BY <1>2, ApproachIInv
<1>3. ASSUME NEW r \in Requests, Start(r) \/ Send(r) PROVE StdioIInv'
  BY <1>3, StartIInv, SendIInv
<1>4. ASSUME NEW r \in Requests, Write(r) \/ ReadLine(r) \/ SendReturns(r) PROVE StdioIInv'
  BY <1>4, WriteIInv, ReadLineIInv, SendReturnsIInv
<1>5. ASSUME NEW q \in Procs, ServerAnswers(q) \/ ServerNotifies(q) PROVE StdioIInv'
  BY <1>5, ServerAnswersIInv, ServerNotifiesIInv
<1>6. CASE CloseStdio \/ \E q \in Procs : ServerExits(q)
  BY <1>6, ProcessEndsIInv
<1> QED
  BY <1>1, <1>2, <1>3, <1>4, <1>5, <1>6, ZenonT(20) DEF StdioNext

\* What is paired under the invariant is paired.
LEMMA StdioIInvPairs == StdioIInv => AnswersPaired
  BY DEF StdioIInv, Even, LinesPaired, AnswersPaired

\* StdioIInv is an inductive invariant of the transport: racing starts, a process
\* replaced under a request, exits and Close included.
THEOREM StdioInductive == StdioSpec => []StdioIInv
  BY StdioInitIInv, StdioNextIInv, PTL DEF StdioSpec

\* Every request that is answered is answered with the line for it, however many
\* processes the first requests start, as long as no send has abandoned its goroutine
\* and lines have gone one for one.
THEOREM AnswersGoToTheirRequests == StdioSpec => []AnswersPaired
  BY StdioInductive, StdioIInvPairs, PTL

\* No two goroutines are at the pipes of one object.
ChannelSerialized ==
    \A r, q \in Requests :
        /\ exchange[r] \in {"writing", "reading"} /\ exchange[q] \in {"writing", "reading"}
        /\ object[r] = object[q]
        => r = q

\* The mutex of send does serialize the requests of an object, as
\* docs/proxy-modules.md:122 has it, whatever the lines, until a send gives up on its
\* goroutine.
THEOREM ChannelSerializes == StdioSpec => [](~abandoned => ChannelSerialized)
<1>1. StdioIInv => (~abandoned => ChannelSerialized)
  BY OneSender DEF ChannelSerialized
<1> QED
  BY <1>1, StdioInductive, PTL

-----------------------------------------------------------------------------
(* The proxy, whose transport is one of the two.                             *)

McpIInv == transport \in {"http", "stdio"} /\ SessionIInv /\ StdioIInv

\* Both parts keep their invariants while one of them works and the other rests.
THEOREM McpInductive == McpSpec => []McpIInv
<1>1. McpConfigure => McpIInv
  BY SessionInitIInv, StdioInitIInv DEF McpConfigure, McpIInv
<1>2. McpIInv /\ [McpNext]_mcpVars => McpIInv'
  <2> SUFFICES ASSUME McpIInv, [McpNext]_mcpVars PROVE McpIInv'
    OBVIOUS
  <2>1. [SessionNext]_sessionVars /\ [StdioNext]_stdioVars /\ transport' = transport
    BY DEF McpNext, mcpVars
  <2> QED
    BY <2>1, SessionNextIInv, StdioNextIInv DEF McpIInv
<1> QED
  BY <1>1, <1>2, PTL DEF McpSpec

\* The variables of the proxy keep their types.
THEOREM McpTypeCorrect == McpSpec => []McpTypeOK
<1>1. McpIInv => McpTypeOK
  BY DEF McpIInv, McpTypeOK, SessionIInv, StdioIInv
<1> QED
  BY <1>1, McpInductive, PTL

\* The proxy, whichever its transport, leaks no session, ends none in use, drops
\* none that works, and pairs answers with requests.
THEOREM McpSafe ==
    McpSpec => /\ []NoSessionLeaked /\ []NotTerminatedInUse /\ []AnswersPaired
               /\ WorkingSessionIsKept
<1>1. McpIInv => NoSessionLeaked /\ NotTerminatedInUse /\ AnswersPaired
  BY StdioIInvPairs DEF McpIInv, SessionIInv
<1>2. McpIInv /\ [McpNext]_mcpVars => [KeepsWorking]_sessionVars
  <2>1. [McpNext]_mcpVars => [SessionNext]_sessionVars
    BY DEF McpNext, mcpVars
  <2> QED
    BY <2>1, StepKeepsWorking DEF McpIInv
<1>3. McpSpec => [][KeepsWorking]_sessionVars
  BY <1>2, McpInductive, PTL DEF McpSpec
<1>4. McpSpec => WorkingSessionIsKept
  BY <1>3 DEF WorkingSessionIsKept, KeepsWorking
<1> QED
  BY <1>1, <1>4, McpInductive, PTL
=============================================================================
