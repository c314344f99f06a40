------------------------------ MODULE McpSession ------------------------------
(***************************************************************************)
(* pkg/proxy/mcp/session.go: the upstream sessions an MCP proxy keeps, one *)
(* for each session_id (key) of its callers, opened by the first request   *)
(* of a conversation and shared by the later ones.                         *)
(*                                                                         *)
(* sessionMu protects the map, so what happens under it is one step; the   *)
(* handshake and the request itself happen outside it.  Time is what the   *)
(* code tells apart: whether a session has been idle for sessionIdleTTL,   *)
(* and whether sessionlessUntil lies ahead.                                *)
(***************************************************************************)
EXTENDS FiniteSets, Functions, Goroutines

CONSTANTS Keys,      \* session_id values of callers
          Ids        \* Mcp-Session-Id values the server may hand out

ASSUME McpSessionAssumption == None \notin Keys \cup Ids

VARIABLES sessions,     \* the session of each key, or None
          idle,         \* keys whose session has passed sessionIdleTTL unused
          sessionless,  \* sessionlessUntil lies in the future
          closed,       \* Proxy.closed
          closer,       \* where Close is
          live,         \* sessions the agent was given that the server still has
          issued,       \* every id the server has handed out
          asked,        \* ids terminateSession was started for
          lost,         \* ids the agent has forgotten without asking for that
          pc,           \* where each request is
          key,          \* its session_id
          sid,          \* the session it has in hand
          retry,        \* it has been answered 404 once
          overdue       \* requests that sessionIdleTTL has passed over

sessionVars == <<sessions, idle, sessionless, closed, closer, live, issued, asked, lost, pc, key,
                 sid, retry, overdue>>
request == <<pc, key, sid, retry, overdue>>
server == <<live, issued>>

\* The type invariant of the session table.
SessionTypeOK ==
    /\ sessions \in [Keys -> Ids \cup {None}]
    /\ idle \subseteq {k \in Keys : sessions[k] # None}
    /\ sessionless \in BOOLEAN
    /\ closed \in BOOLEAN
    /\ closer \in {"idle", "marked", "done"}
    /\ live \subseteq issued /\ asked \subseteq issued /\ lost \subseteq issued
    /\ issued \subseteq Ids
    /\ pc \in [Requests -> {"idle", "ensure", "init", "store", "post"}]
    /\ key \in [Requests -> Keys \cup {None}]
    /\ sid \in [Requests -> Ids \cup {None}]
    /\ retry \in [Requests -> BOOLEAN]
    /\ overdue \subseteq Requests

\* Configure has started the sweeper; there is no session yet.
SessionInit ==
    /\ sessions = [k \in Keys |-> None]
    /\ idle = {}
    /\ sessionless = FALSE
    /\ closed = FALSE
    /\ closer = "idle"
    /\ live = {} /\ issued = {} /\ asked = {} /\ lost = {}
    /\ pc = [r \in Requests |-> "idle"]
    /\ key = [r \in Requests |-> None]
    /\ sid = [r \in Requests |-> None]
    /\ retry = [r \in Requests |-> FALSE]
    /\ overdue = {}

-----------------------------------------------------------------------------
\* handleWithSession is called, and where it goes from one of its calls.
HandleWithSession(r, k) ==
    /\ pc[r] = "idle"
    /\ pc' = [pc EXCEPT ![r] = "ensure"]
    /\ key' = [key EXCEPT ![r] = k]
    /\ sid' = [sid EXCEPT ![r] = None]
    /\ retry' = [retry EXCEPT ![r] = FALSE]
    /\ overdue' = overdue \ {r}
    /\ UNCHANGED <<sessions, idle, sessionless, closed, closer, server, asked, lost>>

Goto(r, where, s) ==
    /\ pc' = [pc EXCEPT ![r] = where]
    /\ sid' = [sid EXCEPT ![r] = s]
    /\ UNCHANGED <<key, retry, overdue>>

Return(r) == Goto(r, "idle", None)
Post(r, s) == Goto(r, "post", s)

\* Without a session because of an error, the first attempt goes ahead and the
\* second gives up.
WithoutSession(r) == IF retry[r] THEN Return(r) ELSE Post(r, None)

\* The session of k is there and within its TTL.
Fresh(k) == sessions[k] # None /\ k \notin idle

\* lastUsed is set; the mutant leaves it as it was.
Use_Mutant(k) == idle' = idle
Use(k) == idle' = idle \ {k}

\* ensureSession up to the handshake: a fresh session is used, an idle one is
\* replaced.
EnsureSession(r) ==
    LET k == key[r]
    IN  /\ pc[r] = "ensure"
        /\ \/ closed /\ Return(r) /\ UNCHANGED <<sessions, idle, asked>>
           \/ ~closed /\ sessionless /\ Post(r, None) /\ UNCHANGED <<sessions, idle, asked>>
           \/ /\ ~closed /\ ~sessionless /\ Fresh(k)
              /\ Post(r, sessions[k])
              /\ Use(k)
              /\ UNCHANGED <<sessions, asked>>
           \/ /\ ~closed /\ ~sessionless /\ ~Fresh(k)
              /\ Goto(r, "init", None)
              /\ sessions' = [sessions EXCEPT ![k] = None]
              /\ asked' = asked \cup ({sessions[k]} \ {None})
              /\ Use(k)
        /\ UNCHANGED <<sessionless, closed, closer, server, lost>>

\* initializeSession: the server opens a session ...
InitializeOpens(r, id) ==
    /\ pc[r] = "init"
    /\ id \notin issued
    /\ issued' = issued \cup {id}
    /\ live' = live \cup {id}
    /\ Goto(r, "store", id)
    /\ UNCHANGED <<sessions, idle, sessionless, closed, closer, asked, lost>>

\* ... answers without an id, or refuses with a 4xx, which is remembered ...
InitializeSessionless(r) ==
    /\ pc[r] = "init"
    /\ sessionless' = TRUE
    /\ Post(r, None) \/ WithoutSession(r)
    /\ UNCHANGED <<sessions, idle, closed, closer, server, asked, lost>>

\* ... or there is a 5xx or a transport error, which is not.  The server may have
\* opened a session all the same: post fails when the body of the answer cannot be
\* read to its end or is no event stream, and drops the header with the id; so
\* does initializeSession with the id of a 5xx.
InitializeFails(r) ==
    /\ pc[r] = "init"
    /\ WithoutSession(r)
    /\ \/ UNCHANGED <<server, lost>>
       \/ \E id \in Ids \ issued :
             /\ issued' = issued \cup {id}
             /\ live' = live \cup {id}
             /\ lost' = lost \cup {id}
    /\ UNCHANGED <<sessions, idle, sessionless, closed, closer, asked>>

\* The session given up for one that a concurrent request stored first, and the
\* one used instead; the mutants forget to close the former and use it.
Loser_Mutant(r) == {}
Loser(r) == {sid[r]}
Winner_Mutant(r) == sid[r]
Winner(r) == sessions[key[r]]

\* ensureSession after the handshake.  What the new session replaces in the map,
\* one that has idled meanwhile, is not terminated.
StoreSession(r) ==
    LET k == key[r]
    IN  /\ pc[r] = "store"
        /\ \/ /\ closed
              /\ asked' = asked \cup {sid[r]}
              /\ Return(r)
              /\ UNCHANGED <<sessions, idle, lost>>
           \/ /\ ~closed /\ Fresh(k)
              /\ asked' = asked \cup Loser(r)
              /\ Post(r, Winner(r))
              /\ Use(k)
              /\ UNCHANGED <<sessions, lost>>
           \/ /\ ~closed /\ ~Fresh(k)
              /\ sessions' = [sessions EXCEPT ![k] = sid[r]]
              /\ lost' = lost \cup ({sessions[k]} \ {None})
              /\ Post(r, sid[r])
              /\ Use(k)
              /\ UNCHANGED asked
        /\ UNCHANGED <<sessionless, closed, closer, server>>

\* The request is answered, or fails.
Answered(r) ==
    /\ pc[r] = "post"
    /\ Return(r)
    /\ UNCHANGED <<sessions, idle, sessionless, closed, closer, server, asked, lost>>

\* dropSession's test; the mutant forgets whatever the key has.
Drops_Mutant(k, s) == sessions[k] # None
Drops(k, s) == sessions[k] = s

\* The answer is 404: the server does not know the session, or it has another
\* reason, which the code does not tell apart.  The first time the session is
\* dropped, not terminated, and a new one is asked for.
SessionGone(r) ==
    LET k == key[r]
    IN  /\ pc[r] = "post"
        /\ sid[r] # None
        /\ ~retry[r]
        /\ sessions' = IF Drops(k, sid[r]) THEN [sessions EXCEPT ![k] = None] ELSE sessions
        /\ idle' = IF Drops(k, sid[r]) THEN idle \ {k} ELSE idle
        /\ lost' = lost \cup {sid[r]}
        /\ pc' = [pc EXCEPT ![r] = "ensure"]
        /\ retry' = [retry EXCEPT ![r] = TRUE]
        /\ sid' = [sid EXCEPT ![r] = None]
        /\ UNCHANGED <<key, overdue, sessionless, closed, closer, server, asked>>

-----------------------------------------------------------------------------
\* takeSessions empties the given keys and their sessions are terminated.
Take(ks) == [k \in Keys |-> IF k \in ks THEN None ELSE sessions[k]]

TakeSessions(ks) ==
    /\ sessions' = Take(ks)
    /\ asked' = asked \cup ({sessions[k] : k \in ks} \ {None})
    /\ idle' = idle \ ks

\* A tick of sweepSessions; one may still be taken when stop is closed too.
Sweep ==
    /\ idle # {}
    /\ TakeSessions(idle)
    /\ UNCHANGED <<sessionless, closed, closer, server, lost, request>>

\* Close first forbids new sessions and stops the sweeper, then takes them all.
CloseMarks ==
    /\ closer = "idle"
    /\ closed' = TRUE
    /\ closer' = "marked"
    /\ UNCHANGED <<sessions, idle, sessionless, server, asked, lost, request>>

CloseTakes ==
    /\ closer = "marked"
    /\ TakeSessions(Keys)
    /\ closer' = "done"
    /\ UNCHANGED <<sessionless, closed, server, lost, request>>

\* A session has not been used for 30 minutes.  The client gives a call 120 s, but
\* with OAuth each one waits its turn for the token (getOAuthToken holds oauthMu
\* during its own call, and handlers have no deadline), so a request of the key
\* may still be in its handshake or using the session.
Age(k) ==
    /\ Fresh(k)
    /\ idle' = idle \cup {k}
    /\ overdue' = overdue \cup {r \in Requests : key[r] = k /\ pc[r] \in {"init", "store", "post"}}
    /\ UNCHANGED <<sessions, sessionless, closed, closer, server, asked, lost, pc, key, sid, retry>>

\* sessionlessUntil has passed.
TrySessionsAgain ==
    /\ sessionless
    /\ sessionless' = FALSE
    /\ UNCHANGED <<sessions, idle, closed, closer, server, asked, lost, request>>

\* The server forgets a session: DELETE, its own timeout, or a restart.
ServerForgets(id) ==
    /\ id \in live
    /\ live' = live \ {id}
    /\ UNCHANGED <<sessions, idle, sessionless, closed, closer, issued, asked, lost, request>>

SessionNext ==
    \/ \E r \in Requests, k \in Keys : HandleWithSession(r, k)
    \/ \E r \in Requests : EnsureSession(r)
    \/ \E r \in Requests, id \in Ids : InitializeOpens(r, id)
    \/ \E r \in Requests : InitializeSessionless(r)
    \/ \E r \in Requests : InitializeFails(r)
    \/ \E r \in Requests : StoreSession(r)
    \/ \E r \in Requests : Answered(r)
    \/ \E r \in Requests : SessionGone(r)
    \/ Sweep
    \/ CloseMarks
    \/ CloseTakes
    \/ \E k \in Keys : Age(k)
    \/ TrySessionsAgain
    \/ \E id \in Ids : ServerForgets(id)

SessionSpec == SessionInit /\ [][SessionNext]_sessionVars
-----------------------------------------------------------------------------
InHand == {sid[r] : r \in {q \in Requests : pc[q] = "store"}}

\* No upstream session is leaked but by an error: one the server still has is in
\* the map, in the hands of the request that opened it, or terminateSession was
\* started for it, or the agent has lost its id, in a handshake whose answer
\* failed, by a 404, or where a handshake outlasted the session's TTL; however
\* requests of one key, the sweeper, a server that forgets sessions and Close
\* interleave.  After Close the map is empty, so nothing else is left open; and a
\* request that has stayed within the TTL overwrites nothing with its session.
NoSessionLeaked ==
    /\ live \subseteq Range(sessions) \cup InHand \cup asked \cup lost
    /\ closer = "done" => live \subseteq InHand \cup asked \cup lost
    /\ \A r \in Requests \ overdue : pc[r] = "store" => key[r] \notin idle

\* A session is not terminated under a request that is using it, unless the
\* proxy is being closed or the request has been at it for the whole TTL.
NotTerminatedInUse ==
    \A r \in Requests \ overdue : pc[r] = "post" /\ sid[r] \in asked => closed

\* A session that works leaves the map only when idle, when a request was answered
\* 404 in it, or when the proxy is closed: "a session a concurrent request has
\* just opened is not discarded" (session.go:147).
WorkingSessionIsKept ==
    [][\A k \in Keys :
          (Fresh(k) /\ sessions[k] \in live /\ sessions'[k] # sessions[k]) =>
              closed \/ sessions[k] \in lost']_sessionVars
=============================================================================
