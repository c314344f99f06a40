---------------------------- MODULE RelayClient ----------------------------
(***************************************************************************)
(* pkg/ws/client.go: one session after the other with the relay, and the   *)
(* goroutines of a session.                                                *)
(*                                                                         *)
(* Run dials, writes the greeting, queues the inventory and starts the     *)
(* closer, writer, pinger, health and metadata goroutines; it then reads   *)
(* until the connection fails, cancels the session's context and waits for *)
(* the five.  Every message read is handled in a goroutine that nobody     *)
(* waits for.  sendCh and healthNow outlive a session.                     *)
(*                                                                         *)
(* Messages are not told apart: sendCh is the number that are queued.      *)
(* Applying a config push is a change of the registry followed by the call *)
(* of onConfigSynced.                                                      *)
(*                                                                         *)
(* A call of the registry may never return (see Registry): its mutex may   *)
(* be held by a Close that hangs, and the HealthCheck of a static ssh      *)
(* proxy ignores its context.  The goroutine that makes the call is then   *)
(* in hung, or Run itself at its inventory.                                *)
(***************************************************************************)
EXTENDS Integers, FiniteSets

CONSTANTS Handlers,  \* handler goroutines that may run at once
          Capacity   \* capacity of sendCh (64)

Spawned == {"closer", "writer", "pinger", "health", "metadata"}

ASSUME RelayClientAssumption == Capacity \in Nat \ {0}

VARIABLES run,        \* where Run is
          appDone,    \* the context of Run is cancelled
          ctxDone,    \* the context of the session is cancelled
          link,       \* the network between agent and relay
          open,       \* conn has not been closed by the agent
          alive,      \* goroutines of the session, the reader included
          writing,    \* goroutines inside conn.WriteMessage
          loop,       \* where healthReportLoop is
          sendCh,     \* number of queued messages
          healthNow,  \* a trigger is pending
          config,     \* what has become of one change of the registry
          handler,    \* where each handler goroutine is
          hung        \* goroutines in a call of the registry that never returns

vars == <<run, appDone, ctxDone, link, open, alive, writing, loop, sendCh, healthNow,
          config, handler, hung>>
socket == <<link, open, alive, writing>>
control == <<run, appDone, ctxDone>>
reporting == <<loop, healthNow, config>>

\* The type invariant of the client.
TypeOK ==
    /\ run \in {"idle", "inventory", "serving", "ending", "stopped", "crashed"}
    /\ appDone \in BOOLEAN /\ ctxDone \in BOOLEAN
    /\ link \in {"up", "halfopen", "down"}
    /\ open \in BOOLEAN
    /\ alive \subseteq Spawned \cup {"reader"}
    /\ writing \subseteq {"closer", "writer", "pinger"}
    /\ loop \in {"delay", "drain", "snapshot", "checking", "waiting"}
    /\ sendCh \in 0 .. Capacity
    /\ healthNow \in BOOLEAN
    /\ config \in {"reported", "dropped", "changed", "snapped"}
    /\ handler \in [Handlers -> {"idle", "busy", "changed", "synced"}]
    /\ hung \subseteq {"health", "metadata"} \cup Handlers

\* NewClient, and no health report yet.
Init ==
    /\ run = "idle"
    /\ appDone = FALSE /\ ctxDone = FALSE
    /\ link = "down" /\ open = FALSE
    /\ alive = {} /\ writing = {}
    /\ loop = "delay"
    /\ sendCh = 0 /\ healthNow = FALSE
    /\ config = "changed"
    /\ handler = [h \in Handlers |-> "idle"]
    /\ hung = {}

\* Send: a full channel drops the message.
Send == sendCh' = IF sendCh < Capacity THEN sendCh + 1 ELSE sendCh

\* sendInventory: an empty inventory is not sent.
SendInventory == Send \/ UNCHANGED sendCh

-----------------------------------------------------------------------------
\* connectAndServe up to readLoop.  A dial or a greeting that fails leaves Run
\* where it was.
Connect ==
    /\ run = "idle" /\ ~appDone
    /\ run' = "serving"
    /\ ctxDone' = FALSE
    /\ link' = "up" /\ open' = TRUE
    /\ alive' = Spawned \cup {"reader"}
    /\ loop' = "delay"
    /\ SendInventory
    /\ UNCHANGED <<appDone, writing, healthNow, config, handler, hung>>

\* registry.List does not return: Run stays in sendInventory, and no goroutine of
\* the session has been started.
InventoryHangs ==
    /\ run = "idle" /\ ~appDone
    /\ run' = "inventory"
    /\ link' = "up" /\ open' = TRUE
    /\ UNCHANGED <<appDone, ctxDone, alive, writing, reporting, sendCh, handler, hung>>

\* The network fails or the relay goes away, for both directions or only for what
\* the agent writes.
Break ==
    /\ run = "serving"
    /\ link = "up"
    /\ link' \in {"down", "halfopen"}
    /\ UNCHANGED <<control, reporting, sendCh, handler, open, alive, writing, hung>>

\* readLoop hands a message to a new goroutine.
Read(h) ==
    /\ "reader" \in alive
    /\ open /\ link # "down"
    /\ handler[h] = "idle"
    /\ handler' = [handler EXCEPT ![h] = "busy"]
    /\ UNCHANGED <<control, reporting, socket, sendCh, hung>>

\* When ReadMessage is bound to fail: the connection is closed, or nothing
\* arrives until the read deadline.  The mutant has no deadline.
ReadMustFail_Mutant == ~open
ReadMustFail == ~open \/ link = "down"

\* readLoop returns and connectAndServe cancels the context of the session.
EndOfReading ==
    /\ "reader" \in alive
    /\ alive' = alive \ {"reader"}
    /\ ctxDone' = TRUE
    /\ run' = "ending"
    /\ UNCHANGED <<appDone, link, open, writing, reporting,
                   sendCh, handler, hung>>

ReadError == ReadMustFail /\ EndOfReading

\* In a half-open connection the deadline passes only if the relay is silent,
\* its pongs included.
ReadDeadline == ~ReadMustFail /\ link = "halfopen" /\ EndOfReading

\* wg.Wait returns, the connection is closed and connectAndServe returns.
SessionEnds ==
    /\ run = "ending"
    /\ alive = {}
    /\ run' = "idle"
    /\ open' = FALSE
    /\ UNCHANGED <<appDone, ctxDone, link, alive, writing,
                   reporting, sendCh, handler, hung>>

\* A signal cancels the context of Run, and with it that of the session.
Shutdown ==
    /\ ~appDone
    /\ run \in {"idle", "inventory", "serving", "ending"}
    /\ appDone' = TRUE
    /\ ctxDone' = (ctxDone \/ run = "serving")
    /\ UNCHANGED <<run, socket, reporting, sendCh, handler, hung>>

\* Run sees its context cancelled between two sessions and returns.
Stop ==
    /\ run = "idle" /\ appDone
    /\ run' = "stopped"
    /\ UNCHANGED <<appDone, ctxDone, socket, reporting, sendCh, handler, hung>>

-----------------------------------------------------------------------------
\* A goroutine enters WriteMessage: the writer with the next queued message
\* (select may prefer it to a context that is done), the pinger when its ticker
\* fires, the closer when the context is done.
BeginWrite(g) ==
    /\ run # "crashed"
    /\ g \in alive
    /\ g \notin writing
    /\ writing' = writing \cup {g}
    /\ \/ /\ g = "writer"
          /\ sendCh > 0
          /\ sendCh' = sendCh - 1
       \/ /\ g = "pinger"
          /\ UNCHANGED sendCh
       \/ /\ g = "closer"
          /\ ctxDone
          /\ UNCHANGED sendCh
    /\ UNCHANGED <<control, reporting, handler, link, open, alive, hung>>

\* The closer closes the connection whatever became of its close frame.  The
\* mutant leaves that to connectAndServe.
CloseConn_Mutant == open
CloseConn == FALSE

Works == open /\ link = "up"

\* WriteMessage returns.  A writer or pinger whose write fails returns too, and
\* the message is lost.
EndWrite(g) ==
    /\ g \in writing
    /\ writing' = writing \ {g}
    /\ alive' = IF Works /\ g # "closer" THEN alive ELSE alive \ {g}
    /\ open' = IF g = "closer" THEN CloseConn ELSE open
    /\ UNCHANGED <<control, reporting, sendCh, handler, link, hung>>

\* Two goroutines inside WriteMessage: gorilla/websocket panics when it notices,
\* and the agent is gone.
Panic ==
    /\ Cardinality(writing) > 1
    /\ run' = "crashed"
    /\ alive' = {} /\ writing' = {}
    /\ handler' = [h \in Handlers |-> "idle"]
    /\ hung' = {}
    /\ UNCHANGED <<appDone, ctxDone, link, open, reporting, sendCh>>

\* The writer, the pinger or the health loop finds its context done at its select.
Leave(g) ==
    /\ g \in alive \ writing
    /\ ctxDone
    /\ g = "health" => loop \in {"delay", "waiting"}
    /\ alive' = alive \ {g}
    /\ UNCHANGED <<control, reporting, sendCh, handler, link, open, writing, hung>>

\* A call of the registry by the health loop, by sendMetadata or by a handler does
\* not return, whatever its context.
Hang(g) ==
    /\ g \notin hung
    /\ \/ g = "health" /\ g \in alive /\ loop \in {"snapshot", "checking"}
       \/ g = "metadata" /\ g \in alive
       \/ g \in Handlers /\ handler[g] \in {"busy", "changed"}
    /\ hung' = hung \cup {g}
    /\ UNCHANGED <<control, socket, reporting, sendCh, handler>>

\* sendMetadata: nothing is sent when nothing could be collected.
SendMetadata ==
    /\ "metadata" \in alive \ hung
    /\ alive' = alive \ {"metadata"}
    /\ Send \/ UNCHANGED sendCh
    /\ UNCHANGED <<control, reporting, handler, link, open, writing, hung>>

-----------------------------------------------------------------------------
\* healthReportLoop goes on from its delay or its select because a timer fires ...
HealthTimer(at) ==
    /\ "health" \in alive
    /\ loop = at /\ at \in {"delay", "waiting"}
    /\ loop' = "drain"
    /\ UNCHANGED <<control, socket, sendCh, handler, healthNow, config, hung>>

\* ... or because it is triggered.
HealthTriggered ==
    /\ "health" \in alive
    /\ loop \in {"delay", "waiting"}
    /\ healthNow
    /\ healthNow' = FALSE
    /\ loop' = "drain"
    /\ UNCHANGED <<control, socket, sendCh, handler, config, hung>>

\* A pending trigger is dropped: the report about to be taken covers it.
Drain ==
    /\ "health" \in alive
    /\ loop = "drain"
    /\ healthNow' = FALSE
    /\ loop' = "snapshot"
    /\ UNCHANGED <<control, socket, sendCh, handler, config, hung>>

\* HealthReport reads the registry ...
Snapshot ==
    /\ "health" \in alive \ hung
    /\ loop = "snapshot"
    /\ loop' = "checking"
    /\ config' = IF config \in {"changed", "dropped"} THEN "snapped" ELSE config
    /\ UNCHANGED <<control, socket, sendCh, handler, healthNow, hung>>

\* What the report just taken does to a change it has read: the report of a session
\* that is over holds errors only, and one that finds sendCh full is dropped.
Told == IF ctxDone THEN "changed" ELSE IF sendCh < Capacity THEN "reported" ELSE "dropped"

\* ... and returns; a report with no entries is not sent, for there is nothing to
\* report.  The mutant drains the trigger here, when the report is complete.
FinishReport_Mutant ==
    /\ "health" \in alive \ hung
    /\ loop = "checking"
    /\ loop' = "waiting"
    /\ healthNow' = FALSE
    /\ config' = IF config = "snapped" THEN Told ELSE config
    /\ Send \/ UNCHANGED sendCh
    /\ UNCHANGED <<control, socket, handler, hung>>

FinishReport ==
    /\ "health" \in alive \ hung
    /\ loop = "checking"
    /\ loop' = "waiting"
    /\ config' = IF config = "snapped" THEN Told ELSE config
    /\ Send \/ UNCHANGED sendCh
    /\ UNCHANGED <<control, socket, handler, healthNow, hung>>

-----------------------------------------------------------------------------
\* handleConfigSync changes the registry.  config follows one change to its report;
\* any change may be the one, once that of an earlier one is out.
ApplyConfig(h) ==
    /\ handler[h] = "busy" /\ h \notin hung
    /\ handler' = [handler EXCEPT ![h] = "changed"]
    /\ \/ UNCHANGED config
       \/ config \in {"reported", "dropped"} /\ config' = "changed"
    /\ UNCHANGED <<control, socket, sendCh, loop, healthNow, hung>>

\* It ends with a call of TriggerHealthReport, which coalesces triggers.  The mutant
\* gives up when the loop is not waiting for one.
Triggered_Mutant == healthNow \/ loop = "waiting"
Triggered == TRUE

TriggerHealthReport(h) ==
    /\ handler[h] = "changed" /\ h \notin hung
    /\ handler' = [handler EXCEPT ![h] = "synced"]
    /\ healthNow' = Triggered
    /\ UNCHANGED <<control, socket, sendCh, loop, config, hung>>

\* The handler goroutine queues its response, if it has one, and ends.
Respond(h) ==
    /\ handler[h] \in {"busy", "synced"} /\ h \notin hung
    /\ handler' = [handler EXCEPT ![h] = "idle"]
    /\ \/ Send
       \/ handler[h] = "busy" /\ UNCHANGED sendCh
    /\ UNCHANGED <<control, socket, reporting, hung>>

\* Run waits for calls of the registry that never return, and for nothing else.
Held == run = "inventory" \/ (alive # {} /\ alive \subseteq hung)

\* The process has ended, or will not get any further.
Ended ==
    /\ run \in {"stopped", "crashed"} \/ Held
    /\ UNCHANGED vars

Next ==
    \/ Connect
    \/ InventoryHangs
    \/ Break
    \/ \E h \in Handlers : Read(h)
    \/ ReadError
    \/ ReadDeadline
    \/ SessionEnds
    \/ Shutdown
    \/ Stop
    \/ \E g \in {"writer", "pinger", "closer"} : BeginWrite(g)
    \/ \E g \in {"writer", "pinger", "closer"} : EndWrite(g)
    \/ Panic
    \/ \E g \in {"writer", "pinger", "health"} : Leave(g)
    \/ \E g \in {"health", "metadata"} \cup Handlers : Hang(g)
    \/ SendMetadata
    \/ \E at \in {"delay", "waiting"} : HealthTimer(at)
    \/ HealthTriggered
    \/ Drain
    \/ Snapshot
    \/ FinishReport
    \/ \E h \in Handlers : ApplyConfig(h)
    \/ \E h \in Handlers : TriggerHealthReport(h)
    \/ \E h \in Handlers : Respond(h)
    \/ Ended

Spec == Init /\ [][Next]_vars

(***************************************************************************)
(* Every goroutine that can run is scheduled; writes end within writeWait, *)
(* reads within pongWait, and the initial health delay passes.  A report,  *)
(* the collection of metadata and the application of a push come to an end *)
(* or hang for good.  Nothing is assumed of the health ticker, of the      *)
(* relay, or of the network.  select chooses at random among its ready     *)
(* cases, so a health loop whose context is done leaves even if it is      *)
(* triggered over and over: strong fairness.                               *)
(***************************************************************************)
Fairness ==
    /\ WF_vars(ReadError) /\ WF_vars(SessionEnds) /\ WF_vars(Stop)
    /\ WF_vars(BeginWrite("closer"))
    /\ \A g \in {"writer", "pinger", "closer"} : WF_vars(EndWrite(g))
    /\ WF_vars(Leave("writer")) /\ WF_vars(Leave("pinger")) /\ SF_vars(Leave("health"))
    /\ WF_vars(SendMetadata)
    /\ WF_vars(HealthTimer("delay")) /\ WF_vars(HealthTriggered)
    /\ WF_vars(Drain) /\ WF_vars(Snapshot) /\ WF_vars(FinishReport)
    /\ \A h \in Handlers : WF_vars(TriggerHealthReport(h))

FairSpec == Spec /\ Fairness
-----------------------------------------------------------------------------
\* No config push is forgotten: while a session is up, a change that no report
\* covers yet has its trigger pending, or the health loop has still to read the
\* registry, or the handler has still to call TriggerHealthReport.
NoLostTrigger ==
    config = "changed" =>
        \/ healthNow
        \/ loop \in {"delay", "drain", "snapshot"}
        \/ run # "serving" \/ ctxDone
        \/ \E h \in Handlers : handler[h] = "changed"

\* If a session stays up, every change of the configuration is followed by a health
\* report that has read it and is queued for the relay, without the help of the
\* health ticker.  The report is missing only if it was dropped because sendCh was
\* full, or if the report or the push that has to ask for it hangs in the registry.
EveryChangeIsReported ==
    <>[](run = "serving" /\ ~ctxDone) =>
        (config = "changed" ~> \/ config \in {"reported", "dropped"}
                               \/ "health" \in hung
                               \/ \E h \in Handlers \cap hung : handler[h] = "changed")

\* After a signal the agent stops, or every goroutine wg.Wait still waits for (or
\* Run itself, at its inventory) is in a call of the registry that never returns.
ShutdownCompletes == appDone ~> run \in {"stopped", "crashed"} \/ Held

\* A session whose writer has given up after a failed write does not linger
\* with nobody draining sendCh, unless the connection is half open.
DeadWriterEndsSession ==
    (run = "serving" /\ "writer" \notin alive) ~> (run # "serving" \/ link = "halfopen")

\* "The WS write path is serialized through a buffered channel"
\* (docs/connection-lifecycle.md:75): one goroutine at a time writes to conn.
SerializedWrites == Cardinality(writing) <= 1
=============================================================================
