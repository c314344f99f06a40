------------------------- MODULE RelayClientProofs -------------------------
(***************************************************************************)
(* Proofs about RelayClient for any number of handler goroutines and any   *)
(* capacity of sendCh, on half-open connections and with hanging registry  *)
(* calls too; and about Verifier, which the handler goroutines call, for   *)
(* every set of nonces and goroutines, every skew, cache limit, clock      *)
(* offset and lag that satisfy VerifierAssumption.                         *)
(***************************************************************************)
EXTENDS RelayClient, Verifier, TLAPS

IInv == TypeOK /\ NoLostTrigger

-----------------------------------------------------------------------------
\* Send keeps sendCh within its capacity.
LEMMA SendKeepsQueue ==
    ASSUME sendCh \in 0 .. Capacity, Send
    PROVE  sendCh' \in 0 .. Capacity
BY RelayClientAssumption DEF Send

\* The steps of Run, of the reader and of the network.
LEMMA SessionSteps ==
    ASSUME IInv,
           \/ Connect \/ InventoryHangs \/ Break \/ ReadError \/ ReadDeadline \/ SessionEnds
           \/ Shutdown \/ Stop \/ Ended \/ \E h \in Handlers : Read(h)
    PROVE  IInv'
<1> USE RelayClientAssumption DEF IInv, TypeOK, NoLostTrigger, socket, control, reporting
<1>1. CASE Connect
  BY <1>1, SendKeepsQueue, Zenon DEF Connect, SendInventory, Spawned
<1>2. CASE Break
  BY <1>2 DEF Break
<1>3. CASE ReadError \/ ReadDeadline
  BY <1>3, ZenonT(40) DEF ReadError, ReadDeadline, EndOfReading
<1>4. CASE SessionEnds
  BY <1>4, Zenon DEF SessionEnds
<1>5. CASE Shutdown
  BY <1>5 DEF Shutdown
<1>6. CASE Stop
  BY <1>6 DEF Stop
<1>7. CASE Ended
  BY <1>7 DEF Ended, vars
<1>8. ASSUME NEW h \in Handlers, Read(h) PROVE IInv'
  BY <1>8 DEF Read
<1>9. CASE InventoryHangs
  BY <1>9, Zenon DEF InventoryHangs
<1> QED
  BY <1>1, <1>2, <1>3, <1>4, <1>5, <1>6, <1>7, <1>8, <1>9

\* The goroutines that write to the connection, and sendMetadata.
LEMMA WriterSteps ==
    ASSUME IInv,
           \/ \E g \in {"writer", "pinger", "closer"} : BeginWrite(g) \/ EndWrite(g)
           \/ Panic \/ SendMetadata
           \/ \E g \in {"writer", "pinger", "health"} : Leave(g)
           \/ \E g \in {"health", "metadata"} \cup Handlers : Hang(g)
    PROVE  IInv'
<1> USE RelayClientAssumption DEF IInv, TypeOK, NoLostTrigger, control, reporting
<1>1. ASSUME NEW g \in {"writer", "pinger", "closer"}, BeginWrite(g) PROVE IInv'
  <2>1. CASE g = "writer"
    <3>2. sendCh' \in 0 .. Capacity
      BY <1>1, <2>1 DEF BeginWrite
    <3> QED
      BY <1>1, <2>1, <3>2 DEF BeginWrite
  <2>2. CASE g # "writer"
    BY <1>1, <2>2 DEF BeginWrite
  <2> QED
    BY <2>1, <2>2
<1>2. ASSUME NEW g \in {"writer", "pinger", "closer"}, EndWrite(g) PROVE IInv'
  <2>1. /\ alive' \subseteq alive /\ writing' \subseteq writing
        /\ UNCHANGED <<run, appDone, ctxDone, link, loop, sendCh, healthNow, config, handler, hung>>
    BY <1>2 DEF EndWrite
  <2>2. open' \in BOOLEAN
    BY <1>2, Zenon DEF EndWrite, CloseConn
  <2>4. TypeOK'
    BY <2>1, <2>2
  <2>3. NoLostTrigger'
    BY <2>1
  <2> QED
    BY <2>3, <2>4
<1>3. CASE Panic
  BY <1>3 DEF Panic
<1>4. CASE SendMetadata
  BY <1>4, SendKeepsQueue DEF SendMetadata
<1>5. ASSUME NEW g \in {"writer", "pinger", "health"}, Leave(g) PROVE IInv'
  BY <1>5 DEF Leave
<1>6. ASSUME NEW g \in {"health", "metadata"} \cup Handlers, Hang(g) PROVE IInv'
  BY <1>6 DEF Hang, socket
<1> QED
  BY <1>1, <1>2, <1>3, <1>4, <1>5, <1>6

\* The health loop: between the moment it gives up a trigger and its snapshot it
\* is itself what keeps a change from being forgotten.
LEMMA HealthSteps ==
    ASSUME IInv,
           \/ \E at \in {"delay", "waiting"} : HealthTimer(at)
           \/ HealthTriggered \/ Drain \/ Snapshot \/ FinishReport
    PROVE  IInv'
<1> USE RelayClientAssumption DEF IInv, TypeOK, NoLostTrigger, socket, control
<1>1. ASSUME NEW at \in {"delay", "waiting"}, HealthTimer(at) PROVE IInv'
  BY <1>1 DEF HealthTimer
<1>2. CASE HealthTriggered
  BY <1>2, Zenon DEF HealthTriggered
<1>3. CASE Drain
  BY <1>3, Zenon DEF Drain
<1>4. CASE Snapshot
  BY <1>4 DEF Snapshot
<1>5. CASE FinishReport
  BY <1>5, SendKeepsQueue DEF FinishReport, Told
<1> QED
  BY <1>1, <1>2, <1>3, <1>4, <1>5

\* A handler goroutine: from the change to the trigger the handler itself keeps
\* the change from being forgotten, and then the trigger does.
LEMMA HandlerSteps ==
    ASSUME IInv, NEW h \in Handlers, ApplyConfig(h) \/ TriggerHealthReport(h) \/ Respond(h)
    PROVE  IInv'
<1> USE RelayClientAssumption DEF IInv, TypeOK, NoLostTrigger, socket, control, reporting
<1>1. CASE ApplyConfig(h)
  BY <1>1 DEF ApplyConfig
<1>2. CASE TriggerHealthReport(h)
  BY <1>2 DEF TriggerHealthReport, Triggered
<1>3. CASE Respond(h)
  BY <1>3, SendKeepsQueue DEF Respond
<1> QED
  BY <1>1, <1>2, <1>3

\* Types and NoLostTrigger hold in every reachable state of the relay client, for
\* any number of handler goroutines and any capacity of sendCh.
THEOREM Inductive == Spec => []IInv
<1>1. Init => IInv
  <2> SUFFICES ASSUME Init PROVE IInv
    OBVIOUS
  <2>1. sendCh \in 0 .. Capacity
    BY RelayClientAssumption DEF Init
  <2>2. TypeOK
    BY <2>1, Zenon DEF Init, TypeOK
  <2> QED
    BY <2>2 DEF Init, IInv, NoLostTrigger
<1>2. IInv /\ [Next]_vars => IInv'
  <2> SUFFICES ASSUME IInv, [Next]_vars PROVE IInv'
    OBVIOUS
  <2>1. CASE UNCHANGED vars
    BY <2>1 DEF vars, IInv, TypeOK, NoLostTrigger
  <2> QED
    BY <2>1, SessionSteps, WriterSteps, HealthSteps, HandlerSteps DEF Next
<1> QED
  BY <1>1, <1>2, PTL DEF Spec

\* The type invariant of the client, for every instance: sendCh never exceeds
\* its capacity.
THEOREM TypeCorrect == Spec => []TypeOK
<1>1. IInv => TypeOK
  BY DEF IInv
<1> QED
  BY <1>1, Inductive, PTL

\* However pushes, triggers, reports and reconnects interleave, a change of the
\* configuration is never left without something that will report it.
THEOREM TriggersAreNotLost == Spec => []NoLostTrigger
<1>1. IInv => NoLostTrigger
  BY DEF IInv
<1> QED
  BY <1>1, Inductive, PTL
-----------------------------------------------------------------------------
(***************************************************************************)
(* Why a session winds down.  The goroutines of a session hold each other  *)
(* up only along one chain: wg.Wait waits for the reader, the reader for   *)
(* the connection, the connection for the closer, the closer for the       *)
(* context.                                                                *)
(***************************************************************************)
InSession == run \in {"serving", "ending"}

\* The inductive invariant of a session.
SessionShape ==
    /\ "reader" \in alive <=> run = "serving"
    /\ ~InSession => alive = {}
    /\ writing \subseteq alive
    /\ run = "serving" /\ appDone => ctxDone
    /\ run = "ending" => ctxDone
    /\ "closer" \in writing => ctxDone
    /\ run = "serving" /\ "closer" \notin alive => ctxDone /\ ~open
    /\ run = "serving" /\ ~open => ctxDone
    /\ run = "serving" /\ ~({"writer", "pinger"} \subseteq alive) => ctxDone \/ link # "up"

\* What a session that has to end waits for, but for calls that hang: its context is done after a
\* signal and once reading has ended, which is what the closer, the writer, the
\* pinger and the health loop wait for at their selects; the reader, which does not
\* look at the context, still has the closer ahead of it or is bound to fail; and a
\* writer or pinger is gone only if the context is done or the link is broken.
SessionWindsDown ==
    /\ InSession /\ (appDone \/ run = "ending") => ctxDone
    /\ "reader" \in alive /\ ctxDone => "closer" \in alive \/ ReadMustFail
    /\ run = "serving" /\ ~({"writer", "pinger"} \subseteq alive) => ctxDone \/ link # "up"
    /\ ~InSession => alive = {}

\* A session only winds down: no goroutine is added to it, its context stays done,
\* its connection stays closed, and it is over only when wg.Wait has seen every
\* goroutine go (or the agent has crashed).
SessionOnlyShrinks ==
    InSession =>
        /\ alive' \subseteq alive
        /\ ctxDone => ctxDone'
        /\ open' => open
        /\ ~InSession' => alive = {} \/ run' = "crashed"

\* Run, the reader and the network.
LEMMA SessionShapeSteps ==
    ASSUME TypeOK, SessionShape,
           \/ Connect \/ InventoryHangs \/ Break \/ ReadError \/ ReadDeadline \/ SessionEnds
           \/ Shutdown \/ Stop
    PROVE  SessionShape' /\ SessionOnlyShrinks
<1> USE DEF TypeOK, SessionShape, SessionOnlyShrinks, InSession
<1>1. CASE Connect
  BY <1>1 DEF Connect, Spawned
<1>2. CASE Break
  BY <1>2 DEF Break, control
<1>3. CASE ReadError \/ ReadDeadline
  <2>1. /\ alive' = alive \ {"reader"} /\ run' = "ending" /\ ctxDone' = TRUE
        /\ UNCHANGED <<appDone, link, open, writing>>
    BY <1>3 DEF ReadError, ReadDeadline, EndOfReading
  <2>2. writing' \subseteq alive'
    BY <2>1
  <2> QED
    BY <2>1, <2>2
<1>4. CASE SessionEnds
  BY <1>4 DEF SessionEnds
<1>5. CASE Shutdown
  BY <1>5 DEF Shutdown, socket
<1>6. CASE Stop
  BY <1>6 DEF Stop, socket
<1>7. CASE InventoryHangs
  BY <1>7 DEF InventoryHangs
<1> QED
  BY <1>1, <1>2, <1>3, <1>4, <1>5, <1>6, <1>7

\* The goroutines of the session: a writer whose write fails leaves a connection
\* that is closed or broken, and the closer leaves a closed one.
LEMMA SessionShapeGoroutines ==
    ASSUME TypeOK, SessionShape,
           \/ \E g \in {"writer", "pinger", "closer"} : BeginWrite(g) \/ EndWrite(g)
           \/ Panic \/ SendMetadata
           \/ \E g \in {"writer", "pinger", "health"} : Leave(g)
           \/ \E g \in {"health", "metadata"} \cup Handlers : Hang(g)
    PROVE  SessionShape' /\ SessionOnlyShrinks
<1> USE DEF TypeOK, SessionShape, SessionOnlyShrinks, InSession, control
<1>1. ASSUME NEW g \in {"writer", "pinger", "closer"}, BeginWrite(g)
      PROVE  SessionShape' /\ SessionOnlyShrinks
  BY <1>1 DEF BeginWrite
<1>2. ASSUME NEW g \in {"writer", "pinger", "closer"}, EndWrite(g)
      PROVE  SessionShape' /\ SessionOnlyShrinks
  <2>1. CASE g = "closer"
    <3>1. alive' = alive \ {g} /\ writing' = writing \ {g} /\ open' = FALSE /\ ctxDone
      BY <1>2, <2>1 DEF EndWrite, CloseConn
    <3> QED
      BY <1>2, <2>1, <3>1 DEF EndWrite
  <2>2. CASE g # "closer" /\ Works
    <3>1. alive' = alive /\ writing' = writing \ {g} /\ open' = open
      BY <1>2, <2>2 DEF EndWrite
    <3> QED
      BY <1>2, <2>2, <3>1 DEF EndWrite
  <2>3. CASE g # "closer" /\ ~Works
    <3>1. alive' = alive \ {g} /\ writing' = writing \ {g} /\ open' = open
      BY <1>2, <2>3 DEF EndWrite
    <3> QED
      BY <1>2, <2>3, <3>1 DEF EndWrite, Works
  <2> QED
    BY <2>1, <2>2, <2>3
<1>3. CASE Panic
  BY <1>3 DEF Panic
<1>4. CASE SendMetadata
  BY <1>4 DEF SendMetadata
<1>5. ASSUME NEW g \in {"writer", "pinger", "health"}, Leave(g)
      PROVE  SessionShape' /\ SessionOnlyShrinks
  BY <1>5 DEF Leave
<1>6. ASSUME NEW g \in {"health", "metadata"} \cup Handlers, Hang(g)
      PROVE  SessionShape' /\ SessionOnlyShrinks
  BY <1>6 DEF Hang, socket
<1> QED
  BY <1>1, <1>2, <1>3, <1>4, <1>5, <1>6

\* The other steps do not touch what a session is made of.
LEMMA SessionShapeElsewhere ==
    ASSUME TypeOK, SessionShape, UNCHANGED <<control, socket>>
    PROVE  SessionShape' /\ SessionOnlyShrinks
BY DEF TypeOK, SessionShape, SessionOnlyShrinks, InSession, control, socket

\* What ShutdownCompletes and DeadWriterEndsSession rest on besides fairness: after a
\* signal, a failed read or a failed write nothing a goroutine waits for at its
\* select or its read is missing, and a session never regains what it has let go.
THEOREM SessionsWindDown ==
    Spec => []SessionWindsDown /\ [][SessionOnlyShrinks]_vars
<1>1. Init => SessionShape
  BY DEF Init, SessionShape, InSession
<1>2. ASSUME TypeOK, SessionShape, [Next]_vars
      PROVE  SessionShape' /\ SessionOnlyShrinks
  <2>1. CASE UNCHANGED <<control, socket>>
    BY <1>2, <2>1, SessionShapeElsewhere
  <2>2. CASE ~UNCHANGED <<control, socket>>
    BY <1>2, <2>2, SessionShapeSteps, SessionShapeGoroutines
       DEF Next, vars, control, socket, Read, HealthTimer, HealthTriggered, Drain, Snapshot,
           FinishReport, ApplyConfig, TriggerHealthReport, Respond, Ended
  <2> QED
    BY <1>2, <2>1, <2>2
<1>3. TypeOK /\ SessionShape => SessionWindsDown
  BY DEF TypeOK, SessionShape, SessionWindsDown, InSession, ReadMustFail
<1>4. TypeOK /\ SessionShape /\ [Next]_vars => SessionShape' /\ [SessionOnlyShrinks]_vars
  BY <1>2
<1> QED
  BY <1>1, <1>3, <1>4, TypeCorrect, PTL DEF Spec

-----------------------------------------------------------------------------
(***************************************************************************)
(* The replay protection of Verifier.  AcceptedAtMostOnce says nothing     *)
(* about why a second copy is refused, so it is strengthened with the      *)
(* facts the code relies on: no envelope is stamped far ahead of the       *)
(* agent's clock, a copy past the timestamp test is at most Skew + MaxLag  *)
(* behind its signed_at, a cached nonce was recorded no earlier than its   *)
(* accepted envelopes allow, and the nonce of an accepted envelope is      *)
(* still in the cache or was evicted after every copy had left the window. *)
(***************************************************************************)
SentByNow == \A e \in wire : e.signedAt <= now + Offset

ChecksTimely ==
    \A c \in checks :
        /\ c.env \in wire
        /\ c.at <= now /\ now <= c.at + MaxLag
        /\ c.at <= c.env.signedAt + Skew

CachedSinceSigned ==
    \A n \in seen :
        /\ seenAt[n] <= now
        /\ \A e \in accepted : e.nonce = n => e.signedAt <= seenAt[n] + Offset

AcceptedIsRemembered ==
    \A e \in accepted : e.nonce \in seen \/ now > e.signedAt - Offset + 2 * Skew

VerifierIInv ==
    /\ VerifierTypeOK
    /\ SentByNow
    /\ ChecksTimely
    /\ CachedSinceSigned
    /\ AcceptedIsRemembered
    /\ AcceptedAtMostOnce
    /\ RecordedMeansAccepted

-----------------------------------------------------------------------------
\* Eviction only removes entries, and only ones recorded more than 2*Skew ago.
LEMMA EvictRemovesOld ==
    ASSUME NEW S, NEW at, NEW n \in S, n \notin Evict(S, at)
    PROVE  at[n] < now - 2 * Skew
BY DEF Evict, Expired

\* Eviction adds nothing to the nonce cache.
LEMMA EvictShrinks ==
    ASSUME NEW S, NEW at
    PROVE  Evict(S, at) \subseteq S
BY DEF Evict, Expired

\* The type invariant, and that a copy is one of an envelope that was sent.
CopiesWereSent == \A c \in checks : c.env \in wire

\* The type invariant holds of every reachable state of the verifier.
THEOREM VerifierTypeCorrect == VerifierSpec => []VerifierTypeOK
<1> USE VerifierAssumption
<1>1. VerifierInit => VerifierTypeOK /\ CopiesWereSent
  BY DEF VerifierInit, VerifierTypeOK, CopiesWereSent
<1>2. VerifierTypeOK /\ CopiesWereSent /\ [VerifierNext]_verifierVars => VerifierTypeOK' /\ CopiesWereSent'
  <2> SUFFICES ASSUME VerifierTypeOK, CopiesWereSent, [VerifierNext]_verifierVars
               PROVE  VerifierTypeOK' /\ CopiesWereSent'
    OBVIOUS
  <2>1. ASSUME NEW n \in Nonces, SendEnvelope(n) PROVE VerifierTypeOK' /\ CopiesWereSent'
    <3>1. PICK t \in (now - Offset) .. (now + Offset) : wire' = wire \cup {[nonce |-> n, signedAt |-> t]}
      BY <2>1 DEF SendEnvelope
    <3>2. [nonce |-> n, signedAt |-> t] \in Envelope
      BY DEF Envelope, VerifierTypeOK
    <3> QED
      BY <2>1, <3>1, <3>2 DEF VerifierTypeOK, SendEnvelope, CopiesWereSent
  <2>2. ASSUME NEW g \in Goroutines, NEW e \in wire, NEW intact \in BOOLEAN,
               CheckTimestamp(g, e, intact)
        PROVE VerifierTypeOK' /\ CopiesWereSent'
    BY <2>2 DEF VerifierTypeOK, CheckTimestamp, Checks, CopiesWereSent
  <2>3. ASSUME NEW c \in checks, RejectDamaged(c) PROVE VerifierTypeOK' /\ CopiesWereSent'
    BY <2>3 DEF VerifierTypeOK, RejectDamaged, CopiesWereSent
  <2>4. ASSUME NEW c \in checks, CheckAndRecordNonce(c) PROVE VerifierTypeOK' /\ CopiesWereSent'
    <3>1. c.env \in wire /\ c.env.nonce \in Nonces
      BY DEF VerifierTypeOK, Checks, Envelope, CopiesWereSent
    <3>2. seen' \subseteq Nonces
      BY <2>4, <3>1, EvictShrinks DEF VerifierTypeOK, CheckAndRecordNonce
    <3> QED
      BY <2>4, <3>1, <3>2 DEF VerifierTypeOK, CheckAndRecordNonce, CopiesWereSent
  <2>5. CASE Tick
    BY <2>5 DEF VerifierTypeOK, Tick, CopiesWereSent
  <2>6. CASE Restart
    BY <2>6 DEF VerifierTypeOK, Restart, CopiesWereSent
  <2>7. CASE UNCHANGED verifierVars
    BY <2>7 DEF VerifierTypeOK, verifierVars, CopiesWereSent
  <2> QED
    BY <2>1, <2>2, <2>3, <2>4, <2>5, <2>6, <2>7 DEF VerifierNext, Sign, Rewrite
<1> QED
  BY <1>1, <1>2, PTL DEF VerifierSpec

\* NewVerifier: an empty cache satisfies the invariant.
LEMMA InitIInv == VerifierInit => VerifierIInv
BY VerifierAssumption
   DEF VerifierInit, VerifierIInv, VerifierTypeOK, SentByNow, ChecksTimely, CachedSinceSigned,
       AcceptedIsRemembered, AcceptedAtMostOnce, RecordedMeansAccepted

\* An envelope is sent, fresh or rewritten: only the bound on its time is new, for
\* it has not been accepted, whatever became of its nonce.
LEMMA SendIInv ==
    ASSUME VerifierIInv, VerifierTypeOK', NEW n \in Nonces, SendEnvelope(n)
    PROVE  VerifierIInv'
<1> USE VerifierAssumption DEF VerifierIInv, VerifierTypeOK
<1>1. PICK t \in (now - Offset) .. (now + Offset) :
           /\ wire' = wire \cup {[nonce |-> n, signedAt |-> t]}
           /\ UNCHANGED <<now, checks, seen, seenAt, accepted, repeated>>
  BY DEF SendEnvelope
<1>2. SentByNow'
  BY <1>1 DEF SentByNow
<1>3. ChecksTimely'
  BY <1>1 DEF ChecksTimely
<1>4. CachedSinceSigned' /\ AcceptedIsRemembered'
  BY <1>1 DEF CachedSinceSigned, AcceptedIsRemembered
<1>5. AcceptedAtMostOnce' /\ RecordedMeansAccepted'
  BY <1>1 DEF AcceptedAtMostOnce, RecordedMeansAccepted
<1> QED
  BY <1>2, <1>3, <1>4, <1>5

\* A copy passes the timestamp test: it is no more than Skew behind its signed_at.
LEMMA CheckTimestampIInv ==
    ASSUME VerifierIInv, VerifierTypeOK', NEW g \in Goroutines, NEW e \in wire,
           NEW intact \in BOOLEAN, CheckTimestamp(g, e, intact)
    PROVE  VerifierIInv'
<1> USE VerifierAssumption DEF VerifierIInv, VerifierTypeOK, CheckTimestamp
<1>1. ChecksTimely'
  BY DEF ChecksTimely, Checks, InWindow, Envelope
<1>2. SentByNow' /\ CachedSinceSigned' /\ AcceptedIsRemembered'
  BY DEF SentByNow, CachedSinceSigned, AcceptedIsRemembered
<1>3. AcceptedAtMostOnce' /\ RecordedMeansAccepted'
  BY DEF AcceptedAtMostOnce, RecordedMeansAccepted
<1> QED
  BY <1>1, <1>2, <1>3

\* The heart of the argument.  A copy reaches checkAndRecordNonce at most
\* Skew + MaxLag after its signed_at.  If an envelope with its nonce had been
\* accepted and the nonce evicted, more than 2*Skew - Offset would have passed since
\* that one's signed_at: so it is another envelope, and an older one.
LEMMA CheckAndRecordNonceIInv ==
    ASSUME VerifierIInv, VerifierTypeOK', NEW c \in checks, CheckAndRecordNonce(c)
    PROVE  VerifierIInv'
<1> USE VerifierAssumption DEF VerifierIInv, VerifierTypeOK
<1> DEFINE e == c.env
           n == c.env.nonce
<1>1. /\ e \in wire /\ n \in Nonces /\ e.signedAt \in Int /\ c.at \in Nat
      /\ \A f \in accepted : f.signedAt \in Int /\ f.nonce \in Nonces
  BY DEF Checks, ChecksTimely, Envelope
<1>2. now <= e.signedAt + Skew + MaxLag
  BY <1>1 DEF ChecksTimely
<1>3. SentByNow' /\ ChecksTimely'
  BY DEF SentByNow, ChecksTimely, CheckAndRecordNonce
<1>4. CASE n \in seen
  BY <1>3, <1>4 DEF CheckAndRecordNonce, CachedSinceSigned, AcceptedIsRemembered,
                    AcceptedAtMostOnce, RecordedMeansAccepted
<1>5. CASE n \notin seen
  <2>1. /\ seenAt' = [seenAt EXCEPT ![n] = now]
        /\ seen' = Evict(seen \cup {n}, seenAt')
        /\ accepted' = accepted \cup {e}
        /\ repeated' = repeated \cup ({e} \cap accepted)
        /\ UNCHANGED <<now, wire>>
    BY <1>5 DEF CheckAndRecordNonce
  <2>2. ASSUME NEW f \in accepted, f.nonce = n
        PROVE  e.signedAt - f.signedAt > Skew - Offset - MaxLag
    <3>1. now > f.signedAt - Offset + 2 * Skew
      BY <1>5, <2>2 DEF AcceptedIsRemembered
    <3> QED
      BY <1>1, <1>2, <3>1
  <2>3. e \notin accepted
    BY <1>1, <2>2
  <2>4. seen' \subseteq seen \cup {n}
    BY <2>1, EvictShrinks
  <2>5. CachedSinceSigned'
    <3> SUFFICES ASSUME NEW m \in seen'
                 PROVE  /\ seenAt'[m] <= now
                        /\ \A f \in accepted' : f.nonce = m => f.signedAt <= seenAt'[m] + Offset
      BY <2>1 DEF CachedSinceSigned
    <3>1. CASE m = n
      BY <1>1, <2>1, <3>1 DEF SentByNow
    <3>2. CASE m # n
      BY <2>1, <2>4, <3>2 DEF CachedSinceSigned
    <3> QED
      BY <3>1, <3>2
  <2>6. AcceptedIsRemembered'
    <3> SUFFICES ASSUME NEW f \in accepted', f.nonce \notin seen'
                 PROVE  now > f.signedAt - Offset + 2 * Skew
      BY <2>1 DEF AcceptedIsRemembered
    <3>1. CASE f.nonce \in seen \cup {n}
      <4>1. seenAt'[f.nonce] < now - 2 * Skew
        BY <2>1, <3>1, EvictRemovesOld
      <4>2. f.nonce # n
        BY <1>1, <2>1, <4>1
      <4>3. f \in accepted /\ f.nonce \in seen /\ seenAt'[f.nonce] = seenAt[f.nonce]
        BY <2>1, <3>1, <4>2
      <4> QED
        BY <1>1, <4>1, <4>3 DEF CachedSinceSigned
    <3>2. CASE f.nonce \notin seen \cup {n}
      BY <2>1, <3>2 DEF AcceptedIsRemembered
    <3> QED
      BY <3>1, <3>2
  <2>7. AcceptedAtMostOnce'
    <3>1. repeated' = {}
      BY <2>1, <2>3 DEF AcceptedAtMostOnce
    <3> SUFFICES ASSUME NEW x \in accepted', NEW y \in accepted', x # y, x.nonce = y.nonce,
                        x.signedAt <= y.signedAt
                 PROVE  y.signedAt - x.signedAt > Skew - Offset - MaxLag
      BY <3>1 DEF AcceptedAtMostOnce
    <3>2. CASE x \in accepted /\ y \in accepted
      BY <3>2 DEF AcceptedAtMostOnce
    <3>3. CASE x \in accepted /\ y = e
      BY <2>2, <3>3
    <3>4. CASE x = e /\ y \in accepted
      BY <1>1, <2>2, <3>4
    <3> QED
      BY <2>1, <3>2, <3>3, <3>4
  <2>8. RecordedMeansAccepted'
    BY <2>1, <2>4 DEF RecordedMeansAccepted
  <2> QED
    BY <1>3, <2>5, <2>6, <2>7, <2>8
<1> QED
  BY <1>4, <1>5

\* Time passes: a copy inside Verify stays within MaxLag of its timestamp test.
LEMMA TickIInv ==
    ASSUME VerifierIInv, VerifierTypeOK', Tick
    PROVE  VerifierIInv'
<1> USE VerifierAssumption DEF VerifierIInv, VerifierTypeOK, Tick
<1>1. SentByNow' /\ CachedSinceSigned' /\ AcceptedIsRemembered'
  BY DEF SentByNow, CachedSinceSigned, AcceptedIsRemembered, Envelope
<1>2. ChecksTimely'
  BY DEF ChecksTimely, Checks
<1>3. AcceptedAtMostOnce' /\ RecordedMeansAccepted'
  BY DEF AcceptedAtMostOnce, RecordedMeansAccepted
<1> QED
  BY <1>1, <1>2, <1>3

\* A restart forgets acceptances together with the cache.
LEMMA RestartIInv ==
    ASSUME VerifierIInv, VerifierTypeOK', Restart
    PROVE  VerifierIInv'
BY VerifierAssumption
   DEF VerifierIInv, VerifierTypeOK, Restart, SentByNow, ChecksTimely, CachedSinceSigned,
       AcceptedIsRemembered, AcceptedAtMostOnce, RecordedMeansAccepted

\* Nothing changes.
LEMMA StutterIInv ==
    ASSUME VerifierIInv, VerifierTypeOK', UNCHANGED verifierVars
    PROVE  VerifierIInv'
BY DEF verifierVars, VerifierIInv, SentByNow, ChecksTimely, CachedSinceSigned,
       AcceptedIsRemembered, AcceptedAtMostOnce, RecordedMeansAccepted

\* A damaged copy is refused before the nonce is recorded.
LEMMA RejectDamagedIInv ==
    ASSUME VerifierIInv, VerifierTypeOK', NEW c \in checks, RejectDamaged(c)
    PROVE  VerifierIInv'
BY DEF RejectDamaged, VerifierIInv, SentByNow, ChecksTimely, CachedSinceSigned,
       AcceptedIsRemembered, AcceptedAtMostOnce, RecordedMeansAccepted

\* The invariant behind replay protection holds in every reachable state: a copy
\* that reaches checkAndRecordNonce is recent enough for the cache to know its
\* nonce, if its envelope was accepted before.
THEOREM VerifierInductive == VerifierSpec => []VerifierIInv
<1>1. VerifierIInv /\ VerifierTypeOK' /\ [VerifierNext]_verifierVars => VerifierIInv'
  <2> SUFFICES ASSUME VerifierIInv, VerifierTypeOK', [VerifierNext]_verifierVars PROVE VerifierIInv'
    OBVIOUS
  <2> QED
    BY SendIInv, CheckTimestampIInv, RejectDamagedIInv, CheckAndRecordNonceIInv,
       TickIInv, RestartIInv, StutterIInv DEF VerifierNext, Sign, Rewrite
<1> QED
  BY <1>1, InitIInv, VerifierTypeCorrect, PTL DEF VerifierSpec

\* Replay protection for every instance: Verify returns nil at most once for an
\* envelope in one life of the agent, despite eviction from the nonce cache and
\* although nonce and signed_at are outside the signature; and it accepts a nonce
\* again only under a signed_at that is later by more than Skew - Offset - MaxLag.
THEOREM ReplayProtection == VerifierSpec => []AcceptedAtMostOnce
<1>1. VerifierIInv => AcceptedAtMostOnce
  BY DEF VerifierIInv
<1> QED
  BY <1>1, VerifierInductive, PTL

\* A nonce is in the cache only if an envelope with it was accepted, for every
\* instance: a copy refused for its signature blocks nothing behind it.
THEOREM DamagedCopiesHarmless == VerifierSpec => []RecordedMeansAccepted
<1>1. VerifierIInv => RecordedMeansAccepted
  BY DEF VerifierIInv
<1> QED
  BY <1>1, VerifierInductive, PTL

\* Eviction frees the nonce of an envelope only after its copies have left the
\* timestamp window.
THEOREM EvictionIsLate == VerifierSpec => []EvictedIsTooOld
<1>1. VerifierIInv => EvictedIsTooOld
  <2> SUFFICES ASSUME VerifierIInv, NEW e \in accepted, e.nonce \notin seen
               PROVE  ~InWindow(e)
    BY DEF EvictedIsTooOld
  <2>1. now > e.signedAt - Offset + 2 * Skew
    BY DEF VerifierIInv, AcceptedIsRemembered
  <2>2. e.signedAt \in Int /\ now \in Nat
    BY VerifierAssumption DEF VerifierIInv, VerifierTypeOK, Envelope
  <2> QED
    BY <2>1, <2>2, VerifierAssumption DEF InWindow
<1> QED
  BY <1>1, VerifierInductive, PTL
=============================================================================
