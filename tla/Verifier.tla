------------------------------ MODULE Verifier ------------------------------
(***************************************************************************)
(* The replay protection of pkg/signing: Signer.Sign on the API server,    *)
(* and Verifier.Verify / checkAndRecordNonce in the agent, with signature  *)
(* verification enabled.                                                   *)
(*                                                                         *)
(* A signature covers signed_payload alone.  nonce and signed_at are put   *)
(* into the envelope beside it, so envelopes with any nonce and time can   *)
(* stand around one signed payload, and to Verify they are different       *)
(* messages.  An envelope is therefore its nonce and its signed_at; the    *)
(* payload makes no difference to what follows.  The relay may deliver any *)
(* number of copies of an envelope, at any time, whole or damaged.  Every  *)
(* copy is verified in a goroutine of its own, in two steps that other     *)
(* goroutines may separate: the timestamp test, and the nonce test made    *)
(* under nonceMu after the signature has been checked.  Time is the        *)
(* agent's clock in whole units.                                           *)
(***************************************************************************)
EXTENDS Integers, FiniteSets

CONSTANTS Nonces,        \* the nonces that occur
          Goroutines,    \* handler goroutines that may be in Verify at once
          Skew,          \* maxTimestampSkew
          MaxNonces,     \* maxNonces
          EvictEvery,    \* evictions are tried at multiples of this map size (100)
          Offset,        \* every clock that writes signed_at is within Offset of the agent's
          MaxLag,        \* longest time a goroutine spends inside Verify
          MaxEnvelopes,  \* bound: envelopes ever sent
          MaxTime        \* bound: the clock stops here

(***************************************************************************)
(* The last conjunct but one is the deployment condition replay protection *)
(* rests on: the cache keeps a nonce for 2*Skew while an envelope is       *)
(* acceptable until Skew after its signed_at, so clock offset and          *)
(* verification lag together must fit in the remaining Skew.               *)
(***************************************************************************)
ASSUME VerifierAssumption ==
    /\ Skew \in Nat /\ MaxNonces \in Nat /\ EvictEvery \in Nat \ {0}
    /\ Offset \in Nat /\ MaxLag \in Nat /\ MaxTime \in Nat /\ MaxEnvelopes \in Nat
    /\ Offset + MaxLag <= Skew
    /\ IsFiniteSet(Nonces)

VARIABLES now,        \* the agent's clock
          wire,       \* the envelopes sent so far
          checks,     \* copies past the timestamp test, per goroutine
          seen,       \* keys of seenNonces
          seenAt,     \* values of seenNonces
          accepted,   \* the envelopes Verify returned nil for in this life of
                      \* the process (history variable)
          repeated    \* those it returned nil for again (history variable)

verifierVars == <<now, wire, checks, seen, seenAt, accepted, repeated>>

\* What Verify reads beside the signed payload.
Envelope == [nonce : Nonces, signedAt : Int]

\* A copy inside Verify: the goroutine, the envelope, whether the copy is whole
\* (parses, carries every field, has a valid signature over matching fields),
\* and when its timestamp was tested.
Checks == [g : Goroutines, env : Envelope, intact : BOOLEAN, at : Nat]

\* One type invariant for the state of the verifier and its environment.
VerifierTypeOK ==
    /\ now \in 0 .. MaxTime
    /\ wire \subseteq Envelope
    /\ checks \subseteq Checks
    /\ seen \subseteq Nonces
    /\ seenAt \in [Nonces -> Nat]
    /\ accepted \subseteq wire
    /\ repeated \subseteq accepted

VerifierInit ==
    /\ now = 0
    /\ wire = {}
    /\ checks = {}
    /\ seen = {}
    /\ seenAt = [n \in Nonces |-> 0]
    /\ accepted = {}
    /\ repeated = {}

\* An envelope with nonce n is sent, stamped by a clock near the agent's.
SendEnvelope(n) ==
    /\ Cardinality(wire) < MaxEnvelopes
    /\ \E t \in (now - Offset) .. (now + Offset) :
          wire' = wire \cup {[nonce |-> n, signedAt |-> t]}
    /\ UNCHANGED <<now, checks, seen, seenAt, accepted, repeated>>

\* Signer.Sign: the payload is signed, then signed_at and a fresh nonce are added.
Sign(n) ==
    /\ \A e \in wire : e.nonce # n
    /\ SendEnvelope(n)

\* What is outside the signature can be written anew on the way: the payload of an
\* envelope sent before goes on with another signed_at, another nonce, or both.
Rewrite(n) ==
    /\ wire # {}
    /\ SendEnvelope(n)

-----------------------------------------------------------------------------
\* absDuration(time.Since(signedAt)) <= maxTimestampSkew; the mutant forgets
\* that a message may also be too old.
InWindow_Mutant(e) == e.signedAt - now <= Skew
InWindow(e) == now - e.signedAt <= Skew /\ e.signedAt - now <= Skew

\* HandleMessage calls Verify for a copy of a message: the fields and the
\* timestamp are tested first, and a copy outside the window is answered 403.
CheckTimestamp(g, e, intact) ==
    /\ \A c \in checks : c.g # g
    /\ \/ /\ InWindow(e)
          /\ checks' = checks \cup {[g |-> g, env |-> e, intact |-> intact, at |-> now]}
       \/ /\ ~InWindow(e)
          /\ UNCHANGED checks
    /\ UNCHANGED <<now, wire, seen, seenAt, accepted, repeated>>

\* A copy that is not whole fails ed25519.Verify or verifyPayloadMatchesMessage
\* and leaves the nonce cache alone.  The mutant records the nonce before the
\* signature is verified.
RejectDamaged_Mutant(c) ==
    /\ ~c.intact
    /\ checks' = checks \ {c}
    /\ seen' = seen \cup {c.env.nonce}
    /\ seenAt' = [seenAt EXCEPT ![c.env.nonce] = now]
    /\ UNCHANGED <<now, wire, accepted, repeated>>

RejectDamaged(c) ==
    /\ ~c.intact
    /\ checks' = checks \ {c}
    /\ UNCHANGED <<now, wire, seen, seenAt, accepted, repeated>>

\* The entries older than 2*maxTimestampSkew.
Expired(S, at) == {n \in S : at[n] < now - 2 * Skew}

\* The eviction at the end of checkAndRecordNonce, on the map that already
\* holds the new nonce.
Evict(S, at) ==
    IF Cardinality(S) > MaxNonces /\ Cardinality(S) % EvictEvery = 0
    THEN S \ Expired(S, at)
    ELSE S

\* checkAndRecordNonce, atomic under nonceMu: a known nonce is refused, a new
\* one is recorded with the current time and the envelope is accepted.
CheckAndRecordNonce(c) ==
    /\ c.intact
    /\ checks' = checks \ {c}
    /\ \/ /\ c.env.nonce \in seen
          /\ UNCHANGED <<seen, seenAt, accepted, repeated>>
       \/ /\ c.env.nonce \notin seen
          /\ seenAt' = [seenAt EXCEPT ![c.env.nonce] = now]
          /\ seen' = Evict(seen \cup {c.env.nonce}, seenAt')
          /\ accepted' = accepted \cup {c.env}
          /\ repeated' = repeated \cup ({c.env} \cap accepted)
    /\ UNCHANGED <<now, wire>>

\* Time passes; no goroutine stays inside Verify longer than MaxLag.
Tick ==
    /\ now < MaxTime
    /\ \A c \in checks : now + 1 <= c.at + MaxLag
    /\ now' = now + 1
    /\ UNCHANGED <<wire, checks, seen, seenAt, accepted, repeated>>

\* The process restarts: NewVerifier begins with an empty cache, and the copies
\* in flight are lost.  Acceptances are those of one life of the process.
Restart ==
    /\ checks' = {}
    /\ seen' = {}
    /\ accepted' = {}
    /\ repeated' = {}
    /\ UNCHANGED <<now, wire, seenAt>>

VerifierNext ==
    \/ \E n \in Nonces : Sign(n)
    \/ \E n \in Nonces : Rewrite(n)
    \/ \E g \in Goroutines, e \in wire, intact \in BOOLEAN : CheckTimestamp(g, e, intact)
    \/ \E c \in checks : RejectDamaged(c)
    \/ \E c \in checks : CheckAndRecordNonce(c)
    \/ Tick
    \/ Restart

VerifierSpec == VerifierInit /\ [][VerifierNext]_verifierVars
-----------------------------------------------------------------------------
\* What the nonce cache is good for: however often, late or concurrently copies of
\* an envelope arrive, whatever other envelopes carry its nonce, and whatever the
\* cache has evicted meanwhile, one life of the agent accepts the envelope at most
\* once; and of two envelopes with one nonce it accepts both only if one is signed
\* later by more than what offset and lag leave of the window.  (A payload may be
\* accepted once for every envelope around it: the signature ties it to none.)
AcceptedAtMostOnce ==
    /\ repeated = {}
    /\ \A e, f \in accepted :
          e # f /\ e.nonce = f.nonce /\ e.signedAt <= f.signedAt =>
              f.signedAt - e.signedAt > Skew - Offset - MaxLag

\* A copy that Verify refuses uses up no nonce: every nonce in the cache is that of
\* an envelope that was accepted, so whatever is refused as a replay follows an
\* accepted envelope with the same nonce.
RecordedMeansAccepted == \A n \in seen : \E e \in accepted : e.nonce = n

\* Eviction never frees a nonce that a copy still in the window could reuse.
EvictedIsTooOld ==
    \A e \in accepted : e.nonce \notin seen => ~InWindow(e)
=============================================================================
