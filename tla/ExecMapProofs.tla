--------------------------- MODULE ExecMapProofs ---------------------------
(***************************************************************************)
(* Proofs about RemoteExec for any window, output and cap, and about       *)
(* ServiceMap for any answers of the store and every limit.                *)
(***************************************************************************)
EXTENDS RemoteExec, ServiceMap, Progress, FiniteSetTheorems, TLAPS

-----------------------------------------------------------------------------
(* The command on a remote host. *)

\* What has been read of a stream is what has been written and is not in the
\* channel any more.  runCommand keeps that up to one past the cap, handleExec
\* never reads past the cap.
KeptIsRead ==
    \A s \in Streams :
        /\ written[s] <= total[s]
        /\ buffer[s] <= written[s]
        /\ caller = "runCommand" =>
              kept[s] = IF written[s] - buffer[s] < KeepLimit THEN written[s] - buffer[s] ELSE KeepLimit
        /\ caller = "handleExec" =>
              kept[s] = written[s] - buffer[s] /\ kept[s] <= MaxOutputBytes
        /\ caller = "none" => kept[s] = 0

\* The window holds what is unread of both streams.
WindowHolds == buffer["stdout"] + buffer["stderr"] <= ChannelWindow

\* A process that has exited has written everything.
ExitIsLast == exited => written = total

\* The session is closed when the function returns, not before; success means that
\* the process has exited and both readers were through, failure that the channel
\* was lost.
ReturnsInOrder ==
    /\ caller # "none" => (closed <=> Returned)
    /\ phase = "wait" => ended = Streams
    /\ phase = "ok" => exited /\ ended = Streams
    /\ phase = "failed" => dropped /\ ended = Streams
    /\ caller = "handleExec" /\ phase = "read" => "stderr" \notin ended
    /\ caller = "handleExec" /\ "stderr" \in ended => "stdout" \in ended
    /\ caller = "none" => phase = "read" /\ ended = {}

\* A reader of a command that has not timed out stops at the end of its stream, or,
\* in handleExec, at the cap.
ReadersEndAtEnd ==
    \A s \in ended : phase # "timed out" =>
        \/ buffer[s] = 0 /\ (exited \/ dropped)
        \/ caller = "handleExec" /\ kept[s] = MaxOutputBytes

\* The inductive invariant of a command.
ExecIInv ==
    /\ ExecTypeOK
    /\ KeptIsRead
    /\ WindowHolds
    /\ ExitIsLast
    /\ ReturnsInOrder
    /\ ReadersEndAtEnd

LEMMA ExecInitIInv ==
    ASSUME NEW callers \in SUBSET (Runners \cup {"none"}), ExecInit(callers) PROVE ExecIInv
<1> USE RemoteExecAssumption DEF ExecInit, Runners
<1>1. ExecTypeOK
  <2>1. total \in [Streams -> 0 .. MaxOutput]
    BY DEF Streams
  <2>2. closed \in BOOLEAN /\ hangs \in BOOLEAN /\ exited \in BOOLEAN /\ dropped \in BOOLEAN /\ overdue \in BOOLEAN
    BY Zenon
  <2>3. /\ written \in [Streams -> 0 .. MaxOutput] /\ buffer \in [Streams -> 0 .. ChannelWindow]
        /\ kept \in [Streams -> 0 .. MaxOutputBytes + 1]
    OBVIOUS
  <2>4. caller \in Runners \cup {"none"} /\ ended \subseteq Streams
    OBVIOUS
  <2> QED
    BY <2>1, <2>2, <2>3, <2>4, Zenon DEF ExecTypeOK
<1>2. KeptIsRead
  <2>1. \A s \in Streams : total[s] \in Nat
    BY <1>1 DEF ExecTypeOK
  <2> QED
    BY <2>1 DEF KeptIsRead, KeepLimit
<1>3. WindowHolds
  BY DEF WindowHolds, Streams
<1>4. closed <=> caller = "none"
  BY Zenon
<1>5. ExitIsLast /\ ReturnsInOrder /\ ReadersEndAtEnd
  BY <1>4 DEF ExitIsLast, ReturnsInOrder, ReadersEndAtEnd, Returned
<1> QED
  BY <1>1, <1>2, <1>3, <1>5 DEF ExecIInv

\* The process writes one unit more, into the room the window has.
LEMMA WriteIInv == ASSUME ExecIInv, NEW s \in Streams, Write(s) PROVE ExecIInv'
<1> USE RemoteExecAssumption DEF ExecIInv
<1>1. /\ ~exited /\ ~dropped /\ ~closed /\ written[s] < total[s]
      /\ buffer["stdout"] + buffer["stderr"] < ChannelWindow
      /\ written' = [written EXCEPT ![s] = @ + 1] /\ buffer' = [buffer EXCEPT ![s] = @ + 1]
      /\ UNCHANGED <<caller, total, hangs, exited, dropped, kept, ended, overdue, closed, phase>>
  BY DEF Write
<1>2. \A t \in Streams :
         /\ written[t] \in 0 .. MaxOutput /\ total[t] \in 0 .. MaxOutput
         /\ buffer[t] \in 0 .. ChannelWindow
         /\ written'[t] = IF t = s THEN written[t] + 1 ELSE written[t]
         /\ buffer'[t] = IF t = s THEN buffer[t] + 1 ELSE buffer[t]
  BY <1>1, ZenonT(40) DEF ExecTypeOK
<1>3. WindowHolds' /\ \A t \in Streams : buffer'[t] \in 0 .. ChannelWindow
  BY <1>1, <1>2 DEF WindowHolds, Streams
<1>4. ExecTypeOK'
  <2>1. \A t \in Streams : written'[t] \in 0 .. MaxOutput
    BY <1>1, <1>2
  <2>2. written' \in [Streams -> 0 .. MaxOutput] /\ buffer' \in [Streams -> 0 .. ChannelWindow]
    BY <1>1, <1>3, <2>1, ZenonT(40) DEF ExecTypeOK
  <2> QED
    BY <1>1, <2>2, ZenonT(40) DEF ExecTypeOK
<1>5. KeptIsRead'
  BY <1>1, <1>2 DEF KeptIsRead, KeepLimit
<1>6. ExitIsLast' /\ ReturnsInOrder'
  BY <1>1, ZenonT(40) DEF ExitIsLast, ReturnsInOrder, Returned
<1>7. ReadersEndAtEnd'
  BY <1>1, <1>2, ZenonT(40) DEF ReadersEndAtEnd, ExecTypeOK
<1> QED
  BY <1>3, <1>4, <1>5, <1>6, <1>7

\* The exit status, the loss of the channel and the deadline.
LEMMA EventIInv == ASSUME ExecIInv, Exit \/ LoseChannel \/ PassDeadline PROVE ExecIInv'
<1> USE DEF ExecIInv
<1>1. /\ UNCHANGED <<caller, total, hangs, written, buffer, kept, ended, closed, phase>>
      /\ exited' \in BOOLEAN /\ dropped' \in BOOLEAN /\ overdue' \in BOOLEAN
      /\ (exited => exited') /\ (dropped => dropped')
      /\ exited' => exited \/ written = total
  <2>1. exited \in BOOLEAN /\ dropped \in BOOLEAN /\ overdue \in BOOLEAN
    BY Zenon DEF ExecTypeOK
  <2>2. CASE Exit
    BY <2>1, <2>2, Zenon DEF Exit
  <2>3. CASE LoseChannel
    BY <2>1, <2>3, Zenon DEF LoseChannel
  <2>4. CASE PassDeadline
    BY <2>1, <2>4, Zenon DEF PassDeadline, remote
  <2> QED
    BY <2>2, <2>3, <2>4
<1>2. ExecTypeOK'
  BY <1>1, ZenonT(40) DEF ExecTypeOK
<1>3. KeptIsRead' /\ WindowHolds'
  BY <1>1 DEF KeptIsRead, WindowHolds
<1>4. ExitIsLast' /\ ReturnsInOrder' /\ ReadersEndAtEnd'
  BY <1>1, Zenon DEF ExitIsLast, ReturnsInOrder, ReadersEndAtEnd, Returned
<1> QED
  BY <1>2, <1>3, <1>4

\* A reader takes one unit out of the channel, and keeps it or not.
LEMMA ReadIInv == ASSUME ExecIInv, NEW s \in Streams, Drain(s) \/ ReadAll(s) PROVE ExecIInv'
<1> USE RemoteExecAssumption DEF ExecIInv
<1>1. /\ s \notin ended /\ buffer[s] > 0
      /\ buffer' = [buffer EXCEPT ![s] = @ - 1]
      /\ UNCHANGED <<remote, ended, overdue, closed, phase>>
  BY DEF Drain, ReadAll
<1>2. UNCHANGED <<caller, total, hangs, written, exited, dropped>>
  BY <1>1 DEF remote
<1>3. \/ caller = "runCommand" /\ kept' = [kept EXCEPT ![s] = Keep(@)]
      \/ /\ caller = "handleExec" /\ kept[s] < MaxOutputBytes
         /\ kept' = [kept EXCEPT ![s] = @ + 1]
  BY DEF Drain, ReadAll
<1>4. \A t \in Streams :
         /\ written[t] \in 0 .. MaxOutput /\ total[t] \in 0 .. MaxOutput
         /\ buffer[t] \in 0 .. ChannelWindow /\ kept[t] \in 0 .. MaxOutputBytes + 1
         /\ buffer'[t] = IF t = s THEN buffer[t] - 1 ELSE buffer[t]
         /\ t # s => kept'[t] = kept[t]
  BY <1>1, <1>3, ZenonT(40) DEF ExecTypeOK
<1>5. /\ caller = "runCommand" =>
            kept'[s] = IF kept[s] < MaxOutputBytes + 1 THEN kept[s] + 1 ELSE kept[s]
      /\ caller = "handleExec" => kept[s] < MaxOutputBytes /\ kept'[s] = kept[s] + 1
      /\ caller # "none"
  BY <1>3, ZenonT(40) DEF Keep, KeepLimit, ExecTypeOK
<1>6. \A t \in Streams : buffer'[t] \in 0 .. ChannelWindow /\ kept'[t] \in 0 .. MaxOutputBytes + 1
  <2> SUFFICES ASSUME NEW t \in Streams
               PROVE  buffer'[t] \in 0 .. ChannelWindow /\ kept'[t] \in 0 .. MaxOutputBytes + 1
    BY Zenon
  <2>1. buffer[t] \in 0 .. ChannelWindow /\ kept[t] \in 0 .. MaxOutputBytes + 1
    BY <1>4, Zenon
  <2>2. t # s \/ buffer[t] > 0
    BY <1>1, Zenon
  <2>3. buffer'[t] \in 0 .. ChannelWindow
    BY <1>4, <2>1, <2>2
  <2>4. CASE t # s
    BY <1>4, <2>1, <2>4, Zenon
  <2>5. CASE t = s /\ caller = "runCommand"
    BY <1>5, <2>1, <2>3, <2>5
  <2>6. CASE t = s /\ caller = "handleExec"
    BY <1>5, <2>1, <2>3, <2>6
  <2> QED
    BY <1>3, <2>3, <2>4, <2>5, <2>6, Zenon
<1>7. ExecTypeOK'
  <2>1. buffer' \in [Streams -> 0 .. ChannelWindow] /\ kept' \in [Streams -> 0 .. MaxOutputBytes + 1]
    BY <1>1, <1>3, <1>6, Zenon DEF ExecTypeOK
  <2> QED
    BY <1>1, <1>2, <2>1, Zenon DEF ExecTypeOK
<1>8. KeptIsRead'
  BY <1>1, <1>2, <1>4, <1>5, SMTT(30) DEF KeptIsRead, KeepLimit
<1>9. WindowHolds'
  BY <1>1, <1>4 DEF WindowHolds, Streams
<1>10. ExitIsLast' /\ ReturnsInOrder'
  BY <1>1, <1>2, ZenonT(40) DEF ExitIsLast, ReturnsInOrder, Returned
<1>11. ReadersEndAtEnd'
  BY <1>1, <1>2, <1>4, ZenonT(40) DEF ReadersEndAtEnd, ExecTypeOK
<1> QED
  BY <1>7, <1>8, <1>9, <1>10, <1>11, SMTT(30)

\* A reader ends.
LEMMA ReaderEndsIInv ==
    ASSUME ExecIInv, NEW s \in Streams, DrainEnds(s) \/ ReadAllEnds(s) PROVE ExecIInv'
<1> USE DEF ExecIInv
<1>1. /\ s \notin ended /\ ended' = ended \cup {s}
      /\ UNCHANGED <<caller, total, hangs, written, exited, dropped, buffer, kept, overdue, closed>>
  BY ZenonT(40) DEF DrainEnds, ReadAllEnds, remote
<1>2. \/ /\ caller = "runCommand" /\ phase' = phase
         /\ buffer[s] = 0 /\ (exited \/ dropped \/ closed)
      \/ /\ caller = "handleExec" /\ phase = "read" /\ (s = "stdout" \/ "stdout" \in ended)
         /\ phase' = IF s = "stderr" THEN "wait" ELSE "read"
         /\ kept[s] = MaxOutputBytes \/ (buffer[s] = 0 /\ (exited \/ dropped \/ closed))
  BY DEF DrainEnds, ReadAllEnds, MayRead, ReadToEnd, AtEOF
<1>3. ExecTypeOK'
  BY <1>1, <1>2, ZenonT(40) DEF ExecTypeOK
<1>4. KeptIsRead' /\ WindowHolds' /\ ExitIsLast'
  BY <1>1 DEF KeptIsRead, WindowHolds, ExitIsLast
<1>5. ReturnsInOrder'
  <2>1. caller # "none" /\ (Returned' <=> Returned)
    BY <1>2, Zenon DEF Returned
  <2>2. closed' <=> Returned'
    BY <1>1, <2>1, Zenon DEF ReturnsInOrder
  <2>3. phase' = "wait" => ended' = Streams
    <3>1. ended \subseteq Streams
      BY Zenon DEF ExecTypeOK
    <3> QED
      BY <1>1, <1>2, <3>1, ZenonT(40) DEF ReturnsInOrder, Streams
  <2>4. phase' = "ok" => exited' /\ ended' = Streams
    BY <1>1, <1>2 DEF ReturnsInOrder
  <2>5. phase' = "failed" => dropped' /\ ended' = Streams
    BY <1>1, <1>2 DEF ReturnsInOrder
  <2>6. caller = "handleExec" =>
           /\ phase' = "read" => "stderr" \notin ended'
           /\ "stderr" \in ended' => "stdout" \in ended'
    BY <1>1, <1>2 DEF ReturnsInOrder
  <2> QED
    BY <1>1, <2>1, <2>2, <2>3, <2>4, <2>5, <2>6, SMTT(30) DEF ReturnsInOrder
<1>6. ReadersEndAtEnd'
  <2>1. closed => phase \in {"timed out", "failed", "ok"}
    BY <1>2, ZenonT(40) DEF ReturnsInOrder, Returned
  <2>2. phase # "timed out" => phase' # "timed out" /\ (exited \/ dropped \/ ~closed)
    BY <1>2, <2>1, ZenonT(40) DEF ReturnsInOrder
  <2>3. phase = "timed out" => phase' = "timed out"
    BY <1>2, ZenonT(40)
  <2> QED
    BY <1>1, <1>2, <2>2, <2>3, ZenonT(40) DEF ReadersEndAtEnd
<1> QED
  BY <1>3, <1>4, <1>5, <1>6, SMTT(30)

\* The function goes on to wait for the exit status, or returns.
LEMMA AwaitIInv == ASSUME ExecIInv, AwaitOutput \/ AwaitExit PROVE ExecIInv'
<1> USE DEF ExecIInv
<1>1. UNCHANGED <<caller, total, hangs, written, exited, dropped, buffer, kept, ended, overdue>>
  BY ZenonT(40) DEF AwaitOutput, AwaitExit, Return, remote
<1>2. \/ caller = "runCommand" /\ phase = "read" /\ ended = Streams /\ phase' = "wait" /\ closed' = closed
      \/ caller = "runCommand" /\ phase = "read" /\ phase' = "timed out" /\ closed' = TRUE
      \/ phase = "wait" /\ exited /\ phase' = "ok" /\ closed' = TRUE
      \/ phase = "wait" /\ dropped /\ phase' = "failed" /\ closed' = TRUE
      \/ phase = "wait" /\ phase' = "timed out" /\ closed' = TRUE
  BY ZenonT(40) DEF AwaitOutput, AwaitExit, Return
<1>3. ExecTypeOK'
  <2>1. closed' \in BOOLEAN
    BY <1>2, Zenon DEF ExecTypeOK
  <2> QED
    BY <1>1, <1>2, <2>1, ZenonT(40) DEF ExecTypeOK
<1>4. KeptIsRead' /\ WindowHolds' /\ ExitIsLast'
  BY <1>1 DEF KeptIsRead, WindowHolds, ExitIsLast
<1>5. ReturnsInOrder'
  <2>1. caller # "none" /\ (closed' <=> Returned')
    <3>1. caller # "none"
      BY <1>2, ZenonT(40) DEF ReturnsInOrder
    <3>2. ~Returned
      BY <1>2, Zenon DEF Returned
    <3>3. ~closed
      BY <3>1, <3>2, Zenon DEF ReturnsInOrder
    <3>4. \/ phase' = "wait" /\ ~closed'
          \/ phase' \in {"ok", "failed", "timed out"} /\ closed'
      BY <1>2, <3>3, Zenon
    <3> QED
      BY <3>1, <3>4, ZenonT(40) DEF Returned
  <2> QED
    BY <1>1, <1>2, <2>1, ZenonT(40) DEF ReturnsInOrder
<1>6. ReadersEndAtEnd'
  BY <1>1, <1>2, ZenonT(40) DEF ReadersEndAtEnd
<1> QED
  BY <1>3, <1>4, <1>5, <1>6, SMTT(30)

LEMMA ExecNextIInv == ASSUME ExecIInv, [ExecNext]_execVars PROVE ExecIInv'
<1>1. CASE UNCHANGED execVars
  BY <1>1, ZenonT(40) DEF execVars, ExecIInv, ExecTypeOK, KeptIsRead, WindowHolds, ExitIsLast, ReturnsInOrder,
              ReadersEndAtEnd, Returned
<1>2. CASE ExecNext
  BY <1>1, <1>2, WriteIInv, EventIInv, ReadIInv, ReaderEndsIInv, AwaitIInv, SMTT(30) DEF ExecNext, Finished
<1> QED
  BY <1>1, <1>2

\* At a successful return both streams have been read to their end or up to the cap.
LEMMA ExecOutputExact == ASSUME ExecIInv PROVE OutputExact
<1> USE RemoteExecAssumption DEF ExecIInv
<1> SUFFICES ASSUME phase = "ok"
             PROVE  \/ caller = "handleExec" /\ \A s \in Streams : kept[s] = Kept(s)
                    \/ /\ caller = "runCommand"
                       /\ \A s \in Streams : kept[s] >= Kept(s)
                       /\ truncated <=> \E s \in Streams : total[s] > MaxOutputBytes
  BY DEF OutputExact
<1>1. exited /\ ended = Streams /\ written = total /\ caller \in {"handleExec", "runCommand"}
  BY DEF ReturnsInOrder, ExitIsLast, ExecTypeOK, Runners
<1>2. \A s \in Streams : total[s] \in Nat /\ buffer[s] \in Nat /\ kept[s] \in Nat
  BY DEF ExecTypeOK
<1>3. \A s \in Streams : buffer[s] = 0 \/ (caller = "handleExec" /\ kept[s] = MaxOutputBytes)
  BY <1>1, SMTT(30) DEF ReadersEndAtEnd
<1>4. CASE caller = "handleExec"
  BY <1>1, <1>2, <1>3, <1>4, SMTT(30) DEF KeptIsRead, Kept
<1>5. CASE caller = "runCommand"
  <2>1. \A s \in Streams : kept[s] = IF total[s] < MaxOutputBytes + 1 THEN total[s]
                                                                       ELSE MaxOutputBytes + 1
    BY <1>1, <1>2, <1>3, <1>5, SMTT(30) DEF KeptIsRead, KeepLimit
  <2>2. \A s \in Streams : kept[s] >= Kept(s) /\ (kept[s] > MaxOutputBytes <=> total[s] > MaxOutputBytes)
    BY <1>2, <2>1 DEF Kept
  <2> QED
    BY <1>5, <2>2, SMTT(30) DEF truncated
<1> QED
  BY <1>1, <1>4, <1>5, SMTT(30)
\* What is still to be written, read and ended of a stream.
StreamAhead(s) == 2 * (total[s] - written[s]) + buffer[s] + (IF s \in ended THEN 0 ELSE 1)

\* What the process and the calling goroutine have before them besides.
ProcessAhead == IF exited THEN 0 ELSE 1
CallerAhead == IF phase = "read" THEN 2 ELSE IF phase = "wait" THEN 1 ELSE 0
EndsAhead == ProcessAhead + CallerAhead

CommandAhead == StreamAhead("stdout") + StreamAhead("stderr") + EndsAhead

\* runCommand, its two readers and the process never wait for each other in a
\* circle: one of them can go on, unless nothing is left, or the process hangs on a
\* channel that is not lost and the deadline has not come.
CommandGoesOn ==
    (caller = "runCommand" /\ (~hangs \/ dropped \/ overdue) /\ ~(Returned /\ ended = Streams)) =>
        \/ \E s \in Streams :
              \/ ~exited /\ ~dropped /\ ~closed /\ written[s] < total[s]
                 /\ buffer["stdout"] + buffer["stderr"] < ChannelWindow
              \/ s \notin ended /\ buffer[s] > 0 /\ (kept[s] < KeepLimit \/ Discards)
              \/ s \notin ended /\ AtEOF(s)
        \/ ~exited /\ ~dropped /\ ~hangs /\ ~closed /\ written = total
        \/ phase = "read" /\ (ended = Streams \/ Interrupted)
        \/ phase = "wait" /\ (exited \/ dropped \/ overdue)

\* Every step but the passing of the deadline and the loss of the channel, each of
\* which can happen once, leaves less to do.
CommandGetsNearer ==
    \/ CommandAhead' < CommandAhead /\ CommandAhead' >= 0
    \/ ~overdue /\ overdue' /\ UNCHANGED CommandAhead
    \/ ~dropped /\ dropped' /\ UNCHANGED CommandAhead

LEMMA ExecNumbers ==
    ASSUME ExecIInv, NEW s \in Streams
    PROVE  /\ total[s] \in Nat /\ written[s] \in Nat /\ buffer[s] \in Nat
           /\ written[s] <= total[s]
<1>1. total[s] \in 0 .. MaxOutput /\ written[s] \in 0 .. MaxOutput /\ buffer[s] \in 0 .. ChannelWindow
  BY Zenon DEF ExecIInv, ExecTypeOK
<1>2. written[s] <= total[s]
  BY Zenon DEF ExecIInv, KeptIsRead
<1> QED
  BY <1>1, <1>2, RemoteExecAssumption

LEMMA CommandGoesOnAlways == ASSUME ExecIInv PROVE CommandGoesOn
<1> SUFFICES ASSUME caller = "runCommand", ~hangs \/ dropped \/ overdue, ~(Returned /\ ended = Streams),
                    ~(phase = "read" /\ (ended = Streams \/ Interrupted)),
                    ~(phase = "wait" /\ (exited \/ dropped \/ overdue)),
                    \A s \in Streams : ~(s \notin ended /\ buffer[s] > 0),
                    \A s \in Streams : ~(s \notin ended /\ AtEOF(s))
             PROVE  \/ ~exited /\ ~dropped /\ ~hangs /\ ~closed /\ written = total
                    \/ \E s \in Streams :
                          /\ ~exited /\ ~dropped /\ ~closed /\ written[s] < total[s]
                          /\ buffer["stdout"] + buffer["stderr"] < ChannelWindow
  BY Zenon DEF CommandGoesOn, Discards
<1>1. phase \in {"read", "wait", "ok", "failed", "timed out"} /\ ended \subseteq Streams /\ (closed <=> Returned)
  BY Zenon DEF ExecIInv, ExecTypeOK, ReturnsInOrder
<1>2. ASSUME NEW s \in Streams \ ended PROVE buffer[s] = 0 /\ ~exited /\ ~dropped /\ ~closed
  <2>1. buffer[s] = 0
    BY ExecNumbers
  <2> QED
    BY <2>1, Zenon DEF AtEOF
<1>3. ~Returned
  BY <1>1, <1>2
<1>4. phase \in {"read", "wait"} /\ ~overdue /\ ~closed
  BY <1>1, <1>3, Zenon DEF Returned, Interrupted
<1>5. \A s \in ended : buffer[s] = 0
  BY <1>4 DEF ExecIInv, ReadersEndAtEnd
<1>6. ~exited /\ ~dropped /\ ~hangs
  <2>1. CASE phase = "read"
    BY <1>1, <1>2, <1>4, <2>1
  <2>2. CASE phase = "wait"
    BY <1>4, <2>2
  <2> QED
    BY <1>4, <2>1, <2>2
<1>7. \A s \in Streams : buffer[s] = 0
  BY <1>2, <1>5
<1>8. CASE written = total
  BY <1>4, <1>6, <1>8
<1>9. CASE written # total
  <2>1. PICK s \in Streams : written[s] # total[s]
    <3>1. written \in [Streams -> 0 .. MaxOutput] /\ total \in [Streams -> 0 .. MaxOutput]
      BY Zenon DEF ExecIInv, ExecTypeOK
    <3> QED
      BY <1>9, <3>1
  <2>2. written[s] < total[s]
    BY <2>1, ExecNumbers
  <2>3. buffer["stdout"] + buffer["stderr"] < ChannelWindow
    BY <1>7, RemoteExecAssumption DEF Streams
  <2> QED
    BY <1>4, <1>6, <2>2, <2>3
<1> QED
  BY <1>8, <1>9

\* Each of the parts of CommandAhead is a natural number.
LEMMA CommandAheadParts ==
    ASSUME ExecIInv
    PROVE  (\A s \in Streams : StreamAhead(s) \in Nat) /\ EndsAhead \in Nat
<1>1. \A s \in Streams : StreamAhead(s) \in Nat
  BY ExecNumbers DEF StreamAhead
<1>2. EndsAhead \in Nat
  BY DEF EndsAhead, ProcessAhead, CallerAhead
<1> QED
  BY <1>1, <1>2

LEMMA CommandAheadIsNumber == ExecIInv => CommandAhead >= 0
  BY CommandAheadParts DEF CommandAhead, Streams

LEMMA SumOrder ==
    ASSUME NEW a \in Nat, NEW b \in Nat, NEW c \in Nat
    PROVE  a + c \in Nat /\ (c <= b => a + c <= a + b) /\ (c < b => a + c < a + b)
  OBVIOUS

\* A step on one stream.
LEMMA OneStreamNearer ==
    ASSUME ExecIInv, NEW s \in Streams, StreamAhead(s)' = StreamAhead(s) - 1,
           EndsAhead' <= EndsAhead, EndsAhead' \in Nat,
           \A u \in Streams \ {s} : StreamAhead(u)' = StreamAhead(u)
    PROVE  CommandAhead' < CommandAhead
<1>1. CASE s = "stdout"
  <2>1. StreamAhead("stderr")' = StreamAhead("stderr")
    BY <1>1 DEF Streams
  <2> QED
    BY <1>1, <2>1, CommandAheadParts DEF CommandAhead, Streams
<1>2. CASE s = "stderr"
  <2>1. StreamAhead("stdout")' = StreamAhead("stdout")
    BY <1>2 DEF Streams
  <2> QED
    BY <1>2, <2>1, CommandAheadParts DEF CommandAhead, Streams
<1> QED
  BY <1>1, <1>2 DEF Streams

LEMMA StreamStepNearer ==
    ASSUME ExecIInv, NEW s \in Streams,
           Write(s) \/ Drain(s) \/ ReadAll(s) \/ DrainEnds(s) \/ ReadAllEnds(s)
    PROVE  CommandAhead' < CommandAhead
<1>1. /\ written \in [Streams -> 0 .. MaxOutput] /\ buffer \in [Streams -> 0 .. ChannelWindow]
      /\ phase \in {"read", "wait", "ok", "failed", "timed out"}
  BY Zenon DEF ExecIInv, ExecTypeOK
<1>2. UNCHANGED <<total, exited>>
  BY Zenon DEF Write, Drain, ReadAll, DrainEnds, ReadAllEnds, remote
<1>3. EndsAhead' <= EndsAhead /\ EndsAhead' \in Nat
  <2>1. phase' = phase \/ (phase = "read" /\ phase' = "wait")
    BY Zenon DEF Write, Drain, ReadAll, DrainEnds, ReadAllEnds
  <2>2. PICK c \in Nat, d \in Nat : c = CallerAhead /\ d = CallerAhead' /\ d <= c
    BY <2>1 DEF CallerAhead
  <2>3. PICK p \in Nat : p = ProcessAhead /\ p = ProcessAhead'
    BY <1>2 DEF ProcessAhead
  <2>4. EndsAhead = p + c /\ EndsAhead' = p + d
    BY <2>2, <2>3, Zenon DEF EndsAhead
  <2>5. p + d <= p + c /\ p + d \in Nat
    BY <2>2, <2>3, SumOrder, Zenon
  <2> QED
    BY <2>4, <2>5, Zenon
<1>4. ASSUME NEW u \in Streams \ {s} PROVE StreamAhead(u)' = StreamAhead(u)
  <2>1. written'[u] = written[u] /\ buffer'[u] = buffer[u] /\ (u \in ended' <=> u \in ended)
    BY <1>1 DEF Write, Drain, ReadAll, DrainEnds, ReadAllEnds, remote
  <2> QED
    BY <1>2, <2>1 DEF StreamAhead
<1>5. StreamAhead(s)' = StreamAhead(s) - 1
  <2>1. CASE Write(s)
    <3>1. written'[s] = written[s] + 1 /\ buffer'[s] = buffer[s] + 1 /\ ended' = ended
      BY <1>1, <2>1 DEF Write
    <3> QED
      BY <1>2, <3>1, ExecNumbers DEF StreamAhead
  <2>2. CASE Drain(s) \/ ReadAll(s)
    <3>1. written' = written /\ buffer'[s] = buffer[s] - 1 /\ ended' = ended
      BY <1>1, <2>2 DEF Drain, ReadAll, remote
    <3> QED
      BY <1>2, <3>1, ExecNumbers DEF StreamAhead
  <2>3. CASE DrainEnds(s) \/ ReadAllEnds(s)
    <3>1. written' = written /\ buffer' = buffer /\ s \notin ended /\ ended' = ended \cup {s}
      BY <2>3 DEF DrainEnds, ReadAllEnds, remote
    <3> QED
      BY <1>2, <3>1, ExecNumbers DEF StreamAhead
  <2> QED
    BY <2>1, <2>2, <2>3
<1> QED
  BY <1>3, <1>4, <1>5, OneStreamNearer

LEMMA CallerStepNearer ==
    ASSUME ExecIInv, Exit \/ AwaitOutput \/ AwaitExit
    PROVE  CommandAhead' < CommandAhead
<1>1. EndsAhead' < EndsAhead /\ EndsAhead' \in Nat
  <2>1. CASE Exit
    <3>1. ProcessAhead = 1 /\ ProcessAhead' = 0 /\ CallerAhead' = CallerAhead
      BY <2>1, Zenon DEF ProcessAhead, CallerAhead, Exit
    <3>2. CallerAhead \in Nat
      BY DEF CallerAhead
    <3> QED
      BY <3>1, <3>2 DEF EndsAhead
  <2>2. CASE AwaitOutput \/ AwaitExit
    <3>1. /\ exited' = exited
          /\ \/ phase = "read" /\ phase' \in {"wait", "timed out"}
             \/ phase = "wait" /\ phase' \in {"ok", "failed", "timed out"}
      BY <2>2, Zenon DEF AwaitOutput, AwaitExit, Return, remote
    <3>2. PICK c \in Nat, d \in Nat : c = CallerAhead /\ d = CallerAhead' /\ d < c
      <4>1. CASE phase = "read"
        <5>1. CallerAhead = 2 /\ CallerAhead' \in {0, 1}
          BY <3>1, <4>1, Zenon DEF CallerAhead
        <5> QED
          BY <5>1
      <4>2. CASE phase = "wait"
        <5>1. CallerAhead = 1 /\ CallerAhead' = 0
          BY <3>1, <4>2, Zenon DEF CallerAhead
        <5> QED
          BY <5>1
      <4> QED
        BY <3>1, <4>1, <4>2
    <3>3. PICK p \in Nat : p = ProcessAhead /\ p = ProcessAhead'
      <4>1. ProcessAhead' = ProcessAhead /\ ProcessAhead \in {0, 1}
        BY <3>1, Zenon DEF ProcessAhead
      <4> QED
        BY <4>1
    <3>4. EndsAhead = p + c /\ EndsAhead' = p + d
      BY <3>2, <3>3, Zenon DEF EndsAhead
    <3>5. p + d < p + c /\ p + d \in Nat
      BY <3>2, <3>3, SumOrder, Zenon
    <3> QED
      BY <3>4, <3>5, Zenon
  <2> QED
    BY <2>1, <2>2
<1>2. UNCHANGED <<total, written, buffer, ended>>
  BY DEF Exit, AwaitOutput, AwaitExit, Return, remote
<1>3. StreamAhead("stdout")' = StreamAhead("stdout") /\ StreamAhead("stderr")' = StreamAhead("stderr")
  BY <1>2 DEF StreamAhead
<1> QED
  BY <1>1, <1>3, CommandAheadParts DEF CommandAhead, Streams

LEMMA CommandNearer == ASSUME ExecIInv, [ExecNext]_execVars PROVE [CommandGetsNearer]_execVars
<1>1. ExecIInv'
  BY ExecNextIInv
<1>2. (CommandAhead >= 0)'
  BY <1>1, CommandAheadIsNumber, PTL
<1>3. CASE PassDeadline
  <2>1. CommandAhead' = CommandAhead
    BY <1>3, Zenon DEF PassDeadline, CommandAhead, StreamAhead, EndsAhead, ProcessAhead, CallerAhead, remote
  <2> QED
    BY <1>3, <2>1, Zenon DEF PassDeadline, CommandGetsNearer
<1>4. CASE LoseChannel
  <2>1. CommandAhead' = CommandAhead
    BY <1>4, Zenon DEF LoseChannel, CommandAhead, StreamAhead, EndsAhead, ProcessAhead, CallerAhead
  <2> QED
    BY <1>4, <2>1, Zenon DEF LoseChannel, CommandGetsNearer
<1>5. CASE Finished \/ UNCHANGED execVars
  BY <1>5 DEF Finished
<1>6. CASE ExecStep
  <2>1. CommandAhead' < CommandAhead
    BY <1>6, StreamStepNearer, CallerStepNearer DEF ExecStep
  <2> QED
    BY <1>2, <2>1, Zenon DEF CommandGetsNearer
<1> QED
  BY <1>3, <1>4, <1>5, <1>6, Zenon DEF ExecNext, ExecStep
-----------------------------------------------------------------------------
(* The service map. *)

\* The Min of a set of naturals is its least element.
LEMMA MinIsLeast ==
    ASSUME NEW S \in SUBSET Nat, S # {}
    PROVE  Min(S) \in S /\ \A x \in S : Min(S) <= x
<1>1. PICK x \in S : \A y \in S : <<y, x>> \notin OpToRel(<, Nat)
  BY NatLessThanWellFounded, WFMin, Zenon
<1>2. ASSUME NEW y \in S PROVE x <= y
  <2>1. <<y, x>> \notin {ss \in Nat \X Nat : ss[1] < ss[2]}
    BY <1>1 DEF OpToRel
  <2> QED
    BY <2>1
<1> QED
  BY <1>2, Zenon DEF Min

\* A map has been built from what the store may answer, and a query has a slot
\* only while they are sent.
BuiltFromAnswers ==
    mapAt = "built" => answers \in StoreAnswers /\ graph \in Maps(answers)

RunsWhileSending == \A i \in Queries : query[i] = "running" => mapAt = "sending"

\* The inductive invariant of the service map.
MapIInv == MapTypeOK /\ AllOrNothing /\ BuiltFromAnswers /\ RunsWhileSending

\* Queries are numbered, so the first of those that failed is one of them.
LEMMA FirstOfQueries == ASSUME NEW S \in SUBSET Queries, S # {} PROVE Min(S) \in Queries
<1>1. \A n : 1 .. n \subseteq Nat
  OBVIOUS
<1>2. Queries \subseteq Nat
  BY <1>1, ServiceMapAssumption, Zenon
<1> QED
  BY <1>2, MinIsLeast, Zenon

\* A map is a set of edges that are shown, the busiest of them when there are too
\* many.
LEMMA MapsAreTruncations ==
    ASSUME NEW a \in StoreAnswers, NEW g \in Maps(a)
    PROVE  \E best \in MostRequests(a, EdgeKeys(a)) :
              LET edges == Shown(Edges(a, best))
              IN  /\ g.edges # edges => g.truncated
                  /\ g.edges \subseteq edges
                  /\ Cardinality(g.edges) = Min({MaxEdges, Cardinality(edges)})
                  /\ \A e \in g.edges, f \in edges \ g.edges : e.requests >= f.requests
<1>1. PICK best \in MostRequests(a, EdgeKeys(a)) : g \in Truncations(Shown(Edges(a, best)))
  BY Zenon DEF Maps
<1> DEFINE edges == Shown(Edges(a, best))
<1>2. PICK K \in kSubset(Min({MaxEdges, Cardinality(edges)}), edges) :
         /\ g = [edges |-> K, truncated |-> K # edges]
         /\ \A e \in K, f \in edges \ K : e.requests >= f.requests
  BY <1>1, Zenon DEF Truncations
<1>3. K \subseteq edges /\ Cardinality(K) = Min({MaxEdges, Cardinality(edges)})
  BY <1>2, Zenon DEF kSubset
<1>4. g.edges = K
  BY <1>2
<1>5. g.truncated = (K # edges)
  BY <1>2, Zenon
<1>6. K # edges => g.truncated
  BY <1>5, Zenon
<1> QED
  BY <1>2, <1>3, <1>4, <1>6, Zenon

\* The values of a function with a finite domain.
LEMMA ImageIsFinite ==
    ASSUME NEW S, IsFiniteSet(S), NEW f, f = [x \in S |-> f[x]]
    PROVE  IsFiniteSet({f[x] : x \in S})
<1> DEFINE T == {f[x] : x \in S}
<1>1. f \in [S -> T]
  BY Zenon
<1>2. f \in Surjection(S, T)
  BY <1>1, Zenon DEF Surjection
<1> QED
  BY <1>2, FS_Surjection, Zenon

\* Finitely many samples make finitely many edges.
LEMMA EdgesAreFinite ==
    ASSUME NEW a \in StoreAnswers, NEW best PROVE IsFiniteSet(Shown(Edges(a, best)))
<1>1. \A p \in Protocols : IsFiniteSet(L7Keys(a, p) \X {p})
  <2> SUFFICES ASSUME NEW p \in Protocols PROVE IsFiniteSet(L7Keys(a, p) \X {p})
    OBVIOUS
  <2>1. /\ IsFiniteSet(DOMAIN a.requests[p]) /\ IsFiniteSet(DOMAIN a.errors[p])
        /\ IsFiniteSet(DOMAIN a.durations[p]) /\ IsFiniteSet(DOMAIN a.grpcErrors)
    BY StoreAnswersAssumption, Zenon DEF IsAnswer
  <2>2. IsFiniteSet(Positive(a.requests[p])) /\ IsFiniteSet(Positive(a.durations[p]))
    <3>1. \A f : Positive(f) \subseteq DOMAIN f
      BY Zenon DEF Positive
    <3> QED
      BY <2>1, <3>1, FS_Subset, Zenon
  <2>3. IsFiniteSet(IF p = "http" THEN DOMAIN a.grpcErrors ELSE {})
    BY <2>1, FS_EmptySet, Zenon
  <2>4. IsFiniteSet(L7Keys(a, p))
    BY <2>1, <2>2, <2>3, FS_Union, Zenon DEF L7Keys
  <2> QED
    BY <2>4, FS_Singleton, FS_Product, Zenon
<1>2. IsFiniteSet(UNION {L7Keys(a, p) \X {p} : p \in Protocols})
  <2>1. IsFiniteSet({L7Keys(a, p) \X {p} : p \in Protocols})
    <3> DEFINE f == [p \in Protocols |-> L7Keys(a, p) \X {p}]
    <3>1. IsFiniteSet({f[p] : p \in Protocols})
      <4>1. f = [p \in Protocols |-> f[p]]
        BY Zenon
      <4> HIDE DEF f
      <4> QED
        BY <4>1, ServiceMapAssumption, ImageIsFinite, Zenon
    <3>2. {f[p] : p \in Protocols} = {L7Keys(a, p) \X {p} : p \in Protocols}
      BY Zenon
    <3> QED
      BY <3>1, <3>2, Zenon
  <2> QED
    BY <1>1, <2>1, FS_UNION, Zenon
<1>3. IsFiniteSet(TcpKeys(a) \X {"tcp"})
  <2>1. IsFiniteSet(DOMAIN a.connects \cup DOMAIN a.failures)
    BY StoreAnswersAssumption, FS_Union, Zenon DEF IsAnswer
  <2>2. TcpKeys(a) \subseteq DOMAIN a.connects \cup DOMAIN a.failures
    BY Zenon DEF TcpKeys, Positive
  <2> QED
    <3>1. IsFiniteSet(TcpKeys(a)) /\ IsFiniteSet({"tcp"})
      BY <2>1, <2>2, FS_Subset, FS_Singleton, Zenon
    <3> QED
      BY <3>1, FS_Product, Zenon
<1>4. IsFiniteSet(EdgeKeys(a))
  <2> DEFINE U == UNION {L7Keys(a, p) \X {p} : p \in Protocols}
             V == TcpKeys(a) \X {"tcp"}
  <2>1. IsFiniteSet(U \cup V)
    BY <1>2, <1>3, FS_Union, Zenon
  <2>2. EdgeKeys(a) = {e \in U \cup V : Touched(a, e[1])}
    BY Zenon DEF EdgeKeys
  <2> HIDE DEF U, V
  <2> QED
    BY <2>1, <2>2, FS_Subset, Zenon
<1>5. IsFiniteSet(Edges(a, best))
  <2> DEFINE f == [e \in EdgeKeys(a) |->
                     [key |-> e[1], protocol |-> e[2],
                      requests |-> WholeCount(RequestsOn(a, e[1], e[2])),
                      errors |-> WholeCount(ErrorsOn(a, e[1], e[2])),
                      bytes |-> IF e \in best THEN (At(a.bytes, Pair(e[1])) + 5) \div 10 ELSE 0,
                      to |-> Resolve(a, e[1].address)]]
  <2>1. IsFiniteSet({f[e] : e \in EdgeKeys(a)})
    <3>1. f = [e \in EdgeKeys(a) |-> f[e]]
      BY Zenon
    <3> HIDE DEF f
    <3> QED
      BY <1>4, <3>1, ImageIsFinite, Zenon
  <2>2. {f[e] : e \in EdgeKeys(a)} = Edges(a, best)
    BY Zenon DEF Edges
  <2> QED
    BY <2>1, <2>2, Zenon
<1> QED
  BY <1>5, FS_Subset, Zenon DEF Shown

LEMMA MapIsBounded ==
    ASSUME NEW a \in StoreAnswers, NEW g \in Maps(a) PROVE Cardinality(g.edges) <= MaxEdges
<1>1. PICK best : Cardinality(g.edges) = Min({MaxEdges, Cardinality(Shown(Edges(a, best)))})
  BY MapsAreTruncations, Zenon
<1>2. Cardinality(Shown(Edges(a, best))) \in Nat
  BY EdgesAreFinite, FS_CardinalityType, Zenon
<1>3. \A m, n \in Nat : Min({m, n}) <= m
  <2> SUFFICES ASSUME NEW m \in Nat, NEW n \in Nat PROVE Min({m, n}) <= m
    OBVIOUS
  <2>1. {m, n} \in SUBSET Nat /\ {m, n} # {} /\ m \in {m, n}
    OBVIOUS
  <2> QED
    BY <2>1, MinIsLeast, Zenon
<1>4. MaxEdges \in Nat
  BY ServiceMapAssumption
<1> QED
  BY <1>1, <1>2, <1>3, <1>4, Zenon

LEMMA MapInitIInv == ASSUME MapInit PROVE MapIInv
BY SMTT(30) DEF MapInit, MapIInv, MapTypeOK, AllOrNothing, BuiltFromAnswers, RunsWhileSending

\* The request begins, its context ends, a query is sent or ends: no map is built.
LEMMA QueryingIInv ==
    ASSUME MapIInv,
           \/ \E start, end \in Instants \cup {None, Garbled}, now \in Instants :
                 BeginMap(start, end, now)
           \/ \E i \in Queries : SendQuery(i) \/ QueryEnds(i)
           \/ MapCtxDone
    PROVE  MapIInv'
<1> USE DEF MapIInv
<1>1. UNCHANGED <<answers, graph>> /\ mapAt' \in {"refused", "sending"}
  BY SMTT(30) DEF BeginMap, SendQuery, QueryEnds, MapCtxDone, RunsWhileSending
<1>2. /\ query' \in [Queries -> {"unsent", "running", "answered", "error", "cancelled"}]
      /\ queryCtx' \in {"live", "cancelled"}
  BY SMTT(30) DEF BeginMap, SendQuery, QueryEnds, MapCtxDone, MapTypeOK
<1>3. RunsWhileSending'
  BY <1>1 DEF BeginMap, SendQuery, QueryEnds, MapCtxDone, MapTypeOK, RunsWhileSending
<1> QED
  BY <1>1, <1>2, <1>3, SMTT(30) DEF MapTypeOK, AllOrNothing, BuiltFromAnswers

LEMMA FinishMapIInv == ASSUME MapIInv, FinishMap PROVE MapIInv'
<1> USE DEF MapIInv
<1>1. UNCHANGED <<query, queryCtx>> /\ \A i \in Queries : query[i] \notin {"unsent", "running"}
  BY DEF FinishMap, AllEnded, Sent
<1>2. RunsWhileSending'
  BY <1>1, SMTT(30) DEF RunsWhileSending
<1>3. CASE mapAt' = "failed" /\ Unanswered # {} /\ graph' = Min(Unanswered) /\ UNCHANGED answers
  <2>1. graph' \in Queries
    BY <1>3, FirstOfQueries DEF Unanswered, Sent
  <2> QED
    BY <1>1, <1>2, <1>3, <2>1, SMTT(30) DEF MapTypeOK, AllOrNothing, BuiltFromAnswers
<1>4. CASE mapAt' = "built" /\ Unanswered = {} /\ answers' \in StoreAnswers /\ graph' \in Maps(answers')
  <2>1. \A i \in Queries : query[i] = "answered"
    BY <1>1, <1>4 DEF Unanswered, Sent, MapTypeOK
  <2>2. Cardinality(graph'.edges) <= MaxEdges
    BY <1>4, MapIsBounded, Zenon
  <2>3. MapTypeOK'
    BY <1>1, <1>4, <2>2 DEF MapTypeOK
  <2>4. AllOrNothing'
    BY <1>1, <2>1 DEF AllOrNothing, Sent
  <2>5. BuiltFromAnswers'
    BY <1>4, Zenon DEF BuiltFromAnswers
  <2> QED
    BY <1>2, <2>3, <2>4, <2>5, SMTT(30)
<1> QED
  BY <1>3, <1>4, Zenon DEF FinishMap

LEMMA MapNextIInv == ASSUME MapIInv, [MapNext]_mapVars PROVE MapIInv'
<1>1. CASE UNCHANGED mapVars
  BY <1>1, Zenon DEF mapVars, MapIInv, MapTypeOK, AllOrNothing, Sent, BuiltFromAnswers, RunsWhileSending
<1>2. CASE MapNext
  BY <1>1, <1>2, QueryingIInv, FinishMapIInv, Zenon DEF MapNext, MapReturned
<1> QED
  BY <1>1, <1>2

\* A set with one member has it for its Sole.
LEMMA SoleMember ==
    ASSUME NEW S, IsFiniteSet(S), Sole(S) # None PROVE S = {Sole(S)}
<1>1. Cardinality(S) = 1 /\ Sole(S) = CHOOSE s \in S : TRUE
  BY Zenon DEF Sole
<1>2. PICK x : S = {x}
  BY <1>1, FS_Singleton, Zenon
<1>3. Sole(S) \in S
  BY <1>1, <1>2, Zenon
<1> QED
  BY <1>2, <1>3, Zenon

\* What an edge of a map stands for.
BytesAt(a, best, x) == IF x \in best THEN (At(a.bytes, Pair(x[1])) + 5) \div 10 ELSE 0
EdgeAt(a, best, x) ==
    [key |-> x[1], protocol |-> x[2],
     requests |-> WholeCount(RequestsOn(a, x[1], x[2])),
     errors |-> WholeCount(ErrorsOn(a, x[1], x[2])),
     bytes |-> BytesAt(a, best, x),
     to |-> Resolve(a, x[1].address)]

\* The edge e was made for the key and the protocol of x.
IsEdgeAt(e, a, best, x) ==
    /\ e = EdgeAt(a, best, x)
    /\ e.key = x[1] /\ e.protocol = x[2] /\ e.to = Resolve(a, x[1].address)
    /\ e.requests = WholeCount(RequestsOn(a, x[1], x[2]))
    /\ e.bytes = BytesAt(a, best, x)
    /\ Touched(a, x[1])

\* buildServiceMap: every edge that is shown was made for a touched key and a protocol.
LEMMA EdgeOfMap ==
    ASSUME NEW a, NEW best, NEW e \in Shown(Edges(a, best))
    PROVE  \E x \in EdgeKeys(a) : IsEdgeAt(e, a, best, x)
<1>1. e \in Edges(a, best)
  BY Zenon DEF Shown
<1>2. PICK x \in EdgeKeys(a) : e = EdgeAt(a, best, x)
  BY <1>1, Zenon DEF Edges, EdgeAt, BytesAt
<1>3. Touched(a, x[1])
  BY Zenon DEF EdgeKeys
<1>4. /\ e.key = x[1] /\ e.protocol = x[2] /\ e.to = Resolve(a, x[1].address)
      /\ e.requests = WholeCount(RequestsOn(a, x[1], x[2]))
      /\ e.bytes = BytesAt(a, best, x)
  BY <1>2 DEF EdgeAt
<1> QED
  BY <1>2, <1>3, <1>4, Zenon DEF IsEdgeAt

\* resolve names a service that may be meant, and any other that may be has been
\* taken for a wildcard listener.
LEMMA ResolveIsSole ==
    ASSUME NEW a \in StoreAnswers, NEW ip, NEW s, s = Resolve(a, ip).service, s # None
    PROVE  /\ {o[1] : o \in {q \in a.ips : q[2] = ip}} = {s[1]}
           /\ s \in Candidates(a, s[1], ip)
           /\ \A t \in Candidates(a, s[1], ip) \ {s} : ListensAt(a, t, ip) /\ ListensAt(a, t, Any4)
<1> DEFINE i == Sole(Owners(a, ip))
           pick == IF Exact(a, i, ip) # {} THEN Exact(a, i, ip) ELSE Wild(a, i, ip)
<1>1. i # None /\ s = Sole(pick)
  <2>1. Resolve(a, ip) = IF i = None THEN [owner |-> None, service |-> None]
                                     ELSE [owner |-> i, service |-> Sole(pick)]
    BY DEF Resolve
  <2> HIDE DEF i, pick
  <2> QED
    BY <2>1, SMTT(30)
<1>2. Owners(a, ip) = {i}
  <2>1. IsFiniteSet({o[1] : o \in a.ips})
    <3> DEFINE f == [o \in a.ips |-> o[1]]
    <3>1. f = [o \in a.ips |-> f[o]] /\ {f[o] : o \in a.ips} = {o[1] : o \in a.ips}
      BY Zenon
    <3>2. IsFiniteSet(a.ips)
      BY StoreAnswersAssumption, Zenon
    <3> HIDE DEF f
    <3> QED
      BY <3>1, <3>2, ImageIsFinite
  <2>2. Owners(a, ip) \subseteq {o[1] : o \in a.ips}
    BY Zenon DEF Owners, CollectHosts
  <2>3. IsFiniteSet(Owners(a, ip))
    BY <2>1, <2>2, FS_Subset, Zenon
  <2> QED
    BY <1>1, <2>3, SoleMember, Zenon
<1>3. pick = {s}
  <2>1. pick \subseteq a.info
    BY Zenon DEF Exact, Wild, Services
  <2>2. IsFiniteSet(a.info)
    BY StoreAnswersAssumption, Zenon
  <2>3. IsFiniteSet(pick)
    BY <2>1, <2>2, FS_Subset, Zenon
  <2> HIDE DEF pick
  <2> QED
    BY <1>1, <2>3, SoleMember, Zenon
<1> HIDE DEF i
<1>4. s[1] = i
  BY <1>3, Zenon DEF Exact, Wild
<1>5. {o[1] : o \in {q \in a.ips : q[2] = ip}} = {i}
  <2>1. \A o \in a.ips : o[2] = ip => o[1] = i
    <3> SUFFICES ASSUME NEW o \in a.ips, o[2] = ip PROVE o[1] = i
      BY Zenon
    <3>1. <<o[1], ip>> \in a.ips
      BY StoreAnswersAssumption, Zenon
    <3>2. o[1] \in Owners(a, ip)
      BY <3>1, Zenon DEF Owners, CollectHosts
    <3> QED
      BY <1>2, <3>2, Zenon
  <2>2. <<i, ip>> \in a.ips
    BY <1>2, Zenon DEF Owners
  <2>3. \A j : <<j, ip>>[1] = j /\ <<j, ip>>[2] = ip
    OBVIOUS
  <2>4. \E o \in {q \in a.ips : q[2] = ip} : o[1] = i
    BY <2>2, <2>3, Zenon
  <2> QED
    BY <2>1, <2>4, Zenon
<1> DEFINE Bound == {t \in Services(a) : t[1] = i /\ ListensAt(a, t, ip)}
           Anywhere == {t \in Services(a) : t[1] = i /\ (ListensAt(a, t, Any4) \/ ListensAt(a, t, Any6))}
<1>6. Candidates(a, i, ip) = IF Bound # {} THEN Bound ELSE Anywhere
  <2>1. Bound = {t \in Services(a) : t[1] = i /\ \E addr \in {ip} : ListensAt(a, t, addr)}
    BY Zenon
  <2>2. Anywhere = {t \in Services(a) : t[1] = i /\ \E addr \in {Any4, Any6} : ListensAt(a, t, addr)}
    BY Zenon
  <2> HIDE DEF Bound, Anywhere
  <2> QED
    BY <2>1, <2>2, Zenon DEF Candidates
<1>7. \A t : t \in Exact(a, i, ip) <=> t \in Bound /\ ~ListensAt(a, t, Any4)
  BY Zenon DEF Exact, IsExact
<1>8. \A t : t \in Wild(a, i, ip) <=> (t \in Bound /\ ListensAt(a, t, Any4)) \/ t \in Anywhere \ Bound
  BY Zenon DEF Wild, IsWild
<1>9. \A t \in Bound : ListensAt(a, t, ip)
  BY Zenon
<1> HIDE DEF Bound, Anywhere
<1>10. CASE Exact(a, i, ip) # {}
  <2>1. Exact(a, i, ip) = {s}
    BY <1>3, <1>10, Zenon
  <2>2. s \in Bound /\ \A t \in Bound \ {s} : ListensAt(a, t, Any4)
    BY <1>7, <2>1, Zenon
  <2> QED
    BY <1>4, <1>5, <1>6, <1>9, <2>2, Zenon
<1>11. CASE Exact(a, i, ip) = {}
  <2>1. Wild(a, i, ip) = {s}
    BY <1>3, <1>11, Zenon
  <2>2. CASE Bound # {}
    <3>1. Bound = {s}
      BY <1>7, <1>8, <1>11, <2>1, <2>2, Zenon
    <3> QED
      BY <1>4, <1>5, <1>6, <3>1, Zenon
  <2>3. CASE Bound = {}
    <3>1. Anywhere = {s}
      BY <1>8, <2>1, <2>3, Zenon
    <3> QED
      BY <1>4, <1>5, <1>6, <2>3, <3>1, Zenon
  <2> QED
    BY <2>2, <2>3
<1> QED
  BY <1>10, <1>11

LEMMA MapDestinations == ASSUME MapIInv PROVE DestinationsNotGuessed
<1> SUFFICES ASSUME mapAt = "built", NEW e \in graph.edges, NEW s, s = e.to.service, s # None
             PROVE  /\ s # Source(e.key)
                    /\ {o[1] : o \in {q \in answers.ips : q[2] = e.key.address}} = {s[1]}
                    /\ s \in Candidates(answers, s[1], e.key.address)
                    /\ \A t \in Candidates(answers, s[1], e.key.address) \ {s} :
                          ListensAt(answers, t, e.key.address) /\ ListensAt(answers, t, Any4)
  BY Zenon DEF DestinationsNotGuessed
<1>1. answers \in StoreAnswers /\ graph \in Maps(answers)
  BY DEF MapIInv, BuiltFromAnswers
<1>2. PICK best : e \in Shown(Edges(answers, best))
  BY <1>1, MapsAreTruncations, Zenon
<1>3. PICK x \in EdgeKeys(answers) : IsEdgeAt(e, answers, best, x)
  BY <1>2, EdgeOfMap, Zenon
<1> DEFINE ip == e.key.address
<1>4. s = Resolve(answers, ip).service /\ s # Source(e.key)
  BY <1>3 DEF IsEdgeAt, Touched
<1> HIDE DEF ip
<1>5. /\ {o[1] : o \in {q \in answers.ips : q[2] = ip}} = {s[1]}
      /\ s \in Candidates(answers, s[1], ip)
      /\ \A t \in Candidates(answers, s[1], ip) \ {s} :
            ListensAt(answers, t, ip) /\ ListensAt(answers, t, Any4)
  BY <1>1, <1>4, ResolveIsSole, SMT
<1> QED
  BY <1>4, <1>5, Zenon DEF ip

\* wholeCount: a call that happened is counted.
LEMMA CountIsPositive == ASSUME NEW v \in Int, v > 0 PROVE WholeCount(v) \in Nat \ {0}
<1> DEFINE d == (v + 5) \div 10
<1>1. d \in Int
  OBVIOUS
<1> HIDE DEF d
<1>2. \E x \in {1, d} : \A y \in {1, d} : x >= y
  BY <1>1
<1>3. Max({1, d}) \in {1, d} /\ \A y \in {1, d} : Max({1, d}) >= y
  BY <1>2, Zenon DEF Max
<1>4. WholeCount(v) = Max({1, d})
  BY DEF WholeCount, d
<1> QED
  BY <1>1, <1>3, <1>4

\* A call with requests has an edge that is shown, unless busier ones push it out.
LEMMA CallHasEdge ==
    ASSUME NEW a \in StoreAnswers, NEW best, NEW x \in EdgeKeys(a),
           RequestsOn(a, x[1], x[2]) \in Int, RequestsOn(a, x[1], x[2]) > 0
    PROVE  \E e \in Shown(Edges(a, best)) :
              /\ e.key = x[1] /\ e.protocol = x[2]
              /\ e.requests = WholeCount(RequestsOn(a, x[1], x[2]))
<1> DEFINE e == [key |-> x[1], protocol |-> x[2],
                 requests |-> WholeCount(RequestsOn(a, x[1], x[2])),
                 errors |-> WholeCount(ErrorsOn(a, x[1], x[2])),
                 bytes |-> IF x \in best THEN (At(a.bytes, Pair(x[1])) + 5) \div 10 ELSE 0,
                 to |-> Resolve(a, x[1].address)]
<1>1. e \in Edges(a, best)
  BY Zenon DEF Edges
<1>2. WholeCount(RequestsOn(a, x[1], x[2])) > 0
  BY CountIsPositive, SMTT(30)
<1>3. /\ e.key = x[1] /\ e.protocol = x[2]
      /\ e.requests = WholeCount(RequestsOn(a, x[1], x[2]))
  BY SMTT(30)
<1> HIDE DEF e
<1> QED
  BY <1>1, <1>2, <1>3, Zenon DEF Shown

\* The same in terms of the map, which keeps the edge or is truncated.
LEMMA CallIsShown ==
    ASSUME NEW a \in StoreAnswers, NEW g \in Maps(a), NEW k, NEW p, <<k, p>> \in EdgeKeys(a),
           RequestsOn(a, k, p) \in Int, RequestsOn(a, k, p) > 0
    PROVE  \/ \E e \in g.edges : e.key = k /\ e.protocol = p
           \/ /\ g.truncated
              /\ \A e \in g.edges : e.requests >= WholeCount(RequestsOn(a, k, p))
<1>1. PICK best \in MostRequests(a, EdgeKeys(a)) :
         /\ g.edges # Shown(Edges(a, best)) => g.truncated
         /\ g.edges \subseteq Shown(Edges(a, best))
         /\ \A e \in g.edges, f \in Shown(Edges(a, best)) \ g.edges : e.requests >= f.requests
  BY MapsAreTruncations, Zenon
<1> DEFINE x == <<k, p>>
<1>2. x[1] = k /\ x[2] = p
  OBVIOUS
<1>3. x \in EdgeKeys(a) /\ RequestsOn(a, x[1], x[2]) = RequestsOn(a, k, p)
  BY <1>2
<1> HIDE DEF x
<1>4. PICK f \in Shown(Edges(a, best)) :
         f.key = k /\ f.protocol = p /\ f.requests = WholeCount(RequestsOn(a, k, p))
  BY <1>2, <1>3, CallHasEdge, Zenon
<1>5. CASE f \in g.edges
  BY <1>4, <1>5, Zenon
<1>6. CASE f \notin g.edges
  <2>1. g.edges # Shown(Edges(a, best))
    BY <1>4, <1>6, Zenon
  <2>2. g.truncated
    BY <1>1, <2>1, ZenonT(40)
  <2>3. \A e \in g.edges : e.requests >= f.requests
    BY <1>1, <1>4, <1>6, Zenon
  <2> QED
    BY <1>4, <2>2, <2>3, Zenon
<1> QED
  BY <1>5, <1>6, Zenon

\* Samples that are positive are integers.
LEMMA PositiveSamples ==
    ASSUME NEW f, IsAnswer(f), NEW k \in Positive(f)
    PROVE  k \in DOMAIN f /\ At(f, k) = f[k] /\ At(f, k) \in Int /\ At(f, k) > 0
BY DEF IsAnswer, Positive, At

\* CallsAreShown, of any answers and any map built from them.
LEMMA EveryMapShowsCalls ==
    ASSUME NEW a \in StoreAnswers, NEW g \in Maps(a)
    PROVE  LET shown == {<<e.key, e.protocol>> : e \in g.edges}
               Missing(k, p) ==
                   /\ <<k, p>> \notin shown
                   /\ ~(g.truncated
                        /\ \A e \in g.edges : e.requests >= WholeCount(RequestsOn(a, k, p)))
               Calls(p) == {k \in Positive(a.requests[p]) : Touched(a, k)}
               Seen == UNION {{Pair(k) : k \in Calls(p)} : p \in Protocols}
           IN  /\ \A p \in Protocols : \A k \in Calls(p) : ~Missing(k, p)
               /\ \A k \in Positive(a.connects) :
                     Touched(a, k) /\ Pair(k) \notin Seen => ~Missing(k, "tcp")
               /\ \A e \in g.edges :
                     /\ e.protocol = "tcp" => Pair(e.key) \notin Seen
                     /\ e.requests > 0 \/ e.errors > 0
               /\ \A e, f \in g.edges :
                     (Pair(e.key) = Pair(f.key) /\ e.bytes > 0 /\ f.bytes > 0) => e = f
<1> DEFINE Calls(p) == {k \in Positive(a.requests[p]) : Touched(a, k)}
           Seen == UNION {{Pair(k) : k \in Calls(p)} : p \in Protocols}
           shown == {<<e.key, e.protocol>> : e \in g.edges}
           Missing(k, p) ==
               /\ <<k, p>> \notin shown
               /\ ~(g.truncated
                    /\ \A e \in g.edges : e.requests >= WholeCount(RequestsOn(a, k, p)))
<1>1. ASSUME NEW k, NEW p, <<k, p>> \in EdgeKeys(a),
             RequestsOn(a, k, p) \in Int, RequestsOn(a, k, p) > 0
      PROVE  ~Missing(k, p)
  <2>1. (\E e \in g.edges : e.key = k /\ e.protocol = p) => <<k, p>> \in shown
    BY Zenon
  <2> QED
    BY <1>1, <2>1, CallIsShown, Zenon
<1>2. Seen = Covered(a)
  BY Zenon DEF Covered
<1>3. \A p \in Protocols : \A k \in Calls(p) : ~Missing(k, p)
  <2> SUFFICES ASSUME NEW p \in Protocols, NEW k \in Calls(p) PROVE ~Missing(k, p)
    BY Zenon
  <2>1. p # "tcp"
    BY ServiceMapAssumption
  <2>2. IsAnswer(a.requests[p]) /\ k \in Positive(a.requests[p]) /\ Touched(a, k)
    BY StoreAnswersAssumption, Zenon
  <2>3. RequestsOn(a, k, p) = At(a.requests[p], k)
    BY <2>1, Zenon DEF RequestsOn
  <2>4. RequestsOn(a, k, p) \in Int /\ RequestsOn(a, k, p) > 0
    BY <2>2, <2>3, PositiveSamples, Zenon
  <2>5. k \in L7Keys(a, p)
    BY <2>2, Zenon DEF L7Keys
  <2>6. <<k, p>> \in EdgeKeys(a)
    <3>1. <<k, p>> \in UNION {L7Keys(a, q) \X {q} : q \in Protocols} /\ <<k, p>>[1] = k
      BY <2>5
    <3> QED
      BY <2>2, <3>1, Zenon DEF EdgeKeys
  <2> HIDE DEF Missing
  <2> QED
    BY <1>1, <2>4, <2>6, Zenon
<1>4. \A k \in Positive(a.connects) : Touched(a, k) /\ Pair(k) \notin Seen => ~Missing(k, "tcp")
  <2> SUFFICES ASSUME NEW k \in Positive(a.connects), Touched(a, k), Pair(k) \notin Covered(a)
               PROVE  ~Missing(k, "tcp")
    BY <1>2, Zenon
  <2>1. IsAnswer(a.connects)
    BY StoreAnswersAssumption, Zenon
  <2>2. RequestsOn(a, k, "tcp") = At(a.connects, k)
    BY Zenon DEF RequestsOn
  <2>3. RequestsOn(a, k, "tcp") \in Int /\ RequestsOn(a, k, "tcp") > 0
    BY <2>1, <2>2, PositiveSamples, Zenon
  <2>4. k \in TcpKeys(a)
    BY Zenon DEF TcpKeys
  <2>5. <<k, "tcp">> \in EdgeKeys(a)
    <3>1. <<k, "tcp">> \in TcpKeys(a) \X {"tcp"} /\ <<k, "tcp">>[1] = k
      BY <2>4
    <3> QED
      BY <3>1, Zenon DEF EdgeKeys
  <2> HIDE DEF Missing
  <2> QED
    BY <1>1, <2>3, <2>5, Zenon
<1>5. PICK best \in MostRequests(a, EdgeKeys(a)) : g.edges \subseteq Shown(Edges(a, best))
  BY MapsAreTruncations, Zenon
<1>6. \A e \in g.edges : /\ e.protocol = "tcp" => Pair(e.key) \notin Seen
                         /\ e.requests > 0 \/ e.errors > 0
  <2> SUFFICES ASSUME NEW e \in g.edges
               PROVE  /\ e.protocol = "tcp" => Pair(e.key) \notin Covered(a)
                      /\ e.requests > 0 \/ e.errors > 0
    BY <1>2, Zenon
  <2>1. PICK x \in EdgeKeys(a) : IsEdgeAt(e, a, best, x)
    <3>1. e \in Shown(Edges(a, best))
      BY <1>5, Zenon
    <3> QED
      BY <3>1, EdgeOfMap, Zenon
  <2>2. x[2] = "tcp" => x[1] \in TcpKeys(a)
    <3>1. x \in (UNION {L7Keys(a, p) \X {p} : p \in Protocols}) \cup (TcpKeys(a) \X {"tcp"})
      BY Zenon DEF EdgeKeys
    <3>2. ASSUME NEW p \in Protocols, x \in L7Keys(a, p) \X {p} PROVE x[2] # "tcp"
      BY <3>2, ServiceMapAssumption, ZenonT(40)
    <3> QED
      BY <3>1, <3>2
  <2>3. e.requests > 0 \/ e.errors > 0
    BY <1>5, Zenon DEF Shown
  <2> QED
    BY <2>1, <2>2, <2>3, Zenon DEF IsEdgeAt, TcpKeys
<1>7. \A e, f \in g.edges : (Pair(e.key) = Pair(f.key) /\ e.bytes > 0 /\ f.bytes > 0) => e = f
  <2> SUFFICES ASSUME NEW e \in g.edges, NEW f \in g.edges, Pair(e.key) = Pair(f.key),
                      e.bytes > 0, f.bytes > 0
               PROVE  e = f
    BY Zenon
  <2>1. PICK x \in EdgeKeys(a) : IsEdgeAt(e, a, best, x)
    <3>1. e \in Shown(Edges(a, best))
      BY <1>5, Zenon
    <3> QED
      BY <3>1, EdgeOfMap, Zenon
  <2>2. PICK y \in EdgeKeys(a) : IsEdgeAt(f, a, best, y)
    <3>1. f \in Shown(Edges(a, best))
      BY <1>5, Zenon
    <3> QED
      BY <3>1, EdgeOfMap, Zenon
  <2>3. x \in best /\ y \in best
    <3>1. ASSUME NEW z, BytesAt(a, best, z) > 0 PROVE z \in best
      BY <3>1 DEF BytesAt
    <3> QED
      BY <2>1, <2>2, <3>1, Zenon DEF IsEdgeAt
  <2>4. x = y
    BY <2>1, <2>2, <2>3, Zenon DEF IsEdgeAt, MostRequests
  <2> QED
    BY <2>1, <2>2, <2>4, Zenon DEF IsEdgeAt
<1> QED
  BY <1>3, <1>4, <1>6, <1>7, Zenon

LEMMA MapShowsCalls == ASSUME MapIInv PROVE CallsAreShown
<1> SUFFICES ASSUME mapAt = "built" PROVE CallsAreShown
  BY Zenon DEF CallsAreShown
<1>1. answers \in StoreAnswers /\ graph \in Maps(answers)
  BY Zenon DEF MapIInv, BuiltFromAnswers
<1> QED
  BY <1>1, EveryMapShowsCalls, Zenon DEF CallsAreShown

\* What the queries have before them.
MapAhead ==
    [i \in Queries |-> CASE query[i] = "unsent" -> 2 [] query[i] = "running" -> 1 [] OTHER -> 0]

\* queryAll never waits for a slot that nobody will give back.
MapGoesOn ==
    mapAt = "sending" =>
        \/ \E i \in Queries :
              \/ query[i] = "running"
              \/ /\ i \in Sent("unsent") /\ \A j \in Sent("unsent") : i <= j
                 /\ Cardinality(SlotsTaken) < QuerySlots
        \/ AllEnded

\* What a step of queryAll does: it returns, leaves less to do, or ends the
\* context, which can happen once.
MapGetsNearer ==
    mapAt = "sending" =>
        \/ mapAt' \in {"built", "failed"}
        \/ /\ mapAt' = mapAt
           /\ \/ Fewer(MapAhead', MapAhead)
              \/ queryCtx = "live" /\ queryCtx' = "cancelled" /\ UNCHANGED MapAhead

LEMMA MapGoesOnAlways == ASSUME MapIInv PROVE MapGoesOn
<1> SUFFICES ASSUME mapAt = "sending", \A i \in Queries : query[i] # "running", ~AllEnded
             PROVE  \E i \in Queries : /\ i \in Sent("unsent") /\ \A j \in Sent("unsent") : i <= j
                                       /\ Cardinality(SlotsTaken) < QuerySlots
  BY Zenon DEF MapGoesOn
<1>1. Sent("running") = {}
  BY DEF Sent
<1>2. Cardinality(SlotsTaken) < QuerySlots
  BY <1>1, FS_EmptySet, ServiceMapAssumption DEF SlotsTaken
<1>3. Sent("unsent") # {}
  BY <1>1 DEF AllEnded
<1>4. Sent("unsent") \in SUBSET Nat /\ Sent("unsent") \subseteq Queries
  <2>1. \A n : 1 .. n \subseteq Nat
    OBVIOUS
  <2>2. Queries \subseteq Nat
    BY <2>1, ServiceMapAssumption, Zenon
  <2> QED
    BY <2>2, ZenonT(20) DEF Sent
<1>5. PICK i \in Sent("unsent") : \A j \in Sent("unsent") : i <= j
  BY <1>3, <1>4, MinIsLeast, ZenonT(20)
<1> QED
  BY <1>2, <1>4, <1>5, ZenonT(20)

LEMMA QueryNearer ==
    ASSUME MapIInv, NEW i \in Queries, NEW now, query' = [query EXCEPT ![i] = now],
           \/ query[i] = "unsent" /\ now = "running"
           \/ query[i] = "running" /\ now \in {"answered", "error", "cancelled"}
    PROVE  Fewer(MapAhead', MapAhead)
<1> DEFINE before == MapAhead
           after == MapAhead'
<1>1. DOMAIN before = Queries
  BY DEF MapAhead
<1>2. query \in [Queries -> {"unsent", "running", "answered", "error", "cancelled"}]
  BY DEF MapIInv, MapTypeOK
<1>3. ASSUME NEW j \in Queries PROVE before[j] \in Nat /\ (j # i => after[j] = before[j])
  BY <1>2 DEF MapAhead
<1>4. after[i] < before[i] /\ after[i] <= before[i]
  BY <1>2 DEF MapAhead
<1> HIDE DEF before, after
<1>5. \A j \in Queries : after[j] <= before[j]
  BY <1>3, <1>4
<1>6. Fewer(after, before)
  BY <1>1, <1>4, <1>5, Zenon DEF Fewer
<1> QED
  BY <1>6 DEF before, after

LEMMA MapNearer == ASSUME MapIInv, [MapNext]_mapVars PROVE [MapGetsNearer]_mapVars
<1> SUFFICES ASSUME MapNext, mapAt = "sending"
             PROVE  MapGetsNearer
  BY Zenon DEF MapGetsNearer
<1>1. ASSUME NEW i \in Queries, SendQuery(i) \/ QueryEnds(i) PROVE MapGetsNearer
  <2>1. Fewer(MapAhead', MapAhead)
    BY <1>1, QueryNearer DEF SendQuery, QueryEnds, Sent
  <2>2. mapAt' = mapAt
    BY <1>1 DEF SendQuery, QueryEnds
  <2> QED
    BY <2>1, <2>2, Zenon DEF MapGetsNearer
<1>2. CASE MapCtxDone
  <2>1. MapAhead' = MapAhead
    BY <1>2, Zenon DEF MapCtxDone, MapAhead
  <2> QED
    BY <1>2, <2>1, Zenon DEF MapCtxDone, MapGetsNearer
<1>3. CASE FinishMap
  BY <1>3, Zenon DEF FinishMap, MapGetsNearer
<1> QED
  BY <1>1, <1>2, <1>3, Zenon DEF MapNext, BeginMap, MapReturned
=============================================================================
