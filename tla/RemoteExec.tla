------------------------------ MODULE RemoteExec ------------------------------
(***************************************************************************)
(* One command run on a remote host over an ssh session, by each of the    *)
(* two functions that do it: handleExec (pkg/proxy/ssh/proxy.go) and       *)
(* runCommand (pkg/proxy/discovery/executor.go).                           *)
(*                                                                         *)
(* The remote process writes two streams, in any order, into the window of *)
(* the ssh channel, which both share; it blocks while the window is full.  *)
(* A stream ends when the process has exited and what it wrote is read, or *)
(* when the channel is lost: the connection breaks, or the host closes the *)
(* channel without an exit status.  A unit of output stands for a packet.  *)
(***************************************************************************)
EXTENDS Integers

CONSTANTS ChannelWindow,   \* unread output the channel holds
          MaxOutput,       \* a command writes at most this much to a stream
          MaxOutputBytes   \* the cap on what is kept of a stream

ASSUME RemoteExecAssumption ==
    ChannelWindow \in Nat \ {0} /\ MaxOutput \in Nat /\ MaxOutputBytes \in Nat

Streams == {"stdout", "stderr"}
Runners == {"handleExec", "runCommand"}

VARIABLES caller,   \* the function that runs the command
          total,    \* what the command writes to each stream before it exits
          hangs,    \* it never exits by itself
          written,  \* what it has written so far
          buffer,   \* what of it is unread
          exited,   \* the exit status has arrived
          dropped,  \* the channel was lost before that
          kept,     \* what has been kept of each stream
          ended,    \* streams whose reader is finished
          overdue,  \* the command's context is done
          closed,   \* the session is closed
          phase     \* the calling goroutine: "read", "wait" or how it returned

execVars == <<caller, total, hangs, written, buffer, exited, dropped, kept, ended, overdue, closed,
              phase>>
remote == <<caller, total, hangs, written, exited, dropped>>
Returned == phase \in {"ok", "failed", "timed out"}

\* The type invariant of a command.
ExecTypeOK ==
    /\ caller \in Runners \cup {"none"}
    /\ total \in [Streams -> 0 .. MaxOutput]
    /\ hangs \in BOOLEAN
    /\ written \in [Streams -> 0 .. MaxOutput]
    /\ buffer \in [Streams -> 0 .. ChannelWindow]
    /\ exited \in BOOLEAN /\ dropped \in BOOLEAN
    /\ kept \in [Streams -> 0 .. MaxOutputBytes + 1]
    /\ ended \subseteq Streams
    /\ overdue \in BOOLEAN
    /\ closed \in BOOLEAN
    /\ phase \in {"read", "wait", "ok", "failed", "timed out"}

\* session.Start has succeeded; with no caller there is no command.
ExecInit(callers) ==
    /\ caller \in callers
    /\ total \in [Streams -> 0 .. (IF caller = "none" THEN 0 ELSE MaxOutput)]
    /\ hangs \in BOOLEAN /\ (caller = "none" => hangs)
    /\ written = [s \in Streams |-> 0]
    /\ buffer = [s \in Streams |-> 0]
    /\ exited = FALSE /\ dropped = FALSE
    /\ kept = [s \in Streams |-> 0]
    /\ ended = {}
    /\ overdue = FALSE
    /\ closed = (caller = "none")
    /\ phase = "read"

-----------------------------------------------------------------------------
\* The remote process and the channel.
Write(s) ==
    /\ ~exited /\ ~dropped /\ ~closed
    /\ written[s] < total[s]
    /\ buffer["stdout"] + buffer["stderr"] < ChannelWindow
    /\ written' = [written EXCEPT ![s] = @ + 1]
    /\ buffer' = [buffer EXCEPT ![s] = @ + 1]
    /\ UNCHANGED <<caller, total, hangs, exited, dropped, kept, ended, overdue, closed, phase>>

Exit ==
    /\ ~exited /\ ~dropped /\ ~hangs /\ ~closed
    /\ written = total
    /\ exited' = TRUE
    /\ UNCHANGED <<caller, total, hangs, written, buffer, dropped, kept, ended, overdue, closed,
                   phase>>

\* The channel is lost.  What of the output has arrived can still be read.
LoseChannel ==
    /\ ~exited /\ ~dropped /\ ~closed
    /\ dropped' = TRUE
    /\ UNCHANGED <<caller, total, hangs, written, buffer, exited, kept, ended, overdue, closed,
                   phase>>

AtEOF(s) == buffer[s] = 0 /\ (exited \/ dropped \/ closed)

\* context.WithTimeout: the deadline passes.
PassDeadline ==
    /\ ~overdue
    /\ overdue' = TRUE
    /\ UNCHANGED <<remote, buffer, kept, ended, closed, phase>>

\* The function returns, and its deferred session.Close runs.
Return(how) ==
    /\ phase' = how
    /\ closed' = TRUE
    /\ UNCHANGED <<remote, buffer, kept, ended, overdue>>

\* The select on session.Wait and the context, both of which may be ready.  Wait
\* returns nil or an ExitError with the exit status, and another error when the
\* channel ended without one.
AwaitExit ==
    /\ phase = "wait"
    /\ \/ exited /\ Return("ok")
       \/ dropped /\ Return("failed")
       \/ overdue /\ Return("timed out")

-----------------------------------------------------------------------------
\* runCommand: how much a reader keeps, one more than the cap so as to tell that
\* the cap was exceeded; the mutant stops at the cap.
KeepLimit_Mutant == MaxOutputBytes
KeepLimit == MaxOutputBytes + 1

\* Whether a reader goes on after the limit, discarding what it reads; the mutant
\* stops reading.
Discards_Mutant == FALSE
Discards == TRUE

\* What is kept after one more unit.
Keep(n) == IF n < KeepLimit THEN n + 1 ELSE n

Drain(s) ==
    /\ caller = "runCommand"
    /\ s \notin ended
    /\ buffer[s] > 0
    /\ kept[s] < KeepLimit \/ Discards
    /\ buffer' = [buffer EXCEPT ![s] = @ - 1]
    /\ kept' = [kept EXCEPT ![s] = Keep(@)]
    /\ UNCHANGED <<remote, ended, overdue, closed, phase>>

DrainEnds(s) ==
    /\ caller = "runCommand"
    /\ s \notin ended
    /\ AtEOF(s)
    /\ ended' = ended \cup {s}
    /\ UNCHANGED <<remote, buffer, kept, overdue, closed, phase>>

\* The context is done.
Interrupted == overdue

\* The first select: both readers are done, or the context is.
AwaitOutput ==
    /\ caller = "runCommand"
    /\ phase = "read"
    /\ \/ /\ ended = Streams
          /\ phase' = "wait"
          /\ UNCHANGED <<remote, buffer, kept, ended, overdue, closed>>
       \/ Interrupted /\ Return("timed out")

truncated == \E s \in Streams : kept[s] > MaxOutputBytes

-----------------------------------------------------------------------------
\* handleExec reads stdout up to the cap, then stderr up to the cap, and only
\* then waits for the exit status or the context.
MayRead(s) == s = "stdout" \/ "stdout" \in ended

\* io.ReadAll returns at the end of the limited stream.
ReadToEnd(s) == AtEOF(s) \/ kept[s] = MaxOutputBytes

ReadAll(s) ==
    /\ caller = "handleExec"
    /\ phase = "read"
    /\ s \notin ended /\ MayRead(s)
    /\ buffer[s] > 0 /\ kept[s] < MaxOutputBytes
    /\ buffer' = [buffer EXCEPT ![s] = @ - 1]
    /\ kept' = [kept EXCEPT ![s] = @ + 1]
    /\ UNCHANGED <<remote, ended, overdue, closed, phase>>

ReadAllEnds(s) ==
    /\ caller = "handleExec"
    /\ phase = "read"
    /\ s \notin ended /\ MayRead(s)
    /\ ReadToEnd(s)
    /\ ended' = ended \cup {s}
    /\ phase' = IF s = "stderr" THEN "wait" ELSE "read"
    /\ UNCHANGED <<remote, buffer, kept, overdue, closed>>

-----------------------------------------------------------------------------
\* The function has returned; it may have left a reader that still has to end.
Finished == Returned /\ UNCHANGED execVars

ExecNext ==
    \/ \E s \in Streams : Write(s)
    \/ Exit
    \/ LoseChannel
    \/ PassDeadline
    \/ \E s \in Streams : Drain(s)
    \/ \E s \in Streams : DrainEnds(s)
    \/ AwaitOutput
    \/ \E s \in Streams : ReadAll(s)
    \/ \E s \in Streams : ReadAllEnds(s)
    \/ AwaitExit
    \/ Finished

\* The goroutines of the agent and the remote process are scheduled; the
\* deadline and the loss of the channel need not come and the command need not
\* exit.  A command takes
\* finitely many of these steps, so none of them is left out for ever.
ExecStep ==
    \/ \E s \in Streams :
          Write(s) \/ Drain(s) \/ DrainEnds(s) \/ ReadAll(s) \/ ReadAllEnds(s)
    \/ Exit \/ AwaitOutput \/ AwaitExit

ExecFairness == WF_execVars(ExecStep)

ExecSpec == ExecInit(Runners) /\ [][ExecNext]_execVars /\ ExecFairness
-----------------------------------------------------------------------------
Kept(s) == IF total[s] < MaxOutputBytes THEN total[s] ELSE MaxOutputBytes

\* What is returned with success is the start of each stream up to the cap,
\* whatever the order in which the process wrote and the readers read; and
\* runCommand says "truncated" exactly when something is missing.
OutputExact ==
    phase = "ok" =>
        \/ caller = "handleExec" /\ \A s \in Streams : kept[s] = Kept(s)
        \/ /\ caller = "runCommand"
           /\ \A s \in Streams : kept[s] >= Kept(s)
           /\ truncated <=> \E s \in Streams : total[s] > MaxOutputBytes

\* "stdout and stderr must be drained concurrently" (executor.go:228): runCommand
\* sees every command end that ends by itself, unless its deadline comes first,
\* however much it writes to either stream; and it notices a lost channel, even
\* that of a command that would never have ended.
CommandCompletes ==
    (caller = "runCommand" /\ (~hangs \/ dropped)) ~>
        (overdue \/ phase = "ok" \/ (dropped /\ phase = "failed"))

\* runCommand is past its deadline, and it or one of its readers goes on.
CommandLate ==
    caller = "runCommand" /\ overdue /\ ~(Returned /\ ended = Streams)

\* "Wait for command with context cancellation" (ssh/proxy.go:514): once its
\* deadline has passed handleExec returns.
ExecHonoursDeadline == (caller = "handleExec" /\ overdue) ~> Returned
=============================================================================
