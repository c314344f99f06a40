------------------------------- MODULE McpStdio -------------------------------
(***************************************************************************)
(* The stdio transport of the MCP proxy: handleStdio                       *)
(* (pkg/proxy/mcp/proxy.go) starts the server process on the first request *)
(* and stdioProcess.send (stdio.go) exchanges one line with it per         *)
(* request; Close ends it.                                                 *)
(*                                                                         *)
(* Proxy.stdio is read and written without a lock.  stdioProcess.mu is     *)
(* held by send, but not by the goroutine that send starts to do the       *)
(* exchange, which outlives a send whose context ends.                     *)
(*                                                                         *)
(* A line is named after the request it carries or answers.  A body goes   *)
(* out as it is, with as many lines as it has; the server answers a line   *)
(* with one line, or not at all, in order, and sends lines of its own.     *)
(***************************************************************************)
EXTENDS Naturals, Sequences, FiniteSets, Goroutines

CONSTANTS Objects,   \* stdioProcess values that may be allocated
          Procs,     \* processes that may be started
          MaxLines   \* bound on the lines of a body

ASSUME McpStdioAssumption ==
    /\ None \notin Requests \cup Objects \cup Procs
    /\ "note" \notin Requests
    /\ MaxLines \in Nat \ {0}

VARIABLES stdio,      \* Proxy.stdio
          cmd,        \* the process an object has started, or None
          sendMu,     \* the request that has the object's mutex
          process,    \* what has become of each process
          stdin,      \* lines in each process's standard input
          stdinShut,  \* processes whose standard input is closed
          stdout,     \* lines in each process's standard output
          at,         \* where each request is
          object,     \* the object it calls
          exchange,   \* where its goroutine is
          line,       \* the line its goroutine has read
          answer,     \* what it has returned
          abandoned,  \* a send has returned before its goroutine
          uneven,     \* lines did not go one for one
          ending,     \* where Close is, and the process it is closing
          panicked    \* a nil pointer was dereferenced: the agent is gone

processes == <<process, stdin, stdinShut, stdout>>
stdioVars == <<stdio, cmd, sendMu, processes, at, object, exchange, line, answer,
               abandoned, uneven, ending, panicked>>

\* What a process prints: answers, and notifications and requests of the server.
Lines == Requests \cup {"note"}

\* The type invariant of the transport.
StdioTypeOK ==
    /\ stdio \in Objects \cup {None}
    /\ cmd \in [Objects -> Procs \cup {None}]
    /\ sendMu \in [Objects -> Requests \cup {None}]
    /\ process \in [Procs -> {"unborn", "running", "exited", "reaped"}]
    /\ stdin \in [Procs -> Seq(Requests)]
    /\ stdinShut \subseteq Procs
    /\ stdout \in [Procs -> Seq(Lines)]
    /\ at \in [Requests -> {"idle", "allocating", "starting", "calling", "locking", "waiting",
                           "returned"}]
    /\ object \in [Requests -> Objects \cup {None}]
    /\ exchange \in [Requests -> {"none", "writing", "reading", "finished"}]
    /\ line \in [Requests -> Lines \cup {None}]
    /\ answer \in [Requests -> Lines \cup {None}]
    /\ abandoned \in BOOLEAN
    /\ uneven \in BOOLEAN
    /\ ending \in Procs \cup {"idle", "done"}
    /\ panicked \in BOOLEAN

\* Configure has been called; no process has been started.
StdioInit ==
    /\ stdio = None
    /\ cmd = [o \in Objects |-> None]
    /\ sendMu = [o \in Objects |-> None]
    /\ process = [q \in Procs |-> "unborn"]
    /\ stdinShut = {}
    /\ stdin = [q \in Procs |-> <<>>]
    /\ stdout = [q \in Procs |-> <<>>]
    /\ at = [r \in Requests |-> "idle"]
    /\ object = [r \in Requests |-> None]
    /\ exchange = [r \in Requests |-> "none"]
    /\ line = [r \in Requests |-> None]
    /\ answer = [r \in Requests |-> None]
    /\ abandoned = FALSE
    /\ uneven = FALSE
    /\ ending = "idle"
    /\ panicked = FALSE

-----------------------------------------------------------------------------
AtPoint(r, where) == at' = [at EXCEPT ![r] = where]
Becomes(q, what) == process' = [process EXCEPT ![q] = what]

\* The process of the object in the field, if there is one.
Current == IF stdio = None THEN None ELSE cmd[stdio]
Fail(r) == AtPoint(r, "returned") /\ answer' = answer
Panic == panicked' = TRUE

\* handleStdio tests the field ...
HandleStdio(r) ==
    /\ at[r] = "idle"
    /\ AtPoint(r, IF stdio = None THEN "allocating" ELSE "calling")
    /\ UNCHANGED <<stdio, cmd, sendMu, processes, object, exchange, line, answer, abandoned,
                   uneven, ending, panicked>>

\* ... and puts a new object there, whatever another request has put there meanwhile.
NewProcess(r) ==
    /\ at[r] = "allocating"
    /\ \E o \in Objects \ {stdio} : cmd[o] = None /\ stdio' = o
    /\ AtPoint(r, "starting")
    /\ UNCHANGED <<cmd, sendMu, processes, object, exchange, line, answer, abandoned, uneven,
                   ending, panicked>>

\* p.stdio.start reads the field again, which another request may have set to its
\* own object, started or not, or back to nil; it fails, and the field is
\* cleared, or a process runs for the object, in place of one it had.
Start(r) ==
    /\ at[r] = "starting"
    /\ \/ stdio = None /\ Panic /\ UNCHANGED <<stdio, cmd, process, at, answer>>
       \/ stdio # None /\ stdio' = None /\ Fail(r) /\ UNCHANGED <<cmd, process, panicked>>
       \/ \E q \in Procs :
             /\ stdio # None
             /\ process[q] = "unborn"
             /\ cmd' = [cmd EXCEPT ![stdio] = q]
             /\ Becomes(q, "running")
             /\ AtPoint(r, "calling")
             /\ UNCHANGED <<stdio, answer, panicked>>
    /\ UNCHANGED <<sendMu, stdin, stdinShut, stdout, object, exchange, line, abandoned, uneven,
                   ending>>

\* p.stdio.send reads the field once more and locks the object found there.
Call(r) ==
    /\ at[r] = "calling"
    /\ \/ stdio = None /\ Panic /\ UNCHANGED <<at, object>>
       \/ /\ stdio # None
          /\ object' = [object EXCEPT ![r] = stdio]
          /\ AtPoint(r, "locking")
          /\ UNCHANGED panicked
    /\ UNCHANGED <<stdio, cmd, sendMu, processes, exchange, line, answer, abandoned, uneven,
                   ending>>

\* Who may enter send; the mutant does not take the mutex.
MayEnter_Mutant(r) == TRUE
MayEnter(r) == sendMu[object[r]] = None

\* send: with the mutex, the process is tested and the exchange started.  The
\* object may not have its cmd yet.
Send(r) ==
    LET q == cmd[object[r]]
    IN  /\ at[r] = "locking"
        /\ MayEnter(r)
        /\ \/ /\ q = None
              /\ Panic
              /\ UNCHANGED <<sendMu, at, exchange, answer>>
           \/ /\ q # None /\ process[q] = "reaped"
              /\ Fail(r)
              /\ UNCHANGED <<sendMu, exchange, panicked>>
           \/ /\ q # None
              /\ sendMu' = [sendMu EXCEPT ![object[r]] = r]
              /\ exchange' = [exchange EXCEPT ![r] = "writing"]
              /\ AtPoint(r, "waiting")
              /\ UNCHANGED <<answer, panicked>>
        /\ UNCHANGED <<stdio, cmd, processes, object, line, abandoned, uneven, ending>>

\* The goroutine writes the body, a line or several, or fails to.
Write(r) ==
    LET q == cmd[object[r]]
    IN  /\ exchange[r] = "writing"
        /\ \/ \E n \in 1 .. MaxLines :
                 /\ process[q] = "running" /\ q \notin stdinShut
                 /\ stdin' = [stdin EXCEPT ![q] = @ \o [i \in 1 .. n |-> r]]
                 /\ uneven' = (uneven \/ n # 1)
                 /\ exchange' = [exchange EXCEPT ![r] = "reading"]
           \/ /\ process[q] # "running" \/ q \in stdinShut
              /\ exchange' = [exchange EXCEPT ![r] = "finished"]
              /\ UNCHANGED <<stdin, uneven>>
        /\ UNCHANGED <<stdio, cmd, sendMu, process, stdinShut, stdout, at, object, line,
                       answer, abandoned, ending, panicked>>

\* It reads the next line, whoever that is for, or the end of the output.
ReadLine(r) ==
    LET q == cmd[object[r]]
    IN  /\ exchange[r] = "reading"
        /\ \/ /\ stdout[q] # <<>>
              /\ line' = [line EXCEPT ![r] = Head(stdout[q])]
              /\ stdout' = [stdout EXCEPT ![q] = Tail(@)]
           \/ process[q] # "running" /\ UNCHANGED <<line, stdout>>
        /\ exchange' = [exchange EXCEPT ![r] = "finished"]
        /\ UNCHANGED <<stdio, cmd, sendMu, process, stdin, stdinShut, at, object, answer,
                       abandoned, uneven, ending, panicked>>

\* send returns with what its goroutine has, or because the context is done.
Release(r) == sendMu' = [sendMu EXCEPT ![object[r]] = None]

SendReturns(r) ==
    /\ at[r] = "waiting"
    /\ \/ exchange[r] = "finished" /\ answer' = [answer EXCEPT ![r] = line[r]] /\ UNCHANGED abandoned
       \/ abandoned' = (abandoned \/ exchange[r] # "finished") /\ UNCHANGED answer
    /\ AtPoint(r, "returned")
    /\ Release(r)
    /\ UNCHANGED <<stdio, cmd, processes, object, exchange, line, uneven, ending, panicked>>

-----------------------------------------------------------------------------
\* A server at work; what one prints whose pipes an object has replaced is read by
\* nobody and not followed.
AtWork(q) == process[q] = "running" /\ \E o \in Objects : cmd[o] = q

\* It takes a line and answers it, or, when it is a notification, does not.
ServerAnswers(q) ==
    /\ AtWork(q)
    /\ stdin[q] # <<>>
    /\ stdin' = [stdin EXCEPT ![q] = Tail(@)]
    /\ \/ stdout' = [stdout EXCEPT ![q] = Append(@, Head(stdin[q]))] /\ UNCHANGED uneven
       \/ uneven' = TRUE /\ UNCHANGED stdout
    /\ UNCHANGED <<stdio, cmd, sendMu, process, stdinShut, at, object, exchange, line,
                   answer, abandoned, ending, panicked>>

\* It sends a notification or a request of its own, which send takes for an answer;
\* bounded to when nothing else of its output is unread.
ServerNotifies(q) ==
    /\ AtWork(q)
    /\ stdout[q] = <<>>
    /\ stdout' = [stdout EXCEPT ![q] = Append(@, "note")]
    /\ uneven' = TRUE
    /\ UNCHANGED <<stdio, cmd, sendMu, process, stdin, stdinShut, at, object, exchange, line,
                   answer, abandoned, ending, panicked>>

\* It exits.
ServerExits(q) ==
    /\ process[q] = "running"
    /\ Becomes(q, "exited")
    /\ UNCHANGED <<stdio, cmd, sendMu, stdin, stdinShut, stdout, at, object, exchange,
                   line, answer, abandoned, uneven, ending, panicked>>

\* Proxy.Close: without a started process there is nothing to do; otherwise its
\* input is closed, it is signalled, and after it has exited or been killed it
\* has been waited for.
CloseStdio ==
    /\ \/ /\ ending = "idle" /\ Current = None
          /\ ending' = "done"
          /\ UNCHANGED <<process, stdinShut>>
       \/ /\ ending = "idle" /\ Current # None
          /\ ending' = Current
          /\ stdinShut' = stdinShut \cup {Current}
          /\ UNCHANGED process
       \/ /\ ending \in Procs
          /\ Becomes(ending, "reaped")
          /\ ending' = "done"
          /\ UNCHANGED stdinShut
    /\ UNCHANGED <<stdio, cmd, sendMu, stdin, stdout, at, object, exchange, line, answer,
                   abandoned, uneven, panicked>>

StdioNext ==
    /\ ~panicked
    /\ \/ \E r \in Requests : HandleStdio(r)
       \/ \E r \in Requests : NewProcess(r)
       \/ \E r \in Requests : Start(r)
       \/ \E r \in Requests : Call(r)
       \/ \E r \in Requests : Send(r)
       \/ \E r \in Requests : Write(r)
       \/ \E r \in Requests : ReadLine(r)
       \/ \E r \in Requests : SendReturns(r)
       \/ \E q \in Procs : ServerAnswers(q)
       \/ \E q \in Procs : ServerNotifies(q)
       \/ \E q \in Procs : ServerExits(q)
       \/ CloseStdio

StdioSpec == StdioInit /\ [][StdioNext]_stdioVars
-----------------------------------------------------------------------------
\* As long as no context has ended during an exchange and lines have gone one for
\* one (each body one line, each answered by one, none of the server's own), every
\* request that is answered is answered with the line for it, although requests
\* share a channel with a server that may exit and with Close, and although the
\* first requests race to start processes and replace one another's.
AnswersPaired ==
    ~abandoned /\ ~uneven => \A r \in Requests : answer[r] \in {r, None}

\* "Requests are serialized (mutex) since stdio is single-channel"
\* (docs/proxy-modules.md:122): no request is written while another one's
\* answer is still awaited.
RequestsSerialized ==
    Cardinality({r \in Requests : exchange[r] \in {"writing", "reading"}}) <= 1
=============================================================================
