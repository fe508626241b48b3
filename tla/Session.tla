------------------------------ MODULE Session ------------------------------
(***************************************************************************)
(* One SSH session channel: handleSession of internal/sshserver/session.go *)
(* together with the goroutines it starts and the library and operating    *)
(* system pieces it relies on.                                             *)
(*                                                                         *)
(*   handler    handleSession itself, from entry to sess.Exit              *)
(*   forwarder  the goroutine that ranges over sigCh                       *)
(*   drainer    the goroutine that ranges over winCh (PTY sessions only)   *)
(*   copiers    the two goroutines os/exec starts when Stdin and Stdout    *)
(*              are the session and not files (sessions without a PTY)     *)
(*   request    charmbracelet/ssh's loop over the channel's requests,      *)
(*   loop       which feeds sigCh and winCh                                *)
(*   process    the command, and one process it may leave in background    *)
(*   client     the other end of the channel                               *)
(*                                                                         *)
(* Stdout and stderr are one stream here: both are copied the same way.    *)
(***************************************************************************)
EXTENDS Integers, Sequences

CONSTANTS Signals,      \* the signal names the client sends
          Deliverable,  \* those os.Process.Signal can deliver on this platform
          Codes,        \* exit codes the command may end with
          SigCap,       \* capacity of sigCh (8 in the code)
          MaxRequests,  \* bound: channel requests the client sends
          MaxChunks     \* bound: chunks of output the command writes

Killed == -1            \* ProcessState.ExitCode() of a signalled process
Unknown == 127          \* exitCode when there is no ProcessState
Refused == 1            \* sess.Exit(1) when the command does not start
NoStatus == -2          \* no exit-status request was sent
WindowChange == "window-change"
Requests == Signals \cup {WindowChange}

ASSUME SessionAssumption ==
  /\ WindowChange \notin Signals
  /\ Codes \subseteq 0..255
  /\ SigCap \in Nat \ {0}
  /\ MaxRequests \in Nat
  /\ MaxChunks \in Nat

VARIABLES
  isPty,      \* third result of sess.Pty()
  pc,         \* where the handler is
  process,    \* "none", "running" or "exited"
  code,       \* what the process exited with
  published,  \* does the forwarder see cmd.Process set
  exitCode,   \* the handler's variable of that name
  inflight,   \* channel requests the request loop has not handled
  early,      \* signals the library keeps until Signals is called
  sigCh,      \* the channel given to sess.Signals
  winCh,      \* is a window change waiting in winCh (capacity 1)
  lost,       \* signals dropped because cmd.Process was nil
  stdin,      \* "open" until the client sends EOF
  inCopy,     \* the stdin copier: "off", "copying" or "done"
  outCopy,    \* the stdout copier, likewise
  orphan,     \* does a background process hold the stdout pipe
  written,    \* chunks written to the stdout pipe
  shown,      \* chunks the client received
  channel,    \* "open" or "closed"
  status,     \* the exit status the client received
  sent        \* number of requests the client sent

handlerVars == <<isPty, pc, exitCode>>
processVars == <<process, code, orphan>>
requestVars == <<inflight, early, sigCh, winCh, lost, sent>>
streamVars == <<stdin, inCopy, outCopy, written, shown>>
channelVars == <<channel, status>>
vars == <<handlerVars, processVars, published, requestVars, streamVars,
          channelVars>>

Init ==
  /\ isPty \in BOOLEAN
  /\ pc = "entered"
  /\ process = "none"
  /\ code = 0
  /\ published = FALSE
  /\ exitCode = Unknown
  /\ inflight = <<>>
  /\ early = <<>>
  /\ sigCh = <<>>
  /\ winCh = isPty       \* the pty-req carries the first window size
  /\ lost = {}
  /\ stdin = "open"
  /\ inCopy = "off"
  /\ outCopy = "off"
  /\ orphan = FALSE
  /\ written = 0
  /\ shown = 0
  /\ channel = "open"
  /\ status = NoStatus
  /\ sent = 0
-----------------------------------------------------------------------------
(***************************************************************************)
(* The handler.                                                            *)
(***************************************************************************)

\* sess.Exit(n): send exit-status, close the channel.  On a channel the
\* client already closed the request goes nowhere and the error is ignored.
SessExit(n) ==
  /\ status' = IF channel = "open" THEN n ELSE status
  /\ channel' = "closed"
  /\ inflight' = <<>>

\* Register sigCh, start the forwarder, ask for the PTY, start the drainer.
SetUp ==
  /\ pc = "entered"
  /\ pc' = "starting"
  /\ UNCHANGED <<isPty, exitCode, processVars, published, requestVars,
                 streamVars, channelVars>>

\* Slip: Stdin, Stdout and Stderr are set before the branch, so that a copier
\* and the terminal read the same channel.
Copied_Always == TRUE

\* They are the session only without a PTY; then os/exec copies in goroutines.
Copied == ~isPty

\* ppty.Start or cmd.Start.
StartCommand ==
  /\ pc = "starting"
  /\ pc' = "waiting"
  /\ process' = "running"
  /\ inCopy' = IF Copied THEN "copying" ELSE "off"
  /\ outCopy' = IF Copied THEN "copying" ELSE "off"
  /\ UNCHANGED <<isPty, exitCode, code, orphan, published, requestVars,
                 stdin, written, shown, channelVars>>

StartFails ==
  /\ pc = "starting"
  /\ pc' = "done"
  /\ SessExit(Refused)
  /\ UNCHANGED <<isPty, exitCode, processVars, published, early, sigCh,
                 winCh, lost, sent, streamVars>>

\* Start assigns cmd.Process after the fork and shares no lock with the
\* forwarder, so the forwarder may see nil for a while after the process runs.
Publish ==
  /\ process # "none"
  /\ ~published
  /\ published' = TRUE
  /\ UNCHANGED <<handlerVars, processVars, requestVars, streamVars,
                 channelVars>>

\* Slip: Process.Wait instead of Cmd.Wait, which forgets the copiers.
WaitOver_ProcessOnly == process = "exited"

\* Slip: waiting for copiers that a PTY session does not have.
WaitOver_PtyCopiers ==
  /\ process = "exited"
  /\ inCopy = "done"
  /\ outCopy = "done"

\* When cmd.Wait returns: the process is gone and the copiers have finished.
WaitOver ==
  /\ process = "exited"
  /\ ~isPty => inCopy = "done" /\ outCopy = "done"

\* Slip: 0 as the default, so a command that failed may report success.
ExitCodeOf_Zero == {code, 0}

\* ProcessState.ExitCode(), or the default when Wait left no ProcessState.
ExitCodeOf == {code, Unknown}

WaitReturns ==
  /\ pc = "waiting"
  /\ WaitOver
  /\ pc' = "reaped"
  /\ exitCode' \in ExitCodeOf
  /\ UNCHANGED <<isPty, processVars, published, requestVars, streamVars,
                 channelVars>>

Finish ==
  /\ pc = "reaped"
  /\ pc' = "done"
  /\ SessExit(exitCode)
  /\ UNCHANGED <<isPty, exitCode, processVars, published, early, sigCh,
                 winCh, lost, sent, streamVars>>
-----------------------------------------------------------------------------
(***************************************************************************)
(* The process, its output and the copiers.                                *)
(***************************************************************************)

ProcessExits ==
  /\ process = "running"
  /\ process' = "exited"
  /\ code' \in Codes \cup {Killed}
  /\ UNCHANGED <<handlerVars, orphan, published, requestVars, streamVars,
                 channelVars>>

\* `cmd &` in a session without a PTY leaves a process holding the pipe.
LeaveOrphan ==
  /\ process = "running"
  /\ ~isPty
  /\ ~orphan
  /\ orphan' = TRUE
  /\ UNCHANGED <<handlerVars, process, code, published, requestVars,
                 streamVars, channelVars>>

OrphanExits ==
  /\ orphan
  /\ orphan' = FALSE
  /\ UNCHANGED <<handlerVars, process, code, published, requestVars,
                 streamVars, channelVars>>

Write ==
  /\ process = "running" \/ orphan
  /\ outCopy = "copying"
  /\ written < MaxChunks
  /\ written' = written + 1
  /\ UNCHANGED <<handlerVars, processVars, published, requestVars, stdin,
                 inCopy, outCopy, shown, channelVars>>

CopyOut ==
  /\ outCopy = "copying"
  /\ shown < written
  /\ channel = "open"
  /\ shown' = shown + 1
  /\ UNCHANGED <<handlerVars, processVars, published, requestVars, stdin,
                 inCopy, outCopy, written, channelVars>>

\* The pipe has no writer left, or the session no longer takes the output.
CopyOutEnds ==
  /\ outCopy = "copying"
  /\ \/ shown = written /\ process = "exited" /\ ~orphan
     \/ shown < written /\ channel = "closed"
  /\ outCopy' = "done"
  /\ UNCHANGED <<handlerVars, processVars, published, requestVars, stdin,
                 inCopy, written, shown, channelVars>>

CopyInEnds ==
  /\ inCopy = "copying"
  /\ stdin = "eof" \/ channel = "closed"
  /\ inCopy' = "done"
  /\ UNCHANGED <<handlerVars, processVars, published, requestVars, stdin,
                 outCopy, written, shown, channelVars>>
-----------------------------------------------------------------------------
(***************************************************************************)
(* The client.                                                             *)
(***************************************************************************)

SendRequest(r) ==
  /\ channel = "open"
  /\ sent < MaxRequests
  /\ sent' = sent + 1
  /\ inflight' = Append(inflight, r)
  /\ UNCHANGED <<handlerVars, processVars, published, early, sigCh, winCh,
                 lost, streamVars, channelVars>>

SendEOF ==
  /\ channel = "open"
  /\ stdin = "open"
  /\ stdin' = "eof"
  /\ UNCHANGED <<handlerVars, processVars, published, requestVars, inCopy,
                 outCopy, written, shown, channelVars>>

\* Input typed after the process ended: the copier's write fails with EPIPE.
TypeAfterExit ==
  /\ channel = "open"
  /\ stdin = "open"
  /\ process = "exited"
  /\ inCopy = "copying"
  /\ inCopy' = "done"
  /\ UNCHANGED <<handlerVars, processVars, published, requestVars, stdin,
                 outCopy, written, shown, channelVars>>

\* The client hangs up, or Server.Stop closes the connection.
Disconnect ==
  /\ channel = "open"
  /\ channel' = "closed"
  /\ inflight' = <<>>
  /\ UNCHANGED <<handlerVars, processVars, published, early, sigCh, winCh,
                 lost, sent, streamVars, status>>
-----------------------------------------------------------------------------
(***************************************************************************)
(* The library's request loop.  It blocks while the channel it has to send *)
(* on is full.                                                             *)
(***************************************************************************)

\* sigCh is buffered: a send blocks once SigCap signals wait in it.
HasRoom == Len(sigCh) < SigCap

\* Signals arriving before sess.Signals(sigCh) are kept by the library.
LoopSignal ==
  /\ inflight # <<>>
  /\ Head(inflight) \in Signals
  /\ inflight' = Tail(inflight)
  /\ \/ /\ pc = "entered"
        /\ early' = Append(early, Head(inflight))
        /\ UNCHANGED sigCh
     \/ /\ pc # "entered"
        /\ HasRoom
        /\ sigCh' = Append(sigCh, Head(inflight))
        /\ UNCHANGED early
  /\ UNCHANGED <<handlerVars, processVars, published, winCh, lost, sent,
                 streamVars, channelVars>>

FlushEarly ==
  /\ pc # "entered"
  /\ early # <<>>
  /\ HasRoom
  /\ sigCh' = Append(sigCh, Head(early))
  /\ early' = Tail(early)
  /\ UNCHANGED <<handlerVars, processVars, published, inflight, winCh, lost,
                 sent, streamVars, channelVars>>

\* A window change without a PTY is refused.
LoopWindowChange ==
  /\ inflight # <<>>
  /\ Head(inflight) = WindowChange
  /\ ~(isPty /\ winCh)
  /\ winCh' = isPty
  /\ inflight' = Tail(inflight)
  /\ UNCHANGED <<handlerVars, processVars, published, early, sigCh, lost,
                 sent, streamVars, channelVars>>
-----------------------------------------------------------------------------
(***************************************************************************)
(* The forwarder and the drainer.  Nobody closes sigCh: the forwarder      *)
(* outlives the handler.                                                   *)
(***************************************************************************)

\* Slip: KILL left out of the table.
HasOSSignal_NoKill(sig) == sig \in {"TERM", "INT", "HUP"}

\* sshSignalToOSSig: any other name maps to nil.
HasOSSignal(sig) == sig \in {"TERM", "INT", "KILL", "HUP"}

\* cmd.Process.Signal: KILL ends the process, another signal may or may not.
\* A process that already exited, or an undeliverable signal, is an error
\* the forwarder ignores.
Deliver(sig) ==
  \/ /\ process = "running"
     /\ sig \in Deliverable
     /\ process' = "exited"
     /\ code' = Killed
  \/ /\ process = "exited" \/ sig # "KILL" \/ sig \notin Deliverable
     /\ UNCHANGED <<process, code>>

\* Slip: return where the code has continue.
ForwarderRuns_UntilNil == pc # "entered" /\ lost = {}

\* The forwarder exists from SetUp on: a nil cmd.Process makes it continue.
ForwarderRuns == pc # "entered"

\* "if cmd.Process == nil { continue }": the signal is gone.
DropSignal ==
  /\ ForwarderRuns
  /\ sigCh # <<>>
  /\ ~published
  /\ sigCh' = Tail(sigCh)
  /\ lost' = lost \cup {Head(sigCh)}
  /\ UNCHANGED <<handlerVars, processVars, published, inflight, early, winCh,
                 sent, streamVars, channelVars>>

ForwardSignal ==
  /\ ForwarderRuns
  /\ sigCh # <<>>
  /\ published
  /\ sigCh' = Tail(sigCh)
  /\ IF HasOSSignal(Head(sigCh)) THEN Deliver(Head(sigCh))
                                 ELSE UNCHANGED <<process, code>>
  /\ UNCHANGED <<handlerVars, orphan, published, inflight, early, winCh, lost,
                 sent, streamVars, channelVars>>

DrainWindow ==
  /\ pc # "entered"
  /\ isPty
  /\ winCh
  /\ winCh' = FALSE
  /\ UNCHANGED <<handlerVars, processVars, published, inflight, early, sigCh,
                 lost, sent, streamVars, channelVars>>
-----------------------------------------------------------------------------
Handler == SetUp \/ StartCommand \/ StartFails \/ WaitReturns \/ Finish
Copiers == CopyOut \/ CopyOutEnds \/ CopyInEnds
RequestLoop == LoopSignal \/ LoopWindowChange
Forwarder == DropSignal \/ ForwardSignal
Command == ProcessExits \/ LeaveOrphan \/ OrphanExits \/ Write
Client == (\E r \in Requests : SendRequest(r)) \/ SendEOF \/ TypeAfterExit
            \/ Disconnect

\* The session is over and every goroutine but the forwarder has returned.
Ended ==
  /\ pc = "done"
  /\ process # "running"
  /\ ~orphan
  /\ sigCh = <<>>
  /\ UNCHANGED vars

Next ==
  \/ Handler \/ Publish \/ Copiers \/ RequestLoop \/ FlushEarly
  \/ Forwarder \/ DrainWindow \/ Command \/ Client \/ Ended

Spec == Init /\ [][Next]_vars

(***************************************************************************)
(* The Go scheduler runs every goroutine that can run, and a store becomes *)
(* visible in the end.  Nothing is assumed of the client or the command:   *)
(* the command may run for ever, the client may never send EOF.  CopyOut   *)
(* assumes a client that keeps reading (SSH flow control).                 *)
(***************************************************************************)
Fairness ==
  /\ WF_vars(Handler)
  /\ WF_vars(Publish)
  /\ WF_vars(CopyOut \/ CopyOutEnds)
  /\ WF_vars(CopyInEnds)
  /\ WF_vars(RequestLoop)
  /\ WF_vars(FlushEarly)
  /\ WF_vars(Forwarder)
  /\ WF_vars(DrainWindow)

FairSpec == Spec /\ Fairness
-----------------------------------------------------------------------------
(***************************************************************************)
(* Properties.                                                             *)
(***************************************************************************)

\* The types of the session's variables.  sigCh never holds more than its
\* capacity, and in a session with a PTY, where the terminal reads the channel,
\* no copier ever does.
TypeOK ==
  /\ isPty \in BOOLEAN
  /\ pc \in {"entered", "starting", "waiting", "reaped", "done"}
  /\ process \in {"none", "running", "exited"}
  /\ code \in Codes \cup {0, Killed}
  /\ published \in BOOLEAN
  /\ exitCode \in Codes \cup {0, Killed, Unknown}
  /\ inflight \in Seq(Requests)
  /\ early \in Seq(Signals)
  /\ sigCh \in Seq(Signals)
  /\ Len(sigCh) <= SigCap
  /\ winCh \in BOOLEAN
  /\ lost \in SUBSET Signals
  /\ stdin \in {"open", "eof"}
  /\ inCopy \in {"off", "copying", "done"}
  /\ outCopy \in {"off", "copying", "done"}
  /\ isPty => inCopy = "off" /\ outCopy = "off"
  /\ orphan \in BOOLEAN
  /\ written \in 0..MaxChunks
  /\ shown \in 0..written
  /\ channel \in {"open", "closed"}
  /\ status \in Codes \cup {0, Killed, Unknown, Refused, NoStatus}
  /\ sent \in 0..MaxRequests

\* A status the client received is the outcome of its command (or says that
\* the command never started, or that Wait learnt nothing), and without a PTY
\* it comes after every chunk of output, background writers included: the
\* handler calls sess.Exit only after cmd.Wait has seen both copiers end.
StatusIsFinal ==
  status # NoStatus =>
    \/ process = "none" /\ status = Refused
    \/ /\ process = "exited"
       /\ status \in {code, Unknown}
       /\ shown = written
       /\ ~orphan

\* Session implements the promise made to the client.
Promise == INSTANCE RemoteCommand WITH
  Outcomes <- Codes \cup {Killed},
  phase <- IF pc = "done" THEN "closed"
           ELSE IF process = "none" THEN "requested"
           ELSE IF process = "running" THEN "running" ELSE "ended",
  connected <- channel = "open",
  outcome <- IF process = "exited" THEN code ELSE NoStatus

\* Every step of the handler and its goroutines is a step of the abstract
\* command channel: no output after the status, at most one status, and no
\* status for a client that went away.
KeepsPromise == Promise!Spec

\* The request loop never stays blocked on sigCh or winCh: the forwarder
\* continues past a nil process and both channels are drained to the end,
\* the handler's own waiting notwithstanding.
RequestsDrain == inflight # <<>> ~> inflight = <<>>

\* KILL queued once cmd.Process is visible ends the command, whatever
\* signals are queued in front of it and whether or not the handler waits.
KillIsObeyed ==
  published /\ (\E i \in DOMAIN sigCh : sigCh[i] = "KILL")
    ~> process = "exited"

\* Once the command and its background writers are gone, the handler
\* finishes - provided the client has ended its input or has a PTY.
HandlerFinishes ==
  process = "exited" /\ ~orphan /\ (isPty \/ stdin = "eof") ~> pc = "done"

\* The same without the proviso on stdin: a command that has ended is
\* reported to the client, as the exec channel of README.md promises.
ExitIsReported == process = "exited" /\ ~orphan ~> pc = "done"
=============================================================================
