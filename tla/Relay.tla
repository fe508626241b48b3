------------------------------- MODULE Relay -------------------------------
(***************************************************************************)
(* One run of the daemon process: Program of internal/service/service.go   *)
(* around Server of internal/sshserver/server.go, with the goroutines of   *)
(* charmbracelet/ssh that Server.Start leaves running.                     *)
(*                                                                         *)
(*   main    Program.Start, the wait for a signal, Program.Stop            *)
(*   serve   the goroutine of Server.Start that runs ssh.Server.Serve      *)
(*   conn    one goroutine per accepted connection                         *)
(*                                                                         *)
(* Both Start methods run to the end under their mutex before any Stop, so *)
(* the mutexes and the "already started" checks never wait here.           *)
(***************************************************************************)
EXTENDS Integers

CONSTANT Conns     \* the connections clients may open, each once

VARIABLES
  main,       \* where the main goroutine is
  exit,       \* how the process ended
  stopErr,    \* did Server.Stop return an error
  hasLog,     \* is --log-file given
  logFile,    \* "none", "open" or "closed"
  lost,       \* has a log record been written to a closed log file
  started,    \* Server.started
  listener,   \* "none", "open" or "closed"
  serve,      \* the serve goroutine
  tracked,    \* is the listener in ssh.Server's table
  conn        \* the state of each connection

programVars == <<main, exit, stopErr>>
logVars == <<hasLog, logFile, lost>>
libraryVars == <<serve, tracked>>
vars == <<programVars, logVars, started, listener, libraryVars, conn>>

Init ==
  /\ main = "boot"
  /\ exit = "none"
  /\ stopErr = FALSE
  /\ hasLog \in BOOLEAN
  /\ logFile = "none"
  /\ lost = FALSE
  /\ started = FALSE
  /\ listener = "none"
  /\ serve = "none"
  /\ tracked = FALSE
  /\ conn = [c \in Conns |-> "none"]

Starting == {"boot", "loaded", "logging", "keyed", "bound"}

\* Every goroutine goes with the process, and so do its sockets.
Alive == main # "ended"

\* slog through the MultiWriter: the file comes first, and when it has been
\* closed its error keeps the record from stderr too.
Record == lost' = (lost \/ logFile = "closed")
-----------------------------------------------------------------------------
(* Program.Start. *)

LoadConfig ==
  /\ main = "boot"
  /\ main' = "loaded"
  /\ UNCHANGED <<exit, stopErr, logVars, started, listener, libraryVars, conn>>

OpenLog ==
  /\ main = "loaded"
  /\ main' = "logging"
  /\ logFile' = IF hasLog THEN "open" ELSE "none"
  /\ UNCHANGED <<exit, stopErr, hasLog, lost, started, listener, libraryVars,
                 conn>>

\* Slip: the flag is stored on entry, where the test of it is.
StartedBeforeListen_Early == TRUE

\* s.started.Store(true) waits for net.Listen to succeed.
StartedBeforeListen == started

\* LoadAuthorizedKeys, sshserver.New and loadOrCreateHostKey succeed.
Prepare ==
  /\ main = "logging"
  /\ main' = "keyed"
  /\ started' = StartedBeforeListen
  /\ UNCHANGED <<exit, stopErr, logVars, listener, libraryVars, conn>>

\* net.Listen, then the serve goroutine is started.
Listen ==
  /\ main = "keyed"
  /\ main' = "bound"
  /\ listener' = "open"
  /\ started' = TRUE
  /\ serve' = "spawned"
  /\ UNCHANGED <<exit, stopErr, logVars, tracked, conn>>

Ready ==
  /\ main = "bound"
  /\ main' = "ready"
  /\ UNCHANGED <<exit, stopErr, logVars, started, listener, libraryVars, conn>>

\* Any error up to and including net.Listen ends Start; main exits with 1.
StartFails ==
  /\ main \in {"boot", "loaded", "logging", "keyed"}
  /\ main' = "ended"
  /\ exit' = "error"
  /\ UNCHANGED <<stopErr, logVars, started, listener, libraryVars, conn>>

\* signal.Notify comes after Start: until then SIGTERM has its default effect.
KilledInStart ==
  /\ main \in Starting
  /\ main' = "ended"
  /\ exit' = "killed"
  /\ listener' = IF listener = "open" THEN "closed" ELSE listener
  /\ conn' = [c \in Conns |-> IF conn[c] = "none" THEN "none" ELSE "closed"]
  /\ UNCHANGED <<stopErr, logVars, started, libraryVars>>
-----------------------------------------------------------------------------
(* Program.Stop. *)

\* Slip: the log is closed before the server is.
LogDuringStop_Closed == IF logFile = "open" THEN "closed" ELSE logFile

\* The log stays open while the server is stopped.
LogDuringStop == logFile

AskedToStop ==
  /\ main = "ready"
  /\ main' = "stopping"
  /\ Record                                     \* "shutting down"
  /\ logFile' = LogDuringStop
  /\ UNCHANGED <<exit, stopErr, hasLog, started, listener, libraryVars, conn>>

\* Slip: the listener is left to ssh.Server.Close.
ListenerAfterStop_Library == listener

\* s.listener.Close()
ListenerAfterStop == "closed"

\* Server.Stop does nothing on a server whose flag is not set.
CloseListener ==
  /\ main = "stopping"
  /\ main' = IF started THEN "unbound" ELSE "released"
  /\ started' = FALSE
  /\ listener' = IF started THEN ListenerAfterStop ELSE listener
  /\ conn' = [c \in Conns |-> IF conn[c] = "backlog" /\ listener' = "closed"
                              THEN "closed" ELSE conn[c]]
  /\ UNCHANGED <<exit, stopErr, logVars, libraryVars>>

\* Slip: ssh.Server.Shutdown, which lets the open connections finish.
CloseWaitsFor_Shutdown == {"open"}

\* ssh.Server.Close waits for no connection.
CloseWaitsFor == {}

\* ssh.Server.Close: the listeners and the connections in its tables.  It
\* reports an error when a listener it knows was closed before.
CloseServer ==
  /\ main = "unbound"
  /\ \A c \in Conns : conn[c] \notin CloseWaitsFor
  /\ main' = "released"
  /\ listener' = IF tracked THEN "closed" ELSE listener
  /\ tracked' = FALSE
  /\ stopErr' = (tracked /\ listener = "closed")
  /\ conn' = [c \in Conns |-> IF conn[c] = "open" THEN "closed" ELSE conn[c]]
  /\ UNCHANGED <<exit, logVars, started, serve>>

CloseLog ==
  /\ main = "released"
  /\ main' = "stopped"
  /\ logFile' = IF logFile = "open" THEN "closed" ELSE logFile
  /\ UNCHANGED <<exit, stopErr, hasLog, lost, started, listener, libraryVars,
                 conn>>

\* Slip: net.ErrClosed is an error like any other.
StopFailed_AnyError == stopErr

\* !errors.Is(err, net.ErrClosed): closing the listener twice is expected.
StopFailed == FALSE

Exit ==
  /\ main = "stopped"
  /\ main' = "ended"
  /\ exit' = IF StopFailed THEN "error" ELSE "ok"
  /\ listener' = IF listener = "open" THEN "closed" ELSE listener
  /\ conn' = [c \in Conns |-> IF conn[c] = "none" THEN "none" ELSE "closed"]
  /\ UNCHANGED <<stopErr, logVars, started, libraryVars>>
-----------------------------------------------------------------------------
(* The serve goroutine. *)

\* trackListener: from here on ssh.Server.Close knows the listener.
ServeBegins ==
  /\ Alive
  /\ serve = "spawned"
  /\ serve' = "accepting"
  /\ tracked' = TRUE
  /\ UNCHANGED <<programVars, logVars, started, listener, conn>>

Accept(c) ==
  /\ Alive
  /\ serve = "accepting"
  /\ listener = "open"
  /\ conn[c] = "backlog"
  /\ conn' = [conn EXCEPT ![c] = "handshake"]
  /\ UNCHANGED <<programVars, logVars, started, listener, libraryVars>>

\* Accept returns an error that is not temporary, or the listener is closed.
\* Serve closes the listener on its way out.
AcceptFails ==
  /\ Alive
  /\ serve = "accepting"
  /\ serve' = "returned"
  /\ tracked' = FALSE
  /\ listener' = "closed"
  /\ conn' = [c \in Conns |-> IF conn[c] = "backlog" THEN "closed" ELSE conn[c]]
  /\ UNCHANGED <<programVars, logVars, started>>

LogsItsEnd ==
  /\ Alive
  /\ serve = "returned"
  /\ serve' = "ended"
  /\ Record                                     \* "ssh server stopped"
  /\ UNCHANGED <<programVars, hasLog, logFile, started, listener, tracked,
                 conn>>
-----------------------------------------------------------------------------
(* Connections. *)

Dial(c) ==
  /\ Alive
  /\ listener = "open"
  /\ conn[c] = "none"
  /\ conn' = [conn EXCEPT ![c] = "backlog"]
  /\ UNCHANGED <<programVars, logVars, started, listener, libraryVars>>

\* The authentication handlers log; a connection that authenticates enters
\* ssh.Server's table.
Authenticate(c) ==
  /\ Alive
  /\ conn[c] = "handshake"
  /\ conn' = [conn EXCEPT ![c] = "open"]
  /\ Record
  /\ UNCHANGED <<programVars, hasLog, logFile, started, listener, libraryVars>>

HangUp(c) ==
  /\ Alive
  /\ conn[c] \in {"backlog", "handshake", "open"}
  /\ conn' = [conn EXCEPT ![c] = "closed"]
  /\ UNCHANGED <<programVars, logVars, started, listener, libraryVars>>

\* The process has ended.
Ended ==
  /\ ~Alive
  /\ UNCHANGED vars

Start == LoadConfig \/ OpenLog \/ Prepare \/ Listen \/ Ready
           \/ StartFails \/ KilledInStart
Stop == AskedToStop \/ CloseListener \/ CloseServer \/ CloseLog \/ Exit
Serving == ServeBegins \/ (\E c \in Conns : Accept(c)) \/ AcceptFails
             \/ LogsItsEnd
Clients == \E c \in Conns : Dial(c) \/ Authenticate(c) \/ HangUp(c)

Next == Start \/ Stop \/ Serving \/ Clients \/ Ended

Spec == Init /\ [][Next]_vars

\* Program.Stop runs on once it was called; nobody has to call it, and clients
\* and the serve goroutine may do nothing.
FairSpec == Spec /\ WF_vars(CloseListener \/ CloseServer \/ CloseLog \/ Exit)
-----------------------------------------------------------------------------
(* Properties. *)

\* The types; a server that says it is started has bound its listener.
TypeOK ==
  /\ main \in Starting \cup {"ready", "stopping", "unbound", "released",
                             "stopped", "ended"}
  /\ exit \in {"none", "ok", "error", "killed"}
  /\ stopErr \in BOOLEAN
  /\ hasLog \in BOOLEAN
  /\ logFile \in {"none", "open", "closed"}
  /\ lost \in BOOLEAN
  /\ started \in BOOLEAN
  /\ started => listener # "none"
  /\ listener \in {"none", "open", "closed"}
  /\ serve \in {"none", "spawned", "accepting", "returned", "ended"}
  /\ tracked \in BOOLEAN
  /\ conn \in [Conns -> {"none", "backlog", "handshake", "open", "closed"}]

\* When Server.Stop has returned the port is free, even if the serve
\* goroutine has not run yet and the library does not know the listener.
StopFreesPort == main \in {"released", "stopped", "ended"} => listener # "open"

\* The relay is a daemon its service manager can judge by its exit: asked to
\* stop it ends without an error whatever the serve goroutine was doing, and
\* an error means that it never became ready.
Life == INSTANCE Lifecycle WITH
  phase <- IF main \in Starting THEN "starting"
           ELSE IF main \in {"ready", "ended"} THEN main ELSE "stopping"
IsADaemon == Life!Spec

\* A relay that was asked to stop ends, although clients keep connections open
\* or are in their handshake and the serve goroutine may never run again: the
\* manager need not kill it when its stop timeout is over.
StopEnds == main = "stopping" ~> main = "ended"

\* "the flag makes the daemon write to stderr and that file": no record of a
\* connection, of the serve goroutine or of Stop itself is lost until the server
\* was stopped and the log closed.  (A record that comes later is lost.)
RecordsReachTheLog == lost => main \in {"stopped", "ended"}
=============================================================================
