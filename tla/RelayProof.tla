---------------------------- MODULE RelayProof ----------------------------
(***************************************************************************)
(* What holds of one run of the daemon for any set of connections: the     *)
(* types, that Server.Stop frees the port, and that the run is a run of    *)
(* the abstract Lifecycle its service manager relies on.                   *)
(***************************************************************************)
EXTENDS Relay, TLAPS

(* Nothing is bound or served before net.Listen; from then on the flag is  *)
(* set until Stop clears it, so that Stop does not return early.           *)
Bound ==
  /\ main \in {"boot", "loaded", "logging", "keyed"} =>
       listener = "none" /\ serve = "none"
  /\ main \in {"bound", "ready", "stopping"} => started
  /\ main = "unbound" => listener # "open"

IInv == TypeOK /\ Bound /\ StopFreesPort

LEMMA InitEstablishes == Init => IInv
<1> SUFFICES ASSUME Init PROVE IInv
  OBVIOUS
<1>1. /\ stopErr \in BOOLEAN /\ hasLog \in BOOLEAN /\ lost \in BOOLEAN
      /\ started \in BOOLEAN /\ tracked \in BOOLEAN /\ ~started
  BY Zenon DEF Init
<1>2. /\ main = "boot" /\ exit = "none" /\ logFile = "none"
      /\ listener = "none" /\ serve = "none"
      /\ conn = [c \in Conns |-> "none"]
  BY DEF Init
<1>3. QED
  BY <1>1, <1>2 DEF IInv, TypeOK, Bound, StopFreesPort, Starting

(* A record is written to an open log or lost: a truth value either way.   *)
LEMMA RecordIsTyped == Record => lost' \in BOOLEAN
  BY Zenon DEF Record

LEMMA StartKeeps == ASSUME IInv, Start PROVE IInv'
<1> USE DEF IInv, TypeOK, Bound, StopFreesPort, Starting, programVars, logVars,
        libraryVars
<1>1. CASE LoadConfig
  BY <1>1 DEF LoadConfig
<1>2. CASE OpenLog
  BY <1>2 DEF OpenLog
<1>3. CASE Prepare
  BY <1>3 DEF Prepare, StartedBeforeListen
<1>4. CASE Listen
  <2>1. started' \in BOOLEAN /\ started'
    BY <1>4, Zenon DEF Listen
  <2>2. QED
    BY <1>4, <2>1 DEF Listen
<1>5. CASE Ready
  BY <1>5 DEF Ready
<1>6. CASE StartFails
  BY <1>6 DEF StartFails
<1>7. CASE KilledInStart
  BY <1>7 DEF KilledInStart
<1>8. QED
  BY <1>1, <1>2, <1>3, <1>4, <1>5, <1>6, <1>7 DEF Start

LEMMA StopKeeps == ASSUME IInv, Stop PROVE IInv'
<1> USE DEF IInv, TypeOK, Bound, StopFreesPort, Starting, programVars, logVars,
        libraryVars
<1>1. CASE AskedToStop
  BY <1>1, RecordIsTyped DEF AskedToStop, LogDuringStop
<1>2. CASE CloseListener
  <2>1. started' \in BOOLEAN /\ ~started'
    BY <1>2, Zenon DEF CloseListener
  <2>2. main' = "unbound" /\ listener' = "closed"
    BY <1>2 DEF CloseListener, ListenerAfterStop
  <2>3. conn' \in [Conns -> {"none", "backlog", "handshake", "open", "closed"}]
    BY <1>2 DEF CloseListener
  <2>4. QED
    BY <1>2, <2>1, <2>2, <2>3 DEF CloseListener
<1>3. CASE CloseServer
  <2>1. tracked' \in BOOLEAN /\ stopErr' \in BOOLEAN
    BY <1>3, Zenon DEF CloseServer
  <2>2. QED
    BY <1>3, <2>1 DEF CloseServer
<1>4. CASE CloseLog
  BY <1>4 DEF CloseLog
<1>5. CASE Exit
  BY <1>5 DEF Exit
<1>6. QED
  BY <1>1, <1>2, <1>3, <1>4, <1>5 DEF Stop

LEMMA ServingKeeps == ASSUME IInv, Serving PROVE IInv'
<1> USE DEF IInv, TypeOK, Bound, StopFreesPort, Starting, programVars, logVars,
        libraryVars, Alive
<1>1. CASE ServeBegins
  <2>1. tracked' \in BOOLEAN
    BY <1>1, Zenon DEF ServeBegins
  <2>2. QED
    BY <1>1, <2>1 DEF ServeBegins
<1>2. ASSUME NEW c \in Conns, Accept(c) PROVE IInv'
  BY <1>2 DEF Accept
<1>3. CASE AcceptFails
  <2>1. tracked' \in BOOLEAN
    BY <1>3, Zenon DEF AcceptFails
  <2>2. QED
    BY <1>3, <2>1 DEF AcceptFails
<1>4. CASE LogsItsEnd
  BY <1>4, RecordIsTyped DEF LogsItsEnd
<1>5. QED
  BY <1>1, <1>2, <1>3, <1>4 DEF Serving

LEMMA ClientsKeep == ASSUME IInv, Clients PROVE IInv'
<1> USE DEF IInv, TypeOK, Bound, StopFreesPort, Starting, programVars, logVars,
        libraryVars
<1>1. PICK c \in Conns : Dial(c) \/ Authenticate(c) \/ HangUp(c)
  BY DEF Clients
<1>2. CASE Dial(c)
  BY <1>2 DEF Dial
<1>3. CASE Authenticate(c)
  BY <1>3, RecordIsTyped DEF Authenticate
<1>4. CASE HangUp(c)
  BY <1>4 DEF HangUp
<1>5. QED
  BY <1>1, <1>2, <1>3, <1>4

LEMMA StepKeeps == IInv /\ [Next]_vars => IInv'
<1> SUFFICES ASSUME IInv, [Next]_vars PROVE IInv'
  OBVIOUS
<1>1. CASE Ended \/ UNCHANGED vars
  BY <1>1 DEF Ended, vars, programVars, logVars, libraryVars, IInv, TypeOK,
              Bound, StopFreesPort, Starting
<1>2. QED
  BY <1>1, StartKeeps, StopKeeps, ServingKeeps, ClientsKeep DEF Next

LEMMA Inductive == Spec => []IInv
  BY InitEstablishes, StepKeeps, PTL DEF Spec

(* The types of the daemon's variables.                                    *)
THEOREM TypeCorrect == Spec => []TypeOK
<1>1. IInv => TypeOK
  BY DEF IInv
<1>2. QED
  BY <1>1, Inductive, PTL

(* Server.Stop frees the port whatever the serve goroutine was doing.      *)
THEOREM PortIsFreed == Spec => []StopFreesPort
<1>1. IInv => StopFreesPort
  BY DEF IInv
<1>2. QED
  BY <1>1, Inductive, PTL
-----------------------------------------------------------------------------
(* Only the last steps of Program.Stop find the log closed.                *)
LogInv == /\ logFile = "closed" => main \in {"stopped", "ended"}
          /\ RecordsReachTheLog

LEMMA RecordKeeps == ASSUME LogInv, Record, main' = main \/ main = "ready"
                     PROVE  lost' => main' \in {"stopped", "ended"}
<1>1. lost' => lost \/ logFile = "closed"
  BY Zenon DEF Record
<1>2. QED
  BY <1>1 DEF LogInv, RecordsReachTheLog

LEMMA LogStep == LogInv /\ [Next]_vars => LogInv'
<1> SUFFICES ASSUME LogInv, [Next]_vars PROVE LogInv'
  OBVIOUS
<1> USE DEF LogInv, RecordsReachTheLog, programVars, logVars
<1>1. CASE Start
  BY <1>1 DEF Start, LoadConfig, OpenLog, Prepare, Listen, Ready, StartFails,
              KilledInStart, Starting
<1>2. CASE Stop
  <2>1. CASE AskedToStop
    BY <2>1, RecordKeeps DEF AskedToStop, LogDuringStop
  <2>2. CASE CloseListener \/ CloseServer \/ CloseLog \/ Exit
    BY <2>2 DEF CloseListener, CloseServer, CloseLog, Exit
  <2>3. QED
    BY <1>2, <2>1, <2>2 DEF Stop
<1>3. CASE Serving
  <2>1. CASE LogsItsEnd
    BY <2>1, RecordKeeps DEF LogsItsEnd
  <2>2. CASE ServeBegins \/ AcceptFails \/ \E c \in Conns : Accept(c)
    BY <2>2 DEF ServeBegins, AcceptFails, Accept
  <2>3. QED
    BY <1>3, <2>1, <2>2 DEF Serving
<1>4. CASE Clients
  <2>1. PICK c \in Conns : Dial(c) \/ Authenticate(c) \/ HangUp(c)
    BY <1>4 DEF Clients
  <2>2. CASE Authenticate(c)
    BY <2>2, RecordKeeps DEF Authenticate
  <2>3. CASE Dial(c) \/ HangUp(c)
    BY <2>3 DEF Dial, HangUp
  <2>4. QED
    BY <2>1, <2>2, <2>3
<1>5. CASE Ended \/ UNCHANGED vars
  BY <1>5 DEF Ended, vars
<1>6. QED
  BY <1>1, <1>2, <1>3, <1>4, <1>5 DEF Next

(* Whatever goroutine logs, its record is lost only after Server.Stop has  *)
(* returned and Program.Stop has closed the log.                           *)
THEOREM LogOutlivesServer == Spec => []RecordsReachTheLog
<1>1. Init => LogInv
  <2>1. Init => ~lost
    BY Zenon DEF Init
  <2>2. QED
    BY <2>1 DEF Init, LogInv, RecordsReachTheLog
<1>2. LogInv => RecordsReachTheLog
  BY DEF LogInv
<1>3. QED
  BY <1>1, <1>2, LogStep, PTL DEF Spec
-----------------------------------------------------------------------------
LEMMA StepRefines == [Next]_vars => [Life!Next]_Life!vars
<1> SUFFICES ASSUME [Next]_vars PROVE [Life!Next]_Life!vars
  OBVIOUS
<1> USE DEF Starting, programVars, Life!vars, Life!Next
<1>1. CASE Start
  BY <1>1 DEF Start, LoadConfig, OpenLog, Prepare, Listen, Ready, StartFails,
              KilledInStart, Life!BecomeReady, Life!FailToStart, Life!BeKilled
<1>2. CASE Stop
  BY <1>2 DEF Stop, AskedToStop, CloseListener, CloseServer, CloseLog, Exit,
              StopFailed, Life!BeAsked, Life!Finish
<1>3. CASE Serving
  BY <1>3 DEF Serving, ServeBegins, Accept, AcceptFails, LogsItsEnd
<1>4. CASE Clients
  BY <1>4 DEF Clients, Dial, Authenticate, HangUp
<1>5. CASE Ended \/ UNCHANGED vars
  BY <1>5 DEF Ended, vars
<1>6. QED
  BY <1>1, <1>2, <1>3, <1>4, <1>5 DEF Next

(* A run of the daemon is a run of Lifecycle: a clean stop is never an     *)
(* error exit, though the library reports that the listener was closed.    *)
THEOREM Implements == Spec => IsADaemon
<1>1. Init => Life!Init
  BY DEF Init, Life!Init, Starting
<1>2. QED
  BY <1>1, StepRefines, PTL DEF Spec, IsADaemon, Life!Spec
=============================================================================
