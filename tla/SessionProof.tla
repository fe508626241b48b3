---------------------------- MODULE SessionProof ----------------------------
(***************************************************************************)
(* What holds of Session for every choice of its constants: the types, the *)
(* finality of the exit status, and that every step is a step of the       *)
(* abstract command channel or a stutter.                                  *)
(***************************************************************************)
EXTENDS Session, TLAPS

\* Where the handler is determines what exists: no process and no copiers
\* before Start, copiers only while it waits, none once it is done.
Phases ==
  /\ pc \in {"entered", "starting"} => process = "none"
  /\ pc \in {"waiting", "reaped"} => process # "none"
  /\ pc = "reaped" => process = "exited"
  /\ pc = "done" => process # "running" /\ channel = "closed"
  /\ process = "none" => outCopy = "off" /\ ~orphan
  /\ outCopy = "copying" => pc = "waiting"
  /\ isPty => outCopy = "off" /\ ~orphan

\* What the stdout copier's state says of the pipe: it stops early only when
\* the channel is closed.
Pipe ==
  /\ outCopy = "off" => written = 0 /\ shown = 0
  /\ outCopy = "done" /\ channel = "open" =>
       process = "exited" /\ ~orphan /\ shown = written

\* What the handler knows when it is about to call sess.Exit.
Knows ==
  /\ pc = "reaped" => exitCode \in {code, Unknown}
  /\ pc = "reaped" /\ ~isPty => outCopy = "done"
  /\ status # NoStatus => pc = "done"

IInv == TypeOK /\ Phases /\ Pipe /\ Knows /\ StatusIsFinal

LEMMA InitEstablishes == Init => IInv
<1> SUFFICES ASSUME Init PROVE IInv
  OBVIOUS
<1> USE DEF NoStatus, Unknown, Refused, Killed
<1>1. published \in BOOLEAN /\ winCh \in BOOLEAN /\ isPty \in BOOLEAN
  BY Zenon DEF Init
<1>2. orphan \in BOOLEAN /\ ~orphan
  BY Zenon DEF Init
<1>3. TypeOK
  <2>1. /\ inflight = <<>> /\ early = <<>> /\ sigCh = <<>> /\ lost = {}
        /\ written = 0 /\ shown = 0 /\ sent = 0
        /\ code = 0 /\ exitCode = Unknown /\ status = NoStatus
    BY DEF Init
  <2>2. /\ pc = "entered" /\ process = "none" /\ stdin = "open"
        /\ inCopy = "off" /\ outCopy = "off" /\ channel = "open"
    BY DEF Init
  <2>3. QED
    BY <1>1, <1>2, <2>1, <2>2, SessionAssumption DEF TypeOK
<1>4. Phases /\ Pipe /\ Knows /\ StatusIsFinal
  <2>1. /\ pc = "entered" /\ process = "none" /\ outCopy = "off"
        /\ written = 0 /\ shown = 0 /\ status = NoStatus
    BY DEF Init
  <2>2. QED
    BY <1>2, <2>1 DEF Phases, Pipe, Knows, StatusIsFinal
<1>5. QED
  BY <1>3, <1>4 DEF IInv

(* The handler's own steps. *)
LEMMA HandlerKeeps == ASSUME IInv, Handler PROVE IInv'
<1> USE SessionAssumption DEF NoStatus, Unknown, Refused, Killed, handlerVars,
        processVars, requestVars, streamVars, channelVars
<1>1. CASE SetUp
  BY <1>1 DEF SetUp, IInv, TypeOK, Phases, Pipe, Knows, StatusIsFinal
<1>2. CASE StartCommand
  BY <1>2 DEF StartCommand, Copied, IInv, TypeOK, Phases, Pipe, Knows, StatusIsFinal
<1>3. CASE StartFails
  BY <1>3 DEF StartFails, SessExit, IInv, TypeOK, Phases, Pipe, Knows,
              StatusIsFinal
<1>4. CASE WaitReturns
  BY <1>4 DEF WaitReturns, WaitOver, ExitCodeOf, IInv, TypeOK, Phases, Pipe,
              Knows, StatusIsFinal
<1>5. CASE Finish
  BY <1>5 DEF Finish, SessExit, IInv, TypeOK, Phases, Pipe, Knows,
              StatusIsFinal
<1>6. QED
  BY <1>1, <1>2, <1>3, <1>4, <1>5 DEF Handler

(* The process, its output and the copiers. *)
LEMMA StreamsKeep == ASSUME IInv, Command \/ Copiers PROVE IInv'
<1> USE SessionAssumption DEF NoStatus, Unknown, Refused, Killed, handlerVars,
        processVars, requestVars, streamVars, channelVars
<1>1. CASE ProcessExits
  BY <1>1 DEF ProcessExits, IInv, TypeOK, Phases, Pipe, Knows, StatusIsFinal
<1>2. CASE LeaveOrphan
  BY <1>2 DEF LeaveOrphan, IInv, TypeOK, Phases, Pipe, Knows, StatusIsFinal
<1>3. CASE OrphanExits
  <2>1. orphan' \in BOOLEAN /\ ~orphan'
    BY <1>3, Zenon DEF OrphanExits
  <2>2. UNCHANGED <<handlerVars, process, code, published, requestVars,
                    streamVars, channelVars>>
    BY <1>3 DEF OrphanExits
  <2>3. QED
    BY <2>1, <2>2 DEF IInv, TypeOK, Phases, Pipe, Knows, StatusIsFinal
<1>4. CASE Write
  BY <1>4 DEF Write, IInv, TypeOK, Phases, Pipe, Knows, StatusIsFinal
<1>5. CASE CopyOut
  BY <1>5 DEF CopyOut, IInv, TypeOK, Phases, Pipe, Knows, StatusIsFinal
<1>6. CASE CopyOutEnds
  BY <1>6 DEF CopyOutEnds, IInv, TypeOK, Phases, Pipe, Knows, StatusIsFinal
<1>7. CASE CopyInEnds
  BY <1>7 DEF CopyInEnds, IInv, TypeOK, Phases, Pipe, Knows, StatusIsFinal
<1>8. QED
  BY <1>1, <1>2, <1>3, <1>4, <1>5, <1>6, <1>7 DEF Command, Copiers

(* The client. *)
LEMMA ClientKeeps == ASSUME IInv, Client PROVE IInv'
<1> USE SessionAssumption DEF NoStatus, Unknown, Refused, Killed, handlerVars,
        processVars, requestVars, streamVars, channelVars
<1>1. ASSUME NEW r \in Requests, SendRequest(r) PROVE IInv'
  BY <1>1 DEF SendRequest, IInv, TypeOK, Phases, Pipe, Knows, StatusIsFinal
<1>2. CASE SendEOF
  BY <1>2 DEF SendEOF, IInv, TypeOK, Phases, Pipe, Knows, StatusIsFinal
<1>3. CASE TypeAfterExit
  BY <1>3 DEF TypeAfterExit, IInv, TypeOK, Phases, Pipe, Knows, StatusIsFinal
<1>4. CASE Disconnect
  BY <1>4 DEF Disconnect, IInv, TypeOK, Phases, Pipe, Knows, StatusIsFinal
<1>5. QED
  BY <1>1, <1>2, <1>3, <1>4 DEF Client

(* The request loop, the forwarder and the drainer. *)
LEMMA RequestsKeep ==
  ASSUME IInv,
         RequestLoop \/ FlushEarly \/ Forwarder \/ DrainWindow \/ Publish
  PROVE  IInv'
<1> USE SessionAssumption DEF NoStatus, Unknown, Refused, Killed, handlerVars,
        processVars, requestVars, streamVars, channelVars
<1>1. CASE LoopSignal
  <2>1. Head(inflight) \in Signals /\ Tail(inflight) \in Seq(Requests)
    BY <1>1 DEF LoopSignal, IInv, TypeOK
  <2>2. /\ inflight' \in Seq(Requests) /\ early' \in Seq(Signals)
        /\ sigCh' \in Seq(Signals) /\ Len(sigCh') <= SigCap
    <3>0. inflight' = Tail(inflight)
      BY <1>1 DEF LoopSignal
    <3>1. CASE early' = Append(early, Head(inflight)) /\ sigCh' = sigCh
      BY <3>0, <3>1, <2>1 DEF IInv, TypeOK
    <3>2. CASE /\ Len(sigCh) < SigCap /\ early' = early
               /\ sigCh' = Append(sigCh, Head(inflight))
      <4>1. Len(sigCh') = Len(sigCh) + 1 /\ sigCh' \in Seq(Signals)
        BY <3>2, <2>1 DEF IInv, TypeOK
      <4>2. QED
        BY <3>0, <3>2, <4>1, <2>1 DEF IInv, TypeOK
    <3>3. QED
      BY <1>1, <3>1, <3>2 DEF LoopSignal, HasRoom
  <2>3. UNCHANGED <<handlerVars, processVars, published, winCh, lost, sent,
                    streamVars, channelVars>>
    BY <1>1 DEF LoopSignal
  <2>4. QED
    BY <2>2, <2>3 DEF IInv, TypeOK, Phases, Pipe, Knows, StatusIsFinal
<1>2. CASE LoopWindowChange
  BY <1>2 DEF LoopWindowChange, IInv, TypeOK, Phases, Pipe, Knows,
              StatusIsFinal
<1>3. CASE FlushEarly
  BY <1>3 DEF FlushEarly, HasRoom, IInv, TypeOK, Phases, Pipe, Knows, StatusIsFinal
<1>4. CASE DropSignal
  BY <1>4 DEF DropSignal, IInv, TypeOK, Phases, Pipe, Knows, StatusIsFinal
<1>5. CASE ForwardSignal
  BY <1>5 DEF ForwardSignal, Deliver, IInv, TypeOK, Phases, Pipe, Knows,
              StatusIsFinal
<1>6. CASE DrainWindow
  <2>1. winCh' \in BOOLEAN
    BY <1>6, Zenon DEF DrainWindow
  <2>2. UNCHANGED <<handlerVars, processVars, published, inflight, early,
                    sigCh, lost, sent, streamVars, channelVars>>
    BY <1>6 DEF DrainWindow
  <2>3. QED
    BY <2>1, <2>2 DEF IInv, TypeOK, Phases, Pipe, Knows, StatusIsFinal
<1>7. CASE Publish
  BY <1>7 DEF Publish, IInv, TypeOK, Phases, Pipe, Knows, StatusIsFinal
<1>8. QED
  BY <1>1, <1>2, <1>3, <1>4, <1>5, <1>6, <1>7 DEF RequestLoop, Forwarder

LEMMA StepKeeps == IInv /\ [Next]_vars => IInv'
<1> SUFFICES ASSUME IInv, [Next]_vars PROVE IInv'
  OBVIOUS
<1>1. CASE Ended \/ UNCHANGED vars
  BY <1>1 DEF Ended, vars, IInv, TypeOK, Phases, Pipe, Knows, StatusIsFinal,
              handlerVars, processVars, requestVars, streamVars, channelVars
<1>2. QED
  BY <1>1, HandlerKeeps, StreamsKeep, ClientKeeps, RequestsKeep DEF Next

LEMMA Inductive == Spec => []IInv
  BY InitEstablishes, StepKeeps, PTL DEF Spec

(* The variables keep their types; in particular sigCh keeps its capacity. *)
THEOREM TypeCorrect == Spec => []TypeOK
<1>1. IInv => TypeOK
  BY DEF IInv
<1>2. QED
  BY <1>1, Inductive, PTL

(* An exit status is the command's own and comes after its output. *)
THEOREM StatusFinality == Spec => []StatusIsFinal
<1>1. IInv => StatusIsFinal
  BY DEF IInv
<1>2. QED
  BY <1>1, Inductive, PTL
-----------------------------------------------------------------------------
(***************************************************************************)
(* The refinement: the handler's Start, Wait and Exit, and whatever ends   *)
(* the process, are the abstract Run, End, Refuse, Report and Abandon.     *)
(***************************************************************************)

(* The handler's steps under the mapping. *)
LEMMA HandlerRefines ==
  ASSUME IInv, Handler PROVE [Promise!Next]_Promise!vars
<1> USE DEF NoStatus, Unknown, Refused, Killed, handlerVars, processVars,
        requestVars, streamVars, channelVars, Promise!vars
<1>1. CASE SetUp
  BY <1>1 DEF SetUp
<1>2. CASE StartCommand
  <2>1. Promise!Run
    BY <1>2 DEF StartCommand, Copied, IInv, Phases, Promise!Run
  <2>2. QED
    BY <2>1 DEF Promise!Next
<1>3. CASE StartFails
  <2>1. Promise!Refuse
    BY <1>3 DEF StartFails, SessExit, IInv, TypeOK, Phases, Knows,
                Promise!Refuse
  <2>2. QED
    BY <2>1 DEF Promise!Next
<1>4. CASE WaitReturns
  BY <1>4 DEF WaitReturns
<1>5. CASE Finish
  <2>1. CASE channel = "open"
    <3>1. shown = written
      BY <1>5, <2>1 DEF Finish, IInv, TypeOK, Phases, Pipe, Knows
    <3>2. Promise!Report
      BY <1>5, <2>1, <3>1 DEF Finish, SessExit, IInv, Phases, Knows,
                              Promise!Report
    <3>3. QED
      BY <3>2 DEF Promise!Next
  <2>2. CASE channel # "open"
    <3>1. Promise!Abandon
      BY <1>5, <2>2 DEF Finish, SessExit, IInv, TypeOK, Phases,
                        Promise!Abandon
    <3>2. QED
      BY <3>1 DEF Promise!Next
  <2>3. QED
    BY <2>1, <2>2
<1>6. QED
  BY <1>1, <1>2, <1>3, <1>4, <1>5 DEF Handler

(* The command, its output and the copiers under the mapping. *)
LEMMA StreamsRefine ==
  ASSUME IInv, Command \/ Copiers PROVE [Promise!Next]_Promise!vars
<1> USE DEF NoStatus, Unknown, Refused, Killed, handlerVars, processVars,
        requestVars, streamVars, channelVars, Promise!vars
<1>1. CASE ProcessExits
  <2>1. Promise!End
    BY <1>1 DEF ProcessExits, IInv, TypeOK, Phases, Promise!End
  <2>2. QED
    BY <2>1 DEF Promise!Next
<1>2. CASE LeaveOrphan \/ OrphanExits
  BY <1>2 DEF LeaveOrphan, OrphanExits
<1>3. CASE Write
  <2>1. Promise!Produce
    BY <1>3 DEF Write, IInv, TypeOK, Phases, Promise!Produce
  <2>2. QED
    BY <2>1 DEF Promise!Next
<1>4. CASE CopyOut
  <2>1. Promise!Show
    BY <1>4 DEF CopyOut, IInv, TypeOK, Phases, Promise!Show
  <2>2. QED
    BY <2>1 DEF Promise!Next
<1>5. CASE CopyOutEnds \/ CopyInEnds
  BY <1>5 DEF CopyOutEnds, CopyInEnds
<1>6. QED
  BY <1>1, <1>2, <1>3, <1>4, <1>5 DEF Command, Copiers

(* Everything else: only a disconnect and a delivered signal are visible. *)
LEMMA OthersRefine ==
  ASSUME IInv,
         Client \/ RequestLoop \/ FlushEarly \/ Forwarder \/ DrainWindow
           \/ Publish
  PROVE  [Promise!Next]_Promise!vars
<1> USE DEF NoStatus, Unknown, Refused, Killed, handlerVars, processVars,
        requestVars, streamVars, channelVars, Promise!vars
<1>1. CASE Client
  <2>1. ASSUME NEW r \in Requests, SendRequest(r)
        PROVE  UNCHANGED Promise!vars
    BY <2>1 DEF SendRequest
  <2>2. CASE SendEOF \/ TypeAfterExit
    BY <2>2 DEF SendEOF, TypeAfterExit
  <2>3. CASE Disconnect
    <3>1. Promise!Leave
      BY <2>3 DEF Disconnect, Promise!Leave
    <3>2. QED
      BY <3>1 DEF Promise!Next
  <2>4. QED
    BY <1>1, <2>1, <2>2, <2>3 DEF Client
<1>2. CASE RequestLoop \/ FlushEarly \/ DropSignal \/ DrainWindow \/ Publish
  BY <1>2 DEF RequestLoop, LoopSignal, LoopWindowChange, FlushEarly,
              DropSignal, DrainWindow, Publish
<1>3. CASE ForwardSignal
  <2>1. CASE UNCHANGED <<process, code>>
    BY <1>3, <2>1 DEF ForwardSignal
  <2>2. CASE process = "running" /\ process' = "exited" /\ code' = Killed
    <3>1. Promise!End
      BY <1>3, <2>2 DEF ForwardSignal, IInv, TypeOK, Phases, Promise!End
    <3>2. QED
      BY <3>1 DEF Promise!Next
  <2>3. QED
    BY <1>3, <2>1, <2>2 DEF ForwardSignal, Deliver
<1>4. QED
  BY <1>1, <1>2, <1>3 DEF Forwarder

(* Every step of the session is an abstract step or a stutter. *)
LEMMA StepRefines ==
  IInv /\ [Next]_vars => [Promise!Next]_Promise!vars
<1> SUFFICES ASSUME IInv, [Next]_vars PROVE [Promise!Next]_Promise!vars
  OBVIOUS
<1>1. CASE Ended \/ UNCHANGED vars
  BY <1>1 DEF Ended, vars, handlerVars, processVars, requestVars, streamVars,
              channelVars, Promise!vars
<1>2. QED
  BY <1>1, HandlerRefines, StreamsRefine, OthersRefine DEF Next

(* Session implements RemoteCommand: one status at most, never before the  *)
(* output it closes, and none for a client that has gone.                  *)
THEOREM Implements == Spec => KeepsPromise
<1>1. Init => Promise!Init
  BY DEF Init, Promise!Init, NoStatus
<1>2. QED
  BY <1>1, StepRefines, Inductive, PTL DEF Spec, KeepsPromise, Promise!Spec
=============================================================================
