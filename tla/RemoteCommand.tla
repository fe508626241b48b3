--------------------------- MODULE RemoteCommand ---------------------------
(***************************************************************************)
(* What one session channel promises its client: a command is refused or   *)
(* runs, its output arrives, and an exit status closes the channel.  The   *)
(* status is the command's own outcome and arrives after all the output,   *)
(* unless the client has gone away, in which case no status is sent.       *)
(* Session.tla, the model of handleSession, is shown to implement this.    *)
(***************************************************************************)
EXTENDS Integers

CONSTANTS Outcomes,    \* what a finished command may report
          Refused,     \* the status of a command that could not be started
          Unknown,     \* the status when the outcome could not be learnt
          NoStatus     \* no exit status was sent

VARIABLES phase,       \* "requested", "running", "ended" or "closed"
          connected,   \* is the client still there
          written,     \* chunks of output the command has written
          shown,       \* chunks the client has received
          outcome,     \* how the command ended
          status       \* the exit status the client received

vars == <<phase, connected, written, shown, outcome, status>>

Init ==
  /\ phase = "requested"
  /\ connected = TRUE
  /\ written = 0
  /\ shown = 0
  /\ outcome = NoStatus
  /\ status = NoStatus

Refuse ==
  /\ phase = "requested"
  /\ phase' = "closed"
  /\ connected' = FALSE
  /\ status' = IF connected THEN Refused ELSE NoStatus
  /\ UNCHANGED <<written, shown, outcome>>

Run ==
  /\ phase = "requested"
  /\ phase' = "running"
  /\ UNCHANGED <<connected, written, shown, outcome, status>>

\* A process the command left behind may still write after the command ended.
Produce ==
  /\ phase \in {"running", "ended"}
  /\ written' = written + 1
  /\ UNCHANGED <<phase, connected, shown, outcome, status>>

Show ==
  /\ phase \in {"running", "ended"}
  /\ connected
  /\ shown < written
  /\ shown' = shown + 1
  /\ UNCHANGED <<phase, connected, written, outcome, status>>

End ==
  /\ phase = "running"
  /\ phase' = "ended"
  /\ outcome' \in Outcomes
  /\ UNCHANGED <<connected, written, shown, status>>

Leave ==
  /\ connected
  /\ connected' = FALSE
  /\ UNCHANGED <<phase, written, shown, outcome, status>>

Report ==
  /\ phase = "ended"
  /\ connected
  /\ shown = written
  /\ phase' = "closed"
  /\ connected' = FALSE
  /\ status' \in {outcome, Unknown}
  /\ UNCHANGED <<written, shown, outcome>>

Abandon ==
  /\ phase = "ended"
  /\ ~connected
  /\ phase' = "closed"
  /\ UNCHANGED <<connected, written, shown, outcome, status>>

Next ==
  \/ Refuse \/ Run \/ Produce \/ Show \/ End \/ Leave
  \/ Report \/ Abandon

Spec == Init /\ [][Next]_vars
=============================================================================
