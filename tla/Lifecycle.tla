----------------------------- MODULE Lifecycle -----------------------------
(***************************************************************************)
(* One run of the daemon process as its service manager sees it: it starts *)
(* or fails with an error, and once ready it ends, without an error, when  *)
(* it was asked to.  Unit.tla models the manager that acts on the exit;    *)
(* Relay.tla is the process in detail.                                     *)
(***************************************************************************)
VARIABLES phase,   \* "starting", "ready", "stopping" or "ended"
          exit     \* "none", "ok", "error" or "killed"

vars == <<phase, exit>>

Init ==
  /\ phase = "starting"
  /\ exit = "none"

BecomeReady ==
  /\ phase = "starting"
  /\ phase' = "ready"
  /\ UNCHANGED exit

FailToStart ==
  /\ phase = "starting"
  /\ phase' = "ended"
  /\ exit' = "error"

\* A termination signal has no handler until the daemon is ready.
BeKilled ==
  /\ phase = "starting"
  /\ phase' = "ended"
  /\ exit' = "killed"

BeAsked ==
  /\ phase = "ready"
  /\ phase' = "stopping"
  /\ UNCHANGED exit

Finish ==
  /\ phase = "stopping"
  /\ phase' = "ended"
  /\ exit' = "ok"

Next == BecomeReady \/ FailToStart \/ BeKilled \/ BeAsked \/ Finish

Spec == Init /\ [][Next]_vars
=============================================================================
