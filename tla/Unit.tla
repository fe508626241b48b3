-------------------------------- MODULE Unit --------------------------------
(***************************************************************************)
(* The daemon as a systemd unit, by the template and options of            *)
(* internal/service (platform_linux.go, kserviceConfig): Restart=on-failure*)
(* after RestartSec, and a limit on starts per interval.  The process is   *)
(* one that Lifecycle.tla describes, or crashes.  Time advances in ticks;  *)
(* a process lasts at least one.                                           *)
(***************************************************************************)
EXTENDS Integers

CONSTANT TicksPerSecond   \* the grain of time: starts possible in a second

ASSUME UnitAssumption == TicksPerSecond \in Nat \ {0}

VARIABLES
  attended,  \* does an operator use `service start` and `stop`
  unit,      \* "inactive", "active", "stopping", "waiting" or "failed"
  phase,     \* the process, see Lifecycle
  exit,      \* how it ended
  lasted,    \* has a tick passed since it was started
  wait,      \* ticks until the restart timer of a waiting unit fires
  age,       \* ticks since the limit's interval began, up to one too many
  starts     \* starts counted in that interval

vars == <<attended, unit, phase, exit, lasted, wait, age, starts>>

Process == INSTANCE Lifecycle

\* Slip: the delay is left out, and a failed unit restarts at once.
RestartSec_None == 0

\* Slip: the two minutes of the service library's own template.
RestartSec_Library == 120 * TicksPerSecond

RestartSec == 5 * TicksPerSecond
StartLimitInterval == 5 * TicksPerSecond
StartLimitBurst == 10

\* The unit is enabled and the machine boots.
Init ==
  /\ attended \in BOOLEAN
  /\ unit = "active"
  /\ phase = "starting"
  /\ exit = "none"
  /\ lasted = FALSE
  /\ wait = 0
  /\ age = 0
  /\ starts = 1
-----------------------------------------------------------------------------
(* Starting.  An interval older than StartLimitInterval begins anew with   *)
(* this start; within one, at most StartLimitBurst starts are let through. *)

Expired == age > StartLimitInterval

BelowLimit == starts < StartLimitBurst

Admit ==
  /\ Expired \/ BelowLimit
  /\ age' = IF Expired THEN 0 ELSE age
  /\ starts' = IF Expired THEN 1 ELSE starts + 1
  /\ unit' = "active"
  /\ phase' = "starting"
  /\ exit' = "none"
  /\ lasted' = FALSE
  /\ wait' = 0
  /\ UNCHANGED attended

Refuse ==
  /\ ~Expired /\ ~BelowLimit
  /\ unit' = "failed"
  /\ wait' = 0
  /\ UNCHANGED <<attended, phase, exit, lasted, age, starts>>

TimerFires ==
  /\ unit = "waiting"
  /\ wait = 0
  /\ Admit \/ Refuse

OperatorStarts ==
  /\ attended
  /\ unit \in {"inactive", "failed", "waiting"}
  /\ Admit \/ Refuse

\* SIGTERM, or the end of a pending restart.
OperatorStops ==
  /\ attended
  /\ \/ /\ unit = "active"
        /\ lasted
        /\ Process!BeAsked \/ Process!BeKilled
        /\ unit' = "stopping"
        /\ UNCHANGED wait
     \/ /\ unit = "waiting"
        /\ unit' = "inactive"
        /\ wait' = 0
        /\ UNCHANGED <<phase, exit>>
  /\ UNCHANGED <<attended, lasted, age, starts>>
-----------------------------------------------------------------------------
(* The process. *)

ProcessRuns ==
  /\ unit \in {"active", "stopping"}
  /\ \/ Process!BecomeReady
     \/ lasted /\ (Process!FailToStart \/ Process!Finish)
  /\ UNCHANGED <<attended, unit, lasted, wait, age, starts>>

\* A panic of any goroutine, SIGKILL, out of memory.
Crash ==
  /\ phase # "ended"
  /\ lasted
  /\ phase' = "ended"
  /\ exit' = "crash"
  /\ UNCHANGED <<attended, unit, lasted, wait, age, starts>>

\* Slip: Restart left at the manager's default.
RestartsOn_No(how) == FALSE

\* Restart=on-failure: an exit code other than 0, or a crash.
RestartsOn(how) == how \in {"error", "crash"}

Reap ==
  /\ unit \in {"active", "stopping"}
  /\ phase = "ended"
  /\ IF unit = "active" /\ RestartsOn(exit)
     THEN unit' = "waiting" /\ wait' = RestartSec
     ELSE unit' = "inactive" /\ UNCHANGED wait
  /\ UNCHANGED <<attended, phase, exit, lasted, age, starts>>

Tick ==
  /\ age' = IF Expired THEN age ELSE age + 1
  /\ wait' = IF wait > 0 THEN wait - 1 ELSE 0
  /\ lasted' = TRUE
  /\ UNCHANGED <<attended, unit, phase, exit, starts>>

Next == \/ TimerFires \/ OperatorStarts \/ OperatorStops \/ ProcessRuns
        \/ Crash \/ Reap \/ Tick

Spec == Init /\ [][Next]_vars

\* Time passes and the manager acts; nothing is assumed of the process.
Fairness == WF_vars(Tick) /\ WF_vars(TimerFires) /\ WF_vars(Reap)

FairSpec == Spec /\ Fairness
-----------------------------------------------------------------------------
(* Properties. *)

\* The types and the bounds of the timers: a unit waits no longer than an
\* interval, and has a timer only while it waits.
TypeOK ==
  /\ attended \in BOOLEAN
  /\ unit \in {"inactive", "active", "stopping", "waiting", "failed"}
  /\ phase \in {"starting", "ready", "stopping", "ended"}
  /\ exit \in {"none", "ok", "error", "killed", "crash"}
  /\ lasted \in BOOLEAN
  /\ wait \in 0..StartLimitInterval
  /\ age \in 0..StartLimitInterval + 1
  /\ starts \in 1..StartLimitBurst
  /\ unit # "waiting" => wait = 0

\* However often the process fails, and whatever the operator starts in
\* between, a restart by the timer is never refused by the start limit:
\* RestartSec is just long enough for the interval to have expired.
TimerIsNeverRefused == [][TimerFires => unit' = "active"]_vars

\* Left alone, a daemon that has failed is started again ("starts at boot
\* and restarts after a crash", README.md).
RestartsAfterFailure ==
  ~attended /\ phase = "ended" ~> phase = "starting"
=============================================================================
