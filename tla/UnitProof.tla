----------------------------- MODULE UnitProof -----------------------------
(***************************************************************************)
(* The restart timer and the start limit of the unit template agree, for   *)
(* every grain of time: a timer restart is never refused.                  *)
(***************************************************************************)
EXTENDS Unit, TLAPS

(* A process that has lasted has seen the clock move since the interval of *)
(* the limit began, and only a process that has lasted ends; so the delay  *)
(* of a waiting unit reaches beyond that interval.                         *)
Margin ==
  /\ lasted => age >= 1
  /\ phase = "ended" /\ unit = "active" => lasted
  /\ unit = "waiting" => Expired \/ age + wait > StartLimitInterval

IInv == TypeOK /\ Margin

LEMMA Constants == RestartSec \in Nat /\ StartLimitInterval = RestartSec
                     /\ RestartSec >= 5 /\ StartLimitBurst = 10
  BY UnitAssumption DEF RestartSec, StartLimitInterval, StartLimitBurst

LEMMA InitEstablishes == Init => IInv
<1> SUFFICES ASSUME Init PROVE IInv
  OBVIOUS
<1>1. attended \in BOOLEAN /\ lasted \in BOOLEAN /\ ~lasted
  BY Zenon DEF Init
<1>2. /\ unit = "active" /\ phase = "starting" /\ exit = "none"
      /\ wait = 0 /\ age = 0 /\ starts = 1
  BY DEF Init
<1>3. QED
  BY <1>1, <1>2, Constants DEF IInv, TypeOK, Margin

LEMMA AdmitKeeps == ASSUME IInv, Admit PROVE IInv'
<1>1. lasted' \in BOOLEAN /\ ~lasted'
  BY Zenon DEF Admit
<1>2. /\ attended' = attended
      /\ unit' = "active" /\ phase' = "starting" /\ exit' = "none" /\ wait' = 0
      /\ age' \in 0..StartLimitInterval + 1 /\ starts' \in 1..StartLimitBurst
  BY Constants DEF Admit, Expired, BelowLimit, IInv, TypeOK
<1>3. QED
  BY <1>1, <1>2, Constants DEF IInv, TypeOK, Margin

LEMMA RefuseKeeps == ASSUME IInv, Refuse PROVE IInv'
  BY Constants DEF Refuse, IInv, TypeOK, Margin

LEMMA StepKeeps == IInv /\ [Next]_vars => IInv'
<1> SUFFICES ASSUME IInv, [Next]_vars PROVE IInv'
  OBVIOUS
<1>1. CASE TimerFires \/ OperatorStarts
  BY <1>1, AdmitKeeps, RefuseKeeps DEF TimerFires, OperatorStarts
<1>2. CASE OperatorStops
  BY <1>2, Constants
  DEF OperatorStops, IInv, TypeOK, Margin, Process!BeAsked, Process!BeKilled
<1>3. CASE ProcessRuns
  BY <1>3, Constants
  DEF ProcessRuns, IInv, TypeOK, Margin, Expired, Process!BecomeReady,
      Process!FailToStart, Process!Finish
<1>4. CASE Crash
  BY <1>4, Constants DEF Crash, IInv, TypeOK, Margin, Expired
<1>5. CASE Reap
  <2>1. CASE unit' = "waiting" /\ wait' = RestartSec /\ unit = "active"
    <3>1. age >= 1
      BY <1>5, <2>1 DEF Reap, IInv, Margin
    <3>2. age' + wait' > StartLimitInterval
      BY <1>5, <2>1, <3>1, Constants DEF Reap, IInv, TypeOK
    <3>3. QED
      BY <1>5, <2>1, <3>2, Constants DEF Reap, IInv, TypeOK, Margin
  <2>2. CASE unit' = "inactive" /\ wait' = wait
    BY <1>5, <2>2, Constants DEF Reap, IInv, TypeOK, Margin
  <2>3. QED
    BY <1>5, <2>1, <2>2 DEF Reap
<1>6. CASE Tick
  <2>1. lasted' \in BOOLEAN
    BY <1>6, Zenon DEF Tick
  <2>2. /\ UNCHANGED <<attended, unit, phase, exit, starts>>
        /\ age' = IF Expired THEN age ELSE age + 1
        /\ wait' = IF wait > 0 THEN wait - 1 ELSE 0
    BY <1>6 DEF Tick
  <2>3. age' >= 1 /\ age' \in 0..StartLimitInterval + 1
                  /\ wait' \in 0..RestartSec
    BY <2>2, Constants DEF Expired, IInv, TypeOK
  <2>4. unit = "waiting" => Expired' \/ age' + wait' > StartLimitInterval
    BY <2>2, Constants DEF Expired, IInv, TypeOK, Margin
  <2>5. phase = "ended" /\ unit = "active" => lasted'
    BY <1>6 DEF Tick
  <2>6. QED
    BY <2>1, <2>2, <2>3, <2>4, <2>5, Constants DEF IInv, TypeOK, Margin
<1>7. CASE UNCHANGED vars
  BY <1>7, Constants DEF vars, IInv, TypeOK, Margin, Expired
<1>8. QED
  BY <1>1, <1>2, <1>3, <1>4, <1>5, <1>6, <1>7 DEF Next

LEMMA Inductive == Spec => []IInv
  BY InitEstablishes, StepKeeps, PTL DEF Spec

(* The types and bounds of the unit's variables.                           *)
THEOREM TypeCorrect == Spec => []TypeOK
<1>1. IInv => TypeOK
  BY DEF IInv
<1>2. QED
  BY <1>1, Inductive, PTL

(* RestartSec=5 outlasts StartLimitInterval=5: however the daemon fails    *)
(* and the operator acts, the timer's restart is admitted.                 *)
THEOREM TimerRestarts == Spec => TimerIsNeverRefused
<1>1. IInv /\ [Next]_vars => [TimerFires => unit' = "active"]_vars
  <2>1. ASSUME IInv, TimerFires PROVE unit' = "active"
    <3>1. Expired
      BY <2>1, Constants DEF TimerFires, IInv, TypeOK, Margin, Expired
    <3>2. QED
      BY <2>1, <3>1 DEF TimerFires, Admit, Refuse
  <2>2. QED
    BY <2>1
<1>2. QED
  BY <1>1, Inductive, PTL DEF Spec, TimerIsNeverRefused
=============================================================================
