---------------------------- MODULE HostKeyProof ----------------------------
(***************************************************************************)
(* What holds of the host key file for every set of instances and keys.    *)
(* The types, and that a settled file stays, hold without condition; that  *)
(* a lone instance keeps its fingerprint is proved of machines that do not *)
(* lose power: it is false otherwise.                                      *)
(***************************************************************************)
EXTENDS HostKey, TLAPS

LEMMA TypeInit == Init => TypeOK
<1> SUFFICES ASSUME Init PROVE TypeOK
  OBVIOUS
<1>1. raced \in BOOLEAN
  BY Zenon DEF Init
<1>2. QED
  BY <1>1, HostKeyAssumption DEF Init, TypeOK

LEMMA TypeStep == TypeOK /\ [Next]_vars => TypeOK'
<1> SUFFICES ASSUME TypeOK, [Next]_vars PROVE TypeOK'
  OBVIOUS
<1> USE HostKeyAssumption DEF Goto, TypeOK
<1>1. ASSUME NEW i \in Instances, Progress(i) PROVE TypeOK'
  <2>1. CASE Load(i)
    BY <2>1 DEF Load, Parses
  <2>2. CASE FindNone(i) \/ LoadFails(i) \/ StartFails(i) \/ Serve(i)
    BY <2>2 DEF FindNone, LoadFails, StartFails, Serve
  <2>3. CASE Generate(i)
    BY <2>3 DEF Generate
  <2>4. CASE Truncate(i)
    BY <2>4 DEF Truncate
  <2>5. CASE Write(i)
    BY <2>5 DEF Write
  <2>6. QED
    BY <1>1, <2>1, <2>2, <2>3, <2>4, <2>5 DEF Progress
<1>2. ASSUME NEW i \in Instances, Meet(i) \/ Restart(i) \/ Crash(i)
      PROVE  TypeOK'
  BY <1>2 DEF Meet, Restart, Crash
<1>3. CASE WriteBack \/ PowerLoss
  BY <1>3 DEF WriteBack, PowerLoss
<1>4. CASE UNCHANGED vars
  BY <1>4 DEF vars
<1>5. QED
  BY <1>1, <1>2, <1>3, <1>4 DEF Next

(* The variables keep their types, and no process gets to serve without a  *)
(* parsed or generated signer.                                             *)
THEOREM TypeCorrect == Spec => []TypeOK
  BY TypeInit, TypeStep, PTL DEF Spec
-----------------------------------------------------------------------------
\* The steps that a settled file is to outlive.
Outlived == losses' = losses \/ disk = file

LEMMA SettledStep ==
  ASSUME TypeOK, [Next]_vars, Settled, Outlived
  PROVE  Settled' /\ file' = file
<1> USE HostKeyAssumption DEF Goto, TypeOK, Settled, Generating
<1>1. ASSUME NEW i \in Instances, Progress(i)
      PROVE  Settled' /\ file' = file
  <2>1. ~FindNone(i)
    BY DEF FindNone, Regenerates
  <2>2. ~Generate(i) /\ ~Truncate(i) /\ ~Write(i)
    BY DEF Generate, Truncate, Write
  <2>3. CASE Load(i) \/ LoadFails(i) \/ StartFails(i) \/ Serve(i)
    BY <2>3 DEF Load, LoadFails, StartFails, Serve
  <2>4. QED
    BY <1>1, <2>1, <2>2, <2>3 DEF Progress
<1>2. ASSUME NEW i \in Instances, Meet(i) \/ Restart(i) \/ Crash(i)
      PROVE  Settled' /\ file' = file
  BY <1>2 DEF Meet, Restart, Crash
<1>3. CASE WriteBack
  BY <1>3 DEF WriteBack
<1>4. CASE PowerLoss
  <2>1. disk = file
    BY <1>4 DEF Outlived, PowerLoss
  <2>2. file' = file
    BY <1>4, <2>1 DEF PowerLoss
  <2>3. \A i \in Instances : pc'[i] = "down"
    BY <1>4 DEF PowerLoss
  <2>4. QED
    BY <2>2, <2>3
<1>5. CASE UNCHANGED vars
  BY <1>5 DEF vars
<1>6. QED
  BY <1>1, <1>2, <1>3, <1>4, <1>5 DEF Next

(* A complete key file outlives every failure, crash and restart of any    *)
(* number of processes, once no first run is in progress - and every power *)
(* loss, once it has reached the disk.                                     *)
THEOREM KeyFileOutlives == Spec => StaysSettled
<1>1. TypeOK /\ [Next]_vars
        => [Settled /\ (losses' = losses \/ disk = file)
              => Settled' /\ file' = file]_vars
  BY SettledStep DEF Outlived
<1>2. QED
  BY <1>1, TypeCorrect, PTL DEF Spec, StaysSettled
-----------------------------------------------------------------------------
Undisturbed == ~raced /\ losses = 0

(* One process at most makes its first run, and while it does the file is  *)
(* as it found or left it.                                                 *)
OneFirstRun ==
  \A i \in Instances :
    /\ \A j \in Instances : Generating(i) /\ Generating(j) => i = j
    /\ pc[i] \in {"generating", "generated"} => file = Absent
    /\ pc[i] = "writing" => file = Torn

(* A signer in use is the one in the file, and so is one a client knows.   *)
OneKey ==
  \A i \in Instances :
    /\ pc[i] \in {"ready", "serving"} => key[i] = file
    /\ pinned[i] # Absent => pinned[i] = file

OwnInv == TypeOK /\ (Undisturbed => OneFirstRun /\ OneKey)

LEMMA OwnInit == Init => OwnInv
  BY TypeInit DEF Init, OwnInv, OneFirstRun, OneKey, Generating

(* A key in the file means that nobody makes a first run.                  *)
LEMMA KeySettles ==
  ASSUME OneFirstRun, file \in Keys
  PROVE  \A i \in Instances : ~Generating(i)
  BY HostKeyAssumption DEF OneFirstRun, Generating

LEMMA UndisturbedBefore ==
  ASSUME TypeOK, [Next]_vars, Undisturbed'
  PROVE  Undisturbed /\ ~PowerLoss
<1>1. CASE PowerLoss
  BY <1>1 DEF PowerLoss, Undisturbed, TypeOK
<1>2. CASE ~PowerLoss
  <2>1. raced => raced'
    BY <1>2 DEF Next, vars, Progress, Load, FindNone, LoadFails, Generate,
                Truncate, Write, StartFails, Serve, Meet, Restart, Crash,
                WriteBack
  <2>2. losses' = losses
    BY <1>2 DEF Next, vars, Progress, Load, FindNone, LoadFails, Generate,
                Truncate, Write, StartFails, Serve, Meet, Restart, Crash,
                WriteBack
  <2>3. QED
    BY <1>2, <2>1, <2>2 DEF Undisturbed
<1>3. QED
  BY <1>1, <1>2

LEMMA FirstRunStep ==
  ASSUME TypeOK, OneFirstRun, ~PowerLoss, [Next]_vars, ~raced'
  PROVE  OneFirstRun'
<1> USE HostKeyAssumption DEF Goto, TypeOK, OneFirstRun, Generating
<1>1. ASSUME NEW i \in Instances, Progress(i)
      PROVE  OneFirstRun'
  <2>1. CASE FindNone(i)
    BY <2>1 DEF FindNone, Regenerates
  <2>2. CASE Generate(i)
    BY <2>2 DEF Generate
  <2>3. CASE Truncate(i)
    BY <2>3 DEF Truncate
  <2>4. CASE Write(i)
    BY <2>4 DEF Write
  <2>5. CASE Load(i) \/ LoadFails(i) \/ StartFails(i) \/ Serve(i)
    BY <2>5 DEF Load, LoadFails, StartFails, Serve
  <2>6. QED
    BY <1>1, <2>1, <2>2, <2>3, <2>4, <2>5 DEF Progress
<1>2. ASSUME NEW i \in Instances, Meet(i) \/ Restart(i) \/ Crash(i)
      PROVE  OneFirstRun'
  BY <1>2 DEF Meet, Restart, Crash
<1>3. CASE WriteBack \/ UNCHANGED vars
  BY <1>3 DEF WriteBack, vars
<1>4. QED
  BY <1>1, <1>2, <1>3 DEF Next

LEMMA OneKeyStep ==
  ASSUME TypeOK, OneFirstRun, OneKey, ~PowerLoss, [Next]_vars
  PROVE  OneKey'
<1> USE HostKeyAssumption DEF Goto, TypeOK, OneKey
<1>1. ASSUME NEW i \in Instances, Progress(i)
      PROVE  OneKey'
  <2>1. CASE Load(i)
    BY <2>1 DEF Load
  <2>2. CASE FindNone(i) \/ LoadFails(i) \/ StartFails(i) \/ Serve(i)
    BY <2>2 DEF FindNone, LoadFails, StartFails, Serve
  <2>3. CASE Generate(i)
    BY <2>3 DEF Generate
  <2>4. ASSUME Truncate(i) \/ Write(i)
        PROVE  /\ file \notin Keys
               /\ \A j \in Instances :
                    pinned[j] = Absent /\ pc[j] \notin {"ready", "serving"}
    <3>1. Generating(i)
      BY <2>4 DEF Truncate, Write, Generating
    <3>2. file \notin Keys
      BY <3>1, KeySettles
    <3>3. QED
      BY <3>2
  <2>5. CASE Truncate(i)
    BY <2>4, <2>5 DEF Truncate
  <2>6. CASE Write(i)
    BY <2>4, <2>6 DEF Write
  <2>7. QED
    BY <1>1, <2>1, <2>2, <2>3, <2>5, <2>6 DEF Progress
<1>2. ASSUME NEW i \in Instances, Meet(i) \/ Restart(i) \/ Crash(i)
      PROVE  OneKey'
  BY <1>2 DEF Meet, Restart, Crash
<1>3. CASE WriteBack \/ UNCHANGED vars
  BY <1>3 DEF WriteBack, vars
<1>4. QED
  BY <1>1, <1>2, <1>3 DEF Next

(* Persistence keeps the fingerprint stable, for any number of instances   *)
(* that share the path, unless two make their first run at the same time   *)
(* or the machine loses power.                                             *)
THEOREM FingerprintStability == Spec => []FingerprintIsStable
<1>1. OwnInv => FingerprintIsStable
  BY DEF OwnInv, OneKey, FingerprintIsStable, Undisturbed
<1>2. ASSUME OwnInv, [Next]_vars PROVE OwnInv'
  <2>1. TypeOK'
    BY <1>2, TypeStep DEF OwnInv
  <2>2. ASSUME Undisturbed' PROVE (OneFirstRun /\ OneKey)'
    <3>1. Undisturbed /\ ~PowerLoss
      BY <1>2, <2>2, UndisturbedBefore DEF OwnInv
    <3>2. QED
      BY <1>2, <2>2, <3>1, FirstRunStep, OneKeyStep DEF OwnInv, Undisturbed
  <2>3. QED
    BY <2>1, <2>2 DEF OwnInv
<1>3. QED
  BY <1>1, <1>2, OwnInit, PTL DEF Spec
=============================================================================
