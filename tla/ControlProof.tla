---------------------------- MODULE ControlProof ----------------------------
(* Type correctness of Control, and that no account is ever given the       *)
(* logon right that the service was not registered to run as, for every     *)
(* number of command lines and of accounts.                                 *)
EXTENDS Control, TLAPS

\* The steps at which a command line holds an account in hand to grant to.
Holding == {"entitling", "checking", "granting", "retrying"}

\* What a command line holds, and what the manager runs the service as, is an
\* account of a registration, and what start read from the definition has a
\* right to be granted; NoStrayGrant alone does not say so.
Registered ==
  /\ installed => account \in served
  /\ \A c \in Clis :
       /\ pc[c] \in Holding => user[c] \in served
       /\ pc[c] \in Holding \ {"entitling"} => user[c] \in Named

Inv == TypeOK /\ Registered /\ NoStrayGrant

USE DEF Accounts, serviceVars, cliVars, ReadsAccount, SeenHeld, GrantRight

\* The initial states satisfy the invariant: rights held before count as served.
LEMMA InitEstablishes == Init => Inv
<1> SUFFICES ASSUME Init PROVE Inv
  OBVIOUS
<1> USE DEF Init
<1>1. installed \in BOOLEAN /\ running \in BOOLEAN /\ recovering \in BOOLEAN
  BY Zenon
<1>2. troubles \in SUBSET {"password", "expiry"}
  BY Zenon
<1>7. calm \in BOOLEAN
  BY Zenon
<1>3. account \in Accounts /\ rights \in SUBSET Named /\ served \in SUBSET Accounts
  <2>1. CASE installed
    BY <2>1
  <2>2. CASE ~installed
    BY <2>2
  <2>3. QED
    BY <2>1, <2>2
<1>4. /\ pc \in [Clis -> {"idle"}]
      /\ user \in [Clis -> {BuiltIn}]
      /\ result \in [Clis -> {"none"}]
  OBVIOUS
<1>5. TypeOK
  BY <1>1, <1>2, <1>3, <1>4, <1>7, ControlAssumption DEF TypeOK
<1>6. Registered /\ NoStrayGrant
  BY <1>4 DEF Registered, NoStrayGrant, Holding
<1>8. QED
  BY <1>5, <1>6 DEF Inv

\* A command line's next label and result are of their types: the choices
\* left to the manager keep the types of what they set.
LEMMA StartTyped ==
  ASSUME NEW how, ScmStart(how), TypeOK
  PROVE  /\ running' \in BOOLEAN /\ recovering' \in BOOLEAN
         /\ UNCHANGED <<installed, account, troubles, served>>
<1>1. running' \in BOOLEAN
  BY Zenon DEF ScmStart, TypeOK
<1>2. recovering' \in BOOLEAN
  BY Zenon DEF ScmStart, TypeOK
<1>3. QED
  BY <1>1, <1>2 DEF ScmStart

\* So do a stop and a removal.
LEMMA StopTyped ==
  ASSUME ScmStop, TypeOK
  PROVE  /\ running' \in BOOLEAN /\ recovering' \in BOOLEAN
         /\ UNCHANGED <<installed, account, troubles, served>>
BY Zenon DEF ScmStop, TypeOK

LEMMA DeleteTyped ==
  ASSUME ScmDelete, TypeOK
  PROVE  /\ installed' \in BOOLEAN /\ running' \in BOOLEAN
         /\ recovering' \in BOOLEAN /\ ~installed'
         /\ UNCHANGED <<account, troubles, served>>
BY Zenon DEF ScmDelete, TypeOK

\* Registering the service sets what it runs as to what its registrar holds.
LEMMA RegisterTyped ==
  ASSUME NEW c \in Clis, Register(c), TypeOK
  PROVE  /\ installed' \in BOOLEAN /\ troubles' \in SUBSET {"password", "expiry"}
         /\ UNCHANGED <<running, recovering, rights, calm, user, commands, events>>
         /\ \/ /\ account' = user[c]
               /\ served' = served \cup {user[c]}
               /\ pc' = [pc EXCEPT ![c] = "entitling"]
               /\ UNCHANGED result
            \/ /\ UNCHANGED <<installed, account, served>>
               /\ pc' = [pc EXCEPT ![c] = "idle"]
               /\ result' = [result EXCEPT ![c] = "failed"]
<1>1. PICK ok \in BOOLEAN :
        /\ IF ok
           THEN /\ installed' = TRUE
                /\ account' = user[c]
                /\ troubles' = {}
                /\ served' = served \cup {user[c]}
           ELSE UNCHANGED <<installed, account, troubles, served>>
        /\ pc' = [pc EXCEPT ![c] = AfterRegistration(ok)]
        /\ result' = [result EXCEPT ![c] = IF ok THEN @ ELSE "failed"]
  BY Zenon DEF Register
<1>2. UNCHANGED <<running, recovering, rights, calm, user, commands, events>>
  BY DEF Register
<1>3. CASE ok = TRUE
  <2>1. installed' \in BOOLEAN /\ troubles' \in SUBSET {"password", "expiry"}
    BY <1>1, <1>3, Zenon
  <2>2. account' = user[c] /\ served' = served \cup {user[c]}
    BY <1>1, <1>3
  <2>3. pc' = [pc EXCEPT ![c] = "entitling"]
    BY <1>1, <1>3 DEF AfterRegistration
  <2>4. UNCHANGED result
    BY <1>1, <1>3 DEF TypeOK
  <2>5. QED
    BY <1>2, <2>1, <2>2, <2>3, <2>4
<1>4. CASE ok = FALSE
  <2>1. UNCHANGED <<installed, account, troubles, served>>
    BY <1>1, <1>4
  <2>2. pc' = [pc EXCEPT ![c] = "idle"]
    BY <1>1, <1>4 DEF AfterRegistration
  <2>3. result' = [result EXCEPT ![c] = "failed"]
    BY <1>1, <1>4
  <2>4. QED
    BY <1>2, <2>1, <2>2, <2>3 DEF TypeOK
<1>5. QED
  BY <1>3, <1>4

\* Every step of a command line preserves the invariant.
LEMMA CliStep ==
  ASSUME Inv, NEW c \in Clis, Cli(c)
  PROVE  Inv'
<1> USE ControlAssumption DEF Inv, TypeOK, Registered, NoStrayGrant, Holding
<1>1. ASSUME NEW a \in Actions, NEW u \in Accounts, Begin(c, a, u)
      PROVE  Inv'
  <2>1. /\ pc[c] = "idle" /\ commands < MaxCommands /\ commands' = commands + 1
        /\ user' = [user EXCEPT ![c] = u]
        /\ UNCHANGED <<serviceVars, rights, calm, events>>
    BY <1>1, Zenon DEF Begin
  <2>2. \/ pc' = [pc EXCEPT ![c] = FirstStep(a)] /\ UNCHANGED result
        \/ result' = [result EXCEPT ![c] = "absent"] /\ UNCHANGED pc
    BY <1>1, Zenon DEF Begin
  <2>3. QED
    BY <2>1, <2>2 DEF FirstStep
<1>2. CASE Register(c)
  <2> USE <1>2
  <2>1. /\ installed' \in BOOLEAN /\ troubles' \in SUBSET {"password", "expiry"}
        /\ UNCHANGED <<running, recovering, rights, calm, user, commands, events>>
    BY RegisterTyped
  <2>2. CASE /\ account' = user[c]
             /\ served' = served \cup {user[c]}
             /\ pc' = [pc EXCEPT ![c] = "entitling"]
             /\ UNCHANGED result
    <3>1. TypeOK'
      BY <2>1, <2>2
    <3>2. Registered' /\ NoStrayGrant'
      BY <2>1, <2>2
    <3>3. QED
      BY <3>1, <3>2
  <2>3. CASE /\ UNCHANGED <<installed, account, served>>
             /\ pc' = [pc EXCEPT ![c] = "idle"]
             /\ result' = [result EXCEPT ![c] = "failed"]
    BY <2>1, <2>3
  <2>4. QED
    BY <2>2, <2>3, RegisterTyped
<1>3. CASE Entitle(c)
  BY <1>3 DEF Entitle, NeedsRight, End
<1>4. CASE Start(c)
  <2>1. running' \in BOOLEAN /\ recovering' \in BOOLEAN
        /\ UNCHANGED <<installed, account, troubles, served, rights>>
    BY <1>4, StartTyped DEF Start
  <2>2. QED
    BY <1>4, <2>1 DEF Start, End, Goto
<1>5. CASE ReadAccount(c)
  BY <1>5 DEF ReadAccount, End
<1>6. CASE CheckRight(c)
  BY <1>6 DEF CheckRight, NeedsGrant, Goto, End
<1>7. CASE Grant(c)
  BY <1>7 DEF Grant, Goto, End
<1>8. CASE Retry(c)
  <2>1. running' \in BOOLEAN /\ recovering' \in BOOLEAN
        /\ UNCHANGED <<installed, account, troubles, served, rights>>
    BY <1>8, StartTyped DEF Retry
  <2>2. QED
    BY <1>8, <2>1 DEF Retry, End
<1>9. CASE Inspect(c)
  BY <1>9 DEF Inspect, AfterInspection, Goto
<1>10. CASE StopFirst(c)
  <2>1. /\ running' \in BOOLEAN /\ recovering' \in BOOLEAN
        /\ UNCHANGED <<installed, account, troubles, served, rights>>
    BY <1>10, StopTyped DEF StopFirst
  <2>2. QED
    BY <1>10, <2>1 DEF StopFirst, Goto, End
<1>11. CASE Delete(c)
  <2>1. /\ installed' \in BOOLEAN /\ running' \in BOOLEAN
        /\ recovering' \in BOOLEAN
        /\ installed' => installed
        /\ UNCHANGED <<account, troubles, served, rights>>
    BY <1>11, DeleteTyped DEF Delete
  <2>2. QED
    BY <1>11, <2>1 DEF Delete, End
<1>12. CASE StopService(c)
  <2>1. /\ running' \in BOOLEAN /\ recovering' \in BOOLEAN
        /\ UNCHANGED <<installed, account, troubles, served, rights>>
    BY <1>12, StopTyped DEF StopService
  <2>2. QED
    BY <1>12, <2>1 DEF StopService, Goto, End
<1>13. CASE RestartStops(c)
  <2>1. /\ running' \in BOOLEAN /\ recovering' \in BOOLEAN
        /\ UNCHANGED <<installed, account, troubles, served, rights>>
    BY <1>13, StopTyped DEF RestartStops
  <2>2. QED
    BY <1>13, <2>1 DEF RestartStops, Goto, End
<1>14. CASE RestartStarts(c)
  <2>1. running' \in BOOLEAN /\ recovering' \in BOOLEAN
        /\ UNCHANGED <<installed, account, troubles, served, rights>>
    BY <1>14, StartTyped DEF RestartStarts
  <2>2. QED
    BY <1>14, <2>1 DEF RestartStarts, End
<1>15. QED
  BY <1>1, <1>2, <1>3, <1>4, <1>5, <1>6, <1>7, <1>8, <1>9, <1>10, <1>11, <1>12,
     <1>13, <1>14 DEF Cli

\* And so does what happens around them.
LEMMA EnvironmentStep ==
  ASSUME Inv, Environment
  PROVE  Inv'
<1> USE ControlAssumption DEF Inv, TypeOK, Registered, NoStrayGrant, Holding
<1>1. CASE Crash
  <2>1. running' \in BOOLEAN /\ recovering' \in BOOLEAN
    BY <1>1, Zenon DEF Crash
  <2>2. QED
    BY <1>1, <2>1 DEF Crash, Event
<1>2. CASE Recover
  <2>1. running' \in BOOLEAN
    BY <1>2, Zenon DEF Recover
  <2>2. recovering' \in BOOLEAN
    BY <1>2, Zenon DEF Recover
  <2>3. QED
    BY <1>2, <2>1, <2>2 DEF Recover
<1>3. ASSUME NEW e \in Events, Trouble(e) PROVE Inv'
  BY <1>3 DEF Trouble, Event
<1>4. CASE Revoke
  BY <1>4 DEF Revoke, Event
<1>5. QED
  BY <1>1, <1>2, <1>3, <1>4 DEF Environment

\* The invariant holds in every reachable state.
LEMMA Invariance == Spec => []Inv
<1>1. ASSUME Inv, [Next]_vars PROVE Inv'
  <2>1. CASE \E c \in Clis : Cli(c)
    BY <1>1, <2>1, CliStep
  <2>2. CASE Environment
    BY <1>1, <2>2, EnvironmentStep
  <2>3. CASE UNCHANGED vars
    BY <1>1, <2>3 DEF vars, Inv, TypeOK, Registered, NoStrayGrant
  <2>4. QED
    BY <1>1, <2>1, <2>2, <2>3 DEF Next, Idle
<1>2. QED
  BY InitEstablishes, <1>1, PTL DEF Spec

\* Types, for every set of command lines and accounts: in particular no
\* built-in account is ever granted the logon right.
THEOREM TypeCorrect == Spec => []TypeOK
<1>1. Inv => TypeOK
  BY DEF Inv
<1>2. QED
  BY Invariance, <1>1, PTL

\* NoStrayGrant: however many command lines race and whatever of their calls
\* fail, the logon right goes only to accounts the service was registered as.
THEOREM GrantsFollowRegistration == Spec => []NoStrayGrant
<1>1. Inv => NoStrayGrant
  BY DEF Inv
<1>2. QED
  BY Invariance, <1>1, PTL
-----------------------------------------------------------------------------
(* What holds while commands come one at a time and calls do not fail.     *)

\* What a command line has learned is still so.
Informed(c) ==
  /\ pc[c] = "deleting" => ~running
  /\ pc[c] = "naming" => installed /\ ~running /\ ~CanLogOn
  /\ pc[c] \in {"checking", "granting", "retrying"} =>
       installed /\ ~running /\ account \in Named /\ user[c] = account
  /\ pc[c] = "checking" => ~CanLogOn
  /\ pc[c] = "retrying" => account \in rights

Calm ==
  calm =>
    /\ ~recovering
    /\ running => installed
    /\ \A c, d \in Clis : pc[c] # "idle" /\ pc[d] # "idle" => c = d
    /\ \A c \in Clis : Informed(c)

\* A step of the one command line that is busy, by the kind of its outcome.
LEMMA CalmStep ==
  ASSUME TypeOK, Calm, calm, NEW c \in Clis, pc[c] # "idle",
         NEW next, pc' = [pc EXCEPT ![c] = next], calm' = calm, recovering' = recovering,
         running' => installed',
         Informed(c)'
  PROVE  Calm'
<1>1. \A d \in Clis : d # c => pc[d] = "idle" /\ pc'[d] = "idle"
  BY DEF Calm, TypeOK
<1>2. \A d \in Clis : Informed(d)'
  BY <1>1 DEF Informed
<1>3. QED
  BY <1>1, <1>2, Zenon DEF Calm
\* Nothing of the service changes.
ScmIdle == UNCHANGED serviceVars

\* A start that does not succeed leaves the service as it is.
LEMMA StartUnchanged ==
  ASSUME TypeOK, NEW how, how # "ok", ScmStart(how)
  PROVE  ScmIdle
<1>1. running' = running
  BY Zenon DEF ScmStart, TypeOK
<1>2. recovering' = recovering
  BY Zenon DEF ScmStart, TypeOK
<1>3. QED
  BY <1>1, <1>2 DEF ScmIdle, ScmStart

\* A command that only fails leaves a calm run calm, and gives no hint.
LEMMA CalmFailure ==
  ASSUME TypeOK, Calm, calm, NEW c \in Clis, pc[c] # "idle",
         running => installed, End(c, "failed"), ScmIdle
  PROVE  Calm' /\ result'[c] # "hinted"
<1>1. /\ pc' = [pc EXCEPT ![c] = "idle"] /\ calm' = calm
      /\ result'[c] = "failed"
  BY DEF End, TypeOK
<1>2. UNCHANGED <<running, installed, recovering>>
  BY DEF ScmIdle
<1>3. Informed(c)'
  BY <1>1 DEF Informed, TypeOK
<1>4. QED
  BY <1>1, <1>2, <1>3, CalmStep

\* Every step of a command line in a calm run; one that ends with the hint
\* leaves an account behind that has the right and cannot log on all the same.
LEMMA CalmCli ==
  ASSUME TypeOK, Calm, calm, NEW c \in Clis, Cli(c)
  PROVE  /\ Calm'
         /\ \A d \in Clis :
              Hints(d) => account \in rights /\ troubles # {}
<1> DEFINE Busy == pc[c] # "idle"
           Blames == Busy /\ pc'[c] = "idle" /\ result'[c] = "hinted"
                       => account \in rights /\ troubles # {}
           Goes(next) == /\ pc' = [pc EXCEPT ![c] = next]
                         /\ calm' = calm /\ recovering' = recovering
<1>0. ~MayFail /\ ~recovering /\ Informed(c) /\ (running => installed)
  BY Zenon DEF MayFail, Calm
<1> SUFFICES Calm' /\ Blames /\ (~Busy => \A d \in Clis : pc[d] = "idle")
  BY Zenon DEF Calm, Hints
<1> USE DEF ScmIdle
<1>1. ASSUME NEW a \in Actions, NEW u \in Accounts, Begin(c, a, u)
      PROVE  Calm' /\ ~Busy /\ \A d \in Clis : pc[d] = "idle"
  <2>1. /\ \A d \in Clis : pc[d] = "idle"
        /\ UNCHANGED <<serviceVars, rights, calm>>
    BY <1>1, Zenon DEF Begin
  <2>2. \/ pc' = [pc EXCEPT ![c] = FirstStep(a)]
        \/ UNCHANGED pc
    BY <1>1, Zenon DEF Begin
  <2>3. FirstStep(a) \in {"registering", "starting", "inspecting", "stopping",
                         "restarting"}
    BY ControlAssumption DEF FirstStep
  <2>4. \A d \in Clis : d # c => pc'[d] = "idle"
    BY <2>1, <2>2 DEF TypeOK
  <2>5. pc'[c] \in {"idle", "registering", "starting", "inspecting", "stopping",
                   "restarting"}
    BY <2>1, <2>2, <2>3 DEF TypeOK
  <2>6. \A d \in Clis : Informed(d)'
    BY <2>4, <2>5 DEF Informed
  <2>7. Calm'
    BY <1>0, <2>1, <2>4, <2>6, Zenon DEF Calm
  <2>8. QED
    BY <2>1, <2>7
<1>2. CASE Register(c)
  <2>1. Busy /\ UNCHANGED <<running, recovering, calm>>
    BY <1>2 DEF Register
  <2>2. PICK ok \in BOOLEAN :
          /\ pc' = [pc EXCEPT ![c] = AfterRegistration(ok)]
          /\ result' = [result EXCEPT ![c] = IF ok THEN @ ELSE "failed"]
          /\ IF ok THEN installed' = TRUE ELSE UNCHANGED installed
    BY <1>2, Zenon DEF Register
  <2>3. running' => installed'
    BY <1>0, <2>1, <2>2, Zenon
  <2>4. AfterRegistration(ok) \in {"entitling", "idle"}
    BY DEF AfterRegistration
  <2>5. pc'[c] = AfterRegistration(ok)
    BY <2>2 DEF TypeOK
  <2>6. Informed(c)'
    BY <2>4, <2>5 DEF Informed
  <2>7. Calm'
    BY <2>1, <2>2, <2>3, <2>6, CalmStep
  <2>8. Blames
    <3>1. CASE ok = TRUE
      BY <2>5, <3>1 DEF AfterRegistration
    <3>2. CASE ok = FALSE
      BY <2>2, <3>2 DEF TypeOK
    <3>3. QED
      BY <3>1, <3>2
  <2>9. QED
    BY <2>1, <2>7, <2>8
<1>3. CASE Entitle(c)
  <2>1. Busy /\ Goes("idle") /\ result'[c] = "done" /\ UNCHANGED serviceVars
    BY <1>3 DEF Entitle, End, TypeOK
  <2>2. Informed(c)'
    BY <2>1 DEF Informed, TypeOK
  <2>3. Calm'
    BY <1>0, <2>1, <2>2, CalmStep
  <2>4. QED
    BY <2>1, <2>3
<1>4. CASE Start(c)
  <2>1. Busy
    BY <1>4 DEF Start
  <2>2. CASE ScmStart("ok") /\ End(c, "done")
    <3>1. installed' /\ Goes("idle") /\ result'[c] = "done"
      <4>1. installed' /\ recovering' = recovering
        BY <1>0, <2>2, Zenon DEF ScmStart, StartResults, TypeOK
      <4>2. QED
        BY <2>2, <4>1 DEF End, TypeOK
    <3>2. Informed(c)'
      BY <3>1 DEF Informed, TypeOK
    <3>3. Calm'
      BY <2>1, <3>1, <3>2, CalmStep
    <3>4. QED
      BY <2>1, <3>1, <3>3
  <2>3. CASE ScmStart("error") /\ End(c, "failed")
    <3>1. ScmIdle
      BY <2>3, StartUnchanged
    <3>2. Goes("idle") /\ result'[c] = "failed"
      BY <2>3, <3>1 DEF End, TypeOK
    <3>3. Informed(c)'
      BY <3>2 DEF Informed, TypeOK
    <3>4. Calm'
      BY <1>0, <2>1, <3>1, <3>2, <3>3, CalmStep
    <3>5. QED
      BY <2>1, <3>2, <3>4
  <2>4. CASE ScmStart("logon failure") /\ Goto(c, "naming")
    <3>1. ScmIdle
      BY <2>4, StartUnchanged
    <3>2. installed /\ ~running /\ ~CanLogOn
      BY <1>0, <2>4 DEF ScmStart, StartResults
    <3>3. Goes("naming") /\ UNCHANGED rights
      BY <1>4, <2>4, <3>1 DEF Goto, Start
    <3>4. pc'[c] = "naming"
      BY <3>3 DEF TypeOK
    <3>5. Informed(c)'
      BY <3>1, <3>2, <3>3, <3>4 DEF Informed, CanLogOn
    <3>6. Calm'
      BY <1>0, <2>1, <3>1, <3>3, <3>5, CalmStep
    <3>7. QED
      BY <2>1, <3>4, <3>6
  <2>5. QED
    BY <1>4, <2>2, <2>3, <2>4 DEF Start
<1>5. CASE ReadAccount(c)
  <2>1. installed /\ ~CanLogOn /\ account # BuiltIn /\ ~running
    BY <1>0, <1>5 DEF ReadAccount, Informed, CanLogOn
  <2>2. PICK u \in Named :
          /\ ReadsAccount(u)
          /\ pc' = [pc EXCEPT ![c] = "checking"]
          /\ user' = [user EXCEPT ![c] = u]
          /\ UNCHANGED <<result, calm, commands, events>>
    BY <1>0, <1>5, <2>1, Zenon DEF ReadAccount
  <2>3. ScmIdle /\ UNCHANGED rights
    BY <1>5 DEF ReadAccount
  <2>4. pc'[c] = "checking" /\ user'[c] = account /\ account \in Named
    BY <2>2 DEF TypeOK
  <2>5. Informed(c)'
    BY <2>1, <2>3, <2>4 DEF Informed, CanLogOn
  <2>6. Calm'
    <3>1. Busy /\ Goes("checking")
      BY <1>5, <2>2, <2>3, Zenon DEF ReadAccount
    <3>2. QED
      BY <1>0, <2>3, <2>5, <3>1, CalmStep
  <2>7. QED
    BY <1>5, <2>4, <2>6 DEF ReadAccount
<1>6. CASE CheckRight(c)
  <2>1. /\ Busy /\ installed /\ ~running /\ ~CanLogOn
        /\ account \in Named /\ user[c] = account
    BY <1>0, <1>6 DEF CheckRight, Informed
  <2>2. ScmIdle /\ UNCHANGED rights
    BY <1>6 DEF CheckRight
  <2>3. CASE user[c] \in rights
    <3>1. End(c, "hinted")
      BY <1>0, <1>6, <2>3 DEF CheckRight, NeedsGrant
    <3>2. account \in rights /\ troubles # {}
      BY <2>1, <2>3 DEF CanLogOn
    <3>3. Goes("idle")
      BY <2>2, <3>1 DEF End
    <3>4. Informed(c)'
      BY <3>3 DEF Informed, TypeOK
    <3>5. Calm'
      BY <1>0, <2>1, <2>2, <3>3, <3>4, CalmStep
    <3>6. QED
      BY <2>1, <3>2, <3>5
  <2>4. CASE user[c] \notin rights
    <3>1. Goto(c, "granting")
      BY <1>0, <1>6, <2>4 DEF CheckRight, NeedsGrant
    <3>2. Goes("granting") /\ pc'[c] = "granting" /\ user' = user
      BY <2>2, <3>1 DEF Goto, TypeOK
    <3>3. Informed(c)'
      BY <2>1, <2>2, <3>2 DEF Informed
    <3>4. Calm'
      BY <1>0, <2>1, <2>2, <3>2, <3>3, CalmStep
    <3>5. QED
      BY <2>1, <3>2, <3>4
  <2>5. QED
    BY <2>3, <2>4
<1>7. CASE Grant(c)
  <2>1. /\ Busy /\ installed /\ ~running
        /\ account \in Named /\ user[c] = account
    BY <1>0, <1>7 DEF Grant, Informed
  <2>2. ScmIdle /\ GrantRight(user[c]) /\ Goto(c, "retrying")
    BY <1>0, <1>7 DEF Grant
  <2>3. Goes("retrying") /\ pc'[c] = "retrying" /\ user' = user
    BY <2>2 DEF Goto, TypeOK
  <2>4. Informed(c)'
    BY <2>1, <2>2, <2>3 DEF Informed
  <2>5. Calm'
    BY <1>0, <2>1, <2>2, <2>3, <2>4, CalmStep
  <2>6. QED
    BY <2>1, <2>3, <2>5
<1>8. CASE Retry(c)
  <2>1. /\ Busy /\ installed /\ ~running
        /\ account \in Named /\ account \in rights
    BY <1>0, <1>8 DEF Retry, Informed
  <2>2. CASE ScmStart("ok") /\ End(c, "done")
    <3>1. installed' /\ Goes("idle") /\ result'[c] = "done"
      <4>1. installed' /\ recovering' = recovering
        BY <1>0, <2>2, Zenon DEF ScmStart, StartResults, TypeOK
      <4>2. QED
        BY <2>2, <4>1 DEF End, TypeOK
    <3>2. Informed(c)'
      BY <3>1 DEF Informed, TypeOK
    <3>3. Calm'
      BY <2>1, <3>1, <3>2, CalmStep
    <3>4. QED
      BY <2>1, <3>1, <3>3
  <2>3. CASE (ScmStart("error") \/ ScmStart("logon failure")) /\ End(c, "hinted")
    <3>1. ScmIdle
      BY <2>3, StartUnchanged
    <3>2. ~CanLogOn
      BY <1>0, <2>1, <2>3 DEF ScmStart, StartResults
    <3>3. account \in rights /\ troubles # {}
      BY <2>1, <3>2 DEF CanLogOn
    <3>4. Goes("idle")
      BY <2>3, <3>1 DEF End
    <3>5. Informed(c)'
      BY <3>4 DEF Informed, TypeOK
    <3>6. Calm'
      BY <1>0, <2>1, <3>1, <3>4, <3>5, CalmStep
    <3>7. QED
      BY <2>1, <3>3, <3>6
  <2>4. QED
    BY <1>8, <2>2, <2>3 DEF Retry
<1>9. CASE Inspect(c)
  <2>1. Busy /\ ScmIdle
    BY <1>9 DEF Inspect
  <2>2. Goto(c, AfterInspection(running))
    BY <1>0, <1>9 DEF Inspect
  <2>3. CASE running
    <3>1. Goes("stoppingFirst") /\ pc'[c] = "stoppingFirst"
      BY <2>1, <2>2, <2>3 DEF Goto, AfterInspection, TypeOK
    <3>2. Informed(c)'
      BY <3>1 DEF Informed
    <3>3. QED
      BY <1>0, <2>1, <3>1, <3>2, CalmStep
  <2>4. CASE ~running
    <3>1. Goes("deleting") /\ pc'[c] = "deleting"
      BY <2>1, <2>2, <2>4 DEF Goto, AfterInspection, TypeOK
    <3>2. Informed(c)'
      BY <2>1, <2>4, <3>1 DEF Informed
    <3>3. QED
      BY <1>0, <2>1, <3>1, <3>2, CalmStep
  <2>5. QED
    BY <2>3, <2>4
<1>10. CASE StopFirst(c)
  <2>1. Busy
    BY <1>10 DEF StopFirst
  <2>2. CASE ScmStop /\ Goto(c, "deleting")
    <3>1. Goes("deleting") /\ pc'[c] = "deleting" /\ ~running'
      BY <2>2 DEF ScmStop, Goto, TypeOK
    <3>2. Informed(c)'
      BY <3>1 DEF Informed
    <3>3. QED
      BY <2>1, <3>1, <3>2, CalmStep
  <2>3. CASE End(c, "failed") /\ ScmIdle
    BY <1>0, <2>1, <2>3, CalmFailure
  <2>4. QED
    BY <1>10, <2>2, <2>3 DEF StopFirst
<1>11. CASE Delete(c)
  <2>1. Busy /\ ~running
    BY <1>0, <1>11 DEF Delete, Informed
  <2>2. CASE ScmDelete /\ End(c, "removed")
    <3>1. ~running' /\ ~recovering'
      BY <2>1, <2>2, Zenon DEF ScmDelete
    <3>2. recovering' = recovering
      BY <1>0, <3>1, <2>2, Zenon DEF ScmDelete, TypeOK
    <3>3. Goes("idle") /\ result'[c] = "removed"
      BY <2>2, <3>2 DEF End, TypeOK
    <3>4. Informed(c)'
      BY <3>3 DEF Informed, TypeOK
    <3>5. Calm'
      BY <2>1, <3>1, <3>3, <3>4, CalmStep
    <3>6. QED
      BY <2>1, <3>3, <3>5
  <2>3. CASE End(c, "failed") /\ ScmIdle
    BY <1>0, <2>1, <2>3, CalmFailure
  <2>4. QED
    BY <1>11, <2>2, <2>3 DEF Delete
<1>12. CASE StopService(c)
  <2>1. Busy
    BY <1>12 DEF StopService
  <2>2. CASE ScmStop /\ End(c, "done")
    <3>1. Goes("idle") /\ result'[c] = "done" /\ ~running'
      BY <2>2 DEF ScmStop, End, TypeOK
    <3>2. Informed(c)'
      BY <3>1 DEF Informed, TypeOK
    <3>3. Calm'
      BY <2>1, <3>1, <3>2, CalmStep
    <3>4. QED
      BY <2>1, <3>1, <3>3
  <2>3. CASE End(c, "failed") /\ ScmIdle
    BY <1>0, <2>1, <2>3, CalmFailure
  <2>4. QED
    BY <1>12, <2>2, <2>3 DEF StopService
<1>13. CASE RestartStops(c)
  <2>1. Busy
    BY <1>13 DEF RestartStops
  <2>2. CASE Goto(c, "restarted") /\ (ScmStop \/ ScmIdle)
    <3>1. Goes("restarted") /\ pc'[c] = "restarted" /\ (running' => installed')
      BY <1>0, <2>2 DEF ScmStop, Goto, TypeOK
    <3>2. Informed(c)'
      BY <3>1 DEF Informed
    <3>3. Calm'
      BY <2>1, <3>1, <3>2, CalmStep
    <3>4. QED
      BY <2>1, <3>1, <3>3
  <2>3. CASE End(c, "failed") /\ ScmIdle
    BY <1>0, <2>1, <2>3, CalmFailure
  <2>4. QED
    BY <1>13, <2>2, <2>3 DEF RestartStops
<1>14. CASE RestartStarts(c)
  <2>1. Busy
    BY <1>14 DEF RestartStarts
  <2>2. CASE ScmStart("ok") /\ End(c, "done")
    <3>1. installed' /\ Goes("idle") /\ result'[c] = "done"
      <4>1. installed' /\ recovering' = recovering
        BY <1>0, <2>2, Zenon DEF ScmStart, StartResults, TypeOK
      <4>2. QED
        BY <2>2, <4>1 DEF End, TypeOK
    <3>2. Informed(c)'
      BY <3>1 DEF Informed, TypeOK
    <3>3. Calm'
      BY <2>1, <3>1, <3>2, CalmStep
    <3>4. QED
      BY <2>1, <3>1, <3>3
  <2>3. CASE (ScmStart("error") \/ ScmStart("logon failure")) /\ End(c, "failed")
    <3>1. ScmIdle
      BY <2>3, StartUnchanged
    <3>2. QED
      BY <1>0, <2>1, <2>3, <3>1, CalmFailure
  <2>4. QED
    BY <1>14, <2>2, <2>3 DEF RestartStarts
<1>15. QED
  BY <1>1, <1>2, <1>3, <1>4, <1>5, <1>6, <1>7, <1>8, <1>9, <1>10, <1>11, <1>12,
     <1>13, <1>14 DEF Cli

\* Nothing but a changed password or an expired account happens around them.
LEMMA CalmEnvironment ==
  ASSUME TypeOK, Calm, calm, Environment
  PROVE  Calm' /\ UNCHANGED <<pc, result>>
<1>1. PICK e \in Events : Trouble(e)
  BY DEF Environment, Crash, Recover, Revoke, Event, Calm
<1>2. /\ account \in Named /\ troubles' # {}
      /\ UNCHANGED <<running, recovering, rights, calm, cliVars, installed, account>>
  BY <1>1 DEF Trouble, Event
<1>3. \A c \in Clis : Informed(c)'
  BY <1>2, ControlAssumption DEF Calm, Informed, CanLogOn
<1>4. /\ ~recovering' /\ (running' => installed')
      /\ \A c, d \in Clis : pc'[c] # "idle" /\ pc'[d] # "idle" => c = d
  BY <1>2 DEF Calm
<1>5. QED
  BY <1>2, <1>3, <1>4 DEF Calm

CalmInv == TypeOK /\ Calm

LEMMA CalmNext ==
  ASSUME CalmInv, [Next]_vars
  PROVE  /\ Calm'
         /\ calm => \A c \in Clis :
              Hints(c) => account \in rights /\ troubles # {}
<1>1. calm' = calm
  BY DEF Next, vars, Cli, Idle, Begin, Register, Entitle, Start, ReadAccount,
         CheckRight, Grant, Retry, Inspect, StopFirst, Delete, StopService,
         RestartStops, RestartStarts, Goto, End, Environment, Crash, Recover,
         Trouble, Revoke, Event
<1>2. CASE ~calm
  BY <1>1, <1>2 DEF Calm
<1>3. CASE calm
  <2>1. CASE \E c \in Clis : Cli(c)
    BY <1>3, <2>1, CalmCli DEF CalmInv
  <2>2. CASE Environment
    BY <1>3, <2>2, CalmEnvironment DEF CalmInv, Hints
  <2>3. CASE UNCHANGED vars
    <3>1. UNCHANGED <<calm, recovering, running, installed, pc, user, account,
                      rights, troubles, result>>
      BY <2>3 DEF vars
    <3>2. \A c \in Clis : Informed(c)'
      BY <1>3, <3>1 DEF CalmInv, Calm, Informed, CanLogOn
    <3>3. QED
      BY <1>3, <3>1, <3>2 DEF CalmInv, Calm, Hints
  <2>4. QED
    BY <2>1, <2>2, <2>3 DEF Next, Idle
<1>4. QED
  BY <1>2, <1>3

LEMMA CalmInvariance == Spec => []CalmInv
<1>1. Init => Calm
  BY Zenon DEF Init, Calm, Informed
<1>2. Calm /\ TypeOK /\ TypeOK' /\ [Next]_vars => Calm'
  BY CalmNext DEF CalmInv
<1>3. QED
  BY <1>1, <1>2, TypeCorrect, PTL DEF Spec, CalmInv

\* RemovedMeansStopped: a service that command lines one at a time, without
\* failing calls or crashes, have removed does not run, whatever they did
\* before and whoever changes the password meanwhile.
THEOREM RemovalStopsTheService == Spec => []RemovedMeansStopped
<1>1. CalmInv => RemovedMeansStopped
  BY Zenon DEF CalmInv, Calm, RemovedMeansStopped, RemovalStops
<1>2. QED
  BY <1>1, CalmInvariance, PTL

\* RightIsMended: and their hint to reinstall is never given where the logon
\* right is missing: start has seen the right or granted it, and the account
\* cannot log on for another reason.
THEOREM RightFirst == Spec => RightIsMended
<1>1. CalmInv /\ [Next]_vars =>
        [calm => \A c \in Clis :
           Hints(c) => account \in rights /\ troubles # {}]_vars
  BY CalmNext
<1>2. QED
  BY <1>1, CalmInvariance, PTL DEF Spec, RightIsMended
=============================================================================
