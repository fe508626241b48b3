------------------------------ MODULE Control ------------------------------
(***************************************************************************)
(* The `service` subcommand against the Windows service control manager:   *)
(* install, control and grantLogonRightAndRetry of internal/service/cli.go *)
(* as run by any number of command lines at once.  The manager (external), *)
(* its service and the rights the local policy grants are shared; every    *)
(* call of a command line is one step, and others may act in between.      *)
(***************************************************************************)
EXTENDS Integers

CONSTANTS Clis,         \* command lines
          Actions,      \* what they are asked: "install", "start", ...
          Named,        \* accounts that need a password and the right
          BuiltIn,      \* LocalSystem and the like
          Flaky,        \* may calls fail for reasons of their own
          Events,       \* what the environment does: "crash", "password", ...
          MaxCommands,  \* bound: commands given
          MaxEvents     \* bound: events

ASSUME ControlAssumption ==
  /\ Actions \subseteq {"install", "start", "uninstall", "stop", "restart"}
  /\ BuiltIn \notin Named
  /\ Flaky \in BOOLEAN
  /\ Events \subseteq {"crash", "password", "expiry", "revoke"}
  /\ MaxCommands \in Nat
  /\ MaxEvents \in Nat

VARIABLES
  installed,   \* is the service registered
  running,     \* is its process running
  recovering,  \* has it crashed, so that the manager will restart it
  account,     \* its ServiceStartName
  troubles,    \* what else keeps the account from logging on: "password", the
               \* one the manager holds is no longer right, and "expiry"
  rights,      \* accounts that hold SeServiceLogonRight
  served,      \* accounts the service was ever registered with, and
               \* those that held the right before
  calm,        \* is one command given at a time, while no call fails of
               \* itself and the daemon does not crash
  pc,          \* what each command line does next
  user,        \* its --user, or the account it read from the definition
  result,      \* how its last command ended
  commands,    \* commands given so far
  events       \* events of the environment so far

serviceVars == <<installed, running, recovering, account, troubles, served>>
cliVars == <<pc, user, result>>
vars == <<serviceVars, rights, calm, cliVars, commands, events>>

\* Calls fail for reasons of their own.
MayFail == Flaky /\ ~calm

Accounts == Named \cup {BuiltIn}

Init ==
  /\ installed \in BOOLEAN
  /\ running = FALSE
  /\ recovering = FALSE
  /\ account \in Accounts
  /\ troubles = {}
  /\ rights \in SUBSET Named
  /\ served = rights \cup (IF installed THEN {account} ELSE {})
  /\ calm \in BOOLEAN
  /\ pc = [c \in Clis |-> "idle"]
  /\ user = [c \in Clis |-> BuiltIn]
  /\ result = [c \in Clis |-> "none"]
  /\ commands = 0
  /\ events = 0

Goto(c, label) ==
  /\ pc' = [pc EXCEPT ![c] = label]
  /\ UNCHANGED <<user, result, calm, commands, events>>

End(c, how) ==
  /\ pc' = [pc EXCEPT ![c] = "idle"]
  /\ result' = [result EXCEPT ![c] = how]
  /\ UNCHANGED <<user, calm, commands, events>>
-----------------------------------------------------------------------------
(* The manager. *)

\* It can log the account on: the right, the password it holds, and an account
\* that has not expired and is not barred otherwise.
CanLogOn == account = BuiltIn \/ (account \in rights /\ troubles = {})

\* What a start ends with; every reason not to log the account on is one of
\* the errors that logonFailure lists.
StartResults ==
  IF ~installed \/ running THEN {"error"}
  ELSE {IF CanLogOn THEN "ok" ELSE "logon failure"}
         \cup (IF MayFail THEN {"error"} ELSE {})

ScmStart(how) ==
  /\ how \in StartResults
  /\ running' = (running \/ how = "ok")
  /\ recovering' = (recovering /\ how # "ok")
  /\ UNCHANGED <<installed, account, troubles, served>>

ScmStop ==
  /\ installed
  /\ running
  /\ running' = FALSE
  /\ UNCHANGED <<installed, recovering, account, troubles, served>>

\* Deleting the definition leaves the process as it is.
ScmDelete ==
  /\ installed
  /\ installed' = FALSE
  /\ recovering' = FALSE
  /\ UNCHANGED <<running, account, troubles, served>>
-----------------------------------------------------------------------------
(* What the command lines ask the manager and the policy. *)

\* queryService, as control takes its answer: an error counts as installed.
SeenInstalled == {installed} \cup (IF MayFail THEN {TRUE} ELSE {})

\* serviceAccountName: the ServiceStartName of a registered service.
ReadsAccount(u) == installed /\ u = account

\* serviceLogonRightHeld, as start takes its answer: an error counts as no.
SeenHeld(u) == {u \in rights} \cup (IF MayFail THEN {FALSE} ELSE {})

\* grantServiceLogonRight: a right already held is no error.
GrantRight(u) == rights' = rights \cup {u}
-----------------------------------------------------------------------------
(* Command: what each action does first. *)

FirstStep(a) ==
  CASE a = "install" -> "registering"
    [] a = "start" -> "starting"
    [] a = "uninstall" -> "inspecting"
    [] a = "stop" -> "stopping"
    [] a = "restart" -> "restarting"

\* install comes with a --user whose password was verified just before;
\* control asks Query and goes on unless it learns that nothing is there.
Begin(c, a, u) ==
  /\ \A d \in Clis : d = c \/ calm => pc[d] = "idle"
  /\ commands < MaxCommands
  /\ commands' = commands + 1
  /\ user' = [user EXCEPT ![c] = u]
  /\ \/ /\ a = "install" \/ TRUE \in SeenInstalled
        /\ pc' = [pc EXCEPT ![c] = FirstStep(a)]
        /\ UNCHANGED result
     \/ /\ a # "install" /\ FALSE \in SeenInstalled
        /\ result' = [result EXCEPT ![c] = "absent"]
        /\ UNCHANGED pc
  /\ UNCHANGED <<serviceVars, rights, calm, events>>
-----------------------------------------------------------------------------
(* install. *)

\* Slip: the right is granted without waiting for the registration.
AfterRegistration_Either(ok) == "entitling"

\* s.Install() has to succeed before the account is given anything.
AfterRegistration(ok) == IF ok THEN "entitling" ELSE "idle"

Register(c) ==
  /\ pc[c] = "registering"
  /\ \E ok \in BOOLEAN :
       /\ ok => ~installed /\ ~running
       /\ ~ok => installed \/ running \/ MayFail
       /\ IF ok
          THEN /\ installed' = TRUE
               /\ account' = user[c]
               /\ troubles' = {}
               /\ served' = served \cup {user[c]}
          ELSE UNCHANGED <<installed, account, troubles, served>>
       /\ pc' = [pc EXCEPT ![c] = AfterRegistration(ok)]
       /\ result' = [result EXCEPT ![c] = IF ok THEN @ ELSE "failed"]
  /\ UNCHANGED <<running, recovering, rights, calm, user, commands, events>>

\* Slip: the grant does not look at what kind of account it is for.
NeedsRight_Any(u) == u \in Accounts

\* The built-in accounts have no right to be granted and no policy entry.
NeedsRight(u) == u # BuiltIn

\* A grant that fails is a warning: start will try again.
Entitle(c) ==
  /\ pc[c] = "entitling"
  /\ \/ NeedsRight(user[c]) /\ GrantRight(user[c])
     \/ (~NeedsRight(user[c]) \/ MayFail) /\ UNCHANGED rights
  /\ End(c, "done")
  /\ UNCHANGED serviceVars
-----------------------------------------------------------------------------
(* start and grantLogonRightAndRetry. *)

Start(c) ==
  /\ pc[c] = "starting"
  /\ \/ ScmStart("ok") /\ End(c, "done")
     \/ ScmStart("error") /\ End(c, "failed")
     \/ ScmStart("logon failure") /\ Goto(c, "naming")
  /\ UNCHANGED rights

\* serviceAccountName: with no name, or a built-in account, the first error
\* stands, and it is a logon failure: the hint blames the password.
ReadAccount(c) ==
  /\ pc[c] = "naming"
  /\ \/ \E u \in Named :
          /\ ReadsAccount(u)
          /\ pc' = [pc EXCEPT ![c] = "checking"]
          /\ user' = [user EXCEPT ![c] = u]
          /\ UNCHANGED <<result, calm, commands, events>>
     \/ (~installed \/ account = BuiltIn \/ MayFail) /\ End(c, "hinted")
  /\ UNCHANGED <<serviceVars, rights>>

\* Slip: a right that could be read is taken for a right that is held.
NeedsGrant_Unread(held) == FALSE

\* Only a right known to be held proves that the password is the problem.
NeedsGrant(held) == ~held

CheckRight(c) ==
  /\ pc[c] = "checking"
  /\ \E held \in SeenHeld(user[c]) :
       IF NeedsGrant(held) THEN Goto(c, "granting") ELSE End(c, "hinted")
  /\ UNCHANGED <<serviceVars, rights>>

Grant(c) ==
  /\ pc[c] = "granting"
  /\ \/ GrantRight(user[c]) /\ Goto(c, "retrying")
     \/ MayFail /\ End(c, "hinted") /\ UNCHANGED rights
  /\ UNCHANGED serviceVars

\* Whatever the second start fails with, the first error is reported.
Retry(c) ==
  /\ pc[c] = "retrying"
  /\ \/ ScmStart("ok") /\ End(c, "done")
     \/ (ScmStart("error") \/ ScmStart("logon failure")) /\ End(c, "hinted")
  /\ UNCHANGED rights
-----------------------------------------------------------------------------
(* uninstall, stop and restart. *)

\* Slip: the definition is deleted whether or not the process runs.
AfterInspection_Delete(seen) == "deleting"

\* Only a service that is seen running is stopped first.
AfterInspection(seen) == IF seen THEN "stoppingFirst" ELSE "deleting"

\* s.Status(): an error counts as not running.
Inspect(c) ==
  /\ pc[c] = "inspecting"
  /\ \E seen \in {running} \cup (IF MayFail THEN {FALSE} ELSE {}) :
       Goto(c, AfterInspection(seen))
  /\ UNCHANGED <<serviceVars, rights>>

StopFirst(c) ==
  /\ pc[c] = "stoppingFirst"
  /\ \/ ScmStop /\ Goto(c, "deleting")
     \/ /\ ~running \/ ~installed \/ MayFail
        /\ End(c, "failed") /\ UNCHANGED serviceVars
  /\ UNCHANGED rights

Delete(c) ==
  /\ pc[c] = "deleting"
  /\ \/ ScmDelete /\ End(c, "removed")
     \/ (~installed \/ MayFail) /\ End(c, "failed") /\ UNCHANGED serviceVars
  /\ UNCHANGED rights

StopService(c) ==
  /\ pc[c] = "stopping"
  /\ \/ ScmStop /\ End(c, "done")
     \/ /\ ~running \/ ~installed \/ MayFail
        /\ End(c, "failed") /\ UNCHANGED serviceVars
  /\ UNCHANGED rights

\* s.Restart() stops a service that runs, then starts it; no right is
\* granted.  Of a stopped service a manager may refuse the stop or skip it.
RestartStops(c) ==
  /\ pc[c] = "restarting"
  /\ \/ ScmStop /\ Goto(c, "restarted")
     \/ ~running /\ Goto(c, "restarted") /\ UNCHANGED serviceVars
     \/ /\ ~running \/ ~installed \/ MayFail
        /\ End(c, "failed") /\ UNCHANGED serviceVars
  /\ UNCHANGED rights

RestartStarts(c) ==
  /\ pc[c] = "restarted"
  /\ \/ ScmStart("ok") /\ End(c, "done")
     \/ (ScmStart("error") \/ ScmStart("logon failure")) /\ End(c, "failed")
  /\ UNCHANGED rights
-----------------------------------------------------------------------------
(* The environment: crashes and the manager's recovery, other tools. *)

Event(e) ==
  /\ e \in Events
  /\ calm => e \in {"password", "expiry"}
  /\ events < MaxEvents
  /\ events' = events + 1
  /\ UNCHANGED <<calm, cliVars, commands, installed, account, served>>

Crash ==
  /\ running
  /\ running' = FALSE
  /\ recovering' = installed
  /\ Event("crash")
  /\ UNCHANGED <<troubles, rights>>

\* OnFailure restart, five seconds later.
Recover ==
  /\ recovering
  /\ running' = (running \/ CanLogOn)
  /\ recovering' = FALSE
  /\ UNCHANGED <<installed, account, troubles, served, rights, calm, cliVars,
                 commands, events>>

\* The password is changed; the account or its password expires, or a policy
\* bars it.
Trouble(e) ==
  /\ e \in {"password", "expiry"}
  /\ installed
  /\ account \in Named
  /\ troubles' = troubles \cup {e}
  /\ Event(e)
  /\ UNCHANGED <<running, recovering, rights>>

Revoke ==
  /\ \E u \in rights : rights' = rights \ {u}
  /\ Event("revoke")
  /\ UNCHANGED <<running, recovering, troubles>>

Environment == Crash \/ Recover \/ (\E e \in Events : Trouble(e)) \/ Revoke

\* Nobody gives a command any more.
Idle ==
  /\ \A c \in Clis : pc[c] = "idle"
  /\ UNCHANGED vars

Cli(c) == \/ \E a \in Actions, u \in Accounts : Begin(c, a, u)
          \/ Register(c) \/ Entitle(c)
          \/ Start(c) \/ ReadAccount(c) \/ CheckRight(c) \/ Grant(c) \/ Retry(c)
          \/ Inspect(c) \/ StopFirst(c) \/ Delete(c)
          \/ StopService(c) \/ RestartStops(c) \/ RestartStarts(c)

Next == (\E c \in Clis : Cli(c)) \/ Environment \/ Idle

Spec == Init /\ [][Next]_vars
-----------------------------------------------------------------------------
(* Properties. *)

\* The types; the logon right is never given to a built-in account.
TypeOK ==
  /\ installed \in BOOLEAN /\ running \in BOOLEAN /\ recovering \in BOOLEAN
  /\ account \in Accounts
  /\ troubles \in SUBSET {"password", "expiry"}
  /\ rights \in SUBSET Named
  /\ served \in SUBSET Accounts
  /\ calm \in BOOLEAN
  /\ pc \in [Clis -> {"idle", "registering", "entitling", "starting", "naming",
                      "checking", "granting", "retrying", "inspecting",
                      "stoppingFirst", "deleting", "stopping", "restarting",
                      "restarted"}]
  /\ user \in [Clis -> Accounts]
  /\ result \in [Clis -> {"none", "done", "failed", "absent", "hinted",
                          "removed"}]
  /\ commands \in 0..MaxCommands
  /\ events \in 0..MaxEvents

\* "Log on as a service" is a standing right of the account, so no command
\* line, failing or racing with others, may give it to an account the
\* service was never registered to run as.
NoStrayGrant == rights \subseteq served

\* "disable/delete alone leaves the process running: stop it first": once a
\* command line has removed the service, nothing of it runs.
RemovalStops ==
  (\E c \in Clis : pc[c] = "idle" /\ result[c] = "removed") /\ ~installed
    => ~running

\* That is so when nothing comes between uninstall's calls.
RemovedMeansStopped == calm => RemovalStops

\* A start ends by blaming the password: "Reinstall to update it".
Hints(c) == pc[c] # "idle" /\ pc'[c] = "idle" /\ result'[c] = "hinted"

\* "A missing logon right looks identical from the SCM but is granted
\* automatically, so the hint is only shown when the right is already present":
\* where nothing comes between start's calls and none of them fails, the
\* account has the right by then, and something else keeps it from logging on.
\* (It need not be the password: an expired account looks identical too.)
RightIsMended ==
  [][calm => \A c \in Clis : Hints(c) => account \in rights /\ troubles # {}]_vars
=============================================================================
