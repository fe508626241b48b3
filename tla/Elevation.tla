----------------------------- MODULE Elevation -----------------------------
(***************************************************************************)
(* A `service` command on Windows that is not elevated: prepareInstall,    *)
(* promptVerifiedPassword and maybeElevate of internal/service/cli.go in   *)
(* the parent, which starts itself again through the UAC prompt, and the   *)
(* same command line as run by the elevated child.  Two files in the       *)
(* temporary directory connect them: the credential file takes the         *)
(* password to the child, the report file takes the output back.  Either   *)
(* process may be ended from outside while the other goes on.              *)
(***************************************************************************)
EXTENDS Integers

VARIABLES
  action,      \* "install", or "control" for start, stop, ...
  needs,       \* opts.NeedsCredential
  piped,       \* is stdin a pipe or a file
  answers,     \* what the user answers, in order
  attempt,     \* the loop variable of promptVerifiedPassword
  parent,      \* where the parent is
  code,        \* what relaunchElevated returns
  handle,      \* did ShellExecuteEx return a process handle
  exit,        \* how the parent ended
  shown,       \* the child's output that the parent replayed
  child,       \* where the child is
  childExit,   \* how it ended
  redirected,  \* does its output go to the report file
  cred,        \* the credential file: "none", "part" of the password or "whole"
  report,      \* the report file: "none", "empty" or the child's outcome
  refused      \* removals of a file that the system refused (for the properties)

promptVars == <<action, needs, piped, answers, attempt>>
parentVars == <<parent, code, handle, exit, shown>>
childVars == <<child, childExit, redirected>>
fileVars == <<cred, report, refused>>
vars == <<promptVars, parentVars, childVars, fileVars>>

Answers == {"right", "wrong", "unreadable"}

\* A control command has no account; an install may need its password.
Init ==
  /\ action \in {"install", "control"}
  /\ needs \in BOOLEAN
  /\ needs => action = "install"
  /\ piped \in BOOLEAN
  /\ answers \in [1..3 -> Answers]
  /\ attempt = 1
  /\ parent = "preparing"
  /\ code = "none"
  /\ handle = TRUE
  /\ exit = "none"
  /\ shown = "none"
  /\ child = "none"
  /\ childExit = "none"
  /\ redirected = FALSE
  /\ cred = "none"
  /\ report = "none"
  /\ refused = {}

Goto(label) ==
  /\ parent' = label
  /\ UNCHANGED <<code, handle, exit, shown>>

Quit(how) ==
  /\ parent' = "ended"
  /\ exit' = how
  /\ UNCHANGED <<code, handle, shown>>
-----------------------------------------------------------------------------
(* The parent before the UAC prompt. *)

\* The config is loaded for an install only; Query may find nothing to control.
Prepare ==
  /\ parent = "preparing"
  /\ \/ Goto(IF needs THEN "prompting" ELSE "handing")
     \/ action = "install" /\ Quit("failed")
     \/ action = "control" /\ Quit("ok")
  /\ UNCHANGED <<promptVars, childVars, fileVars>>

\* Slip: the last attempt is not made.
Attempts_OffByOne == 2

Attempts == 3

\* A new reader for each attempt: the first one takes all that a pipe holds,
\* so a later one reads an empty password or what was written since.
Answer == IF piped /\ attempt > 1 THEN Answers ELSE {answers[attempt]}

\* A password that cannot be read (the console fails, or there is none) is not
\* asked for again.
Prompt ==
  /\ parent = "prompting"
  /\ \/ /\ "right" \in Answer
        /\ Goto("handing")
        /\ UNCHANGED promptVars
     \/ /\ "wrong" \in Answer /\ attempt < Attempts
        /\ attempt' = attempt + 1
        /\ UNCHANGED <<action, needs, piped, answers, parentVars>>
     \/ /\ "unreadable" \in Answer \/ ("wrong" \in Answer /\ attempt = Attempts)
        /\ Quit("failed")
        /\ UNCHANGED promptVars
  /\ UNCHANGED <<childVars, fileVars>>

\* Slip: a file with an empty password for those that need none.
HandsOver_Always == TRUE

\* if opts.NeedsCredential
HandsOver == needs

\* writeCredentialFile: CreateTemp fails, or Chmod or the write does; then the
\* file is removed while it is open, which Windows refuses, and closed.
HandOver ==
  /\ parent = "handing"
  /\ \/ Goto("reporting") /\ cred' = IF HandsOver THEN "whole" ELSE "none"
     \/ needs /\ Quit("failed") /\ cred' \in {"none", "part"}
  /\ UNCHANGED <<promptVars, childVars, report, refused>>
-----------------------------------------------------------------------------
(* relaunchElevated. *)

\* CreateTemp for the report.
CreateReport ==
  /\ parent = "reporting"
  /\ \/ Goto("launching") /\ report' = "empty"
     \/ /\ parent' = "cleaning" /\ code' = "failed"
        /\ UNCHANGED <<handle, exit, shown, report>>
  /\ UNCHANGED <<promptVars, childVars, cred, refused>>

\* Slip: the exit code of a wait that never happened.
AfterLaunch_NoWait == "replaying"

\* The child is waited for.
AfterLaunch == "waiting"

\* Consent; consent to a child that ShellExecuteEx gives no handle of, which
\* is not waited for; refusal.
Launch ==
  /\ parent = "launching"
  /\ \/ /\ child' = "starting"
        /\ parent' = AfterLaunch
        /\ code' = "ok"
        /\ UNCHANGED handle
     \/ /\ child' = "starting"
        /\ parent' = "replaying"
        /\ code' = "ok"
        /\ handle' = FALSE
     \/ /\ parent' = "replaying"
        /\ code' = "failed"
        /\ UNCHANGED <<child, handle>>
  /\ UNCHANGED <<promptVars, exit, shown, childExit, redirected, fileVars>>

\* Slip: the end of the child is told by its report.
ChildIsOver_Reported == report \in {"ok", "error"}

\* WaitForSingleObject on the child's process.
ChildIsOver == child = "ended"

Await ==
  /\ parent = "waiting"
  /\ ChildIsOver
  /\ parent' = "replaying"
  /\ code' = childExit
  /\ UNCHANGED <<promptVars, handle, exit, shown, childVars, fileVars>>

\* WaitForSingleObject fails, wherever the child is, or GetExitCodeProcess.
AwaitFails ==
  /\ parent = "waiting"
  /\ parent' = "replaying"
  /\ code' = "failed"
  /\ UNCHANGED <<promptVars, handle, exit, shown, childVars, fileVars>>

\* A removal that the system may refuse, as when a scanner has the file open;
\* nobody looks at its error.
Refuses(who) == refused' = refused \cup {who}

\* The report is replayed, if it can be read, and removed, unless the child
\* has it open.
Replay ==
  /\ parent = "replaying"
  /\ parent' = "cleaning"
  /\ shown' \in {report, "none"}
  /\ \/ /\ redirected => child = "ended"
        /\ report' = "none"
        /\ UNCHANGED refused
     \/ Refuses("report") /\ UNCHANGED report
  /\ UNCHANGED <<promptVars, code, handle, exit, childVars, cred>>

\* Slip: the file is left to the child to delete.
CredAfterReturn_Child == cred

\* defer os.Remove(credFile)
CredAfterReturn == "none"

Return ==
  /\ parent = "cleaning"
  /\ \/ cred' = CredAfterReturn /\ UNCHANGED refused
     \/ cred # "none" /\ Refuses("parent") /\ UNCHANGED cred
  /\ Quit(code)
  /\ UNCHANGED <<promptVars, childVars, report>>

\* Ctrl-C, or the task manager: no deferred call runs, both files stay.  The
\* child is a process of its own.
ParentDies ==
  /\ parent # "ended"
  /\ Quit("killed")
  /\ UNCHANGED <<promptVars, childVars, fileVars>>
-----------------------------------------------------------------------------
(* The child. *)

ChildEnds(how) ==
  /\ child' = "ended"
  /\ childExit' = how
  /\ report' = IF redirected THEN how ELSE report
  /\ UNCHANGED redirected

\* redirectElevatedOutput: O_CREATE brings back a report already removed; a
\* file that cannot be opened leaves the output on the child's own console.
Redirect ==
  /\ child = "starting"
  /\ child' = IF action = "install" THEN "preparing" ELSE "working"
  /\ \/ redirected' = TRUE /\ report' = "empty"
     \/ UNCHANGED <<redirected, report>>
  /\ UNCHANGED <<promptVars, parentVars, childExit, cred, refused>>

\* prepareInstall loads the config once more before resolveAccount.
ChildPrepares ==
  /\ child = "preparing"
  /\ \/ /\ child' = IF needs THEN "reading" ELSE "working"
        /\ UNCHANGED <<childExit, redirected, report>>
     \/ ChildEnds("error")
  /\ UNCHANGED <<promptVars, parentVars, cred, refused>>

\* os.ReadFile of the credential file, which may be gone or not readable.
ReadCredential ==
  /\ child = "reading"
  /\ child' \in {"removingNone"} \cup (IF cred = "none" THEN {} ELSE {"removing"})
  /\ UNCHANGED <<promptVars, parentVars, childExit, redirected, fileVars>>

\* Slip: the file is removed only when it could not be read.
CredAfterRead_Kept(read) == IF read THEN cred ELSE "none"

\* It is removed whether or not the read succeeded.
CredAfterRead(read) == "none"

RemoveCredential ==
  /\ child \in {"removing", "removingNone"}
  /\ \/ cred' = CredAfterRead(child = "removing") /\ UNCHANGED refused
     \/ cred # "none" /\ Refuses("child") /\ UNCHANGED cred
  /\ \/ /\ child = "removing"
        /\ child' = "working"
        /\ UNCHANGED <<childExit, redirected, report>>
     \/ child = "removingNone" /\ ChildEnds("error")
  /\ UNCHANGED <<promptVars, parentVars>>

\* install or control, which is Control.tla.
Work ==
  /\ child = "working"
  /\ \E how \in {"ok", "error"} : ChildEnds(how)
  /\ UNCHANGED <<promptVars, parentVars, cred, refused>>

ChildDies ==
  /\ child \notin {"none", "ended"}
  /\ child' = "ended"
  /\ childExit' = "terminated"
  /\ UNCHANGED <<promptVars, parentVars, redirected, fileVars>>

Parent == Prepare \/ Prompt \/ HandOver \/ CreateReport \/ Launch \/ Await
            \/ Replay \/ Return
Child == Redirect \/ ChildPrepares \/ ReadCredential \/ RemoveCredential \/ Work

BothEnded ==
  /\ parent = "ended" /\ child \in {"none", "ended"}
  /\ UNCHANGED vars

Next == Parent \/ AwaitFails \/ Child \/ ParentDies \/ ChildDies \/ BothEnded

Spec == Init /\ [][Next]_vars

\* A process that can go on does, and somebody answers the prompts.  Nothing
\* is gained from a wait that fails.
FairSpec == Spec /\ WF_vars(Parent) /\ WF_vars(Child)
-----------------------------------------------------------------------------
(* Properties. *)

\* The types; the credential file exists only for a command that needs one.
TypeOK ==
  /\ action \in {"install", "control"}
  /\ needs \in BOOLEAN
  /\ piped \in BOOLEAN
  /\ answers \in [1..3 -> Answers]
  /\ attempt \in 1..3
  /\ parent \in {"preparing", "prompting", "handing", "reporting", "launching",
                 "waiting", "replaying", "cleaning", "ended"}
  /\ code \in {"none", "ok", "error", "terminated", "failed"}
  /\ handle \in BOOLEAN
  /\ exit \in {"none", "ok", "error", "terminated", "failed", "killed"}
  /\ shown \in {"none", "empty", "ok", "error"}
  /\ child \in {"none", "starting", "preparing", "reading", "removing",
                "removingNone", "working", "ended"}
  /\ childExit \in {"none", "ok", "error", "terminated"}
  /\ redirected \in BOOLEAN
  /\ cred \in {"none", "part", "whole"}
  /\ cred # "none" => needs
  /\ report \in {"none", "empty", "ok", "error"}
  /\ refused \in SUBSET {"report", "parent", "child"}

Returned == parent = "ended" /\ exit # "killed"

\* The parent returned without having seen the end of its child.
Unseen == child # "none" /\ (~handle \/ exit = "failed")

\* The command "waits for it, replays the child's output ... and returns its
\* exit code": unless it reports a failure of its own, a command that has a
\* handle of the child tells what the child did, and only after it has done
\* it; and the output is replayed in full, if it can be read at all.
OutcomeIsChilds ==
  Returned /\ child # "none" /\ ~Unseen =>
    /\ child = "ended"
    /\ exit = childExit
    /\ redirected /\ childExit # "terminated" => shown \in {childExit, "none"}

\* At whatever point the parent or its child gave up, a command that returns
\* leaves neither a password it has handed over nor a report in the temporary
\* directory, unless the system refused to remove it, or a child whose end it
\* has not seen writes its report still.  (A file that could not be written in
\* full stays, with part of the password: see HandOver.)
NothingIsLeft ==
  Returned =>
    /\ cred = "whole" => "parent" \in refused
    /\ report # "none" => "report" \in refused \/ Unseen

\* The child that works on the service has taken the password away, even
\* when its parent is no longer there to do so.
WorksWithoutFile == child = "working" /\ "child" \notin refused => cred = "none"

\* A parent waiting for the UAC child is not left waiting, and its command
\* returns, unless it is ended.
CommandReturns == parent = "waiting" ~> parent = "ended"

GivesUp == parent = "prompting" /\ parent' = "ended" /\ exit' = "failed" /\ ~piped

OnlyWrong(n) == \A i \in 1..3 : i <= n => answers[i] = "wrong"

\* "up to 3 attempts": a command that gives up at the console has been given
\* three wrong passwords, or only wrong ones before the console failed.
AllAttemptsCount ==
  [][GivesUp => \/ OnlyWrong(3)
                \/ \E k \in 1..3 : answers[k] = "unreadable" /\ OnlyWrong(k - 1)]_vars
=============================================================================
