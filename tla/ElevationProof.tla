--------------------------- MODULE ElevationProof ---------------------------
(***************************************************************************)
(* What a service command that elevates itself keeps to, wherever either   *)
(* process gives up or is ended.  The properties speak of a parent that    *)
(* has returned and of a child at work; they rest on where the two files   *)
(* are at every place the two processes can be in together.                *)
(***************************************************************************)
EXTENDS Elevation, TLAPS

\* The parent has not asked for consent yet.
Before == {"preparing", "prompting", "handing", "reporting", "launching"}

\* The parent no longer looks at the child or its report.
Past == parent = "cleaning" \/ Returned

\* Until consent there is no child, and a file only from its writing on.
NothingYet ==
  /\ needs => action = "install"
  /\ parent \in Before => child = "none"
  /\ parent \in Before \ {"launching"} => report = "none"
  /\ parent \in {"preparing", "prompting", "handing"} => cred = "none"
  /\ parent # "ended" => cred # "part"
  /\ child # "none" => cred # "part"
  /\ child = "none" => ~redirected

\* What the parent returns, or is about to.
Outcome == IF parent = "ended" THEN exit ELSE code

\* A parent that has a handle, and whose wait has not failed, has the child's
\* exit code.
Waited ==
  handle /\ child # "none" /\ (parent = "replaying" \/ Past) /\ Outcome # "failed" =>
    child = "ended" /\ Outcome = childExit

\* A report that can hold the child's outcome does, until it was replayed.
Reported ==
  /\ child = "ended" /\ redirected /\ childExit # "terminated" =>
       /\ parent \in {"waiting", "replaying"} => report = childExit
       /\ handle /\ Past /\ Outcome # "failed" => shown \in {childExit, "none"}
  /\ (child = "none" \/ (handle /\ Outcome # "failed")) /\ Past =>
       report = "none" \/ "report" \in refused

\* The password file is gone once either process is past removing it, if the
\* removal was not refused.
Removed ==
  /\ Returned /\ cred = "whole" => "parent" \in refused
  /\ child = "working" /\ "child" \notin refused => cred = "none"

\* Every answer so far was a wrong password.
Asked ==
  /\ parent = "preparing" => attempt = 1
  /\ parent = "prompting" /\ ~piped =>
       \A i \in 1..3 : i < attempt => answers[i] = "wrong"

Inv == TypeOK /\ NothingYet /\ Waited /\ Reported /\ Removed /\ Asked

USE DEF promptVars, parentVars, childVars, fileVars, Goto, Quit, ChildEnds,
        Returned, Past, Before, Outcome, Refuses, Answers

LEMMA InitEstablishes == Init => Inv
<1> SUFFICES ASSUME Init PROVE Inv
  OBVIOUS
<1>1. needs \in BOOLEAN /\ piped \in BOOLEAN /\ handle \in BOOLEAN
  BY Zenon DEF Init
<1>2. redirected \in BOOLEAN
  BY Zenon DEF Init
<1>3. TypeOK
  BY <1>1, <1>2 DEF Init, TypeOK
<1>4. NothingYet /\ Waited /\ Reported /\ Removed /\ Asked
  BY DEF Init, NothingYet, Waited, Reported, Removed, Asked
<1>5. QED
  BY <1>3, <1>4 DEF Inv

\* A step of the parent.
LEMMA ParentStep ==
  ASSUME Inv, Parent \/ AwaitFails
  PROVE  Inv'
<1> USE DEF Inv, TypeOK, NothingYet, Waited, Reported, Removed, Asked
<1>1. CASE Prepare
  BY <1>1 DEF Prepare
<1>2. CASE Prompt
  BY <1>2 DEF Prompt, Answer, Attempts
<1>3. CASE HandOver
  BY <1>3 DEF HandOver, HandsOver
<1>4. CASE CreateReport
  BY <1>4 DEF CreateReport
<1>5. CASE Launch
  <2>1. handle' \in BOOLEAN
    BY <1>5, Zenon DEF Launch
  <2>2. QED
    BY <1>5, <2>1 DEF Launch, AfterLaunch
<1>6. CASE Await
  BY <1>6 DEF Await, ChildIsOver
<1>7. CASE Replay
  <2>1. refused' \in SUBSET {"report", "parent", "child"}
    BY <1>7 DEF Replay
  <2>2. QED
    BY <1>7, <2>1 DEF Replay
<1>8. CASE Return
  <2>1. refused' \in SUBSET {"report", "parent", "child"}
    BY <1>8 DEF Return
  <2>2. QED
    BY <1>8, <2>1 DEF Return, CredAfterReturn
<1>9. CASE AwaitFails
  BY <1>9 DEF AwaitFails
<1>10. QED
  BY <1>1, <1>2, <1>3, <1>4, <1>5, <1>6, <1>7, <1>8, <1>9 DEF Parent

\* A step of the child.
LEMMA ChildStep ==
  ASSUME Inv, Child
  PROVE  Inv'
<1> USE DEF Inv, TypeOK, NothingYet, Waited, Reported, Removed, Asked
<1>1. CASE Redirect
  <2>1. redirected' \in BOOLEAN
    BY <1>1, Zenon DEF Redirect
  <2>2. QED
    BY <1>1, <2>1 DEF Redirect
<1>2. CASE ChildPrepares
  BY <1>2 DEF ChildPrepares
<1>3. CASE ReadCredential
  BY <1>3 DEF ReadCredential
<1>4. CASE RemoveCredential
  <2>1. refused' \in SUBSET {"report", "parent", "child"}
    BY <1>4 DEF RemoveCredential
  <2>2. QED
    BY <1>4, <2>1 DEF RemoveCredential, CredAfterRead
<1>5. CASE Work
  BY <1>5 DEF Work
<1>6. QED
  BY <1>1, <1>2, <1>3, <1>4, <1>5 DEF Child

\* Either of them is ended from outside.
LEMMA DeathStep ==
  ASSUME Inv, ParentDies \/ ChildDies
  PROVE  Inv'
<1> USE DEF Inv, TypeOK, NothingYet, Waited, Reported, Removed, Asked
<1>1. CASE ParentDies
  BY <1>1 DEF ParentDies
<1>2. CASE ChildDies
  BY <1>2 DEF ChildDies
<1>3. QED
  BY <1>1, <1>2

LEMMA Invariance == Spec => []Inv
<1>1. ASSUME Inv, UNCHANGED vars PROVE Inv'
  BY <1>1 DEF vars, Inv, TypeOK, NothingYet, Waited, Reported, Removed, Asked
<1>2. Inv /\ [Next]_vars => Inv'
  BY <1>1, ParentStep, ChildStep, DeathStep DEF Next, BothEnded
<1>3. QED
  BY InitEstablishes, <1>2, PTL DEF Spec

\* TypeOK: the types, and that a password file is never written for a
\* command that needs no password.
THEOREM TypeCorrect == Spec => []TypeOK
<1>1. Inv => TypeOK
  BY DEF Inv
<1>2. QED
  BY Invariance, <1>1, PTL

\* OutcomeIsChilds: with a handle of the child, a command that reports no
\* failure of its own tells what the child did, and only after it did it,
\* wherever the child ended.
THEOREM OutcomeFollowsChild == Spec => []OutcomeIsChilds
<1>1. Inv => OutcomeIsChilds
  BY DEF Inv, Waited, Reported, OutcomeIsChilds, Unseen
<1>2. QED
  BY Invariance, <1>1, PTL

\* NothingIsLeft: whatever failed, a command that returns has removed the
\* password it handed over, and the report too unless its child may still be
\* writing it, or else the system refused to remove the file.
THEOREM FilesAreRemoved == Spec => []NothingIsLeft
<1>1. Inv => NothingIsLeft
  BY DEF Inv, Reported, Removed, NothingIsLeft, Unseen, TypeOK
<1>2. QED
  BY Invariance, <1>1, PTL

\* WorksWithoutFile: the child has removed the password before it works on
\* the service, although its parent may be gone, unless that was refused.
THEOREM ChildRemovesPassword == Spec => []WorksWithoutFile
<1>1. Inv => WorksWithoutFile
  BY DEF Inv, Removed, WorksWithoutFile
<1>2. QED
  BY Invariance, <1>1, PTL

\* AllAttemptsCount: a command that gives up at the console was given three
\* wrong passwords, or nothing but wrong ones until the console failed.
THEOREM AttemptsCount == Spec => AllAttemptsCount
<1>1. ASSUME Inv, [Next]_vars, GivesUp
      PROVE  \/ OnlyWrong(3)
             \/ \E k \in 1..3 : answers[k] = "unreadable" /\ OnlyWrong(k - 1)
  <2>1. Prompt
    BY <1>1 DEF GivesUp, Next, Parent, Child, Prepare, HandOver, CreateReport,
                Launch, Await, AwaitFails, Replay, Return, Redirect,
                ChildPrepares, ReadCredential, RemoveCredential, Work,
                ParentDies, ChildDies, BothEnded, vars
  <2>2. attempt \in 1..3 /\ OnlyWrong(attempt - 1)
    BY <1>1 DEF Inv, TypeOK, Asked, GivesUp, OnlyWrong
  <2>3. CASE answers[attempt] = "unreadable"
    BY <2>2, <2>3
  <2>4. CASE answers[attempt] = "wrong" /\ attempt = 3
    BY <2>2, <2>4 DEF OnlyWrong
  <2>5. QED
    BY <1>1, <2>1, <2>3, <2>4 DEF Prompt, Answer, Attempts, GivesUp
<1>2. Inv /\ [Next]_vars =>
        [GivesUp => \/ OnlyWrong(3)
                    \/ \E k \in 1..3 : answers[k] = "unreadable"
                                         /\ OnlyWrong(k - 1)]_vars
  BY <1>1
<1>3. QED
  BY Invariance, <1>2, PTL DEF Spec, AllAttemptsCount
=============================================================================
