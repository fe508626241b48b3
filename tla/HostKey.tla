------------------------------ MODULE HostKey ------------------------------
(***************************************************************************)
(* The host key file: loadOrCreateHostKey of internal/sshserver/hostkey.go *)
(* as run by Server.Start in one or more daemon processes.  README.md's    *)
(* second instance (alt.toml beside config.toml) resolves the default      *)
(* host_key.pem to the same path, so the processes share the file.         *)
(*                                                                         *)
(* os.WriteFile is an open with O_TRUNC and then a write, and nothing      *)
(* forces the data to the disk: a process may die, or another may read,    *)
(* between the two, and a power loss may undo either.                      *)
(***************************************************************************)
EXTENDS Integers

CONSTANTS Instances,       \* daemon processes that share the path
          Keys,            \* the RSA keys that can be generated
          Absent,          \* there is no file
          Torn,            \* the file does not parse: truncated, not written
          Denied,          \* a read error other than "does not exist"
          MaxCrashes,      \* bound: processes killed
          MaxPowerLosses   \* bound: power losses of the machine

ASSUME HostKeyAssumption ==
  /\ Absent \notin Keys /\ Torn \notin Keys /\ Denied \notin Keys
  /\ Absent # Torn /\ Absent # Denied /\ Torn # Denied
  /\ MaxCrashes \in Nat
  /\ MaxPowerLosses \in Nat

VARIABLES
  file,      \* what a reader of the path finds
  disk,      \* what a power loss is certain to leave
  pc,        \* where Start of each process is
  key,       \* the signer of each process
  pinned,    \* the key the clients of each instance remember (known_hosts)
  raced,     \* did two processes make their first run at the same time
  crashes,   \* processes killed so far
  losses     \* power losses so far

vars == <<file, disk, pc, key, pinned, raced, crashes, losses>>

Init ==
  /\ file = Absent
  /\ disk = Absent
  /\ pc = [i \in Instances |-> "down"]
  /\ key = [i \in Instances |-> Absent]
  /\ pinned = [i \in Instances |-> Absent]
  /\ raced = FALSE
  /\ crashes = 0
  /\ losses = 0

Goto(i, label) == pc' = [pc EXCEPT ![i] = label]

\* Between finding no file and having written one.
Generating(i) == pc[i] \in {"generating", "generated", "writing"}
-----------------------------------------------------------------------------
\* Slip: the parse error is dropped.
Parses_Unchecked(r) == r \in Keys \cup {Torn}

\* Slip: the file is read in an encoding other than the one written.
Parses_OtherEncoding(r) == r \in {}

\* ParsePrivateKey accepts what ReadFile returned.
Parses(r) == r \in Keys

\* Slip: any error on the way to a signer leads to a new key.
Regenerates_OnAnyError(r) == r \notin Keys

\* errors.Is(err, os.ErrNotExist): the only result that leads to a new key.
Regenerates(r) == r = Absent

Load(i) ==
  /\ pc[i] = "down"
  /\ Parses(file)
  /\ key' = [key EXCEPT ![i] = file]
  /\ Goto(i, "ready")
  /\ UNCHANGED <<file, disk, pinned, raced, crashes, losses>>

\* The file is absent (or, for any reader, may fail to be read).
FindNone(i) ==
  /\ pc[i] = "down"
  /\ \E r \in {file, Denied} : Regenerates(r)
  /\ Goto(i, "generating")
  /\ raced' = (raced \/ \E j \in Instances \ {i} : Generating(j))
  /\ UNCHANGED <<file, disk, key, pinned, crashes, losses>>

LoadFails(i) ==
  /\ pc[i] = "down"
  /\ \E r \in {file, Denied} : ~Parses(r) /\ ~Regenerates(r)
  /\ Goto(i, "failed")
  /\ UNCHANGED <<file, disk, key, pinned, raced, crashes, losses>>

InUse == {file, disk} \cup {key[i] : i \in Instances}
                      \cup {pinned[i] : i \in Instances}

\* A generated key is nobody's: no file, process or client has it.  Keys
\* are only ever compared, so any such key stands for all of them.
Generate(i) ==
  /\ pc[i] = "generating"
  /\ Keys \ InUse # {}
  /\ key' = [key EXCEPT ![i] = CHOOSE k \in Keys : k \notin InUse]
  /\ Goto(i, "generated")
  /\ UNCHANGED <<file, disk, pinned, raced, crashes, losses>>

\* os.WriteFile, first half: O_CREATE|O_TRUNC.
Truncate(i) ==
  /\ pc[i] = "generated"
  /\ file' = Torn
  /\ Goto(i, "writing")
  /\ UNCHANGED <<disk, key, pinned, raced, crashes, losses>>

\* os.WriteFile, second half.
Write(i) ==
  /\ pc[i] = "writing"
  /\ file' = key[i]
  /\ Goto(i, "ready")
  /\ UNCHANGED <<disk, key, pinned, raced, crashes, losses>>

\* An error before the listener is bound (generating, mkdir, open, a full
\* disk, listen) makes Start return it: the process ends, the file stays as
\* it is.
StartFails(i) ==
  /\ pc[i] \in {"generating", "generated", "writing", "ready"}
  /\ Goto(i, "failed")
  /\ UNCHANGED <<file, disk, key, pinned, raced, crashes, losses>>

Serve(i) ==
  /\ pc[i] = "ready"
  /\ Goto(i, "serving")
  /\ UNCHANGED <<file, disk, key, pinned, raced, crashes, losses>>
-----------------------------------------------------------------------------
(* The clients, the service manager and the machine. *)

\* A client that has no key for the instance remembers the one it is shown.
Meet(i) ==
  /\ pc[i] = "serving"
  /\ pinned[i] = Absent
  /\ pinned' = [pinned EXCEPT ![i] = key[i]]
  /\ UNCHANGED <<file, disk, pc, key, raced, crashes, losses>>

\* The process is gone (failed to start, or was stopped); it starts again.
Restart(i) ==
  /\ pc[i] \in {"failed", "serving"}
  /\ Goto(i, "down")
  /\ key' = [key EXCEPT ![i] = Absent]
  /\ UNCHANGED <<file, disk, pinned, raced, crashes, losses>>

Crash(i) ==
  /\ pc[i] # "down"
  /\ crashes < MaxCrashes
  /\ crashes' = crashes + 1
  /\ Goto(i, "down")
  /\ key' = [key EXCEPT ![i] = Absent]
  /\ UNCHANGED <<file, disk, pinned, raced, losses>>

\* The system writes the file back in its own time.
WriteBack ==
  /\ disk # file
  /\ disk' = file
  /\ UNCHANGED <<file, pc, key, pinned, raced, crashes, losses>>

\* Without fsync the file may be as it was, as it is, or created and empty.
PowerLoss ==
  /\ losses < MaxPowerLosses
  /\ losses' = losses + 1
  /\ file' \in {disk, file} \cup (IF disk = file THEN {} ELSE {Torn})
  /\ disk' = file'
  /\ pc' = [i \in Instances |-> "down"]
  /\ key' = [i \in Instances |-> Absent]
  /\ UNCHANGED <<pinned, raced, crashes>>

Progress(i) == \/ Load(i) \/ FindNone(i) \/ LoadFails(i) \/ Generate(i)
               \/ Truncate(i) \/ Write(i) \/ StartFails(i) \/ Serve(i)

Next ==
  \/ \E i \in Instances : Progress(i) \/ Meet(i) \/ Restart(i) \/ Crash(i)
  \/ WriteBack \/ PowerLoss

Spec == Init /\ [][Next]_vars

(***************************************************************************)
(* The service manager starts a failed process again.  Failures of the     *)
(* machine (a denied read, a full disk, a taken address) come and go: a    *)
(* step that is possible again and again succeeds once.                    *)
(***************************************************************************)
Fairness ==
  \A i \in Instances :
    /\ WF_vars(pc[i] = "failed" /\ Restart(i))
    /\ SF_vars(Load(i) \/ FindNone(i))
    /\ SF_vars(Serve(i))

FairSpec == Spec /\ Fairness

\* The same of the steps of a first run.
FirstRunFairness ==
  \A i \in Instances :
    /\ WF_vars(Progress(i))
    /\ SF_vars(Generate(i))
    /\ SF_vars(Truncate(i))
    /\ SF_vars(Write(i))

FullyFairSpec == FairSpec /\ FirstRunFairness
-----------------------------------------------------------------------------
(* Properties. *)

\* Types; a process that writes the file, is ready or serves has a signer.
TypeOK ==
  /\ file \in Keys \cup {Absent, Torn}
  /\ disk \in Keys \cup {Absent, Torn}
  /\ pc \in [Instances -> {"down", "generating", "generated", "writing",
                           "ready", "serving", "failed"}]
  /\ key \in [Instances -> Keys \cup {Absent}]
  /\ \A i \in Instances :
       pc[i] \in {"generated", "writing", "ready", "serving"} => key[i] \in Keys
  /\ pinned \in [Instances -> Keys \cup {Absent}]
  /\ raced \in BOOLEAN
  /\ crashes \in 0..MaxCrashes
  /\ losses \in 0..MaxPowerLosses

Settled == file \in Keys /\ \A i \in Instances : ~Generating(i)

\* Persistence keeps the host fingerprint stable across restarts: whoever
\* has seen an instance's key is shown that key whenever it serves again,
\* however many instances share the path.  It takes two first runs at the
\* same time, or a power loss, to change it.
FingerprintIsStable ==
  ~raced /\ losses = 0 =>
    \A i \in Instances :
      pc[i] = "serving" /\ pinned[i] # Absent => key[i] = pinned[i]

\* Once the file holds a key and no first run is in progress, no process
\* ever replaces it, however often processes fail, crash and restart; and
\* once it has been written back, a power loss does not take it either.
StaysSettled ==
  [][Settled /\ (losses' = losses \/ disk = file)
       => Settled' /\ file' = file]_vars

\* With a key in the file, and on the disk, a process that is down comes to
\* serve, through crashes, failing starts and power losses.
Recovers ==
  \A i \in Instances :
    Settled /\ disk = file /\ pc[i] = "down" ~> pc[i] = "serving"

\* The same of any process that is down ("starts at boot and restarts after
\* a crash", README.md), without a key file to begin with.
RestartServes == \A i \in Instances : pc[i] = "down" ~> pc[i] = "serving"
=============================================================================
