# TLA+ models of termcp-relay

termcp-relay is a small SSH server that runs as a service: systemd, launchd or
the Windows service manager keeps it alive, clients open shells, run commands
and forward ports, and a `service` subcommand installs and controls it. This
directory holds TLA+ models of its parts, the TLC configurations that
check them on small instances, and proofs of their main properties for all
instances. Paths below are relative to the repository.

    tlc -config MCSession.cfg MCSession      # one run; likewise for each .cfg
    tlapm SessionProof.tla                   # one module of proofs

`PROJECT.json` lists the runs with their properties, the lines of source each
definition stands for, a broken variant of the code for every property (the
definitions commented "Slip:" beside the ones they break), the hazards of the
code with the properties aimed at them, and the theorems.

## 1. Inventory

| Component | State it keeps | Operations | What is hard about it | What makes it correct |
|---|---|---|---|---|
| Session channel, `sshserver/session.go` | the command, `sigCh` (capacity 8), `winCh`, two or three goroutines | set-up, `cmd.Start`, signal forwarding, window draining, `cmd.Wait`, `sess.Exit` | five goroutines, the process and the client run concurrently; `cmd.Process` is read without a lock; `Wait` waits for copiers that wait for the client | the exit status is the command's, and comes last; nothing that sends to the handler's channels stays blocked; a KILL ends the command |
| Host key, `sshserver/hostkey.go` | `host_key.pem` | load, or generate and write | the file is truncated and written in place, not synced, and may be shared by two instances | clients see the same key after every restart; a start comes to serve |
| Server and daemon life cycle, `sshserver/server.go`, `service/service.go` | `started`, the listener, the log file, ssh.Server's tables | `Program.Start`, `Program.Stop`, `Server.Start`, `Server.Stop`, the serve goroutine | Stop may come before the serve goroutine has run; records come after the log is closed; the listener is closed twice | the port is free after Stop; the exit tells the manager the truth |
| Service manager on Linux, `service/platform_linux.go`, `kserviceConfig` | unit state, restart timer, start counter | restart, start limit, operator's start and stop | the delay and the limit's interval are equal | a failed daemon is always restarted |
| Windows manager and macOS options, `service/platform_windows.go`, `platform_other.go` | recovery action | restart after a failure | recovery competes with command lines | see service commands |
| Service commands, `service/cli.go`, `lsaright_windows.go`, `status_windows.go` | the registered service, its account, the logon right | install, start with grant and retry, stop, restart, uninstall, status | several calls per command, each may fail; other command lines, crashes and recovery come between them | no right is granted to an account without a service; an uninstalled service does not run; a missing right is mended before the password is blamed |
| Elevation, `service/cli.go`, `elevate_windows.go`, `account_windows.go`, `logon_windows.go` | credential file, report file, the child | prompt with three attempts, hand-over, UAC launch, wait, replay, clean-up | two processes over two files, each may end at any point; reads, waits and removals fail | the parent tells the child's outcome; no password stays on the disk |
| Configuration, `config/config.go` | the loaded settings, once per start | Load, normalize, Validate | three interacting authentication settings, loopback rule; the key file is looked for here and read later | what is admitted can be served; sound files are not refused |
| Client authentication, `sshserver/auth.go` and `New` | the keys, once per start | LoadAuthorizedKeys, choice of handlers, password and public key checks | which handlers are set decides what a client may do; files are edited while they are read | those get in whom the files entitle, and only they |
| Session environment, `sshserver/env*.go` | none of its own; reads the registry | `readEnvKey`, `expandLayer`, `composeEnv`, `mergePath`, `replaceEnv`, `expandPercent` | the registry changes while its names are listed by index and its values read one by one; enumeration order, unbalanced `%` | a name that did not change has its current value; one entry per name; a clean PATH |
| Work directory and shell choice, `service.go`, `session.go` | none | fixed lists of candidates | none | the first usable candidate |
| SFTP, port forwarding | none of their own | hand over to libraries; two callbacks | none | forwards what is allowed |
| Pseudo-terminals, `pty_*.go` | the terminal | start of a command on a PTY | output copied by the library | |
| Command line, template, connect hints, packaging | none | flags, printing | none | |

How they interact. `main` runs `Program.Start` (configuration, log, host key,
server) and waits for a signal; the manager starts it, watches how it exits and
restarts it. The serve goroutine creates a connection, and a connection creates
sessions, each with its own handler. The `service` subcommand changes the
manager's registration in another process, and on Windows it starts itself
again with more rights; these two processes meet in two temporary files. The
host key file is what one run of the daemon leaves to the next.

## 2. Modules

| Module | Models | Instance | Proofs |
|---|---|---|---|
| `Session` | `handleSession`, its goroutines, os/exec's copiers, the library's request loop, the process, the client | `MCSession` | `SessionProof` |
| `RemoteCommand` | what a session channel promises, abstractly | through `Session` | |
| `HostKey` | `loadOrCreateHostKey` in one or several processes, the file, the disk | `MCHostKey` | `HostKeyProof` |
| `Relay` | one run of the daemon: Start, Stop, serve goroutine, connections | `MCRelay` | `RelayProof` |
| `Lifecycle` | one run of the daemon as its manager sees it | through `Relay` and `Unit` | |
| `Unit` | the systemd unit around the process of `Lifecycle` | `MCUnit` | `UnitProof` |
| `Control` | the `service` commands against the Windows manager | `MCControl` | `ControlProof` |
| `Elevation` | the unelevated command and its UAC child | `MCElevation` | `ElevationProof` |
| `Access` | from `config.toml` and `authorized_keys` to the server's handlers and their answers | `MCAccess` | `AccessProof` |
| `SessionEnv` | the environment of a session on Windows, read from the registry | `MCSessionEnv` | `SessionEnvProof` |

Composition. `Session` implements `RemoteCommand` and `Relay` implements
`Lifecycle` (an `INSTANCE ... WITH` and the abstract `Spec` as a property).
`Unit` uses the actions of `Lifecycle` for its process, so what `Relay` is shown
to implement is exactly what `Unit` relies on: a daemon that was ready ends
without an error when asked to, and otherwise only by a crash. `Elevation`'s
step `Work` is what `Control` does in detail. `Access` is the part of
`Program.Start` that `Relay` has as `LoadConfig` and `Prepare`, and `SessionEnv`
is what `Session` has inside `SetUp`.

### Session

`pc` is the handler's place: `entered` (line 68), `starting` (after
`sess.Signals` and `sess.Pty`), `waiting` (in `cmd.Wait`), `reaped` (exit code
chosen), `done`. `SetUp`, `StartCommand` or `StartFails`, `WaitReturns` and
`Finish` are its steps. `published` says whether the store to `cmd.Process` is
visible to the forwarder: the code has no lock there, so the forwarder may see
nil for a while after the process runs. `sigCh`, `winCh` and `inflight` are the
channels; the library's loop blocks on a full one. `WaitOver` is the condition
under which `cmd.Wait` returns: without a PTY it includes both copiers. `Copied`
says that os/exec has copiers only then, since a PTY command gets the terminal
instead of the session. `lost`
records signals dropped by the forwarder's `continue`. Stdout and stderr are
one stream. A chunk of output is a count.

### HostKey

`file` is what a reader finds (a key, `Absent`, or `Torn` for a file that does
not parse), `disk` what a power loss is sure to leave. `os.WriteFile` is two
steps, `Truncate` and `Write`. Every process has its place in Start and the
signer it has loaded, and `pinned` is the clients' known_hosts entry for it. A
read may also fail for another reason (`Denied`). `raced` is a history variable:
a process found no file while another was between finding none and having
written one.

### Relay and Lifecycle

`main` walks through Program.Start (`boot` to `bound`), is `ready`, and then
through Program.Stop. Until `ready` a termination signal kills the process
since `signal.Notify` comes after Start. `serve` is the goroutine of
Server.Start; `tracked` says whether ssh.Server knows the listener. A connection
is in the backlog, in its handshake (not in ssh.Server's table), open (in it) or
closed. `lost` says that a record was written after the log file was closed.
`CloseWaitsFor` is empty since the code calls `Close` and not `Shutdown`.

### Unit

Time is in ticks of `1/TicksPerSecond` seconds. `wait` is the restart timer,
`age` and `starts` the start limit's interval and counter, which count the
operator's starts too. The numbers are those of the unit template. A process
lasts at least a tick: between its start and its end some time passes, and this
is what makes a delay of exactly the interval's length long enough.

### Control

The state is the manager's (`installed`, `running`, `recovering`, `account`,
`troubles`), the policy's (`rights`) and where each command line is. `troubles`
is what keeps the account from logging on although it has the right: a password
that the manager holds and that is no longer right, and an account or password
that has expired (or is barred otherwise, which the manager reports with the same
generic error). `logonFailure` takes all of them, and a missing right, for the
same thing, so a start that meets any is a `"logon failure"`. Each call of `install`, `control` and
`grantLogonRightAndRetry` that the manager or the policy answers is one step.
With `Flaky` any call may fail for reasons of its own. `served` is a history
variable: accounts the service was registered with, or that held the right
before. `calm` is fixed at the start: in a calm behaviour commands come one at a
time, no call fails for reasons of its own (`MayFail`) and the only events are a
changed password and an expiry. Two properties are about calm behaviours; they share an
instance with the others, so one run has both.

### Elevation

`parent` and `child` are the places of the two processes, `cred` and `report`
the two files. `Prepare` to `Return` follow `prepareInstall`,
`promptVerifiedPassword`, `maybeElevate` and `relaunchElevated`; `Redirect` to
`Work` follow the same command line in the child. `handle` is FALSE when
ShellExecuteEx gave no process handle, and `piped` TRUE when standard input is
not a console; both are choices of the environment. `ParentDies` and
`ChildDies` may come at any point.

Every error return is a branch: a password that cannot be read ends the prompt
(`Prompt`), WaitForSingleObject or GetExitCodeProcess may fail while the child
runs or after it has ended (`AwaitFails`), the report may not be readable
(`Replay`). `HandOver` fails before there is a file, or leaves one with `"part"`
of the password: writeCredentialFile removes it while it is open, which Windows
refuses. Removals of a file that is closed may be refused too, and the code
ignores their errors; `refused` records whose were, for the properties.

### Access

`conf` and `keyFile` are the two files, `cfg` and `keys` what the daemon has
loaded. A start is `Decode` (Load up to normalize), `Validate`, `LoadKeys` and
`Serve`; the operator may edit either file before and after each, and `edited`
says whether that happened since the start began. A setting is told apart only
as far as a check does: the host part of the address, whether `log_level` is one
of the four, whether `authorized_keys` is missing, blank or names the file. A
blank path passes for a method in the first two checks and fails in `os.Stat`, as
it names no file. A broken file stands for one that is missing too. `Accepts` is
the answer of the handlers New would install; without any, the library accepts
everybody. `Entitled` and `Sound` state, from the files alone, who is to get in
and which files can be served; `Local` is which hosts only the machine itself can
reach, which an address without a host part is not. `Disputed` are the files that
the template says are refused and the code serves; a run of their own shows them.

### SessionEnv

`registry` holds the values of the machine's and the user's key in their stored
order. A session opens a key (`Open`; it may fail), lists its names
one index after the other (`EnumValue`, `EndList`: ReadValueNames is a loop of
RegEnumValue, and an error of it discards the list), reads value after value
(`ReadValue`; `SkipValue` when the value has gone or is not a string), and
composes. An installer writes or deletes between any two of these steps. A deletion
moves the values behind it up by one: the next name to be
listed, if its new index was listed already, is passed over (`Hides`, collected in
`hidden`). A name deleted and written anew is at the end of the key, and may be
listed and read twice; `Latest` is what the code's lookups make of that.
`disturbed` collects the names changed after their key was opened, and those of a
key that could not be listed: for these nothing is promised. Values
are sequences of `Words` with `%` and `;` as words of their own, so that
`ExpandPercent` and `MergePath` do on them what the code does on bytes. Each loop
of env.go is a recursive function of the position it has reached. A name
stands for all its spellings (the code folds case and keeps the last spelling),
trimming of blanks in PATH is left out, and so are block entries without a name
(`=C:=...`), which `composeEnv` drops, and a key's default value, which has no
name and is skipped.

## 3. Runs

| Run | Instance and bounds | Shows |
|---|---|---|
| `session` | `sigCh` of capacity 1, three requests from {KILL, USR1, window change}, two exit codes, one chunk | types; `StatusIsFinal`; `KeepsPromise` (implements `RemoteCommand`); under fairness `RequestsDrain`, `KillIsObeyed`, `HandlerFinishes` |
| `session_hang` | the same without requests | the code does **not** satisfy `ExitIsReported` |
| `host_key` | two instances sharing the file, six keys, one crash, one power loss | types; `FingerprintIsStable`, `StaysSettled`; under fairness `Recovers` |
| `host_key_torn` | one instance, one crash | the code does **not** satisfy `RestartServes` |
| `relay` | three connections | types; `StopFreesPort`, `RecordsReachTheLog`; `IsADaemon` (implements `Lifecycle`); under fairness `StopEnds` |
| `unit` | four ticks a second, with and without an operator | types; `TimerIsNeverRefused`; under fairness `RestartsAfterFailure` |
| `control` | two command lines, two accounts and LocalSystem, three commands, one event, failing calls; calm and not | types; `NoStrayGrant`; in calm behaviours `RemovedMeansStopped`, `RightIsMended` |
| `control_removed` | one command line, one crash | with a crash the code does **not** satisfy `RemovalStops` |
| `elevation` | one parent, one child, three answers, each right, wrong or unreadable; either may be ended | types; `OutcomeIsChilds`, `NothingIsLeft`, `WorksWithoutFile`, `AllAttemptsCount`; under fairness `CommandReturns` |
| `access` | two users, passwords and keys, three addresses, every configuration over them, one edit | types; `NamedMethodsAreAsked`, `FilesAreInForce`, `RefusedForCause` |
| `access_open` | the same without an edit | the code does **not** satisfy `OpenStaysLocal` |
| `env` | five values, up to two in each key at first, two changes by an installer | types and one entry per name; `UntouchedIsCurrent`, `PathIsClean`, `OrderDoesNotMatter`, `PercentsPair` |

Why the bounds are enough. A capacity of 1 with three requests fills `sigCh`
and blocks the loop with one more behind it; a larger capacity adds only
positions in a queue, and the safety proofs are for every capacity. One chunk
tells output that was cut off from output that was not; an exit code that is 0
and one that is not tell a success from a failure. Two instances are what the
README describes for one directory. Keys are only compared, so a new key may be
any that no file, process or client holds: the keys suffice when there are as
many as can be held at once, two per instance and two for file and disk. Three
connections are in three different places (backlog, handshake, open) when Stop
comes. Four ticks a second allow more
starts per interval than the limit admits, so that the limit is reached. Two
command lines and three commands let one interfere between the two calls of
another, once before and once after. In `access` one edit falls between any two
steps of a start or after it, and the theorems are for any number; Init has every
pair of files, so a second edit adds no new pair. The values of `env` are chosen
so that each case of the code occurs: a reference to a plain, an expandable, an
inherited and an unknown name, one reference right behind another, an empty one,
an unpaired `%`, a PATH with an empty and a repeated entry, a value that is not a
string, a name that block and key, and one that block and request set, a name that
a key holds and nothing else, and an inherited block that has a name twice. Two
values in a key are enough for one to name the other in either order and for a
deletion of one to hide the other, two changes for a name to be deleted and written
anew while its key is listed, and the theorems are for any values, keys of any
length and any number of changes. The bounds are the constants
`MaxRequests`, `MaxChunks`, `MaxCrashes`, `MaxPowerLosses`, `MaxCommands`,
`MaxEvents`, `MaxEdits` and `MaxWrites` in the guards, and `MaxEntries` in Init;
no state constraint is used.

`Relay` and `Elevation` stop when their processes have ended, `Session` when
every goroutine but the forwarder has, and `Control` when nobody gives another
command; each has a stuttering step for that (`Ended`, `BothEnded`, `Idle`).
`HostKey`, `Unit`, `Access` and `SessionEnv` go on with another start or session.
So deadlock is checked in all runs.

## 4. Fairness

* `Session`: weak fairness of every goroutine (the Go scheduler runs what can
  run) and of the visibility of the store to `cmd.Process`. Nothing is assumed
  of the command or the client, except that a client which keeps the channel open
  keeps reading. That is why `HandlerFinishes` asks for the client's EOF, and why
  `ExitIsReported`, without that proviso, fails.
* `HostKey`: `Recovers` assumes that the manager starts a failed process again
  (weak fairness) and that failures of the machine, a read denied or a taken
  port, are not permanent (strong fairness of Load and Serve). Nothing is assumed
  of a first run. `RestartServes` adds that a first run goes on too
  (`FullyFairSpec`), and still fails on a file that does not parse.
* `Unit`: time passes, the timer fires and an ended process is reaped. Nothing
  is assumed of the process or the operator; the restart holds without an
  operator, who could stop the unit.
* `Elevation`: both processes run on and somebody answers the prompts. A wait
  that fails is no part of the fairness: the parent must not need it to return.
* `Relay`: Program.Stop runs on once it was called. Nobody has to call it, and
  nothing is assumed of the clients, the connections' goroutines or the serve
  goroutine: that is the point of `StopEnds`.
* `Control`, `Access` and `SessionEnv` have safety properties only, and no
  fairness.

## 5. What is proved

The proofs are for every value of the constants that the named assumptions
admit (`SessionAssumption`, `HostKeyAssumption`, `UnitAssumption`,
`ControlAssumption`, `AccessAssumption`, `BrokenAssumption`, `EnvAssumption`:
kinds of values and distinctness, no sizes; `Relay` and `Elevation` have none).

* `SessionProof`. `TypeCorrect`, `StatusFinality` (`StatusIsFinal`) and
  `Implements` (`KeepsPromise`). `StatusIsFinal` is not inductive: it says
  nothing of the state just before `sess.Exit`. `IInv` adds `Phases` (which
  processes and copiers exist at each place of the handler), `Pipe` (a stdout
  copier that is done has shown everything unless the channel is closed) and
  `Knows` (a handler about to exit holds an outcome of a process that is gone).
  Refinement then goes action by action: the handler's `Finish` is `Report` or
  `Abandon`, `StartFails` is `Refuse`, the request loop and the forwarder
  stutter except when a signal ends the process.
* `HostKeyProof`. `TypeCorrect`; `KeyFileOutlives` (`StaysSettled`), which
  needs only types, since a process that is not in its first run has no step
  that writes; `FingerprintStability` (`FingerprintIsStable`) for every number of
  instances. The property says nothing of processes that do not serve yet, so the
  invariant adds `OneFirstRun` (without a race and a power loss one process at
  most is in its first run, and there is no key in the file until it has
  written one) and `OneKey` (a signer that is ready or serves, and a pinned key,
  is the one in the file).
* `RelayProof`. `TypeCorrect`, `PortIsFreed` (`StopFreesPort`) with `Bound`
  (until Stop the flag, the listener and the serve goroutine go together),
  `LogOutlivesServer` (`RecordsReachTheLog`) with `LogInv` (the log is closed only
  in Stop's last steps), and
  `Implements` (`IsADaemon`).
* `UnitProof`. `TypeCorrect` and `TimerRestarts` (`TimerIsNeverRefused`). The
  invariant is `Margin`: while a unit waits, the interval is at least as old as
  the part of the delay that has passed, and one tick more because the process
  lasted one; so it has expired when the timer fires.
* `ControlProof`. `TypeCorrect` and `GrantsFollowRegistration`
  (`NoStrayGrant`) for every number of command lines. `NoStrayGrant` alone does
  not say what a command line between two calls will grant to; `Registered`
  adds that the account it holds was registered. `RemovalStopsTheService`
  (`RemovedMeansStopped`) and `RightFirst` (`RightIsMended`) need `Calm`: in a
  calm behaviour one command line at most is busy, nothing recovers, what runs is
  installed, and each place of the busy one tells what it has seen (a service
  about to be deleted does not run; one that met a logon failure still has its
  cause, and a retried start has the right).
* `ElevationProof`. `TypeCorrect`, `OutcomeFollowsChild`, `FilesAreRemoved`,
  `ChildRemovesPassword` and `AttemptsCount`. The invariant relates the places of
  both processes to the two files and to the answers given so far. `Waited` and
  `Reported` say of a parent past its wait what the properties say of one that has
  returned, with `Outcome` for the code it is going to return; `NothingYet` adds
  that a file with part of a password means that there is no child; `Removed` and
  `Asked` are the password file and the prompt.
* `AccessProof`. `TypeCorrect`, `MethodsAreInForce`
  (`NamedMethodsAreAsked`),
  `UneditedFilesAreInForce` and `RefusalHasCause`, for every set of users,
  passwords, keys and hosts and any number of edits. The invariant says what each
  place of a start has established of `cfg` (and, while nothing was edited, of the
  files): `MethodsAreInForce` holds under edits because `LoadKeys` itself refuses
  an empty file, whatever Validate saw.

* `SessionEnvProof`. `TypeCorrect`, `Current` (`UntouchedIsCurrent`),
  `PathClean` (`PathIsClean`), `OrderFree` (`OrderDoesNotMatter`) and `Pairs`
  (`PercentsPair`), for any values in the keys, any inherited blocks and any number
  of changes by the installer. What is assumed of the words is that `%`, `;`, PATH
  and TERM are among them.

  The invariant (`Inductive`) has six parts: `TypeInv`; `KeysInv` (a key has a
  name once, and grows by one at most with each change); `ReadInv` (a name that is
  not disturbed is listed and read once, and not read while it is on the list);
  `ListInv` (while a key is listed, a name that is neither disturbed nor hidden is
  on the list just if its place in the key is below the next index); `FreshInv` (a
  name that is neither disturbed nor hidden and no longer on the list was read as
  its key holds it now, or is not readable); `ComposedInv` (a block that is ready was
  composed from what was read, with or without the request's TERM).
  `UntouchedIsCurrent` speaks of a ready block only, so nothing about the reading
  follows from it; `FreshInv` is what the steps of a session and of the installer
  preserve, with `ListInv` for the steps of the list, and the freshness of the block is a consequence of it and of what
  `Composed` computes.

  The other half is about the operators. Induction over sequences is obtained
  from the well-foundedness of the naturals, for sets instead of predicates
  (`SetInduction`, then `Upwards`, `Downwards`, `SeqInduction`). `LoopRuns` and
  `ScanRuns` show that the recursive function of a loop exists and satisfies its
  equation at every position. On that rest the facts about each function of env.go:
  `AddSets` and `ReplaceEnvSets` (one name set, the others left alone),
  `OverlayIs` and `ComposedIs` (the last layer that has a name decides it),
  `PartsJoined`, `KeptIs` and `MergePathIsClean` (splitting undoes joining, each
  directory is kept once, in order), `ExpandPercentPlain` and `ExpandPercentSame`
  (a value without `%` is itself; an expansion depends only on the names that it
  refers to), `ExpansionIs` (what a layer expands to, whatever its order) and
  `PairsAre` (the scan is the pairing of the `%`, by induction from the end).

Only model-checked: liveness (`RequestsDrain`, `KillIsObeyed`, `HandlerFinishes`,
`Recovers`, `StopEnds`, `RestartsAfterFailure`, `CommandReturns`), which is out of
this prover's reach. Every invariant and every safety property of the passing runs
is a theorem.

## 6. Where the code and its documents disagree

Four runs show a disagreement (`findings` in `PROJECT.json`):

* `session_hang`: without a PTY `cmd.Wait` waits for the goroutine that copies
  the client's input, so a command that has ended is not reported to a client
  that keeps its input open and sends nothing (session.go:112-122).
* `host_key_torn`: a crash between truncating and writing the key file leaves a
  file no later start can parse (hostkey.go:42), although the service "restarts
  after a crash" (README.md:102-103).
* `control_removed`: uninstall asks for the state once (cli.go:515); a recovery
  restart after that leaves the process of a deleted service running.
* `access_open`: a daemon that accepts everybody is served on addresses that are
  not local. "Running without auth on a non-loopback addr is refused" says the
  template, and of `no_auth` "Refused on non-loopback binds" (config.go:203-206);
  but Validate does not look at the address when `no_auth` is set, and its own
  error message (config.go:128) offers `no_auth = true` as the way to run on such an
  address (README.md:81-82 has "unless explicitly enabled"); and `isLoopback` takes
  an address without a host part (`:2222`) for a local one (config.go:231), while
  the listener binds it on every interface, so that it is served without any method
  and without `no_auth`. `Disputed` are the files of these two kinds, and
  `RefusedForCause` says that no others are served against the template.

The models also contain the following behaviours of the code, which the
properties are worded around:

* A signal taken from `sigCh` before `cmd.Process` is visible is dropped
  (`DropSignal`).
* Two instances that share the key file and overlap in their first run both
  generate a key, and the one whose file is overwritten shows another key later;
  and a power loss soon after the first run may take the key with it.
  `FingerprintIsStable` leaves out just these two cases.
* A permanent accept error ends the serve goroutine while the process stays up
  (`AcceptFails` leaves `main` at `ready`).
* Program.Stop closes the log file while the serve goroutine and connections in
  their handshake may still log; the file comes first in the MultiWriter, so such a
  record is lost to both outputs (service.go:216-221), although README.md:153-154
  says "the flag makes the daemon write to stderr *and* that file".
  `RecordsReachTheLog` is about all records before that.
* `start` blames the password when something else is wrong: logonFailure takes an
  expired account or password, and the generic error 1069, for a failure of the
  credentials (platform_windows.go:24-30), and when the account cannot be read or
  the right cannot be granted the first error stands (cli.go:470-480).
  README.md:220-222 says the hint "is only shown when the right is already present
  (i.e. the password really is the problem)"; the first half holds in calm
  behaviours (`RightIsMended`), the second does not.
* When the password cannot be written in full, writeCredentialFile removes the file
  before it is closed (account_windows.go:73-76), which Windows refuses, and a file
  with part of the password stays, although "The file is removed" (line 61).
  `NothingIsLeft` is about a password that was written.
* A value deleted while a key is listed moves the next name to an index already
  listed, and a value that nobody touched is not read (env_windows.go:55), although
  readEnvKey "reads every value" (line 42). `UntouchedIsCurrent` leaves out just
  the names in `hidden`.
* A connection in its handshake when ssh.Server.Close runs becomes open after
  Stop, until the process ends.
* A logon right may be granted to an account that the service ran as until
  another command line replaced it; `NoStrayGrant` counts it as served.
* The elevated child loads the configuration before it reads and deletes the
  credential file, so the file stays when it ends there and the parent was killed,
  and likewise when consent is refused to a parent that was killed at the prompt.
* Without a process handle, or when the wait fails, the parent returns before the
  child has ended; `OutcomeIsChilds` is about a parent that has a handle and
  reports no failure of its own, and the report of such a child may stay.
* From a pipe only the first password is read; `AllAttemptsCount` is about a
  console.
* A PATH that was deleted and written anew while its key was listed is read twice
  and merged with itself; `PathIsClean` is about a PATH read once.
* An expandable value that names another expandable value of its key sees it
  only when that one is enumerated first; `OrderDoesNotMatter` leaves such keys
  out.
* PATH is cleaned only when the user's key has one; a machine PATH alone is taken
  as it is, and `PathIsClean` says so.

## 7. What is not modelled

* The choice of the work directory (`resolveWorkDir`) and of the shell
  (`defaultShellArgs`): a fixed list of candidates, read once; a model could only
  repeat it.
* `init` and the template: one create with O_EXCL, no state after it.
* SFTP, and forwarding beyond the two callbacks: handed over to libraries; no
  state of this program.
* The terminal of a PTY session and the library's copying through it;
  a PTY session has no copiers in the model, and `StatusIsFinal` says nothing
  about the tail of its output.
* launchd, Upstart, SysV and OpenRC: options are set, nothing acts on them here.
* `service status`, connect hints, flags: reading and printing.
* The already-started checks and mutexes of `Server`: Start and Stop are each
  called once, by the same goroutine, so they never wait.

External parts (charmbracelet/ssh, os/exec, systemd, the Windows manager, the
file system, clients and users) are modelled from how the code uses them.

## 8. Plan

Done, in this order: `Session` with `RemoteCommand`, `HostKey`, `Relay` with
`Lifecycle`, `Unit`, `Control`, `Elevation`, `Access`, `SessionEnv`, with the
proofs above.

What could follow:

1. An abstract specification of the key store (a key is chosen once) that
   `HostKey` implements where first runs do not overlap.
2. A composition of `Relay` and `Session`: what Stop does to running sessions
   and their processes.
