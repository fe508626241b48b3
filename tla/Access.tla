------------------------------- MODULE Access -------------------------------
(***************************************************************************)
(* Who may log in: the way from config.toml and the authorized_keys file   *)
(* to the handlers of the SSH server.  Program.Start loads and validates   *)
(* the configuration (config.Load, Validate), reads the keys               *)
(* (Auth.LoadAuthorizedKeys) and builds the server (sshserver.New); every  *)
(* file access is a step, and an operator may edit either file before and  *)
(* after each.  Nothing is read again while the daemon serves.             *)
(***************************************************************************)
EXTENDS Integers

CONSTANTS Hosts,      \* host parts of server.addr, "" when there is none
          Users,      \* user names
          Passwords,  \* passwords
          Keys,       \* public keys
          Empty,      \* a setting that is missing or the empty string
          Broken,     \* a config file that does not decode
          Absent,     \* there is no authorized_keys file
          MaxEdits    \* bound: edits of the operator

ASSUME AccessAssumption ==
  /\ "0.0.0.0" \in Hosts
  /\ Empty \notin Hosts \cup Users \cup Passwords \cup Keys
  /\ \A ks \in SUBSET Keys : ks # Absent
  /\ MaxEdits \in Nat

Directions == {"local", "remote"}

\* What matters of a decoded file, and the values it may have.  keysPath is
\* missing, or consists of blanks, or names the authorized_keys file; level
\* tells whether log_level is one of the four.
Settings == [host |-> Hosts \cup {Empty},
             noAuth |-> BOOLEAN,
             username |-> Users \cup {Empty},
             password |-> Passwords \cup {Empty},
             keysPath |-> {"missing", "blank", "named"},
             level |-> BOOLEAN,
             forwards |-> SUBSET Directions]

Configs == [host : Settings.host, noAuth : Settings.noAuth,
            username : Settings.username, password : Settings.password,
            keysPath : Settings.keysPath, level : Settings.level,
            forwards : Settings.forwards]

ASSUME BrokenAssumption == \A c \in Configs : c # Broken

VARIABLES
  conf,     \* config.toml: a member of Configs, or Broken
  keyFile,  \* the valid keys in authorized_keys, or Absent
  pc,       \* where Program.Start is
  cfg,      \* the loaded configuration
  keys,     \* Auth.authorizedKeys
  edited,   \* has a file been edited since this start began
  edits     \* edits so far

files == <<conf, keyFile>>
daemon == <<pc, cfg, keys>>
vars == <<files, daemon, edited, edits>>

KeyFiles == {Absent} \cup SUBSET Keys

Init ==
  /\ conf \in {Broken} \cup Configs
  /\ keyFile \in KeyFiles
  /\ pc = "down"
  /\ cfg = Broken
  /\ keys = {}
  /\ edited = FALSE
  /\ edits = 0
-----------------------------------------------------------------------------
(* Loading. *)

\* normalize: the default address is bound on every interface.
Normal(c) == [c EXCEPT !.host = IF @ = Empty THEN "0.0.0.0" ELSE @]

\* isLoopback: an address without a host counts as one.
IsLoopback(host) == host \in {"", "127.0.0.1", "localhost", "::1", "[::1]"}

Refuse ==
  /\ pc' = "refused"
  /\ UNCHANGED <<cfg, keys>>

\* Load up to the checks: the file is read and completed.
Decode ==
  /\ pc = "down"
  /\ edited' = FALSE
  /\ IF conf = Broken THEN Refuse
     ELSE pc' = "decoded" /\ cfg' = Normal(conf) /\ UNCHANGED keys
  /\ UNCHANGED <<files, edits>>

NoMethod(c) == c.password = Empty /\ c.keysPath = "missing"

\* Slip: a configured user name passes for a method.
Protected_ByName(c) ==
  c.noAuth \/ ~NoMethod(c) \/ c.username # Empty \/ IsLoopback(c.host)

\* Without a method the address has to be local, or no_auth set.
Protected(c) == c.noAuth \/ ~NoMethod(c) \/ IsLoopback(c.host)

\* Slip: a password beside no_auth goes unnoticed.
Consistent_KeysOnly(c) == c.noAuth => c.keysPath = "missing"

\* no_auth excludes both methods.
Consistent(c) == c.noAuth => NoMethod(c)

\* os.Stat of the path as it stands: one of blanks is not trimmed here, and
\* names no file.
KeysFound(c) == c.keysPath = "named" /\ keyFile # Absent

Validate ==
  /\ pc = "decoded"
  /\ IF /\ Consistent(cfg) /\ Protected(cfg) /\ cfg.level
        /\ cfg.keysPath # "missing" => KeysFound(cfg)
     THEN pc' = "validated" /\ UNCHANGED <<cfg, keys>>
     ELSE Refuse
  /\ UNCHANGED <<files, edited, edits>>

\* Slip: a file without a valid key is as good as any.
Usable_Any(ks) == TRUE

\* len(keys) == 0 is an error of its own.
Usable(ks) == ks # {}

\* LoadAuthorizedKeys, which takes a missing path for no keys.
LoadKeys ==
  /\ pc = "validated"
  /\ IF cfg.keysPath # "named"
     THEN pc' = "keyed" /\ keys' = {} /\ UNCHANGED cfg
     ELSE IF keyFile # Absent /\ Usable(keyFile)
     THEN pc' = "keyed" /\ keys' = keyFile /\ UNCHANGED cfg
     ELSE Refuse
  /\ UNCHANGED <<files, edited, edits>>

\* sshserver.New and Server.Start.
Serve ==
  /\ pc = "keyed"
  /\ pc' = "serving"
  /\ UNCHANGED <<files, cfg, keys, edited, edits>>

\* The log, the host key or the listener may fail instead.
StartFails ==
  /\ pc \in {"validated", "keyed"}
  /\ pc' = "failed"
  /\ UNCHANGED <<files, cfg, keys, edited, edits>>
-----------------------------------------------------------------------------
(* The handlers New installs, and their answers. *)

PasswordHandler == ~cfg.noAuth /\ cfg.password # Empty
PublicKeyHandler == ~cfg.noAuth /\ keys # {}

\* Slip: the user name is compared only when there are keys as well.
UserOK_Loose(user) == cfg.username = Empty \/ keys = {} \/ user = cfg.username

UserOK(user) == cfg.username = Empty \/ user = cfg.username

PasswordOK(user, password) == UserOK(user) /\ password = cfg.password

PublicKeyOK(key) == key \in keys

\* Without any handler the library asks no client for anything.
Open == ~PasswordHandler /\ ~PublicKeyHandler

\* What a client may offer.
Logins == [user : Users, password : Passwords, key : {Empty}]
            \cup [user : Users, password : {Empty}, key : Keys \cup {Empty}]

Accepts(login) ==
  \/ Open
  \/ /\ PasswordHandler /\ login.password # Empty
     /\ PasswordOK(login.user, login.password)
  \/ /\ PublicKeyHandler /\ login.key # Empty
     /\ PublicKeyOK(login.key)

\* The forwarding callbacks.
Forwards(direction) == direction \in cfg.forwards
-----------------------------------------------------------------------------
(* The operator. *)

Edit ==
  /\ edits < MaxEdits
  /\ edits' = edits + 1
  /\ edited' = TRUE
  /\ UNCHANGED daemon

\* One setting, or a slip of the pen, or the file written anew.
EditConfig ==
  /\ \/ conf # Broken /\ conf' = Broken
     \/ conf = Broken /\ conf' \in Configs
     \/ /\ conf # Broken
        /\ \E setting \in DOMAIN Settings :
             \E v \in Settings[setting] \ {conf[setting]} :
               conf' = [conf EXCEPT ![setting] = v]
  /\ Edit
  /\ UNCHANGED keyFile

EditKeys ==
  /\ keyFile' \in KeyFiles \ {keyFile}
  /\ Edit
  /\ UNCHANGED conf

\* The process ends, or has ended, and is started again.
Restart ==
  /\ pc \in {"serving", "refused", "failed"}
  /\ pc' = "down"
  /\ cfg' = Broken
  /\ keys' = {}
  /\ UNCHANGED <<files, edited, edits>>

Start == Decode \/ Validate \/ LoadKeys \/ Serve \/ StartFails

Next == Start \/ EditConfig \/ EditKeys \/ Restart

Spec == Init /\ [][Next]_vars
-----------------------------------------------------------------------------
(* Properties. *)

\* The types; past Validate, no_auth stands alone.
TypeOK ==
  /\ conf \in {Broken} \cup Configs
  /\ keyFile \in KeyFiles
  /\ pc \in {"down", "decoded", "validated", "keyed", "serving", "refused",
             "failed"}
  /\ cfg \in {Broken} \cup Configs
  /\ keys \in SUBSET Keys
  /\ pc \in {"decoded", "validated", "keyed", "serving"} => cfg \in Configs
  /\ pc \in {"validated", "keyed", "serving"} => (cfg.noAuth => NoMethod(cfg))
  /\ edited \in BOOLEAN
  /\ edits \in 0..MaxEdits

\* Every method that the configuration names is asked for - although the file
\* that Validate looked at may be another one, or empty, when its keys are
\* read, and although New looks at the keys and not at the configured path.
NamedMethodsAreAsked ==
  pc = "serving" =>
    /\ cfg.password # Empty => PasswordHandler
    /\ cfg.keysPath # "missing" => PublicKeyHandler

\* The host parts that only this machine can reach; an address without a host
\* part is bound on every interface.
Local(host) == host \in {"127.0.0.1", "localhost", "::1", "[::1]"}

\* "Running without auth on a non-loopback addr is refused", and no_auth is
\* "Refused on non-loopback binds".
OpenStaysLocal == pc = "serving" /\ Open => Local(cfg.host)

\* Who is to get in, in the words of config.example.toml: anybody if no_auth
\* is set or nothing is configured; with a password, whoever knows it under
\* the configured name, if there is one; with keys, whoever has one of them,
\* under any name.
Entitled(login) ==
  \/ conf.noAuth
  \/ conf.password = Empty /\ conf.keysPath = "missing"
  \/ /\ login.password # Empty /\ login.password = conf.password
     /\ conf.username \in {Empty, login.user}
  \/ conf.keysPath = "named" /\ login.key \in keyFile

\* A daemon whose files have not been edited since it started lets in those
\* whom the files entitle and nobody else, forwards what they allow, and was
\* not kept from starting by what an earlier version of them said.
FilesAreInForce ==
  pc = "serving" /\ ~edited =>
    /\ \A login \in Logins : Accepts(login) <=> Entitled(login)
    /\ \A d \in Directions : Forwards(d) <=> d \in conf.forwards

\* Files that ask for something that is offered: they decode, and there is a
\* method, without no_auth and with a key in its file, or the address is local.
Sound ==
  /\ conf # Broken
  /\ conf.level
  /\ \/ ~conf.noAuth /\ conf.password # Empty /\ conf.keysPath = "missing"
     \/ ~conf.noAuth /\ conf.keysPath = "named" /\ keyFile \notin {Absent, {}}
     \/ /\ conf.password = Empty /\ conf.keysPath = "missing"
        /\ conf.host \in Hosts /\ Local(conf.host)

\* Files without a method that, by OpenStaysLocal, ought to be refused and are
\* not: no_auth, or an address without a host.
Disputed ==
  /\ conf # Broken
  /\ conf.level
  /\ conf.password = Empty /\ conf.keysPath = "missing"
  /\ conf.noAuth \/ conf.host = ""

\* A start is refused for the files' sake, and only for it: sound files that
\* nobody edits meanwhile are not refused, and of the others only the
\* disputed ones are ever served.
RefusedForCause ==
  ~edited => (pc = "refused" => ~Sound) /\ (pc = "serving" => Sound \/ Disputed)
=============================================================================
