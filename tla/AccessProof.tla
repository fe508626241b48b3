---------------------------- MODULE AccessProof ----------------------------
(***************************************************************************)
(* Who may log in, for every set of users, passwords and keys and for any  *)
(* number of edits.  The properties speak of a daemon that serves; they    *)
(* rest on what each step of Program.Start has established about the       *)
(* loaded configuration and keys, and on what still ties them to the files *)
(* as long as nobody edits those.                                          *)
(***************************************************************************)
EXTENDS Access, TLAPS

Loaded == {"decoded", "validated", "keyed", "serving"}
Checked == {"validated", "keyed", "serving"}
Keyed == {"keyed", "serving"}

\* The loaded configuration is the file's as long as that is not edited.
FromFile ==
  pc \in Loaded =>
    /\ cfg \in Configs
    /\ ~edited => conf # Broken /\ cfg = Normal(conf)

\* What Validate has let through.
Passed ==
  pc \in Checked =>
    /\ Consistent(cfg) /\ Protected(cfg) /\ cfg.level = TRUE
    /\ cfg.keysPath # "blank"

\* A configured keys file has given keys, its own unless it was edited.
HasKeys ==
  pc \in Keyed =>
    /\ cfg.keysPath # "named" => keys = {}
    /\ cfg.keysPath = "named" => keys # {} /\ (~edited => keys = keyFile)

\* What Validate and LoadAuthorizedKeys refuse could not be done.
Unsound == pc = "refused" /\ ~edited => ~Sound

Inv == TypeOK /\ FromFile /\ Passed /\ HasKeys /\ Unsound

USE DEF files, daemon, Loaded, Checked, Keyed

LEMMA ConfigFields ==
  ASSUME NEW c \in Configs
  PROVE  /\ c.host \in Hosts \cup {Empty} /\ c.noAuth \in BOOLEAN
         /\ c.username \in Users \cup {Empty}
         /\ c.password \in Passwords \cup {Empty}
         /\ c.keysPath \in {"missing", "blank", "named"}
         /\ c.level \in BOOLEAN /\ c.forwards \in SUBSET Directions
  BY DEF Configs, Settings

\* normalize touches the address only.
LEMMA NormalFields ==
  ASSUME NEW c \in Configs
  PROVE  /\ Normal(c) \in Configs
         /\ Normal(c).host = IF c.host = Empty THEN "0.0.0.0" ELSE c.host
         /\ Normal(c).noAuth = c.noAuth
         /\ Normal(c).username = c.username
         /\ Normal(c).password = c.password
         /\ Normal(c).keysPath = c.keysPath
         /\ Normal(c).level = c.level
         /\ Normal(c).forwards = c.forwards
  BY AccessAssumption DEF Normal, Configs, Settings

LEMMA InitEstablishes == Init => Inv
<1> SUFFICES ASSUME Init PROVE Inv
  OBVIOUS
<1>1. edited \in BOOLEAN /\ ~edited
  BY Zenon DEF Init
<1>2. TypeOK
  BY <1>1, AccessAssumption DEF Init, TypeOK
<1>3. QED
  BY <1>2 DEF Init, Inv, FromFile, Passed, HasKeys, Unsound

\* An edit keeps the file among those that can be written.
LEMMA EditTyped ==
  ASSUME TypeOK, EditConfig
  PROVE  conf' \in {Broken} \cup Configs
<1>1. ASSUME conf # Broken, NEW s \in DOMAIN Settings, NEW v \in Settings[s],
             conf' = [conf EXCEPT ![s] = v]
      PROVE  conf' \in Configs
  <2>1. conf \in Configs
    BY <1>1 DEF TypeOK
  <2>2. s \in {"host", "noAuth", "username", "password", "keysPath", "level",
               "forwards"}
    BY <1>1 DEF Settings
  <2>3. CASE s = "host"
    BY <1>1, <2>1, <2>3 DEF Configs, Settings
  <2>4. CASE s = "noAuth"
    BY <1>1, <2>1, <2>4 DEF Configs, Settings
  <2>5. CASE s = "username"
    BY <1>1, <2>1, <2>5 DEF Configs, Settings
  <2>6. CASE s = "password"
    BY <1>1, <2>1, <2>6 DEF Configs, Settings
  <2>7. CASE s = "keysPath"
    BY <1>1, <2>1, <2>7 DEF Configs, Settings
  <2>8. CASE s = "level"
    BY <1>1, <2>1, <2>8 DEF Configs, Settings
  <2>9. CASE s = "forwards"
    BY <1>1, <2>1, <2>9 DEF Configs, Settings
  <2>10. QED
    BY <2>2, <2>3, <2>4, <2>5, <2>6, <2>7, <2>8, <2>9
<1>2. QED
  BY <1>1, Zenon DEF EditConfig

\* Every step of Program.Start keeps the invariant.
LEMMA StartStep ==
  ASSUME Inv, Start
  PROVE  Inv'
<1> USE DEF Inv
<1>1. CASE Decode
  <2>1. ~edited' /\ edited' \in BOOLEAN /\ UNCHANGED <<files, edits>>
    BY <1>1, Zenon DEF Decode
  <2>2. CASE conf = Broken
    <3>1. pc' = "refused" /\ UNCHANGED <<cfg, keys>>
      BY <1>1, <2>2 DEF Decode, Refuse
    <3>2. TypeOK'
      BY <2>1, <3>1 DEF TypeOK
    <3>3. ~Sound'
      BY <2>1, <2>2 DEF Sound
    <3>4. QED
      BY <3>1, <3>2, <3>3 DEF FromFile, Passed, HasKeys, Unsound
  <2>3. CASE conf # Broken
    <3>1. pc' = "decoded" /\ cfg' = Normal(conf) /\ keys' = keys
      BY <1>1, <2>3 DEF Decode
    <3>2. conf \in Configs /\ cfg' \in Configs
      BY <2>3, <3>1, NormalFields DEF TypeOK
    <3>3. TypeOK'
      BY <2>1, <3>1, <3>2 DEF TypeOK
    <3>4. FromFile'
      BY <2>1, <2>3, <3>1, <3>2 DEF FromFile, Normal
    <3>5. QED
      BY <3>1, <3>3, <3>4 DEF Passed, HasKeys, Unsound
  <2>4. QED
    BY <2>2, <2>3
<1>2. CASE Validate
  <2>1. pc = "decoded" /\ UNCHANGED <<conf, keyFile, cfg, keys, edited, edits>>
    BY <1>2 DEF Validate, Refuse
  <2>2. cfg \in Configs /\ (~edited => conf \in Configs /\ cfg = Normal(conf))
    BY <2>1 DEF FromFile, TypeOK
  <2> DEFINE Passes == /\ Consistent(cfg) /\ Protected(cfg) /\ cfg.level
                       /\ cfg.keysPath # "missing" => KeysFound(cfg)
  <2>3. CASE Passes
    <3>1. pc' = "validated"
      BY <1>2, <2>3 DEF Validate
    <3>2. cfg.level = TRUE /\ cfg.keysPath # "blank"
      BY <2>2, <2>3, ConfigFields DEF KeysFound
    <3>3. TypeOK'
      BY <2>1, <2>2, <2>3, <3>1 DEF TypeOK, Consistent, NoMethod
    <3>4. Passed'
      BY <2>1, <2>3, <3>2 DEF Passed, Consistent, Protected, NoMethod
    <3>5. QED
      BY <2>1, <3>1, <3>3, <3>4 DEF FromFile, HasKeys, Unsound, Normal
  <2>4. CASE ~Passes
    <3>1. pc' = "refused"
      BY <1>2, <2>4 DEF Validate, Refuse
    <3>2. ASSUME ~edited, Sound PROVE FALSE
      <4>1. /\ cfg.noAuth = conf.noAuth /\ cfg.password = conf.password
            /\ cfg.keysPath = conf.keysPath /\ cfg.level = conf.level
            /\ conf.host \in Hosts => cfg.host = conf.host
        BY <2>2, <3>2, NormalFields, AccessAssumption
      <4>2. Local(cfg.host) => IsLoopback(cfg.host)
        BY DEF Local, IsLoopback
      <4>3. QED
        BY <2>4, <3>2, <4>1, <4>2 DEF Sound, Consistent, Protected, NoMethod, KeysFound
    <3>3. TypeOK'
      BY <2>1, <3>1 DEF TypeOK
    <3>4. Sound' <=> Sound
      BY <2>1 DEF Sound
    <3>5. QED
      BY <2>1, <3>1, <3>2, <3>3, <3>4 DEF FromFile, Passed, HasKeys, Unsound
  <2>5. QED
    BY <2>3, <2>4
<1>3. CASE LoadKeys
  <2>1. pc = "validated" /\ UNCHANGED <<conf, keyFile, cfg, edited, edits>>
    BY <1>3 DEF LoadKeys, Refuse
  <2>2. cfg \in Configs /\ (~edited => conf \in Configs /\ cfg = Normal(conf))
    BY <2>1 DEF FromFile, TypeOK
  <2>3. CASE cfg.keysPath # "named"
    <3>1. pc' = "keyed" /\ keys' = {}
      BY <1>3, <2>3 DEF LoadKeys
    <3>2. TypeOK'
      BY <2>1, <3>1 DEF TypeOK, NoMethod
    <3>3. Passed' /\ HasKeys'
      BY <2>1, <2>3, <3>1 DEF Passed, HasKeys, Consistent, Protected, NoMethod
    <3>4. QED
      BY <2>1, <3>1, <3>2, <3>3 DEF FromFile, Unsound, Normal
  <2>4. CASE cfg.keysPath = "named" /\ keyFile # Absent /\ keyFile # {}
    <3>1. pc' = "keyed" /\ keys' = keyFile
      BY <1>3, <2>4 DEF LoadKeys, Usable
    <3>2. TypeOK'
      BY <2>1, <2>4, <3>1 DEF TypeOK, KeyFiles, NoMethod
    <3>3. Passed' /\ HasKeys'
      BY <2>1, <2>4, <3>1 DEF Passed, HasKeys, Consistent, Protected, NoMethod
    <3>4. QED
      BY <2>1, <3>1, <3>2, <3>3 DEF FromFile, Unsound, Normal
  <2>5. CASE cfg.keysPath = "named" /\ keyFile \in {Absent, {}}
    <3>1. pc' = "refused" /\ keys' = keys
      BY <1>3, <2>5 DEF LoadKeys, Usable, Refuse
    <3>2. ~edited => ~Sound
      <4>1. ~edited => conf.keysPath = "named"
        BY <2>2, <2>5, NormalFields
      <4>2. QED
        BY <2>5, <4>1 DEF Sound
    <3>3. TypeOK'
      BY <2>1, <3>1 DEF TypeOK
    <3>4. Sound' <=> Sound
      BY <2>1 DEF Sound
    <3>5. QED
      BY <2>1, <3>1, <3>2, <3>3, <3>4 DEF FromFile, Passed, HasKeys, Unsound
  <2>6. QED
    BY <2>3, <2>4, <2>5
<1>4. CASE Serve \/ StartFails
  <2>1. /\ UNCHANGED <<conf, keyFile, cfg, keys, edited, edits>>
        /\ \/ pc = "keyed" /\ pc' = "serving"
           \/ pc \in {"validated", "keyed"} /\ pc' = "failed"
    BY <1>4 DEF Serve, StartFails
  <2>2. TypeOK'
    BY <2>1 DEF TypeOK, NoMethod
  <2>3. FromFile' /\ Passed'
    BY <2>1 DEF FromFile, Passed, Consistent, Protected, NoMethod, Normal
  <2>4. HasKeys' /\ Unsound'
    BY <2>1 DEF HasKeys, Unsound
  <2>5. QED
    BY <2>2, <2>3, <2>4
<1>5. QED
  BY <1>1, <1>2, <1>3, <1>4 DEF Start

\* So do the operator and a restart.
LEMMA OtherStep ==
  ASSUME Inv, EditConfig \/ EditKeys \/ Restart
  PROVE  Inv'
<1> USE DEF Inv
<1>1. CASE EditConfig \/ EditKeys
  <2>1. edited' \in BOOLEAN /\ edited'
    BY <1>1, Zenon DEF EditConfig, EditKeys, Edit
  <2>2. edits' \in 0..MaxEdits /\ UNCHANGED <<pc, cfg, keys>>
    BY <1>1, AccessAssumption DEF EditConfig, EditKeys, Edit, TypeOK
  <2>3. conf' \in {Broken} \cup Configs /\ keyFile' \in KeyFiles
    BY <1>1, EditTyped DEF EditConfig, EditKeys, TypeOK
  <2>4. TypeOK'
    BY <2>1, <2>2, <2>3 DEF TypeOK, NoMethod
  <2>5. QED
    BY <2>1, <2>2, <2>4 DEF FromFile, Passed, HasKeys, Unsound, Consistent,
                            Protected, NoMethod
<1>2. CASE Restart
  <2>1. pc' = "down" /\ cfg' = Broken /\ keys' = {}
        /\ UNCHANGED <<conf, keyFile, edited, edits>>
    BY <1>2 DEF Restart
  <2>2. TypeOK'
    BY <2>1 DEF TypeOK
  <2>3. QED
    BY <2>1, <2>2 DEF FromFile, Passed, HasKeys, Unsound
<1>3. QED
  BY <1>1, <1>2

LEMMA Invariance == Spec => []Inv
<1>1. ASSUME Inv, UNCHANGED vars PROVE Inv'
  BY <1>1 DEF vars, Inv, TypeOK, FromFile, Passed, HasKeys, Unsound, Consistent,
              Protected, NoMethod, Sound, Normal
<1>2. Inv /\ [Next]_vars => Inv'
  BY <1>1, StartStep, OtherStep DEF Next
<1>3. QED
  BY InitEstablishes, <1>2, PTL DEF Spec

\* TypeOK: the types, and that no_auth stands alone past Validate.
THEOREM TypeCorrect == Spec => []TypeOK
<1>1. Inv => TypeOK
  BY DEF Inv
<1>2. QED
  BY Invariance, <1>1, PTL

\* NamedMethodsAreAsked: however the files change while the daemon starts, it
\* serves with every method that its configuration names.
THEOREM MethodsAreInForce == Spec => []NamedMethodsAreAsked
<1>1. Inv => NamedMethodsAreAsked
  BY ConfigFields DEF Inv, FromFile, Passed, HasKeys, NamedMethodsAreAsked,
     PasswordHandler, PublicKeyHandler, Consistent, NoMethod
<1>2. QED
  BY Invariance, <1>1, PTL

\* FilesAreInForce: a daemon whose files were not edited since it started
\* admits whom they entitle, and nobody else.
THEOREM UneditedFilesAreInForce == Spec => []FilesAreInForce
<1>1. ASSUME Inv, pc = "serving", ~edited
      PROVE  /\ \A login \in Logins : Accepts(login) <=> Entitled(login)
             /\ \A d \in Directions : Forwards(d) <=> d \in conf.forwards
  <2>1. conf \in Configs /\ cfg = Normal(conf)
    BY <1>1 DEF Inv, TypeOK, FromFile
  <2>2. /\ cfg.noAuth = conf.noAuth /\ cfg.username = conf.username
        /\ cfg.password = conf.password /\ cfg.keysPath = conf.keysPath
        /\ cfg.forwards = conf.forwards
    BY <2>1, NormalFields
  <2>3. /\ conf.keysPath \in {"missing", "named"}
        /\ conf.keysPath = "missing" => keys = {}
        /\ conf.keysPath = "named" => keys # {} /\ keys = keyFile
        /\ conf.noAuth => conf.password = Empty /\ conf.keysPath = "missing"
    BY <1>1, <2>1, <2>2, ConfigFields DEF Inv, Passed, HasKeys, Consistent, NoMethod
  <2>4. ASSUME NEW login \in Logins PROVE Accepts(login) <=> Entitled(login)
    <3>1. login.key = Empty \/ login.key \in Keys
      BY DEF Logins
    <3>2. Empty \notin keys
      BY <1>1, AccessAssumption DEF Inv, TypeOK
    <3>3. QED
      BY <2>2, <2>3, <3>1, <3>2 DEF Accepts, Entitled, Open, PasswordHandler,
         PublicKeyHandler, PasswordOK, UserOK, PublicKeyOK
  <2>5. QED
    BY <2>2, <2>4 DEF Forwards
<1>2. Inv => FilesAreInForce
  BY <1>1 DEF FilesAreInForce
<1>3. QED
  BY Invariance, <1>2, PTL

\* RefusedForCause: sound files are never refused, and unsound ones served
\* only if they are disputed.
THEOREM RefusalHasCause == Spec => []RefusedForCause
<1>1. ASSUME Inv, ~edited, pc = "serving" PROVE Sound \/ Disputed
  <2>1. conf \in Configs /\ cfg = Normal(conf) /\ conf # Broken
    BY <1>1 DEF Inv, TypeOK, FromFile
  <2>2. /\ cfg.noAuth = conf.noAuth /\ cfg.password = conf.password
        /\ cfg.keysPath = conf.keysPath /\ cfg.level = conf.level
        /\ cfg.host = IF conf.host = Empty THEN "0.0.0.0" ELSE conf.host
    BY <2>1, NormalFields
  <2>3. /\ conf.host \in Hosts \cup {Empty} /\ ~IsLoopback("0.0.0.0")
        /\ conf.keysPath \in {"missing", "blank", "named"}
        /\ IsLoopback(conf.host) => conf.host = "" \/ Local(conf.host)
    BY <2>1, ConfigFields DEF IsLoopback, Local
  <2>4. keyFile # Absent \/ conf.keysPath # "named"
    BY <1>1, <2>2, AccessAssumption DEF Inv, TypeOK, HasKeys
  <2>5. QED
    BY <1>1, <2>1, <2>2, <2>3, <2>4 DEF Inv, Passed, HasKeys, Sound, Disputed,
       Consistent, Protected, NoMethod
<1>2. Inv => RefusedForCause
  BY <1>1 DEF Inv, Unsound, RefusedForCause
<1>3. QED
  BY Invariance, <1>2, PTL
=============================================================================
