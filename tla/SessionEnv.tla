----------------------------- MODULE SessionEnv -----------------------------
(***************************************************************************)
(* The environment of a session on Windows: sessionEnv and readEnvKey of   *)
(* internal/sshserver/env_windows.go with the functions of env.go, and     *)
(* replaceEnv as handleSession uses it.  The names in two registry keys    *)
(* are listed one by one and their values read one by one, while an        *)
(* installer may change either key, then composed over the block that the  *)
(* service inherited at its start.                                         *)
(*                                                                         *)
(* A name stands for its spellings.  A value is a sequence of words, "%"   *)
(* and ";".                                                                *)
(***************************************************************************)
EXTENDS SequencesExt, Integers

CONSTANTS Words,       \* what names and values are made of
          Entries,     \* what a key may hold: [name, value, kind] records
          Bases,       \* inherited blocks: sequences of [name, value] records
          Term,        \* the value of TERM that a PTY request carries
          MaxEntries,  \* bound: values in a key at first
          MaxWrites    \* bound: changes of the registry

Kinds == {"plain", "expand", "other"}   \* REG_SZ, REG_EXPAND_SZ, not a string
Hives == {"machine", "user"}

Values == Seq(Words)
EnvEntries == [name : Words, value : Values]
EnvValues == [name : Words, value : Values, kind : Kinds]

ASSUME EnvAssumption ==
  /\ {"%", ";", "PATH", "TERM"} \subseteq Words
  /\ \A e \in Entries : e \in EnvValues
  /\ \A b \in Bases : b \in Seq(EnvEntries)
  /\ Term \in Values
  /\ MaxEntries \in Nat
  /\ MaxWrites \in Nat

VARIABLES
  registry,   \* the values of each hive's key, in the order it stores them
  base,       \* os.Environ() of the service
  pc,         \* "idle", the hive being read, or "ready"
  listing,    \* are its names still being listed
  todo,       \* the names listed and not read yet
  read,       \* what has been read of each hive
  env,        \* the session's block
  disturbed,  \* names changed since their key was opened, or of a failed list
  hidden,     \* names that a deletion moved to an index already listed
  writes      \* changes of the registry so far

sessionVars == <<pc, listing, todo, read, env>>
vars == <<registry, base, sessionVars, disturbed, hidden, writes>>

NamesOf(entries) == {e.name : e \in ToSet(entries)}
Distinct(entries) == \A i, j \in DOMAIN entries :
                        entries[i].name = entries[j].name => i = j
Once(entries, name) == \A i, j \in DOMAIN entries :
                          entries[i].name = name /\ entries[j].name = name => i = j
AllNames == {e.name : e \in Entries}

Init ==
  /\ registry \in [Hives -> {k \in BoundedSeq(Entries, MaxEntries) : Distinct(k)}]
  /\ base \in Bases
  /\ pc = "idle"
  /\ listing = FALSE
  /\ todo = <<>>
  /\ read = [h \in Hives |-> <<>>]
  /\ env = <<>>
  /\ disturbed = {}
  /\ hidden = {}
  /\ writes = 0
-----------------------------------------------------------------------------
(* Blocks are sequences of entries, lookups are functions from names. *)

Has(entries, name) == name \in NamesOf(entries)

\* Of several entries of a name the last one counts.
ValueOf(entries, name) ==
  LET last == CHOOSE i \in DOMAIN entries :
                /\ entries[i].name = name
                /\ \A j \in DOMAIN entries : j > i => entries[j].name # name
  IN entries[last].value

Entry(name, value) == [name |-> name, value |-> value]

NewEnvLookup(entries) == [name \in NamesOf(entries) |-> ValueOf(entries, name)]

\* Of the entries at some places, those that no later one sets again.
Latest(entries, places) ==
  {entries[i] : i \in {k \in places : \A j \in places :
                         j > k => entries[j].name # entries[k].name}}

\* lookup.set for every one of some entries with distinct names.
SetAll(lookup, entries) ==
  [name \in DOMAIN lookup \cup {e.name : e \in entries} |->
     IF \E e \in entries : e.name = name
     THEN (CHOOSE e \in entries : e.name = name).value ELSE lookup[name]]

\* composeEnv's add: a name keeps its place and takes the new value.
Add(entries, e) ==
  IF Has(entries, e.name)
  THEN [i \in DOMAIN entries |-> IF entries[i].name = e.name
                                 THEN Entry(e.name, e.value) ELSE entries[i]]
  ELSE Append(entries, Entry(e.name, e.value))

\* Slip: the first entry of the name is left where it is.
ReplaceEnv_Append(entries, name, value) == Append(entries, Entry(name, value))

\* replaceEnv: the first entry of the name is replaced, the others go.
ReplaceEnv(entries, name, value) ==
  LET out[n \in 0 .. Len(entries)] ==
        IF n = 0 THEN <<>>
        ELSE IF entries[n].name # name THEN Append(out[n - 1], entries[n])
        ELSE IF Has(out[n - 1], name) THEN out[n - 1]
        ELSE Append(out[n - 1], Entry(name, value))
      all == out[Len(entries)]
  IN IF Has(all, name) THEN all ELSE Append(all, Entry(name, value))
-----------------------------------------------------------------------------
(* expandPercent. *)

\* A closed reference: its value, or itself if it names nothing.
Resolved(ref, lookup) ==
  IF Len(ref) = 3 /\ ref[2] \in DOMAIN lookup THEN lookup[ref[2]] ELSE ref

\* Slip: what closed a reference may open the next one.
Resume_AtPercent(closing) == closing

\* The scan goes on behind the closing "%".
Resume(closing) == closing + 1

Closings(s, i) == {j \in i + 1 .. Len(s) : s[j] = "%"}

Least(S) == CHOOSE j \in S : \A k \in S : j <= k

\* One pass from left to right; an unterminated reference is literal.
ExpandPercent(s, lookup) ==
  LET from[i \in 1 .. Len(s) + 1] ==
        IF i > Len(s) THEN <<>>
        ELSE IF s[i] # "%" THEN <<s[i]>> \o from[i + 1]
        ELSE IF Closings(s, i) = {} THEN SubSeq(s, i, Len(s))
        ELSE LET j == Least(Closings(s, i))
             IN Resolved(SubSeq(s, i, j), lookup)
                  \o from[Resume(j)]
  IN from[1]
-----------------------------------------------------------------------------
(* expandLayer, mergePath and composeEnv. *)

\* Slip: the values are taken as they come.
Seeds_None(values) == {}

\* Plain values are known before any other value is expanded.
Seeds(values) == Latest(values, {i \in DOMAIN values : values[i].kind = "plain"})

Expanded(v, lookup) ==
  IF v.kind = "expand" THEN ExpandPercent(v.value, lookup) ELSE v.value

\* The entries of a key, each known to the ones behind it.
ExpandLayer(values, lookup) ==
  LET seeded == SetAll(lookup, Seeds(values))
      entries[n \in 0 .. Len(values)] ==
        IF n = 0 THEN <<>>
        ELSE LET known == SetAll(seeded, Latest(entries[n - 1], DOMAIN entries[n - 1]))
             IN Append(entries[n - 1],
                       Entry(values[n].name, Expanded(values[n], known)))
  IN entries[Len(values)]

Parts(path) ==
  LET parts[n \in 0 .. Len(path)] ==
        IF n = 0 THEN <<<<>>>>
        ELSE IF path[n] = ";" THEN Append(parts[n - 1], <<>>)
        ELSE [parts[n - 1] EXCEPT ![Len(parts[n - 1])] = Append(@, path[n])]
  IN parts[Len(path)]

Joined(parts) ==
  LET path[n \in 0 .. Len(parts)] ==
        IF n = 0 THEN <<>>
        ELSE IF n = 1 THEN parts[1]
        ELSE path[n - 1] \o <<";">> \o parts[n]
  IN path[Len(parts)]

\* Slip: only neighbours are compared.
Repeats_Neighbour(parts, p) == parts # <<>> /\ Last(parts) = p

Repeats(parts, p) == Contains(parts, p)

\* Empty parts and those seen before are dropped.
Kept(parts) ==
  LET out[n \in 0 .. Len(parts)] ==
        IF n = 0 THEN <<>>
        ELSE IF parts[n] = <<>> \/ Repeats(out[n - 1], parts[n]) THEN out[n - 1]
        ELSE Append(out[n - 1], parts[n])
  IN out[Len(parts)]

MergePath(machinePath, userPath) ==
  Joined(Kept(Parts(machinePath) \o Parts(userPath)))

\* Slip: the user's entries do not override the machine's.
AddUser_Keep(entries, e) == IF Has(entries, e.name) THEN entries ELSE Add(entries, e)

\* PATH is the one name that both keys contribute to.
AddUser(entries, e) ==
  IF e.name = "PATH"
  THEN Add(entries, Entry("PATH",
             MergePath(IF Has(entries, "PATH") THEN ValueOf(entries, "PATH")
                       ELSE <<>>, e.value)))
  ELSE Add(entries, e)

\* One of composeEnv's loops, over a layer of entries.
Overlay(block, entries, layer) ==
  LET out[n \in 0 .. Len(entries)] ==
        IF n = 0 THEN block
        ELSE IF layer = "user" THEN AddUser(out[n - 1], entries[n])
        ELSE Add(out[n - 1], entries[n])
  IN out[Len(entries)]

ComposeEnv(inherited, machine, user) ==
  Overlay(Overlay(Overlay(<<>>, inherited, "base"), machine, "machine"), user, "user")

\* The lookup goes on from the machine's key to the user's.
Composed(inherited, machine, user) ==
  LET lookup == NewEnvLookup(inherited)
      m == ExpandLayer(machine, lookup)
  IN ComposeEnv(inherited, m, ExpandLayer(user, SetAll(lookup, Latest(m, DOMAIN m))))
-----------------------------------------------------------------------------
(* sessionEnv. *)

\* readEnvKey opens a key; a failure is a key without values.
Open(h) ==
  /\ pc' = h
  /\ \/ listing' = TRUE /\ UNCHANGED disturbed
     \/ listing' = FALSE /\ disturbed' = disturbed \cup NamesOf(registry[h])
  /\ UNCHANGED <<registry, base, todo, read, env, hidden, writes>>

Begin == pc = "idle" /\ Open("machine")

\* ReadValueNames: RegEnumValue of one index after the other, of the key as it
\* is by then.
EnumValue ==
  /\ listing
  /\ Len(todo) < Len(registry[pc])
  /\ todo' = Append(todo, registry[pc][Len(todo) + 1].name)
  /\ UNCHANGED <<registry, base, pc, listing, read, env, disturbed, hidden, writes>>

\* Until there is no value of that index, or the call fails; then what it has
\* listed counts for nothing.
EndList ==
  /\ listing
  /\ listing' = FALSE
  /\ \/ Len(todo) >= Len(registry[pc]) /\ UNCHANGED <<todo, disturbed>>
     \/ todo' = <<>> /\ disturbed' = disturbed \cup NamesOf(registry[pc])
  /\ UNCHANGED <<registry, base, pc, read, env, hidden, writes>>

IsRead(h) == pc = h /\ ~listing /\ todo = <<>>

ThenUser == IsRead("machine") /\ Open("user")

Readable(h, name) == \E e \in ToSet(registry[h]) : e.name = name /\ e.kind # "other"

\* GetStringValue of the next name.
ReadValue ==
  /\ pc \in Hives /\ ~listing
  /\ todo # <<>>
  /\ \E e \in ToSet(registry[pc]) :
       /\ e.name = Head(todo)
       /\ e.kind # "other"
       /\ read' = [read EXCEPT ![pc] = Append(@, e)]
  /\ todo' = Tail(todo)
  /\ UNCHANGED <<registry, base, pc, listing, env, disturbed, hidden, writes>>

\* It fails when the value has gone or is not a string.
SkipValue ==
  /\ pc \in Hives /\ ~listing
  /\ todo # <<>>
  /\ ~Readable(pc, Head(todo))
  /\ todo' = Tail(todo)
  /\ UNCHANGED <<registry, base, pc, listing, read, env, disturbed, hidden, writes>>

\* handleSession: a PTY request sets TERM.
Requested(block) == {block, ReplaceEnv(block, "TERM", Term)}

Compose ==
  /\ IsRead("user")
  /\ pc' = "ready"
  /\ env' \in Requested(Composed(base, read["machine"], read["user"]))
  /\ UNCHANGED <<registry, base, listing, todo, read, disturbed, hidden, writes>>

\* The command has the block; the next session reads again.
NextSession ==
  /\ pc = "ready"
  /\ pc' = "idle"
  /\ read' = [h \in Hives |-> <<>>]
  /\ env' = <<>>
  /\ disturbed' = {}
  /\ hidden' = {}
  /\ UNCHANGED <<registry, base, listing, todo, writes>>
-----------------------------------------------------------------------------
(* An installer: RegSetValueEx and RegDeleteValue. *)

Opened(h) == pc = "ready" \/ pc = "user" \/ pc = h

Changed(h, name) ==
  /\ writes < MaxWrites
  /\ writes' = writes + 1
  /\ disturbed' = IF Opened(h) THEN disturbed \cup {name} ELSE disturbed
  /\ UNCHANGED <<base, sessionVars>>

Write(h, e) ==
  /\ Changed(h, e.name)
  /\ UNCHANGED hidden
  /\ registry' = [registry EXCEPT ![h] =
                    IF Has(@, e.name)
                    THEN [i \in DOMAIN @ |-> IF @[i].name = e.name THEN e ELSE @[i]]
                    ELSE Append(@, e)]

\* The names behind the deleted one move up: the next to be listed, if its
\* new index was listed already, is not listed.
Hides(h, i) ==
  IF listing /\ pc = h /\ i <= Len(todo) /\ Len(todo) < Len(registry[h])
  THEN {registry[h][Len(todo) + 1].name} ELSE {}

Delete(h, i) ==
  /\ Changed(h, registry[h][i].name)
  /\ hidden' = hidden \cup Hides(h, i)
  /\ registry' = [registry EXCEPT ![h] = RemoveAt(@, i)]

Installer == \E h \in Hives : \/ \E e \in Entries : Write(h, e)
                              \/ \E i \in DOMAIN registry[h] : Delete(h, i)

Next == \/ Begin \/ EnumValue \/ EndList \/ ThenUser \/ ReadValue \/ SkipValue
        \/ Compose \/ NextSession \/ Installer

Spec == Init /\ [][Next]_vars
-----------------------------------------------------------------------------
(* Properties. *)

\* The types; a session's block has one entry of a name, whatever the
\* inherited block, the two keys and the request say twice.
TypeOK ==
  /\ \A h \in Hives : /\ registry[h] \in BoundedSeq(Entries, MaxEntries + MaxWrites)
                      /\ Distinct(registry[h])
                      /\ ToSet(read[h]) \subseteq Entries
  /\ base \in Bases
  /\ pc \in Hives \cup {"idle", "ready"}
  /\ listing \in BOOLEAN
  /\ ToSet(todo) \cup disturbed \cup hidden \subseteq AllNames
  /\ writes \in 0 .. MaxWrites
  /\ Distinct(env)

\* Where a name's value comes from now: user, machine, then the inherited block.
Source(name) ==
  IF Readable("user", name) THEN registry["user"]
  ELSE IF Readable("machine", name) THEN registry["machine"] ELSE base

\* sessionEnv exists so that "a tool installed afterwards" is visible: a name
\* that nobody changed since its key was opened has the value that the machine
\* has now, though other names were changed, deleted or not readable meanwhile
\* - unless the list passed over it, as a deletion can make it do with one name.
UntouchedIsCurrent ==
  pc = "ready" =>
    \A name \in (AllNames \cup NamesOf(base))
                  \ (disturbed \cup hidden \cup {"PATH", "TERM"}) :
      /\ Has(env, name) <=> Has(Source(name), name)
      /\ Has(env, name) /\ ~Contains(ValueOf(Source(name), name), "%")
           => ValueOf(env, name) = ValueOf(Source(name), name)

\* mergePath: with a PATH of the user's, every directory of both keys is in the
\* session's PATH, once, the machine's first; and no entry of it is empty,
\* which would be the current directory.  (Directories of plain values, of a
\* PATH that was not written anew and listed twice.)
PathIsClean ==
  pc = "ready" /\ Has(read["user"], "PATH") /\ (\A h \in Hives : Once(read[h], "PATH")) =>
    LET path == Parts(ValueOf(env, "PATH"))
        Directories(h) == UNION {ToSet(Parts(v.value)) \ {<<>>} :
                                   v \in {e \in ToSet(read[h]) :
                                            e.name = "PATH" /\ e.kind = "plain"}}
    IN /\ IsInjective(path)
       /\ path = <<<<>>>> \/ ~Contains(path, <<>>)
       /\ LET first == Directories("machine")
          IN ToSet(SubSeq(path, 1, Cardinality(first))) = first
       /\ Directories("user") \subseteq ToSet(path)

RefersTo(v, name) ==
  \E i \in 1 .. Len(v.value) - 2 : SubSeq(v.value, i, i + 2) = <<"%", name, "%">>

\* "A registry key's enumeration order is not a guarantee": in whatever order
\* the values of a key are read, every name expands to the same value, unless
\* an expandable value names another expandable one.
OrderDoesNotMatter ==
  \A h \in Hives :
    LET values == read[h]
        Entangled == \E v, w \in ToSet(values) :
                       v # w /\ v.kind = "expand" /\ w.kind = "expand"
                         /\ RefersTo(v, w.name)
    IN Distinct(values) /\ ~Entangled =>
         \A other \in SetToSeqs(ToSet(values)) :
           ToSet(ExpandLayer(other, NewEnvLookup(base)))
             = ToSet(ExpandLayer(values, NewEnvLookup(base)))

\* What position i of a value contributes, told by the number of "%" up to it
\* alone: the first of a pair stands for the reference, the rest of the
\* reference for nothing, anything else for itself.
Contribution(s, i) ==
  LET Percents(k) == Cardinality({j \in 1 .. k : s[j] = "%"})
      Odd(n) == n % 2 = 1
      Paired == 2 * (Percents(Len(s)) \div 2)
      Inside == Odd(Percents(i)) /\ Percents(i) < Paired
      Close == CHOOSE j \in i + 1 .. Len(s) :
                 s[j] = "%" /\ Percents(j) = Percents(i) + 1
  IN IF Inside /\ s[i] = "%" THEN Resolved(SubSeq(s, i, Close), NewEnvLookup(base))
     ELSE IF Inside \/ (s[i] = "%" /\ Percents(i) <= Paired) THEN <<>>
     ELSE <<s[i]>>

\* expandPercent: references are the first and second "%", the third and the
\* fourth and so on, and a last one without a partner is text.
PercentsPair ==
  \A h \in Hives : \A e \in ToSet(read[h]) :
    ExpandPercent(e.value, NewEnvLookup(base))
      = FlattenSeq([i \in DOMAIN e.value |-> Contribution(e.value, i)])
=============================================================================
