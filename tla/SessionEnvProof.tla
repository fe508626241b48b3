-------------------------- MODULE SessionEnvProof --------------------------
(***************************************************************************)
(* Proofs about SessionEnv: the types, and what the loops of env.go compute *)
(* for every block, every key and every value.                              *)
(***************************************************************************)
EXTENDS SessionEnv, TLAPS, SequenceTheorems, FiniteSetTheorems,
        NaturalsInduction, WellFoundedInduction
-----------------------------------------------------------------------------
(* Induction and recursion over an interval. *)

\* A set of naturals with 0 and every successor is all of them.
LEMMA SetInduction ==
  ASSUME NEW S, S \subseteq Nat, 0 \in S, \A n \in S : n + 1 \in S
  PROVE  S = Nat
<1>1. SUFFICES ASSUME Nat \ S # {} PROVE FALSE
  OBVIOUS
<1>2. PICK x \in Nat \ S : \A y \in Nat \ S : ~(<<y, x>> \in OpToRel(<, Nat))
  BY <1>1, WFMin, NatLessThanWellFounded, Zenon
<1>3. \A y \in Nat \ S : ~(y < x)
  BY <1>2 DEF OpToRel
<1>4. x # 0 /\ x - 1 \in Nat
  OBVIOUS
<1>5. x - 1 \in S
  BY <1>3, <1>4
<1>6. QED
  BY <1>5, <1>4

\* The same up to a bound.
LEMMA Upwards ==
  ASSUME NEW k \in Nat, NEW T, 0 \in T, \A n \in 1 .. k : n - 1 \in T => n \in T
  PROVE  0 .. k \subseteq T
<1> DEFINE S == {n \in Nat : n <= k => n \in T}
<1>1. 0 \in S
  OBVIOUS
<1>2. \A n \in S : n + 1 \in S
  OBVIOUS
<1>3. S = Nat
  <2> HIDE DEF S
  <2>1. S \subseteq Nat
    BY DEF S
  <2>2. QED
    BY <1>1, <1>2, <2>1, SetInduction
<1>4. QED
  BY <1>3

\* A set with the empty sequence and every extension has all sequences.
LEMMA SeqInduction ==
  ASSUME NEW S, NEW T, <<>> \in T,
         \A s \in Seq(S), x \in S : s \in T => Append(s, x) \in T
  PROVE  Seq(S) \subseteq T
<1> DEFINE L == {n \in Nat : \A s \in Seq(S) : Len(s) = n => s \in T}
<1>1. 0 \in L
  <2>1. \A s \in Seq(S) : Len(s) = 0 => s = <<>>
    BY EmptySeq
  <2>2. QED
    BY <2>1
<1>2. ASSUME NEW n \in L PROVE n + 1 \in L
  <2>1. SUFFICES ASSUME NEW s \in Seq(S), Len(s) = n + 1 PROVE s \in T
    OBVIOUS
  <2>2. s # <<>>
    BY <2>1
  <2>3. PICK t \in Seq(S), x \in S : s = Append(t, x)
    BY <2>2, SequenceEmptyOrAppend
  <2>4. Len(t) = n
    BY <2>1, <2>3, AppendProperties
  <2>5. QED
    BY <2>3, <2>4
<1>3. L = Nat
  <2> HIDE DEF L
  <2>1. L \subseteq Nat
    BY DEF L
  <2>2. QED
    BY <1>1, <1>2, <2>1, SetInduction
<1>4. QED
  BY <1>3, LenProperties

LEMMA ToSetEmpty == ToSet(<<>>) = {}
BY DEF ToSet

LEMMA ToSetAt ==
  ASSUME NEW S, NEW s \in Seq(S), NEW x
  PROVE  x \in ToSet(s) <=> \E i \in 1 .. Len(s) : s[i] = x
BY DEF ToSet

LEMMA ToSetAppend ==
  ASSUME NEW S, NEW s \in Seq(S), NEW e \in S
  PROVE  ToSet(Append(s, e)) = ToSet(s) \cup {e}
<1> DEFINE t == Append(s, e)
<1>1. t \in Seq(S) /\ Len(s) \in Nat /\ Len(t) = Len(s) + 1 /\ t[Len(s) + 1] = e
      /\ \A i \in 1 .. Len(s) : t[i] = s[i]
  OBVIOUS
<1> HIDE DEF t
<1>2. \A x : x \in ToSet(t) <=> \E i \in 1 .. Len(s) + 1 : t[i] = x
  BY <1>1, ToSetAt
<1>3. \A x : x \in ToSet(s) <=> \E i \in 1 .. Len(s) : s[i] = x
  BY ToSetAt
<1>4. ToSet(t) = ToSet(s) \cup {e}
  BY <1>1, <1>2, <1>3
<1>5. QED
  BY <1>4 DEF t

LEMMA InjectiveAppend ==
  ASSUME NEW S, NEW s \in Seq(S), NEW e \in S, IsInjective(s), e \notin ToSet(s)
  PROVE  IsInjective(Append(s, e))
<1> DEFINE t == Append(s, e)
<1>1. DOMAIN t = 1 .. Len(s) + 1 /\ Len(s) \in Nat /\ t[Len(s) + 1] = e
      /\ \A i \in 1 .. Len(s) : t[i] = s[i]
  OBVIOUS
<1>2. \A i, j \in 1 .. Len(s) : s[i] = s[j] => i = j
  BY DEF IsInjective
<1>3. \A i \in 1 .. Len(s) : s[i] # e
  BY ToSetAt
<1> HIDE DEF t
<1>4. IsInjective(t)
  BY <1>1, <1>2, <1>3 DEF IsInjective
<1>5. QED
  BY <1>4 DEF t
-----------------------------------------------------------------------------
(* Blocks. *)

LEMMA NamesAt ==
  ASSUME NEW T, NEW b \in Seq(T), NEW n
  PROVE  n \in NamesOf(b) <=> \E i \in 1 .. Len(b) : b[i].name = n
BY DEF NamesOf, ToSet

LEMMA DistinctAt ==
  ASSUME NEW T, NEW b \in Seq(T)
  PROVE  Distinct(b) <=> \A i, j \in 1 .. Len(b) : b[i].name = b[j].name => i = j
BY DEF Distinct

LEMMA OnceAt ==
  ASSUME NEW T, NEW b \in Seq(T), NEW n
  PROVE  Once(b, n) <=> \A i, j \in 1 .. Len(b) : b[i].name = n /\ b[j].name = n => i = j
BY DEF Once

\* The last entry of a name is the one that counts.
LEMMA ValueAt ==
  ASSUME NEW T, NEW b \in Seq(T), NEW i \in 1 .. Len(b),
         \A j \in i + 1 .. Len(b) : b[j].name # b[i].name
  PROVE  ValueOf(b, b[i].name) = b[i].value
<1> DEFINE P(l) == /\ b[l].name = b[i].name
                   /\ \A j \in DOMAIN b : j > l => b[j].name # b[i].name
           last == CHOOSE l \in DOMAIN b : P(l)
<1>1. DOMAIN b = 1 .. Len(b) /\ Len(b) \in Nat
  OBVIOUS
<1>2. P(i)
  BY <1>1
<1>3. last \in DOMAIN b /\ P(last)
  BY <1>1, <1>2
<1>4. last = i
  BY <1>1, <1>2, <1>3
<1>5. QED
  BY <1>4 DEF ValueOf

LEMMA ValueIn ==
  ASSUME NEW T, NEW b \in Seq(T), NEW n, n \in NamesOf(b)
  PROVE  \E i \in 1 .. Len(b) :
           /\ b[i].name = n
           /\ \A j \in i + 1 .. Len(b) : b[j].name # n
           /\ ValueOf(b, n) = b[i].value
<1> DEFINE P(i, k) == b[i].name = n /\ \A j \in i + 1 .. k : b[j].name # n
           S == {k \in 0 .. Len(b) : (\E i \in 1 .. k : b[i].name = n)
                                        => \E i \in 1 .. k : P(i, k)}
<1>1. Len(b) \in Nat
  OBVIOUS
<1>2. 0 \in S
  BY <1>1
<1>3. ASSUME NEW k \in 1 .. Len(b), k - 1 \in S PROVE k \in S
  <2>1. CASE b[k].name = n
    BY <2>1, <1>1
  <2>2. CASE b[k].name # n
    <3>1. SUFFICES ASSUME NEW i \in 1 .. k, b[i].name = n PROVE \E l \in 1 .. k : P(l, k)
      BY <1>1
    <3>2. i \in 1 .. k - 1
      BY <3>1, <2>2, <1>1
    <3>3. PICK l \in 1 .. k - 1 : P(l, k - 1)
      BY <3>1, <3>2, <1>3
    <3>4. P(l, k)
      BY <3>3, <2>2, <1>1
    <3>5. QED
      BY <3>4, <1>1
  <2>3. QED
    BY <2>1, <2>2
<1>4. 0 .. Len(b) \subseteq S
  <2> HIDE DEF S
  <2>1. QED
    BY <1>1, <1>2, <1>3, Upwards
<1>5. \E i \in 1 .. Len(b) : b[i].name = n
  BY NamesAt
<1>6. PICK i \in 1 .. Len(b) : P(i, Len(b))
  BY <1>1, <1>4, <1>5
<1>7. ValueOf(b, n) = b[i].value
  BY <1>6, ValueAt
<1>8. QED
  BY <1>6, <1>7

\* In a block with one entry of a name, that entry counts.
LEMMA DistinctValue ==
  ASSUME NEW T, NEW b \in Seq(T), Distinct(b), NEW i \in 1 .. Len(b)
  PROVE  ValueOf(b, b[i].name) = b[i].value
<1>1. \A j \in i + 1 .. Len(b) : b[j].name # b[i].name
  BY DistinctAt
<1>2. QED
  BY <1>1, ValueAt

\* r is the block b, still with one entry of a name, with one name set.
Sets(r, b, name, value) ==
  /\ r \in Seq(EnvEntries)
  /\ Distinct(r)
  /\ NamesOf(r) = NamesOf(b) \cup {name}
  /\ ValueOf(r, name) = value
  /\ \A n \in NamesOf(b) \ {name} : ValueOf(r, n) = ValueOf(b, n)

\* add keeps a block distinct and sets the one name.
LEMMA AddSets ==
  ASSUME NEW b \in Seq(EnvEntries), Distinct(b), NEW e \in EnvEntries
  PROVE  Sets(Add(b, e), b, e.name, e.value)
<1> DEFINE c == Add(b, e)
           x == Entry(e.name, e.value)
<1>0. x \in EnvEntries /\ x.name = e.name /\ x.value = e.value
  BY DEF Entry, EnvEntries
<1>1. Len(b) \in Nat /\ DOMAIN b = 1 .. Len(b) /\ \A i \in 1 .. Len(b) : b[i] \in EnvEntries
  OBVIOUS
<1>2. CASE Has(b, e.name)
  <2>1. c = [i \in 1 .. Len(b) |-> IF b[i].name = e.name THEN x ELSE b[i]]
    BY <1>1, <1>2 DEF Add
  <2>2. c \in Seq(EnvEntries) /\ Len(c) = Len(b)
    BY <2>1, <1>0, <1>1
  <2>3. \A i \in 1 .. Len(b) : c[i].name = b[i].name
    BY <2>1, <1>0
  <2>4. Distinct(c)
    BY <2>2, <2>3, DistinctAt
  <2>5. NamesOf(c) = NamesOf(b) /\ e.name \in NamesOf(b)
    <3>1. \A n : n \in NamesOf(c) <=> \E i \in 1 .. Len(b) : c[i].name = n
      BY <2>2, NamesAt
    <3>2. \A n : n \in NamesOf(b) <=> \E i \in 1 .. Len(b) : b[i].name = n
      BY NamesAt
    <3>3. NamesOf(c) = NamesOf(b)
      BY <3>1, <3>2, <2>3
    <3>4. QED
      BY <3>3, <1>2 DEF Has
  <2>6. \A i \in 1 .. Len(b) : ValueOf(c, c[i].name) = c[i].value
    BY <2>2, <2>4, DistinctValue
  <2>7. PICK i \in 1 .. Len(b) : b[i].name = e.name
    BY <2>5, NamesAt
  <2>8. ValueOf(c, e.name) = e.value
    BY <2>1, <2>3, <2>6, <2>7, <1>0
  <2>9. ASSUME NEW n \in NamesOf(b) \ {e.name} PROVE ValueOf(c, n) = ValueOf(b, n)
    <3>1. PICK j \in 1 .. Len(b) : b[j].name = n
      BY NamesAt
    <3>2. ValueOf(b, n) = b[j].value
      BY <3>1, DistinctValue
    <3>3. QED
      BY <2>1, <2>3, <2>6, <3>1, <3>2
  <2> HIDE DEF c
  <2>10. QED
    BY <2>2, <2>4, <2>5, <2>8, <2>9 DEF Sets, c
<1>3. CASE ~Has(b, e.name)
  <2>1. c = Append(b, x)
    BY <1>3 DEF Add
  <2>2. c \in Seq(EnvEntries) /\ Len(c) = Len(b) + 1 /\ c[Len(b) + 1] = x
        /\ \A i \in 1 .. Len(b) : c[i] = b[i]
    BY <2>1, <1>0, <1>1
  <2>3. \A i \in 1 .. Len(b) : b[i].name # e.name
    BY <1>3, NamesAt DEF Has
  <2>4. Distinct(c)
    BY <2>2, <2>3, <1>0, <1>1, DistinctAt
  <2>5. NamesOf(c) = NamesOf(b) \cup {e.name}
    <3>1. \A n : n \in NamesOf(c) <=> \E i \in 1 .. Len(b) + 1 : c[i].name = n
      BY <2>2, NamesAt
    <3>2. \A n : n \in NamesOf(b) <=> \E i \in 1 .. Len(b) : b[i].name = n
      BY NamesAt
    <3>3. QED
      BY <3>1, <3>2, <2>2, <1>0, <1>1
  <2>6. \A i \in 1 .. Len(b) + 1 : ValueOf(c, c[i].name) = c[i].value
    BY <2>2, <2>4, DistinctValue
  <2>7. ValueOf(c, e.name) = e.value
    BY <2>2, <2>6, <1>0, <1>1
  <2>8. ASSUME NEW n \in NamesOf(b) \ {e.name} PROVE ValueOf(c, n) = ValueOf(b, n)
    <3>1. PICK j \in 1 .. Len(b) : b[j].name = n
      BY NamesAt
    <3>2. ValueOf(b, n) = b[j].value
      BY <3>1, DistinctValue
    <3>3. QED
      BY <2>2, <2>6, <3>1, <3>2, <1>1
  <2> HIDE DEF c
  <2>9. QED
    BY <2>2, <2>4, <2>5, <2>7, <2>8 DEF Sets, c
<1>4. QED
  BY <1>2, <1>3
-----------------------------------------------------------------------------
(* The loops of env.go.  Each is a recursive function in SessionEnv; their  *)
(* steps are put together here so that one induction shows that all run.    *)

SplitAt(parts, w) ==
  IF w = ";" THEN Append(parts, <<>>)
  ELSE [parts EXCEPT ![Len(parts)] = Append(@, w)]

Join(path, n, p) == IF n = 1 THEN p ELSE path \o <<";">> \o p

Keep(out, p) == IF p = <<>> \/ Repeats(out, p) THEN out ELSE Append(out, p)

Over(out, layer, e) == IF layer = "user" THEN AddUser(out, e) ELSE Add(out, e)

Replace(out, x, e) ==
  IF e.name # x.name THEN Append(out, e)
  ELSE IF Has(out, x.name) THEN out ELSE Append(out, x)

Expand(entries, seeded, v) ==
  Append(entries, Entry(v.name, Expanded(v, SetAll(seeded, Latest(entries, DOMAIN entries)))))

Flat(out, n, c) == IF n = 1 THEN c ELSE out \o c

\* Step n of a loop with parameter x, from accumulator a, at element e.
Step(loop, x, n, a, e) ==
  IF loop = "parts" THEN SplitAt(a, e)
  ELSE IF loop = "joined" THEN Join(a, n, e)
  ELSE IF loop = "kept" THEN Keep(a, e)
  ELSE IF loop = "overlay" THEN Over(a, x, e)
  ELSE IF loop = "replace" THEN Replace(a, x, e)
  ELSE IF loop = "flat" THEN Flat(a, n, e)
  ELSE Expand(a, x, e)

IsRun(f, loop, x, init, s, k) ==
  f = [n \in 0 .. k |-> IF n = 0 THEN init ELSE Step(loop, x, n, f[n - 1], s[n])]

LEMMA LoopRuns ==
  ASSUME NEW loop, NEW x, NEW init, NEW s, NEW k \in Nat
  PROVE  \E f : IsRun(f, loop, x, init, s, k)
<1> DEFINE T == {m \in Nat : \E f : IsRun(f, loop, x, init, s, m)}
<1>1. 0 \in T
  <2>1. IsRun([n \in 0 .. 0 |-> init], loop, x, init, s, 0)
    BY DEF IsRun
  <2>2. QED
    BY <2>1
<1>2. ASSUME NEW m \in T PROVE m + 1 \in T
  <2>1. PICK g : IsRun(g, loop, x, init, s, m)
    OBVIOUS
  <2> DEFINE h == [n \in 0 .. m + 1 |-> IF n <= m THEN g[n]
                                       ELSE Step(loop, x, m + 1, g[m], s[m + 1])]
  <2>2. \A n \in 0 .. m + 1 :
          h[n] = IF n = 0 THEN init ELSE Step(loop, x, n, h[n - 1], s[n])
    BY <2>1 DEF IsRun
  <2>3. IsRun(h, loop, x, init, s, m + 1)
    BY <2>2 DEF IsRun
  <2>4. QED
    BY <2>3
<1>3. T = Nat
  <2> HIDE DEF T
  <2>1. T \subseteq Nat
    BY DEF T
  <2>2. QED
    BY <1>1, <1>2, <2>1, SetInduction
<1>4. QED
  BY <1>3

LEMMA RunAt ==
  ASSUME NEW loop, NEW x, NEW init, NEW s, NEW k \in Nat,
         NEW f, IsRun(f, loop, x, init, s, k)
  PROVE  f[0] = init /\ \A n \in 1 .. k : f[n] = Step(loop, x, n, f[n - 1], s[n])
BY DEF IsRun

\* One element more is one step more.
LEMMA RunAppend ==
  ASSUME NEW loop, NEW x, NEW init, NEW S, NEW s \in Seq(S), NEW e \in S,
         NEW f, IsRun(f, loop, x, init, s, Len(s)),
         NEW g, IsRun(g, loop, x, init, Append(s, e), Len(Append(s, e)))
  PROVE  g[Len(Append(s, e))] = Step(loop, x, Len(s) + 1, f[Len(s)], e)
<1> DEFINE k == Len(s)
           t == Append(s, e)
<1>1. k \in Nat /\ Len(t) = k + 1 /\ t[k + 1] = e /\ \A n \in 1 .. k : t[n] = s[n]
  BY AppendProperties, LenProperties
<1>2. f[0] = init /\ \A n \in 1 .. k : f[n] = Step(loop, x, n, f[n - 1], s[n])
  BY <1>1, RunAt
<1>3. g[0] = init /\ \A n \in 1 .. k + 1 : g[n] = Step(loop, x, n, g[n - 1], t[n])
  <2>1. k + 1 \in Nat /\ IsRun(g, loop, x, init, t, k + 1)
    BY <1>1
  <2> HIDE DEF t, k
  <2>2. QED
    BY <2>1, RunAt
<1> HIDE DEF k, t
<1>4. \A n \in 0 .. k : f[n] = g[n]
  <2> DEFINE T == {n \in 0 .. k : f[n] = g[n]}
  <2>1. 0 \in T
    BY <1>1, <1>2, <1>3
  <2>2. \A n \in 1 .. k : n - 1 \in T => n \in T
    BY <1>1, <1>2, <1>3
  <2>3. 0 .. k \subseteq T
    <3> HIDE DEF T
    <3>1. QED
      BY <1>1, <2>1, <2>2, Upwards
  <2>4. QED
    BY <2>3
<1>5. g[k + 1] = Step(loop, x, k + 1, f[k], e)
  BY <1>1, <1>3, <1>4
<1>6. QED
  BY <1>1, <1>5 DEF k, t

LEMMA PartsRun ==
  ASSUME NEW s, Len(s) \in Nat
  PROVE  \E f : /\ IsRun(f, "parts", 0, <<<<>>>>, s, Len(s))
               /\ Parts(s) = f[Len(s)]
<1> DEFINE Eq(f) == f = [n \in 0 .. Len(s) |-> IF n = 0 THEN <<<<>>>>
                                              ELSE SplitAt(f[n - 1], s[n])]
           g == CHOOSE f : Eq(f)
<1>1. Parts(s) = g[Len(s)]
  BY DEF Parts, SplitAt
<1>2. \A f : Eq(f) <=> IsRun(f, "parts", 0, <<<<>>>>, s, Len(s))
  BY DEF IsRun, Step
<1>3. \E f : Eq(f)
  <2> HIDE DEF Eq
  <2>1. QED
    BY <1>2, LoopRuns
<1>4. Eq(g)
  <2> HIDE DEF Eq
  <2>1. QED
    BY <1>3
<1> HIDE DEF Eq, g
<1>5. QED
  BY <1>1, <1>2, <1>4

\* strings.Split, word by word.
LEMMA PartsLoop ==
  ASSUME NEW S
  PROVE  /\ Parts(<<>>) = <<<<>>>>
         /\ \A s \in Seq(S), e \in S :
              Parts(Append(s, e)) = SplitAt(Parts(s), e)
<1>1. Parts(<<>>) = <<<<>>>>
  <2>1. Len(<<>>) = 0
    OBVIOUS
  <2>2. PICK f : IsRun(f, "parts", 0, <<<<>>>>, <<>>, 0) /\ Parts(<<>>) = f[0]
    BY <2>1, PartsRun
  <2>3. QED
    BY <2>2 DEF IsRun
<1>2. ASSUME NEW s \in Seq(S), NEW e \in S
      PROVE  Parts(Append(s, e)) = SplitAt(Parts(s), e)
  <2>1. Len(s) \in Nat /\ Len(Append(s, e)) \in Nat
    BY AppendProperties, LenProperties
  <2>2. PICK f : /\ IsRun(f, "parts", 0, <<<<>>>>, s, Len(s))
                 /\ Parts(s) = f[Len(s)]
    BY <2>1, PartsRun
  <2>3. PICK g : /\ IsRun(g, "parts", 0, <<<<>>>>, Append(s, e), Len(Append(s, e)))
                 /\ Parts(Append(s, e)) = g[Len(Append(s, e))]
    BY <2>1, PartsRun
  <2>4. Parts(Append(s, e)) = Step("parts", 0, Len(s) + 1, Parts(s), e)
    BY <2>2, <2>3, RunAppend
  <2>5. QED
    BY <2>4 DEF Step
<1>3. QED
  BY <1>1, <1>2

LEMMA JoinedRun ==
  ASSUME NEW s, Len(s) \in Nat
  PROVE  \E f : /\ IsRun(f, "joined", 0, <<>>, s, Len(s))
               /\ Joined(s) = f[Len(s)]
<1> DEFINE Eq(f) == f = [n \in 0 .. Len(s) |-> IF n = 0 THEN <<>>
                                              ELSE Join(f[n - 1], n, s[n])]
           g == CHOOSE f : Eq(f)
<1>1. Joined(s) = g[Len(s)]
  BY DEF Joined, Join
<1>2. \A f : Eq(f) <=> IsRun(f, "joined", 0, <<>>, s, Len(s))
  BY DEF IsRun, Step
<1>3. \E f : Eq(f)
  <2> HIDE DEF Eq
  <2>1. QED
    BY <1>2, LoopRuns
<1>4. Eq(g)
  <2> HIDE DEF Eq
  <2>1. QED
    BY <1>3
<1> HIDE DEF Eq, g
<1>5. QED
  BY <1>1, <1>2, <1>4

\* strings.Join, part by part.
LEMMA JoinedLoop ==
  ASSUME NEW S
  PROVE  /\ Joined(<<>>) = <<>>
         /\ \A s \in Seq(S), e \in S :
              Joined(Append(s, e)) = Join(Joined(s), Len(s) + 1, e)
<1>1. Joined(<<>>) = <<>>
  <2>1. Len(<<>>) = 0
    OBVIOUS
  <2>2. PICK f : IsRun(f, "joined", 0, <<>>, <<>>, 0) /\ Joined(<<>>) = f[0]
    BY <2>1, JoinedRun
  <2>3. QED
    BY <2>2 DEF IsRun
<1>2. ASSUME NEW s \in Seq(S), NEW e \in S
      PROVE  Joined(Append(s, e)) = Join(Joined(s), Len(s) + 1, e)
  <2>1. Len(s) \in Nat /\ Len(Append(s, e)) \in Nat
    BY AppendProperties, LenProperties
  <2>2. PICK f : /\ IsRun(f, "joined", 0, <<>>, s, Len(s))
                 /\ Joined(s) = f[Len(s)]
    BY <2>1, JoinedRun
  <2>3. PICK g : /\ IsRun(g, "joined", 0, <<>>, Append(s, e), Len(Append(s, e)))
                 /\ Joined(Append(s, e)) = g[Len(Append(s, e))]
    BY <2>1, JoinedRun
  <2>4. Joined(Append(s, e)) = Step("joined", 0, Len(s) + 1, Joined(s), e)
    BY <2>2, <2>3, RunAppend
  <2>5. QED
    BY <2>4 DEF Step
<1>3. QED
  BY <1>1, <1>2

LEMMA KeptRun ==
  ASSUME NEW s, Len(s) \in Nat
  PROVE  \E f : /\ IsRun(f, "kept", 0, <<>>, s, Len(s))
               /\ Kept(s) = f[Len(s)]
<1> DEFINE Eq(f) == f = [n \in 0 .. Len(s) |-> IF n = 0 THEN <<>>
                                              ELSE Keep(f[n - 1], s[n])]
           g == CHOOSE f : Eq(f)
<1>1. Kept(s) = g[Len(s)]
  BY DEF Kept, Keep
<1>2. \A f : Eq(f) <=> IsRun(f, "kept", 0, <<>>, s, Len(s))
  BY DEF IsRun, Step
<1>3. \E f : Eq(f)
  <2> HIDE DEF Eq
  <2>1. QED
    BY <1>2, LoopRuns
<1>4. Eq(g)
  <2> HIDE DEF Eq
  <2>1. QED
    BY <1>3
<1> HIDE DEF Eq, g
<1>5. QED
  BY <1>1, <1>2, <1>4

\* mergePath's loop over the parts.
LEMMA KeptLoop ==
  ASSUME NEW S
  PROVE  /\ Kept(<<>>) = <<>>
         /\ \A s \in Seq(S), e \in S :
              Kept(Append(s, e)) = Keep(Kept(s), e)
<1>1. Kept(<<>>) = <<>>
  <2>1. Len(<<>>) = 0
    OBVIOUS
  <2>2. PICK f : IsRun(f, "kept", 0, <<>>, <<>>, 0) /\ Kept(<<>>) = f[0]
    BY <2>1, KeptRun
  <2>3. QED
    BY <2>2 DEF IsRun
<1>2. ASSUME NEW s \in Seq(S), NEW e \in S
      PROVE  Kept(Append(s, e)) = Keep(Kept(s), e)
  <2>1. Len(s) \in Nat /\ Len(Append(s, e)) \in Nat
    BY AppendProperties, LenProperties
  <2>2. PICK f : /\ IsRun(f, "kept", 0, <<>>, s, Len(s))
                 /\ Kept(s) = f[Len(s)]
    BY <2>1, KeptRun
  <2>3. PICK g : /\ IsRun(g, "kept", 0, <<>>, Append(s, e), Len(Append(s, e)))
                 /\ Kept(Append(s, e)) = g[Len(Append(s, e))]
    BY <2>1, KeptRun
  <2>4. Kept(Append(s, e)) = Step("kept", 0, Len(s) + 1, Kept(s), e)
    BY <2>2, <2>3, RunAppend
  <2>5. QED
    BY <2>4 DEF Step
<1>3. QED
  BY <1>1, <1>2

LEMMA OverlayRun ==
  ASSUME NEW b, NEW layer, NEW s, Len(s) \in Nat
  PROVE  \E f : /\ IsRun(f, "overlay", layer, b, s, Len(s))
               /\ Overlay(b, s, layer) = f[Len(s)]
<1> DEFINE Eq(f) == f = [n \in 0 .. Len(s) |-> IF n = 0 THEN b
                                              ELSE Over(f[n - 1], layer, s[n])]
           g == CHOOSE f : Eq(f)
<1>1. Overlay(b, s, layer) = g[Len(s)]
  BY DEF Overlay, Over
<1>2. \A f : Eq(f) <=> IsRun(f, "overlay", layer, b, s, Len(s))
  BY DEF IsRun, Step
<1>3. \E f : Eq(f)
  <2> HIDE DEF Eq
  <2>1. QED
    BY <1>2, LoopRuns
<1>4. Eq(g)
  <2> HIDE DEF Eq
  <2>1. QED
    BY <1>3
<1> HIDE DEF Eq, g
<1>5. QED
  BY <1>1, <1>2, <1>4

LEMMA OverlayEmpty ==
  ASSUME NEW b, NEW layer
  PROVE  Overlay(b, <<>>, layer) = b
<1>1. Len(<<>>) = 0
  OBVIOUS
<1>2. PICK f : IsRun(f, "overlay", layer, b, <<>>, 0) /\ Overlay(b, <<>>, layer) = f[0]
  BY <1>1, OverlayRun
<1>3. QED
  BY <1>2 DEF IsRun

\* composeEnv's loop over one layer.
LEMMA OverlayAppend ==
  ASSUME NEW b, NEW layer, NEW S, NEW s \in Seq(S), NEW e \in S
  PROVE  Overlay(b, Append(s, e), layer) = Over(Overlay(b, s, layer), layer, e)
<1>1. Len(s) \in Nat /\ Len(Append(s, e)) \in Nat
  BY AppendProperties, LenProperties
<1>2. PICK f : /\ IsRun(f, "overlay", layer, b, s, Len(s))
               /\ Overlay(b, s, layer) = f[Len(s)]
  BY <1>1, OverlayRun
<1>3. PICK g : /\ IsRun(g, "overlay", layer, b, Append(s, e), Len(Append(s, e)))
               /\ Overlay(b, Append(s, e), layer) = g[Len(Append(s, e))]
  BY <1>1, OverlayRun
<1>4. Overlay(b, Append(s, e), layer) = Step("overlay", layer, Len(s) + 1, Overlay(b, s, layer), e)
  BY <1>2, <1>3, RunAppend
<1>5. QED
  BY <1>4 DEF Step

\* expandLayer's second loop, from the lookup that the first one leaves.
Expansion(values, seeded) ==
  LET entries[n \in 0 .. Len(values)] ==
        IF n = 0 THEN <<>> ELSE Expand(entries[n - 1], seeded, values[n])
  IN entries[Len(values)]

LEMMA ExpandLayerIs ==
  ASSUME NEW values, NEW lookup
  PROVE  ExpandLayer(values, lookup) = Expansion(values, SetAll(lookup, Seeds(values)))
BY DEF ExpandLayer, Expansion, Expand

LEMMA ExpansionRun ==
  ASSUME NEW seeded, NEW s, Len(s) \in Nat
  PROVE  \E f : /\ IsRun(f, "expand", seeded, <<>>, s, Len(s))
               /\ Expansion(s, seeded) = f[Len(s)]
<1> DEFINE Eq(f) == f = [n \in 0 .. Len(s) |-> IF n = 0 THEN <<>>
                                              ELSE Expand(f[n - 1], seeded, s[n])]
           g == CHOOSE f : Eq(f)
<1>1. Expansion(s, seeded) = g[Len(s)]
  BY DEF Expansion
<1>2. \A f : Eq(f) <=> IsRun(f, "expand", seeded, <<>>, s, Len(s))
  BY DEF IsRun, Step
<1>3. \E f : Eq(f)
  <2> HIDE DEF Eq
  <2>1. QED
    BY <1>2, LoopRuns
<1>4. Eq(g)
  <2> HIDE DEF Eq
  <2>1. QED
    BY <1>3
<1> HIDE DEF Eq, g
<1>5. QED
  BY <1>1, <1>2, <1>4

LEMMA ExpansionEmpty ==
  ASSUME NEW seeded
  PROVE  Expansion(<<>>, seeded) = <<>>
<1>1. Len(<<>>) = 0
  OBVIOUS
<1>2. PICK f : IsRun(f, "expand", seeded, <<>>, <<>>, 0) /\ Expansion(<<>>, seeded) = f[0]
  BY <1>1, ExpansionRun
<1>3. QED
  BY <1>2 DEF IsRun

\* expandLayer's second loop.
LEMMA ExpansionAppend ==
  ASSUME NEW seeded, NEW S, NEW s \in Seq(S), NEW e \in S
  PROVE  Expansion(Append(s, e), seeded) = Expand(Expansion(s, seeded), seeded, e)
<1>1. Len(s) \in Nat /\ Len(Append(s, e)) \in Nat
  BY AppendProperties, LenProperties
<1>2. PICK f : /\ IsRun(f, "expand", seeded, <<>>, s, Len(s))
               /\ Expansion(s, seeded) = f[Len(s)]
  BY <1>1, ExpansionRun
<1>3. PICK g : /\ IsRun(g, "expand", seeded, <<>>, Append(s, e), Len(Append(s, e)))
               /\ Expansion(Append(s, e), seeded) = g[Len(Append(s, e))]
  BY <1>1, ExpansionRun
<1>4. Expansion(Append(s, e), seeded) = Step("expand", seeded, Len(s) + 1, Expansion(s, seeded), e)
  BY <1>2, <1>3, RunAppend
<1>5. QED
  BY <1>4 DEF Step

LEMMA ReplaceEnvRun ==
  ASSUME NEW s, Len(s) \in Nat, NEW name, NEW value
  PROVE  \E f : /\ IsRun(f, "replace", Entry(name, value), <<>>, s, Len(s))
               /\ ReplaceEnv(s, name, value)
                    = IF Has(f[Len(s)], name) THEN f[Len(s)]
                      ELSE Append(f[Len(s)], Entry(name, value))
<1> DEFINE Eq(f) == f = [n \in 0 .. Len(s) |->
                           IF n = 0 THEN <<>>
                           ELSE IF s[n].name # name THEN Append(f[n - 1], s[n])
                           ELSE IF Has(f[n - 1], name) THEN f[n - 1]
                           ELSE Append(f[n - 1], Entry(name, value))]
           g == CHOOSE f : Eq(f)
<1>1. ReplaceEnv(s, name, value) = IF Has(g[Len(s)], name) THEN g[Len(s)]
                                   ELSE Append(g[Len(s)], Entry(name, value))
  BY DEF ReplaceEnv
<1>2. \A f : Eq(f) <=> IsRun(f, "replace", Entry(name, value), <<>>, s, Len(s))
  <2>1. Entry(name, value).name = name
    BY DEF Entry
  <2>2. QED
    BY <2>1 DEF IsRun, Step, Replace
<1>3. \E f : Eq(f)
  <2> HIDE DEF Eq
  <2>1. QED
    BY <1>2, LoopRuns
<1>4. Eq(g)
  <2> HIDE DEF Eq
  <2>1. QED
    BY <1>3
<1> HIDE DEF Eq, g
<1>5. QED
  BY <1>1, <1>2, <1>4

LEMMA AddNew ==
  ASSUME NEW b \in Seq(EnvEntries), NEW e \in EnvEntries, e.name \notin NamesOf(b)
  PROVE  Append(b, e) = Add(b, e)
<1>1. Entry(e.name, e.value) = e
  BY DEF Entry, EnvEntries
<1>2. QED
  BY <1>1 DEF Add, Has

\* replaceEnv sets the one name of a block.
LEMMA ReplaceEnvSets ==
  ASSUME NEW b \in Seq(EnvEntries), Distinct(b), NEW name \in Words, NEW value \in Values
  PROVE  Sets(ReplaceEnv(b, name, value), b, name, value)
<1> DEFINE x == Entry(name, value)
<1>1. Len(b) \in Nat /\ \A i \in 1 .. Len(b) : b[i] \in EnvEntries
  OBVIOUS
<1>2. x \in EnvEntries /\ x.name = name /\ x.value = value
  BY DEF Entry, EnvEntries
<1>3. PICK f : /\ IsRun(f, "replace", x, <<>>, b, Len(b))
               /\ ReplaceEnv(b, name, value) = IF Has(f[Len(b)], name) THEN f[Len(b)]
                                               ELSE Append(f[Len(b)], x)
  BY <1>1, ReplaceEnvRun
<1> HIDE DEF x
<1>4. f[0] = <<>> /\ \A n \in 1 .. Len(b) : f[n] = Replace(f[n - 1], x, b[n])
  BY <1>1, <1>3 DEF IsRun, Step
<1> DEFINE Good(n) == /\ f[n] \in Seq(EnvEntries)
                      /\ Distinct(f[n])
                      /\ NamesOf(f[n]) = {b[j].name : j \in 1 .. n}
                      /\ \A j \in 1 .. n : ValueOf(f[n], b[j].name)
                           = IF b[j].name = name THEN value ELSE b[j].value
           T == {n \in 0 .. Len(b) : Good(n)}
<1>5. 0 \in T
  <2>1. f[0] \in Seq(EnvEntries)
    BY <1>4
  <2>2. Distinct(f[0])
    BY <1>4 DEF Distinct
  <2>3. NamesOf(f[0]) = {}
    BY <1>4 DEF NamesOf, ToSet
  <2>4. Good(0)
    BY <2>1, <2>2, <2>3
  <2>5. QED
    BY <1>1, <2>4
<1>6. ASSUME NEW n \in 1 .. Len(b), n - 1 \in T PROVE n \in T
  <2> DEFINE y == IF b[n].name = name THEN x ELSE b[n]
  <2>1. y \in EnvEntries /\ y.name = b[n].name
        /\ y.value = IF b[n].name = name THEN value ELSE b[n].value
    BY <1>1, <1>2
  <2>2. Good(n - 1) /\ n - 1 \in 0 .. Len(b)
    BY <1>6
  <2>3. b[n].name \notin NamesOf(f[n - 1])
    <3>1. \A j \in 1 .. n - 1 : b[j].name # b[n].name
      BY <1>1, DistinctAt
    <3>2. QED
      BY <3>1, <2>2
  <2>4. f[n] = Append(f[n - 1], y)
    BY <2>3, <1>2, <1>4 DEF Replace, Has
  <2> HIDE DEF y
  <2>5. f[n] = Add(f[n - 1], y)
    BY <2>1, <2>2, <2>3, <2>4, AddNew
  <2>6. /\ f[n] \in Seq(EnvEntries)
        /\ Distinct(f[n])
        /\ NamesOf(f[n]) = NamesOf(f[n - 1]) \cup {b[n].name}
        /\ ValueOf(f[n], b[n].name) = y.value
        /\ \A m \in NamesOf(f[n - 1]) \ {b[n].name} : ValueOf(f[n], m) = ValueOf(f[n - 1], m)
    <3>1. Sets(f[n], f[n - 1], b[n].name, y.value)
      BY <2>1, <2>2, <2>5, AddSets
    <3>2. QED
      BY <3>1 DEF Sets
  <2>7. NamesOf(f[n]) = {b[j].name : j \in 1 .. n}
    BY <2>2, <2>6, <1>1
  <2>8. ASSUME NEW j \in 1 .. n
        PROVE  ValueOf(f[n], b[j].name) = IF b[j].name = name THEN value ELSE b[j].value
    <3>1. CASE j = n
      BY <3>1, <2>1, <2>6
    <3>2. CASE j # n
      <4>1. j \in 1 .. n - 1
        BY <3>2, <1>1
      <4>2. b[j].name \in NamesOf(f[n - 1])
        BY <4>1, <2>2
      <4>3. QED
        BY <4>1, <4>2, <2>2, <2>3, <2>6
    <3>3. QED
      BY <3>1, <3>2
  <2>9. Good(n)
    BY <2>6, <2>7, <2>8
  <2> HIDE DEF Good
  <2>10. QED
    BY <2>9, <1>1
<1>7. Good(Len(b))
  <2>1. 0 .. Len(b) \subseteq T
    <3> HIDE DEF T
    <3>1. QED
      BY <1>1, <1>5, <1>6, Upwards
  <2> HIDE DEF Good
  <2>2. QED
    BY <2>1, <1>1
<1> DEFINE all == f[Len(b)]
<1>8. NamesOf(all) = NamesOf(b)
  <2>1. \A n : n \in NamesOf(b) <=> \E j \in 1 .. Len(b) : b[j].name = n
    BY NamesAt
  <2>2. QED
    BY <2>1, <1>7
<1>9. \A n \in NamesOf(b) : ValueOf(all, n) = IF n = name THEN value ELSE ValueOf(b, n)
  <2>1. TAKE n \in NamesOf(b)
  <2>2. PICK j \in 1 .. Len(b) : b[j].name = n
    BY NamesAt
  <2>3. ValueOf(b, n) = b[j].value
    BY <2>2, DistinctValue
  <2>4. QED
    BY <2>2, <2>3, <1>7
<1>10. CASE Has(all, name)
  <2>1. ReplaceEnv(b, name, value) = all /\ name \in NamesOf(b)
    BY <1>3, <1>8, <1>10 DEF Has
  <2>2. QED
    BY <2>1, <1>7, <1>8, <1>9 DEF Sets
<1>11. CASE ~Has(all, name)
  <2>1. name \notin NamesOf(b) /\ ReplaceEnv(b, name, value) = Append(all, x)
    BY <1>3, <1>8, <1>11 DEF Has
  <2>2. ReplaceEnv(b, name, value) = Add(all, x)
    BY <2>1, <1>2, <1>7, <1>8, AddNew
  <2>3. Sets(ReplaceEnv(b, name, value), all, name, value)
    BY <2>2, <1>2, <1>7, AddSets
  <2> HIDE DEF all
  <2>4. QED
    BY <2>1, <2>3, <1>8, <1>9 DEF Sets
<1>12. QED
  BY <1>10, <1>11
-----------------------------------------------------------------------------
(* mergePath. *)

Plain == Words \ {";"}
Dirs == Seq(Plain)

LEMMA DirsAreValues == Dirs \subseteq Values /\ <<>> \in Dirs
<1>1. Plain \subseteq Words
  BY DEF Plain
<1>2. QED
  BY <1>1, SeqMonotonic, EmptySeq DEF Dirs, Values

LEMMA Separator == ";" \in Words
BY EnvAssumption

LEMMA SplitAtType ==
  ASSUME NEW parts \in Seq(Dirs), parts # <<>>, NEW w \in Words
  PROVE  SplitAt(parts, w) \in Seq(Dirs) /\ SplitAt(parts, w) # <<>>
<1>1. Len(parts) \in Nat \ {0} /\ parts[Len(parts)] \in Dirs
  BY EmptySeq, LenProperties, ElementOfSeq
<1>2. CASE w = ";"
  <2>1. Append(parts, <<>>) \in Seq(Dirs) /\ Append(parts, <<>>) # <<>>
    BY DirsAreValues, AppendProperties, Zenon
  <2>2. QED
    BY <2>1, <1>2 DEF SplitAt
<1>3. CASE w # ";"
  <2> DEFINE x == Append(parts[Len(parts)], w)
             c == [parts EXCEPT ![Len(parts)] = x]
  <2>1. x \in Dirs
    BY <1>1, <1>3, AppendProperties DEF Dirs, Plain
  <2>2. SplitAt(parts, w) = c
    BY <1>3 DEF SplitAt
  <2> HIDE DEF x
  <2>3. c \in Seq(Dirs) /\ Len(c) = Len(parts)
    <3>1. Len(parts) \in 1 .. Len(parts)
      BY <1>1
    <3>2. c = [i \in 1 .. Len(parts) |-> IF i = Len(parts) THEN x ELSE parts[i]]
      OBVIOUS
    <3> HIDE DEF c
    <3>3. c \in [1 .. Len(parts) -> Dirs]
      <4>1. \A i \in 1 .. Len(parts) : parts[i] \in Dirs
        BY ElementOfSeq
      <4>2. QED
        BY <2>1, <3>2, <4>1
    <3>4. QED
      BY <1>1, <3>3
  <2> HIDE DEF c
  <2>4. c # <<>>
    BY <2>3, <1>1
  <2>5. QED
    BY <2>2, <2>3, <2>4
<1>4. QED
  BY <1>2, <1>3

\* Parts have no separator, and there is always one.
LEMMA PartsType ==
  ASSUME NEW s \in Values
  PROVE  Parts(s) \in Seq(Dirs) /\ Parts(s) # <<>>
<1> DEFINE T == {t \in Values : Parts(t) \in Seq(Dirs) /\ Parts(t) # <<>>}
<1>1. <<>> \in T
  <2>1. <<>> \in Values /\ <<<<>>>> \in Seq(Dirs) /\ <<<<>>>> # <<>>
    BY DirsAreValues
  <2>2. Parts(<<>>) = <<<<>>>>
    BY PartsLoop
  <2>3. QED
    BY <2>1, <2>2
<1>2. ASSUME NEW t \in Seq(Words), NEW w \in Words, t \in T PROVE Append(t, w) \in T
  <2>1. Parts(Append(t, w)) = SplitAt(Parts(t), w)
    BY PartsLoop
  <2>2. Append(t, w) \in Values
    BY AppendProperties DEF Values
  <2>3. QED
    BY <2>1, <2>2, <1>2, SplitAtType
<1>3. Seq(Words) \subseteq T
  <2> HIDE DEF T
  <2>1. QED
    BY <1>1, <1>2, SeqInduction
<1>4. QED
  BY <1>3 DEF Values

\* What mergePath keeps: every part that is not empty, once.
LEMMA KeptIs ==
  ASSUME NEW ps \in Seq(Dirs)
  PROVE  /\ Kept(ps) \in Seq(Dirs \ {<<>>})
         /\ IsInjective(Kept(ps))
         /\ ToSet(Kept(ps)) = ToSet(ps) \ {<<>>}
<1> DEFINE P(qs) == /\ Kept(qs) \in Seq(Dirs \ {<<>>})
                    /\ IsInjective(Kept(qs))
                    /\ ToSet(Kept(qs)) = ToSet(qs) \ {<<>>}
           T == {qs \in Seq(Dirs) : P(qs)}
<1>1. <<>> \in T
  <2>1. Kept(<<>>) = <<>>
    BY KeptLoop
  <2>2. IsInjective(<<>>)
    BY DEF IsInjective
  <2>3. <<>> \in Seq(Dirs \ {<<>>})
    BY EmptySeq
  <2>4. P(<<>>)
    BY <2>1, <2>2, <2>3, ToSetEmpty
  <2>5. QED
    BY <2>4
<1>2. ASSUME NEW qs \in Seq(Dirs), NEW d \in Dirs, qs \in T PROVE Append(qs, d) \in T
  <2> DEFINE k == Kept(qs)
  <2>1. Kept(Append(qs, d)) = Keep(k, d)
    BY KeptLoop
  <2>2. k \in Seq(Dirs \ {<<>>}) /\ IsInjective(k) /\ ToSet(k) = ToSet(qs) \ {<<>>}
    BY <1>2
  <2>3. Append(qs, d) \in Seq(Dirs) /\ ToSet(Append(qs, d)) = ToSet(qs) \cup {d}
    BY ToSetAppend
  <2> HIDE DEF k
  <2>4. Repeats(k, d) <=> d \in ToSet(k)
    BY <2>2 DEF Repeats, Contains, ToSet
  <2>5. CASE d = <<>> \/ Repeats(k, d)
    BY <2>1, <2>2, <2>3, <2>4, <2>5 DEF Keep
  <2>6. CASE d # <<>> /\ ~Repeats(k, d)
    <3>1. Kept(Append(qs, d)) = Append(k, d)
      BY <2>1, <2>6 DEF Keep
    <3>2. Append(k, d) \in Seq(Dirs \ {<<>>}) /\ ToSet(Append(k, d)) = ToSet(k) \cup {d}
      <4>1. d \in Dirs \ {<<>>}
        BY <2>6
      <4>2. QED
        BY <4>1, <2>2, ToSetAppend, AppendProperties
    <3>3. IsInjective(Append(k, d))
      <4>1. d \in Dirs \ {<<>>}
        BY <2>6
      <4>2. QED
        BY <4>1, <2>2, <2>4, <2>6, InjectiveAppend
    <3>4. QED
      BY <2>2, <2>3, <2>6, <3>1, <3>2, <3>3
  <2>7. QED
    BY <2>5, <2>6
<1>3. Seq(Dirs) \subseteq T
  <2> HIDE DEF T
  <2>1. QED
    BY <1>1, <1>2, SeqInduction
<1>4. QED
  BY <1>3

LEMMA AppendConcat ==
  ASSUME NEW S, NEW a \in Seq(S), NEW b \in Seq(S), NEW e \in S
  PROVE  a \o Append(b, e) = Append(a \o b, e)
<1>1. /\ Append(b, e) = b \o <<e>> /\ <<e>> \in Seq(S) /\ a \o b \in Seq(S)
      /\ Append(a \o b, e) = (a \o b) \o <<e>>
  BY AppendIsConcat, ConcatProperties
<1>2. QED
  BY <1>1, ConcatAssociative

\* A word that is not the separator goes to the last part.
LEMMA SplitLast ==
  ASSUME NEW ps \in Seq(Dirs), NEW d \in Dirs, NEW w \in Plain
  PROVE  SplitAt(Append(ps, d), w) = Append(ps, Append(d, w))
<1> DEFINE q == Append(ps, d)
           x == Append(d, w)
           c == [q EXCEPT ![Len(ps) + 1] = x]
           r == Append(ps, x)
<1>1. q \in Seq(Dirs) /\ Len(ps) \in Nat /\ Len(q) = Len(ps) + 1 /\ q[Len(ps) + 1] = d
      /\ \A i \in 1 .. Len(ps) : q[i] = ps[i]
  BY AppendProperties, LenProperties
<1>2. x \in Dirs
  BY AppendProperties DEF Dirs
<1>3. SplitAt(q, w) = c
  BY <1>1 DEF SplitAt, Plain
<1> HIDE DEF q, x
<1>4. r \in Seq(Dirs) /\ Len(r) = Len(ps) + 1 /\ r[Len(ps) + 1] = x
      /\ \A i \in 1 .. Len(ps) : r[i] = ps[i]
  BY <1>2, AppendProperties
<1>5. c = [i \in 1 .. Len(ps) + 1 |-> IF i = Len(ps) + 1 THEN x ELSE q[i]]
  <2>1. DOMAIN q = 1 .. Len(ps) + 1
    BY <1>1, LenProperties
  <2>2. QED
    BY <2>1
<1> HIDE DEF r, c
<1>6. \A i \in 1 .. Len(ps) + 1 : c[i] = r[i]
  BY <1>1, <1>4, <1>5
<1>7. c = r
  <2>1. r \in [1 .. Len(ps) + 1 -> Dirs]
    BY <1>4, LenProperties
  <2>2. c = [i \in 1 .. Len(ps) + 1 |-> c[i]]
    BY <1>5
  <2>3. QED
    BY <1>6, <2>1, <2>2
<1>8. QED
  BY <1>3, <1>7 DEF q, x, r

\* So does a directory, word by word.
LEMMA PartsConcat ==
  ASSUME NEW s \in Values, NEW ps \in Seq(Dirs), NEW d \in Dirs,
         Parts(s) = Append(ps, d), NEW e \in Dirs
  PROVE  Parts(s \o e) = Append(ps, d \o e)
<1> DEFINE T == {t \in Dirs : Parts(s \o t) = Append(ps, d \o t)}
<1>1. <<>> \in T
  <2>1. s \o <<>> = s /\ d \o <<>> = d
    BY ConcatEmptySeq DEF Values, Dirs
  <2>2. QED
    BY <2>1, DirsAreValues
<1>2. ASSUME NEW t \in Seq(Plain), NEW w \in Plain, t \in T PROVE Append(t, w) \in T
  <2>1. w \in Words /\ t \in Dirs /\ t \in Values
    BY DirsAreValues DEF Plain, Dirs
  <2>2. s \o Append(t, w) = Append(s \o t, w)
    BY <2>1, AppendConcat DEF Values
  <2>3. d \o Append(t, w) = Append(d \o t, w) /\ d \o t \in Dirs /\ Append(t, w) \in Dirs
    BY <2>1, AppendConcat, ConcatProperties, AppendProperties DEF Dirs
  <2>4. Parts(Append(s \o t, w)) = SplitAt(Parts(s \o t), w)
    <3>1. s \o t \in Seq(Words)
      BY <2>1, ConcatProperties DEF Values
    <3>2. QED
      BY <2>1, <3>1, PartsLoop
  <2>5. Parts(s \o Append(t, w)) = Append(ps, d \o Append(t, w))
    BY <1>2, <2>2, <2>3, <2>4, SplitLast
  <2>6. QED
    BY <2>3, <2>5
<1>3. Seq(Plain) \subseteq T
  <2> HIDE DEF T
  <2>1. QED
    BY <1>1, <1>2, SeqInduction
<1>4. QED
  BY <1>3 DEF Dirs

\* Splitting what was joined gives the parts back.
LEMMA PartsJoined ==
  ASSUME NEW ps \in Seq(Dirs)
  PROVE  /\ Joined(ps) \in Values
         /\ Parts(Joined(ps)) = IF ps = <<>> THEN <<<<>>>> ELSE ps
<1> DEFINE P(qs) == /\ Joined(qs) \in Values
                    /\ Parts(Joined(qs)) = IF qs = <<>> THEN <<<<>>>> ELSE qs
           T == {qs \in Seq(Dirs) : P(qs)}
<1>1. <<>> \in T
  <2>1. Joined(<<>>) = <<>> /\ Parts(<<>>) = <<<<>>>> /\ <<>> \in Values /\ <<>> \in Seq(Dirs)
    BY JoinedLoop, PartsLoop, DirsAreValues, EmptySeq
  <2>2. QED
    BY <2>1, Zenon
<1>2. ASSUME NEW qs \in Seq(Dirs), NEW d \in Dirs, qs \in T PROVE Append(qs, d) \in T
  <2>1. Joined(Append(qs, d)) = Join(Joined(qs), Len(qs) + 1, d)
    BY JoinedLoop
  <2>2. d \in Values /\ <<>> \in Values /\ <<>> \in Dirs /\ <<>> \o d = d /\ Joined(qs) \in Values
    BY DirsAreValues, ConcatEmptySeq, <1>2 DEF Dirs
  <2>3. Append(qs, d) \in Seq(Dirs) /\ Append(qs, d) # <<>>
    BY AppendProperties
  <2>4. CASE qs = <<>>
    <3>1. Joined(Append(qs, d)) = d
      BY <2>1, <2>4 DEF Join
    <3>2. Parts(<<>>) = Append(<<>>, <<>>)
      BY PartsLoop
    <3>3. Parts(<<>> \o d) = Append(<<>>, <<>> \o d)
      <4> DEFINE e == <<>>
      <4>1. e \in Values /\ e \in Seq(Dirs) /\ e \in Dirs /\ Parts(e) = Append(e, e)
        BY <2>2, <3>2, EmptySeq, Zenon
      <4> HIDE DEF e
      <4>2. Parts(e \o d) = Append(e, e \o d)
        BY <4>1, PartsConcat
      <4>3. QED
        BY <4>2 DEF e
    <3>4. Parts(d) = Append(<<>>, d)
      BY <2>2, <3>3, Zenon
    <3>5. QED
      BY <2>2, <2>3, <2>4, <3>1, <3>4, Zenon
  <2>5. CASE qs # <<>>
    <3> DEFINE w == ";"
               j == Joined(qs)
               s == j \o <<w>>
    <3>1. w \in Words /\ Parts(j) = qs /\ j \in Seq(Words)
      BY <2>2, <2>5, <1>2, Separator DEF Values
    <3>2. Joined(Append(qs, d)) = s \o d
      <4>1. Len(qs) + 1 # 1
        BY <2>5, EmptySeq
      <4>2. QED
        BY <4>1, <2>1, Zenon DEF Join
    <3>3. SplitAt(qs, w) = Append(qs, <<>>)
      BY DEF SplitAt
    <3> HIDE DEF w, j
    <3>4. s = Append(j, w) /\ s \in Seq(Words)
      BY <3>1
    <3>5. Parts(s) = Append(qs, <<>>)
      <4>1. Parts(Append(j, w)) = SplitAt(Parts(j), w)
        BY <3>1, PartsLoop
      <4>2. QED
        BY <4>1, <3>1, <3>3, <3>4
    <3> HIDE DEF s
    <3>6. Parts(s \o d) = Append(qs, <<>> \o d)
      BY <2>2, <3>4, <3>5, PartsConcat DEF Values
    <3>7. s \o d \in Values
      BY <2>2, <3>4, ConcatProperties DEF Values
    <3>8. QED
      BY <2>2, <2>3, <3>2, <3>6, <3>7
  <2>6. QED
    BY <2>4, <2>5
<1>3. Seq(Dirs) \subseteq T
  <2> HIDE DEF T
  <2>1. QED
    BY <1>1, <1>2, SeqInduction
<1>4. QED
  BY <1>3

\* The parts behind others only add to what is kept of those.
LEMMA KeptConcat ==
  ASSUME NEW ps \in Seq(Dirs), NEW qs \in Seq(Dirs)
  PROVE  \E c \in Seq(Dirs) : Kept(ps \o qs) = Kept(ps) \o c
<1> DEFINE P(t) == \E c \in Seq(Dirs) : Kept(ps \o t) = Kept(ps) \o c
           T == {t \in Seq(Dirs) : P(t)}
<1>1. Kept(ps) \in Seq(Dirs)
  <2>1. Kept(ps) \in Seq(Dirs \ {<<>>})
    BY KeptIs
  <2>2. Dirs \ {<<>>} \subseteq Dirs
    OBVIOUS
  <2>3. QED
    BY <2>1, <2>2, SeqMonotonic, Zenon
<1>2. <<>> \in T
  <2>1. ps \o <<>> = ps /\ Kept(ps) \o <<>> = Kept(ps) /\ <<>> \in Seq(Dirs)
    BY <1>1, ConcatEmptySeq, EmptySeq
  <2>2. QED
    BY <2>1, Zenon
<1>3. ASSUME NEW t \in Seq(Dirs), NEW d \in Dirs, t \in T PROVE Append(t, d) \in T
  <2>1. PICK c \in Seq(Dirs) : Kept(ps \o t) = Kept(ps) \o c
    BY <1>3
  <2>2. ps \o t \in Seq(Dirs) /\ ps \o Append(t, d) = Append(ps \o t, d)
        /\ Append(t, d) \in Seq(Dirs) /\ Append(c, d) \in Seq(Dirs)
    OBVIOUS
  <2>3. Kept(ps \o Append(t, d)) = Keep(Kept(ps) \o c, d)
    BY <2>1, <2>2, KeptLoop
  <2>4. Keep(Kept(ps) \o c, d) = Kept(ps) \o c \/ Keep(Kept(ps) \o c, d) = Kept(ps) \o Append(c, d)
    <3>1. Kept(ps) \o Append(c, d) = Append(Kept(ps) \o c, d)
      BY <1>1
    <3>2. QED
      BY <3>1 DEF Keep
  <2>5. P(Append(t, d))
    BY <2>2, <2>3, <2>4
  <2> HIDE DEF P
  <2>6. QED
    BY <2>2, <2>5
<1>4. Seq(Dirs) \subseteq T
  <2> HIDE DEF T
  <2>1. QED
    BY <1>2, <1>3, SeqInduction
<1>5. QED
  BY <1>4

LEMMA InjectiveCardinality ==
  ASSUME NEW S, NEW s \in Seq(S), IsInjective(s)
  PROVE  Cardinality(ToSet(s)) = Len(s)
<1>1. Len(s) \in Nat /\ DOMAIN s = 1 .. Len(s)
  OBVIOUS
<1>2. s \in [1 .. Len(s) -> ToSet(s)] /\ \A x \in ToSet(s) : \E i \in 1 .. Len(s) : s[i] = x
  BY <1>1 DEF ToSet
<1>3. s \in Bijection(1 .. Len(s), ToSet(s))
  BY <1>2 DEF Bijection, Injection, Surjection
<1>4. ExistsBijection(1 .. Len(s), ToSet(s))
  BY <1>3 DEF ExistsBijection
<1>5. IsFiniteSet(1 .. Len(s)) /\ Cardinality(1 .. Len(s)) = Len(s)
  BY <1>1, FS_Interval
<1>6. QED
  BY <1>4, <1>5, FS_Bijection

\* mergePath: the parts of the result are the parts of both, once and none
\* empty, the machine's first.
CleanPath(path, machineDirs, userDirs) ==
  /\ IsInjective(path)
  /\ path = <<<<>>>> \/ ~Contains(path, <<>>)
  /\ ToSet(SubSeq(path, 1, Cardinality(machineDirs))) = machineDirs
  /\ userDirs \subseteq ToSet(path)

LEMMA MergePathIsClean ==
  ASSUME NEW m \in Values, NEW u \in Values
  PROVE  /\ MergePath(m, u) \in Values
         /\ CleanPath(Parts(MergePath(m, u)),
                      ToSet(Parts(m)) \ {<<>>}, ToSet(Parts(u)) \ {<<>>})
<1> DEFINE a == Parts(m)
           b == Parts(u)
           k == Kept(a \o b)
           path == Parts(MergePath(m, u))
           first == ToSet(a) \ {<<>>}
<1>1. a \in Seq(Dirs) /\ b \in Seq(Dirs)
  BY PartsType
<1> HIDE DEF a, b
<1>2. a \o b \in Seq(Dirs) /\ ToSet(a \o b) = ToSet(a) \cup ToSet(b)
  <2>1. Range(a \o b) = Range(a) \cup Range(b)
    BY <1>1, RangeConcatenation
  <2>2. \A s : ToSet(s) = Range(s)
    BY DEF ToSet, Range
  <2>3. a \o b \in Seq(Dirs)
    BY <1>1
  <2>4. QED
    BY <2>1, <2>2, <2>3, Zenon
<1>3. k \in Seq(Dirs \ {<<>>}) /\ IsInjective(k) /\ ToSet(k) = ToSet(a \o b) \ {<<>>}
  BY <1>2, KeptIs
<1>4. Kept(a) \in Seq(Dirs \ {<<>>}) /\ IsInjective(Kept(a)) /\ ToSet(Kept(a)) = first
  BY <1>1, KeptIs
<1>5. k \in Seq(Dirs) /\ Kept(a) \in Seq(Dirs)
  <2>1. Dirs \ {<<>>} \subseteq Dirs
    OBVIOUS
  <2>2. QED
    BY <2>1, <1>3, <1>4, SeqMonotonic, Zenon
<1>6. PICK c \in Seq(Dirs) : k = Kept(a) \o c
  BY <1>1, KeptConcat
<1>7. Cardinality(first) = Len(Kept(a))
  BY <1>4, InjectiveCardinality
<1> HIDE DEF k, first
<1>8. MergePath(m, u) \in Values /\ path = IF k = <<>> THEN <<<<>>>> ELSE k
  BY <1>5, PartsJoined DEF MergePath, k, a, b
<1> HIDE DEF path
<1>9. IsInjective(path)
  <2>1. IsInjective(<<<<>>>>)
    BY DEF IsInjective
  <2>2. QED
    BY <2>1, <1>3, <1>8
<1>10. path = <<<<>>>> \/ ~Contains(path, <<>>)
  <2>1. \A i \in 1 .. Len(k) : k[i] # <<>>
    BY <1>3, ElementOfSeq
  <2>2. ~Contains(k, <<>>)
    BY <2>1 DEF Contains
  <2>3. QED
    BY <2>2, <1>8
<1>11. ToSet(SubSeq(path, 1, Cardinality(first))) = first
  <2>1. CASE Kept(a) = <<>>
    <3>1. Cardinality(first) = 0 /\ first = {}
      BY <2>1, <1>4, <1>7, ToSetEmpty, EmptySeq
    <3>2. path \in Seq(Dirs)
      BY <1>5, <1>8, DirsAreValues
    <3>3. SubSeq(path, 1, 0) = <<>>
      BY <3>2
    <3>4. QED
      BY <3>1, <3>3, ToSetEmpty
  <2>2. CASE Kept(a) # <<>>
    <3>1. Len(Kept(a)) \in Nat \ {0} /\ Len(k) = Len(Kept(a)) + Len(c)
      BY <2>2, <1>5, <1>6, EmptySeq, ConcatProperties
    <3>2. k # <<>>
      BY <3>1, <1>5, LenProperties
    <3>3. SubSeq(k, 1, Len(Kept(a))) = Kept(a)
      BY <1>5, <1>6, <3>1
    <3>4. QED
      BY <1>4, <1>7, <1>8, <3>2, <3>3
  <2>3. QED
    BY <2>1, <2>2
<1>12. ToSet(b) \ {<<>>} \subseteq ToSet(path)
  <2>1. ToSet(b) \ {<<>>} \subseteq ToSet(k)
    BY <1>2, <1>3
  <2>2. QED
    BY <2>1, <1>8, ToSetEmpty
<1>13. QED
  BY <1>8, <1>9, <1>10, <1>11, <1>12 DEF CleanPath, path, first, a, b
-----------------------------------------------------------------------------
(* composeEnv. *)

\* One entry more: it is the one that counts for its name.
LEMMA AppendNames ==
  ASSUME NEW T, NEW s \in Seq(T), NEW e \in T
  PROVE  /\ NamesOf(Append(s, e)) = NamesOf(s) \cup {e.name}
         /\ ValueOf(Append(s, e), e.name) = e.value
         /\ \A n \in NamesOf(s) \ {e.name} : ValueOf(Append(s, e), n) = ValueOf(s, n)
         /\ Distinct(Append(s, e)) => Distinct(s) /\ e.name \notin NamesOf(s)
         /\ \A n : Once(Append(s, e), n) => Once(s, n) /\ (n = e.name => n \notin NamesOf(s))
<1> DEFINE t == Append(s, e)
<1>1. t \in Seq(T) /\ Len(s) \in Nat /\ Len(t) = Len(s) + 1 /\ t[Len(s) + 1] = e
      /\ \A i \in 1 .. Len(s) : t[i] = s[i]
  OBVIOUS
<1>2. NamesOf(t) = NamesOf(s) \cup {e.name}
  <2>1. ToSet(t) = ToSet(s) \cup {e}
    BY ToSetAppend
  <2>2. QED
    BY <2>1 DEF NamesOf
<1> HIDE DEF t
<1>3. ValueOf(t, e.name) = e.value
  <2>1. Len(s) + 1 \in 1 .. Len(t)
    BY <1>1
  <2>2. \A j \in (Len(s) + 1) + 1 .. Len(t) : t[j].name # t[Len(s) + 1].name
    BY <1>1
  <2>3. QED
    BY <1>1, <2>1, <2>2, ValueAt
<1>4. ASSUME NEW n \in NamesOf(s) \ {e.name} PROVE ValueOf(t, n) = ValueOf(s, n)
  <2>1. PICK i \in 1 .. Len(s) : /\ s[i].name = n
                                 /\ \A j \in i + 1 .. Len(s) : s[j].name # n
                                 /\ ValueOf(s, n) = s[i].value
    BY ValueIn
  <2>2. i \in 1 .. Len(t) /\ t[i] = s[i]
    BY <1>1
  <2>3. \A j \in i + 1 .. Len(t) : t[j].name # t[i].name
    BY <1>1, <2>1, <2>2
  <2>4. QED
    BY <1>1, <2>1, <2>2, <2>3, ValueAt
<1>5. ASSUME Distinct(t) PROVE Distinct(s) /\ e.name \notin NamesOf(s)
  <2>1. \A i, j \in 1 .. Len(s) + 1 : t[i].name = t[j].name => i = j
    BY <1>1, <1>5, DistinctAt
  <2>2. Distinct(s)
    BY <1>1, <2>1, DistinctAt
  <2>3. \A i \in 1 .. Len(s) : s[i].name # e.name
    BY <1>1, <2>1
  <2>4. QED
    BY <2>2, <2>3, NamesAt
<1>6. ASSUME NEW n, Once(t, n) PROVE Once(s, n) /\ (n = e.name => n \notin NamesOf(s))
  <2>1. \A i, j \in 1 .. Len(s) + 1 : t[i].name = n /\ t[j].name = n => i = j
    BY <1>1, <1>6, OnceAt
  <2>2. Once(s, n)
    BY <1>1, <2>1, OnceAt
  <2>3. n = e.name => \A i \in 1 .. Len(s) : s[i].name # n
    BY <1>1, <2>1
  <2>4. QED
    BY <2>2, <2>3, NamesAt
<1>7. QED
  BY <1>2, <1>3, <1>4, <1>5, <1>6 DEF t

PathOf(b) == IF Has(b, "PATH") THEN ValueOf(b, "PATH") ELSE <<>>

LEMMA PathOfType ==
  ASSUME NEW b \in Seq(EnvEntries)
  PROVE  PathOf(b) \in Values
<1>1. CASE "PATH" \in NamesOf(b)
  <2>1. PICK i \in 1 .. Len(b) : ValueOf(b, "PATH") = b[i].value
    BY <1>1, ValueIn
  <2>2. b[i].value \in Values
    <3>1. b[i] \in EnvEntries
      BY ElementOfSeq
    <3>2. QED
      BY <3>1 DEF EnvEntries
  <2>3. QED
    BY <1>1, <2>1, <2>2 DEF PathOf, Has
<1>2. CASE "PATH" \notin NamesOf(b)
  BY <1>2, DirsAreValues DEF PathOf, Has
<1>3. QED
  BY <1>1, <1>2

\* The value that a layer gives to a name over a block.
Layered(layer, b, name, value) ==
  IF layer = "user" /\ name = "PATH" THEN MergePath(PathOf(b), value) ELSE value

LEMMA OverSets ==
  ASSUME NEW b \in Seq(EnvEntries), Distinct(b), NEW e \in EnvEntries, NEW layer
  PROVE  Sets(Over(b, layer, e), b, e.name, Layered(layer, b, e.name, e.value))
<1>1. e.name \in Words /\ e.value \in Values
  BY DEF EnvEntries
<1>2. CASE layer = "user" /\ e.name = "PATH"
  <2> DEFINE v == MergePath(PathOf(b), e.value)
             x == Entry("PATH", v)
  <2>1. v \in Values
    BY <1>1, PathOfType, MergePathIsClean
  <2>2. Over(b, layer, e) = Add(b, x)
    BY <1>2 DEF Over, AddUser, PathOf
  <2>3. x \in EnvEntries /\ x.name = "PATH" /\ x.value = v
    BY <2>1, <1>1, <1>2 DEF Entry, EnvEntries
  <2> HIDE DEF x, v
  <2>4. Sets(Over(b, layer, e), b, "PATH", v)
    BY <2>2, <2>3, AddSets
  <2>5. QED
    BY <2>4, <1>2 DEF v, Layered
<1>3. CASE ~(layer = "user" /\ e.name = "PATH")
  <2>1. Over(b, layer, e) = Add(b, e)
    BY <1>3 DEF Over, AddUser
  <2>2. QED
    BY <2>1, <1>3, AddSets DEF Layered
<1>4. QED
  BY <1>2, <1>3

\* r is the block b with a layer of entries over it.
IsOverlay(r, b, s, layer) ==
  /\ r \in Seq(EnvEntries)
  /\ Distinct(r)
  /\ NamesOf(r) = NamesOf(b) \cup NamesOf(s)
  /\ \A n \in NamesOf(b) \ NamesOf(s) : ValueOf(r, n) = ValueOf(b, n)
  /\ \A n \in NamesOf(s) : n # "PATH" \/ layer # "user" \/ Once(s, "PATH") =>
       ValueOf(r, n) = Layered(layer, b, n, ValueOf(s, n))

LEMMA OverlayIs ==
  ASSUME NEW b \in Seq(EnvEntries), Distinct(b), NEW s \in Seq(EnvEntries), NEW layer
  PROVE  IsOverlay(Overlay(b, s, layer), b, s, layer)
<1> DEFINE T == {t \in Seq(EnvEntries) : IsOverlay(Overlay(b, t, layer), b, t, layer)}
<1>1. <<>> \in T
  <2>1. Overlay(b, <<>>, layer) = b
    BY OverlayEmpty
  <2>2. NamesOf(<<>>) = {}
    BY ToSetEmpty DEF NamesOf
  <2>3. IsOverlay(b, b, <<>>, layer)
    BY <2>2 DEF IsOverlay
  <2>4. QED
    BY <2>1, <2>3, EmptySeq
<1>2. ASSUME NEW t \in Seq(EnvEntries), NEW e \in EnvEntries, t \in T
      PROVE  Append(t, e) \in T
  <2> DEFINE r == Overlay(b, t, layer)
             q == Overlay(b, Append(t, e), layer)
             w == Append(t, e)
             v == Layered(layer, r, e.name, e.value)
  <2>1. q = Over(r, layer, e)
    BY OverlayAppend
  <2>2. IsOverlay(r, b, t, layer)
    BY <1>2
  <2>3. Sets(q, r, e.name, v)
    BY <2>1, <2>2, OverSets DEF IsOverlay
  <2>4. /\ NamesOf(w) = NamesOf(t) \cup {e.name}
        /\ ValueOf(w, e.name) = e.value
        /\ \A n \in NamesOf(t) \ {e.name} : ValueOf(w, n) = ValueOf(t, n)
        /\ Once(w, "PATH") => Once(t, "PATH") /\ ("PATH" = e.name => "PATH" \notin NamesOf(t))
    BY AppendNames
  <2>5. w \in Seq(EnvEntries)
    OBVIOUS
  <2> HIDE DEF r, q, w
  <2>6. q \in Seq(EnvEntries) /\ Distinct(q) /\ NamesOf(q) = NamesOf(b) \cup NamesOf(w)
    BY <2>2, <2>3, <2>4 DEF Sets, IsOverlay
  <2>7. \A n \in NamesOf(b) \ NamesOf(w) : ValueOf(q, n) = ValueOf(b, n)
    BY <2>2, <2>3, <2>4 DEF Sets, IsOverlay
  <2>8. ASSUME NEW n \in NamesOf(w), n # "PATH" \/ layer # "user" \/ Once(w, "PATH")
        PROVE  ValueOf(q, n) = Layered(layer, b, n, ValueOf(w, n))
    <3>1. CASE n # e.name
      <4>1. n \in NamesOf(t) /\ n \in NamesOf(r) \ {e.name} /\ ValueOf(w, n) = ValueOf(t, n)
        BY <3>1, <2>2, <2>4 DEF IsOverlay
      <4>2. ValueOf(q, n) = ValueOf(r, n)
        BY <4>1, <2>3 DEF Sets
      <4>3. ValueOf(r, n) = Layered(layer, b, n, ValueOf(t, n))
        BY <4>1, <2>2, <2>4, <2>8 DEF IsOverlay
      <4>4. QED
        BY <4>1, <4>2, <4>3
    <3>2. CASE n = e.name
      <4>1. ValueOf(q, n) = Layered(layer, r, n, e.value) /\ ValueOf(w, n) = e.value
        BY <3>2, <2>3, <2>4 DEF Sets
      <4>2. CASE n # "PATH" \/ layer # "user"
        BY <4>1, <4>2 DEF Layered
      <4>3. CASE n = "PATH" /\ Once(w, "PATH")
        <5>1. "PATH" \notin NamesOf(t)
          BY <4>3, <3>2, <2>4
        <5>2. PathOf(r) = PathOf(b)
          BY <5>1, <2>2 DEF PathOf, Has, IsOverlay
        <5>3. QED
          BY <4>1, <5>2 DEF Layered
      <4>4. QED
        BY <4>2, <4>3, <2>8
    <3>3. QED
      BY <3>1, <3>2
  <2>9. IsOverlay(q, b, w, layer)
    BY <2>6, <2>7, <2>8 DEF IsOverlay
  <2>10. QED
    BY <2>5, <2>9 DEF q, w
<1>3. Seq(EnvEntries) \subseteq T
  <2> HIDE DEF T
  <2>1. QED
    BY <1>1, <1>2, SeqInduction
<1>4. QED
  BY <1>3
-----------------------------------------------------------------------------
(* expandPercent. *)

\* Induction from the end of a value to its beginning.
LEMMA Downwards ==
  ASSUME NEW k \in Nat, NEW T, k + 1 \in T,
         \A i \in 1 .. k : (\A j \in i + 1 .. k + 1 : j \in T) => i \in T
  PROVE  1 .. k + 1 \subseteq T
<1> DEFINE S == {m \in 0 .. k : \A j \in k + 1 - m .. k + 1 : j \in T}
<1>1. 0 \in S
  OBVIOUS
<1>2. ASSUME NEW m \in 1 .. k, m - 1 \in S PROVE m \in S
  <2>1. \A j \in k + 1 - (m - 1) .. k + 1 : j \in T
    BY <1>2
  <2>2. k + 1 - m \in T
    BY <2>1
  <2>3. QED
    BY <2>1, <2>2
<1>3. 0 .. k \subseteq S
  <2> HIDE DEF S
  <2>1. QED
    BY <1>1, <1>2, Upwards
<1>4. QED
  BY <1>3

LEMMA LeastIs ==
  ASSUME NEW S, S \subseteq Nat, S # {}
  PROVE  Least(S) \in S /\ \A k \in S : Least(S) <= k
<1>1. PICK x \in S : \A y \in S : ~(<<y, x>> \in OpToRel(<, Nat))
  BY WFMin, NatLessThanWellFounded, Zenon
<1>2. x \in Nat /\ \A y \in S : y \in Nat
  OBVIOUS
<1>3. \A y \in S : ~(y < x)
  BY <1>1, <1>2 DEF OpToRel
<1>4. \A y \in S : x <= y
  BY <1>2, <1>3
<1>5. QED
  BY <1>4 DEF Least

\* The closing "%" of a reference that begins at i.
LEMMA ClosingIs ==
  ASSUME NEW s \in Values, NEW i \in 1 .. Len(s), Closings(s, i) # {}
  PROVE  LET j == Least(Closings(s, i))
         IN /\ j \in i + 1 .. Len(s)
            /\ s[j] = "%"
            /\ \A k \in i + 1 .. j - 1 : s[k] # "%"
            /\ Resume(j) = j + 1
<1>1. Len(s) \in Nat
  BY DEF Values
<1>2. Closings(s, i) \subseteq Nat
  BY <1>1 DEF Closings
<1> DEFINE j == Least(Closings(s, i))
<1>3. j \in Closings(s, i) /\ \A k \in Closings(s, i) : j <= k
  BY <1>2, LeastIs
<1> HIDE DEF j
<1>4. j \in i + 1 .. Len(s) /\ s[j] = "%"
  BY <1>3 DEF Closings
<1>5. \A k \in i + 1 .. j - 1 : s[k] # "%"
  BY <1>1, <1>3, <1>4 DEF Closings
<1>6. QED
  BY <1>4, <1>5 DEF j, Resume

\* The scan at one place, from what it makes of the places behind.
Scan(s, l, f, i) ==
  IF i > Len(s) THEN <<>>
  ELSE IF s[i] # "%" THEN <<s[i]>> \o f[i + 1]
  ELSE IF Closings(s, i) = {} THEN SubSeq(s, i, Len(s))
  ELSE Resolved(SubSeq(s, i, Least(Closings(s, i))), l)
         \o f[Resume(Least(Closings(s, i)))]

LEMMA ScanLooksAhead ==
  ASSUME NEW s \in Values, NEW l, NEW f, NEW g, NEW i \in 1 .. Len(s) + 1,
         \A j \in i + 1 .. Len(s) + 1 : f[j] = g[j]
  PROVE  Scan(s, l, f, i) = Scan(s, l, g, i)
<1>1. Len(s) \in Nat
  BY DEF Values
<1>2. CASE i > Len(s)
  BY <1>2 DEF Scan
<1>3. CASE i <= Len(s) /\ s[i] # "%"
  <2>1. f[i + 1] = g[i + 1]
    BY <1>1, <1>3
  <2>2. QED
    BY <1>3, <2>1 DEF Scan
<1>4. CASE i <= Len(s) /\ s[i] = "%" /\ Closings(s, i) = {}
  BY <1>1, <1>4, Zenon DEF Scan
<1>5. CASE i <= Len(s) /\ s[i] = "%" /\ Closings(s, i) # {}
  <2> DEFINE r == Resume(Least(Closings(s, i)))
  <2>1. r \in i + 1 .. Len(s) + 1
    BY <1>1, <1>5, ClosingIs
  <2>2. f[r] = g[r]
    BY <2>1
  <2> HIDE DEF r
  <2>3. QED
    BY <1>5, <2>2, Zenon DEF Scan, r
<1>6. QED
  BY <1>1, <1>2, <1>3, <1>4, <1>5

IsScan(f, s, l, k) == f = [i \in k .. Len(s) + 1 |-> Scan(s, l, f, i)]

LEMMA ScanRuns ==
  ASSUME NEW s \in Values, NEW l
  PROVE  \E f : IsScan(f, s, l, 1) /\ ExpandPercent(s, l) = f[1]
<1> DEFINE T == {k \in 1 .. Len(s) + 1 : \E f : IsScan(f, s, l, k)}
<1>1. Len(s) \in Nat
  BY DEF Values
<1>2. Len(s) + 1 \in T
  <2> DEFINE h == [i \in Len(s) + 1 .. Len(s) + 1 |-> <<>>]
  <2>1. \A i \in Len(s) + 1 .. Len(s) + 1 : Scan(s, l, h, i) = <<>>
    BY <1>1 DEF Scan
  <2>2. IsScan(h, s, l, Len(s) + 1)
    BY <2>1 DEF IsScan
  <2> HIDE DEF h
  <2>3. QED
    BY <1>1, <2>2
<1>3. ASSUME NEW i \in 1 .. Len(s), \A j \in i + 1 .. Len(s) + 1 : j \in T
      PROVE  i \in T
  <2>1. PICK g : IsScan(g, s, l, i + 1)
    BY <1>1, <1>3
  <2> DEFINE h == [j \in i .. Len(s) + 1 |-> IF j = i THEN Scan(s, l, g, i) ELSE g[j]]
  <2>2. \A j \in i + 1 .. Len(s) + 1 : h[j] = g[j] /\ g[j] = Scan(s, l, g, j)
    BY <1>1, <2>1 DEF IsScan
  <2>3. h[i] = Scan(s, l, g, i)
    BY <1>1
  <2>4. h = [j \in i .. Len(s) + 1 |-> h[j]]
    OBVIOUS
  <2> HIDE DEF h
  <2>5. ASSUME NEW j \in i .. Len(s) + 1 PROVE h[j] = Scan(s, l, h, j)
    <3>1. \A m \in j + 1 .. Len(s) + 1 : h[m] = g[m]
      BY <1>1, <2>2
    <3>2. j \in 1 .. Len(s) + 1
      BY <1>1
    <3>3. Scan(s, l, h, j) = Scan(s, l, g, j)
      BY <3>1, <3>2, ScanLooksAhead
    <3>4. QED
      BY <1>1, <2>2, <2>3, <3>3
  <2>6. IsScan(h, s, l, i)
    BY <2>4, <2>5 DEF IsScan
  <2>7. QED
    BY <1>1, <2>6
<1>4. 1 .. Len(s) + 1 \subseteq T
  <2> HIDE DEF T
  <2>1. QED
    BY <1>1, <1>2, <1>3, Downwards
<1>5. \E f : IsScan(f, s, l, 1)
  <2>1. 1 \in 1 .. Len(s) + 1
    BY <1>1
  <2>2. 1 \in T
    BY <1>4, <2>1, Zenon
  <2>3. QED
    BY <2>2
<1> DEFINE g == CHOOSE f : IsScan(f, s, l, 1)
<1>6. IsScan(g, s, l, 1)
  BY <1>5
<1>7. ExpandPercent(s, l) = g[1]
  BY DEF ExpandPercent, IsScan, Scan
<1>8. QED
  BY <1>6, <1>7

LEMMA ScanAt ==
  ASSUME NEW s \in Values, NEW l, NEW f, IsScan(f, s, l, 1)
  PROVE  /\ \A i \in 1 .. Len(s) + 1 : f[i] = Scan(s, l, f, i)
         /\ f[Len(s) + 1] = <<>>
<1>1. Len(s) \in Nat
  BY DEF Values
<1>2. \A i \in 1 .. Len(s) + 1 : f[i] = Scan(s, l, f, i)
  BY DEF IsScan
<1>3. Len(s) + 1 \in 1 .. Len(s) + 1 /\ Len(s) + 1 > Len(s)
  BY <1>1
<1>4. f[Len(s) + 1] = <<>>
  BY <1>2, <1>3, Zenon DEF Scan
<1>5. QED
  BY <1>2, <1>4

IsLookup(l) == l \in [DOMAIN l -> Values]

LEMMA ResolvedType ==
  ASSUME NEW ref \in Values, NEW l, IsLookup(l)
  PROVE  Resolved(ref, l) \in Values
BY DEF Resolved, IsLookup

\* An expanded value is a value.
LEMMA ExpandPercentType ==
  ASSUME NEW s \in Values, NEW l, IsLookup(l)
  PROVE  ExpandPercent(s, l) \in Values
<1>1. PICK f : IsScan(f, s, l, 1) /\ ExpandPercent(s, l) = f[1]
  BY ScanRuns
<1>2. Len(s) \in Nat /\ \A i \in 1 .. Len(s) : s[i] \in Words
  BY DEF Values
<1>3. /\ \A i \in 1 .. Len(s) + 1 : f[i] = Scan(s, l, f, i)
      /\ f[Len(s) + 1] = <<>>
  BY <1>1, ScanAt
<1> DEFINE T == {i \in 1 .. Len(s) + 1 : f[i] \in Values}
<1>4. Len(s) + 1 \in T
  <2>1. <<>> \in Values /\ Len(s) + 1 \in 1 .. Len(s) + 1
    BY <1>2, DirsAreValues
  <2>2. QED
    BY <1>3, <2>1, Zenon
<1>5. ASSUME NEW i \in 1 .. Len(s), \A j \in i + 1 .. Len(s) + 1 : j \in T
      PROVE  i \in T
  <2>1. i \in 1 .. Len(s) + 1 /\ i + 1 \in i + 1 .. Len(s) + 1 /\ ~(i > Len(s))
    BY <1>2
  <2>2. CASE s[i] # "%"
    <3>1. f[i] = <<s[i]>> \o f[i + 1]
      BY <1>3, <2>1, <2>2 DEF Scan
    <3>2. f[i + 1] \in Values
      BY <1>5, <2>1
    <3>3. <<s[i]>> \o f[i + 1] \in Values
      BY <1>2, <3>2 DEF Values
    <3>4. QED
      BY <2>1, <3>1, <3>3
  <2>3. CASE s[i] = "%" /\ Closings(s, i) = {}
    <3>1. f[i] = SubSeq(s, i, Len(s))
      BY <1>3, <2>1, <2>3, Zenon DEF Scan
    <3>2. SubSeq(s, i, Len(s)) \in Values
      BY <1>2 DEF Values
    <3>3. QED
      BY <2>1, <3>1, <3>2
  <2>4. CASE s[i] = "%" /\ Closings(s, i) # {}
    <3> DEFINE j == Least(Closings(s, i))
    <3>1. j \in i + 1 .. Len(s) /\ Resume(j) = j + 1
      BY <2>4, ClosingIs
    <3>2. f[i] = Resolved(SubSeq(s, i, j), l) \o f[Resume(j)]
      BY <1>3, <2>1, <2>4, Zenon DEF Scan
    <3> HIDE DEF j
    <3>3. SubSeq(s, i, j) \in Values
      BY <1>2, <3>1 DEF Values
    <3>4. Resolved(SubSeq(s, i, j), l) \in Values
      BY <3>3, ResolvedType
    <3>5. f[Resume(j)] \in Values
      BY <1>2, <1>5, <3>1
    <3>6. Resolved(SubSeq(s, i, j), l) \o f[Resume(j)] \in Values
      BY <3>4, <3>5 DEF Values
    <3>7. QED
      BY <2>1, <3>2, <3>6
  <2>5. QED
    BY <2>2, <2>3, <2>4
<1>6. 1 .. Len(s) + 1 \subseteq T
  <2> HIDE DEF T
  <2>1. QED
    BY <1>2, <1>4, <1>5, Downwards
<1>7. 1 \in T
  <2> HIDE DEF T
  <2>1. QED
    BY <1>2, <1>6
<1>8. QED
  BY <1>1, <1>7

\* A value without "%" stays what it is.
LEMMA ExpandPercentPlain ==
  ASSUME NEW s \in Values, NEW l, ~Contains(s, "%")
  PROVE  ExpandPercent(s, l) = s
<1>1. PICK f : IsScan(f, s, l, 1) /\ ExpandPercent(s, l) = f[1]
  BY ScanRuns
<1>2. Len(s) \in Nat /\ s \in Seq(Words) /\ \A i \in 1 .. Len(s) : s[i] \in Words /\ s[i] # "%"
  BY DEF Values, Contains
<1>3. /\ \A i \in 1 .. Len(s) + 1 : f[i] = Scan(s, l, f, i)
      /\ f[Len(s) + 1] = <<>>
  BY <1>1, ScanAt
<1> DEFINE T == {i \in 1 .. Len(s) + 1 : f[i] = SubSeq(s, i, Len(s))}
<1>4. Len(s) + 1 \in T
  <2>1. SubSeq(s, Len(s) + 1, Len(s)) = <<>> /\ Len(s) + 1 \in 1 .. Len(s) + 1
    BY <1>2
  <2>2. QED
    BY <1>3, <2>1, Zenon
<1>5. ASSUME NEW i \in 1 .. Len(s), \A j \in i + 1 .. Len(s) + 1 : j \in T
      PROVE  i \in T
  <2>1. i \in 1 .. Len(s) + 1 /\ i + 1 \in i + 1 .. Len(s) + 1 /\ ~(i > Len(s))
    BY <1>2
  <2>2. f[i] = <<s[i]>> \o f[i + 1]
    BY <1>2, <1>3, <2>1 DEF Scan
  <2>3. f[i + 1] = SubSeq(s, i + 1, Len(s))
    BY <1>5, <2>1
  <2>4. <<s[i]>> \o SubSeq(s, i + 1, Len(s)) = SubSeq(s, i, Len(s))
    BY <1>2
  <2>5. QED
    BY <2>1, <2>2, <2>3, <2>4
<1>6. 1 .. Len(s) + 1 \subseteq T
  <2> HIDE DEF T
  <2>1. QED
    BY <1>2, <1>4, <1>5, Downwards
<1>7. 1 \in T
  <2> HIDE DEF T
  <2>1. QED
    BY <1>2, <1>6
<1>8. SubSeq(s, 1, Len(s)) = s
  BY <1>2
<1>9. QED
  BY <1>1, <1>7, <1>8

AgreeAt(l, m, name) ==
  /\ name \in DOMAIN l <=> name \in DOMAIN m
  /\ name \in DOMAIN l => l[name] = m[name]

\* Only the names that a value refers to matter for what it expands to.
LEMMA ExpandPercentSame ==
  ASSUME NEW s \in Values, NEW l, NEW m,
         \A i \in 1 .. Len(s) - 2 : s[i] = "%" /\ s[i + 2] = "%" => AgreeAt(l, m, s[i + 1])
  PROVE  ExpandPercent(s, l) = ExpandPercent(s, m)
<1>1. PICK f : IsScan(f, s, l, 1) /\ ExpandPercent(s, l) = f[1]
  BY ScanRuns
<1>2. PICK g : IsScan(g, s, m, 1) /\ ExpandPercent(s, m) = g[1]
  BY ScanRuns
<1>3. Len(s) \in Nat /\ s \in Seq(Words)
  BY DEF Values
<1>4. /\ \A i \in 1 .. Len(s) + 1 : f[i] = Scan(s, l, f, i)
      /\ f[Len(s) + 1] = <<>>
  BY <1>1, ScanAt
<1>5. /\ \A i \in 1 .. Len(s) + 1 : g[i] = Scan(s, m, g, i)
      /\ g[Len(s) + 1] = <<>>
  BY <1>2, ScanAt
<1> DEFINE T == {i \in 1 .. Len(s) + 1 : f[i] = g[i]}
<1>6. Len(s) + 1 \in T
  <2>1. Len(s) + 1 \in 1 .. Len(s) + 1
    BY <1>3
  <2>2. QED
    BY <1>4, <1>5, <2>1, Zenon
<1>7. ASSUME NEW i \in 1 .. Len(s), \A j \in i + 1 .. Len(s) + 1 : j \in T
      PROVE  i \in T
  <2>1. i \in 1 .. Len(s) + 1 /\ ~(i > Len(s))
    BY <1>3
  <2>2. \A j \in i + 1 .. Len(s) + 1 : f[j] = g[j]
    BY <1>7
  <2>3. Scan(s, m, g, i) = Scan(s, m, f, i)
    BY <2>1, <2>2, ScanLooksAhead
  <2>4. CASE s[i] # "%" \/ Closings(s, i) = {}
    <3>1. Scan(s, l, f, i) = Scan(s, m, f, i)
      BY <2>4, Zenon DEF Scan
    <3>2. QED
      BY <1>4, <1>5, <2>1, <2>3, <3>1, Zenon
  <2>5. CASE s[i] = "%" /\ Closings(s, i) # {}
    <3> DEFINE j == Least(Closings(s, i))
               ref == SubSeq(s, i, j)
    <3>1. j \in i + 1 .. Len(s) /\ s[j] = "%"
      BY <2>5, ClosingIs
    <3> HIDE DEF j
    <3>2. ASSUME Len(ref) = 3 PROVE AgreeAt(l, m, ref[2])
      <4>1. j = i + 2 /\ ref[2] = s[i + 1]
        BY <1>3, <3>1, <3>2
      <4>2. i \in 1 .. Len(s) - 2
        BY <1>3, <3>1, <4>1
      <4>3. QED
        BY <4>1, <4>2, <3>1, <2>5
    <3> HIDE DEF ref
    <3>3. Resolved(ref, l) = Resolved(ref, m)
      BY <3>2, Zenon DEF Resolved, AgreeAt
    <3>4. Scan(s, l, f, i) = Scan(s, m, f, i)
      BY <3>3, Zenon DEF Scan, ref, j
    <3>5. QED
      BY <1>4, <1>5, <2>1, <2>3, <3>4, Zenon
  <2>6. QED
    BY <2>4, <2>5
<1>8. 1 .. Len(s) + 1 \subseteq T
  <2> HIDE DEF T
  <2>1. QED
    BY <1>3, <1>6, <1>7, Downwards
<1>9. 1 \in T
  <2> HIDE DEF T
  <2>1. QED
    BY <1>3, <1>8
<1>10. QED
  BY <1>1, <1>2, <1>9
-----------------------------------------------------------------------------
(* Lookups and expandLayer. *)

SameNameSame(S) == \A x, y \in S : x.name = y.name => x = y

\* What a loop over a sequence leaves in the lookup: one value of a name, and
\* with one entry of a name that entry.
LEMMA LatestIs ==
  ASSUME NEW T, NEW b \in Seq(T), NEW P, P \subseteq DOMAIN b
  PROVE  /\ Latest(b, P) \subseteq {b[i] : i \in P}
         /\ Latest(b, P) \subseteq ToSet(b)
         /\ SameNameSame(Latest(b, P))
         /\ Distinct(b) => Latest(b, P) = {b[i] : i \in P}
<1> DEFINE Q == {k \in P : \A j \in P : j > k => b[j].name # b[k].name}
<1>1. Q \subseteq P /\ DOMAIN b = 1 .. Len(b) /\ Len(b) \in Nat
  OBVIOUS
<1>2. Latest(b, P) = {b[i] : i \in Q}
  BY DEF Latest
<1>3. \A i, j \in Q : b[i].name = b[j].name => i = j
  <2>1. \A i, j \in Q : j > i => b[j].name # b[i].name
    BY <1>1
  <2>2. \A i, j \in Q : i = j \/ i > j \/ j > i
    BY <1>1
  <2>3. QED
    BY <2>1, <2>2
<1>4. ASSUME Distinct(b) PROVE Q = P
  <2>1. \A i, j \in P : b[i].name = b[j].name => i = j
    BY <1>1, <1>4, DistinctAt
  <2>2. \A i, j \in P : j > i => i # j
    BY <1>1
  <2>3. QED
    BY <2>1, <2>2
<1> HIDE DEF Q
<1>5. SameNameSame(Latest(b, P))
  BY <1>2, <1>3 DEF SameNameSame
<1>6. Latest(b, P) \subseteq {b[i] : i \in P}
  BY <1>1, <1>2
<1>7. {b[i] : i \in P} \subseteq ToSet(b)
  BY DEF ToSet
<1>8. Distinct(b) => Latest(b, P) = {b[i] : i \in P}
  BY <1>2, <1>4
<1>9. QED
  BY <1>5, <1>6, <1>7, <1>8

LEMMA LatestAll ==
  ASSUME NEW T, NEW b \in Seq(T)
  PROVE  /\ Latest(b, DOMAIN b) \subseteq ToSet(b)
         /\ Distinct(b) => Latest(b, DOMAIN b) = ToSet(b)
<1>1. {b[i] : i \in DOMAIN b} = ToSet(b)
  BY DEF ToSet
<1>2. QED
  BY <1>1, LatestIs

\* expandLayer's first loop.
LEMMA SeedsAre ==
  ASSUME NEW t \in Seq(EnvValues)
  PROVE  /\ Seeds(t) \subseteq ToSet(t)
         /\ Distinct(t) => Seeds(t) = {v \in ToSet(t) : v.kind = "plain"}
<1> DEFINE P == {i \in DOMAIN t : t[i].kind = "plain"}
<1>1. Seeds(t) = Latest(t, P) /\ P \subseteq DOMAIN t
  BY DEF Seeds
<1>2. {t[i] : i \in P} = {v \in ToSet(t) : v.kind = "plain"}
  BY DEF ToSet
<1> HIDE DEF P
<1>3. QED
  BY <1>1, <1>2, LatestIs

LEMMA SetAllAt ==
  ASSUME NEW l, NEW S, SameNameSame(S)
  PROVE  /\ DOMAIN SetAll(l, S) = DOMAIN l \cup {e.name : e \in S}
         /\ \A e \in S : SetAll(l, S)[e.name] = e.value
         /\ \A n \in DOMAIN l : (\A e \in S : e.name # n) => SetAll(l, S)[n] = l[n]
<1>1. DOMAIN SetAll(l, S) = DOMAIN l \cup {e.name : e \in S}
  BY DEF SetAll
<1>2. ASSUME NEW e \in S PROVE SetAll(l, S)[e.name] = e.value
  <2>1. (CHOOSE x \in S : x.name = e.name) = e
    BY DEF SameNameSame
  <2>2. QED
    BY <2>1 DEF SetAll
<1>3. ASSUME NEW n \in DOMAIN l, \A e \in S : e.name # n PROVE SetAll(l, S)[n] = l[n]
  BY <1>3 DEF SetAll
<1>4. QED
  BY <1>1, <1>2, <1>3

LEMMA SetAllType ==
  ASSUME NEW l, IsLookup(l), NEW S, \A e \in S : e.value \in Values
  PROVE  IsLookup(SetAll(l, S))
<1> DEFINE m == SetAll(l, S)
<1>1. ASSUME NEW n \in DOMAIN m PROVE m[n] \in Values
  <2>1. CASE \E e \in S : e.name = n
    <3>1. m[n] = (CHOOSE e \in S : e.name = n).value
      BY <2>1 DEF SetAll
    <3>2. (CHOOSE e \in S : e.name = n) \in S
      BY <2>1
    <3>3. QED
      BY <3>1, <3>2
  <2>2. CASE ~\E e \in S : e.name = n
    <3>1. n \in DOMAIN l /\ m[n] = l[n]
      BY <2>2 DEF SetAll
    <3>2. QED
      BY <3>1 DEF IsLookup
  <2>3. QED
    BY <2>1, <2>2
<1>2. m = [n \in DOMAIN m |-> m[n]]
  BY DEF SetAll
<1> HIDE DEF m
<1>3. IsLookup(m)
  BY <1>1, <1>2 DEF IsLookup
<1>4. QED
  BY <1>3 DEF m

LEMMA NewEnvLookupType ==
  ASSUME NEW b \in Seq(EnvEntries)
  PROVE  IsLookup(NewEnvLookup(b))
<1>1. ASSUME NEW n \in NamesOf(b) PROVE ValueOf(b, n) \in Values
  <2>1. PICK i \in 1 .. Len(b) : ValueOf(b, n) = b[i].value
    BY ValueIn
  <2>2. b[i] \in EnvEntries
    BY ElementOfSeq
  <2>3. QED
    BY <2>1, <2>2 DEF EnvEntries
<1>2. QED
  BY <1>1 DEF IsLookup, NewEnvLookup

\* The entries r have the names of the values t, and the values that have
\* nothing to expand.
Keeps(t, r) ==
  /\ r \in Seq(EnvEntries)
  /\ Len(r) = Len(t)
  /\ \A i \in 1 .. Len(t) :
       /\ r[i].name = t[i].name
       /\ t[i].kind # "expand" \/ ~Contains(t[i].value, "%")
            => r[i].value = t[i].value

LEMMA ExpansionKeeps ==
  ASSUME NEW values \in Seq(EnvValues), NEW seeded, IsLookup(seeded)
  PROVE  Keeps(values, Expansion(values, seeded))
<1> DEFINE T == {t \in Seq(EnvValues) : Keeps(t, Expansion(t, seeded))}
<1>1. <<>> \in T
  <2>1. Expansion(<<>>, seeded) = <<>>
    BY ExpansionEmpty
  <2>2. Keeps(<<>>, <<>>)
    BY DEF Keeps
  <2>3. QED
    BY <2>1, <2>2, EmptySeq
<1>2. ASSUME NEW t \in Seq(EnvValues), NEW v \in EnvValues, t \in T
      PROVE  Append(t, v) \in T
  <2> DEFINE r == Expansion(t, seeded)
             known == SetAll(seeded, Latest(r, DOMAIN r))
             x == Entry(v.name, Expanded(v, known))
  <2>1. Expansion(Append(t, v), seeded) = Append(r, x)
    BY ExpansionAppend DEF Expand
  <2>2. /\ r \in Seq(EnvEntries)
        /\ Len(r) = Len(t)
        /\ \A i \in 1 .. Len(t) :
             /\ r[i].name = t[i].name
             /\ t[i].kind # "expand" \/ ~Contains(t[i].value, "%")
                  => r[i].value = t[i].value
    BY <1>2 DEF Keeps
  <2>3. v.name \in Words /\ v.value \in Values
    BY DEF EnvValues
  <2> HIDE DEF r
  <2>4. \A e \in ToSet(r) : e.value \in Values
    <3>1. \A i \in 1 .. Len(r) : r[i] \in EnvEntries
      BY <2>2, ElementOfSeq
    <3>2. \A i \in 1 .. Len(r) : r[i].value \in Values
      BY <3>1 DEF EnvEntries
    <3>3. QED
      BY <2>2, <3>2, ToSetAt
  <2>5. IsLookup(known)
    <3>1. Latest(r, DOMAIN r) \subseteq ToSet(r)
      BY <2>2, LatestAll
    <3>2. QED
      BY <2>4, <3>1, SetAllType
  <2> HIDE DEF known
  <2>6. Expanded(v, known) \in Values
    BY <2>3, <2>5, ExpandPercentType DEF Expanded
  <2>7. v.kind # "expand" \/ ~Contains(v.value, "%") => Expanded(v, known) = v.value
    BY <2>3, ExpandPercentPlain DEF Expanded
  <2>8. x \in EnvEntries /\ x.name = v.name /\ x.value = Expanded(v, known)
    BY <2>3, <2>6 DEF Entry, EnvEntries
  <2> HIDE DEF x
  <2>9. Append(t, v) \in Seq(EnvValues)
    OBVIOUS
  <2>10. Keeps(Append(t, v), Append(r, x))
    <3> DEFINE w == Append(t, v)
               q == Append(r, x)
    <3>1. /\ Len(w) = Len(t) + 1 /\ w[Len(t) + 1] = v
          /\ \A i \in 1 .. Len(t) : w[i] = t[i]
      OBVIOUS
    <3>2. /\ q \in Seq(EnvEntries) /\ Len(q) = Len(t) + 1 /\ q[Len(t) + 1] = x
          /\ \A i \in 1 .. Len(t) : q[i] = r[i]
      BY <2>2, <2>8
    <3>3. Len(t) \in Nat
      OBVIOUS
    <3> HIDE DEF w, q
    <3>4. ASSUME NEW i \in 1 .. Len(w)
          PROVE  /\ q[i].name = w[i].name
                 /\ w[i].kind # "expand" \/ ~Contains(w[i].value, "%")
                      => q[i].value = w[i].value
      <4>1. CASE i = Len(t) + 1
        BY <4>1, <3>1, <3>2, <2>7, <2>8
      <4>2. CASE i # Len(t) + 1
        <5>1. i \in 1 .. Len(t)
          BY <4>2, <3>1, <3>3
        <5>2. QED
          BY <5>1, <3>1, <3>2, <2>2
      <4>3. QED
        BY <4>1, <4>2
    <3>5. Keeps(w, q)
      BY <3>1, <3>2, <3>4 DEF Keeps
    <3>6. QED
      BY <3>5 DEF w, q
  <2>11. QED
    BY <2>1, <2>9, <2>10
<1>3. Seq(EnvValues) \subseteq T
  <2> HIDE DEF T
  <2>1. QED
    BY <1>1, <1>2, SeqInduction
<1>4. QED
  BY <1>3

LEMMA KeepsValues ==
  ASSUME NEW t \in Seq(EnvValues), NEW r, Keeps(t, r)
  PROVE  /\ NamesOf(r) = NamesOf(t)
         /\ \A n : Once(t, n) => Once(r, n)
         /\ \A e \in ToSet(t) : Once(t, e.name) /\ (e.kind # "expand" \/ ~Contains(e.value, "%"))
              => ValueOf(r, e.name) = e.value
<1>1. r \in Seq(EnvEntries) /\ Len(r) = Len(t) /\ \A i \in 1 .. Len(t) : r[i].name = t[i].name
  BY DEF Keeps
<1>2. NamesOf(r) = NamesOf(t)
  <2>1. \A n : n \in NamesOf(r) <=> \E i \in 1 .. Len(t) : r[i].name = n
    BY <1>1, NamesAt
  <2>2. \A n : n \in NamesOf(t) <=> \E i \in 1 .. Len(t) : t[i].name = n
    BY NamesAt
  <2>3. QED
    BY <1>1, <2>1, <2>2
<1>3. ASSUME NEW n, Once(t, n) PROVE Once(r, n)
  <2>1. \A i, j \in 1 .. Len(t) : t[i].name = n /\ t[j].name = n => i = j
    BY <1>3, OnceAt
  <2>2. QED
    BY <1>1, <2>1, OnceAt
<1>4. ASSUME NEW e \in ToSet(t), Once(t, e.name), e.kind # "expand" \/ ~Contains(e.value, "%")
      PROVE  ValueOf(r, e.name) = e.value
  <2>1. PICK i \in 1 .. Len(t) : t[i] = e
    BY ToSetAt
  <2>2. \A k, j \in 1 .. Len(t) : t[k].name = e.name /\ t[j].name = e.name => k = j
    BY <1>4, OnceAt
  <2>3. \A j \in i + 1 .. Len(r) : r[j].name # r[i].name
    <3>1. Len(t) \in Nat
      OBVIOUS
    <3>2. QED
      BY <1>1, <2>1, <2>2, <3>1
  <2>4. ValueOf(r, r[i].name) = r[i].value
    BY <1>1, <2>3, ValueAt
  <2>5. r[i].value = e.value /\ r[i].name = e.name
    BY <1>4, <2>1 DEF Keeps
  <2>6. QED
    BY <2>4, <2>5
<1>5. QED
  BY <1>2, <1>3, <1>4

\* sessionEnv: the block is the inherited one, then the machine's entries over
\* it, then the user's.
LEMMA ComposedIs ==
  ASSUME NEW b \in Seq(EnvEntries), NEW m \in Seq(EnvValues), NEW u \in Seq(EnvValues)
  PROVE  \E ml, ul, below \in Seq(EnvEntries) :
           /\ Keeps(m, ml)
           /\ Keeps(u, ul)
           /\ Distinct(below)
           /\ NamesOf(below) = NamesOf(b) \cup NamesOf(m)
           /\ \A n \in NamesOf(m) : ValueOf(below, n) = ValueOf(ml, n)
           /\ \A n \in NamesOf(b) \ NamesOf(m) : ValueOf(below, n) = ValueOf(b, n)
           /\ IsOverlay(Composed(b, m, u), below, ul, "user")
<1> DEFINE l == NewEnvLookup(b)
           ml == ExpandLayer(m, l)
           lu == SetAll(l, Latest(ml, DOMAIN ml))
           ul == ExpandLayer(u, lu)
           bottom == Overlay(<<>>, b, "base")
           below == Overlay(bottom, ml, "machine")
           empty == <<>>
<1>1. ASSUME NEW t \in Seq(EnvValues), NEW k, IsLookup(k) PROVE Keeps(t, ExpandLayer(t, k))
  <2>1. \A e \in Seeds(t) : e.value \in Values
    <3>1. \A e \in ToSet(t) : e \in EnvValues
      BY ToSetAt
    <3>2. QED
      BY <3>1, SeedsAre DEF EnvValues
  <2>2. IsLookup(SetAll(k, Seeds(t)))
    BY <1>1, <2>1, SetAllType
  <2>3. QED
    BY <2>2, ExpansionKeeps, ExpandLayerIs
<1>2. IsLookup(l)
  BY NewEnvLookupType
<1>3. Composed(b, m, u) = Overlay(below, ul, "user")
  BY DEF Composed, ComposeEnv
<1> HIDE DEF l
<1>4. Keeps(m, ml)
  BY <1>1, <1>2
<1> HIDE DEF ml
<1>5. ml \in Seq(EnvEntries) /\ NamesOf(ml) = NamesOf(m)
  BY <1>4, KeepsValues DEF Keeps
<1>6. IsLookup(lu)
  <2>1. \A e \in ToSet(ml) : e \in EnvEntries
    BY <1>5, ToSetAt
  <2>2. \A e \in ToSet(ml) : e.value \in Values
    BY <2>1 DEF EnvEntries
  <2>3. Latest(ml, DOMAIN ml) \subseteq ToSet(ml)
    BY <1>5, LatestAll
  <2>4. QED
    BY <1>2, <2>2, <2>3, SetAllType
<1> HIDE DEF lu
<1>7. Keeps(u, ul)
  BY <1>1, <1>6
<1> HIDE DEF ul
<1>8. ul \in Seq(EnvEntries)
  BY <1>7 DEF Keeps
<1>9. empty \in Seq(EnvEntries) /\ Distinct(empty) /\ NamesOf(empty) = {}
  <2>1. Distinct(<<>>)
    BY DEF Distinct
  <2>2. QED
    BY <2>1, ToSetEmpty, EmptySeq DEF NamesOf
<1>10. bottom = Overlay(empty, b, "base")
  OBVIOUS
<1> HIDE DEF bottom, empty
<1>11. IsOverlay(bottom, empty, b, "base")
  BY <1>9, <1>10, OverlayIs
<1>12. /\ bottom \in Seq(EnvEntries) /\ Distinct(bottom) /\ NamesOf(bottom) = NamesOf(b)
       /\ \A n \in NamesOf(b) : ValueOf(bottom, n) = ValueOf(b, n)
  BY <1>9, <1>11 DEF IsOverlay, Layered
<1>13. IsOverlay(below, bottom, ml, "machine")
  BY <1>5, <1>12, OverlayIs
<1> HIDE DEF below
<1>14. /\ below \in Seq(EnvEntries) /\ Distinct(below)
       /\ NamesOf(below) = NamesOf(b) \cup NamesOf(m)
       /\ \A n \in NamesOf(m) : ValueOf(below, n) = ValueOf(ml, n)
       /\ \A n \in NamesOf(b) \ NamesOf(m) : ValueOf(below, n) = ValueOf(b, n)
  BY <1>5, <1>12, <1>13 DEF IsOverlay, Layered
<1>15. IsOverlay(Composed(b, m, u), below, ul, "user")
  BY <1>3, <1>8, <1>14, OverlayIs
<1>16. QED
  BY <1>4, <1>5, <1>7, <1>8, <1>14, <1>15

\* What handleSession hands to the command, with or without a PTY.
LEMMA RequestedIs ==
  ASSUME NEW b \in Seq(EnvEntries), Distinct(b), NEW r \in Requested(b)
  PROVE  /\ r \in Seq(EnvEntries)
         /\ Distinct(r)
         /\ \A n : n # "TERM" => (n \in NamesOf(r) <=> n \in NamesOf(b))
         /\ \A n \in NamesOf(b) : n # "TERM" => ValueOf(r, n) = ValueOf(b, n)
<1>1. CASE r = b
  BY <1>1
<1>2. CASE r = ReplaceEnv(b, "TERM", Term)
  <2>1. "TERM" \in Words /\ Term \in Values
    BY EnvAssumption
  <2>2. Sets(r, b, "TERM", Term)
    BY <1>2, <2>1, ReplaceEnvSets
  <2>3. QED
    BY <2>2 DEF Sets
<1>3. QED
  BY <1>1, <1>2 DEF Requested
-----------------------------------------------------------------------------
(* Reading the keys. *)

\* The name stands in the list once at most.
Single(list, n) == \A i, j \in DOMAIN list : list[i] = n /\ list[j] = n => i = j

TypeInv ==
  /\ registry \in [Hives -> Seq(Entries)]
  /\ read \in [Hives -> Seq(Entries)]
  /\ todo \in Seq(AllNames)
  /\ base \in Bases
  /\ pc \in Hives \cup {"idle", "ready"}
  /\ listing \in BOOLEAN
  /\ disturbed \subseteq AllNames
  /\ hidden \subseteq AllNames
  /\ writes \in 0 .. MaxWrites
  /\ Distinct(env)

KeysInv == \A h \in Hives : /\ Distinct(registry[h])
                            /\ Len(registry[h]) <= MaxEntries + writes

\* A name that nobody changed is read once, and not while it is on the list.
ReadInv ==
  /\ \A h \in Hives : /\ \A n : n \notin disturbed => Once(read[h], n)
                      /\ \A e \in ToSet(read[h]) : e.kind # "other"
                      /\ Opened(h) \/ read[h] = <<>>
  /\ pc \in Hives \/ (todo = <<>> /\ ~listing)
  /\ listing => read[pc] = <<>>
  /\ \A n : n \notin disturbed => Single(todo, n)
  /\ pc \in Hives => \A n : n \notin disturbed /\ n \in ToSet(todo)
                             => n \notin NamesOf(read[pc])

\* While a key is listed: where a name that nobody changed stands in the key
\* tells whether it is on the list, unless a deletion has hidden it.
ListInv ==
  listing =>
    \A i \in DOMAIN registry[pc] :
      /\ registry[pc][i].name \notin disturbed /\ registry[pc][i].name \in ToSet(todo)
           => i <= Len(todo)
      /\ registry[pc][i].name \notin disturbed \cup hidden /\ i <= Len(todo)
           => registry[pc][i].name \in ToSet(todo)

\* A name that nobody changed, once it is off the list, was read as it is.
FreshInv ==
  \A h \in Hives : \A e \in Entries :
    /\ Opened(h)
    /\ e.name \notin disturbed \cup hidden
    /\ pc = h => ~listing /\ e.name \notin ToSet(todo)
    => (e \in ToSet(read[h]) <=> e \in ToSet(registry[h]) /\ e.kind # "other")

ComposedInv ==
  pc = "ready" => env \in Requested(Composed(base, read["machine"], read["user"]))

IInv == TypeInv /\ KeysInv /\ ReadInv /\ ListInv /\ FreshInv /\ ComposedInv

LEMMA SingleAt ==
  ASSUME NEW T, NEW t \in Seq(T), NEW n
  PROVE  Single(t, n) <=> \A i, j \in 1 .. Len(t) : t[i] = n /\ t[j] = n => i = j
BY DEF Single

\* What taking the first name off the list leaves.
LEMMA TailIs ==
  ASSUME NEW S, NEW s \in Seq(S), s # <<>>
  PROVE  /\ Head(s) \in S
         /\ Tail(s) \in Seq(S)
         /\ ToSet(s) = {Head(s)} \cup ToSet(Tail(s))
         /\ \A n : Single(s, n) => Single(Tail(s), n) /\ (n = Head(s) => n \notin ToSet(Tail(s)))
<1> DEFINE t == Tail(s)
<1>1. /\ Len(s) \in Nat \ {0} /\ DOMAIN s = 1 .. Len(s) /\ Head(s) = s[1] /\ s[1] \in S
      /\ t \in Seq(S) /\ DOMAIN t = 1 .. Len(t) /\ Len(t) = Len(s) - 1
      /\ \A i \in 1 .. Len(s) - 1 : t[i] = s[i + 1]
  OBVIOUS
<1> HIDE DEF t
<1>2. \A x : x \in ToSet(t) <=> \E i \in 1 .. Len(s) - 1 : t[i] = x
  BY <1>1, ToSetAt
<1>3. \A x : x \in ToSet(s) <=> \E i \in 1 .. Len(s) : s[i] = x
  BY ToSetAt
<1>4. ASSUME NEW x \in ToSet(s), x # Head(s) PROVE x \in ToSet(t)
  <2>1. PICK i \in 1 .. Len(s) : s[i] = x
    BY <1>3
  <2>2. i - 1 \in 1 .. Len(s) - 1 /\ (i - 1) + 1 = i
    BY <1>1, <1>4, <2>1
  <2>3. t[i - 1] = x
    BY <1>1, <2>1, <2>2
  <2>4. QED
    BY <1>2, <2>2, <2>3
<1>5. Head(s) \in ToSet(s) /\ ToSet(t) \subseteq ToSet(s)
  <2>1. 1 \in 1 .. Len(s) /\ \A i \in 1 .. Len(s) - 1 : i + 1 \in 1 .. Len(s)
    BY <1>1
  <2>2. QED
    BY <1>1, <1>2, <1>3, <2>1
<1>6. ASSUME NEW n, Single(s, n)
      PROVE  Single(t, n) /\ (n = Head(s) => n \notin ToSet(t))
  <2>1. \A i, j \in 1 .. Len(s) : s[i] = n /\ s[j] = n => i = j
    BY <1>6, SingleAt
  <2>2. \A i, j \in 1 .. Len(t) : t[i] = n /\ t[j] = n => i = j
    BY <1>1, <2>1
  <2>3. Single(t, n)
    BY <1>1, <2>2, SingleAt
  <2>4. n = Head(s) => \A i \in 1 .. Len(s) - 1 : t[i] # n
    BY <1>1, <2>1
  <2>5. QED
    BY <1>2, <2>3, <2>4
<1>7. ToSet(s) = {Head(s)} \cup ToSet(t)
  BY <1>4, <1>5
<1>8. QED
  BY <1>1, <1>6, <1>7 DEF t

\* One name more.
LEMMA AppendIs ==
  ASSUME NEW S, NEW s \in Seq(S), NEW m \in S
  PROVE  /\ Append(s, m) \in Seq(S)
         /\ Len(Append(s, m)) = Len(s) + 1
         /\ ToSet(Append(s, m)) = ToSet(s) \cup {m}
         /\ \A n : Single(s, n) /\ (n = m => n \notin ToSet(s)) => Single(Append(s, m), n)
<1> DEFINE t == Append(s, m)
<1>1. t \in Seq(S) /\ Len(s) \in Nat /\ Len(t) = Len(s) + 1 /\ t[Len(s) + 1] = m
      /\ \A i \in 1 .. Len(s) : t[i] = s[i]
  OBVIOUS
<1>2. ToSet(t) = ToSet(s) \cup {m}
  BY ToSetAppend
<1> HIDE DEF t
<1>3. ASSUME NEW n, Single(s, n), n = m => n \notin ToSet(s) PROVE Single(t, n)
  <2>1. \A i, j \in 1 .. Len(s) : s[i] = n /\ s[j] = n => i = j
    BY <1>3, SingleAt
  <2>2. n = m => \A i \in 1 .. Len(s) : s[i] # n
    BY <1>3, ToSetAt
  <2>3. \A i, j \in 1 .. Len(s) + 1 : t[i] = n /\ t[j] = n => i = j
    BY <1>1, <2>1, <2>2
  <2>4. QED
    BY <1>1, <2>3, SingleAt
<1>4. QED
  BY <1>1, <1>2, <1>3 DEF t

\* r is the key s after a change of one name.
Touched(r, s, name) ==
  /\ r \in Seq(Entries)
  /\ Distinct(r)
  /\ Len(r) <= Len(s) + 1
  /\ \A x \in Entries : x.name # name => (x \in ToSet(r) <=> x \in ToSet(s))

\* s with the entry e written.
Written(s, e) ==
  IF Has(s, e.name) THEN [i \in DOMAIN s |-> IF s[i].name = e.name THEN e ELSE s[i]]
  ELSE Append(s, e)

LEMMA WriteTouches ==
  ASSUME NEW s \in Seq(Entries), Distinct(s), NEW e \in Entries
  PROVE  /\ Touched(Written(s, e), s, e.name)
         /\ \A i \in 1 .. Len(Written(s, e)) : Written(s, e)[i].name # e.name =>
              i \in 1 .. Len(s) /\ Written(s, e)[i].name = s[i].name
<1>1. DOMAIN s = 1 .. Len(s) /\ Len(s) \in Nat /\ \A i \in 1 .. Len(s) : s[i] \in Entries
  OBVIOUS
<1>2. \A i, j \in 1 .. Len(s) : s[i].name = s[j].name => i = j
  BY DistinctAt
<1>3. \A x : x \in ToSet(s) <=> \E i \in 1 .. Len(s) : s[i] = x
  BY ToSetAt
<1>4. CASE Has(s, e.name)
  <2> DEFINE r == [i \in DOMAIN s |-> IF s[i].name = e.name THEN e ELSE s[i]]
  <2>1. r \in Seq(Entries) /\ Len(r) = Len(s)
    BY <1>1
  <2>2. \A i \in 1 .. Len(s) : r[i] = IF s[i].name = e.name THEN e ELSE s[i]
    BY <1>1
  <2> HIDE DEF r
  <2>3. \A i \in 1 .. Len(s) : r[i].name = s[i].name
    BY <2>2
  <2>4. Distinct(r)
    BY <1>2, <2>1, <2>3, DistinctAt
  <2>5. \A x : x \in ToSet(r) <=> \E i \in 1 .. Len(s) : r[i] = x
    BY <2>1, ToSetAt
  <2>6. \A x \in Entries : x.name # e.name => (x \in ToSet(r) <=> x \in ToSet(s))
    BY <1>3, <2>2, <2>5
  <2>7. Touched(r, s, e.name)
    BY <1>1, <2>1, <2>4, <2>6 DEF Touched
  <2>8. Written(s, e) = r
    BY <1>4 DEF Written, r
  <2>9. QED
    BY <2>1, <2>3, <2>7, <2>8
<1>5. CASE ~Has(s, e.name)
  <2> DEFINE r == Append(s, e)
  <2>1. r \in Seq(Entries) /\ Len(r) = Len(s) + 1 /\ r[Len(s) + 1] = e
        /\ \A i \in 1 .. Len(s) : r[i] = s[i]
    OBVIOUS
  <2>2. \A i \in 1 .. Len(s) : s[i].name # e.name
    BY <1>5, NamesAt DEF Has
  <2>3. ToSet(r) = ToSet(s) \cup {e}
    BY ToSetAppend
  <2> HIDE DEF r
  <2>4. \A i, j \in 1 .. Len(s) + 1 : r[i].name = r[j].name => i = j
    BY <1>1, <1>2, <2>1, <2>2
  <2>5. Distinct(r)
    BY <2>1, <2>4, DistinctAt
  <2>6. Touched(r, s, e.name)
    BY <1>1, <2>1, <2>3, <2>5 DEF Touched
  <2>7. Written(s, e) = r
    BY <1>5 DEF Written, r
  <2>8. \A i \in 1 .. Len(r) : r[i].name # e.name => i \in 1 .. Len(s) /\ r[i].name = s[i].name
    BY <1>1, <2>1
  <2>9. QED
    BY <2>6, <2>7, <2>8
<1>6. QED
  BY <1>4, <1>5

LEMMA DeleteTouches ==
  ASSUME NEW s \in Seq(Entries), Distinct(s), NEW k \in DOMAIN s
  PROVE  /\ Touched(RemoveAt(s, k), s, s[k].name)
         /\ Len(RemoveAt(s, k)) = Len(s) - 1
         /\ \A i \in 1 .. Len(s) - 1 : RemoveAt(s, k)[i] = IF i < k THEN s[i] ELSE s[i + 1]
<1> DEFINE r == RemoveAt(s, k)
           a == SubSeq(s, 1, k - 1)
           b == SubSeq(s, k + 1, Len(s))
<1>1. k \in 1 .. Len(s) /\ Len(s) \in Nat
  OBVIOUS
<1>2. /\ a \in Seq(Entries) /\ Len(a) = k - 1 /\ \A i \in 1 .. k - 1 : a[i] = s[i]
      /\ b \in Seq(Entries) /\ Len(b) = Len(s) - k
      /\ \A i \in 1 .. Len(s) - k : b[i] = s[k + i]
  <2>1. a \in Seq(Entries) /\ Len(a) = k - 1 /\ \A i \in 1 .. k - 1 : a[i] = s[i]
    BY <1>1
  <2>2. b \in Seq(Entries) /\ Len(b) = Len(s) - k
    BY <1>1
  <2>3. \A i \in 1 .. Len(s) - k : b[i] = s[k + i]
    BY <1>1
  <2>4. QED
    BY <2>1, <2>2, <2>3
<1>3. r = a \o b
  BY DEF RemoveAt
<1> HIDE DEF r, a, b
<1>4. r \in Seq(Entries) /\ Len(r) = Len(s) - 1
  BY <1>1, <1>2, <1>3
<1>5. \A i \in 1 .. Len(s) - 1 : r[i] = IF i < k THEN s[i] ELSE s[i + 1]
  BY <1>1, <1>2, <1>3
<1>6. \A i, j \in 1 .. Len(s) : s[i].name = s[j].name => i = j
  BY DistinctAt
<1>7. Distinct(r)
  <2>1. \A i, j \in 1 .. Len(s) - 1 : r[i].name = r[j].name => i = j
    BY <1>1, <1>5, <1>6
  <2>2. QED
    BY <1>4, <2>1, DistinctAt
<1>8. ASSUME NEW x \in Entries, x.name # s[k].name PROVE x \in ToSet(r) <=> x \in ToSet(s)
  <2>1. ASSUME x \in ToSet(s) PROVE x \in ToSet(r)
    <3>1. PICK i \in 1 .. Len(s) : s[i] = x
      BY <2>1, ToSetAt
    <3>2. CASE i < k
      <4>1. i \in 1 .. Len(s) - 1 /\ r[i] = x
        BY <3>1, <3>2, <1>1, <1>5
      <4>2. QED
        BY <4>1, <1>4, ToSetAt
    <3>3. CASE i > k
      <4>1. i - 1 \in 1 .. Len(s) - 1 /\ ~(i - 1 < k) /\ (i - 1) + 1 = i
        BY <3>3, <1>1
      <4>2. r[i - 1] = x
        BY <4>1, <3>1, <1>5
      <4>3. QED
        BY <4>1, <4>2, <1>4, ToSetAt
    <3>4. i # k
      BY <3>1, <1>8
    <3>5. QED
      BY <3>2, <3>3, <3>4, <1>1
  <2>2. ASSUME x \in ToSet(r) PROVE x \in ToSet(s)
    <3>1. PICK i \in 1 .. Len(s) - 1 : r[i] = x
      BY <2>2, <1>4, ToSetAt
    <3>2. i \in 1 .. Len(s) /\ i + 1 \in 1 .. Len(s)
      BY <1>1
    <3>3. QED
      BY <3>1, <3>2, <1>5, ToSetAt
  <2>3. QED
    BY <2>1, <2>2
<1>9. Touched(r, s, s[k].name)
  BY <1>1, <1>4, <1>7, <1>8 DEF Touched
<1>10. QED
  BY <1>4, <1>5, <1>9 DEF r

LEMMA Bounds == MaxEntries \in Nat /\ MaxWrites \in Nat
BY EnvAssumption, Zenon

LEMMA InitInv == Init => IInv
<1> SUFFICES ASSUME Init PROVE IInv
  OBVIOUS
<1>1. ASSUME NEW h \in Hives
      PROVE  registry[h] \in Seq(Entries) /\ Distinct(registry[h]) /\ Len(registry[h]) <= MaxEntries
  <2>1. registry[h] \in BoundedSeq(Entries, MaxEntries) /\ Distinct(registry[h])
    BY DEF Init
  <2>2. PICK m \in 0 .. MaxEntries : registry[h] \in [1 .. m -> Entries]
    BY <2>1 DEF BoundedSeq, SeqOf
  <2>3. m \in Nat /\ m <= MaxEntries
    BY Bounds
  <2>4. registry[h] \in Seq(Entries) /\ Len(registry[h]) = m
    BY <2>2, <2>3
  <2>5. QED
    BY <2>1, <2>3, <2>4
<1>2. /\ DOMAIN registry = Hives /\ registry = [h \in Hives |-> registry[h]]
      /\ base \in Bases /\ pc = "idle" /\ todo = <<>> /\ read = [h \in Hives |-> <<>>]
      /\ env = <<>> /\ disturbed = {} /\ hidden = {} /\ writes = 0
  BY DEF Init
<1>3. Distinct(<<>>) /\ \A n : Once(<<>>, n) /\ Single(<<>>, n)
  BY DEF Distinct, Once, Single
<1>10. listing \in BOOLEAN /\ ~listing
  BY Zenon DEF Init
<1>4. TypeInv
  <2>1. registry \in [Hives -> Seq(Entries)]
    BY <1>1, <1>2
  <2>2. read \in [Hives -> Seq(Entries)] /\ todo \in Seq(AllNames)
    BY <1>2, EmptySeq
  <2>3. writes \in 0 .. MaxWrites
    BY <1>2, Bounds
  <2>4. QED
    BY <1>2, <1>3, <1>10, <2>1, <2>2, <2>3 DEF TypeInv
<1>5. KeysInv
  <2>1. \A h \in Hives : Len(registry[h]) <= MaxEntries + writes
    BY <1>1, <1>2, Bounds
  <2>2. QED
    BY <1>1, <2>1 DEF KeysInv
<1>6. ~Opened("machine") /\ ~Opened("user") /\ pc \notin Hives
  BY <1>2 DEF Opened, Hives
<1>7. ReadInv
  <2>1. \A h \in Hives : read[h] = <<>>
    BY <1>2
  <2>2. QED
    BY <1>2, <1>3, <1>6, <1>10, <2>1, ToSetEmpty DEF ReadInv
<1>8. ListInv /\ FreshInv /\ ComposedInv
  <2>1. \A h \in Hives : ~Opened(h)
    BY <1>6 DEF Hives
  <2>2. QED
    BY <1>2, <1>10, <2>1 DEF ListInv, FreshInv, ComposedInv
<1>9. QED
  BY <1>4, <1>5, <1>7, <1>8 DEF IInv

\* A change of the registry: a name of a key that was opened is disturbed.
LEMMA ChangeInv ==
  ASSUME IInv, NEW h \in Hives, NEW r, NEW name \in AllNames,
         Touched(r, registry[h], name), Changed(h, name),
         registry' = [registry EXCEPT ![h] = r],
         hidden \subseteq hidden', hidden' \subseteq AllNames, ListInv'
  PROVE  IInv'
<1>1. /\ registry \in [Hives -> Seq(Entries)] /\ writes \in 0 .. MaxWrites
      /\ disturbed \subseteq AllNames
  BY DEF IInv, TypeInv
<1>2. /\ r \in Seq(Entries) /\ Distinct(r) /\ Len(r) <= Len(registry[h]) + 1
      /\ \A x \in Entries : x.name # name => (x \in ToSet(r) <=> x \in ToSet(registry[h]))
  BY DEF Touched
<1>3. /\ writes < MaxWrites /\ writes' = writes + 1
      /\ base' = base /\ pc' = pc /\ todo' = todo /\ read' = read /\ env' = env
      /\ listing' = listing
      /\ disturbed' = IF Opened(h) THEN disturbed \cup {name} ELSE disturbed
  BY DEF Changed, sessionVars
<1>4. /\ registry' \in [Hives -> Seq(Entries)] /\ registry'[h] = r
      /\ \A g \in Hives : g # h => registry'[g] = registry[g]
  BY <1>1, <1>2
<1>5. \A g : Opened(g)' <=> Opened(g)
  BY <1>3 DEF Opened
<1>6. TypeInv'
  <2>1. writes' \in 0 .. MaxWrites
    BY <1>1, <1>3, Bounds
  <2>2. disturbed' \subseteq AllNames
    BY <1>1, <1>3
  <2>3. QED
    BY <1>3, <1>4, <2>1, <2>2 DEF IInv, TypeInv, Distinct
<1>7. KeysInv'
  <2>1. \A g \in Hives : Distinct(registry[g]) /\ Len(registry[g]) <= MaxEntries + writes
    BY DEF IInv, KeysInv
  <2>2. \A g \in Hives : Len(registry[g]) \in Nat
    BY <1>1
  <2>3. \A g \in Hives : Len(registry'[g]) <= MaxEntries + writes'
    <3>1. Len(r) \in Nat /\ MaxEntries \in Nat /\ writes \in Nat
      BY <1>1, <1>2, Bounds
    <3>2. QED
      BY <1>2, <1>3, <1>4, <2>1, <2>2, <3>1
  <2>4. \A g \in Hives : Distinct(registry'[g])
    BY <1>2, <1>4, <2>1
  <2>5. QED
    BY <2>3, <2>4 DEF KeysInv, Distinct
<1>8. ReadInv'
  <2>1. disturbed \subseteq disturbed'
    BY <1>3
  <2>2. QED
    BY <1>3, <1>5, <2>1 DEF IInv, ReadInv, Once, Single
<1>9. FreshInv'
  <2>1. ASSUME NEW g \in Hives, NEW e \in Entries, Opened(g), e.name \notin disturbed' \cup hidden',
               pc = g => ~listing /\ e.name \notin ToSet(todo)
        PROVE  e \in ToSet(read[g]) <=> e \in ToSet(registry'[g]) /\ e.kind # "other"
    <3>1. e \in ToSet(read[g]) <=> e \in ToSet(registry[g]) /\ e.kind # "other"
      BY <1>3, <2>1 DEF IInv, FreshInv
    <3>2. CASE g # h
      BY <3>1, <3>2, <1>4
    <3>3. CASE g = h
      BY <3>1, <3>3, <2>1, <1>2, <1>3, <1>4
    <3>4. QED
      BY <3>2, <3>3
  <2>2. QED
    BY <2>1, <1>3, <1>5 DEF FreshInv
<1>10. ComposedInv'
  BY <1>3 DEF IInv, ComposedInv
<1>11. QED
  BY <1>6, <1>7, <1>8, <1>9, <1>10 DEF IInv

LEMMA InstallerInv ==
  ASSUME IInv, Installer
  PROVE  IInv'
<1>1. PICK h \in Hives : \/ \E e \in Entries : Write(h, e)
                         \/ \E i \in DOMAIN registry[h] : Delete(h, i)
  BY DEF Installer
<1>2. registry \in [Hives -> Seq(Entries)] /\ registry[h] \in Seq(Entries) /\ Distinct(registry[h])
  BY DEF IInv, TypeInv, KeysInv
<1>3. /\ registry[pc] \in Seq(Entries) \/ ~listing
      /\ disturbed \subseteq AllNames /\ hidden \subseteq AllNames
      /\ todo \in Seq(AllNames) /\ Len(todo) \in Nat
  BY DEF IInv, TypeInv, ReadInv
<1>4. ASSUME listing
      PROVE  \A i \in 1 .. Len(registry[pc]) :
               /\ registry[pc][i].name \notin disturbed
                    /\ registry[pc][i].name \in ToSet(todo) => i <= Len(todo)
               /\ registry[pc][i].name \notin disturbed \cup hidden /\ i <= Len(todo)
                    => registry[pc][i].name \in ToSet(todo)
  BY <1>3, <1>4 DEF IInv, ListInv
<1>5. ASSUME NEW name, Changed(h, name)
      PROVE  /\ pc' = pc /\ todo' = todo /\ listing' = listing /\ disturbed \subseteq disturbed'
             /\ listing /\ pc = h => name \in disturbed'
  BY <1>5 DEF Changed, sessionVars, Opened
<1>6. ASSUME NEW e \in Entries, Write(h, e) PROVE IInv'
  <2> DEFINE r == Written(registry[h], e)
  <2>1. /\ Touched(r, registry[h], e.name)
        /\ \A i \in 1 .. Len(r) : r[i].name # e.name =>
             i \in 1 .. Len(registry[h]) /\ r[i].name = registry[h][i].name
    BY <1>2, WriteTouches
  <2>2. registry' = [registry EXCEPT ![h] = r] /\ Changed(h, e.name) /\ hidden' = hidden
    BY <1>6 DEF Write, Written
  <2>3. e.name \in AllNames
    BY DEF AllNames
  <2> HIDE DEF r
  <2>4. ListInv'
    <3> SUFFICES ASSUME listing' PROVE ListInv'
      BY DEF ListInv
    <3>1. listing /\ pc' = pc /\ todo' = todo /\ disturbed \subseteq disturbed'
      BY <1>5, <2>2
    <3>2. CASE pc = h
      <4>1. registry'[pc'] = r /\ DOMAIN r = 1 .. Len(r)
        BY <1>2, <2>1, <2>2, <3>1, <3>2 DEF Touched
      <4>2. e.name \in disturbed'
        BY <1>5, <2>2, <3>1, <3>2
      <4>3. \A i \in 1 .. Len(r) : r[i].name \notin disturbed' =>
              i \in 1 .. Len(registry[pc]) /\ r[i].name = registry[pc][i].name
        BY <2>1, <3>2, <4>2
      <4>4. \A i \in 1 .. Len(r) :
              /\ r[i].name \notin disturbed' /\ r[i].name \in ToSet(todo) => i <= Len(todo)
              /\ r[i].name \notin disturbed' \cup hidden' /\ i <= Len(todo)
                   => r[i].name \in ToSet(todo)
        BY <1>4, <2>2, <3>1, <4>3
      <4>5. QED
        BY <3>1, <4>1, <4>4 DEF ListInv
    <3>3. CASE pc # h
      <4>1. registry'[pc'] = registry[pc] /\ DOMAIN registry[pc] = 1 .. Len(registry[pc])
        BY <1>2, <1>3, <2>2, <3>1, <3>3
      <4>2. QED
        BY <1>4, <2>2, <3>1, <4>1 DEF ListInv
    <3>4. QED
      BY <3>2, <3>3
  <2>5. QED
    BY <1>3, <2>1, <2>2, <2>3, <2>4, ChangeInv
<1>7. ASSUME NEW k \in DOMAIN registry[h], Delete(h, k) PROVE IInv'
  <2> DEFINE s == registry[h]
             r == RemoveAt(registry[h], k)
             name == registry[h][k].name
  <2>1. /\ Touched(r, s, name) /\ Len(r) = Len(s) - 1
        /\ \A i \in 1 .. Len(s) - 1 : r[i] = IF i < k THEN s[i] ELSE s[i + 1]
    BY <1>2, DeleteTouches
  <2>2. registry' = [registry EXCEPT ![h] = r] /\ Changed(h, name)
        /\ hidden' = hidden \cup Hides(h, k)
    BY <1>7 DEF Delete
  <2>3. name \in AllNames /\ \A i \in 1 .. Len(s) : s[i].name \in AllNames
    BY <1>2 DEF AllNames
  <2>4. Len(s) \in Nat /\ k \in 1 .. Len(s)
    BY <1>2
  <2>5. hidden' \subseteq AllNames /\ hidden \subseteq hidden'
    <3>1. listing /\ Len(todo) < Len(s) => Len(todo) + 1 \in 1 .. Len(s)
      BY <1>3, <2>4
    <3>2. QED
      BY <1>3, <2>2, <2>3, <3>1 DEF Hides
  <2> HIDE DEF r, name
  <2>6. ListInv'
    <3> SUFFICES ASSUME listing' PROVE ListInv'
      BY DEF ListInv
    <3>1. listing /\ pc' = pc /\ todo' = todo /\ disturbed \subseteq disturbed'
      BY <1>5, <2>2
    <3>2. CASE pc = h
      <4>1. registry'[pc'] = r /\ DOMAIN r = 1 .. Len(r)
        BY <1>2, <2>1, <2>2, <3>1, <3>2 DEF Touched
      <4>2. \A i \in 1 .. Len(s) :
              /\ s[i].name \notin disturbed' /\ s[i].name \in ToSet(todo) => i <= Len(todo)
              /\ s[i].name \notin disturbed' \cup hidden' /\ i <= Len(todo)
                   => s[i].name \in ToSet(todo)
        BY <1>4, <2>5, <3>1, <3>2
      <4>3. k <= Len(todo) /\ Len(todo) < Len(s) => s[Len(todo) + 1].name \in hidden'
        BY <2>2, <3>1, <3>2 DEF Hides
      <4> HIDE DEF s
      <4>4. ASSUME NEW i \in 1 .. Len(r)
            PROVE  /\ r[i].name \notin disturbed' /\ r[i].name \in ToSet(todo) => i <= Len(todo)
                   /\ r[i].name \notin disturbed' \cup hidden' /\ i <= Len(todo)
                        => r[i].name \in ToSet(todo)
        <5>1. CASE i < k
          BY <1>3, <2>1, <2>4, <4>2, <5>1
        <5>2. CASE i >= k
          <6>1. i \in 1 .. Len(s) - 1 /\ i + 1 \in 1 .. Len(s) /\ r[i] = s[i + 1]
            BY <2>1, <2>4, <5>2
          <6>2. CASE i + 1 <= Len(todo)
            BY <1>3, <2>4, <4>2, <6>1, <6>2
          <6>3. CASE i = Len(todo)
            <7>1. r[i].name \in hidden'
              BY <1>3, <2>4, <4>3, <5>2, <6>1, <6>3
            <7>2. QED
              BY <1>3, <6>3, <7>1
          <6>4. CASE i > Len(todo)
            <7>1. ~(i + 1 <= Len(todo)) /\ ~(i <= Len(todo))
              BY <1>3, <2>4, <6>4
            <7>2. QED
              BY <4>2, <6>1, <7>1
          <6>5. QED
            BY <1>3, <2>4, <6>1, <6>2, <6>3, <6>4
        <5>3. QED
          BY <2>1, <2>4, <5>1, <5>2
      <4>5. QED
        BY <3>1, <4>1, <4>4 DEF ListInv
    <3>3. CASE pc # h
      <4>1. registry'[pc'] = registry[pc] /\ DOMAIN registry[pc] = 1 .. Len(registry[pc])
        BY <1>2, <1>3, <2>2, <3>1, <3>3
      <4>2. QED
        BY <1>4, <2>5, <3>1, <4>1 DEF ListInv
    <3>4. QED
      BY <3>2, <3>3
  <2>7. QED
    BY <2>1, <2>2, <2>3, <2>5, <2>6, ChangeInv
<1>8. QED
  BY <1>1, <1>6, <1>7

\* What a session's step leaves alone.
LEMMA KeysStay ==
  ASSUME IInv, registry' = registry, writes' = writes
  PROVE  KeysInv'
BY DEF IInv, KeysInv, Distinct

\* Opening a key: nothing of it has been listed or read.
LEMMA OpenInv ==
  ASSUME IInv, NEW h \in Hives, Open(h), ~Opened(h), todo = <<>>, ~listing,
         \A g \in Hives : g # h => (pc' = "user" => pc = g)
  PROVE  IInv'
<1>1. /\ registry \in [Hives -> Seq(Entries)] /\ registry[h] \in Seq(Entries)
      /\ Distinct(registry[h]) /\ disturbed \subseteq AllNames /\ read[h] = <<>>
  BY DEF IInv, TypeInv, KeysInv, ReadInv
<1>2. /\ registry' = registry /\ base' = base /\ read' = read /\ env' = env
      /\ writes' = writes /\ pc' = h /\ hidden' = hidden /\ todo' = <<>>
  BY DEF Open
<1>3. /\ listing' \in BOOLEAN /\ disturbed' \subseteq AllNames
      /\ disturbed \subseteq disturbed'
      /\ listing' \/ NamesOf(registry[h]) \subseteq disturbed'
  <2>1. NamesOf(registry[h]) \subseteq AllNames
    <3>1. \A x \in ToSet(registry[h]) : x \in Entries
      BY <1>1, ToSetAt
    <3>2. QED
      BY <3>1 DEF NamesOf, AllNames
  <2>2. listing' \in BOOLEAN
    BY Zenon DEF Open
  <2>3. \/ listing' /\ disturbed' = disturbed
        \/ disturbed' = disturbed \cup NamesOf(registry[h])
    BY DEF Open
  <2>4. QED
    BY <1>1, <2>1, <2>2, <2>3
<1>4. h \in Hives /\ pc' \in Hives \cup {"idle", "ready"} /\ pc' # "ready"
  BY <1>2 DEF Hives
<1>5. TypeInv'
  BY <1>2, <1>3, <1>4, EmptySeq DEF IInv, TypeInv, Distinct
<1>6. \A g \in Hives : g # h => (Opened(g)' <=> pc' = "user")
  BY <1>2, <1>4 DEF Opened, Hives
<1>7. ReadInv'
  <2>1. ASSUME NEW g \in Hives PROVE Opened(g)' \/ read[g] = <<>>
    <3>1. CASE g = h
      BY <3>1, <1>2 DEF Opened
    <3>2. CASE g # h
      <4>1. CASE Opened(g)
        <5>1. pc' = "user"
          BY <3>2, <4>1, <1>2, <1>4 DEF Opened, Hives
        <5>2. QED
          BY <5>1, <3>2, <1>6
      <4>2. CASE ~Opened(g)
        BY <4>2 DEF IInv, ReadInv
      <4>3. QED
        BY <4>1, <4>2
    <3>3. QED
      BY <3>1, <3>2
  <2>2. \A n : Single(<<>>, n) /\ n \notin ToSet(<<>>)
    BY ToSetEmpty DEF Single
  <2>3. \A n : Single(todo, n)'
    BY <1>2 DEF Single
  <2>4. \A g \in Hives : /\ \A n : n \notin disturbed' => Once(read[g], n)'
                         /\ \A e \in ToSet(read'[g]) : e.kind # "other"
    BY <1>2, <1>3 DEF IInv, ReadInv, Once
  <2>5. QED
    BY <1>1, <1>2, <1>4, <2>1, <2>2, <2>3, <2>4 DEF ReadInv
<1>8. ListInv'
  <2>1. DOMAIN registry[h] = 1 .. Len(registry[h]) /\ Len(registry[h]) \in Nat /\ Len(<<>>) = 0
    BY <1>1
  <2>2. \A i \in 1 .. Len(registry[h]) : ~(i <= 0)
    BY <2>1
  <2>3. QED
    BY <1>2, <2>1, <2>2, ToSetEmpty DEF ListInv
<1>9. FreshInv'
  <2>1. ASSUME NEW g \in Hives, NEW e \in Entries, Opened(g)', e.name \notin disturbed' \cup hidden,
               h = g => ~listing'
        PROVE  e \in ToSet(read[g]) <=> e \in ToSet(registry[g]) /\ e.kind # "other"
    <3>1. CASE g = h
      <4>1. e \notin ToSet(registry[h])
        BY <3>1, <2>1, <1>3 DEF NamesOf
      <4>2. QED
        BY <3>1, <4>1, <1>1, ToSetEmpty
    <3>2. CASE g # h
      <4>1. pc = g /\ Opened(g)
        BY <3>2, <2>1, <1>6 DEF Opened
      <4>2. e.name \notin disturbed \cup hidden /\ e.name \notin ToSet(todo)
        BY <2>1, <1>3, ToSetEmpty
      <4>3. QED
        BY <4>1, <4>2 DEF IInv, FreshInv
    <3>3. QED
      BY <3>1, <3>2
  <2>2. QED
    BY <2>1, <1>2 DEF FreshInv
<1>10. ComposedInv'
  BY <1>4 DEF ComposedInv
<1>11. QED
  BY <1>2, <1>5, <1>7, <1>8, <1>9, <1>10, KeysStay DEF IInv

LEMMA BeginInv ==
  ASSUME IInv, Begin
  PROVE  IInv'
<1>1. pc = "idle" /\ Open("machine") /\ pc' = "machine"
  BY DEF Begin, Open
<1>2. "machine" \in Hives /\ ~Opened("machine") /\ pc \notin Hives
  BY <1>1 DEF Hives, Opened
<1>3. todo = <<>> /\ ~listing
  BY <1>2 DEF IInv, ReadInv
<1>4. \A g \in Hives : g # "machine" => (pc' = "user" => pc = g)
  BY <1>1
<1>5. QED
  BY <1>1, <1>2, <1>3, <1>4, OpenInv

LEMMA ThenUserInv ==
  ASSUME IInv, ThenUser
  PROVE  IInv'
<1>1. pc = "machine" /\ todo = <<>> /\ ~listing /\ Open("user")
  BY DEF ThenUser, IsRead
<1>2. "user" \in Hives /\ ~Opened("user")
  BY <1>1 DEF Hives, Opened
<1>3. \A g \in Hives : g # "user" => (pc' = "user" => pc = g)
  BY <1>1 DEF Hives
<1>4. QED
  BY <1>1, <1>2, <1>3, OpenInv

\* One name more on the list: it was not there, if nobody changed it.
LEMMA EnumValueInv ==
  ASSUME IInv, EnumValue
  PROVE  IInv'
<1> DEFINE k == Len(todo) + 1
           m == registry[pc][k].name
<1>1. /\ listing /\ Len(todo) < Len(registry[pc]) /\ todo' = Append(todo, m)
      /\ registry' = registry /\ base' = base /\ pc' = pc /\ listing' = listing
      /\ read' = read /\ env' = env /\ disturbed' = disturbed /\ hidden' = hidden
      /\ writes' = writes
  BY DEF EnumValue
<1>2. /\ pc \in Hives /\ registry[pc] \in Seq(Entries) /\ Distinct(registry[pc])
      /\ todo \in Seq(AllNames) /\ read[pc] = <<>>
  BY <1>1 DEF IInv, TypeInv, KeysInv, ReadInv
<1>3. /\ Len(todo) \in Nat /\ Len(registry[pc]) \in Nat /\ k \in 1 .. Len(registry[pc])
      /\ DOMAIN registry[pc] = 1 .. Len(registry[pc])
  BY <1>1, <1>2
<1>4. m \in AllNames
  <2>1. registry[pc][k] \in Entries
    BY <1>2, <1>3
  <2>2. QED
    BY <2>1 DEF AllNames
<1>5. \A i \in 1 .. Len(registry[pc]) :
        /\ registry[pc][i].name \notin disturbed /\ registry[pc][i].name \in ToSet(todo)
             => i <= Len(todo)
        /\ registry[pc][i].name \notin disturbed \cup hidden /\ i <= Len(todo)
             => registry[pc][i].name \in ToSet(todo)
  BY <1>1, <1>3 DEF IInv, ListInv
<1>6. m \notin disturbed => m \notin ToSet(todo)
  <2>1. ~(k <= Len(todo))
    BY <1>3
  <2>2. QED
    BY <1>3, <1>5, <2>1
<1>7. /\ todo' \in Seq(AllNames) /\ Len(todo') = Len(todo) + 1
      /\ ToSet(todo') = ToSet(todo) \cup {m}
      /\ \A n : Single(todo, n) /\ (n = m => n \notin ToSet(todo)) => Single(todo', n)
  BY <1>1, <1>2, <1>4, AppendIs
<1>8. TypeInv'
  BY <1>1, <1>7 DEF IInv, TypeInv, Distinct
<1>9. \A g : Opened(g)' <=> Opened(g)
  BY <1>1 DEF Opened
<1>10. ReadInv'
  <2>1. \A n : n \notin disturbed => Single(todo', n)
    BY <1>6, <1>7 DEF IInv, ReadInv
  <2>2. \A n : Single(todo', n) <=> Single(todo, n)'
    BY DEF Single
  <2>3. NamesOf(read[pc]) = {}
    BY <1>2, ToSetEmpty DEF NamesOf
  <2>4. \A g \in Hives : /\ \A n : n \notin disturbed' => Once(read[g], n)'
                         /\ \A e \in ToSet(read'[g]) : e.kind # "other"
                         /\ Opened(g)' \/ read'[g] = <<>>
    BY <1>1, <1>9 DEF IInv, ReadInv, Once
  <2>5. NamesOf(read'[pc']) = {}
    BY <1>1, <2>3
  <2>6. QED
    BY <1>1, <1>2, <2>1, <2>2, <2>4, <2>5 DEF ReadInv
<1>11. ListInv'
  <2>1. \A i, j \in 1 .. Len(registry[pc]) : registry[pc][i].name = registry[pc][j].name => i = j
    BY <1>2, DistinctAt
  <2>2. ASSUME NEW i \in 1 .. Len(registry[pc])
        PROVE  /\ registry[pc][i].name \notin disturbed /\ registry[pc][i].name \in ToSet(todo')
                    => i <= Len(todo')
               /\ registry[pc][i].name \notin disturbed \cup hidden /\ i <= Len(todo')
                    => registry[pc][i].name \in ToSet(todo')
    <3>1. CASE i = k
      BY <3>1, <1>3, <1>7
    <3>2. CASE i # k
      <4>1. registry[pc][i].name # m
        BY <3>2, <1>3, <2>1
      <4>2. i <= Len(todo) <=> i <= Len(todo')
        BY <3>2, <1>3, <1>7
      <4>3. QED
        BY <4>1, <4>2, <1>5, <1>7
    <3>3. QED
      BY <3>1, <3>2
  <2>3. QED
    BY <1>1, <1>3, <2>2 DEF ListInv
<1>12. FreshInv'
  <2>1. ASSUME NEW g \in Hives, NEW e \in Entries, Opened(g), e.name \notin disturbed \cup hidden,
               pc # g
        PROVE  e \in ToSet(read[g]) <=> e \in ToSet(registry[g]) /\ e.kind # "other"
    BY <2>1 DEF IInv, FreshInv
  <2>2. QED
    BY <1>1, <1>9, <2>1 DEF FreshInv
<1>13. ComposedInv'
  BY <1>1, <1>2 DEF ComposedInv, Hives
<1>14. QED
  BY <1>1, <1>8, <1>10, <1>11, <1>12, <1>13, KeysStay DEF IInv

\* The list ends behind the last value of the key, or counts for nothing.
LEMMA EndListInv ==
  ASSUME IInv, EndList
  PROVE  IInv'
<1>1. /\ listing /\ registry' = registry /\ base' = base /\ pc' = pc /\ read' = read
      /\ env' = env /\ hidden' = hidden /\ writes' = writes
      /\ \/ Len(todo) >= Len(registry[pc]) /\ todo' = todo /\ disturbed' = disturbed
         \/ todo' = <<>> /\ disturbed' = disturbed \cup NamesOf(registry[pc])
  BY DEF EndList
<1>2. listing' \in BOOLEAN /\ ~listing'
  BY Zenon DEF EndList
<1>3. /\ pc \in Hives /\ registry[pc] \in Seq(Entries) /\ read[pc] = <<>>
      /\ todo \in Seq(AllNames) /\ disturbed \subseteq AllNames
  BY <1>1 DEF IInv, TypeInv, ReadInv
<1>4. NamesOf(registry[pc]) \subseteq AllNames
  <2>1. \A x \in ToSet(registry[pc]) : x \in Entries
    BY <1>3, ToSetAt
  <2>2. QED
    BY <2>1 DEF NamesOf, AllNames
<1>5. disturbed \subseteq disturbed' /\ disturbed' \subseteq AllNames /\ todo' \in Seq(AllNames)
  BY <1>1, <1>3, <1>4, EmptySeq
<1>6. TypeInv'
  BY <1>1, <1>2, <1>5 DEF IInv, TypeInv, Distinct
<1>7. \A g : Opened(g)' <=> Opened(g)
  BY <1>1 DEF Opened
<1>8. ReadInv'
  <2>1. \A n : Single(<<>>, n)
    BY DEF Single
  <2>2. \A n : n \notin disturbed' => Single(todo', n)
    BY <1>1, <1>5, <2>1 DEF IInv, ReadInv
  <2>3. \A n : Single(todo', n) <=> Single(todo, n)'
    BY DEF Single
  <2>4. NamesOf(read'[pc']) = {}
    BY <1>1, <1>3, ToSetEmpty DEF NamesOf
  <2>5. \A g \in Hives : /\ \A n : n \notin disturbed' => Once(read[g], n)'
                         /\ \A e \in ToSet(read'[g]) : e.kind # "other"
                         /\ Opened(g)' \/ read'[g] = <<>>
    BY <1>1, <1>5, <1>7 DEF IInv, ReadInv, Once
  <2>6. QED
    BY <1>1, <1>2, <1>3, <2>2, <2>3, <2>4, <2>5 DEF ReadInv
<1>9. ListInv'
  BY <1>2 DEF ListInv
<1>10. FreshInv'
  <2>1. ASSUME NEW g \in Hives, NEW e \in Entries, Opened(g),
               e.name \notin disturbed' \cup hidden, pc = g => e.name \notin ToSet(todo')
        PROVE  e \in ToSet(read[g]) <=> e \in ToSet(registry[g]) /\ e.kind # "other"
    <3>1. CASE g # pc
      BY <2>1, <3>1, <1>5 DEF IInv, FreshInv
    <3>2. CASE g = pc
      <4>1. ASSUME e \in ToSet(registry[pc]) PROVE FALSE
        <5>1. PICK i \in 1 .. Len(registry[pc]) : registry[pc][i] = e
          BY <1>3, <4>1, ToSetAt
        <5>2. e.name \in NamesOf(registry[pc])
          BY <4>1 DEF NamesOf
        <5>3. Len(todo) >= Len(registry[pc]) /\ todo' = todo
          BY <1>1, <2>1, <5>2
        <5>4. i <= Len(todo) /\ i \in DOMAIN registry[pc]
          BY <1>3, <5>3
        <5>5. registry[pc][i].name \in ToSet(todo)
          BY <1>1, <1>5, <2>1, <5>1, <5>4 DEF IInv, ListInv
        <5>6. QED
          BY <2>1, <3>2, <5>1, <5>3, <5>5
      <4>2. QED
        BY <3>2, <4>1, <1>3, ToSetEmpty
    <3>3. QED
      BY <3>1, <3>2
  <2>2. QED
    BY <1>1, <1>7, <2>1 DEF FreshInv
<1>11. ComposedInv'
  BY <1>1, <1>3 DEF ComposedInv, Hives
<1>12. QED
  BY <1>1, <1>6, <1>8, <1>9, <1>10, <1>11, KeysStay DEF IInv

\* One name less to read.
LEMMA NextName ==
  ASSUME IInv, pc \in Hives, todo # <<>>, todo' = Tail(todo)
  PROVE  /\ Head(todo) \notin disturbed => Head(todo) \notin NamesOf(read[pc])
                                             /\ Head(todo) \notin ToSet(todo')
         /\ ToSet(todo) = {Head(todo)} \cup ToSet(todo')
         /\ todo' \in Seq(AllNames)
         /\ \A n : n \notin disturbed => Single(todo', n)
<1>1. todo \in Seq(AllNames)
  BY DEF IInv, TypeInv
<1>2. /\ ToSet(todo) = {Head(todo)} \cup ToSet(todo') /\ todo' \in Seq(AllNames)
      /\ \A n : Single(todo, n) =>
           Single(todo', n) /\ (n = Head(todo) => n \notin ToSet(todo'))
  BY <1>1, TailIs
<1>3. /\ \A n : n \notin disturbed => Single(todo, n)
      /\ \A n : n \notin disturbed /\ n \in ToSet(todo) => n \notin NamesOf(read[pc])
  BY DEF IInv, ReadInv
<1>4. QED
  BY <1>2, <1>3

LEMMA ReadValueInv ==
  ASSUME IInv, ReadValue
  PROVE  IInv'
<1>1. pc \in Hives /\ ~listing /\ todo # <<>> /\ todo' = Tail(todo)
  BY DEF ReadValue
<1>2. PICK e \in ToSet(registry[pc]) :
        e.name = Head(todo) /\ e.kind # "other" /\ read' = [read EXCEPT ![pc] = Append(@, e)]
  BY DEF ReadValue
<1>3. /\ registry' = registry /\ base' = base /\ pc' = pc /\ env' = env
      /\ disturbed' = disturbed /\ writes' = writes /\ listing' = listing /\ hidden' = hidden
  BY DEF ReadValue
<1>4. /\ registry[pc] \in Seq(Entries) /\ Distinct(registry[pc])
      /\ read \in [Hives -> Seq(Entries)] /\ read[pc] \in Seq(Entries)
      /\ \A n : n \notin disturbed => Once(read[pc], n)
      /\ \A x \in ToSet(read[pc]) : x.kind # "other"
  BY <1>1 DEF IInv, TypeInv, KeysInv, ReadInv
<1>5. e \in Entries
  BY <1>2, <1>4, ToSetAt
<1>6. /\ Head(todo) \notin disturbed => Head(todo) \notin NamesOf(read[pc])
                                          /\ Head(todo) \notin ToSet(todo')
      /\ ToSet(todo) = {Head(todo)} \cup ToSet(todo')
      /\ todo' \in Seq(AllNames) /\ \A n : n \notin disturbed => Single(todo', n)
  BY <1>1, NextName
<1> DEFINE r == Append(read[pc], e)
<1>7. /\ r \in Seq(Entries) /\ ToSet(r) = ToSet(read[pc]) \cup {e}
      /\ NamesOf(r) = NamesOf(read[pc]) \cup {e.name}
  BY <1>4, <1>5, ToSetAppend, AppendNames
<1>8. ASSUME NEW n, n \notin disturbed PROVE Once(r, n)
  <2>1. Len(r) = Len(read[pc]) + 1 /\ r[Len(read[pc]) + 1] = e /\ Len(read[pc]) \in Nat
        /\ \A i \in 1 .. Len(read[pc]) : r[i] = read[pc][i]
    BY <1>4, <1>5
  <2>2. n = e.name => \A i \in 1 .. Len(read[pc]) : read[pc][i].name # n
    BY <1>2, <1>4, <1>6, <1>8, NamesAt
  <2>3. \A i, j \in 1 .. Len(read[pc]) : read[pc][i].name = n /\ read[pc][j].name = n => i = j
    BY <1>4, <1>8, OnceAt
  <2> HIDE DEF r
  <2>4. ASSUME NEW i \in 1 .. Len(r), NEW j \in 1 .. Len(r), r[i].name = n, r[j].name = n
        PROVE  i = j
    <3>1. /\ i \in 1 .. Len(read[pc]) \/ i = Len(read[pc]) + 1
          /\ j \in 1 .. Len(read[pc]) \/ j = Len(read[pc]) + 1
      BY <2>1
    <3>2. CASE i \in 1 .. Len(read[pc]) /\ j \in 1 .. Len(read[pc])
      BY <2>1, <2>3, <2>4, <3>2
    <3>3. CASE n = e.name
      BY <2>1, <2>2, <2>4, <3>1, <3>3
    <3>4. CASE n # e.name
      BY <2>1, <2>4, <3>1, <3>2, <3>4
    <3>5. QED
      BY <3>3, <3>4
  <2>5. QED
    BY <1>7, <2>4, OnceAt
<1>9. read'[pc] = r /\ \A g \in Hives : g # pc => read'[g] = read[g]
  BY <1>1, <1>2, <1>4
<1> HIDE DEF r
<1>10. TypeInv'
  <2>1. read' \in [Hives -> Seq(Entries)]
    BY <1>1, <1>2, <1>4, <1>7 DEF r
  <2>2. QED
    BY <1>3, <1>6, <2>1 DEF IInv, TypeInv, Distinct
<1>11. \A g : Opened(g)' <=> Opened(g)
  BY <1>3 DEF Opened
<1>12. ReadInv'
  <2>1. ASSUME NEW g \in Hives
        PROVE  /\ \A n : n \notin disturbed => Once(read'[g], n)
               /\ \A x \in ToSet(read'[g]) : x.kind # "other"
               /\ Opened(g) \/ read'[g] = <<>>
    <3>1. CASE g = pc
      BY <3>1, <1>2, <1>4, <1>7, <1>8, <1>9 DEF Opened
    <3>2. CASE g # pc
      BY <3>2, <1>9 DEF IInv, ReadInv
    <3>3. QED
      BY <3>1, <3>2
  <2>2. \A n : n \notin disturbed /\ n \in ToSet(todo') => n \notin NamesOf(read'[pc])
    <3>1. \A n : n \notin disturbed /\ n \in ToSet(todo) => n \notin NamesOf(read[pc])
      BY <1>1 DEF IInv, ReadInv
    <3>2. QED
      BY <3>1, <1>2, <1>6, <1>7, <1>9
  <2>3. /\ \A g \in Hives : \A n : Once(read[g], n)' <=> Once(read'[g], n)
        /\ \A n : Single(todo, n)' <=> Single(todo', n)
    BY DEF Once, Single
  <2>4. QED
    BY <2>1, <2>2, <2>3, <1>1, <1>3, <1>6, <1>11 DEF ReadInv
<1>13. FreshInv'
  <2>1. ASSUME NEW g \in Hives, NEW x \in Entries, Opened(g), x.name \notin disturbed \cup hidden,
               pc = g => x.name \notin ToSet(todo')
        PROVE  x \in ToSet(read'[g]) <=> x \in ToSet(registry[g]) /\ x.kind # "other"
    <3>1. CASE g # pc \/ x.name # e.name
      <4>1. x \in ToSet(read[g]) <=> x \in ToSet(registry[g]) /\ x.kind # "other"
        BY <2>1, <3>1, <1>1, <1>2, <1>6 DEF IInv, FreshInv
      <4>2. x \in ToSet(read'[g]) <=> x \in ToSet(read[g])
        BY <3>1, <1>7, <1>9
      <4>3. QED
        BY <4>1, <4>2
    <3>2. CASE g = pc /\ x.name = e.name
      <4>1. x \notin ToSet(read[pc])
        BY <2>1, <3>2, <1>2, <1>6 DEF NamesOf
      <4>2. x \in ToSet(registry[pc]) => x = e
        <5>1. \A i, j \in 1 .. Len(registry[pc]) :
                registry[pc][i].name = registry[pc][j].name => i = j
          BY <1>4, DistinctAt
        <5>2. QED
          BY <5>1, <3>2, <1>2, <1>4, ToSetAt
      <4>3. QED
        BY <3>2, <4>1, <4>2, <1>2, <1>7, <1>9
    <3>3. QED
      BY <3>1, <3>2
  <2>2. QED
    BY <2>1, <1>3, <1>11 DEF FreshInv
<1>14. ListInv' /\ ComposedInv'
  BY <1>1, <1>3 DEF ListInv, ComposedInv, Hives
<1>15. QED
  BY <1>3, <1>10, <1>12, <1>13, <1>14, KeysStay DEF IInv

LEMMA SkipValueInv ==
  ASSUME IInv, SkipValue
  PROVE  IInv'
<1>1. pc \in Hives /\ ~listing /\ todo # <<>> /\ todo' = Tail(todo) /\ ~Readable(pc, Head(todo))
  BY DEF SkipValue
<1>2. /\ registry' = registry /\ base' = base /\ pc' = pc /\ read' = read /\ env' = env
      /\ disturbed' = disturbed /\ writes' = writes /\ listing' = listing /\ hidden' = hidden
  BY DEF SkipValue
<1>3. /\ Head(todo) \notin disturbed => Head(todo) \notin NamesOf(read[pc])
      /\ ToSet(todo) = {Head(todo)} \cup ToSet(todo')
      /\ todo' \in Seq(AllNames) /\ \A n : n \notin disturbed => Single(todo', n)
  BY <1>1, NextName
<1>4. TypeInv'
  BY <1>2, <1>3 DEF IInv, TypeInv, Distinct
<1>5. \A g : Opened(g)' <=> Opened(g)
  BY <1>2 DEF Opened
<1>6. ReadInv'
  <2>1. \A n : Single(todo, n)' <=> Single(todo', n)
    BY DEF Single
  <2>2. \A g \in Hives : \A n : Once(read[g], n)' <=> Once(read[g], n)
    BY <1>2 DEF Once
  <2>3. QED
    BY <1>1, <1>2, <1>3, <1>5, <2>1, <2>2 DEF IInv, ReadInv
<1>7. FreshInv'
  <2>1. ASSUME NEW g \in Hives, NEW x \in Entries, Opened(g), x.name \notin disturbed \cup hidden,
               pc = g => x.name \notin ToSet(todo')
        PROVE  x \in ToSet(read[g]) <=> x \in ToSet(registry[g]) /\ x.kind # "other"
    <3>1. CASE g # pc \/ x.name # Head(todo)
      BY <2>1, <3>1, <1>1, <1>3 DEF IInv, FreshInv
    <3>2. CASE g = pc /\ x.name = Head(todo)
      BY <2>1, <3>2, <1>1, <1>3 DEF NamesOf, Readable
    <3>3. QED
      BY <3>1, <3>2
  <2>2. QED
    BY <2>1, <1>2, <1>5 DEF FreshInv
<1>8. ListInv' /\ ComposedInv'
  BY <1>1, <1>2 DEF ListInv, ComposedInv, Hives
<1>9. QED
  BY <1>2, <1>4, <1>6, <1>7, <1>8, KeysStay DEF IInv

\* A key's values as the loops of env.go take them.
LEMMA ReadIsValues ==
  ASSUME IInv, NEW h \in Hives
  PROVE  /\ read[h] \in Seq(EnvValues)
         /\ registry[h] \in Seq(EnvValues)
         /\ base \in Seq(EnvEntries)
<1>1. Entries \subseteq EnvValues /\ base \in Seq(EnvEntries)
  BY EnvAssumption, Zenon DEF IInv, TypeInv
<1>2. read[h] \in Seq(Entries) /\ registry[h] \in Seq(Entries)
  BY DEF IInv, TypeInv
<1>3. QED
  BY <1>1, <1>2, SeqMonotonic, Zenon

LEMMA ComposeInv ==
  ASSUME IInv, Compose
  PROVE  IInv'
<1>1. pc = "user" /\ ~listing /\ todo = <<>> /\ pc' = "ready"
      /\ env' \in Requested(Composed(base, read["machine"], read["user"]))
  BY DEF Compose, IsRead
<1>2. /\ registry' = registry /\ base' = base /\ todo' = todo /\ read' = read
      /\ disturbed' = disturbed /\ writes' = writes /\ listing' = listing /\ hidden' = hidden
  BY DEF Compose
<1>3. "machine" \in Hives /\ "user" \in Hives
  BY DEF Hives
<1> DEFINE c == Composed(base, read["machine"], read["user"])
<1>4. Distinct(env')
  <2>1. /\ base \in Seq(EnvEntries) /\ read["machine"] \in Seq(EnvValues)
        /\ read["user"] \in Seq(EnvValues)
    BY <1>3, ReadIsValues
  <2>2. c \in Seq(EnvEntries) /\ Distinct(c)
    BY <2>1, ComposedIs DEF IsOverlay
  <2>3. env' \in Requested(c)
    BY <1>1
  <2> HIDE DEF c
  <2>4. QED
    BY <2>2, <2>3, RequestedIs
<1>5. TypeInv'
  BY <1>1, <1>2, <1>4 DEF IInv, TypeInv, Distinct
<1>6. ReadInv'
  <2>1. \A g : Opened(g)'
    BY <1>1 DEF Opened
  <2>2. pc' \notin Hives
    BY <1>1 DEF Hives
  <2>3. QED
    BY <1>1, <1>2, <2>1, <2>2 DEF IInv, ReadInv, Once, Single
<1>7. FreshInv'
  <2>1. ASSUME NEW g \in Hives, NEW x \in Entries, x.name \notin disturbed \cup hidden
        PROVE  x \in ToSet(read[g]) <=> x \in ToSet(registry[g]) /\ x.kind # "other"
    <3>1. Opened(g) /\ x.name \notin ToSet(todo)
      BY <1>1, ToSetEmpty DEF Opened
    <3>2. QED
      BY <1>1, <2>1, <3>1 DEF IInv, FreshInv
  <2>2. QED
    BY <2>1, <1>2 DEF FreshInv
<1>8. ListInv' /\ ComposedInv'
  BY <1>1, <1>2 DEF ListInv, ComposedInv
<1>9. QED
  BY <1>2, <1>5, <1>6, <1>7, <1>8, KeysStay DEF IInv

LEMMA NextSessionInv ==
  ASSUME IInv, NextSession
  PROVE  IInv'
<1>1. /\ pc = "ready" /\ pc' = "idle" /\ read' = [h \in Hives |-> <<>>] /\ env' = <<>>
      /\ disturbed' = {} /\ hidden' = {} /\ registry' = registry /\ base' = base
      /\ todo' = todo /\ writes' = writes /\ listing' = listing
  BY DEF NextSession
<1>2. pc \notin Hives /\ pc' \notin Hives
  BY <1>1 DEF Hives
<1>3. \A g \in Hives : ~Opened(g)' /\ read'[g] = <<>>
  BY <1>1 DEF Hives, Opened
<1>4. Distinct(<<>>)
  BY DEF Distinct
<1>5. TypeInv'
  <2>1. read' \in [Hives -> Seq(Entries)]
    BY <1>1, EmptySeq
  <2>2. QED
    BY <1>1, <1>4, <2>1 DEF IInv, TypeInv, Distinct
<1>6. ReadInv'
  <2>1. todo = <<>> /\ ~listing
    BY <1>2 DEF IInv, ReadInv
  <2>2. /\ \A g \in Hives : \A n : Once(read[g], n)'
        /\ \A n : Single(todo, n)'
    BY <1>1, <1>3, <2>1 DEF Once, Single
  <2>3. QED
    BY <1>1, <1>2, <1>3, <2>1, <2>2, ToSetEmpty DEF IInv, ReadInv
<1>7. ListInv' /\ FreshInv' /\ ComposedInv'
  <2>1. ~listing'
    BY <1>1, <1>2 DEF IInv, ReadInv
  <2>2. QED
    BY <1>1, <1>3, <2>1 DEF ListInv, FreshInv, ComposedInv
<1>8. QED
  BY <1>1, <1>5, <1>6, <1>7, KeysStay DEF IInv

LEMMA StutterInv ==
  ASSUME IInv, UNCHANGED vars
  PROVE  IInv'
<1>1. /\ registry' = registry /\ base' = base /\ pc' = pc /\ todo' = todo /\ read' = read
      /\ env' = env /\ disturbed' = disturbed /\ writes' = writes
      /\ listing' = listing /\ hidden' = hidden
  BY DEF vars, sessionVars
<1>2. \A g : Opened(g)' <=> Opened(g)
  BY <1>1 DEF Opened
<1>3. TypeInv' /\ ListInv' /\ ComposedInv'
  BY <1>1 DEF IInv, TypeInv, ListInv, ComposedInv, Distinct
<1>4. ReadInv'
  BY <1>1, <1>2 DEF IInv, ReadInv, Once, Single
<1>5. FreshInv'
  BY <1>1, <1>2 DEF IInv, FreshInv
<1>6. QED
  BY <1>1, <1>3, <1>4, <1>5, KeysStay DEF IInv

\* The keys, what has been read of them and the block stay in step with each
\* other, whatever an installer changes in between.
THEOREM Inductive == Spec => []IInv
<1>1. Init => IInv
  BY InitInv
<1>2. IInv /\ [Next]_vars => IInv'
  <2> SUFFICES ASSUME IInv, [Next]_vars PROVE IInv'
    OBVIOUS
  <2>1. CASE Begin
    BY <2>1, BeginInv
  <2>2. CASE ThenUser
    BY <2>2, ThenUserInv
  <2>3. CASE ReadValue
    BY <2>3, ReadValueInv
  <2>4. CASE SkipValue
    BY <2>4, SkipValueInv
  <2>5. CASE Compose
    BY <2>5, ComposeInv
  <2>6. CASE NextSession
    BY <2>6, NextSessionInv
  <2>7. CASE Installer
    BY <2>7, InstallerInv
  <2>8. CASE UNCHANGED vars
    BY <2>8, StutterInv
  <2>9. CASE EnumValue
    BY <2>9, EnumValueInv
  <2>10. CASE EndList
    BY <2>10, EndListInv
  <2>11. QED
    BY <2>1, <2>2, <2>3, <2>4, <2>5, <2>6, <2>7, <2>8, <2>9, <2>10 DEF Next
<1>3. QED
  BY <1>1, <1>2, PTL DEF Spec

\* The types hold in every state, and a session's block has one entry of a
\* name whatever the keys and the inherited block hold twice (sessionEnv,
\* composeEnv, replaceEnv).
THEOREM TypeCorrect == Spec => []TypeOK
<1>1. ASSUME IInv PROVE TypeOK
  <2>1. ASSUME NEW h \in Hives
        PROVE  /\ registry[h] \in BoundedSeq(Entries, MaxEntries + MaxWrites)
               /\ Distinct(registry[h])
               /\ ToSet(read[h]) \subseteq Entries
    <3>1. /\ registry[h] \in Seq(Entries) /\ read[h] \in Seq(Entries)
          /\ Distinct(registry[h]) /\ writes \in 0 .. MaxWrites
          /\ Len(registry[h]) <= MaxEntries + writes
      BY <1>1 DEF IInv, TypeInv, KeysInv
    <3>2. Len(registry[h]) \in 0 .. MaxEntries + MaxWrites
      BY <3>1, Bounds
    <3>3. registry[h] \in [1 .. Len(registry[h]) -> Entries]
      BY <3>1
    <3>4. registry[h] \in BoundedSeq(Entries, MaxEntries + MaxWrites)
      BY <3>2, <3>3 DEF BoundedSeq, SeqOf
    <3>5. ToSet(read[h]) \subseteq Entries
      BY <3>1, ToSetAt
    <3>6. QED
      BY <3>1, <3>4, <3>5
  <2>2. ToSet(todo) \subseteq AllNames
    <3>1. todo \in Seq(AllNames)
      BY <1>1 DEF IInv, TypeInv
    <3>2. QED
      BY <3>1, ToSetAt
  <2>3. QED
    BY <1>1, <2>1, <2>2 DEF IInv, TypeInv, TypeOK
<1>2. QED
  BY <1>1, Inductive, PTL
-----------------------------------------------------------------------------
(* The session's block against the registry. *)

\* A name neither disturbed nor hidden has been read exactly if it is readable
\* now, and what has been read is what its key holds.
LEMMA FreshName ==
  ASSUME IInv, pc = "ready", NEW h \in Hives, NEW name, name \notin disturbed \cup hidden
  PROVE  /\ Readable(h, name) <=> name \in NamesOf(read[h])
         /\ Readable(h, name) =>
              \E e \in ToSet(read[h]) :
                e.name = name /\ ValueOf(registry[h], name) = e.value
                  /\ name \in NamesOf(registry[h])
<1>1. registry[h] \in Seq(Entries) /\ read[h] \in Seq(Entries) /\ Distinct(registry[h])
  BY DEF IInv, TypeInv, KeysInv
<1>2. \A x \in ToSet(registry[h]) \cup ToSet(read[h]) : x \in Entries
  BY <1>1, ToSetAt
<1>3. \A x \in Entries : x.name = name =>
        (x \in ToSet(read[h]) <=> x \in ToSet(registry[h]) /\ x.kind # "other")
  <2>1. Opened(h) /\ pc # h
    BY DEF Opened, Hives
  <2>2. QED
    BY <2>1 DEF IInv, FreshInv
<1>4. Readable(h, name) <=> name \in NamesOf(read[h])
  BY <1>2, <1>3 DEF Readable, NamesOf
<1>5. ASSUME Readable(h, name)
      PROVE  \E e \in ToSet(read[h]) :
               e.name = name /\ ValueOf(registry[h], name) = e.value
                 /\ name \in NamesOf(registry[h])
  <2>1. PICK e \in ToSet(registry[h]) : e.name = name /\ e.kind # "other"
    BY <1>5 DEF Readable
  <2>2. e \in ToSet(read[h])
    BY <2>1, <1>2, <1>3
  <2>3. PICK i \in 1 .. Len(registry[h]) : registry[h][i] = e
    BY <1>1, ToSetAt
  <2>4. ValueOf(registry[h], name) = e.value
    BY <1>1, <2>1, <2>3, DistinctValue
  <2>5. name \in NamesOf(registry[h])
    BY <2>1 DEF NamesOf
  <2>6. QED
    BY <2>1, <2>2, <2>4, <2>5
<1>6. QED
  BY <1>4, <1>5

\* The session's block in terms of what has been read.
LEMMA ReadyBlock ==
  ASSUME IInv, pc = "ready"
  PROVE  \E ml, ul, below, c \in Seq(EnvEntries) :
           /\ Keeps(read["machine"], ml)
           /\ Keeps(read["user"], ul)
           /\ NamesOf(below) = NamesOf(base) \cup NamesOf(read["machine"])
           /\ \A n \in NamesOf(read["machine"]) : ValueOf(below, n) = ValueOf(ml, n)
           /\ \A n \in NamesOf(base) \ NamesOf(read["machine"]) :
                ValueOf(below, n) = ValueOf(base, n)
           /\ IsOverlay(c, below, ul, "user")
           /\ \A n : n # "TERM" => (n \in NamesOf(env) <=> n \in NamesOf(c))
           /\ \A n \in NamesOf(c) : n # "TERM" => ValueOf(env, n) = ValueOf(c, n)
<1> DEFINE c == Composed(base, read["machine"], read["user"])
<1>1. "machine" \in Hives /\ "user" \in Hives
  BY DEF Hives
<1>2. /\ base \in Seq(EnvEntries) /\ read["machine"] \in Seq(EnvValues)
      /\ read["user"] \in Seq(EnvValues)
  BY <1>1, ReadIsValues
<1>3. PICK ml, ul, below \in Seq(EnvEntries) :
        /\ Keeps(read["machine"], ml)
        /\ Keeps(read["user"], ul)
        /\ Distinct(below)
        /\ NamesOf(below) = NamesOf(base) \cup NamesOf(read["machine"])
        /\ \A n \in NamesOf(read["machine"]) : ValueOf(below, n) = ValueOf(ml, n)
        /\ \A n \in NamesOf(base) \ NamesOf(read["machine"]) :
             ValueOf(below, n) = ValueOf(base, n)
        /\ IsOverlay(c, below, ul, "user")
  BY <1>2, ComposedIs
<1>4. c \in Seq(EnvEntries) /\ Distinct(c)
  BY <1>3 DEF IsOverlay
<1>5. env \in Requested(c)
  BY DEF IInv, ComposedInv
<1> HIDE DEF c
<1>6. /\ \A n : n # "TERM" => (n \in NamesOf(env) <=> n \in NamesOf(c))
      /\ \A n \in NamesOf(c) : n # "TERM" => ValueOf(env, n) = ValueOf(c, n)
  BY <1>4, <1>5, RequestedIs
<1>7. QED
  BY <1>3, <1>4, <1>6

\* An environment that is ready shows what the machine has now, for every name
\* that nobody changed since its key was opened: though an installer changed
\* others between readEnvKey's calls, and though values were not readable.  Of
\* the names that nobody changed, a deletion during the listing hides one.
THEOREM Current == Spec => []UntouchedIsCurrent
<1>1. ASSUME IInv, pc = "ready",
             NEW name \in (AllNames \cup NamesOf(base))
                            \ (disturbed \cup hidden \cup {"PATH", "TERM"})
      PROVE  /\ Has(env, name) <=> Has(Source(name), name)
             /\ Has(env, name) /\ ~Contains(ValueOf(Source(name), name), "%")
                  => ValueOf(env, name) = ValueOf(Source(name), name)
  <2>1. "machine" \in Hives /\ "user" \in Hives
    BY DEF Hives
  <2>2. name \notin disturbed \cup hidden /\ name # "PATH" /\ name # "TERM"
    OBVIOUS
  <2>3. /\ read["machine"] \in Seq(EnvValues) /\ read["user"] \in Seq(EnvValues)
        /\ Once(read["machine"], name) /\ Once(read["user"], name)
    BY <1>1, <2>1, <2>2, ReadIsValues DEF IInv, ReadInv
  <2>4. PICK ml, ul, below, c \in Seq(EnvEntries) :
          /\ Keeps(read["machine"], ml)
          /\ Keeps(read["user"], ul)
          /\ NamesOf(below) = NamesOf(base) \cup NamesOf(read["machine"])
          /\ \A n \in NamesOf(read["machine"]) : ValueOf(below, n) = ValueOf(ml, n)
          /\ \A n \in NamesOf(base) \ NamesOf(read["machine"]) :
               ValueOf(below, n) = ValueOf(base, n)
          /\ IsOverlay(c, below, ul, "user")
          /\ \A n : n # "TERM" => (n \in NamesOf(env) <=> n \in NamesOf(c))
          /\ \A n \in NamesOf(c) : n # "TERM" => ValueOf(env, n) = ValueOf(c, n)
    BY <1>1, ReadyBlock
  <2>5. NamesOf(ul) = NamesOf(read["user"]) /\ NamesOf(ml) = NamesOf(read["machine"])
    BY <2>3, <2>4, KeepsValues
  <2>6. /\ \A e \in ToSet(read["user"]) :
             e.name = name /\ ~Contains(e.value, "%") => ValueOf(ul, e.name) = e.value
        /\ \A e \in ToSet(read["machine"]) :
             e.name = name /\ ~Contains(e.value, "%") => ValueOf(ml, e.name) = e.value
    BY <2>3, <2>4, KeepsValues
  <2>7. /\ NamesOf(c) = NamesOf(below) \cup NamesOf(ul)
        /\ name \in NamesOf(below) \ NamesOf(ul) => ValueOf(c, name) = ValueOf(below, name)
        /\ name \in NamesOf(ul) => ValueOf(c, name) = ValueOf(ul, name)
    BY <2>2, <2>4 DEF IsOverlay, Layered
  <2>8. /\ name \in NamesOf(env) <=> name \in NamesOf(c)
        /\ name \in NamesOf(c) => ValueOf(env, name) = ValueOf(c, name)
    BY <2>2, <2>4
  <2>9. /\ Readable("user", name) <=> name \in NamesOf(read["user"])
        /\ Readable("machine", name) <=> name \in NamesOf(read["machine"])
    BY <1>1, <2>1, <2>2, FreshName
  <2>10. CASE Readable("user", name)
    <3>1. Source(name) = registry["user"]
      BY <2>10 DEF Source
    <3>2. PICK e \in ToSet(read["user"]) :
            e.name = name /\ ValueOf(registry["user"], name) = e.value
              /\ name \in NamesOf(registry["user"])
      BY <1>1, <2>1, <2>2, <2>10, FreshName
    <3>3. name \in NamesOf(c) /\ ValueOf(c, name) = ValueOf(ul, name)
      BY <2>5, <2>7, <2>9, <2>10
    <3>4. QED
      BY <2>6, <2>8, <3>1, <3>2, <3>3 DEF Has
  <2>11. CASE ~Readable("user", name) /\ Readable("machine", name)
    <3>1. Source(name) = registry["machine"]
      BY <2>11 DEF Source
    <3>2. PICK e \in ToSet(read["machine"]) :
            e.name = name /\ ValueOf(registry["machine"], name) = e.value
              /\ name \in NamesOf(registry["machine"])
      BY <1>1, <2>1, <2>2, <2>11, FreshName
    <3>3. name \in NamesOf(c) /\ ValueOf(c, name) = ValueOf(ml, name)
      BY <2>4, <2>5, <2>7, <2>9, <2>11
    <3>4. QED
      BY <2>6, <2>8, <3>1, <3>2, <3>3 DEF Has
  <2>12. CASE ~Readable("user", name) /\ ~Readable("machine", name)
    <3>1. Source(name) = base
      BY <2>12 DEF Source
    <3>2. name \in NamesOf(c) <=> name \in NamesOf(base)
      BY <2>4, <2>5, <2>7, <2>9, <2>12
    <3>3. name \in NamesOf(base) => ValueOf(c, name) = ValueOf(base, name)
      BY <2>4, <2>5, <2>7, <2>9, <2>12
    <3>4. QED
      BY <2>8, <3>1, <3>2, <3>3 DEF Has
  <2>13. QED
    BY <2>10, <2>11, <2>12
<1>2. IInv => UntouchedIsCurrent
  BY <1>1 DEF UntouchedIsCurrent
<1>3. QED
  BY <1>2, Inductive, PTL

\* The directories of a key's PATH, if it is a plain value.
PlainDirs(t) ==
  UNION {ToSet(Parts(v.value)) \ {<<>>} :
           v \in {e \in ToSet(t) : e.name = "PATH" /\ e.kind = "plain"}}

LEMMA PlainDirsAre ==
  ASSUME NEW t \in Seq(EnvValues), Once(t, "PATH"), NEW r, Keeps(t, r)
  PROVE  \/ PlainDirs(t) = {}
         \/ /\ "PATH" \in NamesOf(t)
            /\ PlainDirs(t) = ToSet(Parts(ValueOf(r, "PATH"))) \ {<<>>}
<1> DEFINE S == {e \in ToSet(t) : e.name = "PATH" /\ e.kind = "plain"}
<1>1. CASE S = {}
  BY <1>1 DEF PlainDirs
<1>2. CASE S # {}
  <2>1. PICK e \in S : TRUE
    BY <1>2
  <2>2. \A x \in S : x = e
    <3>1. \A i, j \in 1 .. Len(t) : t[i].name = "PATH" /\ t[j].name = "PATH" => i = j
      BY OnceAt
    <3>2. QED
      BY <2>1, <3>1, ToSetAt
  <2>3. S = {e}
    BY <2>1, <2>2
  <2>4. ValueOf(r, "PATH") = e.value /\ "PATH" \in NamesOf(t)
    <3>1. e \in ToSet(t) /\ e.name = "PATH" /\ e.kind # "expand"
      BY <2>1
    <3>2. ValueOf(r, e.name) = e.value
      BY <3>1, KeepsValues
    <3>3. QED
      BY <3>1, <3>2 DEF NamesOf
  <2>5. PlainDirs(t) = UNION {ToSet(Parts(v.value)) \ {<<>>} : v \in S}
    BY DEF PlainDirs
  <2> HIDE DEF S
  <2>6. QED
    BY <2>3, <2>4, <2>5
<1>3. QED
  BY <1>1, <1>2

\* mergePath on a session's environment: with a PATH of the user's, the
\* directories of both keys are in the session's PATH, once, the machine's
\* first, and none of its entries is empty.
THEOREM PathClean == Spec => []PathIsClean
<1>1. ASSUME IInv, pc = "ready", Has(read["user"], "PATH"),
             \A h \in Hives : Once(read[h], "PATH")
      PROVE  CleanPath(Parts(ValueOf(env, "PATH")),
                       PlainDirs(read["machine"]), PlainDirs(read["user"]))
  <2>1. "machine" \in Hives /\ "user" \in Hives
    BY DEF Hives
  <2>2. /\ read["machine"] \in Seq(EnvValues) /\ read["user"] \in Seq(EnvValues)
        /\ Once(read["machine"], "PATH") /\ Once(read["user"], "PATH")
    BY <1>1, <2>1, ReadIsValues
  <2>3. PICK ml, ul, below, c \in Seq(EnvEntries) :
          /\ Keeps(read["machine"], ml)
          /\ Keeps(read["user"], ul)
          /\ NamesOf(below) = NamesOf(base) \cup NamesOf(read["machine"])
          /\ \A n \in NamesOf(read["machine"]) : ValueOf(below, n) = ValueOf(ml, n)
          /\ IsOverlay(c, below, ul, "user")
          /\ \A n \in NamesOf(c) : n # "TERM" => ValueOf(env, n) = ValueOf(c, n)
    BY <1>1, ReadyBlock
  <2>4. NamesOf(ul) = NamesOf(read["user"]) /\ Once(ul, "PATH") /\ "PATH" \in NamesOf(ul)
    BY <1>1, <2>2, <2>3, KeepsValues DEF Has
  <2> DEFINE m == PathOf(below)
             u == ValueOf(ul, "PATH")
             path == Parts(MergePath(m, u))
  <2>5. ValueOf(env, "PATH") = MergePath(m, u)
    BY <2>3, <2>4 DEF IsOverlay, Layered
  <2>6. m \in Values /\ u \in Values
    <3>1. u = PathOf(ul)
      BY <2>4 DEF PathOf, Has
    <3>2. QED
      BY <3>1, PathOfType
  <2> HIDE DEF m, u
  <2>7. MergePath(m, u) \in Values
        /\ CleanPath(path, ToSet(Parts(m)) \ {<<>>}, ToSet(Parts(u)) \ {<<>>})
    BY <2>6, MergePathIsClean
  <2>8. path \in Seq(Dirs)
    BY <2>7, PartsType
  <2> HIDE DEF path
  <2>9. PlainDirs(read["user"]) \subseteq ToSet(path)
    <3>1. PlainDirs(read["user"]) = {} \/ PlainDirs(read["user"]) = ToSet(Parts(u)) \ {<<>>}
      BY <2>2, <2>3, PlainDirsAre DEF u
    <3>2. QED
      BY <3>1, <2>7 DEF CleanPath
  <2>10. LET first == PlainDirs(read["machine"])
         IN ToSet(SubSeq(path, 1, Cardinality(first))) = first
    <3>1. CASE PlainDirs(read["machine"]) = {}
      <4>1. SubSeq(path, 1, 0) = <<>>
        BY <2>8
      <4>2. Cardinality(PlainDirs(read["machine"])) = 0
        BY <3>1, FS_EmptySet
      <4>3. QED
        BY <3>1, <4>1, <4>2, ToSetEmpty
    <3>2. CASE PlainDirs(read["machine"]) # {}
      <4>1. "PATH" \in NamesOf(read["machine"])
            /\ PlainDirs(read["machine"]) = ToSet(Parts(ValueOf(ml, "PATH"))) \ {<<>>}
        BY <2>2, <2>3, <3>2, PlainDirsAre
      <4>2. m = ValueOf(ml, "PATH")
        BY <2>3, <4>1 DEF m, PathOf, Has
      <4>3. QED
        BY <4>1, <4>2, <2>7 DEF CleanPath
    <3>3. QED
      BY <3>1, <3>2
  <2>11. CleanPath(path, PlainDirs(read["machine"]), PlainDirs(read["user"]))
    BY <2>7, <2>9, <2>10 DEF CleanPath
  <2>12. QED
    BY <2>5, <2>11 DEF path
<1>2. IInv => PathIsClean
  <2> SUFFICES ASSUME IInv, pc = "ready", Has(read["user"], "PATH"),
                      \A h \in Hives : Once(read[h], "PATH")
               PROVE  PathIsClean
    BY DEF PathIsClean
  <2>1. CleanPath(Parts(ValueOf(env, "PATH")),
                  PlainDirs(read["machine"]), PlainDirs(read["user"]))
    BY <1>1
  <2>2. QED
    BY <2>1 DEF PathIsClean, CleanPath, PlainDirs
<1>3. QED
  BY <1>2, Inductive, PTL
-----------------------------------------------------------------------------
(* The order in which a key lists its values. *)

\* No expandable value of V names another one.
Untangled(V) ==
  \A v, w \in V : ~(v # w /\ v.kind = "expand" /\ w.kind = "expand" /\ RefersTo(v, w.name))

LEMMA Refers ==
  ASSUME NEW v, v.value \in Values, NEW i \in 1 .. Len(v.value) - 2,
         v.value[i] = "%", v.value[i + 2] = "%"
  PROVE  RefersTo(v, v.value[i + 1])
<1> DEFINE s == v.value
           q == SubSeq(s, i, i + 2)
<1>1. Len(s) \in Nat /\ s \in Seq(Words)
  BY DEF Values
<1> HIDE DEF s
<1>2. i \in 1 .. Len(s) - 2 /\ s[i] = "%" /\ s[i + 2] = "%"
  BY DEF s
<1>3. q \in Seq(Words) /\ Len(q) = 3 /\ q[1] = s[i] /\ q[2] = s[i + 1] /\ q[3] = s[i + 2]
  BY <1>1, <1>2
<1>4. q = <<s[i], s[i + 1], s[i + 2]>>
  <2> DEFINE z == <<s[i], s[i + 1], s[i + 2]>>
  <2>1. s[i] \in Words /\ s[i + 1] \in Words /\ s[i + 2] \in Words
    BY <1>1, <1>2
  <2>2. z \in Seq(Words) /\ Len(z) = 3 /\ z[1] = s[i] /\ z[2] = s[i + 1] /\ z[3] = s[i + 2]
    BY <2>1
  <2> HIDE DEF z, q
  <2>3. Len(q) = Len(z) /\ \A j \in 1 .. Len(q) : q[j] = z[j]
    <3>1. \A j \in 1 .. 3 : j = 1 \/ j = 2 \/ j = 3
      OBVIOUS
    <3>2. QED
      BY <1>3, <2>2, <3>1
  <2>4. q = z
    BY <1>3, <2>2, <2>3, SeqEqual
  <2>5. QED
    BY <2>4 DEF z
<1>5. QED
  BY <1>2, <1>4 DEF RefersTo, s

\* A name that a value refers to is not yet expanded, or a plain value.
LEMMA KnownIsSeeded ==
  ASSUME NEW V, V \subseteq EnvValues, Untangled(V), \A w \in V : w.kind # "other",
         NEW l, \A w \in V : w.kind = "plain" => w.name \in DOMAIN l /\ l[w.name] = w.value,
         NEW R, SameNameSame(R), NEW v \in V, v.kind = "expand",
         \A e \in R : \E w \in V :
           w # v /\ e.name = w.name /\ (w.kind = "plain" => e.value = w.value)
  PROVE  Expanded(v, SetAll(l, R)) = Expanded(v, l)
<1> DEFINE k == SetAll(l, R)
<1>1. v.value \in Values
  BY DEF EnvValues
<1>2. /\ DOMAIN k = DOMAIN l \cup {e.name : e \in R}
      /\ \A e \in R : k[e.name] = e.value
      /\ \A n \in DOMAIN l : (\A e \in R : e.name # n) => k[n] = l[n]
  BY SetAllAt
<1> HIDE DEF k
<1>3. ASSUME NEW i \in 1 .. Len(v.value) - 2, v.value[i] = "%", v.value[i + 2] = "%"
      PROVE  AgreeAt(k, l, v.value[i + 1])
  <2> DEFINE n == v.value[i + 1]
  <2>1. RefersTo(v, n)
    BY <1>1, <1>3, Refers
  <2> HIDE DEF n
  <2>2. CASE \E e \in R : e.name = n
    <3>1. PICK e \in R : e.name = n
      BY <2>2
    <3>2. PICK w \in V : w # v /\ e.name = w.name /\ (w.kind = "plain" => e.value = w.value)
      OBVIOUS
    <3>3. w.kind # "expand"
      BY <2>1, <3>1, <3>2 DEF Untangled
    <3>4. w.kind = "plain"
      <4>1. w.kind \in Kinds /\ w.kind # "other"
        BY DEF EnvValues
      <4>2. QED
        BY <3>3, <4>1 DEF Kinds
    <3>5. n \in DOMAIN l /\ l[n] = w.value
      BY <3>1, <3>2, <3>4
    <3>6. n \in DOMAIN k /\ k[n] = w.value
      BY <1>2, <3>1, <3>2, <3>4
    <3>7. QED
      BY <3>5, <3>6 DEF AgreeAt, n
  <2>3. CASE ~\E e \in R : e.name = n
    <3>1. n \in DOMAIN k <=> n \in DOMAIN l
      BY <1>2, <2>3
    <3>2. n \in DOMAIN l => k[n] = l[n]
      BY <1>2, <2>3
    <3>3. QED
      BY <3>1, <3>2 DEF AgreeAt, n
  <2>4. QED
    BY <2>2, <2>3
<1>4. ExpandPercent(v.value, k) = ExpandPercent(v.value, l)
  BY <1>1, <1>3, ExpandPercentSame
<1>5. QED
  BY <1>4 DEF Expanded, k

\* The entries r are the values t, each expanded by the same lookup.
AllBy(r, t, l) ==
  /\ r \in Seq(EnvEntries)
  /\ Len(r) = Len(t)
  /\ \A i \in 1 .. Len(t) : r[i] = Entry(t[i].name, Expanded(t[i], l))

LEMMA ExpansionIs ==
  ASSUME NEW V, V \subseteq EnvValues, SameNameSame(V), Untangled(V),
         \A w \in V : w.kind # "other",
         NEW l, IsLookup(l),
         \A w \in V : w.kind = "plain" => w.name \in DOMAIN l /\ l[w.name] = w.value,
         NEW values \in Seq(EnvValues), Distinct(values), ToSet(values) \subseteq V
  PROVE  AllBy(Expansion(values, l), values, l)
<1> DEFINE T == {t \in Seq(EnvValues) : Distinct(t) /\ ToSet(t) \subseteq V
                                          => AllBy(Expansion(t, l), t, l)}
<1>1. <<>> \in T
  <2>1. Expansion(<<>>, l) = <<>>
    BY ExpansionEmpty
  <2>2. AllBy(<<>>, <<>>, l)
    BY DEF AllBy
  <2>3. QED
    BY <2>1, <2>2, EmptySeq
<1>2. ASSUME NEW t \in Seq(EnvValues), NEW v \in EnvValues, t \in T
      PROVE  Append(t, v) \in T
  <2> DEFINE w == Append(t, v)
             r == Expansion(t, l)
             q == Expansion(w, l)
  <2>1. w \in Seq(EnvValues) /\ Len(t) \in Nat /\ Len(w) = Len(t) + 1 /\ w[Len(t) + 1] = v
        /\ \A i \in 1 .. Len(t) : w[i] = t[i]
    OBVIOUS
  <2>2. SUFFICES ASSUME Distinct(w), ToSet(w) \subseteq V PROVE AllBy(q, w, l)
    BY <2>1
  <2>3. Distinct(t) /\ v.name \notin NamesOf(t)
    BY <2>2, AppendNames
  <2>4. ToSet(t) \subseteq V /\ v \in V
    BY <2>2, ToSetAppend
  <2>5. AllBy(r, t, l)
    BY <1>2, <2>3, <2>4
  <2> DEFINE known == SetAll(l, Latest(r, DOMAIN r))
  <2>6. q = Append(r, Entry(v.name, Expanded(v, known)))
    BY ExpansionAppend DEF Expand
  <2>7. Keeps(w, q)
    BY <2>1, ExpansionKeeps
  <2> HIDE DEF w, q, r, known
  <2>8. /\ r \in Seq(EnvEntries) /\ Len(r) = Len(t)
        /\ \A i \in 1 .. Len(t) : r[i] = Entry(t[i].name, Expanded(t[i], l))
    BY <2>5 DEF AllBy
  <2>9. \A i \in 1 .. Len(t) : r[i].name = t[i].name /\ r[i].value = Expanded(t[i], l)
    <3>1. \A a, b : Entry(a, b).name = a /\ Entry(a, b).value = b
      BY DEF Entry
    <3>2. QED
      BY <2>8, <3>1
  <2>10. SameNameSame(ToSet(r))
    <3>1. \A i, j \in 1 .. Len(t) : t[i].name = t[j].name => i = j
      BY <2>3, DistinctAt
    <3>2. \A x : x \in ToSet(r) <=> \E i \in 1 .. Len(t) : r[i] = x
      BY <2>8, ToSetAt
    <3>3. QED
      BY <3>1, <3>2, <2>9 DEF SameNameSame
  <2>11. Expanded(v, known) = Expanded(v, l)
    <3>1. CASE v.kind # "expand"
      BY <3>1 DEF Expanded
    <3>2. CASE v.kind = "expand"
      <4>1. ASSUME NEW e \in ToSet(r)
            PROVE  \E x \in V :
                     x # v /\ e.name = x.name /\ (x.kind = "plain" => e.value = x.value)
        <5>1. PICK i \in 1 .. Len(t) : r[i] = e
          BY <2>8, ToSetAt
        <5>2. t[i] \in V
          BY <2>4, ToSetAt
        <5>3. t[i].name # v.name
          BY <2>3, NamesAt
        <5>4. t[i].kind = "plain" => e.value = t[i].value
          BY <5>1, <2>9 DEF Expanded
        <5>5. t[i] # v /\ e.name = t[i].name
          BY <5>1, <5>3, <2>9
        <5>6. QED
          BY <5>2, <5>4, <5>5
      <4>2. known = SetAll(l, ToSet(r))
        <5>1. \A i, j \in 1 .. Len(t) : t[i].name = t[j].name => i = j
          BY <2>3, DistinctAt
        <5>2. Distinct(r)
          BY <5>1, <2>8, <2>9, DistinctAt
        <5>3. QED
          BY <5>2, <2>8, LatestAll DEF known
      <4>3. QED
        BY <3>2, <4>1, <4>2, <2>4, <2>10, KnownIsSeeded
    <3>3. QED
      BY <3>1, <3>2
  <2> DEFINE x == Entry(v.name, Expanded(v, l))
  <2>12. q = Append(r, x) /\ q \in Seq(EnvEntries) /\ Len(q) = Len(w)
    BY <2>6, <2>7, <2>11 DEF Keeps
  <2> HIDE DEF x
  <2>13. q[Len(t) + 1] = x /\ \A i \in 1 .. Len(t) : q[i] = r[i]
    <3>1. x = q[Len(q)] /\ Len(r) \in Nat
      BY <2>8, <2>12, AppendProperties
    <3>2. QED
      BY <2>1, <2>8, <2>12, <3>1
  <2>14. ASSUME NEW i \in 1 .. Len(w) PROVE q[i] = Entry(w[i].name, Expanded(w[i], l))
    <3>1. CASE i = Len(t) + 1
      BY <3>1, <2>1, <2>13 DEF x
    <3>2. CASE i # Len(t) + 1
      <4>1. i \in 1 .. Len(t)
        BY <3>2, <2>1
      <4>2. QED
        BY <4>1, <2>1, <2>8, <2>13
    <3>3. QED
      BY <3>1, <3>2
  <2>15. QED
    BY <2>12, <2>14 DEF AllBy
<1>3. Seq(EnvValues) \subseteq T
  <2> HIDE DEF T
  <2>1. QED
    BY <1>1, <1>2, SeqInduction
<1>4. QED
  BY <1>3

\* Another order of the same values has the same elements, each once.
LEMMA OtherOrder ==
  ASSUME NEW t \in Seq(EnvValues), Distinct(t), NEW o \in SetToSeqs(ToSet(t))
  PROVE  o \in Seq(EnvValues) /\ Distinct(o) /\ ToSet(o) = ToSet(t)
<1> DEFINE S == ToSet(t)
           D == 1 .. Len(t)
<1>1. Len(t) \in Nat /\ \A i, j \in D : t[i].name = t[j].name => i = j
  BY DistinctAt
<1>2. IsInjective(t)
  BY <1>1 DEF IsInjective
<1>3. Cardinality(S) = Len(t)
  BY <1>2, InjectiveCardinality
<1>4. IsFiniteSet(S) /\ S \subseteq EnvValues
  <2>1. t \in Surjection(D, S)
    <3>1. t \in [D -> S] /\ \A x \in S : \E i \in D : t[i] = x
      BY <1>1 DEF ToSet
    <3>2. QED
      BY <3>1 DEF Surjection
  <2>2. IsFiniteSet(D)
    BY <1>1, FS_Interval
  <2>3. S \subseteq EnvValues
    BY ToSetAt
  <2>4. QED
    BY <2>1, <2>2, <2>3, FS_Surjection
<1>5. \A x, y \in S : x.name = y.name => x = y
  BY <1>1, ToSetAt
<1> HIDE DEF S
<1>6. o \in [D -> S] /\ \A i, j \in D : i # j => o[i] # o[j]
  BY <1>3 DEF SetToSeqs, S
<1>7. o \in Injection(D, S)
  BY <1>6 DEF Injection, IsInjective
<1>8. Cardinality(D) = Len(t)
  <2>1. Len(t) \in Nat
    OBVIOUS
  <2>2. QED
    BY <2>1, FS_Interval
<1>9. o \in Surjection(D, S)
  BY <1>3, <1>4, <1>7, <1>8, FS_Injection
<1>10. o \in Seq(S) /\ o \in Seq(EnvValues) /\ Len(o) = Len(t)
  BY <1>1, <1>4, <1>6
<1>11. ToSet(o) = S
  <2>1. \A x : x \in ToSet(o) <=> \E i \in D : o[i] = x
    BY <1>10, ToSetAt
  <2>2. \A x \in S : \E i \in D : o[i] = x
    BY <1>9 DEF Surjection
  <2>3. QED
    BY <1>6, <2>1, <2>2
<1>12. Distinct(o)
  <2>1. \A i, j \in D : o[i].name = o[j].name => i = j
    BY <1>5, <1>6
  <2>2. QED
    BY <1>10, <2>1, DistinctAt
<1>13. QED
  BY <1>10, <1>11, <1>12 DEF S

LEMMA AllBySet ==
  ASSUME NEW t \in Seq(EnvValues), NEW l, NEW r, AllBy(r, t, l)
  PROVE  ToSet(r) = {Entry(v.name, Expanded(v, l)) : v \in ToSet(t)}
<1>1. \A x : x \in ToSet(t) <=> \E i \in 1 .. Len(t) : t[i] = x
  BY ToSetAt
<1>2. /\ r \in Seq(EnvEntries) /\ Len(r) = Len(t)
      /\ \A i \in 1 .. Len(t) : r[i] = Entry(t[i].name, Expanded(t[i], l))
  BY DEF AllBy
<1>3. \A x : x \in ToSet(r) <=> \E i \in 1 .. Len(t) : r[i] = x
  BY <1>2, ToSetAt
<1>4. QED
  BY <1>1, <1>2, <1>3

\* expandLayer gives every name the same value whatever the order in which the
\* key lists its values, unless an expandable value names another one.
THEOREM OrderFree == Spec => []OrderDoesNotMatter
<1>1. ASSUME NEW t \in Seq(EnvValues), Distinct(t), Untangled(ToSet(t)),
             \A e \in ToSet(t) : e.kind # "other",
             NEW l, IsLookup(l), NEW o \in Seq(EnvValues), Distinct(o), ToSet(o) = ToSet(t)
      PROVE  ToSet(ExpandLayer(o, l))
               = {Entry(v.name, Expanded(v, SetAll(l, Seeds(t)))) : v \in ToSet(t)}
  <2> DEFINE V == ToSet(t)
             seeded == SetAll(l, Seeds(t))
  <2>1. V \subseteq EnvValues
    BY ToSetAt
  <2>2. SameNameSame(V)
    <3>1. \A i, j \in 1 .. Len(t) : t[i].name = t[j].name => i = j
      BY <1>1, DistinctAt
    <3>2. QED
      BY <3>1, ToSetAt DEF SameNameSame
  <2>3. Seeds(t) \subseteq V /\ Seeds(o) = Seeds(t)
        /\ \A w \in V : w.kind = "plain" => w \in Seeds(t)
    BY <1>1, SeedsAre
  <2> HIDE DEF V
  <2>4. SameNameSame(Seeds(t)) /\ \A e \in Seeds(t) : e.value \in Values
    BY <2>1, <2>2, <2>3 DEF SameNameSame, EnvValues
  <2>5. IsLookup(seeded)
    BY <1>1, <2>4, SetAllType
  <2>6. /\ DOMAIN seeded = DOMAIN l \cup {e.name : e \in Seeds(t)}
        /\ \A e \in Seeds(t) : seeded[e.name] = e.value
    <3> DEFINE S == Seeds(t)
    <3> HIDE DEF S
    <3>1. SameNameSame(S)
      BY <2>4 DEF S
    <3>2. /\ DOMAIN SetAll(l, S) = DOMAIN l \cup {e.name : e \in S}
          /\ \A e \in S : SetAll(l, S)[e.name] = e.value
          /\ \A n \in DOMAIN l : (\A e \in S : e.name # n) => SetAll(l, S)[n] = l[n]
      BY <3>1, SetAllAt
    <3>3. QED
      BY <3>2 DEF S
  <2> HIDE DEF seeded
  <2>7. \A w \in V : w.kind = "plain" => w.name \in DOMAIN seeded /\ seeded[w.name] = w.value
    BY <2>3, <2>6
  <2>8. ExpandLayer(o, l) = Expansion(o, seeded)
    BY <2>3, ExpandLayerIs DEF seeded
  <2>9. Untangled(V) /\ (\A w \in V : w.kind # "other") /\ ToSet(o) \subseteq V
    BY <1>1 DEF V
  <2>10. AllBy(Expansion(o, seeded), o, seeded)
    BY <1>1, <2>1, <2>2, <2>5, <2>7, <2>9, ExpansionIs
  <2>11. ToSet(Expansion(o, seeded)) = {Entry(v.name, Expanded(v, seeded)) : v \in ToSet(o)}
    BY <2>10, AllBySet
  <2>12. QED
    BY <1>1, <2>8, <2>11 DEF seeded
<1>2. ASSUME IInv, NEW h \in Hives, Distinct(read[h]), Untangled(ToSet(read[h])),
             NEW other \in SetToSeqs(ToSet(read[h]))
      PROVE  ToSet(ExpandLayer(other, NewEnvLookup(base)))
               = ToSet(ExpandLayer(read[h], NewEnvLookup(base)))
  <2> DEFINE l == NewEnvLookup(base)
  <2>1. read[h] \in Seq(EnvValues) /\ base \in Seq(EnvEntries)
    BY <1>2, ReadIsValues
  <2>2. Distinct(read[h]) /\ \A e \in ToSet(read[h]) : e.kind # "other"
    BY <1>2 DEF IInv, ReadInv
  <2>3. IsLookup(l)
    BY <2>1, NewEnvLookupType
  <2> HIDE DEF l
  <2>4. other \in Seq(EnvValues) /\ Distinct(other) /\ ToSet(other) = ToSet(read[h])
    BY <2>1, <2>2, OtherOrder
  <2>5. ToSet(ExpandLayer(other, l)) = ToSet(ExpandLayer(read[h], l))
    BY <1>1, <1>2, <2>1, <2>2, <2>3, <2>4
  <2>6. QED
    BY <2>5 DEF l
<1>3. IInv => OrderDoesNotMatter
  <2> SUFFICES ASSUME IInv PROVE OrderDoesNotMatter
    OBVIOUS
  <2>1. \A h \in Hives : Distinct(read[h]) /\ Untangled(ToSet(read[h])) =>
          \A other \in SetToSeqs(ToSet(read[h])) :
            ToSet(ExpandLayer(other, NewEnvLookup(base)))
              = ToSet(ExpandLayer(read[h], NewEnvLookup(base)))
    BY <1>2
  <2>2. QED
    BY <2>1 DEF OrderDoesNotMatter, Untangled
<1>4. QED
  BY <1>3, Inductive, PTL
-----------------------------------------------------------------------------
(* expandPercent against the count of "%". *)

LEMMA FlattenIs ==
  ASSUME NEW S, NEW c \in Seq(Seq(S))
  PROVE  \E g : /\ g[0] = <<>>
                /\ \A n \in 1 .. Len(c) : g[n] = g[n - 1] \o c[n]
                /\ \A n \in 0 .. Len(c) : g[n] \in Seq(S)
                /\ FlattenSeq(c) = g[Len(c)]
<1> DEFINE k == Len(c)
           Eq(f) == f = [i \in 1 .. k |-> IF i = 1 THEN c[i] ELSE f[i - 1] \o c[i]]
           run == CHOOSE f : Eq(f)
           G == [n \in 0 .. k |-> IF n = 0 THEN <<>> ELSE run[n]]
<1>1. k \in Nat /\ \A i \in 1 .. k : c[i] \in Seq(S)
  OBVIOUS
<1>2. FlattenSeq(c) = IF k = 0 THEN c ELSE run[k]
  BY DEF FlattenSeq
<1> HIDE DEF k
<1>3. \E f : Eq(f)
  <2>1. PICK f : IsRun(f, "flat", 0, <<>>, c, k)
    BY <1>1, LoopRuns
  <2>2. \A n \in 1 .. k : f[n] = Step("flat", 0, n, f[n - 1], c[n])
    BY <1>1, <2>1, RunAt
  <2>3. \A n \in 1 .. k : f[n] = IF n = 1 THEN c[n] ELSE f[n - 1] \o c[n]
    BY <2>2 DEF Step, Flat
  <2> DEFINE h == [i \in 1 .. k |-> f[i]]
  <2>4. \A i \in 1 .. k : h[i] = IF i = 1 THEN c[i] ELSE h[i - 1] \o c[i]
    BY <1>1, <2>3
  <2>5. h = [i \in 1 .. k |-> IF i = 1 THEN c[i] ELSE h[i - 1] \o c[i]]
    BY <2>4
  <2>6. QED
    BY <2>5
<1>4. Eq(run)
  <2> HIDE DEF Eq
  <2>1. QED
    BY <1>3
<1> HIDE DEF run
<1>5. G[0] = <<>> /\ \A n \in 1 .. k : G[n] = IF n = 1 THEN c[n] ELSE G[n - 1] \o c[n]
  <2>1. G[0] = <<>>
    <3>1. 0 \in 0 .. k
      BY <1>1
    <3>2. QED
      BY <3>1, Zenon
  <2>2. ASSUME NEW n \in 1 .. k PROVE G[n] = IF n = 1 THEN c[n] ELSE G[n - 1] \o c[n]
    <3>1. n \in 0 .. k /\ n # 0 /\ n - 1 \in 0 .. k /\ (n # 1 => n - 1 # 0)
      BY <1>1
    <3>2. G[n] = run[n] /\ (n # 1 => G[n - 1] = run[n - 1])
      BY <3>1, Zenon
    <3>3. run[n] = IF n = 1 THEN c[n] ELSE run[n - 1] \o c[n]
      <4> DEFINE B(i) == IF i = 1 THEN c[i] ELSE run[i - 1] \o c[i]
      <4>1. run = [i \in 1 .. k |-> B(i)]
        BY <1>4
      <4> HIDE DEF B
      <4>2. run[n] = B(n)
        BY <4>1
      <4>3. QED
        BY <4>2 DEF B
    <3> HIDE DEF G
    <3>4. QED
      BY <3>2, <3>3, Zenon
  <2>3. QED
    BY <2>1, <2>2, Zenon
<1> HIDE DEF G
<1>6. ASSUME NEW n \in 1 .. k PROVE G[n] = G[n - 1] \o c[n]
  <2>1. CASE n = 1
    <3>1. <<>> \o c[n] = c[n]
      BY <1>1
    <3>2. n - 1 = 0
      BY <2>1
    <3>3. G[n] = c[n] /\ G[n - 1] = <<>>
      BY <1>5, <2>1, <3>2, Zenon
    <3>4. QED
      BY <3>1, <3>3, Zenon
  <2>2. CASE n # 1
    BY <1>5, <2>2, Zenon
  <2>3. QED
    BY <2>1, <2>2
<1>7. 0 .. k \subseteq {n \in 0 .. k : G[n] \in Seq(S)}
  <2> DEFINE T == {n \in 0 .. k : G[n] \in Seq(S)}
  <2>1. 0 \in T
    <3>1. 0 \in 0 .. k
      BY <1>1
    <3>2. <<>> \in Seq(S)
      BY EmptySeq
    <3>3. QED
      BY <3>1, <3>2, <1>5, Zenon
  <2>2. ASSUME NEW n \in 1 .. k, n - 1 \in T PROVE n \in T
    <3>0. n \in 0 .. k
      BY <1>1
    <3>1. G[n - 1] \in Seq(S) /\ c[n] \in Seq(S)
      BY <2>2, <1>1
    <3>2. G[n - 1] \o c[n] \in Seq(S)
      BY <3>1
    <3>3. QED
      BY <3>0, <3>2, <1>6, Zenon
  <2> HIDE DEF T
  <2>3. 0 .. k \subseteq T
    BY <1>1, <2>1, <2>2, Upwards
  <2>4. QED
    BY <2>3 DEF T
<1>8. FlattenSeq(c) = G[k]
  <2>1. CASE k = 0
    <3>1. c = <<>>
      BY <2>1, EmptySeq DEF k
    <3>2. QED
      BY <2>1, <3>1, <1>2, <1>5
  <2>2. CASE k # 0
    BY <2>2, <1>1, <1>2 DEF G
  <2>3. QED
    BY <2>1, <2>2
<1>9. QED
  BY <1>5, <1>6, <1>7, <1>8 DEF k

Percents(s, k) == Cardinality({j \in 1 .. k : s[j] = "%"})
Paired(s) == 2 * (Percents(s, Len(s)) \div 2)

LEMMA PercentsCount ==
  ASSUME NEW s \in Values
  PROVE  /\ Percents(s, 0) = 0
         /\ \A k \in 0 .. Len(s) : Percents(s, k) \in Nat
         /\ \A k \in 1 .. Len(s) :
              Percents(s, k) = IF s[k] = "%" THEN Percents(s, k - 1) + 1 ELSE Percents(s, k - 1)
<1> DEFINE P(k) == {j \in 1 .. k : s[j] = "%"}
<1>1. Len(s) \in Nat
  BY DEF Values
<1>2. ASSUME NEW k \in Nat PROVE IsFiniteSet(P(k))
  <2>1. IsFiniteSet(1 .. k) /\ P(k) \subseteq 1 .. k
    BY FS_Interval
  <2>2. QED
    BY <2>1, FS_Subset
<1>3. P(0) = {}
  OBVIOUS
<1>4. ASSUME NEW k \in Nat \ {0}
      PROVE  P(k) = IF s[k] = "%" THEN P(k - 1) \cup {k} ELSE P(k - 1)
  OBVIOUS
<1>5. \A k \in Nat : Percents(s, k) = Cardinality(P(k)) /\ k \notin P(k - 1)
  BY DEF Percents
<1> HIDE DEF P
<1>6. Percents(s, 0) = 0
  BY <1>3, <1>5, FS_EmptySet
<1>7. ASSUME NEW k \in 0 .. Len(s) PROVE Percents(s, k) \in Nat
  BY <1>1, <1>2, <1>5, FS_CardinalityType
<1>8. ASSUME NEW k \in 1 .. Len(s)
      PROVE  Percents(s, k) = IF s[k] = "%" THEN Percents(s, k - 1) + 1 ELSE Percents(s, k - 1)
  <2>1. k \in Nat /\ k \in Nat \ {0} /\ k - 1 \in Nat
    BY <1>1
  <2>2. IsFiniteSet(P(k - 1)) /\ k \notin P(k - 1)
    BY <1>2, <1>5, <2>1
  <2>3. Cardinality(P(k - 1) \cup {k}) = Cardinality(P(k - 1)) + 1
    BY <2>2, FS_AddElement
  <2>4. P(k) = IF s[k] = "%" THEN P(k - 1) \cup {k} ELSE P(k - 1)
    BY <1>4, <2>1
  <2>5. Percents(s, k) = Cardinality(P(k)) /\ Percents(s, k - 1) = Cardinality(P(k - 1))
    BY <1>5, <2>1
  <2>6. QED
    BY <2>3, <2>4, <2>5
<1>9. QED
  BY <1>6, <1>7, <1>8

LEMMA PercentsGrow ==
  ASSUME NEW s \in Values, NEW i \in 0 .. Len(s), NEW j \in i .. Len(s)
  PROVE  /\ Percents(s, i) <= Percents(s, j)
         /\ (\A m \in i + 1 .. j : s[m] # "%") => Percents(s, j) = Percents(s, i)
<1> DEFINE n == Len(s) - i
           T == {d \in 0 .. n :
                   /\ Percents(s, i) <= Percents(s, i + d)
                   /\ (\A m \in i + 1 .. i + d : s[m] # "%")
                        => Percents(s, i + d) = Percents(s, i)}
<1>1. Len(s) \in Nat
  BY DEF Values
<1>2. /\ \A k \in 0 .. Len(s) : Percents(s, k) \in Nat
      /\ \A k \in 1 .. Len(s) :
           Percents(s, k) = IF s[k] = "%" THEN Percents(s, k - 1) + 1 ELSE Percents(s, k - 1)
  BY PercentsCount
<1>3. n \in Nat /\ \A d \in 0 .. n : i + d \in 0 .. Len(s)
  BY <1>1
<1>4. 0 \in T
  BY <1>1, <1>2
<1>5. ASSUME NEW d \in 1 .. n, d - 1 \in T PROVE d \in T
  <2>1. i + d \in 1 .. Len(s) /\ (i + d) - 1 = i + (d - 1) /\ i + (d - 1) \in 0 .. Len(s)
        /\ i + d \in i + 1 .. i + d /\ d \in 0 .. n
        /\ \A m \in i + 1 .. i + (d - 1) : m \in i + 1 .. i + d
    BY <1>1
  <2>2. /\ Percents(s, i) <= Percents(s, i + (d - 1))
        /\ (\A m \in i + 1 .. i + (d - 1) : s[m] # "%")
             => Percents(s, i + (d - 1)) = Percents(s, i)
    BY <1>5
  <2>3. Percents(s, i + d) = IF s[i + d] = "%" THEN Percents(s, i + (d - 1)) + 1
                             ELSE Percents(s, i + (d - 1))
    BY <1>2, <2>1
  <2>4. Percents(s, i) \in Nat /\ Percents(s, i + (d - 1)) \in Nat
    BY <1>2, <2>1
  <2>5. Percents(s, i) <= Percents(s, i + d)
    BY <2>2, <2>3, <2>4
  <2>6. (\A m \in i + 1 .. i + d : s[m] # "%") => Percents(s, i + d) = Percents(s, i)
    BY <2>1, <2>2, <2>3
  <2>7. QED
    BY <2>1, <2>5, <2>6
<1>6. 0 .. n \subseteq T
  <2> HIDE DEF T, n
  <2>1. QED
    BY <1>3, <1>4, <1>5, Upwards
<1>7. j - i \in 0 .. n /\ i + (j - i) = j
  BY <1>1
<1>8. j - i \in T
  <2> HIDE DEF T, n
  <2>1. QED
    BY <1>6, <1>7
<1>9. QED
  BY <1>7, <1>8

\* Contribution, with its parts named.
Inside(s, i) == Percents(s, i) % 2 = 1 /\ Percents(s, i) < Paired(s)

CloseOf(s, i) == CHOOSE j \in i + 1 .. Len(s) : s[j] = "%" /\ Percents(s, j) = Percents(s, i) + 1

LEMMA ContributionIs ==
  ASSUME NEW s, NEW i
  PROVE  Contribution(s, i) =
           IF Inside(s, i) /\ s[i] = "%"
           THEN Resolved(SubSeq(s, i, CloseOf(s, i)), NewEnvLookup(base))
           ELSE IF Inside(s, i) \/ (s[i] = "%" /\ Percents(s, i) <= Paired(s)) THEN <<>>
           ELSE <<s[i]>>
BY Zenon DEF Contribution, Inside, CloseOf, Percents, Paired

\* Outside of a pair a position stands for itself.
LEMMA OutsideIs ==
  ASSUME NEW s \in Values, NEW i \in 1 .. Len(s), ~Inside(s, i),
         s[i] # "%" \/ Percents(s, i) > Paired(s)
  PROVE  Contribution(s, i) = <<s[i]>>
<1>1. Percents(s, i) \in Nat /\ Percents(s, Len(s)) \in Nat
  <2>1. i \in 0 .. Len(s) /\ Len(s) \in 0 .. Len(s)
    BY DEF Values
  <2>2. QED
    BY <2>1, PercentsCount
<1>2. Paired(s) \in Nat
  BY <1>1 DEF Paired
<1>3. ~(s[i] = "%" /\ Percents(s, i) <= Paired(s))
  BY <1>1, <1>2
<1>4. QED
  BY <1>3, ContributionIs, Zenon

LEMMA PairedIs ==
  ASSUME NEW n \in Nat
  PROVE  /\ 2 * (n \div 2) = IF n % 2 = 1 THEN n - 1 ELSE n
         /\ n % 2 \in {0, 1}
         /\ n % 2 = 0 => (n + 1) % 2 = 1
         /\ n % 2 = 1 => (n + 1) % 2 = 0
         /\ \A m \in Nat : m % 2 = 0 /\ m <= n => m <= 2 * (n \div 2)
OBVIOUS

\* The second "%" of a pair is the next one.
LEMMA CloseIs ==
  ASSUME NEW s \in Values, NEW i \in 1 .. Len(s), Closings(s, i) # {}
  PROVE  LET j == Least(Closings(s, i))
         IN /\ CloseOf(s, i) = j
            /\ Percents(s, j) = Percents(s, i) + 1
            /\ \A k \in i .. j - 1 : Percents(s, k) = Percents(s, i)
<1> DEFINE j == Least(Closings(s, i))
<1>1. Len(s) \in Nat
  BY DEF Values
<1>2. j \in i + 1 .. Len(s) /\ s[j] = "%" /\ \A k \in i + 1 .. j - 1 : s[k] # "%"
  BY ClosingIs
<1> HIDE DEF j
<1>3. /\ \A k \in 0 .. Len(s) : Percents(s, k) \in Nat
      /\ \A k \in 1 .. Len(s) :
           Percents(s, k) = IF s[k] = "%" THEN Percents(s, k - 1) + 1 ELSE Percents(s, k - 1)
  BY PercentsCount
<1>4. ASSUME NEW k \in i .. j - 1 PROVE Percents(s, k) = Percents(s, i)
  <2>1. i \in 0 .. Len(s) /\ k \in i .. Len(s) /\ \A m \in i + 1 .. k : m \in i + 1 .. j - 1
    BY <1>1, <1>2
  <2>2. \A m \in i + 1 .. k : s[m] # "%"
    BY <1>2, <2>1
  <2>3. QED
    BY <2>1, <2>2, PercentsGrow
<1>5. Percents(s, j) = Percents(s, i) + 1
  <2>1. j \in 1 .. Len(s) /\ j - 1 \in i .. j - 1
    BY <1>1, <1>2
  <2>2. QED
    BY <1>2, <1>3, <1>4, <2>1
<1>6. ASSUME NEW x \in i + 1 .. Len(s), s[x] = "%", Percents(s, x) = Percents(s, i) + 1
      PROVE  x = j
  <2>1. x >= j
    BY <1>1, <1>2, <1>6
  <2>2. CASE x > j
    <3>1. j \in 0 .. Len(s) /\ x - 1 \in j .. Len(s) /\ x \in 1 .. Len(s) /\ x - 1 \in 0 .. Len(s)
      BY <1>1, <1>2, <2>2
    <3>2. Percents(s, j) <= Percents(s, x - 1)
      BY <3>1, PercentsGrow
    <3>3. Percents(s, x) = Percents(s, x - 1) + 1
      BY <1>3, <1>6, <3>1
    <3>4. Percents(s, j) \in Nat /\ Percents(s, x - 1) \in Nat /\ Percents(s, i) \in Nat
      <4>1. i \in 0 .. Len(s)
        BY <1>1
      <4>2. QED
        BY <1>3, <3>1, <4>1
    <3>5. QED
      BY <1>5, <1>6, <3>2, <3>3, <3>4
  <2>3. QED
    BY <2>1, <2>2, <1>1, <1>2
<1>7. CloseOf(s, i) = j
  BY <1>2, <1>5, <1>6, Zenon DEF CloseOf
<1>8. QED
  BY <1>4, <1>5, <1>7 DEF j

LEMMA CountsAre ==
  ASSUME NEW s \in Values, NEW i \in 1 .. Len(s)
  PROVE  /\ Percents(s, i) \in Nat /\ Percents(s, Len(s)) \in Nat
         /\ Percents(s, i) <= Percents(s, Len(s))
         /\ Paired(s) = IF Percents(s, Len(s)) % 2 = 1
                        THEN Percents(s, Len(s)) - 1 ELSE Percents(s, Len(s))
         /\ \A m \in Nat : m % 2 = 0 /\ m <= Percents(s, Len(s)) => m <= Paired(s)
<1>1. i \in 0 .. Len(s) /\ Len(s) \in i .. Len(s) /\ Len(s) \in 0 .. Len(s)
  BY DEF Values
<1>2. Percents(s, i) \in Nat /\ Percents(s, Len(s)) \in Nat
  BY <1>1, PercentsCount
<1>3. Percents(s, i) <= Percents(s, Len(s))
  BY <1>1, PercentsGrow
<1> DEFINE n == Percents(s, Len(s))
<1>4. n \in Nat /\ Paired(s) = 2 * (n \div 2)
  BY <1>2 DEF Paired
<1> HIDE DEF n
<1>5. /\ Paired(s) = IF n % 2 = 1 THEN n - 1 ELSE n
      /\ \A m \in Nat : m % 2 = 0 /\ m <= n => m <= Paired(s)
  BY <1>4, PairedIs
<1>6. QED
  BY <1>2, <1>3, <1>5 DEF n

\* A "%" without a partner and what is behind it is text.
LEMMA Unclosed ==
  ASSUME NEW s \in Values, NEW i \in 1 .. Len(s), Percents(s, i) % 2 = 1,
         Closings(s, i) = {}, NEW k \in i .. Len(s)
  PROVE  Contribution(s, k) = <<s[k]>> /\ ~Inside(s, i)
<1>1. Len(s) \in Nat /\ \A m \in i + 1 .. Len(s) : s[m] # "%"
  BY DEF Values, Closings
<1>2. i \in 0 .. Len(s) /\ Len(s) \in i .. Len(s) /\ k \in 1 .. Len(s)
      /\ \A m \in i + 1 .. k : m \in i + 1 .. Len(s)
  BY <1>1
<1>3. Percents(s, Len(s)) = Percents(s, i) /\ Percents(s, k) = Percents(s, i)
  BY <1>1, <1>2, PercentsGrow
<1>4. Percents(s, i) \in Nat /\ Paired(s) = Percents(s, i) - 1
  BY <1>3, CountsAre
<1>5. Percents(s, k) > Paired(s) /\ ~Inside(s, k) /\ ~Inside(s, i)
  BY <1>3, <1>4 DEF Inside
<1>6. QED
  BY <1>2, <1>5, OutsideIs

\* A pair is a reference, and nothing else.
LEMMA Closed ==
  ASSUME NEW s \in Values, NEW i \in 1 .. Len(s), s[i] = "%", Percents(s, i) % 2 = 1,
         Closings(s, i) # {}
  PROVE  LET j == Least(Closings(s, i))
         IN /\ Contribution(s, i) = Resolved(SubSeq(s, i, j), NewEnvLookup(base))
            /\ \A k \in i + 1 .. j : Contribution(s, k) = <<>>
            /\ Percents(s, j) % 2 = 0
<1> DEFINE j == Least(Closings(s, i))
<1>1. Len(s) \in Nat
  BY DEF Values
<1>2. j \in i + 1 .. Len(s) /\ s[j] = "%" /\ \A k \in i + 1 .. j - 1 : s[k] # "%"
  BY ClosingIs
<1>3. /\ CloseOf(s, i) = j
      /\ Percents(s, j) = Percents(s, i) + 1
      /\ \A k \in i .. j - 1 : Percents(s, k) = Percents(s, i)
  BY CloseIs
<1> HIDE DEF j
<1>4. /\ Percents(s, i) \in Nat /\ Percents(s, j) \in Nat
      /\ Percents(s, j) <= Percents(s, Len(s))
      /\ \A m \in Nat : m % 2 = 0 /\ m <= Percents(s, Len(s)) => m <= Paired(s)
  <2>1. j \in 1 .. Len(s)
    BY <1>1, <1>2
  <2>2. QED
    BY <2>1, CountsAre
<1>5. Percents(s, j) % 2 = 0
  BY <1>3, <1>4, PairedIs
<1>6. Percents(s, i) + 1 <= Paired(s)
  BY <1>3, <1>4, <1>5
<1>7. Percents(s, Len(s)) \in Nat /\ Paired(s) \in Int
  <2>1. Percents(s, Len(s)) \in Nat
    BY CountsAre
  <2>2. QED
    BY <2>1 DEF Paired
<1>8. ASSUME NEW k \in i .. j - 1 PROVE Inside(s, k)
  BY <1>3, <1>4, <1>6, <1>7 DEF Inside
<1>9. Contribution(s, i) = Resolved(SubSeq(s, i, j), NewEnvLookup(base))
  <2>1. i \in i .. j - 1
    BY <1>1, <1>2
  <2>2. Inside(s, i)
    BY <1>8, <2>1
  <2>3. QED
    BY <1>3, <2>2, ContributionIs
<1>10. ASSUME NEW k \in i + 1 .. j PROVE Contribution(s, k) = <<>>
  <2>1. CASE k = j
    <3>1. ~Inside(s, j) /\ Percents(s, j) <= Paired(s)
      BY <1>3, <1>5, <1>6 DEF Inside
    <3>2. QED
      BY <2>1, <3>1, <1>2, ContributionIs, Zenon
  <2>2. CASE k # j
    <3>1. k \in i .. j - 1 /\ k \in i + 1 .. j - 1
      BY <2>2, <1>1, <1>2
    <3>2. Inside(s, k) /\ s[k] # "%"
      BY <3>1, <1>2, <1>8
    <3>3. QED
      BY <3>2, ContributionIs, Zenon
  <2>3. QED
    BY <2>1, <2>2
<1>11. QED
  BY <1>5, <1>9, <1>10 DEF j

LEMMA ContributionType ==
  ASSUME NEW s \in Values, NEW i \in 1 .. Len(s), IsLookup(NewEnvLookup(base))
  PROVE  Contribution(s, i) \in Values
<1>1. Len(s) \in Nat /\ s \in Seq(Words) /\ s[i] \in Words
  BY DEF Values
<1>2. <<s[i]>> \in Values /\ <<>> \in Values
  BY <1>1 DEF Values
<1>3. CASE Inside(s, i) /\ s[i] = "%"
  <2>1. Percents(s, i) % 2 = 1
    BY <1>3 DEF Inside
  <2>2. Closings(s, i) # {}
    <3>1. i \in i .. Len(s)
      BY <1>1
    <3>2. QED
      BY <1>3, <2>1, <3>1, Unclosed
  <2> DEFINE j == Least(Closings(s, i))
  <2>3. j \in i + 1 .. Len(s)
    BY <2>2, ClosingIs
  <2>4. Contribution(s, i) = Resolved(SubSeq(s, i, j), NewEnvLookup(base))
    BY <1>3, <2>1, <2>2, Closed
  <2> HIDE DEF j
  <2>5. SubSeq(s, i, j) \in Seq(Words)
    BY <1>1, <2>3
  <2>6. QED
    BY <2>4, <2>5, ResolvedType DEF Values
<1>4. CASE ~(Inside(s, i) /\ s[i] = "%")
  BY <1>2, <1>4, ContributionIs, Zenon
<1>5. QED
  BY <1>3, <1>4

\* g[k] is what the first k of n contributions c add up to.
IsFlat(g, c, n) ==
  /\ \A k \in 0 .. n : g[k] \in Seq(Words)
  /\ \A k \in 1 .. n : g[k] = g[k - 1] \o c[k]

Silent(c, i, j) == \A k \in i + 1 .. j : c[k] = <<>>

\* What a run of positions adds that contribute nothing, or themselves.
LEMMA FlatSkips ==
  ASSUME NEW n \in Nat, NEW c, NEW g, IsFlat(g, c, n),
         NEW i \in 0 .. n, NEW j \in i .. n, Silent(c, i, j)
  PROVE  g[j] = g[i]
<1> DEFINE T == {d \in 0 .. j - i : g[i + d] = g[i]}
<1>1. 0 \in T
  OBVIOUS
<1>2. ASSUME NEW d \in 1 .. j - i, d - 1 \in T PROVE d \in T
  <2>1. i + d \in 1 .. n /\ i + d \in i + 1 .. j /\ (i + d) - 1 = i + (d - 1)
        /\ i + (d - 1) \in 0 .. n /\ d \in 0 .. j - i
    OBVIOUS
  <2>2. g[i + d] = g[i + (d - 1)] \o c[i + d] /\ c[i + d] = <<>>
    BY <2>1 DEF IsFlat, Silent
  <2>3. g[i + (d - 1)] \in Seq(Words) /\ g[i + (d - 1)] = g[i]
    BY <1>2, <2>1 DEF IsFlat
  <2>4. g[i + (d - 1)] \o <<>> = g[i + (d - 1)]
    BY <2>3
  <2>5. g[i + d] = g[i]
    BY <2>2, <2>3, <2>4, Zenon
  <2>6. QED
    BY <2>1, <2>5
<1>3. 0 .. j - i \subseteq T
  <2>1. j - i \in Nat
    OBVIOUS
  <2> HIDE DEF T
  <2>2. QED
    BY <1>1, <1>2, <2>1, Upwards
<1>4. j - i \in 0 .. j - i /\ i + (j - i) = j
  OBVIOUS
<1>5. j - i \in T
  <2> HIDE DEF T
  <2>1. QED
    BY <1>3, <1>4
<1>6. QED
  BY <1>4, <1>5

LEMMA Regroup ==
  \A S : \A x, y, z \in Seq(S) : (x \o y) \o z = x \o (y \o z)
BY ConcatAssociative

LEMMA CopyOneMore ==
  ASSUME NEW S, NEW x \in Seq(S), NEW s \in Seq(S), NEW i \in 1 .. Len(s), NEW m \in i .. Len(s)
  PROVE  (x \o SubSeq(s, i, m - 1)) \o <<s[m]>> = x \o SubSeq(s, i, m)
<1> DEFINE y == SubSeq(s, i, m - 1)
           e == s[m]
<1>1. y \in Seq(S) /\ e \in S
  OBVIOUS
<1>2. SubSeq(s, i, m) = Append(y, e)
  OBVIOUS
<1> HIDE DEF y, e
<1>3. x \o Append(y, e) = Append(x \o y, e)
  BY <1>1, AppendConcat
<1>4. Append(x \o y, e) = (x \o y) \o <<e>>
  <2>1. x \o y \in Seq(S)
    BY <1>1, ConcatProperties
  <2>2. QED
    BY <1>1, <2>1, AppendIsConcat
<1>5. QED
  BY <1>2, <1>3, <1>4 DEF y, e

LEMMA FlatCopies ==
  ASSUME NEW s \in Seq(Words), NEW c, NEW g, IsFlat(g, c, Len(s)),
         NEW i \in 1 .. Len(s), \A k \in i .. Len(s) : c[k] = <<s[k]>>
  PROVE  g[Len(s)] = g[i - 1] \o SubSeq(s, i, Len(s))
<1> DEFINE n == Len(s) - i + 1
           a == i - 1
           T == {d \in 0 .. n : g[a + d] = g[a] \o SubSeq(s, i, a + d)}
<1>1. /\ Len(s) \in Nat /\ n \in Nat /\ a \in 0 .. Len(s) /\ i = a + 1
      /\ \A d \in 0 .. n : a + d \in 0 .. Len(s)
  OBVIOUS
<1>2. g[a] \in Seq(Words)
  BY <1>1 DEF IsFlat
<1> HIDE DEF a
<1>3. 0 \in T
  <2>1. SubSeq(s, i, a + 0) = <<>> /\ a + 0 = a
    BY <1>1
  <2>2. g[a] \o <<>> = g[a]
    BY <1>2
  <2>3. g[a + 0] = g[a] \o SubSeq(s, i, a + 0)
    BY <2>1, <2>2, Zenon
  <2>4. 0 \in 0 .. n
    BY <1>1
  <2>5. QED
    BY <2>3, <2>4, Zenon
<1>4. ASSUME NEW d \in 1 .. n, d - 1 \in T PROVE d \in T
  <2> DEFINE b == a + (d - 1)
             m == a + d
  <2>1. m \in 1 .. Len(s) /\ m - 1 = b /\ m \in i .. Len(s) /\ b \in 0 .. Len(s) /\ d \in 0 .. n
        /\ b \in i - 1 .. Len(s) - 1 /\ m = b + 1
    BY <1>1
  <2>2. g[b] = g[a] \o SubSeq(s, i, b)
    BY <1>4
  <2> HIDE DEF b, m
  <2>3. g[m] = g[b] \o <<s[m]>>
    BY <2>1 DEF IsFlat
  <2>4. (g[a] \o SubSeq(s, i, b)) \o <<s[m]>> = g[a] \o SubSeq(s, i, m)
    BY <1>2, <2>1, CopyOneMore
  <2>5. g[m] = g[a] \o SubSeq(s, i, m)
    BY <2>2, <2>3, <2>4, Zenon
  <2>6. QED
    BY <2>1, <2>5 DEF m
<1>5. 0 .. n \subseteq T
  <2> HIDE DEF T, n
  <2>1. QED
    BY <1>1, <1>3, <1>4, Upwards
<1>6. n \in 0 .. n /\ a + n = Len(s)
  BY <1>1
<1>7. n \in T
  <2> HIDE DEF T, n
  <2>1. QED
    BY <1>5, <1>6
<1>8. QED
  BY <1>6, <1>7 DEF a

\* expandPercent pairs the first "%" with the second, the third with the
\* fourth and so on.
LEMMA PairsAre ==
  ASSUME NEW s \in Values, IsLookup(NewEnvLookup(base))
  PROVE  ExpandPercent(s, NewEnvLookup(base))
           = FlattenSeq([i \in DOMAIN s |-> Contribution(s, i)])
<1> DEFINE l == NewEnvLookup(base)
           c == [i \in DOMAIN s |-> Contribution(s, i)]
           n == Len(s)
<1>1. n \in Nat /\ s \in Seq(Words) /\ DOMAIN s = 1 .. n
  BY DEF Values
<1>2. \A i \in 1 .. n : Contribution(s, i) \in Seq(Words)
  BY ContributionType DEF Values
<1>3. c \in Seq(Seq(Words)) /\ Len(c) = n /\ \A i \in 1 .. n : c[i] = Contribution(s, i)
  BY <1>1, <1>2
<1> HIDE DEF c
<1>4. PICK g : /\ g[0] = <<>>
               /\ \A k \in 1 .. n : g[k] = g[k - 1] \o c[k]
               /\ \A k \in 0 .. n : g[k] \in Seq(Words)
               /\ FlattenSeq(c) = g[n]
  <2>1. \E g : /\ g[0] = <<>>
               /\ \A k \in 1 .. Len(c) : g[k] = g[k - 1] \o c[k]
               /\ \A k \in 0 .. Len(c) : g[k] \in Seq(Words)
               /\ FlattenSeq(c) = g[Len(c)]
    BY <1>3, FlattenIs
  <2>2. QED
    BY <1>3, <2>1
<1>5. PICK f : IsScan(f, s, l, 1) /\ ExpandPercent(s, l) = f[1]
  BY ScanRuns
<1>6. /\ \A i \in 1 .. n + 1 : f[i] = Scan(s, l, f, i)
      /\ f[n + 1] = <<>>
  BY <1>5, ScanAt
<1>7. /\ Percents(s, 0) = 0
      /\ \A k \in 0 .. n : Percents(s, k) \in Nat
      /\ \A k \in 1 .. n :
           Percents(s, k) = IF s[k] = "%" THEN Percents(s, k - 1) + 1 ELSE Percents(s, k - 1)
  BY PercentsCount
<1> HIDE DEF l, n
<1> DEFINE T == {i \in 1 .. n + 1 :
                   f[i] \in Seq(Words)
                     /\ (Percents(s, i - 1) % 2 = 0 => g[n] = g[i - 1] \o f[i])}
<1>8. n + 1 \in T
  <2>1. n + 1 \in 1 .. n + 1 /\ (n + 1) - 1 = n /\ n \in 0 .. n
    BY <1>1
  <2>2. g[n] \in Seq(Words) /\ <<>> \in Seq(Words)
    BY <1>4, <2>1, EmptySeq
  <2>3. g[n] \o <<>> = g[n]
    BY <2>2
  <2>4. f[n + 1] \in Seq(Words) /\ g[n] = g[(n + 1) - 1] \o f[n + 1]
    BY <1>6, <2>1, <2>2, <2>3, Zenon
  <2>5. QED
    BY <2>1, <2>4, Zenon
<1>9. ASSUME NEW i \in 1 .. n, \A j \in i + 1 .. n + 1 : j \in T
      PROVE  i \in T
  <2>1. i \in 1 .. n + 1 /\ ~(i > n) /\ i + 1 \in i + 1 .. n + 1 /\ i - 1 \in 0 .. n
        /\ (i + 1) - 1 = i /\ i \in 0 .. n
    BY <1>1
  <2>2. g[i - 1] \in Seq(Words) /\ g[i] \in Seq(Words) /\ g[i] = g[i - 1] \o c[i]
        /\ s[i] \in Words /\ Percents(s, i - 1) \in Nat /\ c[i] = Contribution(s, i)
    <3>1. s[i] \in Words
      BY <1>1 DEF n
    <3>2. QED
      BY <1>3, <1>4, <1>7, <2>1, <3>1, Zenon
  <2>3. f[i] = Scan(s, l, f, i)
    BY <1>6, <2>1
  <2>4. CASE s[i] # "%"
    <3>1. f[i] = <<s[i]>> \o f[i + 1]
      BY <2>1, <2>3, <2>4 DEF Scan, n
    <3>2. f[i + 1] \in Seq(Words) /\ (Percents(s, i) % 2 = 0 => g[n] = g[i] \o f[i + 1])
      BY <1>9, <2>1
    <3>3. <<s[i]>> \in Seq(Words)
      BY <2>2
    <3>4. <<s[i]>> \o f[i + 1] \in Seq(Words)
      BY <3>2, <3>3
    <3>5. ASSUME Percents(s, i - 1) % 2 = 0 PROVE g[n] = g[i - 1] \o f[i]
      <4>1. Percents(s, i) = Percents(s, i - 1)
        BY <1>7, <2>4
      <4>2. ~Inside(s, i)
        BY <3>5, <4>1 DEF Inside
      <4>3. c[i] = <<s[i]>>
        BY <2>2, <2>4, <4>2, OutsideIs DEF n
      <4>4. (g[i - 1] \o <<s[i]>>) \o f[i + 1] = g[i - 1] \o (<<s[i]>> \o f[i + 1])
        <5> DEFINE x == g[i - 1]
                   y == <<s[i]>>
                   z == f[i + 1]
        <5>1. x \in Seq(Words) /\ y \in Seq(Words) /\ z \in Seq(Words)
          BY <2>2, <3>2, <3>3
        <5> HIDE DEF x, y, z
        <5>2. (x \o y) \o z = x \o (y \o z)
          BY <5>1, Regroup
        <5>3. QED
          BY <5>2 DEF x, y, z
      <4>5. g[n] = g[i] \o f[i + 1]
        BY <3>2, <3>5, <4>1
      <4>6. QED
        BY <2>2, <3>1, <4>3, <4>4, <4>5, Zenon
    <3>6. QED
      BY <2>1, <3>1, <3>4, <3>5, Zenon
  <2>5. CASE s[i] = "%" /\ Closings(s, i) = {}
    <3>1. f[i] = SubSeq(s, i, n)
      BY <2>1, <2>3, <2>5 DEF Scan, n
    <3>2. SubSeq(s, i, n) \in Seq(Words)
      BY <1>1 DEF n
    <3>3. ASSUME Percents(s, i - 1) % 2 = 0 PROVE g[n] = g[i - 1] \o f[i]
      <4>1. Percents(s, i) % 2 = 1
        <5>1. Percents(s, i) = Percents(s, i - 1) + 1
          BY <1>7, <2>5
        <5> DEFINE p == Percents(s, i - 1)
        <5>2. p \in Nat /\ p % 2 = 0
          BY <2>2, <3>3
        <5> HIDE DEF p
        <5>3. (p + 1) % 2 = 1
          BY <5>2
        <5>4. QED
          BY <5>1, <5>3 DEF p
      <4>2. \A k \in i .. n : Contribution(s, k) = <<s[k]>>
        BY <2>5, <4>1, Unclosed DEF n
      <4>3. \A k \in i .. n : c[k] = <<s[k]>>
        <5>1. \A k \in i .. n : k \in 1 .. n
          BY <1>1
        <5>2. QED
          BY <1>3, <4>2, <5>1, Zenon
      <4>4. g[n] = g[i - 1] \o SubSeq(s, i, n)
        <5>1. IsFlat(g, c, n)
          BY <1>4, Zenon DEF IsFlat
        <5>2. QED
          BY <1>1, <4>3, <5>1, FlatCopies DEF n
      <4>5. QED
        BY <3>1, <4>4, Zenon
    <3>4. QED
      BY <2>1, <3>1, <3>2, <3>3, Zenon
  <2>6. CASE s[i] = "%" /\ Closings(s, i) # {}
    <3> DEFINE j == Least(Closings(s, i))
               r == Resolved(SubSeq(s, i, j), l)
    <3>1. j \in i + 1 .. n /\ Resume(j) = j + 1
      BY <2>6, ClosingIs DEF n
    <3>2. f[i] = r \o f[j + 1]
      BY <2>1, <2>3, <2>6, <3>1, Zenon DEF Scan, n
    <3>3. ASSUME Percents(s, i) % 2 = 1
          PROVE  /\ Contribution(s, i) = r
                 /\ \A k \in i + 1 .. j : Contribution(s, k) = <<>>
                 /\ Percents(s, j) % 2 = 0
      BY <2>6, <3>3, Closed DEF n, l
    <3> HIDE DEF j
    <3>4. SubSeq(s, i, j) \in Values
      <4>1. SubSeq(s, i, j) \in Seq(Words)
        BY <1>1, <3>1 DEF n
      <4>2. QED
        BY <4>1 DEF Values
    <3>5. r \in Seq(Words)
      BY <3>4, ResolvedType DEF l, Values
    <3> HIDE DEF r
    <3>6. /\ j + 1 \in i + 1 .. n + 1 /\ (j + 1) - 1 = j /\ j \in 0 .. n /\ j \in i .. n
          /\ \A k \in i + 1 .. j : k \in 1 .. n
      BY <1>1, <3>1
    <3>7. f[j + 1] \in Seq(Words) /\ (Percents(s, j) % 2 = 0 => g[n] = g[j] \o f[j + 1])
      BY <1>9, <3>6
    <3>8. r \o f[j + 1] \in Seq(Words)
      BY <3>5, <3>7
    <3>9. ASSUME Percents(s, i - 1) % 2 = 0 PROVE g[n] = g[i - 1] \o f[i]
      <4>1. Percents(s, i) % 2 = 1
        <5>1. Percents(s, i) = Percents(s, i - 1) + 1
          BY <1>7, <2>6
        <5> DEFINE p == Percents(s, i - 1)
        <5>2. p \in Nat /\ p % 2 = 0
          BY <2>2, <3>9
        <5> HIDE DEF p
        <5>3. (p + 1) % 2 = 1
          BY <5>2
        <5>4. QED
          BY <5>1, <5>3 DEF p
      <4>2. /\ c[i] = r /\ Percents(s, j) % 2 = 0
            /\ \A k \in i + 1 .. j : c[k] = <<>>
        BY <1>3, <2>2, <3>3, <3>6, <4>1, Zenon
      <4>3. g[j] = g[i]
        <5>1. IsFlat(g, c, n) /\ Silent(c, i, j)
          BY <1>4, <4>2, Zenon DEF IsFlat, Silent
        <5>2. n \in Nat /\ i \in 0 .. n /\ j \in i .. n
          BY <1>1, <2>1, <3>6
        <5>3. QED
          BY <5>1, <5>2, FlatSkips
      <4>4. (g[i - 1] \o r) \o f[j + 1] = g[i - 1] \o (r \o f[j + 1])
        <5> DEFINE x == g[i - 1]
                   y == r
                   z == f[j + 1]
        <5>1. x \in Seq(Words) /\ y \in Seq(Words) /\ z \in Seq(Words)
          BY <2>2, <3>5, <3>7
        <5> HIDE DEF x, y, z
        <5>2. (x \o y) \o z = x \o (y \o z)
          BY <5>1, Regroup
        <5>3. QED
          BY <5>2 DEF x, y, z
      <4>5. g[n] = g[j] \o f[j + 1]
        BY <3>7, <4>2
      <4>6. QED
        BY <2>2, <3>2, <4>2, <4>3, <4>4, <4>5, Zenon
    <3>10. QED
      BY <2>1, <3>2, <3>8, <3>9, Zenon
  <2>7. QED
    BY <2>4, <2>5, <2>6
<1>10. 1 .. n + 1 \subseteq T
  <2> HIDE DEF T
  <2>1. QED
    BY <1>1, <1>8, <1>9, Downwards
<1>11. 1 \in 1 .. n + 1 /\ 1 - 1 = 0 /\ Percents(s, 0) % 2 = 0 /\ 0 \in 0 .. n
  BY <1>1, <1>7
<1>12. f[1] \in Seq(Words) /\ g[n] = g[0] \o f[1]
  BY <1>10, <1>11
<1>13. <<>> \o f[1] = f[1]
  BY <1>12
<1>14. g[n] = f[1]
  BY <1>4, <1>12, <1>13, Zenon
<1>15. QED
  BY <1>4, <1>5, <1>14 DEF l, c

\* expandPercent on every value that is read: references are the first and the
\* second "%", the third and the fourth and so on, and a last one without a
\* partner is text.
THEOREM Pairs == Spec => []PercentsPair
<1>1. ASSUME IInv, NEW h \in Hives, NEW e \in ToSet(read[h])
      PROVE  ExpandPercent(e.value, NewEnvLookup(base))
               = FlattenSeq([i \in DOMAIN e.value |-> Contribution(e.value, i)])
  <2>1. read[h] \in Seq(EnvValues) /\ base \in Seq(EnvEntries)
    BY <1>1, ReadIsValues
  <2>2. e \in EnvValues
    BY <2>1, ToSetAt
  <2>3. e.value \in Values
    BY <2>2 DEF EnvValues
  <2>4. IsLookup(NewEnvLookup(base))
    BY <2>1, NewEnvLookupType
  <2>5. QED
    BY <2>3, <2>4, PairsAre
<1>2. IInv => PercentsPair
  BY <1>1 DEF PercentsPair
<1>3. QED
  BY <1>2, Inductive, PTL
=============================================================================
