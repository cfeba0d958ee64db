--------------------------- MODULE SettingsProofs ---------------------------
(***************************************************************************)
(* Proofs about the configuration and its editors: the layers resolve as   *)
(* documented, a value survives its quotes, what the interface loads after *)
(* a save is what the files say, editors show what is in their files, what *)
(* another process wrote stays, and no edit is dropped unannounced.        *)
(***************************************************************************)
EXTENDS Settings, FiniteSetTheorems, SequenceTheorems, TLAPS

(* The layers *)

\* One layer over a configuration.
LEMMA ApplyEnv ==
  ASSUME NEW value, NEW env, NEW keys, NEW k, k \in DOMAIN value
  PROVE  /\ DOMAIN applyEnv(value, env, keys) = DOMAIN value
         /\ applyEnv(value, env, keys)[k] =
              IF k \in keys \cap DOMAIN env THEN Read(k, env[k]) ELSE value[k]
BY DEF applyEnv

LEMMA TopLayer ==
  ASSUME NEW S \in SUBSET (1..4), NEW i \in S, \A j \in S : j <= i
  PROVE  Max(S) = i
<1>1. \A j \in S : i >= j
  OBVIOUS
<1>2. \A x \in S : (\A y \in S : x >= y) => x = i
  OBVIOUS
<1> QED  BY <1>1, <1>2 DEF Max

\* LoadConfig gives each key the value of the highest layer that has it, which is
\* what its comments and the README promise: files, agents' files, project, environment.
THEOREM LayersResolve ==
  ASSUME NEW files, NEW environment, NEW k \in Keys
  PROVE  LoadConfig(files, environment).value[k] = Resolved(files, environment, k)
<1> DEFINE G == Parse(files.global)
           O == Parse(files.own)
           P == Parse(files.project)
           set == {key \in Keys : environment[key] # <<>>}
           L == Layer(files, environment)
           saying == {i \in 1..4 : k \in DOMAIN L[i]}
           c1 == applyEnv(Default, G, JailKeys)
           c2 == applyEnv(c1, O, OwnKeys)
           c3 == applyEnv(c2, P, JailKeys)
           c4 == applyEnv(c3, environment, set)
<1>0. k \in DOMAIN Default
  BY LayersAssumption DEF LayersAssumption
<1>1. DOMAIN c1 = DOMAIN Default /\ c1[k] = IF k \in JailKeys \cap DOMAIN G THEN Read(k, G[k]) ELSE Default[k]
  BY <1>0, ApplyEnv
<1>2. DOMAIN c2 = DOMAIN c1 /\ c2[k] = IF k \in OwnKeys \cap DOMAIN O THEN Read(k, O[k]) ELSE c1[k]
  BY <1>0, <1>1, ApplyEnv
<1>3. DOMAIN c3 = DOMAIN c2 /\ c3[k] = IF k \in JailKeys \cap DOMAIN P THEN Read(k, P[k]) ELSE c2[k]
  BY <1>0, <1>1, <1>2, ApplyEnv
<1>4. c4[k] = IF k \in set \cap DOMAIN environment THEN Read(k, environment[k]) ELSE c3[k]
  BY <1>0, <1>1, <1>2, <1>3, ApplyEnv
<1>5. LoadConfig(files, environment).value = c4
  BY DEF LoadConfig, applyJailEnv, applyOwnEnv, applyEnvOverrides
<1>6. /\ L[1] = Only(G, JailKeys)
      /\ L[2] = Only(O, OwnKeys)
      /\ L[3] = Only(P, JailKeys)
      /\ L[4] = Only(environment, set)
  BY DEF Layer
<1>7. /\ 1 \in saying <=> k \in JailKeys \cap DOMAIN G
      /\ 2 \in saying <=> k \in OwnKeys \cap DOMAIN O
      /\ 3 \in saying <=> k \in JailKeys \cap DOMAIN P
      /\ 4 \in saying <=> k \in set \cap DOMAIN environment
  BY <1>6 DEF Only
<1>8. /\ 1 \in saying => L[1][k] = G[k]
      /\ 2 \in saying => L[2][k] = O[k]
      /\ 3 \in saying => L[3][k] = P[k]
      /\ 4 \in saying => L[4][k] = environment[k]
  BY <1>6, <1>7 DEF Only
<1>9. Resolved(files, environment, k) = IF saying = {} THEN Default[k] ELSE Read(k, L[Max(saying)][k])
  BY DEF Resolved
<1> HIDE DEF G, O, P, set, L, saying, c1, c2, c3, c4
<1>a. saying \in SUBSET (1..4)
  BY DEF saying
<1>b. CASE 4 \in saying
  <2>1. Max(saying) = 4
    BY <1>a, <1>b, TopLayer
  <2> QED  BY <1>b, <2>1, <1>4, <1>5, <1>7, <1>8, <1>9
<1>c. CASE 4 \notin saying /\ 3 \in saying
  <2>1. Max(saying) = 3
    BY <1>a, <1>c, TopLayer
  <2> QED  BY <1>c, <2>1, <1>3, <1>4, <1>5, <1>7, <1>8, <1>9
<1>d. CASE 4 \notin saying /\ 3 \notin saying /\ 2 \in saying
  <2>1. Max(saying) = 2
    BY <1>a, <1>d, TopLayer
  <2> QED  BY <1>d, <2>1, <1>2, <1>3, <1>4, <1>5, <1>7, <1>8, <1>9
<1>e. CASE 4 \notin saying /\ 3 \notin saying /\ 2 \notin saying /\ 1 \in saying
  <2>1. Max(saying) = 1
    BY <1>a, <1>e, TopLayer
  <2> QED  BY <1>e, <2>1, <1>1, <1>2, <1>3, <1>4, <1>5, <1>7, <1>8, <1>9
<1>f. CASE 4 \notin saying /\ 3 \notin saying /\ 2 \notin saying /\ 1 \notin saying
  <2>1. saying = {}
    BY <1>a, <1>f
  <2> QED  BY <1>f, <2>1, <1>1, <1>2, <1>3, <1>4, <1>5, <1>7, <1>9
<1> QED  BY <1>b, <1>c, <1>d, <1>e, <1>f
-----------------------------------------------------------------------------
(* Values *)

\* What quoteEnvValue writes, stripQuotes reads back unchanged.  The values it refuses,
\* those with both quotes, are no exception: stripQuotes removes the outer pair only.
THEOREM QuotesRoundTrip ==
  ASSUME NEW S, NEW v \in Seq(S)
  PROVE  stripQuotes(quoteEnvValue(v)) = v
<1>1. CASE v # <<>> /\ ToSet(v) \cap {Space, DQ, SQ} = {}
  <2>1. quoteEnvValue(v) = v
    BY <1>1 DEF quoteEnvValue
  <2>2. 1 \in DOMAIN v
    BY <1>1
  <2>3. v[1] \notin {DQ, SQ}
    BY <1>1, <2>2 DEF ToSet
  <2> QED  BY <2>1, <2>3 DEF stripQuotes
<1>2. CASE ~(v # <<>> /\ ToSet(v) \cap {Space, DQ, SQ} = {})
  <2> DEFINE q == IF DQ \in ToSet(v) THEN SQ ELSE DQ
             s == <<q>> \o v \o <<q>>
             T == S \cup {DQ, SQ}
  <2>1. quoteEnvValue(v) = s
    BY <1>2 DEF quoteEnvValue
  <2>2. q \in {DQ, SQ}
    OBVIOUS
  <2> HIDE DEF q
  <2>3. v \in Seq(T) /\ <<q>> \in Seq(T)
    BY <2>2
  <2> HIDE DEF T
  <2>4. /\ s \in Seq(T)
        /\ Len(s) = Len(v) + 2
        /\ s[1] = q /\ s[Len(v) + 2] = q
        /\ \A i \in 1..Len(v) : s[i + 1] = v[i]
    BY <2>3
  <2> HIDE DEF s
  <2>5. stripQuotes(s) = SubSeq(s, 2, Len(v) + 1)
    BY <2>2, <2>4 DEF stripQuotes
  <2>6. SubSeq(s, 2, Len(v) + 1) \in Seq(T) /\ Len(SubSeq(s, 2, Len(v) + 1)) = Len(v)
    BY <2>4
  <2>7. \A i \in 1..Len(v) : SubSeq(s, 2, Len(v) + 1)[i] = v[i]
    BY <2>4
  <2>8. SubSeq(s, 2, Len(v) + 1) = v
    BY <2>3, <2>6, <2>7
  <2> QED  BY <2>1, <2>5, <2>8
<1> QED  BY <1>1, <1>2
-----------------------------------------------------------------------------
(* Files *)

\* Lines of which none is an assignment that counts say nothing.
LEMMA NothingActive ==
  ASSUME NEW lines, \A i \in DOMAIN lines : lines[i].kind # "active"
  PROVE  parseEnvFile(lines) = parseEnvFile(<<>>)
<1>1. ActiveKeys(lines) = {} /\ ActiveKeys(<<>>) = {}
  BY DEF ActiveKeys
<1> QED  BY <1>1 DEF parseEnvFile

\* SetToSeq puts the elements of a finite set in an order.
LEMMA Listed ==
  ASSUME NEW C, IsFiniteSet(C)
  PROVE  /\ SetToSeq(C) \in Seq(C)
         /\ \A c \in C : \E i \in DOMAIN SetToSeq(C) : SetToSeq(C)[i] = c
<1> DEFINE n == Cardinality(C)
<1>1. n \in Nat /\ ExistsBijection(1..n, C)
  BY FS_CardinalityType
<1>2. \E h \in [1..n -> C] : IsInjective(h)
  BY <1>1 DEF ExistsBijection, Bijection, Injection
<1>3. SetToSeq(C) \in [1..n -> C] /\ IsInjective(SetToSeq(C))
  BY <1>2 DEF SetToSeq
<1>4. SetToSeq(C) \in Injection(1..n, C)
  BY <1>3 DEF Injection
<1>5. Cardinality(1..n) = n
  BY <1>1, FS_Interval
<1>6. SetToSeq(C) \in Surjection(1..n, C)
  BY <1>4, <1>5, FS_Injection
<1> QED  BY <1>1, <1>3, <1>6 DEF Surjection

\* Nth numbers the elements of a finite set in their order.
LEMMA Ranked ==
  ASSUME NEW S, IsFiniteSet(S), S \subseteq Nat
  PROVE  /\ Cardinality(S) \in Nat
         /\ \A n \in 1..Cardinality(S) : Nth(S, n) \in S
         /\ \A m, n \in 1..Cardinality(S) : Nth(S, m) <= Nth(S, n) => m <= n
         /\ \A i \in S : \E n \in 1..Cardinality(S) : Nth(S, n) = i
<1> DEFINE upTo(i) == {j \in S : j <= i}
           c == Cardinality(S)
           r == [i \in S |-> Cardinality(upTo(i))]
<1>1. c \in Nat
  BY FS_CardinalityType
<1>2. ASSUME NEW i \in S PROVE r[i] \in 1..c
  <2>1. upTo(i) \in SUBSET S /\ upTo(i) # {}
    OBVIOUS
  <2>2. IsFiniteSet(upTo(i)) /\ Cardinality(upTo(i)) <= c
    BY <2>1, FS_Subset
  <2>3. Cardinality(upTo(i)) \in Nat /\ Cardinality(upTo(i)) # 0
    BY <2>1, <2>2, FS_CardinalityType, FS_EmptySet
  <2> QED  BY <1>1, <2>2, <2>3
<1>3. ASSUME NEW i \in S, NEW j \in S, i < j PROVE r[i] < r[j]
  <2>0. S \subseteq Nat /\ j \in upTo(j) /\ j \notin upTo(i)
    BY <1>3
  <2>1. upTo(j) \in SUBSET S /\ upTo(i) \in SUBSET upTo(j) /\ upTo(i) # upTo(j)
    <3>1. \A x \in S : x <= i => x <= j
      BY <1>3, <2>0
    <3>2. \A x \in upTo(i) : x \in S /\ x <= i
      OBVIOUS
    <3> QED  BY <2>0, <3>1, <3>2
  <2>2. IsFiniteSet(upTo(j))
    BY <2>1, FS_Subset
  <2>3. Cardinality(upTo(i)) <= Cardinality(upTo(j)) /\ Cardinality(upTo(i)) # Cardinality(upTo(j))
    BY <2>1, <2>2, FS_Subset
  <2>4. r[i] \in 1..c /\ r[j] \in 1..c
    BY <1>2
  <2> QED  BY <1>1, <2>3, <2>4
<1>4. ASSUME NEW i \in S, NEW j \in S, r[i] = r[j] PROVE i = j
  <2>1. i \in Nat /\ j \in Nat /\ r[i] \in 1..c
    BY <1>2
  <2> QED  BY <1>1, <1>3, <1>4, <2>1
<1>5. r \in [S -> 1..c]
  BY <1>2
<1>6. r \in Injection(S, 1..c)
  BY <1>4, <1>5 DEF Injection, IsInjective
<1>7. IsFiniteSet(1..c) /\ Cardinality(1..c) = c
  BY <1>1, FS_Interval
<1>8. r \in Surjection(S, 1..c)
  BY <1>6, <1>7, FS_Injection
<1>9. \A n \in 1..c : \E i \in S : r[i] = n
  BY <1>8 DEF Surjection
<1>a. ASSUME NEW n \in 1..c PROVE Nth(S, n) \in S /\ r[Nth(S, n)] = n
  <2>1. \E i \in S : Cardinality(upTo(i)) = n
    BY <1>9
  <2>2. Nth(S, n) \in S /\ Cardinality(upTo(Nth(S, n))) = n
    BY <2>1 DEF Nth
  <2> QED  BY <2>2
<1>b. ASSUME NEW i \in S PROVE Nth(S, r[i]) = i
  BY <1>2, <1>4, <1>a
<1>c. ASSUME NEW m \in 1..c, NEW n \in 1..c, Nth(S, m) <= Nth(S, n) PROVE m <= n
  <2>1. Nth(S, m) \in Nat /\ Nth(S, n) \in Nat
    BY <1>a
  <2>2. Nth(S, m) < Nth(S, n) \/ Nth(S, m) = Nth(S, n)
    BY <1>c, <2>1
  <2> HIDE DEF r, c
  <2>3. CASE Nth(S, m) < Nth(S, n)
    <3>1. r[Nth(S, m)] < r[Nth(S, n)]
      BY <1>3, <1>a, <2>3
    <3> QED  BY <1>1, <1>a, <3>1
  <2>4. CASE Nth(S, m) = Nth(S, n)
    <3>1. m = n
      BY <1>a, <2>4
    <3> QED  BY <1>1, <3>1
  <2> QED  BY <2>2, <2>3, <2>4
<1> QED  BY <1>1, <1>2, <1>a, <1>b, <1>c

LEMMA Extremes ==
  ASSUME NEW S, IsFiniteSet(S), S \subseteq Nat, S # {}
  PROVE  /\ Min(S) \in S
         /\ Max(S) \in S /\ \A i \in S : i <= Max(S)
<1> DEFINE c == Cardinality(S)
<1>1. c \in Nat /\ c # 0
  BY Ranked, FS_EmptySet
<1>2. 1 \in 1..c /\ c \in 1..c
  BY <1>1
<1>3. ASSUME NEW i \in S, NEW n \in 1..c, Nth(S, n) = i
      PROVE  Nth(S, 1) <= i /\ i <= Nth(S, c)
  <2>1. Nth(S, 1) \in Nat /\ Nth(S, c) \in Nat /\ i \in Nat
    BY <1>2, Ranked
  <2>2. Nth(S, n) <= Nth(S, 1) => n <= 1
    BY <1>2, Ranked
  <2>3. Nth(S, c) <= Nth(S, n) => c <= n
    BY <1>2, Ranked
  <2> HIDE DEF c
  <2>4. n = 1 \/ ~(Nth(S, n) <= Nth(S, 1))
    BY <1>1, <2>2
  <2>5. n = c \/ ~(Nth(S, c) <= Nth(S, n))
    BY <1>1, <2>3
  <2> QED  BY <1>3, <2>1, <2>4, <2>5
<1>4. \A i \in S : Nth(S, 1) <= i /\ i <= Nth(S, c)
  BY <1>3, Ranked
<1>5. Nth(S, 1) \in S /\ Nth(S, c) \in S
  BY <1>2, Ranked
<1>6. Min(S) \in S
  BY <1>4, <1>5 DEF Min
<1>7. \E x \in S : \A y \in S : x >= y
  BY <1>4, <1>5
<1>8. Max(S) \in S /\ \A y \in S : Max(S) >= y
  BY <1>7 DEF Max
<1> QED  BY <1>6, <1>8

LEMMA TheMax ==
  ASSUME NEW S, S \subseteq Nat, NEW m \in S, \A i \in S : i <= m
  PROVE  Max(S) = m
<1>1. \A y \in S : m >= y
  OBVIOUS
<1>2. \A x \in S : (\A y \in S : x >= y) => x = m
  BY <1>1
<1> QED  BY <1>1, <1>2 DEF Max

LEMMA SequenceOf ==
  ASSUME NEW S, NEW l \in Seq(S)
  PROVE  IsText(l)
<1>1. DOMAIN l = 1..Len(l) /\ Len(l) \in Nat /\ l \in [1..Len(l) -> S]
  OBVIOUS
<1>2. l \in [1..Len(l) -> ToSet(l)]
  BY <1>1 DEF ToSet
<1> QED  BY <1>1, <1>2 DEF IsText

\* What is selected from a sequence is a sequence, its elements in the order they had.
LEMMA Selects ==
  ASSUME NEW s, IsText(s), NEW I \in SUBSET DOMAIN s
  PROVE  /\ I \subseteq Nat /\ IsFiniteSet(I) /\ Cardinality(I) \in Nat
         /\ Selected(s, I) \in Seq(ToSet(s)) /\ IsText(Selected(s, I))
         /\ DOMAIN Selected(s, I) = 1..Cardinality(I) /\ Len(Selected(s, I)) = Cardinality(I)
         /\ \A n \in 1..Cardinality(I) : Nth(I, n) \in I /\ Selected(s, I)[n] = s[Nth(I, n)]
         /\ \A m, n \in 1..Cardinality(I) : Nth(I, m) <= Nth(I, n) => m <= n
         /\ \A i \in I : \E n \in 1..Cardinality(I) : Nth(I, n) = i
<1> DEFINE c == Cardinality(I)
           l == Selected(s, I)
<1>1. DOMAIN s = 1..Len(s) /\ Len(s) \in Nat
  BY DEF IsText
<1>2. I \subseteq Nat /\ IsFiniteSet(I)
  <2>1. IsFiniteSet(1..Len(s)) /\ I \in SUBSET (1..Len(s))
    BY <1>1, FS_Interval
  <2> QED  BY <1>1, <2>1, FS_Subset
<1>3. /\ c \in Nat
      /\ \A n \in 1..c : Nth(I, n) \in I
      /\ \A m, n \in 1..c : Nth(I, m) <= Nth(I, n) => m <= n
      /\ \A i \in I : \E n \in 1..c : Nth(I, n) = i
  BY <1>2, Ranked
<1>4. l = [n \in 1..c |-> s[Nth(I, n)]]
  BY DEF Selected
<1> HIDE DEF c, l
<1>5. \A n \in 1..c : s[Nth(I, n)] \in ToSet(s)
  BY <1>3 DEF ToSet
<1>6. l \in [1..c -> ToSet(s)]
  BY <1>4, <1>5
<1>7. l \in Seq(ToSet(s)) /\ Len(l) = c /\ DOMAIN l = 1..c
  BY <1>3, <1>6
<1>8. IsText(l)
  BY <1>7, SequenceOf
<1> QED  BY <1>2, <1>3, <1>4, <1>7, <1>8 DEF c, l

\* The n-th element of the range of an increasing sequence is its n-th element.
LEMMA Enumerated ==
  ASSUME NEW c \in Nat, NEW f \in [1..c -> Nat],
         \A m, n \in 1..c : m < n => f[m] < f[n]
  PROVE  LET S == {f[n] : n \in 1..c} IN
         Cardinality(S) = c /\ \A n \in 1..c : Nth(S, n) = f[n]
<1> DEFINE S == {f[n] : n \in 1..c}
           upTo(n) == {j \in S : j <= f[n]}
<1>1. \A m, n \in 1..c : f[m] <= f[n] <=> m <= n
  <2> SUFFICES ASSUME NEW m \in 1..c, NEW n \in 1..c PROVE f[m] <= f[n] <=> m <= n
    OBVIOUS
  <2>1. f[m] \in Nat /\ f[n] \in Nat
    OBVIOUS
  <2>2. m < n \/ m = n \/ n < m
    OBVIOUS
  <2> QED  BY <2>1, <2>2
<1>2. \A m, n \in 1..c : f[m] = f[n] => m = n
  <2> SUFFICES ASSUME NEW m \in 1..c, NEW n \in 1..c, f[m] = f[n] PROVE m = n
    OBVIOUS
  <2>1. f[m] \in Nat /\ f[n] \in Nat
    OBVIOUS
  <2>2. m <= n /\ n <= m
    BY <1>1, <2>1
  <2> QED  BY <2>2
<1>3. ASSUME NEW n \in 0..c, NEW T, T = {f[m] : m \in 1..n} PROVE IsFiniteSet(T) /\ Cardinality(T) = n
  <2> DEFINE g == [m \in 1..n |-> f[m]]
  <2>1. g \in Bijection(1..n, T)
    <3>1. \A m \in 1..n : m \in 1..c
      OBVIOUS
    <3>2. g \in [1..n -> T]
      BY <1>3
    <3>3. \A a, b \in 1..n : g[a] = g[b] => a = b
      BY <1>2, <3>1
    <3>4. \A t \in T : \E m \in 1..n : g[m] = t
      BY <1>3
    <3> HIDE DEF g
    <3> QED  BY <3>2, <3>3, <3>4 DEF Bijection, Injection, Surjection, IsInjective
  <2>2. IsFiniteSet(1..n) /\ Cardinality(1..n) = n
    BY FS_Interval
  <2>3. ExistsBijection(1..n, T)
    BY <2>1 DEF ExistsBijection
  <2> QED  BY <2>2, <2>3, FS_Bijection
<1>4. Cardinality(S) = c
  <2>1. c \in 0..c
    OBVIOUS
  <2> QED  BY <1>3, <2>1
<1>5. ASSUME NEW n \in 1..c PROVE Cardinality(upTo(n)) = n
  <2>1. upTo(n) = {f[m] : m \in 1..n}
    <3>1. \A m \in 1..c : f[m] <= f[n] <=> m \in 1..n
      BY <1>1
    <3>2. \A m \in 1..n : m \in 1..c
      OBVIOUS
    <3> QED  BY <3>1, <3>2
  <2> QED  BY <1>3, <2>1
<1>6. ASSUME NEW n \in 1..c PROVE Nth(S, n) = f[n]
  <2>1. f[n] \in S /\ Cardinality({j \in S : j <= f[n]}) = n
    BY <1>5, <1>6
  <2>2. ASSUME NEW i \in S, Cardinality({j \in S : j <= i}) = n PROVE i = f[n]
    <3>1. PICK m \in 1..c : i = f[m]
      OBVIOUS
    <3>2. Cardinality(upTo(m)) = m
      BY <1>5
    <3> QED  BY <2>2, <3>1, <3>2
  <2> HIDE DEF S
  <2> QED  BY <2>1, <2>2 DEF Nth
<1> QED  BY <1>4, <1>6

LEMMA FileLines ==
  ASSUME NEW f, IsFile(f)
  PROVE  IsText(f.lines)
<1>1. CASE f = Absent
  <2>1. f.lines = <<>> /\ <<>> \in Seq({})
    BY <1>1 DEF Absent
  <2> QED  BY <2>1, SequenceOf
<1>2. CASE f # Absent
  BY <1>2 DEF IsFile, IsText
<1> QED  BY <1>1, <1>2

\* The lines of a sequence where a key is assigned.
LEMMA PlacesFinite ==
  ASSUME NEW l, IsText(l), NEW kind, NEW k
  PROVE  At(l, kind, k) \subseteq Nat /\ At(l, kind, k) \subseteq DOMAIN l /\ IsFiniteSet(At(l, kind, k))
<1>1. DOMAIN l = 1..Len(l) /\ Len(l) \in Nat
  BY DEF IsText
<1>2. At(l, kind, k) \in SUBSET (1..Len(l))
  BY <1>1 DEF At
<1>3. IsFiniteSet(1..Len(l))
  BY <1>1, FS_Interval
<1> QED  BY <1>1, <1>2, <1>3, FS_Subset

\* A key that is assigned once, or not at all.
OnceIn(lines, k) == Cardinality(At(lines, "active", k)) <= 1

LEMMA AtMostOnce ==
  ASSUME NEW l, IsText(l), NEW k
  PROVE  OnceIn(l, k) <=> \A i, j \in At(l, "active", k) : i = j
<1> DEFINE A == At(l, "active", k)
<1>1. IsFiniteSet(A)
  BY PlacesFinite
<1> HIDE DEF A
<1>2. ASSUME Cardinality(A) <= 1, NEW i \in A, NEW j \in A PROVE i = j
  <2>1. IsFiniteSet(A \ {i}) /\ Cardinality(A \ {i}) = Cardinality(A) - 1
    BY <1>1, FS_RemoveElement
  <2>2. Cardinality(A) \in Nat /\ Cardinality(A \ {i}) \in Nat
    BY <1>1, <2>1, FS_CardinalityType
  <2>3. Cardinality(A \ {i}) = 0
    BY <1>2, <2>1, <2>2
  <2>4. A \ {i} = {}
    BY <2>1, <2>3, FS_EmptySet
  <2> QED  BY <2>4
<1>3. ASSUME \A i, j \in A : i = j PROVE Cardinality(A) <= 1
  <2>1. CASE A = {}
    BY <2>1, FS_EmptySet
  <2>2. CASE A # {}
    <3>1. PICK i : A = {i}
      BY <1>3, <2>2
    <3> QED  BY <3>1, FS_Singleton
  <2> QED  BY <2>1, <2>2
<1> QED  BY <1>2, <1>3 DEF OnceIn, A

\* What a file says of a key is where the key is assigned, and what the last of
\* these lines has.
LEMMA ParsedKey ==
  ASSUME NEW l, NEW k
  PROVE  /\ k \in DOMAIN parseEnvFile(l) <=> At(l, "active", k) # {}
         /\ k \in DOMAIN parseEnvFile(l) =>
              parseEnvFile(l)[k] = stripQuotes(l[Max(At(l, "active", k))].text)
<1>1. k \in ActiveKeys(l) <=> At(l, "active", k) # {}
  BY DEF ActiveKeys, At
<1> QED  BY <1>1 DEF parseEnvFile

\* The line a key is set in is one that has it.
LEMMA Placed ==
  ASSUME NEW l, IsText(l), NEW k, Place(l, k) # 0
  PROVE  Place(l, k) \in DOMAIN l /\ l[Place(l, k)].key = k
<1> DEFINE places == IF At(l, "active", k) # {} THEN At(l, "active", k) ELSE At(l, "comment", k)
<1>1. places \subseteq Nat /\ places \subseteq DOMAIN l /\ IsFiniteSet(places)
  BY PlacesFinite
<1>2. \A i \in places : l[i].key = k
  BY DEF At
<1>3. Place(l, k) = IF places = {} THEN 0 ELSE Min(places)
  BY DEF Place
<1> HIDE DEF places
<1>4. places # {} /\ Place(l, k) = Min(places)
  BY <1>3
<1>5. Min(places) \in places
  BY <1>1, <1>4, Extremes
<1> QED  BY <1>1, <1>2, <1>4, <1>5

\* Setting keys leaves the assignments of all others alone, and each of them assigned
\* what it was set to.
LEMMA SetKeeps ==
  ASSUME NEW lines, IsText(lines), NEW values, IsFiniteSet(DOMAIN values)
  PROVE  LET l == SetEnvValues(lines, values) IN
         /\ IsText(l)
         /\ \A k : k \notin DOMAIN values =>
              At(l, "active", k) = At(lines, "active", k) /\ \A i \in At(lines, "active", k) : l[i] = lines[i]
         /\ \A k \in DOMAIN values : \E i \in At(l, "active", k) : l[i] = Assignment(k, values[k])
         /\ \A i \in DOMAIN l : \/ i \in DOMAIN lines /\ l[i] = lines[i]
                                \/ \E k \in DOMAIN values : l[i] = Assignment(k, values[k])
                                \/ l[i] = Blank
<1> DEFINE set(i) == \E k \in DOMAIN values : Place(lines, k) = i
           rewritten == [i \in DOMAIN lines |->
                           IF set(i) THEN Assignment(lines[i].key, values[lines[i].key]) ELSE lines[i]]
           new == {k \in DOMAIN values : Place(lines, k) = 0}
           N == {Assignment(k, values[k]) : k \in new}
           gap == IF new # {} /\ lines # <<>> /\ Last(lines) # Blank THEN <<Blank>> ELSE <<>>
           U == N \cup {Blank}
           T == {rewritten[i] : i \in DOMAIN lines} \cup U
           t == gap \o SetToSeq(N)
           l == rewritten \o t
<1>1. SetEnvValues(lines, values) = rewritten \o gap \o SetToSeq(N)
  BY DEF SetEnvValues
<1>2. DOMAIN lines = 1..Len(lines) /\ Len(lines) \in Nat
  BY DEF IsText
<1>3. \A i \in DOMAIN lines : set(i) => lines[i].key \in DOMAIN values
  <2> SUFFICES ASSUME NEW k \in DOMAIN values, NEW i \in DOMAIN lines, Place(lines, k) = i
               PROVE  lines[i].key = k
    OBVIOUS
  <2>1. Place(lines, k) # 0
    BY <1>2
  <2> QED  BY <2>1, Placed
<1>4. IsFiniteSet(N)
  <2>1. IsFiniteSet(new)
    BY FS_Subset
  <2> DEFINE f == [k \in new |-> Assignment(k, values[k])]
  <2>2. f \in Surjection(new, N)
    BY DEF Surjection
  <2> QED  BY <2>1, <2>2, FS_Surjection
<1>5. SetToSeq(N) \in Seq(N) /\ \A c \in N : \E i \in DOMAIN SetToSeq(N) : SetToSeq(N)[i] = c
  BY <1>4, Listed
<1>6. \A c \in U : c.kind = "active" => c.key \in DOMAIN values
  BY DEF Assignment, Line, Blank
<1>l. \A c \in U : c = Blank \/ \E k \in DOMAIN values : c = Assignment(k, values[k])
  OBVIOUS
<1>m. \A i \in DOMAIN lines : set(i) => rewritten[i] = Assignment(lines[i].key, values[lines[i].key])
  OBVIOUS
<1>7. \A i \in DOMAIN lines : /\ set(i) => rewritten[i].kind = "active" /\ rewritten[i].key = lines[i].key
                              /\ ~set(i) => rewritten[i] = lines[i]
  BY DEF Assignment, Line
<1>8. ASSUME NEW k \in new
      PROVE  \E c \in N : c.kind = "active" /\ c.key = k /\ c = Assignment(k, values[k])
  <2>1. Assignment(k, values[k]) \in N
    OBVIOUS
  <2>2. Assignment(k, values[k]).kind = "active" /\ Assignment(k, values[k]).key = k
    BY DEF Assignment, Line
  <2> QED  BY <2>1, <2>2
<1>9. rewritten \in [DOMAIN lines -> T]
  OBVIOUS
<1>a. \A k \in DOMAIN values \ new : set(Place(lines, k)) /\ Place(lines, k) # 0
  OBVIOUS
<1>b. gap \in {<<>>, <<Blank>>}
  OBVIOUS
<1> HIDE DEF N, gap, rewritten, set, new
<1>c. gap \in Seq(U) /\ SetToSeq(N) \in Seq(U)
  <2>1. N \subseteq U /\ Blank \in U
    OBVIOUS
  <2> HIDE DEF U
  <2>2. <<>> \in Seq(U) /\ <<Blank>> \in Seq(U)
    BY <2>1
  <2>3. SetToSeq(N) \in Seq(U)
    BY <1>5, <2>1, SeqMonotonic
  <2> QED  BY <1>b, <2>2, <2>3
<1> HIDE DEF U
<1>d. rewritten \in Seq(T) /\ Len(rewritten) = Len(lines)
  BY <1>2, <1>9
<1>e. t \in Seq(U) /\ t \in Seq(T) /\ gap \in Seq(T) /\ SetToSeq(N) \in Seq(T)
  BY <1>c
<1>f. \A i \in DOMAIN SetToSeq(N) : \E j \in DOMAIN t : t[j] = SetToSeq(N)[i]
  <2> SUFFICES ASSUME NEW i \in DOMAIN SetToSeq(N)
               PROVE  Len(gap) + i \in DOMAIN t /\ t[Len(gap) + i] = SetToSeq(N)[i]
    OBVIOUS
  <2> QED  BY <1>c
<1>g. SetEnvValues(lines, values) = l
  BY <1>1, <1>d, <1>e, ConcatAssociative
<1> HIDE DEF t, T
<1>h. /\ l \in Seq(T)
      /\ DOMAIN l = 1..(Len(lines) + Len(t))
      /\ \A i \in DOMAIN lines : i \in DOMAIN l /\ l[i] = rewritten[i]
      /\ \A i \in DOMAIN l \ DOMAIN lines : i - Len(lines) \in DOMAIN t /\ l[i] = t[i - Len(lines)]
      /\ \A j \in DOMAIN t : Len(lines) + j \in DOMAIN l /\ l[Len(lines) + j] = t[j]
  <2>1. /\ l \in Seq(T) /\ Len(l) = Len(lines) + Len(t)
        /\ \A i \in 1..(Len(lines) + Len(t)) :
             l[i] = IF i <= Len(lines) THEN rewritten[i] ELSE t[i - Len(lines)]
    <3>1. rewritten \in Seq(T) /\ t \in Seq(T)
      BY <1>d, <1>e
    <3>2. /\ l \in Seq(T) /\ Len(l) = Len(rewritten) + Len(t)
          /\ \A i \in 1..(Len(rewritten) + Len(t)) :
               l[i] = IF i <= Len(rewritten) THEN rewritten[i] ELSE t[i - Len(rewritten)]
      BY <3>1, ConcatProperties
    <3> HIDE DEF l
    <3> QED  BY <1>d, <3>2
  <2>2. DOMAIN t = 1..Len(t) /\ Len(t) \in Nat
    BY <1>e
  <2> HIDE DEF l
  <2>3. DOMAIN l = 1..(Len(lines) + Len(t))
    BY <2>1
  <2>4. \A i \in DOMAIN lines : i \in DOMAIN l /\ l[i] = rewritten[i]
    BY <1>2, <2>1, <2>2, <2>3
  <2>5. \A i \in DOMAIN l \ DOMAIN lines : i - Len(lines) \in DOMAIN t /\ l[i] = t[i - Len(lines)]
    BY <1>2, <2>1, <2>2, <2>3
  <2>6. \A j \in DOMAIN t : Len(lines) + j \in DOMAIN l /\ l[Len(lines) + j] = t[j]
    <3> SUFFICES ASSUME NEW j \in DOMAIN t, NEW i, i = Len(lines) + j
                 PROVE  i \in DOMAIN l /\ l[i] = t[j]
      OBVIOUS
    <3>1. i \in 1..(Len(lines) + Len(t)) /\ ~(i <= Len(lines)) /\ i - Len(lines) = j
      BY <1>2, <2>2
    <3> QED  BY <2>1, <2>3, <3>1
  <2> QED  BY <2>1, <2>3, <2>4, <2>5, <2>6
<1> HIDE DEF l
<1>i. IsText(l)
  BY <1>h, SequenceOf
<1>j. ASSUME NEW k, k \notin DOMAIN values
      PROVE  At(l, "active", k) = At(lines, "active", k) /\ \A i \in At(lines, "active", k) : l[i] = lines[i]
  <2>1. \A i \in DOMAIN l \ DOMAIN lines : l[i] \in U
    BY <1>e, <1>h
  <2>2. \A i \in DOMAIN l \ DOMAIN lines : i \notin At(l, "active", k)
    BY <1>6, <1>j, <2>1 DEF At
  <2>3. \A i \in DOMAIN lines : set(i) => i \notin At(l, "active", k) /\ i \notin At(lines, "active", k)
    BY <1>3, <1>7, <1>h, <1>j DEF At
  <2>4. \A i \in DOMAIN lines : ~set(i) => l[i] = lines[i] /\ (i \in At(l, "active", k) <=> i \in At(lines, "active", k))
    BY <1>7, <1>h DEF At
  <2>5. At(l, "active", k) \subseteq DOMAIN l /\ At(lines, "active", k) \subseteq DOMAIN lines
    BY DEF At
  <2> QED  BY <1>h, <2>2, <2>3, <2>4, <2>5
<1>k. ASSUME NEW k \in DOMAIN values
      PROVE  \E i \in At(l, "active", k) : l[i] = Assignment(k, values[k])
  <2>1. CASE k \in new
    <3>1. PICK c \in N : c.kind = "active" /\ c.key = k /\ c = Assignment(k, values[k])
      BY <1>8, <2>1
    <3>2. PICK j \in DOMAIN t : t[j] = c
      BY <1>5, <1>f, <3>1
    <3> QED  BY <1>h, <3>1, <3>2 DEF At
  <2>2. CASE k \notin new
    <3>1. PICK i : i = Place(lines, k)
      OBVIOUS
    <3>2. set(i) /\ i # 0
      BY <1>a, <2>2, <3>1
    <3>3. i \in DOMAIN lines /\ lines[i].key = k
      BY <3>1, <3>2, Placed
    <3>4. i \in DOMAIN l /\ l[i] = Assignment(k, values[k])
      BY <1>h, <1>m, <3>2, <3>3
    <3>5. l[i].kind = "active" /\ l[i].key = k
      BY <1>7, <1>h, <3>2, <3>3
    <3> QED  BY <3>4, <3>5 DEF At
  <2> QED  BY <2>1, <2>2
<1>n. ASSUME NEW i \in DOMAIN l
      PROVE  \/ i \in DOMAIN lines /\ l[i] = lines[i]
             \/ \E k \in DOMAIN values : l[i] = Assignment(k, values[k])
             \/ l[i] = Blank
  <2>1. CASE i \in DOMAIN lines /\ set(i)
    BY <1>3, <1>h, <1>m, <2>1
  <2>2. CASE i \in DOMAIN lines /\ ~set(i)
    BY <1>7, <1>h, <2>2
  <2>3. CASE i \notin DOMAIN lines
    <3>1. l[i] \in U
      BY <1>e, <1>h, <2>3
    <3> QED  BY <1>l, <3>1
  <2> QED  BY <2>1, <2>2, <2>3
<1> QED  BY <1>g, <1>i, <1>j, <1>k, <1>n

\* What a file says of a key stays when other keys are set.
LEMMA SetSpares ==
  ASSUME NEW lines, IsText(lines), NEW values, IsFiniteSet(DOMAIN values), NEW k, k \notin DOMAIN values,
         k \in DOMAIN parseEnvFile(lines)
  PROVE  /\ k \in DOMAIN parseEnvFile(SetEnvValues(lines, values))
         /\ parseEnvFile(SetEnvValues(lines, values))[k] = parseEnvFile(lines)[k]
<1> DEFINE A == At(lines, "active", k)
           l == SetEnvValues(lines, values)
<1>1. At(l, "active", k) = A /\ \A i \in A : l[i] = lines[i]
  BY SetKeeps
<1>2. A # {} /\ parseEnvFile(lines)[k] = stripQuotes(lines[Max(A)].text)
  BY ParsedKey
<1>3. Max(A) \in A
  BY <1>2, PlacesFinite, Extremes
<1> HIDE DEF A, l
<1>4. k \in DOMAIN parseEnvFile(l) /\ parseEnvFile(l)[k] = stripQuotes(l[Max(A)].text)
  BY <1>1, <1>2, ParsedKey
<1>5. parseEnvFile(l)[k] = parseEnvFile(lines)[k]
  BY <1>1, <1>2, <1>3, <1>4
<1> QED  BY <1>4, <1>5 DEF l

\* And when other keys are removed; of those that are removed, nothing is left.
LEMMA UnsetKeeps ==
  ASSUME NEW lines, IsText(lines), NEW keys, NEW l, l = UnsetEnvValues(lines, keys)
  PROVE  /\ IsText(l)
         /\ HasTexts(lines) => HasTexts(l)
         /\ \A k \in keys : At(l, "active", k) = {}
         /\ \A k : k \notin keys =>
              /\ OnceIn(l, k) => OnceIn(lines, k)
              /\ k \in DOMAIN parseEnvFile(l) <=> k \in DOMAIN parseEnvFile(lines)
              /\ k \in DOMAIN parseEnvFile(lines) => parseEnvFile(l)[k] = parseEnvFile(lines)[k]
<1> DEFINE kept == {i \in DOMAIN lines : ~(lines[i].kind = "active" /\ lines[i].key \in keys)}
           c == Cardinality(kept)
<1>1. l = Selected(lines, kept)
  BY DEF UnsetEnvValues
<1>2. kept \in SUBSET DOMAIN lines
  OBVIOUS
<1>3. \A i \in DOMAIN lines : i \in kept <=> ~(lines[i].kind = "active" /\ lines[i].key \in keys)
  OBVIOUS
<1> HIDE DEF kept, c
<1>4. /\ kept \subseteq Nat /\ c \in Nat /\ IsText(l) /\ DOMAIN l = 1..c
      /\ \A n \in 1..c : Nth(kept, n) \in kept /\ l[n] = lines[Nth(kept, n)]
      /\ \A m, n \in 1..c : Nth(kept, m) <= Nth(kept, n) => m <= n
      /\ \A i \in kept : \E n \in 1..c : Nth(kept, n) = i
  BY <1>1, <1>2, Selects DEF c
<1>5. HasTexts(lines) => HasTexts(l)
  BY <1>2, <1>4 DEF HasTexts
<1>6. \A k \in keys : At(l, "active", k) = {}
  BY <1>2, <1>3, <1>4 DEF At
<1>7. ASSUME NEW k, k \notin keys
      PROVE  /\ OnceIn(l, k) => OnceIn(lines, k)
             /\ k \in DOMAIN parseEnvFile(l) <=> k \in DOMAIN parseEnvFile(lines)
             /\ k \in DOMAIN parseEnvFile(lines) => parseEnvFile(l)[k] = parseEnvFile(lines)[k]
  <2> DEFINE A == At(lines, "active", k)
             B == At(l, "active", k)
             m == Max(A)
  <2>1. A \subseteq kept
    BY <1>3, <1>7 DEF At
  <2>2. \A n : n \in B <=> n \in 1..c /\ Nth(kept, n) \in A
    BY <1>2, <1>4 DEF At
  <2>3. A # {} => m \in A /\ \A i \in A : i <= m
    BY PlacesFinite, Extremes
  <2>4. OnceIn(l, k) => OnceIn(lines, k)
    <3> SUFFICES ASSUME OnceIn(l, k), NEW i \in A, NEW j \in A PROVE i = j
      BY AtMostOnce
    <3>1. PICK x \in 1..c : Nth(kept, x) = i
      BY <1>4, <2>1
    <3>2. PICK y \in 1..c : Nth(kept, y) = j
      BY <1>4, <2>1
    <3>3. x \in B /\ y \in B
      BY <2>2, <3>1, <3>2
    <3>4. x = y
      BY <1>4, <3>3, AtMostOnce
    <3> QED  BY <3>1, <3>2, <3>4
  <2> HIDE DEF m, A, B
  <2>5. B = {} <=> A = {}
    <3>1. A # {} => B # {}
      BY <1>4, <2>1, <2>2
    <3> QED  BY <2>2, <3>1
  <2>6. ASSUME A # {} PROVE B # {} /\ l[Max(B)] = lines[m]
    <3>1. m \in A /\ \A i \in A : i <= m
      BY <2>3, <2>6
    <3>2. PICK n \in 1..c : Nth(kept, n) = m
      BY <1>4, <2>1, <3>1
    <3>3. n \in B /\ \A i \in B : i <= n
      BY <1>4, <2>2, <3>1, <3>2
    <3>4. B \subseteq Nat
      BY <1>4, <2>2
    <3>5. Max(B) = n
      BY <3>3, <3>4, TheMax
    <3> QED  BY <1>4, <3>2, <3>3, <3>5
  <2> QED  BY <2>4, <2>5, <2>6, ParsedKey DEF A, B, m
<1> QED  BY <1>4, <1>5, <1>6, <1>7

-----------------------------------------------------------------------------
(* Lists of words *)

\* What Packages shows: words, none of them twice.
WordList(v) ==
  /\ IsText(v)
  /\ \A i \in DOMAIN v : v[i] # Space
  /\ \A i, j \in DOMAIN v : v[i] = v[j] => i = j

LEMMA WordsSplit ==
  ASSUME NEW v, IsText(v)
  PROVE  WordList(splitPackages(v)) /\ IsText(Words(v))
<1> DEFINE I == {i \in DOMAIN v : v[i] # Space /\ \A j \in 1..i - 1 : v[j] # v[i]}
           W == {i \in DOMAIN v : v[i] # Space}
           l == splitPackages(v)
           c == Cardinality(I)
<1>1. IsText(Words(v))
  <2>1. W \in SUBSET DOMAIN v
    OBVIOUS
  <2>2. Words(v) = Selected(v, W)
    BY DEF Words
  <2> QED  BY <2>1, <2>2, Selects
<1>2. I \in SUBSET DOMAIN v /\ l = Selected(v, I) /\ DOMAIN v \subseteq Nat
  BY DEF splitPackages, IsText
<1>3. \A i \in I : v[i] # Space /\ \A j \in 1..i - 1 : v[j] # v[i]
  OBVIOUS
<1> HIDE DEF I, l, c
<1>4. /\ I \subseteq Nat /\ c \in Nat /\ IsText(l) /\ DOMAIN l = 1..c
      /\ \A n \in 1..c : Nth(I, n) \in I /\ l[n] = v[Nth(I, n)]
      /\ \A m, n \in 1..c : Nth(I, m) <= Nth(I, n) => m <= n
  BY <1>2, Selects DEF c
<1>5. ASSUME NEW i \in I, NEW j \in I, v[i] = v[j] PROVE i <= j
  <2>1. i \in Nat /\ j \in Nat /\ i # 0 /\ j # 0
    BY <1>2 DEF IsText
  <2>2. j \notin 1..i - 1
    BY <1>3, <1>5
  <2> QED  BY <2>1, <2>2
<1>6. ASSUME NEW m \in 1..c, NEW n \in 1..c, l[m] = l[n] PROVE m <= n
  <2>1. Nth(I, m) <= Nth(I, n)
    BY <1>4, <1>5, <1>6
  <2> QED  BY <1>4, <2>1
<1>7. \A m, n \in DOMAIN l : l[m] = l[n] => m = n
  <2> SUFFICES ASSUME NEW m \in 1..c, NEW n \in 1..c, l[m] = l[n] PROVE m = n
    BY <1>4
  <2>1. m <= n /\ n <= m
    BY <1>6
  <2> QED  BY <1>4, <2>1
<1>8. \A i \in DOMAIN l : l[i] # Space
  BY <1>3, <1>4
<1> QED  BY <1>1, <1>4, <1>7, <1>8 DEF WordList, l

LEMMA JoinIs ==
  ASSUME NEW w, IsText(w)
  PROVE  /\ IsText(Join(w))
         /\ w = <<>> => Join(w) = <<>>
         /\ w # <<>> => /\ Len(w) \in Nat \ {0}
                        /\ DOMAIN Join(w) = 1..2 * Len(w) - 1
                        /\ \A i \in 1..2 * Len(w) - 1 :
                             Join(w)[i] = IF i % 2 = 1 THEN w[(i + 1) \div 2] ELSE Space
<1> DEFINE c == IF w = <<>> THEN 0 ELSE 2 * Len(w) - 1
           word(i) == IF i % 2 = 1 THEN w[(i + 1) \div 2] ELSE Space
           T == {word(i) : i \in 1..c}
<1>1. Len(w) \in Nat /\ (w # <<>> => Len(w) # 0)
  BY DEF IsText
<1>2. c \in Nat
  BY <1>1
<1>3. Join(w) = [i \in 1..c |-> word(i)]
  BY DEF Join
<1> HIDE DEF word
<1>4. Join(w) \in [1..c -> T]
  BY <1>3
<1> HIDE DEF T
<1>5. Join(w) \in Seq(T)
  BY <1>2, <1>4
<1>6. IsText(Join(w))
  BY <1>5, SequenceOf
<1>7. w = <<>> => Join(w) = <<>>
  BY <1>3
<1> QED  BY <1>1, <1>3, <1>6, <1>7 DEF word

\* A list of packages is read back as it was written, in the same order.
LEMMA JoinSplits ==
  ASSUME NEW w, WordList(w)
  PROVE  splitPackages(Join(w)) = w
<1> DEFINE J == Join(w)
           I == {i \in DOMAIN J : J[i] # Space /\ \A j \in 1..i - 1 : J[j] # J[i]}
           c == Len(w)
           f == [n \in 1..c |-> 2 * n - 1]
<1>1. IsText(w) /\ c \in Nat /\ DOMAIN w = 1..c
  BY DEF WordList, IsText
<1>2. splitPackages(J) = [n \in 1..Cardinality(I) |-> J[Nth(I, n)]]
  BY DEF splitPackages, Selected
<1>3. CASE w = <<>>
  <2>1. J = <<>>
    BY <1>1, <1>3, JoinIs
  <2>2. I = {}
    BY <2>1
  <2>3. Cardinality(I) = 0
    BY <2>2, FS_EmptySet
  <2> HIDE DEF I, J
  <2>4. splitPackages(J) = <<>>
    BY <1>2, <2>3
  <2> QED  BY <1>3, <2>4 DEF J
<1>4. CASE w # <<>>
  <2>1. /\ c \in Nat \ {0} /\ DOMAIN J = 1..2 * c - 1
        /\ \A i \in 1..2 * c - 1 : J[i] = IF i % 2 = 1 THEN w[(i + 1) \div 2] ELSE Space
    BY <1>1, <1>4, JoinIs
  <2> HIDE DEF J, c
  <2>2. ASSUME NEW n \in 1..c PROVE 2 * n - 1 \in 1..2 * c - 1 /\ J[2 * n - 1] = w[n]
    <3>1. 2 * n - 1 \in 1..2 * c - 1 /\ (2 * n - 1) % 2 = 1 /\ (2 * n - 1 + 1) \div 2 = n
      BY <2>1, <2>2
    <3> QED  BY <2>1, <3>1
  <2>3. ASSUME NEW i \in 1..2 * c - 1, J[i] # Space
        PROVE  \E n \in 1..c : i = 2 * n - 1
    <3>1. i % 2 = 1
      BY <2>1, <2>3
    <3>2. (i + 1) \div 2 \in 1..c /\ i = 2 * ((i + 1) \div 2) - 1
      BY <2>1, <3>1
    <3> QED  BY <3>2
  <2>4. \A n \in 1..c : w[n] # Space
    BY <1>1 DEF WordList
  <2>5. \A m, n \in 1..c : w[m] = w[n] => m = n
    BY <1>1 DEF WordList
  <2>6. ASSUME NEW n \in 1..c, NEW j \in 1..(2 * n - 1) - 1 PROVE J[j] # J[2 * n - 1]
    <3>1. j \in 1..2 * c - 1 /\ J[2 * n - 1] = w[n] /\ w[n] # Space
      BY <2>1, <2>2, <2>4
    <3>2. CASE J[j] = Space
      BY <3>1, <3>2
    <3>3. CASE J[j] # Space
      <4>1. PICK m \in 1..c : j = 2 * m - 1
        BY <2>3, <3>1, <3>3
      <4>2. J[j] = w[m] /\ m # n
        BY <2>1, <2>2, <4>1
      <4> QED  BY <2>5, <3>1, <4>2
    <3> QED  BY <3>2, <3>3
  <2>7. I = {2 * n - 1 : n \in 1..c}
    <3>1. \A i \in I : i \in {2 * n - 1 : n \in 1..c}
      BY <2>1, <2>3
    <3>2. \A n \in 1..c : 2 * n - 1 \in I
      BY <2>1, <2>2, <2>4, <2>6
    <3> HIDE DEF I
    <3> QED  BY <3>1, <3>2
  <2> HIDE DEF I
  <2>8. f \in [1..c -> Nat] /\ \A m, n \in 1..c : m < n => f[m] < f[n]
    <3>1. \A n \in 1..c : 2 * n - 1 \in Nat
      BY <2>1
    <3>2. \A m, n \in 1..c : m < n => 2 * m - 1 < 2 * n - 1
      BY <2>1
    <3> QED  BY <3>1, <3>2
  <2>9. I = {f[n] : n \in 1..c} /\ \A n \in 1..c : f[n] = 2 * n - 1
    BY <2>7
  <2> HIDE DEF f
  <2>a. Cardinality(I) = c /\ \A n \in 1..c : Nth(I, n) = f[n]
    BY <1>1, <2>8, <2>9, Enumerated DEF c
  <2>b. \A n \in 1..c : J[Nth(I, n)] = w[n]
    BY <2>2, <2>9, <2>a
  <2>c. splitPackages(J) = [n \in 1..c |-> w[n]]
    BY <1>2, <2>a, <2>b
  <2>d. w = [n \in 1..c |-> w[n]]
    BY <1>1 DEF IsText
  <2> QED  BY <2>c, <2>d DEF J
<1> QED  BY <1>3, <1>4

-----------------------------------------------------------------------------
(* Values and what is shown of them *)

IsShown(k, v) == IF k = Pkgs THEN WordList(v) ELSE IsText(v)

\* What the lines say of a key is v, or nothing, unless they say it twice.
Agrees(l, k, v, there) ==
  IF there THEN OnceIn(l, k) => k \in DOMAIN parseEnvFile(l) /\ Shown(k, parseEnvFile(l)[k]) = v
  ELSE k \notin DOMAIN parseEnvFile(l)

\* Lines that assign a key in the same places, to the same texts, say the same of it.
LEMMA SameSaid ==
  ASSUME NEW old, IsText(old), NEW l, NEW k, NEW v, NEW there,
         At(l, "active", k) = At(old, "active", k), \A i \in At(old, "active", k) : l[i] = old[i],
         Agrees(old, k, v, there)
  PROVE  Agrees(l, k, v, there)
<1> DEFINE A == At(old, "active", k)
<1>1. OnceIn(l, k) <=> OnceIn(old, k)
  BY DEF OnceIn
<1>2. k \in DOMAIN parseEnvFile(l) <=> k \in DOMAIN parseEnvFile(old)
  BY ParsedKey
<1>3. ASSUME k \in DOMAIN parseEnvFile(old) PROVE parseEnvFile(l)[k] = parseEnvFile(old)[k]
  <2>1. A # {} /\ parseEnvFile(old)[k] = stripQuotes(old[Max(A)].text)
    BY <1>3, ParsedKey
  <2>2. Max(A) \in A
    BY <2>1, PlacesFinite, Extremes
  <2>3. parseEnvFile(l)[k] = stripQuotes(l[Max(A)].text)
    BY <1>2, <1>3, ParsedKey
  <2>4. l[Max(A)] = old[Max(A)]
    BY <2>2
  <2> QED  BY <2>1, <2>3, <2>4
<1> QED  BY <1>1, <1>2, <1>3 DEF Agrees

LEMMA TextsParsed ==
  ASSUME NEW l, IsText(l), HasTexts(l), NEW k \in DOMAIN parseEnvFile(l)
  PROVE  IsText(parseEnvFile(l)[k])
<1> DEFINE A == At(l, "active", k)
<1>1. A # {} /\ parseEnvFile(l)[k] = stripQuotes(l[Max(A)].text)
  BY ParsedKey
<1>2. Max(A) \in A
  BY <1>1, PlacesFinite, Extremes
<1>3. PICK s : s = l[Max(A)].text
  OBVIOUS
<1>4. IsText(s)
  BY <1>2, <1>3 DEF HasTexts, At
<1>5. IsText(stripQuotes(s))
  <2>1. stripQuotes(s) = s \/ (Len(s) >= 2 /\ stripQuotes(s) = SubSeq(s, 2, Len(s) - 1))
    BY DEF stripQuotes
  <2>2. PICK T : s \in Seq(T)
    BY <1>4 DEF IsText
  <2>3. Len(s) >= 2 => SubSeq(s, 2, Len(s) - 1) \in Seq(T)
    BY <2>2
  <2> QED  BY <1>4, <2>1, <2>3, SequenceOf
<1> QED  BY <1>1, <1>3, <1>5

LEMMA TextsQuoted ==
  ASSUME NEW v, IsText(v)
  PROVE  IsText(quoteEnvValue(v)) /\ stripQuotes(quoteEnvValue(v)) = v
<1>1. PICK T : v \in Seq(T)
  BY DEF IsText
<1>2. stripQuotes(quoteEnvValue(v)) = v
  BY <1>1, QuotesRoundTrip
<1>3. quoteEnvValue(v) = v \/ \E q \in {SQ, DQ} : quoteEnvValue(v) = <<q>> \o v \o <<q>>
  BY DEF quoteEnvValue
<1>4. ASSUME NEW q PROVE IsText(<<q>> \o v \o <<q>>)
  <2> DEFINE U == T \cup {q}
  <2>1. v \in Seq(U) /\ <<q>> \in Seq(U)
    BY <1>1
  <2> HIDE DEF U
  <2>2. <<q>> \o v \o <<q>> \in Seq(U)
    BY <2>1
  <2> QED  BY <2>2, SequenceOf
<1> QED  BY <1>2, <1>3, <1>4

\* What is written of a value that is shown is shown again as it was.
LEMMA WrittenShown ==
  ASSUME NEW k, NEW v, IsShown(k, v)
  PROVE  IsText(Written(k, v)) /\ Shown(k, stripQuotes(quoteEnvValue(Written(k, v)))) = v
<1>1. CASE k = Pkgs
  <2>1. WordList(v)
    BY <1>1 DEF IsShown
  <2>2. IsText(Join(v)) /\ splitPackages(Join(v)) = v
    BY <2>1, JoinIs, JoinSplits DEF WordList
  <2> QED  BY <1>1, <2>2, TextsQuoted DEF Written, Shown
<1>2. CASE k # Pkgs
  BY <1>2, TextsQuoted DEF IsShown, Written, Shown
<1> QED  BY <1>1, <1>2

LEMMA TextsShown ==
  ASSUME NEW k, NEW v, IsText(v)
  PROVE  IsShown(k, Shown(k, v))
BY WordsSplit DEF IsShown, Shown

\* What was set in lines is what they say, and the others are said as before.
LEMMA SetAgrees ==
  ASSUME NEW old, IsText(old), HasTexts(old), NEW values, IsFiniteSet(DOMAIN values),
         \A k \in DOMAIN values : IsText(values[k]),
         NEW l, l = SetEnvValues(old, values)
  PROVE  /\ HasTexts(l)
         /\ \A k \in DOMAIN values : \A v : Shown(k, values[k]) = v => Agrees(l, k, v, TRUE)
         /\ \A k, v, there : k \notin DOMAIN values /\ Agrees(old, k, v, there) => Agrees(l, k, v, there)
<1>1. /\ IsText(l)
      /\ \A k : k \notin DOMAIN values =>
           At(l, "active", k) = At(old, "active", k) /\ \A i \in At(old, "active", k) : l[i] = old[i]
      /\ \A k \in DOMAIN values : \E i \in At(l, "active", k) : l[i] = Assignment(k, values[k])
      /\ \A i \in DOMAIN l : \/ i \in DOMAIN old /\ l[i] = old[i]
                             \/ \E k \in DOMAIN values : l[i] = Assignment(k, values[k])
                             \/ l[i] = Blank
  BY SetKeeps
<1>2. \A k \in DOMAIN values : Assignment(k, values[k]).text = quoteEnvValue(values[k])
  BY DEF Assignment, Line
<1>3. HasTexts(l)
  <2> SUFFICES ASSUME NEW i \in DOMAIN l, l[i].kind = "active" PROVE IsText(l[i].text)
    BY DEF HasTexts
  <2>1. CASE i \in DOMAIN old /\ l[i] = old[i]
    BY <2>1 DEF HasTexts
  <2>2. ASSUME NEW k \in DOMAIN values, l[i] = Assignment(k, values[k]) PROVE IsText(l[i].text)
    BY <1>2, <2>2, TextsQuoted
  <2>3. l[i] # Blank
    BY DEF Blank
  <2> QED  BY <1>1, <2>1, <2>2, <2>3
<1>4. ASSUME NEW k \in DOMAIN values, NEW v, Shown(k, values[k]) = v, OnceIn(l, k)
      PROVE  k \in DOMAIN parseEnvFile(l) /\ Shown(k, parseEnvFile(l)[k]) = v
  <2> DEFINE A == At(l, "active", k)
  <2>1. PICK i \in A : l[i] = Assignment(k, values[k])
    BY <1>1
  <2>2. A = {i} /\ A \subseteq Nat
    BY <1>1, <1>4, <2>1, AtMostOnce, PlacesFinite
  <2>3. \A j \in A : j <= i
    BY <2>2
  <2> HIDE DEF A
  <2>4. Max(A) = i
    BY <2>2, <2>3, TheMax
  <2>5. k \in DOMAIN parseEnvFile(l) /\ parseEnvFile(l)[k] = stripQuotes(l[i].text)
    BY <2>1, <2>4, ParsedKey DEF A
  <2>6. stripQuotes(l[i].text) = values[k]
    BY <1>2, <2>1, TextsQuoted
  <2> QED  BY <1>4, <2>5, <2>6
<1>5. ASSUME NEW k, NEW v, NEW there, k \notin DOMAIN values, Agrees(old, k, v, there)
      PROVE  Agrees(l, k, v, there)
  BY <1>1, <1>5, SameSaid
<1> QED  BY <1>3, <1>4, <1>5 DEF Agrees

\* The commented lines of a template can be put in an order.
LEMMA CommentsListed ==
  ASSUME NEW K \in SUBSET Keys
  PROVE  LET C == {Line("comment", k, <<"default">>) : k \in K}
         IN  SetToSeq(C) \in Seq(C)
<1> DEFINE C == {Line("comment", k, <<"default">>) : k \in K}
           f == [k \in K |-> Line("comment", k, <<"default">>)]
<1>1. IsFiniteSet(K)
  BY FS_Subset, LayersAssumption DEF LayersAssumption
<1>2. f \in Surjection(K, C)
  BY DEF Surjection
<1>3. IsFiniteSet(C)
  BY <1>1, <1>2, FS_Surjection
<1> QED  BY <1>3, Listed

\* A file made from its template is as good as none.
LEMMA TemplateSaysNothing ==
  ASSUME NEW s
  PROVE  /\ Parse(File(Template(s))) = Parse(Absent) /\ IsFile(File(Template(s)))
         /\ \A i \in DOMAIN Template(s) : Template(s)[i].kind # "active"
<1> DEFINE K == IF s = "own" THEN OwnKeys ELSE JailKeys
           C == {Line("comment", k, <<"default">>) : k \in K}
           D == C \cup {Prose}
<1>1. K \in SUBSET Keys
  BY DEF Keys
<1>2. SetToSeq(C) \in Seq(C)
  BY <1>1, CommentsListed
<1>3. Template(s) = <<Prose>> \o SetToSeq(C)
  BY DEF Template
<1>4. \A d \in D : d.kind # "active"
  BY DEF Line, Prose
<1> HIDE DEF C
<1>5. SetToSeq(C) \in Seq(D) /\ <<Prose>> \in Seq(D)
  BY <1>2
<1> HIDE DEF D
<1>6. Template(s) \in Seq(D)
  BY <1>3, <1>5
<1>7. \A i \in DOMAIN Template(s) : Template(s)[i].kind # "active"
  BY <1>4, <1>6
<1>8. parseEnvFile(Template(s)) = parseEnvFile(<<>>)
  BY <1>7, NothingActive
<1>9. IsText(Template(s))
  BY <1>6, SequenceOf
<1> QED  BY <1>7, <1>8, <1>9 DEF Parse, File, Absent, IsFile, IsText

\* So making files from their templates leaves the configuration as it is.
LEMMA MadeSaysNothing ==
  ASSUME NEW ss, DOMAIN file = {"global", "own", "project"}, \A s \in DOMAIN file : IsFile(file[s])
  PROVE  LoadConfig(Made(ss), environ) = LoadConfig(file, environ)
<1>1. \A s \in {"global", "own", "project"} : Parse(Made(ss)[s]) = Parse(file[s])
  <2>1. \A s \in DOMAIN file : ~file[s].there => file[s] = Absent
    BY DEF IsFile, File
  <2> QED  BY <2>1, TemplateSaysNothing DEF Made
<1> QED  BY <1>1 DEF LoadConfig
-----------------------------------------------------------------------------
(* The editors *)

Fields == {"cfg", "scope", "value", "saved", "present", "was", "confirmed"}

\* Which editors are open, and that those have all their fields.
Screens ==
  /\ DOMAIN file = {"global", "own", "project"}
  /\ screen \in Editors \cup {"hub"}
  /\ DOMAIN ed = Editors
  /\ \A e \in Editors : Open(e) => DOMAIN ed[e] = Fields /\ Scope(e) \in Scopes
  /\ screen = "hub" <=> ~Open("settings")
  /\ screen # "packages" => ~Open("packages")
  /\ screen \in Editors => Open(screen)

\* An editor that has refused an esc is on the screen, and that esc was the last key.
Guarded == \A e \in Editors : Open(e) /\ ed[e].confirmed => screen = e /\ warned

EditorInv == Screens /\ Guarded

\* Loading fields opens an editor afresh.
LEMMA BuildsFields ==
  ASSUME NEW e, NEW c, NEW s \in Scopes
  PROVE  /\ DOMAIN buildFields(e, c, s) = Fields
         /\ buildFields(e, c, s).scope = s
         /\ buildFields(e, c, s).confirmed = FALSE
         /\ buildFields(e, c, s) # Closed
BY DEF buildFields, Fields, Scopes, Closed

LEMMA EditorInit == Init => EditorInv
<1> SUFFICES ASSUME Init PROVE EditorInv
  OBVIOUS
<1>1. DOMAIN file = {"global", "own", "project"}
  BY SettingsAssumption DEF SettingsAssumption, Init
<1> QED  BY <1>1 DEF EditorInv, Screens, Guarded, Open, Editors, Init

\* The action of NoSilentLoss, and the stronger one of all steps but two.
LosesNothing == \A e \in Editors : (Open(e) /\ Dirty(e)) =>
  \/ ed'[e] # Closed /\ ed'[e].scope = ed[e].scope
  \/ warned

Kept == \A e \in Editors : Open(e) => ed'[e] # Closed /\ ed'[e].scope = ed[e].scope

\* A key that changes fields of the editor on the screen, and nothing else of it.
LEMMA EditKeeps ==
  ASSUME EditorInv, NEW e \in Editors, screen = e,
         DOMAIN file' = DOMAIN file, screen' = screen,
         DOMAIN ed' = Editors,
         \A d \in Editors \ {e} : ed'[d] = ed[d],
         DOMAIN ed'[e] = DOMAIN ed[e], ed'[e].scope = ed[e].scope,
         ed'[e].confirmed => warned'
  PROVE  EditorInv' /\ Kept
<1>1. Open(e) /\ \A d \in Editors \ {e} : Open(d)' <=> Open(d)
  BY DEF EditorInv, Screens, Open
<1>2. ed'[e].scope \in Scopes /\ DOMAIN ed'[e] = Fields
  BY <1>1 DEF EditorInv, Screens, Scope
<1>3. Open(e)'
  BY <1>2 DEF Open, Closed, Scopes
<1>4. Screens'
  BY <1>1, <1>2, <1>3 DEF EditorInv, Screens, Scope, Editors
<1>5. Guarded'
  BY <1>1 DEF EditorInv, Guarded
<1>6. Kept
  BY <1>1, <1>3 DEF Kept, Open
<1> QED  BY <1>4, <1>5, <1>6 DEF EditorInv

\* Every key that puts a value in a field is one of them.
LEMMA PutKeeps ==
  ASSUME EditorInv, NEW e \in Editors, screen = e, NEW k, NEW v, NEW there,
         Put(e, k, v, there)
  PROVE  EditorInv' /\ Kept
<1>1. DOMAIN ed = Editors /\ DOMAIN ed[e] = Fields
  BY DEF EditorInv, Screens
<1>2. /\ DOMAIN ed' = Editors
      /\ \A d \in Editors \ {e} : ed'[d] = ed[d]
      /\ DOMAIN ed'[e] = DOMAIN ed[e]
      /\ ed'[e].scope = ed[e].scope
      /\ ed'[e].confirmed = FALSE
  BY <1>1 DEF Put, Fields
<1>3. file' = file /\ screen' = screen
  BY DEF Put
<1> QED  BY <1>2, <1>3, EditKeeps

\* A step that leaves the editors alone.
LEMMA NoEditKeeps ==
  ASSUME EditorInv, UNCHANGED <<screen, ed, warned>>, DOMAIN file' = DOMAIN file
  PROVE  EditorInv' /\ Kept
BY DEF EditorInv, Screens, Guarded, Kept, Open, Scope

LEMMA PutKeysKeep ==
  ASSUME EditorInv,
         \/ AddPackages \/ DeletePackage
         \/ \E k \in JailKeys : Toggle(k) \/ Type(k)
         \/ \E e \in Editors : \E k \in KeysOf(e) : ClearOverride(e, k)
  PROVE  EditorInv' /\ Kept
<1>1. CASE AddPackages
  BY <1>1, PutKeeps DEF AddPackages, Pressed, Editors
<1>2. CASE DeletePackage
  BY <1>2, PutKeeps DEF DeletePackage, Pressed, Editors
<1>3. ASSUME NEW k \in JailKeys, Toggle(k) PROVE EditorInv' /\ Kept
  BY <1>3, PutKeeps DEF Toggle, Pressed, Editors
<1>4. ASSUME NEW k \in JailKeys, Type(k) PROVE EditorInv' /\ Kept
  BY <1>4, PutKeeps DEF Type, Pressed, Editors
<1>5. ASSUME NEW e \in Editors, NEW k \in KeysOf(e), ClearOverride(e, k)
      PROVE  EditorInv' /\ Kept
  BY <1>5, PutKeeps DEF ClearOverride, Pressed
<1> QED  BY <1>1, <1>2, <1>3, <1>4, <1>5

LEMMA OtherKeysKeep ==
  ASSUME EditorInv, NEW e \in Editors, OtherKey(e) \/ Revert(e) \/ Save(e)
  PROVE  EditorInv' /\ Kept
<1>1. screen = e /\ screen' = screen /\ warned' = FALSE
  BY DEF OtherKey, Revert, Save, Pressed
<1>2. DOMAIN ed = Editors /\ DOMAIN ed[e] = Fields
  BY <1>1 DEF EditorInv, Screens
<1>3. /\ DOMAIN ed' = Editors
      /\ \A d \in Editors \ {e} : ed'[d] = ed[d]
      /\ DOMAIN ed'[e] = DOMAIN ed[e]
      /\ ed'[e].scope = ed[e].scope
      /\ ed'[e].confirmed = FALSE
  BY <1>2 DEF OtherKey, Revert, Save, Fields
<1>4. DOMAIN file' = DOMAIN file
  BY DEF OtherKey, Revert, Save, Made
<1> QED  BY <1>1, <1>3, <1>4, EditKeeps

LEMMA SavingKeeps ==
  ASSUME EditorInv, NEW e \in Editors, Saving(e)
  PROVE  EditorInv' /\ Kept
<1>1. screen = e /\ UNCHANGED <<screen, warned>> /\ DOMAIN file' = DOMAIN file
  BY DEF Saving, SetRead, SetWrite, UnsetRead, UnsetWrite, SaveSteps
<1>2. ed' = ed \/ Finish(e)
  BY DEF Saving, SetRead, SetWrite, UnsetRead, UnsetWrite, Fail
<1>3. CASE ed' = ed
  BY <1>1, <1>3, NoEditKeeps
<1>4. CASE Finish(e)
  <2>1. DOMAIN ed = Editors /\ DOMAIN ed[e] = Fields
    BY <1>1 DEF EditorInv, Screens
  <2>2. /\ DOMAIN ed' = Editors
        /\ \A d \in Editors \ {e} : ed'[d] = ed[d]
        /\ DOMAIN ed'[e] = DOMAIN ed[e]
        /\ ed'[e].scope = ed[e].scope
        /\ ed'[e].confirmed = ed[e].confirmed
    BY <1>4, <2>1 DEF Finish, Fields
  <2>3. ed[e].confirmed => warned
    BY <1>1 DEF EditorInv, Screens, Guarded
  <2> QED  BY <1>1, <2>2, <2>3, EditKeeps
<1> QED  BY <1>2, <1>3, <1>4

LEMMA OpeningKeeps ==
  ASSUME EditorInv, OpenSettings \/ OpenPackages
  PROVE  EditorInv' /\ Kept
<1>1. DOMAIN ed = Editors /\ screen \in Editors \cup {"hub"}
  BY DEF EditorInv, Screens
<1>2. CASE OpenSettings
  <2>1. /\ screen = "hub" /\ screen' = "settings" /\ file' = file
        /\ ed' = [ed EXCEPT !.settings = buildFields("settings", cfg, "global")]
    BY <1>2 DEF OpenSettings, Pressed, Load
  <2>2. \A d \in Editors : ~Open(d)
    BY <2>1 DEF EditorInv, Screens, Editors
  <2>3. /\ DOMAIN ed' = Editors
        /\ ed'["settings"] = buildFields("settings", cfg, "global")
        /\ ed'["packages"] = ed["packages"]
    BY <1>1, <2>1 DEF Editors
  <2>4. Open("settings")' /\ ~Open("packages")'
    BY <2>2, <2>3, BuildsFields DEF Open, Scopes, Editors
  <2>5. Screens'
    BY <2>1, <2>3, <2>4, BuildsFields DEF EditorInv, Screens, Scope, Scopes, Editors
  <2>6. Guarded'
    BY <2>3, <2>4, BuildsFields DEF Guarded, Scopes, Editors
  <2> QED  BY <2>2, <2>5, <2>6 DEF EditorInv, Kept
<1>3. CASE OpenPackages
  <2> DEFINE f == [ed EXCEPT !.settings.confirmed = FALSE]
  <2>1. /\ screen = "settings" /\ screen' = "packages" /\ file' = file
        /\ ed' = [f EXCEPT !.packages = buildFields("packages", cfg, "global")]
    BY <1>3 DEF OpenPackages, Pressed, Load
  <2>2. Open("settings") /\ ~Open("packages") /\ DOMAIN ed["settings"] = Fields
        /\ ed["settings"].scope \in Scopes
    BY <2>1 DEF EditorInv, Screens, Editors, Scope
  <2>3. /\ DOMAIN ed' = Editors
        /\ ed'["packages"] = buildFields("packages", cfg, "global")
        /\ DOMAIN ed'["settings"] = Fields
        /\ ed'["settings"].scope = ed["settings"].scope
        /\ ed'["settings"].confirmed = FALSE
    BY <1>1, <2>1, <2>2 DEF Editors, Fields
  <2>a. /\ DOMAIN ed'["packages"] = Fields
        /\ ed'["packages"].scope = "global"
        /\ ed'["packages"].confirmed = FALSE
        /\ ed'["packages"] # Closed
    BY <2>3, BuildsFields DEF Scopes
  <2>b. ed'["settings"] # Closed
    BY <2>2, <2>3 DEF Closed, Scopes
  <2>4. Open("settings")' /\ Open("packages")'
    BY <2>a, <2>b DEF Open
  <2>5. Screens'
    BY <2>1, <2>2, <2>3, <2>4, <2>a DEF EditorInv, Screens, Scope, Scopes, Editors
  <2>6. Guarded'
    BY <2>3, <2>a DEF Guarded, Editors
  <2>7. Kept
    BY <2>2, <2>3, <2>4 DEF Kept, Open, Editors
  <2> QED  BY <2>5, <2>6, <2>7 DEF EditorInv
<1> QED  BY <1>2, <1>3

LEMMA ToggleScopeLoses ==
  ASSUME EditorInv, NEW e \in Editors, ToggleScope(e)
  PROVE  EditorInv' /\ LosesNothing
<1> DEFINE s == IF ed[e].scope = "global" THEN "project" ELSE "global"
<1>1. /\ screen = e /\ screen' = screen /\ file' = file /\ ~Dirty(e)
      /\ ed' = [ed EXCEPT ![e] = buildFields(e, ed[e].cfg, s)]
  BY DEF ToggleScope, Pressed, Load
<1>2. DOMAIN ed = Editors /\ Open(e)
  BY <1>1 DEF EditorInv, Screens
<1>3. s \in Scopes
  BY DEF Scopes
<1>4. /\ DOMAIN ed' = Editors
      /\ \A d \in Editors \ {e} : ed'[d] = ed[d]
      /\ DOMAIN ed'[e] = Fields
      /\ ed'[e].scope = s
      /\ ed'[e].confirmed = FALSE
      /\ ed'[e] # Closed
  BY <1>1, <1>2, <1>3, BuildsFields
<1>5. Open(e)' /\ \A d \in Editors \ {e} : Open(d)' <=> Open(d)
  BY <1>4 DEF Open
<1>6. Screens'
  BY <1>1, <1>2, <1>3, <1>4, <1>5 DEF EditorInv, Screens, Scope, Editors
<1>7. Guarded'
  BY <1>1, <1>4, <1>5 DEF EditorInv, Guarded
<1>8. LosesNothing
  BY <1>1, <1>4 DEF LosesNothing, Open
<1> QED  BY <1>6, <1>7, <1>8 DEF EditorInv

LEMMA EscLoses ==
  ASSUME EditorInv, NEW e \in Editors, Esc(e)
  PROVE  EditorInv' /\ LosesNothing
<1>1. screen = e /\ file' = file
  BY DEF Esc, Pressed
<1>2. DOMAIN ed = Editors /\ Open(e) /\ DOMAIN ed[e] = Fields
  BY <1>1 DEF EditorInv, Screens
<1>3. CASE ed' = [ed EXCEPT ![e].confirmed = TRUE] /\ warned' = TRUE /\ screen' = screen
  <2>1. /\ DOMAIN ed' = Editors
        /\ \A d \in Editors \ {e} : ed'[d] = ed[d]
        /\ DOMAIN ed'[e] = DOMAIN ed[e]
        /\ ed'[e].scope = ed[e].scope
    BY <1>2, <1>3 DEF Fields
  <2>2. EditorInv' /\ Kept
    BY <1>1, <1>3, <2>1, EditKeeps
  <2> QED  BY <2>2 DEF Kept, LosesNothing
<1>4. CASE /\ ~Dirty(e) \/ ed[e].confirmed
           /\ ed' = [ed EXCEPT ![e] = Closed]
           /\ screen' = IF e = "packages" THEN "settings" ELSE "hub"
  <2>1. /\ DOMAIN ed' = Editors
        /\ \A d \in Editors \ {e} : ed'[d] = ed[d]
        /\ ed'[e] = Closed
    BY <1>2, <1>4
  <2>2. ~Open(e)' /\ \A d \in Editors \ {e} : Open(d)' <=> Open(d)
    BY <2>1 DEF Open
  <2>3. Screens'
    BY <1>1, <1>4, <2>1, <2>2 DEF EditorInv, Screens, Scope, Editors
  <2>4. Guarded'
    BY <1>1, <2>1, <2>2 DEF EditorInv, Guarded
  <2>5. Dirty(e) => warned
    BY <1>2, <1>4 DEF EditorInv, Guarded
  <2>6. \A d \in Editors \ {e} : Open(d) => ed'[d] # Closed /\ ed'[d].scope = ed[d].scope
    BY <2>1, <2>2 DEF Open
  <2>7. LosesNothing
    BY <2>5, <2>6 DEF LosesNothing
  <2> QED  BY <2>3, <2>4, <2>7 DEF EditorInv
<1> QED  BY <1>3, <1>4 DEF Esc

LEMMA EditorStep ==
  ASSUME EditorInv, [Next]_vars
  PROVE  EditorInv' /\ [LosesNothing]_vars
<1>0. Kept => LosesNothing
  BY DEF Kept, LosesNothing
<1>1. CASE UNCHANGED vars
  <2>1. UNCHANGED <<screen, ed, warned>> /\ DOMAIN file' = DOMAIN file
    BY <1>1 DEF vars, history
  <2> QED  BY <1>1, <2>1, NoEditKeeps
<1>2. CASE OpenSettings \/ OpenPackages
  BY <1>0, <1>2, OpeningKeeps
<1>3. CASE \/ AddPackages \/ DeletePackage
           \/ \E k \in JailKeys : Toggle(k) \/ Type(k)
           \/ \E e \in Editors : \E k \in KeysOf(e) : ClearOverride(e, k)
  BY <1>0, <1>3, PutKeysKeep
<1>4. ASSUME NEW e \in Editors, OtherKey(e) \/ Revert(e) \/ Save(e)
      PROVE  EditorInv' /\ LosesNothing
  BY <1>0, <1>4, OtherKeysKeep
<1>5. ASSUME NEW e \in Editors, ToggleScope(e) PROVE EditorInv' /\ LosesNothing
  BY <1>5, ToggleScopeLoses
<1>6. ASSUME NEW e \in Editors, Esc(e) PROVE EditorInv' /\ LosesNothing
  BY <1>6, EscLoses
<1>7. ASSUME NEW e \in Editors, Saving(e) PROVE EditorInv' /\ LosesNothing
  BY <1>0, <1>7, SavingKeeps
<1>8. CASE LoadAgain \/ LoadFails \/ ConfigReloaded \/ OtherProcess
  <2>1. UNCHANGED <<screen, ed, warned>> /\ DOMAIN file' = DOMAIN file
    BY <1>8 DEF LoadAgain, LoadFails, ConfigReloaded, OtherProcess, history
  <2> QED  BY <1>0, <2>1, NoEditKeeps
<1> QED  BY <1>1, <1>2, <1>3, <1>4, <1>5, <1>6, <1>7, <1>8 DEF Next, Key

\* Which editors are open under which, and that a refused esc was the last key.
THEOREM EditorInvariant == Spec => []EditorInv
<1>1. Init => EditorInv
  BY EditorInit
<1>2. EditorInv /\ [Next]_vars => EditorInv'
  BY EditorStep
<1> QED  BY <1>1, <1>2, PTL DEF Spec

\* No sequence of keys, saves, reloads and other writers drops an edit that was not
\* saved, except an esc right after one that was refused with a warning.
THEOREM NoLossUnannounced == Spec => NoSilentLoss
<1>1. EditorInv /\ [Next]_vars => [LosesNothing]_vars
  BY EditorStep
<1>2. [][LosesNothing]_vars => NoSilentLoss
  BY DEF LosesNothing, NoSilentLoss
<1> QED  BY <1>1, <1>2, EditorInvariant, PTL DEF Spec
-----------------------------------------------------------------------------
(* What the state is made of *)

Writing == save.step \in {"setWrite", "unsetWrite"}

FilesOK ==
  /\ \A s \in DOMAIN file : IsFile(file[s])
  /\ Writing => IsText(save.lines)

FieldsOK == \A e \in Editors : Open(e) =>
  /\ DOMAIN ed[e].value = KeysOf(e) /\ DOMAIN ed[e].saved = KeysOf(e)
  /\ ed[e].present \in [KeysOf(e) -> BOOLEAN] /\ ed[e].was \in [KeysOf(e) -> BOOLEAN]

ConfigsOK == \A c \in ready \cup {cfg} : c.overridden \subseteq JailKeys /\ DOMAIN c.value = Keys

\* A save may begin when there is room for the reload it asks for in the end.
Bounded ==
  /\ IsFiniteSet(ready) /\ asked \in Nat /\ writers \in Nat /\ writers <= MaxWriters
  /\ asked + Cardinality(ready) <= MaxReloads
  /\ save # Saved => asked + Cardinality(ready) < MaxReloads

Busy == save # Saved => screen \in Editors /\ Dirty(screen)

Marked ==
  /\ {cfgErr, warned, outrun} \subseteq BOOLEAN
  /\ stirred \subseteq {e \in Editors : Open(e)} /\ stale \subseteq {e \in Editors : Open(e)}
  /\ foreign \subseteq Others

StateInv == FilesOK /\ FieldsOK /\ ConfigsOK /\ Bounded /\ Busy /\ Marked

\* The keys but s leave the files and what is under way alone.
LEMMA QuietKeys ==
  ASSUME Key, \A e \in Editors : ~Save(e)
  PROVE  /\ save = Saved /\ save' = Saved
         /\ UNCHANGED <<file, environ, cfgVars, writers, outrun, foreign>>
<1>1. CASE OpenSettings \/ OpenPackages
  BY <1>1 DEF OpenSettings, OpenPackages, Pressed
<1>2. CASE AddPackages \/ DeletePackage
  BY <1>2 DEF AddPackages, DeletePackage, Put, Pressed
<1>3. CASE \E k \in JailKeys : Toggle(k) \/ Type(k)
  BY <1>3 DEF Toggle, Type, Put, Pressed
<1>4. CASE \E e \in Editors : \E k \in KeysOf(e) : ClearOverride(e, k)
  BY <1>4 DEF ClearOverride, Put, Pressed
<1>5. CASE \E e \in Editors : OtherKey(e) \/ Revert(e) \/ ToggleScope(e) \/ Esc(e)
  BY <1>5 DEF OtherKey, Revert, ToggleScope, Esc, Pressed
<1> QED  BY <1>1, <1>2, <1>3, <1>4, <1>5 DEF Key

LEMMA KeysFinite ==
  ASSUME NEW e \in Editors
  PROVE  IsFiniteSet(Setting(e)) /\ Setting(e) \subseteq Changed(e) /\ Changed(e) \subseteq JailKeys
<1>1. IsFiniteSet(Keys) /\ JailKeys \in SUBSET Keys /\ Pkgs \in JailKeys
  BY LayersAssumption, SettingsAssumption DEF LayersAssumption, SettingsAssumption, Keys
<1>2. Setting(e) \subseteq Changed(e) /\ Changed(e) \subseteq JailKeys
  BY <1>1 DEF Setting, Changed, KeysOf
<1> QED  BY <1>1, <1>2, FS_Subset

\* A key that is set in a file, by another process.
LEMMA OtherSets ==
  ASSUME NEW old, IsText(old), NEW k, NEW v
  PROVE  LET lines == SetEnvValues(old, [x \in {k} |-> v]) IN
         /\ IsFile(File(lines)) /\ k \in DOMAIN parseEnvFile(lines)
         /\ \A x : (x # k /\ x \in DOMAIN parseEnvFile(old)) =>
              x \in DOMAIN parseEnvFile(lines) /\ parseEnvFile(lines)[x] = parseEnvFile(old)[x]
<1> DEFINE values == [x \in {k} |-> v]
           lines == SetEnvValues(old, values)
<1>1. DOMAIN values = {k} /\ IsFiniteSet(DOMAIN values) /\ k \in DOMAIN values
  BY FS_Singleton
<1> HIDE DEF values
<1>2. IsText(lines) /\ At(lines, "active", k) # {}
  BY <1>1, SetKeeps
<1>3. \A x : (x # k /\ x \in DOMAIN parseEnvFile(old)) =>
         x \in DOMAIN parseEnvFile(lines) /\ parseEnvFile(lines)[x] = parseEnvFile(old)[x]
  BY <1>1, SetSpares
<1>4. k \in DOMAIN parseEnvFile(lines)
  BY <1>2, ParsedKey
<1>5. IsFile(File(lines))
  BY <1>2 DEF IsFile, File, IsText
<1> QED  BY <1>3, <1>4, <1>5 DEF values

\* The steps of a save that leave the files and the lines to write, and those that do not.
LEMMA SavingFiles ==
  ASSUME EditorInv, NEW e \in Editors, Saving(e)
  PROVE  /\ screen = e /\ Scope(e) \in DOMAIN file /\ save # Saved
         /\ \/ file' = file /\ save'.step \notin {"setWrite", "unsetWrite"}
            \/ /\ save.step = "set" /\ file' = file /\ UNCHANGED ed /\ screen' = screen
               /\ save' = [step |-> "setWrite",
                           lines |-> SetEnvValues(readEnvLines(file[Scope(e)]),
                                                  [k \in Setting(e) |-> Written(k, ed[e].value[k])])]
            \/ /\ save.step = "unset" /\ file' = file /\ UNCHANGED ed /\ screen' = screen
               /\ save' = [step |-> "unsetWrite",
                           lines |-> UnsetEnvValues(readEnvLines(file[Scope(e)]), Clearing(e))]
            \/ /\ Writing /\ file' = [file EXCEPT ![Scope(e)] = File(save.lines)]
               /\ save'.step \notin {"setWrite", "unsetWrite"}
<1>1. screen = e /\ Scope(e) \in DOMAIN file /\ save # Saved
  BY DEF Saving, SetRead, SetWrite, UnsetRead, UnsetWrite, SaveSteps, Saved, EditorInv, Screens,
     Scopes, Editors
<1>2. \A step, lines : Step(step, lines) => save' = [step |-> step, lines |-> lines]
  BY DEF Step
<1>3. CASE SetRead(e)
  BY <1>1, <1>2, <1>3 DEF SetRead, SaveSteps, Fail, Saved
<1>4. CASE SetWrite(e)
  BY <1>1, <1>2, <1>4 DEF SetWrite, SaveSteps, Fail, Finish, Saved, Writing
<1>5. CASE UnsetRead(e)
  BY <1>1, <1>2, <1>5 DEF UnsetRead, SaveSteps, Finish, Saved
<1>6. CASE UnsetWrite(e)
  BY <1>1, <1>2, <1>6 DEF UnsetWrite, SaveSteps, Finish, Saved, Writing
<1> QED  BY <1>1, <1>3, <1>4, <1>5, <1>6 DEF Saving

LEMMA FilesStay ==
  ASSUME EditorInv, FilesOK, [Next]_vars
  PROVE  FilesOK'
<1>0. DOMAIN file = {"global", "own", "project"} /\ DOMAIN file' = DOMAIN file
  BY EditorStep DEF EditorInv, Screens
<1>1. CASE UNCHANGED <<file, save>>
  BY <1>1 DEF FilesOK, Writing
<1>2. ASSUME NEW e \in Editors, Save(e) PROVE FilesOK'
  <2>1. \A ss, s : s \in DOMAIN file => IsFile(Made(ss)[s])
    BY TemplateSaysNothing DEF FilesOK, Made
  <2>2. \A s \in DOMAIN file' : IsFile(file'[s])
    BY <1>0, <1>2, <2>1 DEF Save, FilesOK
  <2>3. save'.step \notin {"setWrite", "unsetWrite"}
    BY <1>2 DEF Save, Step, Pressed, Saved
  <2> QED  BY <2>2, <2>3 DEF FilesOK, Writing
<1>3. ASSUME NEW e \in Editors, Saving(e) PROVE FilesOK'
  <2> DEFINE lines == readEnvLines(file[Scope(e)])
             values == [k \in Setting(e) |-> Written(k, ed[e].value[k])]
  <2>1. Scope(e) \in DOMAIN file /\ IsText(lines)
    BY <1>3, SavingFiles, FileLines DEF FilesOK, readEnvLines
  <2>2. IsFiniteSet(DOMAIN values)
    BY KeysFinite
  <2> HIDE DEF lines, values
  <2>3. IsText(SetEnvValues(lines, values)) /\ IsText(UnsetEnvValues(lines, Clearing(e)))
    BY <2>1, <2>2, SetKeeps, UnsetKeeps
  <2>4. file' = file => \A s \in DOMAIN file' : IsFile(file'[s])
    BY DEF FilesOK
  <2>5. Writing => IsFile(File(save.lines))
    BY DEF FilesOK, IsFile, File, IsText
  <2>6. CASE file' = file /\ save'.step \notin {"setWrite", "unsetWrite"}
    BY <2>4, <2>6 DEF FilesOK, Writing
  <2>7. CASE file' = file /\ save'.lines = SetEnvValues(lines, values)
    BY <2>3, <2>4, <2>7 DEF FilesOK
  <2>8. CASE file' = file /\ save'.lines = UnsetEnvValues(lines, Clearing(e))
    BY <2>3, <2>4, <2>8 DEF FilesOK
  <2>9. CASE /\ Writing /\ file' = [file EXCEPT ![Scope(e)] = File(save.lines)]
             /\ save'.step \notin {"setWrite", "unsetWrite"}
    BY <2>1, <2>5, <2>9 DEF FilesOK, Writing
  <2> QED  BY <1>3, <2>6, <2>7, <2>8, <2>9, SavingFiles DEF lines, values
<1>4. CASE OtherProcess
  <2>1. PICK o \in Others :
          file' = [file EXCEPT ![o[1]] = File(SetEnvValues(readEnvLines(file[o[1]]), [k \in {o[2]} |-> o[3]]))]
    BY <1>4 DEF OtherProcess
  <2>2. o[1] \in DOMAIN file
    BY <1>0, SettingsAssumption DEF SettingsAssumption
  <2>3. IsFile(File(SetEnvValues(readEnvLines(file[o[1]]), [k \in {o[2]} |-> o[3]])))
    BY <2>2, FileLines, OtherSets DEF FilesOK, readEnvLines
  <2>4. save' = save
    BY <1>4 DEF OtherProcess
  <2> QED  BY <2>1, <2>2, <2>3, <2>4 DEF FilesOK, Writing
<1>5. CASE LoadAgain \/ LoadFails \/ ConfigReloaded \/ UNCHANGED vars
  BY <1>1, <1>5 DEF LoadAgain, LoadFails, ConfigReloaded, vars
<1> QED  BY <1>1, <1>2, <1>3, <1>4, <1>5, QuietKeys DEF Next

\* The fields of an editor are loaded, changed one at a time, given back what was
\* saved, or counted as saved: they stay fields of its keys.
LEMMA FieldsStay ==
  ASSUME EditorInv, FieldsOK, [Next]_vars
  PROVE  FieldsOK'
<1> DEFINE Well(e, f) == /\ DOMAIN f.value = KeysOf(e) /\ DOMAIN f.saved = KeysOf(e)
                         /\ f.present \in [KeysOf(e) -> BOOLEAN] /\ f.was \in [KeysOf(e) -> BOOLEAN]
<1>0. DOMAIN ed = Editors
  BY DEF EditorInv, Screens
<1>a. ASSUME NEW e \in Editors, \A d \in Editors \ {e} : ed'[d] = ed[d], ed'[e] = Closed \/ Well(e, ed'[e])
      PROVE  FieldsOK'
  BY <1>a DEF FieldsOK, Open
<1>b. \A e, c, s : Well(e, buildFields(e, c, s))
  BY DEF buildFields
<1>c. ASSUME NEW e \in Editors, screen = e
      PROVE  Open(e) /\ DOMAIN ed[e] = Fields /\ Well(e, ed[e])
  BY <1>c DEF EditorInv, Screens, FieldsOK, Editors
<1>1. CASE UNCHANGED ed
  BY <1>1 DEF FieldsOK, Open
<1>2. ASSUME NEW e \in Editors, screen = e, NEW k, NEW v, NEW there \in BOOLEAN, Put(e, k, v, there)
      PROVE  FieldsOK'
  <2> DEFINE f == [ed[e] EXCEPT !.value[k] = v, !.present[k] = there, !.confirmed = FALSE]
  <2>1. ed' = [ed EXCEPT ![e] = f]
    BY <1>0, <1>2 DEF Put
  <2>2. /\ f.value = [ed[e].value EXCEPT ![k] = v] /\ f.present = [ed[e].present EXCEPT ![k] = there]
        /\ f.saved = ed[e].saved /\ f.was = ed[e].was
    BY <1>2, <1>c DEF Fields
  <2>3. Well(e, f)
    <3>1. Well(e, ed[e])
      BY <1>2, <1>c
    <3>2. DOMAIN f.value = KeysOf(e)
      BY <2>2, <3>1
    <3>3. f.present \in [KeysOf(e) -> BOOLEAN]
      BY <1>2, <2>2, <3>1
    <3> QED  BY <2>2, <3>1, <3>2, <3>3
  <2> QED  BY <1>0, <1>a, <2>1, <2>3
<1>3. CASE OpenSettings
  <2>1. ed' = [ed EXCEPT !["settings"] = buildFields("settings", cfg, "global")]
    BY <1>3 DEF OpenSettings, Load
  <2> QED  BY <1>0, <1>a, <1>b, <2>1 DEF Editors
<1>4. CASE OpenPackages
  <2> DEFINE f == [ed["settings"] EXCEPT !.confirmed = FALSE]
  <2>1. /\ screen = "settings"
        /\ ed' = [ed EXCEPT !["settings"] = f, !["packages"] = buildFields("packages", cfg, "global")]
    BY <1>4, <1>0 DEF OpenPackages, Load, Pressed, Editors
  <2>2. "settings" \in Editors /\ "packages" \in Editors
    BY DEF Editors
  <2>3. /\ f.value = ed["settings"].value /\ f.present = ed["settings"].present
        /\ f.saved = ed["settings"].saved /\ f.was = ed["settings"].was
    BY <1>c, <2>1, <2>2 DEF Fields
  <2>4. Well("settings", f)
    BY <1>c, <2>1, <2>2, <2>3
  <2>5. /\ ed'["settings"] = f /\ ed'["packages"] = buildFields("packages", cfg, "global")
    BY <1>0, <2>1, <2>2
  <2>6. Well("settings", ed'["settings"]) /\ Well("packages", ed'["packages"])
    BY <1>b, <2>4, <2>5
  <2> HIDE DEF f
  <2> QED  BY <2>6 DEF FieldsOK, Editors
<1>5. ASSUME NEW e \in Editors, OtherKey(e) \/ Save(e) PROVE FieldsOK'
  <2> DEFINE f == [ed[e] EXCEPT !.confirmed = FALSE]
  <2>1. screen = e /\ ed' = [ed EXCEPT ![e] = f]
    BY <1>0, <1>5 DEF OtherKey, Save, Pressed
  <2>2. Well(e, f)
    BY <1>c, <2>1 DEF Fields
  <2> QED  BY <1>0, <1>a, <2>1, <2>2
<1>6. ASSUME NEW e \in Editors, Revert(e) PROVE FieldsOK'
  <2> DEFINE f == [ed[e] EXCEPT !.value = ed[e].saved, !.present = ed[e].was, !.confirmed = FALSE]
  <2>1. screen = e /\ ed' = [ed EXCEPT ![e] = f]
    BY <1>0, <1>6 DEF Revert, Pressed
  <2>2. Well(e, f)
    BY <1>c, <2>1 DEF Fields
  <2> QED  BY <1>0, <1>a, <2>1, <2>2
<1>7. ASSUME NEW e \in Editors, ToggleScope(e) PROVE FieldsOK'
  <2>1. ed' = [ed EXCEPT ![e] = buildFields(e, ed[e].cfg, IF ed[e].scope = "global" THEN "project" ELSE "global")]
    BY <1>7 DEF ToggleScope, Load
  <2> QED  BY <1>0, <1>a, <1>b, <2>1
<1>8. ASSUME NEW e \in Editors, Esc(e) PROVE FieldsOK'
  <2> DEFINE f == [ed[e] EXCEPT !.confirmed = TRUE]
  <2>1. screen = e /\ (ed' = [ed EXCEPT ![e] = f] \/ ed' = [ed EXCEPT ![e] = Closed])
    BY <1>0, <1>8 DEF Esc, Pressed
  <2>2. Well(e, f)
    BY <1>c, <2>1 DEF Fields
  <2> QED  BY <1>0, <1>a, <2>1, <2>2
<1>9. ASSUME NEW e \in Editors, Saving(e) PROVE FieldsOK'
  <2> DEFINE f == [ed[e] EXCEPT !.saved = ed[e].value, !.was = ed[e].present]
  <2>1. screen = e /\ (UNCHANGED ed \/ ed' = [ed EXCEPT ![e] = f])
    BY <1>0, <1>9 DEF Saving, SetRead, SetWrite, UnsetRead, UnsetWrite, SaveSteps, Fail, Finish
  <2>2. Well(e, f)
    BY <1>c, <2>1 DEF Fields
  <2> QED  BY <1>0, <1>1, <1>a, <2>1, <2>2
<1>d. CASE \/ AddPackages \/ DeletePackage
           \/ \E k \in JailKeys : Toggle(k) \/ Type(k)
           \/ \E e \in Editors : \E k \in KeysOf(e) : ClearOverride(e, k)
  <2>1. {"settings", "packages"} \subseteq Editors /\ {TRUE, FALSE} \subseteq BOOLEAN
    BY DEF Editors
  <2>2. CASE AddPackages
    BY <1>2, <2>1, <2>2 DEF AddPackages, Pressed
  <2>3. CASE DeletePackage
    BY <1>2, <2>1, <2>3 DEF DeletePackage, Pressed
  <2>4. ASSUME NEW k \in JailKeys, Toggle(k) PROVE FieldsOK'
    BY <1>2, <2>1, <2>4 DEF Toggle, Pressed
  <2>5. ASSUME NEW k \in JailKeys, Type(k) PROVE FieldsOK'
    BY <1>2, <2>1, <2>5 DEF Type, Pressed
  <2>6. ASSUME NEW e \in Editors, NEW k \in KeysOf(e), ClearOverride(e, k) PROVE FieldsOK'
    BY <1>2, <2>1, <2>6 DEF ClearOverride, Pressed
  <2> QED  BY <1>d, <2>2, <2>3, <2>4, <2>5, <2>6
<1>e. CASE LoadAgain \/ LoadFails \/ ConfigReloaded \/ OtherProcess \/ UNCHANGED vars
  BY <1>1, <1>e DEF LoadAgain, LoadFails, ConfigReloaded, OtherProcess, vars
<1> QED  BY <1>3, <1>4, <1>5, <1>6, <1>7, <1>8, <1>9, <1>d, <1>e DEF Next, Key

\* Every configuration is one that was loaded.
LEMMA ConfigsStay ==
  ASSUME ConfigsOK, [Next]_vars
  PROVE  ConfigsOK'
<1>1. \A files, env : LET c == LoadConfig(files, env) IN c.overridden \subseteq JailKeys /\ DOMAIN c.value = Keys
  BY LayersAssumption DEF LayersAssumption, LoadConfig, applyJailEnv, applyOwnEnv,
     applyEnvOverrides, applyEnv
<1>2. CASE UNCHANGED <<cfg, ready>>
  BY <1>2 DEF ConfigsOK
<1>3. ASSUME NEW e \in Editors, Save(e) \/ Saving(e) PROVE ConfigsOK'
  BY <1>2, <1>3 DEF Save, Saving, SetRead, SetWrite, UnsetRead, UnsetWrite, SaveSteps, cfgVars
<1>4. CASE LoadAgain
  BY <1>1, <1>4 DEF LoadAgain, ConfigsOK
<1>5. CASE LoadFails \/ OtherProcess \/ UNCHANGED vars
  BY <1>2, <1>5 DEF LoadFails, OtherProcess, vars, cfgVars
<1>6. CASE ConfigReloaded
  BY <1>6 DEF ConfigReloaded, ConfigsOK
<1>7. CASE Key /\ \A e \in Editors : ~Save(e)
  BY <1>2, <1>7, QuietKeys DEF cfgVars
<1> QED  BY <1>3, <1>4, <1>5, <1>6, <1>7 DEF Next, Key

\* Every save has room for its reload, and is done before the next one begins.
LEMMA BoundsStay ==
  ASSUME Bounded, [Next]_vars
  PROVE  Bounded'
<1> DEFINE n == Cardinality(ready)
<1>0. n \in Nat /\ MaxReloads \in Nat /\ MaxWriters \in Nat
  BY FS_CardinalityType, SettingsAssumption DEF Bounded, SettingsAssumption
<1>1. CASE UNCHANGED <<save, asked, ready, writers>>
  BY <1>1 DEF Bounded
<1>2. ASSUME NEW e \in Editors, Save(e) PROVE Bounded'
  BY <1>0, <1>2 DEF Save, Bounded, cfgVars
<1>3. ASSUME NEW e \in Editors, Saving(e) PROVE Bounded'
  <2>1. save # Saved /\ UNCHANGED <<ready, writers>>
    BY <1>3 DEF Saving, SetRead, SetWrite, UnsetRead, UnsetWrite, SaveSteps, Saved
  <2>2. asked' = asked \/ (asked' = asked + 1 /\ save' = Saved)
    BY <1>3 DEF Saving, SetRead, SetWrite, UnsetRead, UnsetWrite, Finish, Fail
  <2> QED  BY <1>0, <2>1, <2>2 DEF Bounded
<1>4. CASE LoadAgain
  <2>1. PICK c : ready' = ready \cup {c}
    BY <1>4 DEF LoadAgain
  <2>2. IsFiniteSet(ready') /\ Cardinality(ready') \in {n, n + 1}
    BY <2>1, FS_AddElement DEF Bounded
  <2>3. asked > 0 /\ asked' = asked - 1 /\ UNCHANGED <<save, writers>>
    BY <1>4 DEF LoadAgain
  <2> QED  BY <1>0, <2>2, <2>3 DEF Bounded
<1>5. CASE LoadFails
  BY <1>0, <1>5 DEF LoadFails, Bounded
<1>6. CASE ConfigReloaded
  <2>1. PICK c \in ready : ready' = ready \ {c}
    BY <1>6 DEF ConfigReloaded
  <2>2. IsFiniteSet(ready') /\ Cardinality(ready') = n - 1
    BY <2>1, FS_RemoveElement DEF Bounded
  <2> QED  BY <1>0, <1>6, <2>2 DEF Bounded, ConfigReloaded
<1>7. CASE OtherProcess
  BY <1>0, <1>7 DEF OtherProcess, Bounded, cfgVars
<1>8. CASE UNCHANGED vars
  BY <1>1, <1>8 DEF vars, cfgVars
<1>9. CASE Key /\ \A e \in Editors : ~Save(e)
  BY <1>1, <1>9, QuietKeys DEF cfgVars
<1> QED  BY <1>2, <1>3, <1>4, <1>5, <1>6, <1>7, <1>8, <1>9 DEF Next, Key

\* What is being saved is what is still changed.
LEMMA BusyStays ==
  ASSUME EditorInv, Busy, [Next]_vars
  PROVE  Busy'
<1>1. CASE UNCHANGED <<save, screen, ed>>
  BY <1>1 DEF Busy, Dirty, Changed
<1>2. ASSUME NEW e \in Editors, Save(e) PROVE Busy'
  <2>1. screen = e /\ screen' = e /\ ed' = [ed EXCEPT ![e].confirmed = FALSE] /\ Dirty(e)
    BY <1>2 DEF Save, Pressed
  <2>2. DOMAIN ed = Editors /\ DOMAIN ed[e] = Fields
    BY <2>1 DEF EditorInv, Screens
  <2>3. /\ ed'[e].value = ed[e].value /\ ed'[e].saved = ed[e].saved
        /\ ed'[e].present = ed[e].present /\ ed'[e].was = ed[e].was
    BY <2>1, <2>2 DEF Fields
  <2> QED  BY <2>1, <2>3 DEF Busy, Dirty, Changed
<1>3. ASSUME NEW e \in Editors, Saving(e) PROVE Busy'
  <2>1. save # Saved /\ screen' = screen
    BY <1>3 DEF Saving, SetRead, SetWrite, UnsetRead, UnsetWrite, SaveSteps, Saved
  <2>2. ed' = ed \/ save' = Saved
    BY <1>3 DEF Saving, SetRead, SetWrite, UnsetRead, UnsetWrite, Finish, Fail
  <2> QED  BY <2>1, <2>2 DEF Busy, Dirty, Changed
<1>4. CASE LoadAgain \/ LoadFails \/ ConfigReloaded \/ OtherProcess \/ UNCHANGED vars
  BY <1>1, <1>4 DEF LoadAgain, LoadFails, ConfigReloaded, OtherProcess, vars
<1>5. CASE Key /\ \A e \in Editors : ~Save(e)
  BY <1>5, QuietKeys DEF Busy
<1> QED  BY <1>2, <1>3, <1>4, <1>5 DEF Next, Key

\* Only open editors are marked, and only what others may write is to stand.
LEMMA MarksStay ==
  ASSUME EditorInv, Marked, Busy, [Next]_vars
  PROVE  Marked'
<1> DEFINE open == {e \in Editors : Open(e)}
           Marks == stirred' \subseteq open' /\ stale' \subseteq open'
<1>0. DOMAIN ed = Editors /\ screen \in Editors \cup {"hub"} /\ (screen \in Editors => Open(screen))
  BY DEF EditorInv, Screens
<1>1. {cfgErr', warned', outrun'} \subseteq BOOLEAN
  <2>1. CASE Key
    <3>1. UNCHANGED <<cfgErr, outrun>>
      BY <2>1, QuietKeys DEF Save, cfgVars
    <3>2. warned' \in {TRUE, FALSE}
      BY <2>1 DEF Key, OpenSettings, OpenPackages, AddPackages, DeletePackage, Toggle, Type,
         ClearOverride,
         Put, OtherKey, Revert, ToggleScope, Esc, Save
    <3> QED  BY <3>1, <3>2 DEF Marked
  <2>2. ASSUME NEW e \in Editors, Saving(e) PROVE {cfgErr', warned', outrun'} \subseteq BOOLEAN
    BY <2>2 DEF Marked, Saving, SetRead, SetWrite, UnsetRead, UnsetWrite, SaveSteps, Finish, Fail
  <2>3. CASE LoadAgain \/ LoadFails \/ ConfigReloaded \/ OtherProcess \/ UNCHANGED vars
    BY <2>3 DEF Marked, LoadAgain, LoadFails, ConfigReloaded, OtherProcess, vars, cfgVars, history
  <2> QED  BY <2>1, <2>2, <2>3 DEF Next
<1>2. foreign' \subseteq Others
  <2>1. CASE Key
    BY <2>1, QuietKeys DEF Marked, Save
  <2>2. ASSUME NEW e \in Editors, Saving(e) PROVE foreign' \subseteq Others
    BY <2>2 DEF Marked, Saving, SetRead, SetWrite, UnsetRead, UnsetWrite, SaveSteps
  <2>3. CASE LoadAgain \/ LoadFails \/ ConfigReloaded \/ OtherProcess \/ UNCHANGED vars
    BY <2>3 DEF Marked, LoadAgain, LoadFails, ConfigReloaded, OtherProcess, vars, history
  <2> QED  BY <2>1, <2>2, <2>3 DEF Next
<1>3. Marks
  <2>1. ASSUME stirred' \subseteq stirred, stale' \subseteq stale, open \subseteq open' PROVE Marks
    BY <2>1 DEF Marked
  <2>2. CASE UNCHANGED <<ed, stirred, stale>>
    BY <2>1, <2>2 DEF Open
  <2>3. ASSUME NEW f, NEW e \in Editors, NEW c, NEW s \in Scopes, Load(f, e, c, s),
               DOMAIN f = Editors, \A d \in Editors : Open(d) => f[d] # Closed
        PROVE  Marks
    <3>1. ed' = [f EXCEPT ![e] = buildFields(e, c, s)] /\ stirred' \subseteq stirred /\ stale' \subseteq stale \cup {e}
      BY <2>3 DEF Load
    <3>2. buildFields(e, c, s) # Closed
      BY BuildsFields
    <3>3. ed'[e] # Closed /\ \A d \in Editors \ {e} : ed'[d] = f[d]
      BY <2>3, <3>1, <3>2
    <3>4. open \subseteq open' /\ e \in open'
      BY <2>3, <3>3 DEF Open
    <3> QED  BY <3>1, <3>4 DEF Marked
  <2>4. CASE OpenSettings
    <3>1. "settings" \in Editors /\ "global" \in Scopes /\ Load(ed, "settings", cfg, "global")
      BY <2>4 DEF OpenSettings, Editors, Scopes
    <3> QED  BY <1>0, <2>3, <3>1 DEF Open
  <2>5. CASE OpenPackages
    <3> DEFINE f == [ed EXCEPT !["settings"].confirmed = FALSE]
    <3>1. /\ "packages" \in Editors /\ "global" \in Scopes /\ Load(f, "packages", cfg, "global")
          /\ screen = "settings" /\ "settings" \in Editors
      BY <2>5 DEF OpenPackages, Editors, Scopes, Pressed
    <3>2. DOMAIN ed["settings"] = Fields /\ DOMAIN f = Editors
      BY <1>0, <3>1 DEF EditorInv, Screens
    <3>3. f["settings"] # Closed
      <4>1. f["settings"].scope = ed["settings"].scope /\ ed["settings"].scope \in Scopes
        BY <1>0, <3>1, <3>2 DEF EditorInv, Screens, Scope, Fields
      <4> QED  BY <4>1 DEF Closed, Scopes
    <3>4. \A d \in Editors : Open(d) => f[d] # Closed
      BY <1>0, <3>3 DEF Open
    <3> HIDE DEF f
    <3> QED  BY <2>3, <3>1, <3>2, <3>4
  <2>6. ASSUME NEW e \in Editors, ToggleScope(e) PROVE Marks
    <3>1. PICK s \in Scopes : Load(ed, e, ed[e].cfg, s)
      BY <2>6 DEF ToggleScope, Scopes
    <3> QED  BY <1>0, <2>3, <3>1 DEF Open
  <2>7. ASSUME NEW e \in Editors, Esc(e) PROVE Marks
    <3>1. \/ Kept /\ UNCHANGED <<stirred, stale>>
          \/ ed' = [ed EXCEPT ![e] = Closed] /\ stirred' = stirred \ {e} /\ stale' = stale \ {e}
      <4>1. CASE ed' = [ed EXCEPT ![e] = Closed] /\ stirred' = stirred \ {e} /\ stale' = stale \ {e}
        BY <4>1
      <4>2. CASE ed' = [ed EXCEPT ![e].confirmed = TRUE] /\ warned' = TRUE /\ UNCHANGED <<screen, stirred, stale>>
        <5>1. screen = e /\ file' = file
          BY <2>7 DEF Esc, Pressed
        <5>2. DOMAIN ed = Editors /\ DOMAIN ed[e] = Fields
          BY <5>1 DEF EditorInv, Screens
        <5>3. /\ DOMAIN ed' = Editors /\ \A d \in Editors \ {e} : ed'[d] = ed[d]
              /\ DOMAIN ed'[e] = DOMAIN ed[e] /\ ed'[e].scope = ed[e].scope
          BY <4>2, <5>2 DEF Fields
        <5> QED  BY <4>2, <5>1, <5>3, EditKeeps
      <4> QED  BY <2>7, <4>1, <4>2 DEF Esc
    <3> QED  BY <1>0, <2>1, <3>1 DEF Marked, Open, Kept
  <2>8. ASSUME Kept, stirred' \subseteq stirred, stale' \subseteq open \cup stale PROVE Marks
    BY <2>8 DEF Marked, Open, Kept
  <2>9. CASE \/ AddPackages \/ DeletePackage
             \/ \E k \in JailKeys : Toggle(k) \/ Type(k)
             \/ \E e \in Editors : \E k \in KeysOf(e) : ClearOverride(e, k)
    <3>1. UNCHANGED <<stirred, stale>>
      BY <2>9 DEF AddPackages, DeletePackage, Toggle, Type, ClearOverride, Put
    <3> QED  BY <2>8, <2>9, <3>1, PutKeysKeep
  <2>a. ASSUME NEW e \in Editors, OtherKey(e) \/ Revert(e) \/ Save(e) PROVE Marks
    BY <2>8, <2>a, OtherKeysKeep DEF OtherKey, Revert, Save
  <2>b. ASSUME NEW e \in Editors, Saving(e) PROVE Marks
    <3>1. screen = e /\ Open(e) /\ Kept
      BY <1>0, <2>b, SavingKeeps DEF Saving, SetRead, SetWrite, UnsetRead, UnsetWrite, SaveSteps
    <3>2. stirred' \subseteq stirred \cup {e} /\ stale' \subseteq open \cup stale
      BY <2>b DEF Saving, SetRead, SetWrite, UnsetRead, UnsetWrite, Fail, Finish
    <3> QED  BY <3>1, <3>2 DEF Marked, Open, Kept
  <2>c. CASE OtherProcess
    BY <2>c DEF OtherProcess, Marked, Open
  <2>d. CASE LoadAgain \/ LoadFails \/ ConfigReloaded \/ UNCHANGED vars
    BY <2>2, <2>d DEF LoadAgain, LoadFails, ConfigReloaded, vars, history
  <2> QED  BY <2>4, <2>5, <2>6, <2>7, <2>9, <2>a, <2>b, <2>c, <2>d DEF Next, Key
<1> QED  BY <1>1, <1>2, <1>3 DEF Marked

LEMMA StateInvariant == Spec => []StateInv
<1>1. Init => StateInv
  <2> SUFFICES ASSUME Init PROVE StateInv
    OBVIOUS
  <2>1. FilesOK
    BY SettingsAssumption DEF SettingsAssumption, Init, FilesOK, Writing, Saved
  <2>2. FieldsOK /\ Busy /\ Marked
    BY DEF Init, FieldsOK, Busy, Marked, Open
  <2>3. ConfigsOK
    BY LayersAssumption DEF LayersAssumption, Init, ConfigsOK, LoadConfig, applyJailEnv, applyOwnEnv,
       applyEnvOverrides, applyEnv
  <2>4. Bounded
    BY FS_EmptySet, SettingsAssumption DEF SettingsAssumption, Init, Bounded
  <2> QED  BY <2>1, <2>2, <2>3, <2>4 DEF StateInv
<1>2. EditorInv /\ StateInv /\ [Next]_vars => StateInv'
  BY FilesStay, FieldsStay, ConfigsStay, BoundsStay, BusyStays, MarksStay DEF StateInv
<1> QED  BY <1>1, <1>2, EditorInvariant, PTL DEF Spec

\* Whatever the files, the keys and the order of saves, reloads and other writers:
\* every file stays a file, the editors have fields of their keys, and no save is
\* left without room for its reload.
THEOREM TypeCorrect == Spec => []TypeOK
<1>1. EditorInv /\ StateInv => TypeOK
  <2> SUFFICES ASSUME EditorInv, StateInv PROVE TypeOK
    OBVIOUS
  <2>1. DOMAIN file = {"global", "own", "project"} /\ \A s \in DOMAIN file : IsFile(file[s])
    BY DEF EditorInv, Screens, StateInv, FilesOK
  <2>2. /\ cfg.overridden \subseteq JailKeys /\ DOMAIN cfg.value = Keys
        /\ asked + Cardinality(ready) <= MaxReloads /\ writers <= MaxWriters
    BY DEF StateInv, ConfigsOK, Bounded
  <2>3. /\ screen \in Editors \cup {"hub"}
        /\ screen = "hub" <=> \A e \in Editors : ~Open(e)
        /\ screen = "packages" <=> Open("packages")
    BY DEF EditorInv, Screens, Editors
  <2>4. \A e \in Editors : Open(e) =>
          /\ DOMAIN ed[e].value = KeysOf(e) /\ DOMAIN ed[e].saved = KeysOf(e)
          /\ ed[e].present \in [KeysOf(e) -> BOOLEAN] /\ ed[e].was \in [KeysOf(e) -> BOOLEAN]
          /\ Scope(e) \in Scopes
    BY DEF EditorInv, Screens, StateInv, FieldsOK
  <2>5. save = Saved \/ (screen # "hub" /\ Dirty(screen))
    BY DEF StateInv, Busy, Editors
  <2>6. /\ {cfgErr, warned, outrun} \subseteq BOOLEAN
        /\ {stirred, stale} \subseteq SUBSET {e \in Editors : Open(e)}
        /\ foreign \subseteq Others
    BY DEF StateInv, Marked
  <2> QED  BY <2>1, <2>2, <2>3, <2>4, <2>5, <2>6 DEF TypeOK
<1> QED  BY <1>1, EditorInvariant, StateInvariant, PTL

-----------------------------------------------------------------------------
(* What is loaded *)

\* The save that is under way, if any, has not written the file yet.
Unwritten == save.step \in {"saved", "set", "setWrite"} \/ Setting(screen) = {}

\* Unless outrun, whatever was loaded is what the files say, as long as the save
\* has not written; once it has, nothing counts until it has asked for a reload.
Followed ==
  (Unwritten /\ ~outrun) =>
    /\ \A c \in ready : c = LoadConfig(file, environ)
    /\ (asked = 0 /\ ready = {} /\ ~cfgErr) => cfg = LoadConfig(file, environ)

Stages ==
  /\ asked \in Nat
  /\ save.step \in {"saved", "set", "setWrite", "unset", "unsetWrite"}
  /\ save.step \in {"set", "setWrite"} => Setting(screen) # {}

FollowInv == Stages /\ Followed

LEMMA FollowInit == Init => FollowInv
BY DEF Init, FollowInv, Stages, Followed, Saved

\* A step that leaves files and configuration alone, while nothing is being saved.
LEMMA StillFollows ==
  ASSUME FollowInv, save = Saved, save' = Saved, UNCHANGED <<file, environ, cfgVars, outrun>>
  PROVE  FollowInv'
<1>1. Stages'
  BY DEF FollowInv, Stages, Saved, cfgVars
<1>2. Unwritten
  BY DEF Unwritten, Saved
<1>3. Followed'
  BY <1>2 DEF FollowInv, Followed, cfgVars
<1> QED  BY <1>1, <1>3 DEF FollowInv

LEMMA KeyFollows ==
  ASSUME FollowInv, Key, \A e \in Editors : ~Save(e)
  PROVE  FollowInv'
<1>1. save = Saved /\ save' = Saved /\ UNCHANGED <<file, environ, cfgVars, outrun>>
  BY QuietKeys
<1> QED  BY <1>1, StillFollows

LEMMA SaveFollows ==
  ASSUME EditorInv, FilesOK, FollowInv, NEW e \in Editors, Save(e)
  PROVE  FollowInv'
<1>1. /\ screen = e /\ save = Saved
      /\ UNCHANGED <<screen, environ, cfgVars, outrun>>
      /\ ed' = [ed EXCEPT ![e].confirmed = FALSE]
  BY DEF Save, Pressed
<1>2. DOMAIN ed = Editors /\ DOMAIN ed[e] = Fields /\ DOMAIN file = {"global", "own", "project"}
  BY <1>1 DEF EditorInv, Screens
<1>3. LoadConfig(file', environ) = LoadConfig(file, environ)
  BY <1>2, MadeSaysNothing DEF Save, FilesOK
<1>4. Setting(screen)' = Setting(e)
  <2>1. /\ ed'[e].value = ed[e].value /\ ed'[e].saved = ed[e].saved
        /\ ed'[e].present = ed[e].present /\ ed'[e].was = ed[e].was
    BY <1>1, <1>2 DEF Fields
  <2> QED  BY <1>1, <2>1 DEF Setting, Changed
<1>5. save' = save \/ save'.step = IF Setting(e) # {} THEN "set" ELSE "unset"
  BY DEF Save, Step
<1>6. Stages'
  BY <1>1, <1>4, <1>5 DEF FollowInv, Stages, cfgVars, Saved
<1>7. Followed'
  BY <1>1, <1>3 DEF FollowInv, Followed, Unwritten, cfgVars, Saved
<1> QED  BY <1>6, <1>7 DEF FollowInv

\* The end of a save: what it asks for is the first reload under way, or it is outrun.
LEMMA FinishFollows ==
  ASSUME FollowInv, NEW e \in Editors, Finish(e), UNCHANGED ready
  PROVE  FollowInv'
<1>1. asked \in Nat /\ asked' = asked + 1 /\ save' = Saved
      /\ outrun' = (asked > 0 \/ ready # {})
  BY DEF Finish, FollowInv, Stages
<1>2. Stages'
  BY <1>1 DEF Stages, Saved
<1>3. ~outrun' => ready = {}
  BY <1>1
<1>4. asked' # 0
  BY <1>1
<1>5. Followed'
  BY <1>3, <1>4 DEF Followed
<1> QED  BY <1>2, <1>5 DEF FollowInv

LEMMA SavingFollows ==
  ASSUME FollowInv, NEW e \in Editors, Saving(e)
  PROVE  FollowInv'
<1>1. screen = e /\ UNCHANGED <<environ, cfg, cfgErr, ready, screen>>
  BY DEF Saving, SetRead, SetWrite, UnsetRead, UnsetWrite, SaveSteps
<1>2. CASE Finish(e)
  BY <1>1, <1>2, FinishFollows
<1>3. CASE ~Finish(e) /\ SetRead(e)
  <2>a. UNCHANGED <<file, ed, asked, outrun>>
    BY <1>3 DEF SetRead, Fail
  <2>b. save'.step \in {"setWrite", "saved"}
    BY <1>3 DEF SetRead, Fail, Step, Saved
  <2>1. /\ save.step = "set" /\ UNCHANGED <<file, ed, asked, outrun>>
        /\ save'.step \in {"setWrite", "saved"}
    BY <1>3, <2>a, <2>b DEF SetRead, SaveSteps
  <2>2. Setting(screen)' = Setting(screen)
    BY <1>1, <2>1 DEF Setting, Changed
  <2> QED  BY <1>1, <2>1, <2>2 DEF FollowInv, Stages, Followed, Unwritten
<1>4. CASE ~Finish(e) /\ SetWrite(e)
  <2>a. UNCHANGED <<ed, asked, outrun>>
    BY <1>4 DEF SetWrite, Fail
  <2>b. save'.step = "unset" \/ (save'.step = "saved" /\ file' = file)
    <3>1. Step("unset", <<>>) \/ (Fail /\ UNCHANGED file)
      BY <1>4 DEF SetWrite
    <3>2. Step("unset", <<>>) => save'.step = "unset"
      BY DEF Step
    <3>3. Fail => save'.step = "saved"
      BY DEF Fail, Saved
    <3> QED  BY <3>1, <3>2, <3>3
  <2>1. /\ save.step = "setWrite" /\ UNCHANGED <<ed, asked, outrun>>
        /\ \/ save'.step = "unset"
           \/ /\ save'.step = "saved"
              /\ file' = file
    BY <1>4, <2>a, <2>b DEF SetWrite, SaveSteps
  <2>2. Setting(screen)' = Setting(screen)
    BY <1>1, <2>1 DEF Setting, Changed
  <2> QED  BY <1>1, <2>1, <2>2 DEF FollowInv, Stages, Followed, Unwritten
<1>5. CASE ~Finish(e) /\ UnsetRead(e)
  <2>1. /\ save.step = "unset" /\ UNCHANGED <<file, ed, asked, outrun>>
        /\ save'.step = "unsetWrite"
    <3>1. UNCHANGED <<file, ed, asked, outrun>>
      BY <1>5 DEF UnsetRead
    <3>2. save'.step = "unsetWrite"
      BY <1>5 DEF UnsetRead, Step
    <3> QED  BY <1>5, <3>1, <3>2 DEF UnsetRead, SaveSteps
  <2>2. Setting(screen)' = Setting(screen)
    BY <1>1, <2>1 DEF Setting, Changed
  <2> QED  BY <1>1, <2>1, <2>2 DEF FollowInv, Stages, Followed, Unwritten
<1>6. CASE ~Finish(e) /\ UnsetWrite(e)
  <2>1. /\ save.step = "unsetWrite" /\ UNCHANGED <<file, ed, asked>> /\ save' = Saved
        /\ outrun' = (outrun \/ Setting(e) # {})
    BY <1>6 DEF UnsetWrite, SaveSteps
  <2> QED  BY <1>1, <2>1 DEF FollowInv, Stages, Followed, Unwritten, Saved
<1> QED  BY <1>2, <1>3, <1>4, <1>5, <1>6 DEF Saving

LEMMA ReloadFollows ==
  ASSUME FollowInv, LoadAgain \/ LoadFails \/ ConfigReloaded
  PROVE  FollowInv'
<1>1. UNCHANGED <<file, environ, screen, ed, save, outrun>>
  BY DEF LoadAgain, LoadFails, ConfigReloaded, history
<1>2. Unwritten' <=> Unwritten
  BY <1>1 DEF Unwritten, Setting, Changed
<1>3. Stages'
  <2>a. asked \in Nat
    BY DEF FollowInv, Stages
  <2>b. asked' = asked \/ (asked > 0 /\ asked' = asked - 1)
    BY DEF LoadAgain, LoadFails, ConfigReloaded
  <2>1. asked' \in Nat
    BY <2>a, <2>b
  <2> QED  BY <1>1, <2>1 DEF FollowInv, Stages, Setting, Changed
<1>4. Followed'
  <2>1. CASE LoadAgain
    BY <1>1, <1>2, <2>1 DEF LoadAgain, FollowInv, Followed
  <2>2. CASE LoadFails
    BY <1>1, <1>2, <2>2 DEF LoadFails, FollowInv, Followed
  <2>3. CASE ConfigReloaded
    BY <1>1, <1>2, <2>3 DEF ConfigReloaded, FollowInv, Followed
  <2> QED  BY <2>1, <2>2, <2>3
<1> QED  BY <1>3, <1>4 DEF FollowInv

LEMMA OthersFollow ==
  ASSUME FollowInv, OtherProcess
  PROVE  FollowInv'
<1>1. outrun' = TRUE /\ UNCHANGED <<asked, save, screen, ed>>
  BY DEF OtherProcess, cfgVars
<1> QED  BY <1>1 DEF FollowInv, Stages, Followed, Setting, Changed

LEMMA FollowStep ==
  ASSUME EditorInv, FilesOK, FollowInv, [Next]_vars
  PROVE  FollowInv'
<1>1. CASE UNCHANGED vars
  BY <1>1 DEF vars, cfgVars, history, FollowInv, Stages, Followed, Unwritten, Setting, Changed
<1>2. CASE Key
  BY <1>2, KeyFollows, SaveFollows
<1>3. ASSUME NEW e \in Editors, Saving(e) PROVE FollowInv'
  BY <1>3, SavingFollows
<1>4. CASE LoadAgain \/ LoadFails \/ ConfigReloaded
  BY <1>4, ReloadFollows
<1>5. CASE OtherProcess
  BY <1>5, OthersFollow
<1> QED  BY <1>1, <1>2, <1>3, <1>4, <1>5 DEF Next

\* After a save the interface has the configuration the files resolve to, layer by
\* layer, whatever the files, the keys and the number of saves and reloads.
THEOREM ConfigAlwaysFollows == Spec => []ConfigFollowsFiles
<1>1. Init => FollowInv
  BY FollowInit
<1>2. EditorInv /\ StateInv /\ FollowInv /\ [Next]_vars => FollowInv'
  BY FollowStep DEF StateInv
<1>3. FollowInv => ConfigFollowsFiles
  <2> SUFFICES ASSUME FollowInv, save = Saved, asked = 0, ready = {}, ~cfgErr, ~outrun
               PROVE  /\ \A k \in Keys : cfg.value[k] = Resolved(file, environ, k)
                      /\ cfg.overridden = JailKeys \cap DOMAIN Raw("project")
    BY DEF ConfigFollowsFiles
  <2>1. cfg = LoadConfig(file, environ)
    BY DEF FollowInv, Followed, Unwritten, Saved
  <2>2. LoadConfig(file, environ).overridden = JailKeys \cap DOMAIN Raw("project")
    BY DEF LoadConfig, Raw
  <2> QED  BY <2>1, <2>2, LayersResolve
<1> QED  BY <1>1, <1>2, <1>3, EditorInvariant, StateInvariant, PTL DEF Spec
-----------------------------------------------------------------------------
(* What other processes wrote *)

Says(lines, o) == o[2] \in DOMAIN parseEnvFile(lines) /\ parseEnvFile(lines)[o[2]] = o[3]

\* What should stand is in the file; it is no business of the save that is under way,
\* and is in the lines that the save is going to write.
OthersInv == \A o \in foreign :
  /\ Says(file[o[1]].lines, o)
  /\ (save # Saved /\ Scope(screen) = o[1]) =>
       o[2] \notin Changed(screen) /\ (Writing => Says(save.lines, o))

LEMMA SaveSpares ==
  ASSUME EditorInv, StateInv, OthersInv, NEW e \in Editors, Save(e)
  PROVE  OthersInv'
<1>1. screen = e /\ screen' = e /\ ed' = [ed EXCEPT ![e].confirmed = FALSE] /\ save = Saved
  BY DEF Save, Pressed
<1>2. DOMAIN ed = Editors /\ DOMAIN ed[e] = Fields
  BY <1>1 DEF EditorInv, Screens
<1>3. /\ ed'[e].value = ed[e].value /\ ed'[e].saved = ed[e].saved /\ ed'[e].scope = ed[e].scope
      /\ ed'[e].present = ed[e].present /\ ed'[e].was = ed[e].was
  BY <1>1, <1>2 DEF Fields
<1>4. Changed(screen)' = Changed(e) /\ Scope(screen)' = Scope(e)
  BY <1>1, <1>3 DEF Changed, Scope
<1>5. ~Writing'
  BY <1>1 DEF Save, Step, Saved, Writing
<1>6. ASSUME NEW o \in foreign PROVE file'[o[1]] = file[o[1]]
  <2>1. o[1] \in DOMAIN file
    BY SettingsAssumption DEF SettingsAssumption, EditorInv, Screens, StateInv, Marked
  <2>2. file[o[1]].there
    <3>1. Says(file[o[1]].lines, o)
      BY DEF OthersInv
    <3>2. file[o[1]].lines # <<>>
      <4>1. PICK l : l = file[o[1]].lines
        OBVIOUS
      <4>2. At(l, "active", o[2]) # {}
        BY <3>1, <4>1, ParsedKey DEF Says
      <4>3. \E i : i \in DOMAIN l
        BY <4>2 DEF At
      <4> QED  BY <4>1, <4>3
    <3>3. IsFile(file[o[1]])
      BY <2>1 DEF StateInv, FilesOK
    <3> QED  BY <3>2, <3>3 DEF IsFile, File, Absent
  <2>3. \A ss : Made(ss)[o[1]] = file[o[1]]
    BY <2>1, <2>2 DEF Made
  <2> QED  BY <2>3 DEF Save
<1>7. \/ foreign' = {o \in foreign : ~(o[1] = Scope(e) /\ o[2] \in Changed(e))}
      \/ save' = Saved /\ foreign' = foreign
  BY <1>1 DEF Save
<1> QED  BY <1>4, <1>5, <1>6, <1>7 DEF OthersInv

LEMMA SavingSpares ==
  ASSUME EditorInv, StateInv, OthersInv, NEW e \in Editors, Saving(e)
  PROVE  OthersInv'
<1>1. foreign' = foreign /\ screen = e /\ screen' = e
  BY DEF Saving, SetRead, SetWrite, UnsetRead, UnsetWrite, SaveSteps
<1>2. save' = Saved \/ (ed' = ed /\ Changed(screen)' = Changed(e) /\ Scope(screen)' = Scope(e))
  BY <1>1 DEF Saving, SetRead, SetWrite, UnsetRead, UnsetWrite, Finish, Fail, Changed, Scope
<1>3. Scope(e) \in DOMAIN file /\ save # Saved
  BY SavingFiles
<1>4. ASSUME NEW o \in foreign, o[1] = Scope(e)
      PROVE  /\ o[2] \notin Changed(e)
             /\ Says(file[Scope(e)].lines, o)
             /\ Writing => Says(save.lines, o)
  BY <1>1, <1>3, <1>4 DEF OthersInv
<1>5. PICK old : old = readEnvLines(file[Scope(e)]) /\ IsText(old)
  BY <1>3, FileLines DEF StateInv, FilesOK, readEnvLines
<1>6. PICK values : values = [k \in Setting(e) |-> Written(k, ed[e].value[k])]
  OBVIOUS
<1>7. IsFiniteSet(DOMAIN values) /\ DOMAIN values \subseteq Changed(e) /\ Clearing(e) \subseteq Changed(e)
  BY <1>6, KeysFinite DEF Clearing
<1>8. ASSUME NEW o \in foreign, o[1] = Scope(e)
      PROVE  Says(SetEnvValues(old, values), o) /\ Says(UnsetEnvValues(old, Clearing(e)), o)
  <2>1. o[2] \notin DOMAIN values /\ o[2] \notin Clearing(e) /\ Says(old, o)
    BY <1>4, <1>5, <1>7, <1>8 DEF readEnvLines
  <2> QED  BY <1>5, <1>7, <2>1, SetSpares, UnsetKeeps DEF Says
<1>9. ASSUME NEW o \in foreign PROVE Says(file'[o[1]].lines, o)
  <2>1. CASE file' = file
    BY <2>1 DEF OthersInv
  <2>2. CASE Writing /\ file' = [file EXCEPT ![Scope(e)] = File(save.lines)]
    <3>1. CASE o[1] = Scope(e)
      BY <1>3, <1>4, <2>2, <3>1 DEF File
    <3>2. CASE o[1] # Scope(e)
      BY <2>2, <3>2 DEF OthersInv
    <3> QED  BY <3>1, <3>2
  <2> QED  BY <2>1, <2>2, SavingFiles
<1>a. ASSUME NEW o \in foreign, o[1] = Scope(e), Writing' PROVE Says(save'.lines, o)
  BY <1>5, <1>6, <1>8, <1>a, SavingFiles DEF Writing
<1> QED  BY <1>1, <1>2, <1>4, <1>9, <1>a DEF OthersInv

LEMMA OtherSpares ==
  ASSUME EditorInv, StateInv, OthersInv, OtherProcess
  PROVE  OthersInv'
<1>1. UNCHANGED <<save, screen, ed>>
  BY DEF OtherProcess
<1>2. PICK o \in Others :
        LET lines == SetEnvValues(readEnvLines(file[o[1]]), [k \in {o[2]} |-> o[3]])
            inSave == /\ save # Saved /\ Scope(screen) = o[1]
                      /\ \/ save.step \in {"setWrite", "unsetWrite"}
                         \/ o[2] \in Changed(screen)
            counts == ~inSave /\ parseEnvFile(lines)[o[2]] = o[3]
        IN /\ file' = [file EXCEPT ![o[1]] = File(lines)]
           /\ foreign' = {p \in foreign : p[1] # o[1] \/ p[2] # o[2]} \cup IF counts THEN {o} ELSE {}
  BY DEF OtherProcess
<1>3. PICK old : old = readEnvLines(file[o[1]])
  OBVIOUS
<1>4. PICK lines : lines = SetEnvValues(old, [k \in {o[2]} |-> o[3]])
  OBVIOUS
<1>5. o[1] \in DOMAIN file
  BY SettingsAssumption DEF SettingsAssumption, EditorInv, Screens
<1>6. IsText(old)
  BY <1>3, <1>5, FileLines DEF StateInv, FilesOK, readEnvLines
<1>7. /\ o[2] \in DOMAIN parseEnvFile(lines)
      /\ \A k : (k # o[2] /\ k \in DOMAIN parseEnvFile(old)) =>
           k \in DOMAIN parseEnvFile(lines) /\ parseEnvFile(lines)[k] = parseEnvFile(old)[k]
  <2>1. PICK values : values = [k \in {o[2]} |-> o[3]]
    OBVIOUS
  <2>2. DOMAIN values = {o[2]} /\ IsFiniteSet(DOMAIN values) /\ o[2] \in DOMAIN values
    BY <2>1, FS_Singleton
  <2>3. lines = SetEnvValues(old, values)
    BY <1>4, <2>1
  <2>4. IsText(lines) /\ At(lines, "active", o[2]) # {}
    BY <1>6, <2>2, <2>3, SetKeeps
  <2>5. o[2] \in DOMAIN parseEnvFile(lines)
    BY <2>4, ParsedKey
  <2> QED  BY <1>6, <2>2, <2>3, <2>5, SetSpares
<1>8. file' = [file EXCEPT ![o[1]] = File(lines)]
  BY <1>2, <1>3, <1>4
<1>9. ASSUME NEW p \in foreign, p[1] # o[1] \/ p[2] # o[2] PROVE Says(file'[p[1]].lines, p)
  <2>1. CASE p[1] = o[1]
    <3>1. Says(old, p) /\ p[2] # o[2]
      BY <1>3, <1>9, <2>1 DEF OthersInv, readEnvLines
    <3> QED  BY <1>5, <1>7, <1>8, <2>1, <3>1 DEF Says, File
  <2>2. CASE p[1] # o[1]
    BY <1>8, <2>2 DEF OthersInv
  <2> QED  BY <2>1, <2>2
<1>a. ASSUME o \in foreign', ~(o \in foreign /\ (o[1] # o[1] \/ o[2] # o[2]))
      PROVE  /\ Says(file'[o[1]].lines, o)
             /\ (save # Saved /\ Scope(screen) = o[1]) => o[2] \notin Changed(screen) /\ ~Writing
  <2>1. /\ parseEnvFile(lines)[o[2]] = o[3]
        /\ (save # Saved /\ Scope(screen) = o[1]) => o[2] \notin Changed(screen) /\ ~Writing
    BY <1>2, <1>3, <1>4, <1>a DEF Writing
  <2> QED  BY <1>5, <1>7, <1>8, <2>1 DEF Says, File
<1>b. ASSUME NEW p \in foreign', p # o PROVE p \in foreign /\ (p[1] # o[1] \/ p[2] # o[2])
  BY <1>2, <1>b
<1>c. Changed(screen)' = Changed(screen) /\ Scope(screen)' = Scope(screen) /\ (Writing' <=> Writing)
  BY <1>1 DEF Changed, Scope, Writing
<1>d. ASSUME NEW p \in foreign'
      PROVE  /\ Says(file'[p[1]].lines, p)
             /\ (save # Saved /\ Scope(screen) = p[1]) =>
                  p[2] \notin Changed(screen) /\ (Writing => Says(save.lines, p))
  <2>1. CASE p = o
    BY <1>a, <1>d, <2>1
  <2>2. CASE p # o
    BY <1>9, <1>b, <1>d, <2>2 DEF OthersInv
  <2> QED  BY <2>1, <2>2
<1> QED  BY <1>1, <1>c, <1>d DEF OthersInv

\* A save writes what it changed and nothing else, so that what another process wrote
\* stays, for any number of writers and editors: whatever it wrote before the save
\* has read the file is in the lines that the save writes back.
THEOREM OthersAreKept == Spec => []OthersKept
<1>1. Init => OthersInv
  BY DEF Init, OthersInv
<1>2. EditorInv /\ StateInv /\ OthersInv /\ [Next]_vars => OthersInv'
  <2> SUFFICES ASSUME EditorInv, StateInv, OthersInv, [Next]_vars PROVE OthersInv'
    OBVIOUS
  <2>1. CASE Key /\ \A e \in Editors : ~Save(e)
    BY <2>1, QuietKeys DEF OthersInv
  <2>2. CASE LoadAgain \/ LoadFails \/ ConfigReloaded \/ UNCHANGED vars
    BY <2>2 DEF LoadAgain, LoadFails, ConfigReloaded, vars, history, OthersInv, Changed, Scope, Writing
  <2> QED  BY <2>1, <2>2, SaveSpares, SavingSpares, OtherSpares DEF Next
<1>3. OthersInv => OthersKept
  BY DEF OthersInv, OthersKept, Says, Raw, Parse
<1> QED  BY <1>1, <1>2, <1>3, EditorInvariant, StateInvariant, PTL DEF Spec
-----------------------------------------------------------------------------
(* What the editors show *)

\* What a layer changes of a configuration are values of its keys.
LEMMA TypedApplied ==
  ASSUME NEW value, DOMAIN value = Keys, \A k \in Keys : IsValue(k, value[k]),
         NEW env, NEW keys, \A k \in keys \cap DOMAIN env : IsText(env[k])
  PROVE  /\ DOMAIN applyEnv(value, env, keys) = Keys
         /\ \A k \in Keys : IsValue(k, applyEnv(value, env, keys)[k])
<1>1. ASSUME NEW k, NEW v, IsText(v) PROVE IsValue(k, Read(k, v))
  <2>1. CASE k \in BoolKeys
    <3>1. Read(k, v) = (v \in TrueWords)
      BY <2>1 DEF Read
    <3>2. (v \in TrueWords) \in BOOLEAN
      OBVIOUS
    <3> QED  BY <2>1, <3>1, <3>2 DEF IsValue
  <2>2. CASE k \in ListKeys /\ k \notin BoolKeys
    BY <1>1, <2>2, WordsSplit DEF IsValue, Read
  <2>3. CASE k \notin ListKeys /\ k \notin BoolKeys
    BY <1>1, <2>3 DEF IsValue, Read
  <2> QED  BY <2>1, <2>2, <2>3
<1>2. DOMAIN applyEnv(value, env, keys) = Keys
  BY DEF applyEnv
<1>3. ASSUME NEW k \in Keys PROVE IsValue(k, applyEnv(value, env, keys)[k])
  <2>1. applyEnv(value, env, keys)[k] = IF k \in keys \cap DOMAIN env THEN Read(k, env[k]) ELSE value[k]
    BY ApplyEnv
  <2> QED  BY <1>1, <2>1
<1> QED  BY <1>2, <1>3

LEMMA TypedLoaded ==
  ASSUME NEW files, \A s \in {"global", "own", "project"} : IsText(files[s].lines) /\ HasTexts(files[s].lines),
         NEW env, \A k \in Keys : IsText(env[k])
  PROVE  \A k \in Keys : IsValue(k, LoadConfig(files, env).value[k])
<1> DEFINE G == Parse(files.global)
           O == Parse(files.own)
           P == Parse(files.project)
           set == {key \in Keys : env[key] # <<>>}
           c1 == applyEnv(Default, G, JailKeys)
           c2 == applyEnv(c1, O, OwnKeys)
           c3 == applyEnv(c2, P, JailKeys)
           Typd(c) == DOMAIN c = Keys /\ \A k \in Keys : IsValue(k, c[k])
<1>1. /\ \A k \in DOMAIN G : IsText(G[k])
      /\ \A k \in DOMAIN O : IsText(O[k])
      /\ \A k \in DOMAIN P : IsText(P[k])
  BY TextsParsed DEF Parse
<1>2. Typd(Default)
  BY LayersAssumption DEF LayersAssumption
<1>3. LoadConfig(files, env).value = applyEnv(c3, env, set)
  BY DEF LoadConfig, applyJailEnv, applyOwnEnv, applyEnvOverrides
<1>4. \A k \in set : IsText(env[k])
  OBVIOUS
<1> HIDE DEF G, O, P, set
<1>5. Typd(c1)
  BY <1>1, <1>2, TypedApplied
<1> HIDE DEF c1
<1>6. Typd(c2)
  BY <1>1, <1>5, TypedApplied
<1> HIDE DEF c2
<1>7. Typd(c3)
  BY <1>1, <1>6, TypedApplied
<1> HIDE DEF c3
<1>8. Typd(applyEnv(c3, env, set))
  BY <1>4, <1>7, TypedApplied
<1> QED  BY <1>3, <1>8

LEMMA TypedShown ==
  ASSUME NEW k \in JailKeys, NEW x, IsValue(k, x)
  PROVE  IsShown(k, Shown(k, Show(k, x)))
<1>1. IsText(Show(k, x))
  <2>1. CASE k \in BoolKeys
    <3>1. <<"true">> \in Seq({"true"}) /\ <<"false">> \in Seq({"false"})
      OBVIOUS
    <3>2. IsText(<<"true">>) /\ IsText(<<"false">>)
      BY <3>1, SequenceOf
    <3> QED  BY <2>1, <3>2 DEF Show
  <2>2. CASE k \in ListKeys /\ k \notin BoolKeys
    BY <2>2, JoinIs DEF IsValue, Show
  <2>3. CASE k \notin ListKeys /\ k \notin BoolKeys
    BY <2>3 DEF IsValue, Show
  <2> QED  BY <2>1, <2>2, <2>3
<1> QED  BY <1>1, TextsShown

\* Every value is of its key: in files, configurations and editors.
TextsOK ==
  /\ environ \in Environs
  /\ \A s \in DOMAIN file : HasTexts(file[s].lines)
  /\ Writing => HasTexts(save.lines)

ValuesOK ==
  /\ \A c \in ready \cup {cfg} : \A k \in Keys : IsValue(k, c.value[k])
  /\ \A e \in Editors : Open(e) =>
       /\ \A k \in Keys : IsValue(k, ed[e].cfg.value[k])
       /\ \A k \in KeysOf(e) : IsShown(k, ed[e].value[k]) /\ IsShown(k, ed[e].saved[k])

\* The lines say what the fields f of e have: the keys of set the new value, the
\* others what was saved.
LinesShow(l, e, f, set) == \A k \in KeysOf(e) :
  IF k \in set THEN Agrees(l, k, f.value[k], TRUE) ELSE Agrees(l, k, f.saved[k], f.was[k])

NewShow(l, e, f) == \A k \in KeysOf(e) : Agrees(l, k, f.value[k], f.present[k])

\* The keys that the save under way has set in the file.
HalfSet(e) == IF e = screen /\ save.step \in {"unset", "unsetWrite"} THEN Setting(e) ELSE {}

\* What an editor has as saved is in its file and, in a save, will be.
FileShown == \A e \in Editors : (Open(e) /\ e \notin stirred) =>
  LinesShow(file[Scope(e)].lines, e, ed[e], HalfSet(e))

LinesShown == Writing =>
  \A e \in Editors : (Open(e) /\ e \notin stirred /\ Scope(e) = Scope(screen)) =>
    IF e # screen THEN LinesShow(save.lines, e, ed[e], {})
    ELSE IF save.step = "setWrite" THEN LinesShow(save.lines, e, ed[e], Setting(e))
    ELSE NewShow(save.lines, e, ed[e])

\* Of what is not in its file, an editor has the value from elsewhere.
Inherits == Unwritten =>
  \A e \in Editors : (Open(e) /\ e \notin stale) =>
    \A k \in KeysOf(e) : ~ed[e].was[k] => ed[e].saved[k] = Shown(k, Show(k, Resolved(file, environ, k)))

ShowInv == TextsOK /\ ValuesOK /\ FileShown /\ LinesShown /\ Inherits

LEMMA KeysAre ==
  ASSUME NEW e
  PROVE  KeysOf(e) \subseteq JailKeys /\ JailKeys \subseteq Keys
BY SettingsAssumption DEF SettingsAssumption, KeysOf, Keys

\* The three files are files, in which every text is one.
LEMMA FilesAre ==
  ASSUME EditorInv, StateInv, TextsOK
  PROVE  /\ DOMAIN file = {"global", "own", "project"}
         /\ \A s \in DOMAIN file : IsFile(file[s]) /\ IsText(file[s].lines) /\ HasTexts(file[s].lines)
         /\ \A k \in Keys : IsText(environ[k])
<1>1. DOMAIN file = {"global", "own", "project"}
  BY DEF EditorInv, Screens
<1>2. \A s \in DOMAIN file : IsFile(file[s])
  BY DEF StateInv, FilesOK
<1>3. \A k \in Keys : IsText(environ[k])
  BY SettingsAssumption DEF SettingsAssumption, TextsOK
<1> QED  BY <1>1, <1>2, <1>3, FileLines DEF TextsOK

\* What was just loaded is what the file says.
LEMMA FreshShows ==
  ASSUME EditorInv, StateInv, TextsOK, NEW e \in Editors, NEW c, \A k \in Keys : IsValue(k, c.value[k]),
         NEW s \in Scopes, NEW f, f = buildFields(e, c, s)
  PROVE  /\ f.cfg = c /\ f.scope = s
         /\ \A k \in KeysOf(e) : IsShown(k, f.value[k]) /\ IsShown(k, f.saved[k])
         /\ LinesShow(file[s].lines, e, f, {})
         /\ c = LoadConfig(file, environ) =>
              \A k \in KeysOf(e) : ~f.was[k] => f.saved[k] = Shown(k, Show(k, Resolved(file, environ, k)))
<1>1. PICK l : l = file[s].lines
  OBVIOUS
<1>2. IsText(l) /\ HasTexts(l) /\ Raw(s) = parseEnvFile(l)
  BY <1>1, FilesAre DEF Raw, Parse, Scopes
<1>3. /\ f.cfg = c /\ f.scope = s /\ f.saved = f.value
      /\ \A k \in KeysOf(e) :
           /\ f.was[k] = (k \in DOMAIN parseEnvFile(l))
           /\ k \in DOMAIN parseEnvFile(l) => f.value[k] = Shown(k, parseEnvFile(l)[k])
           /\ k \notin DOMAIN parseEnvFile(l) => f.value[k] = Shown(k, Show(k, c.value[k]))
  BY <1>2 DEF buildFields
<1>4. \A k \in KeysOf(e) : IsShown(k, f.value[k])
  BY <1>2, <1>3, KeysAre, TextsParsed, TextsShown, TypedShown
<1>5. LinesShow(l, e, f, {})
  BY <1>3 DEF LinesShow, Agrees
<1>6. ASSUME c = LoadConfig(file, environ), NEW k \in KeysOf(e), ~f.was[k]
      PROVE  f.saved[k] = Shown(k, Show(k, Resolved(file, environ, k)))
  <2>1. k \in Keys
    BY KeysAre
  <2>2. c.value[k] = Resolved(file, environ, k)
    BY <1>6, <2>1, LayersResolve
  <2> QED  BY <1>3, <1>6, <2>2
<1> QED  BY <1>1, <1>3, <1>4, <1>5, <1>6

\* A key leaves what an open editor has as saved, or loads the editor.
Stays(e) ==
  /\ Open(e)
  /\ ed'[e].saved = ed[e].saved /\ ed'[e].was = ed[e].was
  /\ ed'[e].scope = ed[e].scope /\ ed'[e].cfg = ed[e].cfg
  /\ e \notin stirred' => e \notin stirred
  /\ e \notin stale' => e \notin stale
  /\ \A k \in KeysOf(e) : IsShown(k, ed'[e].value[k])

Fresh(e) == \E c : \E s \in Scopes :
  /\ ed'[e] = buildFields(e, c, s)
  /\ \A k \in Keys : IsValue(k, c.value[k])
  /\ e \notin stale' => c = LoadConfig(file, environ)

LEMMA HandledShow ==
  ASSUME EditorInv, StateInv, ShowInv, save = Saved, save' = Saved,
         UNCHANGED <<file, environ, cfgVars>>,
         \A e \in Editors : Open(e)' => Stays(e) \/ Fresh(e)
  PROVE  ShowInv'
<1>1. ~Writing /\ ~Writing' /\ Unwritten /\ \A e \in Editors : HalfSet(e) = {}
  BY DEF Writing, Unwritten, HalfSet, Saved
<1>2. \A e \in Editors : HalfSet(e)' = {}
  BY DEF HalfSet, Saved
<1>3. TextsOK /\ TextsOK'
  BY <1>1 DEF ShowInv, TextsOK
<1>4. ASSUME NEW e \in Editors, Open(e)'
      PROVE  /\ \A k \in Keys : IsValue(k, ed'[e].cfg.value[k])
             /\ \A k \in KeysOf(e) : IsShown(k, ed'[e].value[k]) /\ IsShown(k, ed'[e].saved[k])
             /\ e \notin stirred' => LinesShow(file[ed'[e].scope].lines, e, ed'[e], {})
             /\ e \notin stale' => \A k \in KeysOf(e) : ~ed'[e].was[k] =>
                  ed'[e].saved[k] = Shown(k, Show(k, Resolved(file, environ, k)))
  <2>1. CASE Stays(e)
    <3>1. /\ \A k \in Keys : IsValue(k, ed[e].cfg.value[k])
          /\ \A k \in KeysOf(e) : IsShown(k, ed[e].saved[k])
      BY <2>1 DEF Stays, ShowInv, ValuesOK
    <3>2. e \notin stirred => LinesShow(file[ed[e].scope].lines, e, ed[e], {})
      BY <1>1, <2>1 DEF Stays, ShowInv, FileShown, Scope
    <3>3. e \notin stale => \A k \in KeysOf(e) : ~ed[e].was[k] =>
            ed[e].saved[k] = Shown(k, Show(k, Resolved(file, environ, k)))
      BY <1>1, <2>1 DEF Stays, ShowInv, Inherits
    <3> QED  BY <2>1, <3>1, <3>2, <3>3 DEF Stays, LinesShow
  <2>2. CASE Fresh(e)
    <3>0. PICK c : \E s \in Scopes :
            /\ ed'[e] = buildFields(e, c, s)
            /\ \A k \in Keys : IsValue(k, c.value[k])
            /\ e \notin stale' => c = LoadConfig(file, environ)
      BY <2>2 DEF Fresh
    <3>1. PICK s \in Scopes :
            /\ ed'[e] = buildFields(e, c, s)
            /\ \A k \in Keys : IsValue(k, c.value[k])
            /\ e \notin stale' => c = LoadConfig(file, environ)
      BY <3>0
    <3>2. PICK f : f = ed'[e]
      OBVIOUS
    <3>3. f = buildFields(e, c, s)
      BY <3>1, <3>2
    <3>4. /\ f.cfg = c /\ f.scope = s
          /\ \A k \in KeysOf(e) : IsShown(k, f.value[k]) /\ IsShown(k, f.saved[k])
          /\ LinesShow(file[s].lines, e, f, {})
          /\ c = LoadConfig(file, environ) =>
               \A k \in KeysOf(e) : ~f.was[k] => f.saved[k] = Shown(k, Show(k, Resolved(file, environ, k)))
      BY <1>3, <3>1, <3>3, FreshShows
    <3> QED  BY <3>1, <3>2, <3>4
  <2> QED  BY <1>4, <2>1, <2>2
<1>5. ValuesOK'
  <2>1. UNCHANGED <<cfg, ready>>
    BY DEF cfgVars
  <2> QED  BY <1>4, <2>1 DEF ShowInv, ValuesOK
<1>6. FileShown'
  BY <1>2, <1>4 DEF FileShown, Scope
<1>7. LinesShown'
  BY <1>1 DEF LinesShown
<1>8. Inherits'
  BY <1>4 DEF Inherits
<1> QED  BY <1>3, <1>5, <1>6, <1>7, <1>8 DEF ShowInv

\* A key that puts a value of its key in a field.
LEMMA PutShows ==
  ASSUME EditorInv, StateInv, ShowInv, NEW e \in Editors, Pressed(e), NEW k, NEW v, NEW there,
         Put(e, k, v, there), IsShown(k, v)
  PROVE  ShowInv'
<1>1. DOMAIN ed = Editors /\ Open(e) /\ DOMAIN ed[e] = Fields /\ DOMAIN ed[e].value = KeysOf(e)
  BY DEF EditorInv, Screens, StateInv, FieldsOK, Pressed
<1>2. /\ \A d \in Editors \ {e} : ed'[d] = ed[d]
      /\ ed'[e].value = [ed[e].value EXCEPT ![k] = v]
      /\ ed'[e].saved = ed[e].saved /\ ed'[e].was = ed[e].was
      /\ ed'[e].scope = ed[e].scope /\ ed'[e].cfg = ed[e].cfg
  BY <1>1 DEF Put, Fields
<1>3. save = Saved /\ UNCHANGED <<file, environ, cfgVars, save, stirred, stale>>
  BY DEF Put, Pressed
<1>4. \A d \in Editors : Open(d) => \A x \in KeysOf(d) : IsShown(x, ed[d].value[x])
  BY DEF ShowInv, ValuesOK
<1>5. \A x \in KeysOf(e) : IsShown(x, ed'[e].value[x])
  BY <1>1, <1>2, <1>4
<1>6. \A d \in Editors : Open(d)' => Stays(d)
  BY <1>1, <1>2, <1>3, <1>4, <1>5 DEF Open, Stays
<1> QED  BY <1>3, <1>6, HandledShow

\* What AddPackages and DeletePackage make of a list is one.
LEMMA ListsEdited ==
  ASSUME NEW w, WordList(w)
  PROVE  /\ \A i \in DOMAIN w : WordList(RemoveAt(w, i))
         /\ \A words : WordList(words) =>
              WordList(w \o Selected(words, {i \in DOMAIN words : words[i] \notin ToSet(w)}))
<1>1. IsText(w) /\ DOMAIN w = 1..Len(w) /\ Len(w) \in Nat
  BY DEF WordList, IsText
<1>2. ASSUME NEW i \in DOMAIN w PROVE WordList(RemoveAt(w, i))
  <2>1. PICK n : n = Len(w)
    OBVIOUS
  <2>2. PICK T : w \in Seq(T)
    BY <1>1 DEF IsText
  <2>3. n \in Int /\ i \in Int /\ 1 <= i /\ i <= n /\ \A j \in 1..n : w[j] \in T
    BY <1>1, <2>1, <2>2
  <2>4. PICK a : a = SubSeq(w, 1, i - 1)
    OBVIOUS
  <2>5. PICK b : b = SubSeq(w, i + 1, n)
    OBVIOUS
  <2>6. PICK l : l = RemoveAt(w, i)
    OBVIOUS
  <2>7. l = a \o b
    BY <2>1, <2>4, <2>5, <2>6 DEF RemoveAt
  <2>8. a \in Seq(T) /\ Len(a) = i - 1 /\ \A j \in 1..i - 1 : a[j] = w[j]
    <3>1. i - 1 \in Int /\ 1 \in Int /\ \A j \in 1..i - 1 : w[j] \in T
      BY <2>3
    <3>2. /\ a \in Seq(T) /\ Len(a) = (IF 1 <= i - 1 THEN (i - 1) - 1 + 1 ELSE 0)
          /\ \A j \in 1..(i - 1) - 1 + 1 : a[j] = w[1 + j - 1]
      BY <2>4, <3>1, SubSeqProperties
    <3> QED  BY <2>3, <3>2
  <2>9. b \in Seq(T) /\ Len(b) = n - i /\ \A j \in 1..n - i : b[j] = w[i + j]
    <3>1. i + 1 \in Int /\ n \in Int /\ \A j \in i + 1..n : w[j] \in T
      BY <2>3
    <3>2. /\ b \in Seq(T) /\ Len(b) = (IF i + 1 <= n THEN n - (i + 1) + 1 ELSE 0)
          /\ \A j \in 1..n - (i + 1) + 1 : b[j] = w[(i + 1) + j - 1]
      BY <2>5, <3>1, SubSeqProperties
    <3>3. ASSUME NEW j \in 1..n - i PROVE b[j] = w[i + j]
      <4>1. j \in 1..n - (i + 1) + 1 /\ (i + 1) + j - 1 = i + j
        BY <2>3
      <4> QED  BY <3>2, <4>1
    <3> QED  BY <2>3, <3>2, <3>3
  <2>a. /\ l \in Seq(T) /\ Len(l) = Len(a) + Len(b)
        /\ \A j \in 1..Len(a) + Len(b) : l[j] = IF j <= Len(a) THEN a[j] ELSE b[j - Len(a)]
    BY <2>7, <2>8, <2>9, ConcatProperties
  <2>b. /\ Len(a) + Len(b) = n - 1 /\ DOMAIN l = 1..n - 1
        /\ \A j \in 1..n - 1 : l[j] = IF j <= i - 1 THEN a[j] ELSE b[j - (i - 1)]
    BY <2>3, <2>8, <2>9, <2>a
  <2>c. ASSUME NEW j \in 1..n - 1
        PROVE  \/ j < i /\ l[j] = w[j]
               \/ ~(j < i) /\ j + 1 \in 1..n /\ l[j] = w[j + 1]
    <3>1. CASE j < i
      <4>1. j <= i - 1 /\ j \in 1..i - 1
        BY <2>3, <3>1
      <4> QED  BY <2>8, <2>b, <3>1, <4>1
    <3>2. CASE ~(j < i)
      <4>1. /\ ~(j <= i - 1) /\ j - (i - 1) \in 1..n - i /\ i + (j - (i - 1)) = j + 1
            /\ j + 1 \in 1..n
        BY <2>3, <3>2
      <4>2. l[j] = b[j - (i - 1)]
        BY <2>b, <4>1
      <4>3. b[j - (i - 1)] = w[i + (j - (i - 1))]
        BY <2>9, <4>1
      <4> QED  BY <3>2, <4>1, <4>2, <4>3
    <3> QED  BY <3>1, <3>2
  <2>d. /\ \A x \in 1..n : w[x] # Space
        /\ \A x, y \in 1..n : w[x] = w[y] => x = y
    BY <1>1, <2>1 DEF WordList
  <2>e. \A j \in 1..n - 1 : j \in 1..n
    BY <2>3
  <2>f. ASSUME NEW j \in 1..n - 1 PROVE l[j] # Space
    BY <2>c, <2>d, <2>e
  <2>g. ASSUME NEW j \in 1..n - 1, NEW m \in 1..n - 1, l[j] = l[m] PROVE j = m
    <3>0. ASSUME NEW z \in 1..n - 1
          PROVE  \E x \in 1..n : l[z] = w[x] /\ ((z < i /\ x = z) \/ (~(z < i) /\ x = z + 1))
      <4>1. CASE z < i
        <5>1. z \in 1..n /\ l[z] = w[z]
          BY <2>c, <2>e, <4>1
        <5> QED  BY <4>1, <5>1
      <4>2. CASE ~(z < i)
        <5>1. z + 1 \in 1..n /\ l[z] = w[z + 1]
          BY <2>c, <4>2
        <5> QED  BY <4>2, <5>1
      <4> QED  BY <4>1, <4>2
    <3>1. PICK x \in 1..n : l[j] = w[x] /\ ((j < i /\ x = j) \/ (~(j < i) /\ x = j + 1))
      BY <3>0
    <3>2. PICK y \in 1..n : l[m] = w[y] /\ ((m < i /\ y = m) \/ (~(m < i) /\ y = m + 1))
      BY <3>0
    <3>3. x = y
      BY <2>d, <2>g, <3>1, <3>2
    <3> QED  BY <2>3, <3>1, <3>2, <3>3
  <2> QED  BY <2>6, <2>a, <2>b, <2>f, <2>g, SequenceOf DEF WordList
<1>3. ASSUME NEW words, WordList(words)
      PROVE  WordList(w \o Selected(words, {i \in DOMAIN words : words[i] \notin ToSet(w)}))
  <2> DEFINE I == {i \in DOMAIN words : words[i] \notin ToSet(w)}
             s == Selected(words, I)
             c == Cardinality(I)
             l == w \o s
             T == ToSet(w) \cup ToSet(words)
  <2>1. IsText(words)
    BY <1>3 DEF WordList
  <2>2. \A i \in I : i \in DOMAIN words /\ words[i] \notin ToSet(w)
    OBVIOUS
  <2> HIDE DEF I, s, c
  <2>3. /\ I \subseteq Nat /\ c \in Nat /\ s \in Seq(ToSet(words)) /\ Len(s) = c
        /\ \A n \in 1..c : Nth(I, n) \in I /\ s[n] = words[Nth(I, n)]
        /\ \A m, n \in 1..c : Nth(I, m) <= Nth(I, n) => m <= n
    BY <2>1, <2>2, Selects DEF s, c
  <2>4. \A n \in 1..c : s[n] # Space /\ \A j \in DOMAIN w : s[n] # w[j]
    <3>1. \A i \in DOMAIN words : words[i] # Space
      BY <1>3 DEF WordList
    <3>2. \A j \in DOMAIN w : w[j] \in ToSet(w)
      BY DEF ToSet
    <3>3. ASSUME NEW n \in 1..c PROVE s[n] # Space /\ \A j \in DOMAIN w : s[n] # w[j]
      <4>1. PICK i \in I : s[n] = words[i]
        BY <2>3
      <4> QED  BY <2>2, <3>1, <3>2, <4>1
    <3> QED  BY <3>3
  <2>5. ASSUME NEW m \in 1..c, NEW n \in 1..c, s[m] = s[n] PROVE m = n
    <3>1. Nth(I, m) = Nth(I, n)
      <4>1. PICK x \in I : x = Nth(I, m) /\ s[m] = words[x]
        BY <2>3
      <4>2. PICK y \in I : y = Nth(I, n) /\ s[n] = words[y]
        BY <2>3
      <4>3. \A i, j \in DOMAIN words : words[i] = words[j] => i = j
        BY <1>3 DEF WordList
      <4> QED  BY <2>2, <2>5, <4>1, <4>2, <4>3
    <3>2. Nth(I, m) \in Nat
      BY <2>3
    <3>3. m <= n /\ n <= m
      BY <2>3, <3>1, <3>2
    <3> QED  BY <2>3, <3>3
  <2>6. w \in Seq(T) /\ s \in Seq(T)
    <3>1. w \in Seq(ToSet(w)) /\ ToSet(w) \subseteq T /\ ToSet(words) \subseteq T
      BY <1>1 DEF IsText
    <3> HIDE DEF T
    <3> QED  BY <2>3, <3>1, SeqMonotonic
  <2> HIDE DEF T
  <2>7. /\ l \in Seq(T) /\ Len(l) = Len(w) + c
        /\ \A i \in 1..Len(w) + c : l[i] = IF i <= Len(w) THEN w[i] ELSE s[i - Len(w)]
    BY <2>3, <2>6, ConcatProperties
  <2> HIDE DEF l
  <2>8. \A i \in 1..Len(w) + c : \/ i \in DOMAIN w /\ l[i] = w[i]
                                 \/ i - Len(w) \in 1..c /\ ~(i <= Len(w)) /\ l[i] = s[i - Len(w)]
    BY <1>1, <2>3, <2>7
  <2>9. \A i \in 1..Len(w) + c : l[i] # Space
    BY <2>4, <2>8 DEF WordList
  <2>a. ASSUME NEW i \in 1..Len(w) + c, NEW j \in 1..Len(w) + c, l[i] = l[j] PROVE i = j
    <3>1. CASE i \in DOMAIN w /\ l[i] = w[i] /\ j \in DOMAIN w /\ l[j] = w[j]
      BY <2>a, <3>1 DEF WordList
    <3>2. CASE /\ i - Len(w) \in 1..c /\ l[i] = s[i - Len(w)]
               /\ j - Len(w) \in 1..c /\ l[j] = s[j - Len(w)]
      <4>1. i - Len(w) = j - Len(w)
        BY <2>5, <2>a, <3>2
      <4> QED  BY <1>1, <4>1
    <3> QED  BY <2>4, <2>8, <2>a, <3>1, <3>2
  <2>b. DOMAIN l = 1..Len(w) + c /\ IsText(l)
    BY <2>7, SequenceOf
  <2> QED  BY <2>9, <2>a, <2>b DEF WordList, l, s, I
<1> QED  BY <1>2, <1>3

LEMMA PutKeysShow ==
  ASSUME EditorInv, StateInv, ShowInv,
         \/ AddPackages \/ DeletePackage
         \/ \E k \in JailKeys : Toggle(k) \/ Type(k)
         \/ \E e \in Editors : \E k \in KeysOf(e) : ClearOverride(e, k)
  PROVE  ShowInv'
<1>0. /\ "settings" \in Editors /\ "packages" \in Editors /\ KeysOf("packages") = {Pkgs}
      /\ KeysOf("settings") = JailKeys \ {Pkgs} /\ Pkgs \in JailKeys \ BoolKeys
  BY SettingsAssumption DEF SettingsAssumption, Editors, KeysOf
<1>1. \A e \in Editors : Pressed(e) => \A k \in KeysOf(e) : IsShown(k, ed[e].value[k])
  BY DEF ShowInv, ValuesOK, EditorInv, Screens, Pressed
<1>2. ASSUME Pressed("packages") PROVE WordList(ed.packages.value[Pkgs])
  BY <1>0, <1>1, <1>2 DEF IsShown
<1>3. CASE AddPackages
  <2>1. PICK pkgs : pkgs = ed.packages.value[Pkgs]
    OBVIOUS
  <2>2. PICK v \in Typed[Pkgs] :
          Put("packages", Pkgs,
              pkgs \o Selected(splitPackages(v), {i \in DOMAIN splitPackages(v) : splitPackages(v)[i] \notin ToSet(pkgs)}),
              TRUE)
    BY <1>3, <2>1 DEF AddPackages
  <2>3. WordList(splitPackages(v))
    <3>1. IsText(v)
      BY <1>0 , SettingsAssumption DEF SettingsAssumption
    <3> QED  BY <3>1, WordsSplit
  <2>4. WordList(pkgs) /\ Pressed("packages")
    BY <1>2, <1>3, <2>1 DEF AddPackages
  <2>5. PICK w : w = pkgs \o Selected(splitPackages(v),
                       {i \in DOMAIN splitPackages(v) : splitPackages(v)[i] \notin ToSet(pkgs)})
    OBVIOUS
  <2>6. WordList(w)
    BY <2>3, <2>4, <2>5, ListsEdited
  <2> QED  BY <1>0, <2>2, <2>4, <2>5, <2>6, PutShows DEF IsShown
<1>4. CASE DeletePackage
  <2>1. PICK pkgs : pkgs = ed.packages.value[Pkgs]
    OBVIOUS
  <2>2. PICK i \in DOMAIN pkgs : Put("packages", Pkgs, RemoveAt(pkgs, i), TRUE)
    BY <1>4, <2>1 DEF DeletePackage
  <2>3. WordList(pkgs) /\ Pressed("packages")
    BY <1>2, <1>4, <2>1 DEF DeletePackage
  <2>4. WordList(RemoveAt(pkgs, i))
    BY <2>3, ListsEdited
  <2> QED  BY <1>0, <2>2, <2>3, <2>4, PutShows DEF IsShown
<1>5. ASSUME NEW k \in JailKeys, Toggle(k) PROVE ShowInv'
  <2>1. k \in KeysOf("settings") /\ k # Pkgs /\ Pressed("settings")
    BY <1>0, <1>5 DEF Toggle
  <2>2. PICK v : /\ v = <<"true">> \/ v = <<"false">> \/ v = ed.settings.value[k]
                 /\ \E there \in {TRUE, FALSE} : Put("settings", k, v, there)
    BY <1>5 DEF Toggle
  <2>3. <<"true">> \in Seq({"true"}) /\ <<"false">> \in Seq({"false"})
    OBVIOUS
  <2>4. IsText(<<"true">>) /\ IsText(<<"false">>)
    BY <2>3, SequenceOf
  <2>5. IsShown(k, v)
    BY <1>0, <1>1, <2>1, <2>2, <2>4 DEF IsShown
  <2> QED  BY <1>0, <2>1, <2>2, <2>5, PutShows
<1>6. ASSUME NEW k \in JailKeys, Type(k) PROVE ShowInv'
  <2>1. k # Pkgs /\ Pressed("settings") /\ k \notin BoolKeys
    BY <1>0, <1>6 DEF Type
  <2>2. PICK v \in Typed[k] : Put("settings", k, v, TRUE)
    BY <1>6 DEF Type
  <2>3. IsText(v)
    BY <2>1, SettingsAssumption DEF SettingsAssumption
  <2> QED  BY <1>0, <2>1, <2>2, <2>3, PutShows DEF IsShown
<1>7. ASSUME NEW e \in Editors, NEW k \in KeysOf(e), ClearOverride(e, k) PROVE ShowInv'
  <2>1. Pressed(e) /\ Put(e, k, ed[e].value[k], FALSE)
    BY <1>7 DEF ClearOverride
  <2> QED  BY <1>1, <2>1, PutShows
<1> QED  BY <1>3, <1>4, <1>5, <1>6, <1>7

LEMMA OtherKeysShow ==
  ASSUME EditorInv, StateInv, ShowInv, NEW e \in Editors, OtherKey(e) \/ Revert(e) \/ Esc(e) \/ ToggleScope(e)
  PROVE  ShowInv'
<1>0. Pressed(e) /\ save = Saved /\ UNCHANGED <<file, environ, cfgVars, save>>
  BY DEF OtherKey, Revert, Esc, ToggleScope, Pressed
<1>1. DOMAIN ed = Editors /\ Open(e) /\ DOMAIN ed[e] = Fields
  BY <1>0 DEF EditorInv, Screens, Pressed
<1>2. \A d \in Editors : Open(d) => \A x \in KeysOf(d) : IsShown(x, ed[d].value[x]) /\ IsShown(x, ed[d].saved[x])
  BY DEF ShowInv, ValuesOK
<1>3. CASE OtherKey(e) \/ Revert(e)
  <2>1. UNCHANGED <<stirred, stale>>
    BY <1>3 DEF OtherKey, Revert
  <2>2. /\ \A d \in Editors \ {e} : ed'[d] = ed[d]
        /\ ed'[e].value \in {ed[e].value, ed[e].saved}
        /\ ed'[e].saved = ed[e].saved /\ ed'[e].was = ed[e].was
        /\ ed'[e].scope = ed[e].scope /\ ed'[e].cfg = ed[e].cfg
    BY <1>1, <1>3 DEF OtherKey, Revert, Fields
  <2>3. \A d \in Editors : Open(d)' => Stays(d)
    BY <1>1, <1>2, <2>1, <2>2 DEF Open, Stays
  <2> QED  BY <1>0, <2>3, HandledShow
<1>4. CASE Esc(e)
  <2>1. CASE ed' = [ed EXCEPT ![e].confirmed = TRUE] /\ UNCHANGED <<stirred, stale>>
    <3>1. /\ \A d \in Editors \ {e} : ed'[d] = ed[d]
          /\ ed'[e].value = ed[e].value
          /\ ed'[e].saved = ed[e].saved /\ ed'[e].was = ed[e].was
          /\ ed'[e].scope = ed[e].scope /\ ed'[e].cfg = ed[e].cfg
      BY <1>1, <2>1 DEF Fields
    <3>2. \A d \in Editors : Open(d)' => Stays(d)
      BY <1>1, <1>2, <2>1, <3>1 DEF Open, Stays
    <3> QED  BY <1>0, <3>2, HandledShow
  <2>2. CASE ed' = [ed EXCEPT ![e] = Closed] /\ stirred' = stirred \ {e} /\ stale' = stale \ {e}
    <3>1. ed'[e] = Closed /\ \A d \in Editors \ {e} : ed'[d] = ed[d]
      BY <1>1, <2>2
    <3>2. \A d \in Editors : Open(d)' => Stays(d)
      BY <1>2, <2>2, <3>1 DEF Open, Stays
    <3> QED  BY <1>0, <3>2, HandledShow
  <2> QED  BY <1>4, <2>1, <2>2 DEF Esc
<1>5. CASE ToggleScope(e)
  <2>1. PICK s \in Scopes : Load(ed, e, ed[e].cfg, s)
    BY <1>5 DEF ToggleScope, Scopes
  <2>2. /\ ed'[e] = buildFields(e, ed[e].cfg, s) /\ \A d \in Editors \ {e} : ed'[d] = ed[d]
        /\ stirred' = stirred \ {e} /\ stale' \ {e} = stale \ {e}
        /\ e \notin stale' => ed[e].cfg = LoadConfig(file, environ)
    BY <1>1, <2>1 DEF Load
  <2>3. Fresh(e)
    BY <1>1, <2>2 DEF Fresh, ShowInv, ValuesOK
  <2>4. \A d \in Editors \ {e} : Open(d)' => Stays(d)
    BY <1>2, <2>2 DEF Open, Stays
  <2> QED  BY <1>0, <2>3, <2>4, HandledShow
<1> QED  BY <1>3, <1>4, <1>5

LEMMA OpeningShows ==
  ASSUME EditorInv, StateInv, ShowInv, OpenSettings \/ OpenPackages
  PROVE  ShowInv'
<1>0. save = Saved /\ UNCHANGED <<file, environ, cfgVars, save>>
  BY DEF OpenSettings, OpenPackages, Pressed
<1>1. DOMAIN ed = Editors /\ \A k \in Keys : IsValue(k, cfg.value[k])
  BY DEF EditorInv, Screens, ShowInv, ValuesOK
<1>2. \A d \in Editors : Open(d) => \A x \in KeysOf(d) : IsShown(x, ed[d].value[x]) /\ IsShown(x, ed[d].saved[x])
  BY DEF ShowInv, ValuesOK
<1>3. ASSUME NEW f, NEW e \in Editors, Load(f, e, cfg, "global"), DOMAIN f = Editors,
             \A d \in Editors \ {e} : Open(d)' =>
               /\ Open(d) /\ f[d].saved = ed[d].saved /\ f[d].was = ed[d].was /\ f[d].value = ed[d].value
               /\ f[d].scope = ed[d].scope /\ f[d].cfg = ed[d].cfg
      PROVE  ShowInv'
  <2>1. /\ ed'[e] = buildFields(e, cfg, "global") /\ \A d \in Editors \ {e} : ed'[d] = f[d]
        /\ stirred' = stirred \ {e} /\ stale' \ {e} = stale \ {e}
        /\ e \notin stale' => cfg = LoadConfig(file, environ)
    BY <1>3 DEF Load
  <2>2. Fresh(e)
    BY <1>1, <2>1 DEF Fresh, Scopes
  <2>3. \A d \in Editors \ {e} : Open(d)' => Stays(d)
    BY <1>2, <1>3, <2>1 DEF Stays
  <2> QED  BY <1>0, <2>2, <2>3, HandledShow
<1>4. CASE OpenSettings
  <2>1. Load(ed, "settings", cfg, "global") /\ screen = "hub"
    BY <1>4 DEF OpenSettings, Pressed
  <2>2. \A d \in Editors \ {"settings"} : ed'[d] = ed[d]
    BY <1>1, <2>1 DEF Load
  <2> QED  BY <1>1, <1>3, <2>1, <2>2 DEF Open, Editors
<1>5. CASE OpenPackages
  <2> DEFINE f == [ed EXCEPT !["settings"].confirmed = FALSE]
  <2>1. Load(f, "packages", cfg, "global") /\ screen = "settings"
    BY <1>5 DEF OpenPackages, Pressed
  <2>2. DOMAIN ed["settings"] = Fields /\ Open("settings") /\ "settings" \in Editors /\ "packages" \in Editors
    BY <2>1 DEF EditorInv, Screens, Editors
  <2>3. /\ f["settings"].saved = ed["settings"].saved /\ f["settings"].was = ed["settings"].was
        /\ f["settings"].value = ed["settings"].value
        /\ f["settings"].scope = ed["settings"].scope /\ f["settings"].cfg = ed["settings"].cfg
        /\ DOMAIN f = Editors
    BY <1>1, <2>2 DEF Fields
  <2>4. \A d \in Editors \ {"packages"} : d = "settings"
    BY DEF Editors
  <2> HIDE DEF f
  <2> QED  BY <1>3, <2>1, <2>2, <2>3, <2>4
<1> QED  BY <1>4, <1>5

LEMMA ChangedOrNot ==
  ASSUME NEW e \in Editors, NEW k \in KeysOf(e)
  PROVE  /\ k \in Setting(e) => ed[e].present[k]
         /\ k \in Clearing(e) => ~ed[e].present[k]
         /\ k \notin Setting(e) /\ k \notin Clearing(e) =>
              ed[e].value[k] = ed[e].saved[k] /\ ed[e].present[k] = ed[e].was[k]
         /\ k \in KeysOf(e)
BY DEF Setting, Clearing, Changed

LEMMA KeysApart ==
  ASSUME NEW d \in Editors, NEW e \in Editors, d # e, NEW k \in KeysOf(d)
  PROVE  k \notin Setting(e) /\ k \notin Clearing(e)
BY DEF Setting, Clearing, Changed, KeysOf, Editors

\* A save sets what was changed, and no key of the other editor.
LEMMA SetShows ==
  ASSUME EditorInv, StateInv, ShowInv, NEW e \in Editors, Open(e), NEW old, IsText(old), HasTexts(old),
         NEW l, l = SetEnvValues(old, [k \in Setting(e) |-> Written(k, ed[e].value[k])])
  PROVE  /\ HasTexts(l)
         /\ LinesShow(old, e, ed[e], {}) => LinesShow(l, e, ed[e], Setting(e))
         /\ \A d \in Editors \ {e} : \A f : LinesShow(old, d, f, {}) => LinesShow(l, d, f, {})
<1>1. PICK values : values = [k \in Setting(e) |-> Written(k, ed[e].value[k])]
  OBVIOUS
<1>2. DOMAIN values = Setting(e) /\ IsFiniteSet(DOMAIN values) /\ Setting(e) \subseteq KeysOf(e)
  BY <1>1, KeysFinite DEF Setting, Changed
<1>3. \A k \in Setting(e) : IsText(values[k]) /\ Shown(k, values[k]) = ed[e].value[k]
  <2> SUFFICES ASSUME NEW k \in Setting(e) PROVE IsText(values[k]) /\ Shown(k, values[k]) = ed[e].value[k]
    OBVIOUS
  <2>1. PICK v : v = ed[e].value[k] /\ IsShown(k, v)
    BY <1>2 DEF ShowInv, ValuesOK
  <2>2. IsText(Written(k, v)) /\ Shown(k, stripQuotes(quoteEnvValue(Written(k, v)))) = v
    BY <2>1, WrittenShown
  <2>3. stripQuotes(quoteEnvValue(Written(k, v))) = Written(k, v)
    BY <2>2, TextsQuoted
  <2> QED  BY <1>1, <2>1, <2>2, <2>3
<1>4. /\ HasTexts(l)
      /\ \A k \in DOMAIN values : \A v : Shown(k, values[k]) = v => Agrees(l, k, v, TRUE)
      /\ \A k, v, there : k \notin DOMAIN values /\ Agrees(old, k, v, there) => Agrees(l, k, v, there)
  BY <1>1, <1>2, <1>3, SetAgrees
<1>5. LinesShow(old, e, ed[e], {}) => LinesShow(l, e, ed[e], Setting(e))
  BY <1>2, <1>3, <1>4 DEF LinesShow
<1>6. ASSUME NEW d \in Editors \ {e}, NEW f, LinesShow(old, d, f, {}) PROVE LinesShow(l, d, f, {})
  <2>1. \A k \in KeysOf(d) : k \notin DOMAIN values
    BY <1>2, KeysApart
  <2> QED  BY <1>4, <1>6, <2>1 DEF LinesShow
<1> QED  BY <1>4, <1>5, <1>6

\* And removes what was cleared, with which the file is what is shown.
LEMMA UnsetShows ==
  ASSUME EditorInv, StateInv, NEW e \in Editors, NEW old, IsText(old), HasTexts(old),
         NEW l, l = UnsetEnvValues(old, Clearing(e))
  PROVE  /\ HasTexts(l)
         /\ LinesShow(old, e, ed[e], Setting(e)) => NewShow(l, e, ed[e])
         /\ \A d \in Editors \ {e} : \A f : LinesShow(old, d, f, {}) => LinesShow(l, d, f, {})
<1>1. /\ HasTexts(l)
      /\ \A k \in Clearing(e) : At(l, "active", k) = {}
      /\ \A k : k \notin Clearing(e) =>
           /\ OnceIn(l, k) => OnceIn(old, k)
           /\ k \in DOMAIN parseEnvFile(l) <=> k \in DOMAIN parseEnvFile(old)
           /\ k \in DOMAIN parseEnvFile(old) => parseEnvFile(l)[k] = parseEnvFile(old)[k]
  BY UnsetKeeps
<1>2. ASSUME NEW k, k \notin Clearing(e), NEW v, NEW there, Agrees(old, k, v, there)
      PROVE  Agrees(l, k, v, there)
  BY <1>1, <1>2 DEF Agrees
<1>3. ASSUME NEW k \in Clearing(e), NEW v PROVE Agrees(l, k, v, FALSE)
  BY <1>1, ParsedKey DEF Agrees
<1>4. ASSUME LinesShow(old, e, ed[e], Setting(e)), NEW k \in KeysOf(e)
      PROVE  Agrees(l, k, ed[e].value[k], ed[e].present[k])
  <2>1. CASE k \in Setting(e)
    <3>1. ed[e].present[k] /\ k \notin Clearing(e)
      BY <2>1, ChangedOrNot
    <3>2. Agrees(l, k, ed[e].value[k], TRUE)
      BY <1>2, <1>4, <2>1, <3>1 DEF LinesShow
    <3> QED  BY <3>1, <3>2 DEF Agrees
  <2>2. CASE k \in Clearing(e)
    <3>1. ~ed[e].present[k]
      BY <2>2, ChangedOrNot
    <3> QED  BY <1>3, <2>2, <3>1 DEF Agrees
  <2>3. CASE k \notin Setting(e) /\ k \notin Clearing(e)
    <3>1. ed[e].value[k] = ed[e].saved[k] /\ ed[e].present[k] = ed[e].was[k]
      BY <2>3, ChangedOrNot
    <3>2. Agrees(l, k, ed[e].saved[k], ed[e].was[k])
      BY <1>2, <1>4, <2>3 DEF LinesShow
    <3> QED  BY <3>1, <3>2
  <2> QED  BY <2>1, <2>2, <2>3
<1>5. ASSUME NEW d \in Editors \ {e}, NEW f, LinesShow(old, d, f, {}) PROVE LinesShow(l, d, f, {})
  <2>1. \A k \in KeysOf(d) : k \notin Clearing(e)
    BY KeysApart
  <2> QED  BY <1>2, <1>5, <2>1 DEF LinesShow
<1> QED  BY <1>1, <1>4, <1>5 DEF NewShow

\* With nothing cleared, what was set is all there was to do.
LEMMA SetIsAll ==
  ASSUME NEW e \in Editors, NEW l, LinesShow(l, e, ed[e], Setting(e)), Clearing(e) = {}
  PROVE  NewShow(l, e, ed[e])
<1> SUFFICES ASSUME NEW k \in KeysOf(e) PROVE Agrees(l, k, ed[e].value[k], ed[e].present[k])
  BY DEF NewShow
<1>1. CASE k \in Setting(e)
  <2>1. ed[e].present[k] /\ Agrees(l, k, ed[e].value[k], TRUE)
    BY <1>1, ChangedOrNot DEF LinesShow
  <2> QED  BY <2>1 DEF Agrees
<1>2. CASE k \notin Setting(e)
  <2>1. ed[e].value[k] = ed[e].saved[k] /\ ed[e].present[k] = ed[e].was[k]
    BY <1>2, ChangedOrNot
  <2> QED  BY <1>2, <2>1 DEF LinesShow
<1> QED  BY <1>1, <1>2

\* A file that is made says of every key what it said before: nothing.
LEMMA MadeShows ==
  ASSUME EditorInv, StateInv, TextsOK, NEW ss, NEW s \in DOMAIN file
  PROVE  /\ HasTexts(Made(ss)[s].lines)
         /\ \A e, f : LinesShow(file[s].lines, e, f, {}) => LinesShow(Made(ss)[s].lines, e, f, {})
<1>1. CASE Made(ss)[s] = file[s]
  BY <1>1, FilesAre
<1>2. CASE Made(ss)[s] # file[s]
  <2>1. file[s] = Absent /\ Made(ss)[s] = File(Template(s))
    BY <1>2, FilesAre DEF Made, IsFile, File
  <2>2. file[s].lines = <<>> /\ Made(ss)[s].lines = Template(s)
    BY <2>1 DEF Absent, File
  <2>a. <<>> \in Seq({})
    OBVIOUS
  <2>3. IsText(<<>>)
    BY <2>a, SequenceOf
  <2>4. \A k : At(Template(s), "active", k) = {} /\ At(<<>>, "active", k) = {}
    BY TemplateSaysNothing DEF At
  <2>5. \A k, v, there : Agrees(<<>>, k, v, there) => Agrees(Template(s), k, v, there)
    BY <2>3, <2>4, SameSaid
  <2>6. HasTexts(Template(s))
    BY TemplateSaysNothing DEF HasTexts
  <2> QED  BY <2>2, <2>5, <2>6 DEF LinesShow
<1> QED  BY <1>1, <1>2

\* A save begins: the files say what they said, and nothing is set yet.
LEMMA SaveShows ==
  ASSUME EditorInv, StateInv, ShowInv, NEW e \in Editors, Save(e)
  PROVE  ShowInv'
<1>1. /\ screen = e /\ save = Saved
      /\ UNCHANGED <<screen, environ, cfgVars, stirred, stale>>
      /\ ed' = [ed EXCEPT ![e].confirmed = FALSE]
  BY DEF Save, Pressed
<1>2. DOMAIN ed = Editors /\ Open(e) /\ DOMAIN ed[e] = Fields
  BY <1>1 DEF EditorInv, Screens
<1>3. \A d \in Editors :
        /\ ed'[d].value = ed[d].value /\ ed'[d].saved = ed[d].saved
        /\ ed'[d].present = ed[d].present /\ ed'[d].was = ed[d].was
        /\ ed'[d].scope = ed[d].scope /\ ed'[d].cfg = ed[d].cfg
        /\ Open(d)' => Open(d)
  BY <1>1, <1>2 DEF Fields, Open
<1>4. Setting(e)' = Setting(e)
  BY <1>3 DEF Setting, Changed
<1>5. save' = save \/ save'.step = IF Setting(e) # {} THEN "set" ELSE "unset"
  BY DEF Save, Step
<1>6. /\ ~Writing' /\ Unwritten
      /\ \A d \in Editors : HalfSet(d) = {} /\ HalfSet(d)' = {}
  BY <1>1, <1>4, <1>5 DEF Writing, Unwritten, HalfSet, Saved
<1>7. file' = file \/ \E ss : file' = Made(ss)
  BY DEF Save
<1>8. TextsOK
  BY DEF ShowInv
<1>9. /\ \A s \in DOMAIN file : HasTexts(file'[s].lines)
      /\ \A s \in DOMAIN file : \A d, f : LinesShow(file[s].lines, d, f, {}) => LinesShow(file'[s].lines, d, f, {})
      /\ DOMAIN file' = DOMAIN file
  <2>1. CASE file' = file
    BY <1>8, <2>1 DEF TextsOK
  <2>2. ASSUME NEW ss, file' = Made(ss)
        PROVE  /\ \A s \in DOMAIN file : HasTexts(file'[s].lines)
               /\ \A s \in DOMAIN file : \A d, f : LinesShow(file[s].lines, d, f, {}) => LinesShow(file'[s].lines, d, f, {})
               /\ DOMAIN file' = DOMAIN file
    <3>1. DOMAIN Made(ss) = DOMAIN file
      BY DEF Made
    <3> QED  BY <1>8, <2>2, <3>1, MadeShows
  <2> QED  BY <1>7, <2>1, <2>2
<1>10. \A k \in Keys : Resolved(file', environ, k) = Resolved(file, environ, k)
  <2>1. LoadConfig(file', environ) = LoadConfig(file, environ)
    BY <1>7, <1>8, FilesAre, MadeSaysNothing
  <2> QED  BY <2>1, LayersResolve
<1>11. TextsOK'
  BY <1>1, <1>6, <1>8, <1>9 DEF TextsOK
<1>12. ValuesOK'
  BY <1>1, <1>3 DEF ShowInv, ValuesOK, cfgVars
<1>13. FileShown'
  <2> SUFFICES ASSUME NEW d \in Editors, Open(d)', d \notin stirred'
               PROVE  LinesShow(file'[ed'[d].scope].lines, d, ed'[d], {})
    BY <1>6 DEF FileShown, Scope
  <2>1. ed[d].scope \in DOMAIN file
    BY <1>3 DEF EditorInv, Screens, Scope, Scopes
  <2>2. LinesShow(file[ed[d].scope].lines, d, ed[d], {})
    BY <1>1, <1>3, <1>6 DEF ShowInv, FileShown, Scope
  <2>3. LinesShow(file'[ed[d].scope].lines, d, ed[d], {})
    BY <1>9, <2>1, <2>2
  <2> QED  BY <1>3, <2>3 DEF LinesShow
<1>14. LinesShown'
  BY <1>6 DEF LinesShown
<1>15. Inherits'
  <2>1. \A d : KeysOf(d) \subseteq Keys
    BY KeysAre
  <2> QED  BY <1>1, <1>3, <1>6, <1>10, <2>1 DEF ShowInv, Inherits
<1> QED  BY <1>11, <1>12, <1>13, <1>14, <1>15 DEF ShowInv

\* A save ends: what was changed is what is saved.
LEMMA FinishShows ==
  ASSUME EditorInv, StateInv, ShowInv, NEW e \in Editors, screen = e, Finish(e),
         UNCHANGED <<environ, cfg, ready, stirred>>,
         \A s \in DOMAIN file' : HasTexts(file'[s].lines),
         e \notin stirred => NewShow(file'[Scope(e)].lines, e, ed[e]),
         \A d \in Editors \ {e} : (Open(d) /\ d \notin stirred) =>
           LinesShow(file'[Scope(d)].lines, d, ed[d], {})
  PROVE  ShowInv'
<1>1. DOMAIN ed = Editors /\ Open(e) /\ DOMAIN ed[e] = Fields
  BY DEF EditorInv, Screens
<1>2. save' = Saved /\ stale' = {d \in Editors : Open(d)}
  BY DEF Finish
<1>3. /\ \A d \in Editors \ {e} : ed'[d] = ed[d]
      /\ ed'[e].value = ed[e].value /\ ed'[e].saved = ed[e].value
      /\ ed'[e].present = ed[e].present /\ ed'[e].was = ed[e].present
      /\ ed'[e].scope = ed[e].scope /\ ed'[e].cfg = ed[e].cfg
  BY <1>1 DEF Finish, Fields
<1>4. ~Writing' /\ \A d \in Editors : HalfSet(d)' = {}
  BY <1>2 DEF Writing, HalfSet, Saved
<1>5. TextsOK'
  BY <1>4 DEF ShowInv, TextsOK
<1>6. ValuesOK'
  <2>1. \A d \in Editors : Open(d)' => Open(d)
    BY <1>1, <1>3 DEF Open
  <2> QED  BY <1>3, <2>1 DEF ShowInv, ValuesOK
<1>7. FileShown'
  <2> SUFFICES ASSUME NEW d \in Editors, Open(d)', d \notin stirred
               PROVE  LinesShow(file'[ed'[d].scope].lines, d, ed'[d], {})
    BY <1>4 DEF FileShown, Scope
  <2>1. CASE d = e
    BY <1>3, <2>1 DEF LinesShow, NewShow, Scope
  <2>2. CASE d # e
    BY <1>3, <2>2 DEF Open, Scope
  <2> QED  BY <2>1, <2>2
<1>8. LinesShown'
  BY <1>4 DEF LinesShown
<1>9. Inherits'
  <2>1. \A d \in Editors : Open(d)' => d \in stale'
    BY <1>1, <1>2, <1>3 DEF Open
  <2> QED  BY <2>1 DEF Inherits
<1> QED  BY <1>5, <1>6, <1>7, <1>8, <1>9 DEF ShowInv

\* A step of a save that leaves the editors as they are, and writes what it set, if
\* it writes.
LEMMA MidShows ==
  ASSUME EditorInv, StateInv, ShowInv, UNCHANGED <<environ, cfg, ready, screen, ed>>,
         \A s \in DOMAIN file' : HasTexts(file'[s].lines),
         Writing' => HasTexts(save'.lines),
         stirred \subseteq stirred', stale \subseteq stale',
         FileShown', LinesShown', Unwritten' => Unwritten /\ UNCHANGED file
  PROVE  ShowInv'
<1>1. TextsOK'
  BY DEF ShowInv, TextsOK
<1>2. ValuesOK'
  BY DEF ShowInv, ValuesOK, Open
<1>3. Inherits'
  BY DEF ShowInv, Inherits, Open
<1> QED  BY <1>1, <1>2, <1>3 DEF ShowInv

\* A save that gives up before it has set anything.
LEMMA FailShows ==
  ASSUME EditorInv, StateInv, ShowInv, Unwritten, FollowInv,
         save' = Saved, UNCHANGED <<file, environ, cfg, ready, screen, ed, stirred, stale>>
  PROVE  ShowInv'
<1>1. ~Writing' /\ \A d \in Editors : HalfSet(d)' = {}
  BY DEF Writing, HalfSet, Saved
<1>2. \A d \in Editors : HalfSet(d) = {}
  BY DEF Unwritten, HalfSet
<1>3. FileShown'
  BY <1>1, <1>2 DEF ShowInv, FileShown, Scope, Open
<1>4. LinesShown'
  BY <1>1 DEF LinesShown
<1>5. \A s \in DOMAIN file' : HasTexts(file'[s].lines)
  BY DEF ShowInv, TextsOK
<1> QED  BY <1>1, <1>3, <1>4, <1>5, MidShows

LEMMA SetReadShows ==
  ASSUME EditorInv, StateInv, FollowInv, ShowInv, NEW e \in Editors, SetRead(e)
  PROVE  ShowInv'
<1>1. /\ screen = e /\ save.step = "set"
      /\ UNCHANGED <<environ, cfg, ready, screen, file, ed, stirred, stale>>
  BY DEF SetRead, SaveSteps, Fail
<1>2. Unwritten
  BY <1>1 DEF Unwritten
<1>3. CASE save' = Saved
  BY <1>1, <1>2, <1>3, FailShows
<1>4. CASE save' # Saved
  <2>1. PICK old : old = file[Scope(e)].lines
    OBVIOUS
  <2>2. PICK l : l = SetEnvValues(old, [k \in Setting(e) |-> Written(k, ed[e].value[k])])
    OBVIOUS
  <2>3. save' = [step |-> "setWrite", lines |-> l]
    BY <1>4, <2>1, <2>2 DEF SetRead, Fail, Step, readEnvLines
  <2>4. Open(e) /\ Scope(e) \in DOMAIN file /\ TextsOK
    BY <1>1 DEF EditorInv, Screens, Scopes, ShowInv
  <2>5. IsText(old) /\ HasTexts(old)
    BY <2>1, <2>4, FilesAre
  <2>6. /\ HasTexts(l)
        /\ LinesShow(old, e, ed[e], {}) => LinesShow(l, e, ed[e], Setting(e))
        /\ \A d \in Editors \ {e} : \A f : LinesShow(old, d, f, {}) => LinesShow(l, d, f, {})
    BY <2>2, <2>4, <2>5, SetShows
  <2>7. \A d \in Editors : HalfSet(d) = {} /\ HalfSet(d)' = {}
    BY <1>1, <2>3 DEF HalfSet
  <2>8. FileShown'
    BY <1>1, <2>7 DEF ShowInv, FileShown, Scope, Open
  <2>9. LinesShown'
    <3> SUFFICES ASSUME NEW d \in Editors, Open(d), d \notin stirred, Scope(d) = Scope(e)
                 PROVE  LinesShow(l, d, ed[d], IF d # e THEN {} ELSE Setting(e))
      BY <1>1, <2>3 DEF LinesShown, Open, Scope, Setting, Changed
    <3>1. LinesShow(old, d, ed[d], {})
      BY <2>1, <2>7 DEF ShowInv, FileShown
    <3> QED  BY <2>6, <3>1
  <2>10. Unwritten' /\ UNCHANGED file
    BY <1>1, <2>3 DEF Unwritten
  <2>11. \A s \in DOMAIN file' : HasTexts(file'[s].lines)
    BY <1>1, <2>4 DEF TextsOK
  <2> QED  BY <1>1, <1>2, <2>3, <2>6, <2>8, <2>9, <2>11, MidShows
<1> QED  BY <1>3, <1>4

\* What is written to the file of e: the texts of all files, and what the others show.
LEMMA WriteShows ==
  ASSUME EditorInv, StateInv, ShowInv, NEW e \in Editors, screen = e, Writing,
         file' = [file EXCEPT ![Scope(e)] = File(save.lines)]
  PROVE  /\ \A s \in DOMAIN file' : HasTexts(file'[s].lines)
         /\ file'[Scope(e)].lines = save.lines
         /\ \A d \in Editors \ {e} : (Open(d) /\ d \notin stirred) =>
              LinesShow(file'[Scope(d)].lines, d, ed[d], {})
<1>1. /\ Scope(e) \in DOMAIN file /\ TextsOK
      /\ DOMAIN file' = DOMAIN file
      /\ \A d \in Editors : Open(d) => Scope(d) \in DOMAIN file
  BY DEF EditorInv, Screens, Scopes, ShowInv
<1>2. file'[Scope(e)].lines = save.lines /\ \A s \in DOMAIN file \ {Scope(e)} : file'[s] = file[s]
  BY <1>1 DEF File
<1>3. \A s \in DOMAIN file' : HasTexts(file'[s].lines)
  BY <1>1, <1>2 DEF TextsOK
<1>4. ASSUME NEW d \in Editors \ {e}, Open(d), d \notin stirred
      PROVE  LinesShow(file'[Scope(d)].lines, d, ed[d], {})
  <2>1. CASE Scope(d) = Scope(e)
    BY <1>2, <1>4, <2>1 DEF ShowInv, LinesShown
  <2>2. CASE Scope(d) # Scope(e)
    <3>1. HalfSet(d) = {}
      BY DEF HalfSet
    <3>2. LinesShow(file[Scope(d)].lines, d, ed[d], {})
      BY <1>4, <3>1 DEF ShowInv, FileShown
    <3> QED  BY <1>1, <1>2, <1>4, <2>2, <3>2
  <2> QED  BY <2>1, <2>2
<1> QED  BY <1>2, <1>3, <1>4

LEMMA SetWriteShows ==
  ASSUME EditorInv, StateInv, FollowInv, ShowInv, NEW e \in Editors, SetWrite(e)
  PROVE  ShowInv'
<1>1. /\ screen = e /\ save.step = "setWrite"
      /\ UNCHANGED <<environ, cfg, ready, screen, stirred>>
  BY DEF SetWrite, SaveSteps
<1>2. Unwritten /\ Writing /\ Setting(e) # {}
  BY <1>1 DEF Unwritten, Writing, FollowInv, Stages
<1>3. CASE Fail /\ UNCHANGED file
  BY <1>1, <1>2, <1>3, FailShows DEF Fail
<1>4. CASE file' = [file EXCEPT ![Scope(e)] = File(save.lines)]
  <2>1. PICK l : l = save.lines
    OBVIOUS
  <2>2. /\ \A s \in DOMAIN file' : HasTexts(file'[s].lines)
        /\ file'[Scope(e)].lines = l
        /\ \A d \in Editors \ {e} : (Open(d) /\ d \notin stirred) =>
             LinesShow(file'[Scope(d)].lines, d, ed[d], {})
    BY <1>1, <1>2, <1>4, <2>1, WriteShows
  <2>3. Open(e) /\ (e \notin stirred => LinesShow(l, e, ed[e], Setting(e)))
    BY <1>1, <1>2, <2>1 DEF ShowInv, LinesShown, EditorInv, Screens
  <2>4. CASE Clearing(e) = {} /\ Finish(e)
    <3>1. e \notin stirred => NewShow(file'[Scope(e)].lines, e, ed[e])
      BY <2>2, <2>3, <2>4, SetIsAll
    <3> QED  BY <1>1, <2>2, <2>4, <3>1, FinishShows
  <2>5. CASE Step("unset", <<>>) /\ UNCHANGED <<ed, asked, stale, outrun>>
    <3>1. save'.step = "unset"
      BY <2>5 DEF Step
    <3>2. Setting(e)' = Setting(e)
      BY <2>5 DEF Setting, Changed
    <3>3. ~Writing' /\ ~Unwritten' /\ \A d \in Editors : HalfSet(d)' = IF d = e THEN Setting(e) ELSE {}
      BY <1>1, <1>2, <3>1, <3>2 DEF Writing, Unwritten, HalfSet
    <3>4. FileShown'
      BY <1>1, <2>2, <2>3, <2>5, <3>3 DEF FileShown, Scope, Open
    <3>5. LinesShown'
      BY <3>3 DEF LinesShown
    <3> QED  BY <1>1, <2>2, <2>5, <3>3, <3>4, <3>5, MidShows
  <2> QED  BY <1>3, <2>4, <2>5 DEF SetWrite
<1> QED  BY <1>3, <1>4 DEF SetWrite

LEMMA UnsetReadShows ==
  ASSUME EditorInv, StateInv, FollowInv, ShowInv, NEW e \in Editors, UnsetRead(e)
  PROVE  ShowInv'
<1>1. /\ screen = e /\ save.step = "unset"
      /\ UNCHANGED <<environ, cfg, ready, screen, file, stirred>>
  BY DEF UnsetRead, SaveSteps
<1>2. PICK old : old = file[Scope(e)].lines
  OBVIOUS
<1>3. /\ Open(e) /\ Scope(e) \in DOMAIN file /\ TextsOK
      /\ \A d \in Editors : HalfSet(d) = IF d = e THEN Setting(e) ELSE {}
  BY <1>1 DEF EditorInv, Screens, Scopes, ShowInv, HalfSet
<1>4. /\ IsText(old) /\ HasTexts(old) /\ IsFile(file[Scope(e)])
      /\ \A s \in DOMAIN file' : HasTexts(file'[s].lines)
  BY <1>1, <1>2, <1>3, FilesAre
<1>5. \A d \in Editors : (Open(d) /\ d \notin stirred) =>
        LinesShow(file[Scope(d)].lines, d, ed[d], IF d = e THEN Setting(e) ELSE {})
  BY <1>3 DEF ShowInv, FileShown
<1>6. CASE ~file[Scope(e)].there
  \* Removing keys from nothing leaves nothing.
  <2>1. old = <<>>
    BY <1>2, <1>4, <1>6 DEF IsFile, Absent, File
  <2>2. ASSUME NEW k \in KeysOf(e), LinesShow(old, e, ed[e], Setting(e))
        PROVE  Agrees(old, k, ed[e].value[k], ed[e].present[k])
    <3>1. CASE k \in Setting(e)
      <4>1. ed[e].present[k] /\ Agrees(old, k, ed[e].value[k], TRUE)
        BY <2>2, <3>1, ChangedOrNot DEF LinesShow
      <4> QED  BY <4>1 DEF Agrees
    <3>2. CASE k \in Clearing(e)
      <4>1. ~ed[e].present[k]
        BY <3>2, ChangedOrNot
      <4>2. At(old, "active", k) = {}
        BY <2>1 DEF At
      <4> QED  BY <4>1, <4>2, ParsedKey DEF Agrees
    <3>3. CASE k \notin Setting(e) /\ k \notin Clearing(e)
      <4>1. ed[e].value[k] = ed[e].saved[k] /\ ed[e].present[k] = ed[e].was[k]
        BY <3>3, ChangedOrNot
      <4>2. Agrees(old, k, ed[e].saved[k], ed[e].was[k])
        BY <2>2, <3>3 DEF LinesShow
      <4> QED  BY <4>1, <4>2
    <3> QED  BY <3>1, <3>2, <3>3
  <2>3. e \notin stirred => NewShow(file'[Scope(e)].lines, e, ed[e])
    BY <1>1, <1>2, <1>3, <1>5, <2>2 DEF NewShow
  <2>4. \A d \in Editors \ {e} : (Open(d) /\ d \notin stirred) =>
          LinesShow(file'[Scope(d)].lines, d, ed[d], {})
    BY <1>1, <1>5
  <2>5. Finish(e)
    BY <1>6 DEF UnsetRead
  <2> QED  BY <1>1, <1>4, <2>3, <2>4, <2>5, FinishShows
<1>7. CASE file[Scope(e)].there
  <2>1. PICK l : l = UnsetEnvValues(old, Clearing(e))
    OBVIOUS
  <2>2. save' = [step |-> "unsetWrite", lines |-> l] /\ UNCHANGED <<ed, asked, stale, outrun>>
    BY <1>2, <1>7, <2>1 DEF UnsetRead, Step, readEnvLines
  <2>3. /\ HasTexts(l)
        /\ LinesShow(old, e, ed[e], Setting(e)) => NewShow(l, e, ed[e])
        /\ \A d \in Editors \ {e} : \A f : LinesShow(old, d, f, {}) => LinesShow(l, d, f, {})
    BY <1>4, <2>1, UnsetShows
  <2>4. Setting(e)' = Setting(e)
    BY <2>2 DEF Setting, Changed
  <2>5. \A d \in Editors : HalfSet(d)' = HalfSet(d)
    BY <1>1, <1>3, <2>2, <2>4 DEF HalfSet
  <2>6. FileShown'
    BY <1>1, <2>2, <2>5 DEF ShowInv, FileShown, Scope, Open
  <2>7. LinesShown'
    <3> SUFFICES ASSUME NEW d \in Editors, Open(d), d \notin stirred, Scope(d) = Scope(e)
                 PROVE  IF d # e THEN LinesShow(l, d, ed[d], {}) ELSE NewShow(l, e, ed[e])
      BY <1>1, <2>2 DEF LinesShown, Open, Scope
    <3>1. LinesShow(old, d, ed[d], IF d = e THEN Setting(e) ELSE {})
      BY <1>2, <1>5
    <3> QED  BY <2>3, <3>1
  <2>8. Unwritten' => Unwritten /\ UNCHANGED file
    BY <1>1, <2>2, <2>4 DEF Unwritten
  <2>9. Writing' => HasTexts(save'.lines)
    BY <2>2, <2>3
  <2> QED  BY <1>1, <1>4, <2>2, <2>6, <2>7, <2>8, <2>9, MidShows
<1> QED  BY <1>6, <1>7

\* When the removing fails, what was set stays, and the editor counts as stirred.
LEMMA UnsetWriteShows ==
  ASSUME EditorInv, StateInv, FollowInv, ShowInv, NEW e \in Editors, UnsetWrite(e)
  PROVE  ShowInv'
<1>1. /\ screen = e /\ save.step = "unsetWrite" /\ Writing
      /\ UNCHANGED <<environ, cfg, ready, screen>>
  BY DEF UnsetWrite, SaveSteps, Writing
<1>2. CASE /\ file' = [file EXCEPT ![Scope(e)] = File(save.lines)]
           /\ Finish(e)
           /\ UNCHANGED stirred
  <2>1. /\ \A s \in DOMAIN file' : HasTexts(file'[s].lines)
        /\ file'[Scope(e)].lines = save.lines
        /\ \A d \in Editors \ {e} : (Open(d) /\ d \notin stirred) =>
             LinesShow(file'[Scope(d)].lines, d, ed[d], {})
    BY <1>1, <1>2, WriteShows
  <2>2. Open(e) /\ (e \notin stirred => NewShow(save.lines, e, ed[e]))
    BY <1>1 DEF ShowInv, LinesShown, EditorInv, Screens
  <2> QED  BY <1>1, <1>2, <2>1, <2>2, FinishShows
<1>3. CASE /\ save' = Saved /\ UNCHANGED <<file, ed, asked>>
           /\ stirred' = IF Setting(e) # {} THEN stirred \cup {e} ELSE stirred
           /\ stale' = IF Setting(e) # {} THEN {d \in Editors : Open(d)} ELSE stale
  <2>1. CASE Setting(e) = {}
    <3>1. Unwritten
      BY <1>1, <2>1 DEF Unwritten
    <3> QED  BY <1>1, <1>3, <2>1, <3>1, FailShows
  <2>2. CASE Setting(e) # {}
    <3>1. ~Writing' /\ \A d \in Editors : HalfSet(d)' = {}
      BY <1>3 DEF Writing, HalfSet, Saved
    <3>2. \A d \in Editors \ {e} : HalfSet(d) = {}
      BY <1>1 DEF HalfSet
    <3>3. TextsOK'
      BY <1>1, <1>3, <3>1 DEF ShowInv, TextsOK
    <3>4. ValuesOK'
      BY <1>1, <1>3 DEF ShowInv, ValuesOK, Open
    <3>5. FileShown'
      BY <1>1, <1>3, <2>2, <3>1, <3>2 DEF ShowInv, FileShown, Scope, Open
    <3>6. LinesShown'
      BY <3>1 DEF LinesShown
    <3>7. Inherits'
      BY <1>3, <2>2 DEF Inherits, Open
    <3> QED  BY <3>3, <3>4, <3>5, <3>6, <3>7 DEF ShowInv
  <2> QED  BY <2>1, <2>2
<1> QED  BY <1>2, <1>3 DEF UnsetWrite

\* Reloads touch no editor; what they bring is values of its keys.
LEMMA ReloadShows ==
  ASSUME EditorInv, StateInv, ShowInv, LoadAgain \/ LoadFails \/ ConfigReloaded
  PROVE  ShowInv'
<1>1. UNCHANGED <<file, environ, screen, ed, save, stirred, stale>>
  BY DEF LoadAgain, LoadFails, ConfigReloaded, history
<1>2. \A d \in Editors : HalfSet(d)' = HalfSet(d)
  BY <1>1 DEF HalfSet, Setting, Changed
<1>3. Setting(screen)' = Setting(screen)
  BY <1>1 DEF Setting, Changed
<1>4. TextsOK'
  BY <1>1 DEF ShowInv, TextsOK, Writing
<1>5. \A c \in ready' \cup {cfg'} : c \in ready \cup {cfg} \/ c = LoadConfig(file, environ)
  BY DEF LoadAgain, LoadFails, ConfigReloaded
<1>6. \A k \in Keys : IsValue(k, LoadConfig(file, environ).value[k])
  <2>1. PICK files, env : files = file /\ env = environ
    OBVIOUS
  <2>2. /\ \A s \in {"global", "own", "project"} : IsText(files[s].lines) /\ HasTexts(files[s].lines)
        /\ \A k \in Keys : IsText(env[k])
    BY <2>1, FilesAre DEF ShowInv
  <2> QED  BY <2>1, <2>2, TypedLoaded
<1>7. ValuesOK'
  <2>1. \A c \in ready' \cup {cfg'} : \A k \in Keys : IsValue(k, c.value[k])
    BY <1>5, <1>6 DEF ShowInv, ValuesOK
  <2> QED  BY <1>1, <2>1 DEF ShowInv, ValuesOK, Open
<1>8. FileShown'
  BY <1>1, <1>2 DEF ShowInv, FileShown, Open, Scope
<1>9. LinesShown'
  BY <1>1, <1>3 DEF ShowInv, LinesShown, Open, Scope, Writing
<1>10. Inherits'
  BY <1>1, <1>3 DEF ShowInv, Inherits, Open, Unwritten
<1> QED  BY <1>4, <1>7, <1>8, <1>9, <1>10 DEF ShowInv

\* Another process writes one file: the editors of that scope are stirred.
LEMMA OtherShows ==
  ASSUME EditorInv, StateInv, ShowInv, OtherProcess
  PROVE  ShowInv'
<1>1. PICK o \in Others :
        /\ file' = [file EXCEPT ![o[1]] =
             File(SetEnvValues(readEnvLines(file[o[1]]), [k \in {o[2]} |-> o[3]]))]
        /\ stirred' = stirred \cup {e \in Editors : Open(e) /\ Scope(e) = o[1]}
  BY DEF OtherProcess
<1>2. stale' = {e \in Editors : Open(e)} /\ UNCHANGED <<environ, cfg, ready, screen, ed, save>>
  BY DEF OtherProcess, cfgVars
<1>3. o[1] \in DOMAIN file /\ IsText(o[3]) /\ TextsOK
  BY SettingsAssumption DEF SettingsAssumption, EditorInv, Screens, ShowInv
<1>4. PICK old, values, l :
        /\ old = file[o[1]].lines /\ values = [k \in {o[2]} |-> o[3]]
        /\ l = SetEnvValues(old, values)
  OBVIOUS
<1>5. HasTexts(l)
  <2>1. IsText(old) /\ HasTexts(old)
    BY <1>3, <1>4, FilesAre
  <2>2. IsFiniteSet(DOMAIN values) /\ \A k \in DOMAIN values : IsText(values[k])
    BY <1>3, <1>4, FS_Singleton
  <2> QED  BY <1>4, <2>1, <2>2, SetAgrees
<1>6. file'[o[1]].lines = l /\ DOMAIN file' = DOMAIN file /\ \A s \in DOMAIN file \ {o[1]} : file'[s] = file[s]
  BY <1>1, <1>3, <1>4 DEF readEnvLines, File
<1>7. TextsOK'
  BY <1>2, <1>3, <1>5, <1>6 DEF TextsOK, Writing
<1>8. ValuesOK'
  BY <1>2 DEF ShowInv, ValuesOK, Open
<1>9. /\ \A d \in Editors : HalfSet(d)' = HalfSet(d)
      /\ Setting(screen)' = Setting(screen)
  BY <1>2 DEF HalfSet, Setting, Changed
<1>10. FileShown'
  <2> SUFFICES ASSUME NEW d \in Editors, Open(d), d \notin stirred'
               PROVE  LinesShow(file'[Scope(d)].lines, d, ed[d], HalfSet(d))
    BY <1>2, <1>9 DEF FileShown, Open, Scope
  <2>1. d \notin stirred /\ Scope(d) # o[1] /\ Scope(d) \in DOMAIN file
    BY <1>1 DEF EditorInv, Screens, Scopes
  <2> QED  BY <1>6, <2>1 DEF ShowInv, FileShown
<1>11. LinesShown'
  BY <1>1, <1>2, <1>9 DEF ShowInv, LinesShown, Open, Scope, Writing
<1>12. Inherits'
  BY <1>2 DEF Inherits, Open
<1> QED  BY <1>7, <1>8, <1>10, <1>11, <1>12 DEF ShowInv

LEMMA ShowInit == Init => ShowInv
<1> SUFFICES ASSUME Init PROVE ShowInv
  OBVIOUS
<1>1. /\ file \in StartFiles /\ environ \in Environs /\ ready = {}
      /\ cfg = LoadConfig(file, environ) /\ save = Saved
  BY DEF Init
<1>2. \A e \in Editors : ~Open(e)
  BY DEF Init, Open
<1>3. ~Writing
  BY <1>1 DEF Writing, Saved
<1>4. TextsOK
  BY <1>1, <1>3, SettingsAssumption DEF SettingsAssumption, TextsOK
<1>5. \A k \in Keys : IsValue(k, cfg.value[k])
  <2>1. PICK files, env : files = file /\ env = environ
    OBVIOUS
  <2>2. \A s \in {"global", "own", "project"} : IsFile(files[s]) /\ HasTexts(files[s].lines)
    BY <1>1, <2>1, SettingsAssumption DEF SettingsAssumption
  <2>3. \A k \in Keys : IsText(env[k])
    BY <1>1, <2>1, SettingsAssumption DEF SettingsAssumption
  <2> QED  BY <1>1, <2>1, <2>2, <2>3, FileLines, TypedLoaded
<1>6. ValuesOK
  BY <1>1, <1>2, <1>5 DEF ValuesOK
<1> QED  BY <1>2, <1>3, <1>4, <1>6 DEF ShowInv, FileShown, LinesShown, Inherits

LEMMA ShowStep ==
  ASSUME EditorInv, StateInv, FollowInv, ShowInv, [Next]_vars
  PROVE  ShowInv'
<1>1. CASE UNCHANGED vars
  BY <1>1 DEF vars, cfgVars, history, ShowInv, TextsOK, ValuesOK, FileShown, LinesShown, Inherits,
     Unwritten, Writing, HalfSet, Setting, Changed, Open, Scope
<1>2. CASE OpenSettings \/ OpenPackages
  BY <1>2, OpeningShows
<1>3. CASE \/ AddPackages \/ DeletePackage
           \/ \E k \in JailKeys : Toggle(k) \/ Type(k)
           \/ \E e \in Editors : \E k \in KeysOf(e) : ClearOverride(e, k)
  BY <1>3, PutKeysShow
<1>4. CASE \E e \in Editors : OtherKey(e) \/ Revert(e) \/ Esc(e) \/ ToggleScope(e)
  BY <1>4, OtherKeysShow
<1>5. CASE \E e \in Editors : Save(e)
  BY <1>5, SaveShows
<1>6. CASE \E e \in Editors : Saving(e)
  BY <1>6, SetReadShows, SetWriteShows, UnsetReadShows, UnsetWriteShows DEF Saving
<1>7. CASE LoadAgain \/ LoadFails \/ ConfigReloaded
  BY <1>7, ReloadShows
<1>8. CASE OtherProcess
  BY <1>8, OtherShows
<1> QED  BY <1>1, <1>2, <1>3, <1>4, <1>5, <1>6, <1>7, <1>8 DEF Next, Key

\* An editor shows as saved what its file says, through any number of saves, the ones
\* that fail half way included, of any keys and values, with any reloads between
\* them and any other processes that write the files.
THEOREM EditorsShowFiles == Spec => []ShowsFile
<1>1. Init => ShowInv /\ FollowInv
  BY ShowInit, FollowInit
<1>2. EditorInv /\ StateInv /\ FollowInv /\ ShowInv /\ [Next]_vars => ShowInv' /\ FollowInv'
  BY ShowStep, FollowStep DEF StateInv
<1>3. ShowInv => ShowsFile
  <2> SUFFICES ASSUME ShowInv, save = Saved, NEW e \in Editors, Open(e), e \notin stirred,
                      NEW k \in KeysOf(e) \ Changed(e)
               PROVE  IF ed[e].present[k]
                      THEN Once(Scope(e), k) => /\ k \in DOMAIN Raw(Scope(e))
                                                /\ Shown(k, Raw(Scope(e))[k]) = ed[e].value[k]
                      ELSE /\ k \notin DOMAIN Raw(Scope(e))
                           /\ e \notin stale => ed[e].value[k] = Shown(k, Show(k, Resolved(file, environ, k)))
    BY DEF ShowsFile
  <2>1. ed[e].value[k] = ed[e].saved[k] /\ ed[e].present[k] = ed[e].was[k]
    BY DEF Changed
  <2>2. HalfSet(e) = {} /\ Unwritten
    BY DEF HalfSet, Unwritten, Saved
  <2>3. PICK l : l = file[Scope(e)].lines
    OBVIOUS
  <2>4. Agrees(l, k, ed[e].value[k], ed[e].present[k])
    BY <2>1, <2>2, <2>3 DEF ShowInv, FileShown, LinesShow
  <2>5. Raw(Scope(e)) = parseEnvFile(l) /\ (Once(Scope(e), k) <=> OnceIn(l, k))
    BY <2>3 DEF Raw, Parse, Once, OnceIn, readEnvLines
  <2>6. e \notin stale => (~ed[e].was[k] => ed[e].saved[k] = Shown(k, Show(k, Resolved(file, environ, k))))
    BY <2>2 DEF ShowInv, Inherits
  <2> QED  BY <2>1, <2>4, <2>5, <2>6 DEF Agrees
<1> QED  BY <1>1, <1>2, <1>3, EditorInvariant, StateInvariant, PTL DEF Spec
=============================================================================
