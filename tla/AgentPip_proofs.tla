----------------------------- MODULE AgentPip_proofs -----------------------------
(***************************************************************************)
(* For any completions of the provider, any user's choice and any changes  *)
(* from outside: Agent Pip's promises to the provider, to the page and to  *)
(* the repository.                                                         *)
(***************************************************************************)
EXTENDS AgentPip, SequenceTheorems, FiniteSetTheorems, TLAPS

-----------------------------------------------------------------------------
(* Induction over numbers and sequences, by sets that hold them.           *)

\* A set of naturals that is not empty has a least element.
LEMMA Least ==
  ASSUME NEW T \in SUBSET Nat, T # {}
  PROVE  \E m \in T : \A k \in T : m <= k
<1>1. IsWellFoundedOn(OpToRel(<, Nat), Nat)
  BY NatLessThanWellFounded
<1>2. \E x \in T : \A y \in T : ~(<<y, x>> \in OpToRel(<, Nat))
  BY <1>1, WFMin
<1>3. PICK x \in T : \A y \in T : ~(<<y, x>> \in OpToRel(<, Nat))
  BY <1>2
<1>4. ASSUME NEW y \in T PROVE ~(y < x)
  <2>1. y \in Nat /\ x \in Nat
    BY <1>3
  <2> QED BY <1>3, <2>1 DEF OpToRel
<1>5. ASSUME NEW y \in T PROVE x <= y
  <2>1. y \in Nat /\ x \in Nat
    BY <1>3
  <2> QED BY <1>4, <2>1
<1> QED BY <1>3, <1>5

LEMMA SetInduction ==
  ASSUME NEW T \in SUBSET Nat, 0 \in T, \A n \in T : n + 1 \in T
  PROVE  T = Nat
<1> SUFFICES ASSUME Nat \ T # {} PROVE FALSE
  OBVIOUS
<1>1. PICK m \in Nat \ T : \A k \in Nat \ T : m <= k
  BY Least
<1>2. m - 1 \in T /\ m - 1 + 1 = m
  BY <1>1
<1> QED BY <1>1, <1>2

\* A set that holds the empty sequence and every extension of its members
\* holds all sequences.
LEMMA SequenceInduction ==
  ASSUME NEW S, NEW T \in SUBSET Seq(S), <<>> \in T,
         \A s \in T : \A x \in S : Append(s, x) \in T
  PROVE  T = Seq(S)
<1> DEFINE N == {n \in Nat : \A s \in Seq(S) : Len(s) = n => s \in T}
<1>1. 0 \in N
  BY EmptySeq
<1>2. ASSUME NEW n \in N PROVE n + 1 \in N
  <2> SUFFICES ASSUME NEW s \in Seq(S), Len(s) = n + 1 PROVE s \in T
    OBVIOUS
  <2>1. s # <<>> /\ n \in Nat
    BY EmptySeq
  <2>2. PICK t \in Seq(S), x \in S : s = Append(t, x)
    BY <2>1, SequenceEmptyOrAppend
  <2>3. Len(t) \in Nat /\ Len(s) = Len(t) + 1
    BY <2>2, AppendProperties, LenProperties
  <2>4. t \in T
    BY <2>1, <2>3
  <2> QED BY <2>2, <2>4
<1>3. N = Nat
  <2> HIDE DEF N
  <2>1. N \in SUBSET Nat
    BY DEF N
  <2> QED BY <1>1, <1>2, <2>1, SetInduction
<1> QED BY <1>3, LenProperties

-----------------------------------------------------------------------------
(* FlattenSeq is well-defined: what it makes of a sequence and one more.   *)

FlatOf(f, ss, n) == f = [i \in 1..n |-> IF i = 1 THEN ss[i] ELSE f[i - 1] \o ss[i]]
Flat(ss) == CHOOSE f : FlatOf(f, ss, Len(ss))

LEMMA FlatExists ==
  ASSUME NEW ss, NEW n \in Nat
  PROVE  \E f : FlatOf(f, ss, n)
<1> DEFINE N == {m \in Nat : \E f : FlatOf(f, ss, m)}
<1>1. 0 \in N
  <2>1. FlatOf([i \in 1..0 |-> <<>>], ss, 0)
    BY DEF FlatOf
  <2> QED BY <2>1
<1>2. ASSUME NEW m \in N PROVE m + 1 \in N
  <2>1. PICK f : FlatOf(f, ss, m)
    OBVIOUS
  <2> DEFINE last == IF m = 0 THEN ss[1] ELSE f[m] \o ss[m + 1]
             g == [i \in 1..(m + 1) |-> IF i = m + 1 THEN last ELSE f[i]]
  <2>2. m \in Nat
    OBVIOUS
  <2>3. ASSUME NEW i \in 1..(m + 1)
        PROVE  g[i] = IF i = 1 THEN ss[i] ELSE g[i - 1] \o ss[i]
    <3>1. CASE i = m + 1
      BY <2>2, <3>1
    <3>2. CASE i # m + 1
      <4>1. i \in 1..m /\ g[i] = f[i]
        BY <2>2, <3>2
      <4>2. f[i] = IF i = 1 THEN ss[i] ELSE f[i - 1] \o ss[i]
        BY <2>1, <4>1 DEF FlatOf
      <4>3. i # 1 => g[i - 1] = f[i - 1]
        BY <2>2, <4>1
      <4> QED BY <4>1, <4>2, <4>3
    <3> QED BY <3>1, <3>2
  <2>4. FlatOf(g, ss, m + 1)
    <3>1. g = [i \in 1..(m + 1) |-> g[i]]
      OBVIOUS
    <3> HIDE DEF g
    <3> QED BY <2>3, <3>1 DEF FlatOf
  <2> QED BY <2>4
<1>3. N = Nat
  <2> HIDE DEF N
  <2>1. N \in SUBSET Nat
    BY DEF N
  <2> QED BY <1>1, <1>2, <2>1, SetInduction
<1> QED BY <1>3

\* The function of a longer sequence begins with that of a shorter one.
Agree(s, t, n) == \A i \in 1..n : s[i] = t[i]

LEMMA FlatAgrees ==
  ASSUME NEW ss, NEW tt, NEW f, NEW g, NEW n \in Nat, NEW m \in Nat,
         FlatOf(f, ss, n), FlatOf(g, tt, m), n <= m, Agree(ss, tt, n)
  PROVE  Agree(f, g, n)
<1> USE DEF Agree
<1> DEFINE N == {j \in Nat : j \in 1..n => f[j] = g[j]}
<1>1. 0 \in N
  OBVIOUS
<1>2. ASSUME NEW j \in N PROVE j + 1 \in N
  <2> SUFFICES ASSUME j + 1 \in 1..n PROVE f[j + 1] = g[j + 1]
    OBVIOUS
  <2>1. /\ j \in Nat /\ j + 1 \in 1..n /\ j + 1 \in 1..m /\ ss[j + 1] = tt[j + 1]
        /\ (j + 1) - 1 = j
    OBVIOUS
  <2>2. /\ f[j + 1] = IF j + 1 = 1 THEN ss[j + 1] ELSE f[(j + 1) - 1] \o ss[j + 1]
        /\ g[j + 1] = IF j + 1 = 1 THEN tt[j + 1] ELSE g[(j + 1) - 1] \o tt[j + 1]
    BY <2>1 DEF FlatOf
  <2>3. j # 0 => f[j] = g[j]
    BY <2>1
  <2> QED BY <2>1, <2>2, <2>3
<1>3. N = Nat
  <2> HIDE DEF N
  <2>1. N \in SUBSET Nat
    BY DEF N
  <2> QED BY <1>1, <1>2, <2>1, SetInduction
<1> QED BY <1>3

LEMMA FlatAt ==
  ASSUME NEW ss, NEW f, NEW n, FlatOf(f, ss, n), NEW i \in 1..n
  PROVE  f[i] = IF i = 1 THEN ss[i] ELSE f[i - 1] \o ss[i]
  BY DEF FlatOf

LEMMA FlattenEmpty == FlattenSeq(<<>>) = <<>>
  BY EmptySeq DEF FlattenSeq

LEMMA FlattenIsFlat ==
  ASSUME NEW S, NEW ss \in Seq(S), ss # <<>>
  PROVE  FlatOf(Flat(ss), ss, Len(ss)) /\ FlattenSeq(ss) = Flat(ss)[Len(ss)]
<1>1. Len(ss) \in Nat /\ Len(ss) # 0
  BY LenProperties, EmptySeq
<1>2. FlatOf(Flat(ss), ss, Len(ss))
  BY <1>1, FlatExists DEF Flat
<1>3. FlattenSeq(ss) = Flat(ss)[Len(ss)]
  BY <1>1 DEF FlattenSeq, Flat, FlatOf
<1> QED BY <1>2, <1>3

LEMMA FlattenAppend ==
  ASSUME NEW S, NEW ss \in Seq(Seq(S)), NEW s \in Seq(S)
  PROVE  FlattenSeq(Append(ss, s)) = FlattenSeq(ss) \o s
<1> DEFINE tt == Append(ss, s)
           n == Len(ss)
<1>1. /\ tt \in Seq(Seq(S)) /\ tt # <<>> /\ n \in Nat /\ Len(tt) = n + 1 /\ tt[n + 1] = s
      /\ \A i \in 1..n : tt[i] = ss[i]
  BY AppendProperties, LenProperties
<1> HIDE DEF tt
<1>2. FlatOf(Flat(tt), tt, n + 1) /\ FlattenSeq(tt) = Flat(tt)[n + 1]
  BY <1>1, FlattenIsFlat
<1>3. Flat(tt)[n + 1] = IF n + 1 = 1 THEN tt[n + 1] ELSE Flat(tt)[n + 1 - 1] \o tt[n + 1]
  <2>1. n + 1 \in 1..(n + 1)
    BY <1>1
  <2> QED BY <1>1, <1>2, <2>1, FlatAt
<1>4. CASE ss = <<>>
  <2>1. FlattenSeq(ss) = <<>> /\ n = 0
    BY <1>4, FlattenEmpty, EmptySeq
  <2>2. <<>> \o s = s
    BY ConcatEmptySeq
  <2> QED BY <1>1, <1>2, <1>3, <2>1, <2>2 DEF tt
<1>5. CASE ss # <<>>
  <2>1. n # 0
    BY <1>5, EmptySeq
  <2>2. FlatOf(Flat(ss), ss, n) /\ FlattenSeq(ss) = Flat(ss)[n]
    BY <1>5, FlattenIsFlat
  <2>3. Flat(tt)[n] = Flat(ss)[n]
    <3>1. Agree(ss, tt, n)
      BY <1>1 DEF Agree
    <3>2. Agree(Flat(ss), Flat(tt), n)
      <4> DEFINE m == n + 1
      <4>1. FlatOf(Flat(tt), tt, m) /\ m \in Nat /\ n <= m /\ n \in Nat
        BY <1>1, <1>2
      <4>2. FlatOf(Flat(ss), ss, n)
        BY <2>2
      <4> HIDE DEF n, m
      <4> QED BY <3>1, <4>1, <4>2, FlatAgrees
    <3> QED BY <1>1, <2>1, <3>2 DEF Agree
  <2>4. Flat(tt)[n + 1] = Flat(tt)[n] \o s
    BY <1>1, <1>3, <2>1
  <2>5. FlattenSeq(tt) = FlattenSeq(ss) \o s
    BY <1>2, <2>2, <2>3, <2>4
  <2> QED BY <2>5 DEF tt
<1> QED BY <1>4, <1>5

\* What is flattened are sequences of the same elements.
LEMMA FlattenType ==
  ASSUME NEW S, NEW ss \in Seq(Seq(S))
  PROVE  FlattenSeq(ss) \in Seq(S)
<1> DEFINE T == {tt \in Seq(Seq(S)) : FlattenSeq(tt) \in Seq(S)}
<1>1. <<>> \in T
  BY FlattenEmpty, EmptySeq
<1>2. ASSUME NEW tt \in T, NEW s \in Seq(S) PROVE Append(tt, s) \in T
  BY FlattenAppend, AppendProperties, ConcatProperties
<1>3. T = Seq(Seq(S))
  <2> HIDE DEF T
  <2>1. T \in SUBSET Seq(Seq(S))
    BY DEF T
  <2> QED BY <1>1, <1>2, <2>1, SequenceInduction
<1> QED BY <1>3

\* The function of a sequence and one more, element by element.
LEMMA MapAppend ==
  ASSUME NEW S, NEW s \in Seq(S), NEW x \in S, NEW R, NEW f, NEW g,
         DOMAIN f = DOMAIN Append(s, x), DOMAIN g = DOMAIN s,
         f = [i \in DOMAIN f |-> f[i]], g = [i \in DOMAIN g |-> g[i]],
         \A i \in DOMAIN s : f[i] = g[i] /\ g[i] \in R,
         f[Len(s) + 1] \in R
  PROVE  f = Append(g, f[Len(s) + 1]) /\ g \in Seq(R) /\ f \in Seq(R)
<1>1. /\ Len(s) \in Nat /\ DOMAIN s = 1..Len(s)
      /\ Append(s, x) \in Seq(S) /\ Len(Append(s, x)) = Len(s) + 1
      /\ DOMAIN Append(s, x) = 1..(Len(s) + 1)
  BY AppendProperties, LenProperties
<1>2. g \in Seq(R) /\ Len(g) = Len(s)
  <2>1. g \in [1..Len(s) -> R]
    BY <1>1
  <2>2. g \in Seq(R)
    BY <1>1, <2>1, SeqDef
  <2> QED BY <1>1, <2>1, <2>2, LenProperties
<1>3. f \in Seq(R) /\ Len(f) = Len(s) + 1
  <2>1. f \in [1..(Len(s) + 1) -> R]
    BY <1>1
  <2>2. f \in Seq(R)
    BY <1>1, <2>1, SeqDef
  <2> QED BY <1>1, <2>1, <2>2, LenProperties
<1> DEFINE h == Append(g, f[Len(s) + 1])
<1>4. /\ h \in Seq(R) /\ Len(h) = Len(s) + 1 /\ h[Len(s) + 1] = f[Len(s) + 1]
      /\ \A i \in 1..Len(s) : h[i] = g[i]
  BY <1>2, AppendProperties
<1>5. \A i \in 1..Len(h) : h[i] = f[i]
  BY <1>1, <1>4
<1> HIDE DEF h
<1>6. f = h
  BY <1>3, <1>4, <1>5, SeqEqual
<1> QED BY <1>2, <1>3, <1>6 DEF h

\* Sequences of one element each, flattened, are the elements.
Singles(s) == [i \in DOMAIN s |-> <<s[i]>>]
LEMMA FlattenSingles ==
  ASSUME NEW S, NEW s \in Seq(S)
  PROVE  FlattenSeq(Singles(s)) = s
<1> DEFINE T == {t \in Seq(S) : FlattenSeq(Singles(t)) = t}
<1>1. <<>> \in T
  <2>1. Singles(<<>>) = <<>>
    BY DEF Singles
  <2> QED BY <2>1, FlattenEmpty, EmptySeq
<1>2. ASSUME NEW t \in T, NEW x \in S PROVE Append(t, x) \in T
  <2>1. /\ Len(t) \in Nat /\ DOMAIN t = 1..Len(t) /\ Append(t, x) \in Seq(S)
        /\ DOMAIN Append(t, x) = 1..(Len(t) + 1) /\ Append(t, x)[Len(t) + 1] = x
        /\ \A i \in 1..Len(t) : Append(t, x)[i] = t[i] /\ t[i] \in S
    BY AppendProperties, LenProperties, ElementOfSeq
  <2> DEFINE f == Singles(Append(t, x))
             g == Singles(t)
  <2>2. /\ DOMAIN f = DOMAIN Append(t, x) /\ DOMAIN g = DOMAIN t
        /\ f = [i \in DOMAIN f |-> f[i]] /\ g = [i \in DOMAIN g |-> g[i]]
        /\ \A i \in DOMAIN t : f[i] = <<Append(t, x)[i]>> /\ g[i] = <<t[i]>>
        /\ f[Len(t) + 1] = <<x>>
    BY <2>1 DEF Singles
  <2>3. \A y \in S : <<y>> \in Seq(S)
    OBVIOUS
  <2>4. /\ \A i \in DOMAIN t : f[i] = g[i] /\ g[i] \in Seq(S)
        /\ f[Len(t) + 1] \in Seq(S)
    BY <2>1, <2>2, <2>3, ZenonT(30)
  <2> HIDE DEF f, g
  <2>5. f = Append(g, f[Len(t) + 1]) /\ g \in Seq(Seq(S)) /\ t \in Seq(S)
    BY <2>2, <2>4, MapAppend
  <2>6. FlattenSeq(f) = FlattenSeq(g) \o <<x>>
    <3>1. f = Append(g, <<x>>) /\ <<x>> \in Seq(S) /\ g \in Seq(Seq(S))
      BY <2>2, <2>3, <2>5
    <3> QED BY <3>1, FlattenAppend
  <2>7. FlattenSeq(g) = t /\ t \o <<x>> = Append(t, x)
    BY AppendIsConcat DEF g
  <2> QED BY <2>1, <2>6, <2>7 DEF f
<1>3. T = Seq(S)
  <2> HIDE DEF T
  <2>1. T \in SUBSET Seq(S)
    BY DEF T
  <2> QED BY <1>1, <1>2, <2>1, SequenceInduction
<1> QED BY <1>3

-----------------------------------------------------------------------------
(* The ids of calls: what a request expects, and what a round answers.     *)

\* What the operators make of one call, or of one id.
Dropped(c, id) == IF c.tool = "" THEN <<>> ELSE <<[c EXCEPT !.id = id]>>
Asking(c) == IF c.tool # "" /\ c.id # 0 THEN <<c.id>> ELSE <<>>
Positive(id) == IF id > 0 THEN <<id>> ELSE <<>>

\* Calls after their ids were completed.
Completed ==
  {c \in [tool : STRING, task : Tasks, changes : Seq(Changes), parses : BOOLEAN, id : Int] :
     IF c.tool = "add_team_member" THEN c.parses => JoinsOne(c) ELSE JoinsNobody(c)}

LEMMA ShortSequences ==
  ASSUME NEW S
  PROVE  <<>> \in Seq(S) /\ \A x \in S : <<x>> \in Seq(S)
  BY EmptySeq

LEMMA CallFields ==
  ASSUME NEW c \in Calls
  PROVE  /\ c \in [tool : STRING, task : Tasks, changes : Seq(Changes), parses : BOOLEAN, id : Nat]
         /\ \A id \in Int : /\ [c EXCEPT !.id = id] \in Completed
                            /\ [c EXCEPT !.id = id].id = id
                            /\ Dropped(c, id) \in Seq(Completed)
<1>1. c \in [tool : STRING, task : Tasks, changes : Seq(Changes), parses : BOOLEAN, id : Nat]
  BY DEF Calls
<1>2. ASSUME NEW id \in Int
      PROVE  /\ [c EXCEPT !.id = id] \in Completed /\ [c EXCEPT !.id = id].id = id
             /\ Dropped(c, id) \in Seq(Completed)
  <2> DEFINE d == [c EXCEPT !.id = id]
  <2>1. d \in Completed /\ d.id = id
    <3>1. /\ d \in [tool : STRING, task : Tasks, changes : Seq(Changes), parses : BOOLEAN, id : Int]
          /\ d.tool = c.tool /\ d.changes = c.changes /\ d.parses = c.parses /\ d.id = id
      BY <1>1
    <3> HIDE DEF d
    <3> QED BY <3>1 DEF Completed, Calls, JoinsOne, JoinsNobody
  <2> HIDE DEF d
  <2>2. <<d>> \in Seq(Completed) /\ <<>> \in Seq(Completed)
    BY <2>1, ShortSequences
  <2> QED BY <2>1, <2>2 DEF Dropped, d
<1> QED BY <1>1, <1>2

LEMMA CallIdType ==
  ASSUME NEW cs \in Seq(Calls), NEW i \in DOMAIN cs
  PROVE  /\ CallId(cs, i) \in Int
         /\ cs[i].id = 0 => ~(CallId(cs, i) > 0)
         /\ cs[i].id # 0 => CallId(cs, i) = cs[i].id /\ CallId(cs, i) > 0
<1>1. i \in Nat /\ cs[i] \in Calls
  BY LenProperties, ElementOfSeq
<1>2. cs[i].id \in Nat
  BY <1>1, CallFields
<1> DEFINE Z == {j \in 1..i : cs[j].id = 0}
<1>3. Cardinality(Z) \in Nat
  <2>1. IsFiniteSet(1..i)
    BY <1>1, FS_Interval
  <2>2. IsFiniteSet(Z)
    BY <2>1, FS_Subset
  <2> QED BY <2>2, FS_CardinalityType
<1>4. CallId(cs, i) = IF cs[i].id # 0 THEN cs[i].id ELSE 0 - Cardinality(Z)
  BY DEF CallId
<1> HIDE DEF Z
<1> QED BY <1>2, <1>3, <1>4

\* Completing the ids of one more call leaves those before as they were.
LEMMA CalledAppend ==
  ASSUME NEW cs \in Seq(Calls), NEW c \in Calls
  PROVE  /\ Called(Append(cs, c)) = Called(cs) \o Dropped(c, CallId(Append(cs, c), Len(cs) + 1))
         /\ Called(cs) \in Seq(Completed)
<1> DEFINE ds == Append(cs, c)
           n == Len(cs)
<1>1. /\ n \in Nat /\ DOMAIN cs = 1..n /\ ds \in Seq(Calls) /\ DOMAIN ds = 1..(n + 1)
      /\ ds[n + 1] = c /\ \A i \in 1..n : ds[i] = cs[i] /\ cs[i] \in Calls
  BY AppendProperties, LenProperties, ElementOfSeq
<1> DEFINE f == [i \in DOMAIN ds |-> Dropped(ds[i], CallId(ds, i))]
           g == [i \in DOMAIN cs |-> Dropped(cs[i], CallId(cs, i))]
<1> HIDE DEF ds, n
<1>2. ASSUME NEW i \in 1..n PROVE CallId(ds, i) = CallId(cs, i)
  <2>1. {j \in 1..i : ds[j].id = 0} = {j \in 1..i : cs[j].id = 0}
    BY <1>1
  <2> QED BY <1>1, <2>1 DEF CallId
<1>3. \A i \in DOMAIN cs : f[i] = g[i] /\ g[i] \in Seq(Completed)
  <2> SUFFICES ASSUME NEW i \in DOMAIN cs PROVE f[i] = g[i] /\ g[i] \in Seq(Completed)
    OBVIOUS
  <2>1. i \in DOMAIN ds /\ ds[i] = cs[i] /\ cs[i] \in Calls /\ CallId(ds, i) = CallId(cs, i)
    BY <1>1, <1>2
  <2>2. CallId(cs, i) \in Int
    BY CallIdType
  <2>3. Dropped(cs[i], CallId(cs, i)) \in Seq(Completed)
    BY <2>1, <2>2, CallFields
  <2> QED BY <2>1, <2>3
<1>4. f[n + 1] = Dropped(c, CallId(ds, n + 1)) /\ f[n + 1] \in Seq(Completed)
  <2>1. n + 1 \in DOMAIN ds
    BY <1>1
  <2>2. CallId(ds, n + 1) \in Int
    BY <1>1, <2>1, CallIdType
  <2>3. Dropped(c, CallId(ds, n + 1)) \in Seq(Completed)
    BY <2>2, CallFields
  <2> QED BY <1>1, <2>1, <2>3
<1>5. /\ DOMAIN f = DOMAIN ds /\ DOMAIN g = DOMAIN cs
      /\ f = [i \in DOMAIN f |-> f[i]] /\ g = [i \in DOMAIN g |-> g[i]]
  OBVIOUS
<1>6. Called(ds) = FlattenSeq(f) /\ Called(cs) = FlattenSeq(g)
  BY DEF Called, Dropped
<1> HIDE DEF f, g
<1>7. f = Append(g, f[n + 1]) /\ g \in Seq(Seq(Completed))
  BY <1>3, <1>4, <1>5, MapAppend DEF ds, n
<1>8. FlattenSeq(f) = FlattenSeq(g) \o f[n + 1] /\ FlattenSeq(g) \in Seq(Completed)
  <2>1. FlattenSeq(Append(g, f[n + 1])) = FlattenSeq(g) \o f[n + 1]
    BY <1>4, <1>7, FlattenAppend
  <2> QED BY <1>7, <2>1, FlattenType
<1> QED BY <1>4, <1>6, <1>8 DEF ds, n

LEMMA ExpectedAppend ==
  ASSUME NEW cs \in Seq(Calls), NEW c \in Calls
  PROVE  Expected(Append(cs, c)) = Expected(cs) \o Asking(c)
<1> DEFINE ds == Append(cs, c)
           n == Len(cs)
           f == [i \in DOMAIN ds |-> Asking(ds[i])]
           g == [i \in DOMAIN cs |-> Asking(cs[i])]
<1>1. /\ n \in Nat /\ DOMAIN cs = 1..n /\ DOMAIN ds = 1..(n + 1)
      /\ ds[n + 1] = c /\ \A i \in 1..n : ds[i] = cs[i] /\ cs[i] \in Calls
  BY AppendProperties, LenProperties, ElementOfSeq
<1> HIDE DEF ds, n
<1>2. \A d \in Calls : Asking(d) \in Seq(Nat)
  <2> SUFFICES ASSUME NEW d \in Calls PROVE Asking(d) \in Seq(Nat)
    OBVIOUS
  <2>1. d.id \in Nat
    BY CallFields
  <2> QED BY <2>1, ShortSequences DEF Asking
<1>3. /\ \A i \in DOMAIN cs : f[i] = g[i] /\ g[i] \in Seq(Nat)
      /\ f[n + 1] = Asking(c) /\ f[n + 1] \in Seq(Nat)
  BY <1>1, <1>2
<1>4. /\ DOMAIN f = DOMAIN ds /\ DOMAIN g = DOMAIN cs
      /\ f = [i \in DOMAIN f |-> f[i]] /\ g = [i \in DOMAIN g |-> g[i]]
  OBVIOUS
<1>5. Expected(ds) = FlattenSeq(f) /\ Expected(cs) = FlattenSeq(g)
  BY DEF Expected, Asking
<1> HIDE DEF f, g
<1>6. f = Append(g, f[n + 1]) /\ g \in Seq(Seq(Nat))
  BY <1>3, <1>4, MapAppend DEF ds, n
<1>7. FlattenSeq(Append(g, f[n + 1])) = FlattenSeq(g) \o f[n + 1]
  BY <1>3, <1>6, FlattenAppend
<1> QED BY <1>3, <1>5, <1>6, <1>7 DEF ds

LEMMA GivenAppend ==
  ASSUME NEW ids \in Seq(Int), NEW id \in Int
  PROVE  Given(Append(ids, id)) = Given(ids) \o Positive(id)
<1> DEFINE js == Append(ids, id)
           n == Len(ids)
           f == [i \in DOMAIN js |-> Positive(js[i])]
           g == [i \in DOMAIN ids |-> Positive(ids[i])]
<1>1. /\ n \in Nat /\ DOMAIN ids = 1..n /\ DOMAIN js = 1..(n + 1)
      /\ js[n + 1] = id /\ \A i \in 1..n : js[i] = ids[i] /\ ids[i] \in Int
  BY AppendProperties, LenProperties, ElementOfSeq
<1> HIDE DEF js, n
<1>2. \A j \in Int : Positive(j) \in Seq(Int)
  BY ShortSequences DEF Positive
<1>3. /\ \A i \in DOMAIN ids : f[i] = g[i] /\ g[i] \in Seq(Int)
      /\ f[n + 1] = Positive(id) /\ f[n + 1] \in Seq(Int)
  <2>1. n + 1 \in DOMAIN js /\ \A i \in DOMAIN ids : i \in DOMAIN js
    BY <1>1
  <2>2. ASSUME NEW i \in DOMAIN ids PROVE f[i] = g[i] /\ g[i] \in Seq(Int)
    <3>1. f[i] = Positive(ids[i]) /\ g[i] = Positive(ids[i]) /\ ids[i] \in Int
      BY <1>1, <2>1
    <3> QED BY <1>2, <3>1
  <2>3. f[n + 1] = Positive(id) /\ f[n + 1] \in Seq(Int)
    BY <1>1, <1>2, <2>1
  <2> QED BY <2>2, <2>3
<1>4. /\ DOMAIN f = DOMAIN js /\ DOMAIN g = DOMAIN ids
      /\ f = [i \in DOMAIN f |-> f[i]] /\ g = [i \in DOMAIN g |-> g[i]]
  OBVIOUS
<1>5. Given(js) = FlattenSeq(f) /\ Given(ids) = FlattenSeq(g)
  BY DEF Given, Positive
<1> HIDE DEF f, g
<1>6. f = Append(g, f[n + 1]) /\ g \in Seq(Seq(Int))
  BY <1>3, <1>4, MapAppend DEF js, n
<1>7. FlattenSeq(Append(g, f[n + 1])) = FlattenSeq(g) \o f[n + 1]
  BY <1>3, <1>6, FlattenAppend
<1> QED BY <1>3, <1>5, <1>6, <1>7 DEF js

LEMMA IdsAppend ==
  ASSUME NEW cs \in Seq(Completed), NEW c \in Completed
  PROVE  Ids(Append(cs, c)) = Append(Ids(cs), c.id) /\ Ids(cs) \in Seq(Int)
<1> DEFINE ds == Append(cs, c)
           n == Len(cs)
           f == Ids(ds)
           g == Ids(cs)
<1>1. /\ n \in Nat /\ DOMAIN cs = 1..n /\ DOMAIN ds = 1..(n + 1)
      /\ ds[n + 1] = c /\ \A i \in 1..n : ds[i] = cs[i] /\ cs[i] \in Completed
  BY AppendProperties, LenProperties, ElementOfSeq
<1> HIDE DEF ds, n
<1>2. \A d \in Completed : d.id \in Int
  BY DEF Completed
<1>3. /\ \A i \in DOMAIN cs : f[i] = g[i] /\ g[i] \in Int
      /\ f[n + 1] = c.id /\ f[n + 1] \in Int
  BY <1>1, <1>2 DEF Ids
<1>4. /\ DOMAIN f = DOMAIN ds /\ DOMAIN g = DOMAIN cs
      /\ f = [i \in DOMAIN f |-> f[i]] /\ g = [i \in DOMAIN g |-> g[i]]
  BY DEF Ids
<1> HIDE DEF f, g
<1>5. f = Append(g, f[n + 1]) /\ g \in Seq(Int)
  BY <1>3, <1>4, MapAppend DEF ds, n
<1> QED BY <1>3, <1>5 DEF f, g, ds

LEMMA IdsType ==
  ASSUME NEW cs \in Seq(Completed)
  PROVE  Ids(cs) \in Seq(Int) /\ Len(Ids(cs)) = Len(cs)
<1>1. Len(cs) \in Nat /\ DOMAIN cs = 1..Len(cs) /\ \A i \in DOMAIN cs : cs[i].id \in Int
  <2>1. Len(cs) \in Nat /\ DOMAIN cs = 1..Len(cs) /\ \A i \in DOMAIN cs : cs[i] \in Completed
    BY LenProperties, ElementOfSeq
  <2> QED BY <2>1 DEF Completed
<1>2. Ids(cs) \in [1..Len(cs) -> Int]
  BY <1>1 DEF Ids
<1>3. Ids(cs) \in Seq(Int)
  BY <1>1, <1>2, SeqDef
<1> QED BY <1>1, <1>2, <1>3, LenProperties

LEMMA GivenType ==
  ASSUME NEW ids \in Seq(Int)
  PROVE  Given(ids) \in Seq(Int)
<1> DEFINE f == [k \in DOMAIN ids |-> IF ids[k] > 0 THEN <<ids[k]>> ELSE <<>>]
<1>1. Len(ids) \in Nat /\ DOMAIN ids = 1..Len(ids) /\ \A i \in DOMAIN ids : ids[i] \in Int
  BY LenProperties, ElementOfSeq
<1>2. f \in [1..Len(ids) -> Seq(Int)]
  BY <1>1
<1>3. f \in Seq(Seq(Int))
  BY <1>1, <1>2, SeqDef
<1> HIDE DEF f
<1>4. FlattenSeq(f) \in Seq(Int)
  BY <1>3, FlattenType
<1> QED BY <1>4 DEF f, Given

\* The ids that a round gives its calls, without those it made up, are the
\* ids that the request of the calls expects an answer for.
LEMMA CalledAsExpected ==
  ASSUME NEW cs \in Seq(Calls)
  PROVE  Given(Ids(Called(cs))) = Expected(cs) /\ Called(cs) \in Seq(Completed)
<1> DEFINE T == {ds \in Seq(Calls) : Given(Ids(Called(ds))) = Expected(ds)
                                     /\ Called(ds) \in Seq(Completed)}
<1>1. <<>> \in T
  <2>1. Called(<<>>) = <<>> /\ Expected(<<>>) = <<>> /\ Ids(<<>>) = <<>> /\ Given(<<>>) = <<>>
    BY FlattenEmpty DEF Called, Expected, Ids, Given
  <2> QED BY <2>1, EmptySeq
<1>2. ASSUME NEW ds \in T, NEW c \in Calls PROVE Append(ds, c) \in T
  <2> DEFINE id == CallId(Append(ds, c), Len(ds) + 1)
             d == [c EXCEPT !.id = id]
  <2>1. /\ ds \in Seq(Calls) /\ Append(ds, c) \in Seq(Calls) /\ Len(ds) + 1 \in DOMAIN Append(ds, c)
        /\ Append(ds, c)[Len(ds) + 1] = c
    BY AppendProperties, LenProperties
  <2>2. id \in Int /\ (c.id = 0 => ~(id > 0)) /\ (c.id # 0 => id = c.id /\ id > 0)
    BY <2>1, CallIdType
  <2>3. d \in Completed /\ d.id = id
    BY <2>2, CallFields
  <2>4. /\ Called(Append(ds, c)) = Called(ds) \o Dropped(c, id) /\ Called(ds) \in Seq(Completed)
        /\ Expected(Append(ds, c)) = Expected(ds) \o Asking(c)
    BY <2>1, CalledAppend, ExpectedAppend
  <2>5. CASE c.tool = ""
    <3>1. Dropped(c, id) = <<>> /\ Asking(c) = <<>>
      BY <2>5 DEF Dropped, Asking
    <3>2. Expected(ds) \in Seq(Int)
      BY GivenType, <2>4, IdsType
    <3> QED BY <2>1, <2>4, <3>1, <3>2, ConcatEmptySeq
  <2>6. CASE c.tool # ""
    <3>1. Dropped(c, id) = <<d>> /\ Asking(c) = Positive(id)
      BY <2>2, <2>6 DEF Dropped, Asking, Positive
    <3> HIDE DEF d, id
    <3>2. Called(Append(ds, c)) = Append(Called(ds), d)
      BY <2>3, <2>4, <3>1, AppendIsConcat
    <3>3. Append(Called(ds), d) \in Seq(Completed)
      BY <2>3, <2>4, AppendProperties
    <3>4. Ids(Append(Called(ds), d)) = Append(Ids(Called(ds)), id) /\ Ids(Called(ds)) \in Seq(Int)
      BY <2>3, <2>4, IdsAppend
    <3>5. Given(Append(Ids(Called(ds)), id)) = Given(Ids(Called(ds))) \o Positive(id)
      BY <2>2, <3>4, GivenAppend
    <3> QED BY <2>1, <2>4, <3>1, <3>2, <3>3, <3>4, <3>5
  <2> QED BY <2>5, <2>6
<1>3. T = Seq(Calls)
  <2> HIDE DEF T
  <2>1. T \in SUBSET Seq(Calls)
    BY DEF T
  <2> QED BY <1>1, <1>2, <2>1, SequenceInduction
<1> QED BY <1>3

-----------------------------------------------------------------------------
(* Outcome is well-defined, and commands compose.                          *)

OutcomeOf(f, r, s, n) ==
  f = [k \in 0..n |-> IF k = 0 THEN r ELSE Changed(f[k - 1], s[k].task, s[k].change)]
After(r, s) == CHOOSE f : OutcomeOf(f, r, s, Len(s))

LEMMA OutcomeExists ==
  ASSUME NEW r, NEW s, NEW n \in Nat
  PROVE  \E f : OutcomeOf(f, r, s, n)
<1> DEFINE N == {m \in Nat : \E f : OutcomeOf(f, r, s, m)}
<1>1. 0 \in N
  <2> DEFINE g == [k \in 0..0 |-> r]
  <2>1. g = [k \in 0..0 |-> IF k = 0 THEN r ELSE Changed(g[k - 1], s[k].task, s[k].change)]
    OBVIOUS
  <2> HIDE DEF g
  <2>2. OutcomeOf(g, r, s, 0)
    BY <2>1, Zenon DEF OutcomeOf
  <2> QED BY <2>2
<1>2. ASSUME NEW m \in N PROVE m + 1 \in N
  <2>1. PICK f : OutcomeOf(f, r, s, m)
    OBVIOUS
  <2> DEFINE last == Changed(f[m], s[m + 1].task, s[m + 1].change)
             g == [k \in 0..(m + 1) |-> IF k = m + 1 THEN last ELSE f[k]]
  <2>2. m \in Nat
    OBVIOUS
  <2>3. ASSUME NEW k \in 0..(m + 1)
        PROVE  g[k] = IF k = 0 THEN r ELSE Changed(g[k - 1], s[k].task, s[k].change)
    <3>1. CASE k = m + 1
      <4>1. g[k] = last /\ g[k - 1] = f[m] /\ k # 0
        BY <2>2, <3>1
      <4> HIDE DEF g
      <4> QED BY <3>1, <4>1
    <3>2. CASE k # m + 1
      <4>1. k \in 0..m /\ g[k] = f[k]
        BY <2>2, <3>2
      <4>2. f[k] = IF k = 0 THEN r ELSE Changed(f[k - 1], s[k].task, s[k].change)
        BY <2>1, <4>1 DEF OutcomeOf
      <4>3. k # 0 => g[k - 1] = f[k - 1]
        BY <2>2, <4>1
      <4> HIDE DEF g
      <4> QED BY <4>1, <4>2, <4>3
    <3> QED BY <3>1, <3>2
  <2>4. OutcomeOf(g, r, s, m + 1)
    <3>1. g = [k \in 0..(m + 1) |-> g[k]]
      OBVIOUS
    <3> HIDE DEF g
    <3> QED BY <2>3, <3>1 DEF OutcomeOf
  <2> QED BY <2>4
<1>3. N = Nat
  <2> HIDE DEF N
  <2>1. N \in SUBSET Nat
    BY DEF N
  <2> QED BY <1>1, <1>2, <2>1, SetInduction
<1> QED BY <1>3

LEMMA OutcomeAt ==
  ASSUME NEW r, NEW s, NEW f, NEW n, OutcomeOf(f, r, s, n), NEW k \in 0..n
  PROVE  f[k] = IF k = 0 THEN r ELSE Changed(f[k - 1], s[k].task, s[k].change)
  BY DEF OutcomeOf

\* The function of more commands begins with that of the first ones.
LEMMA OutcomeAgrees ==
  ASSUME NEW r, NEW s, NEW t, NEW f, NEW g, NEW n \in Nat, NEW m \in Nat,
         OutcomeOf(f, r, s, n), OutcomeOf(g, r, t, m), n <= m, \A i \in 1..n : s[i] = t[i]
  PROVE  \A i \in 0..n : f[i] = g[i]
<1> DEFINE N == {j \in Nat : j \in 0..n => f[j] = g[j]}
<1>1. 0 \in N
  <2>1. 0 \in 0..n /\ 0 \in 0..m
    OBVIOUS
  <2> QED BY <2>1, OutcomeAt
<1>2. ASSUME NEW j \in N PROVE j + 1 \in N
  <2> SUFFICES ASSUME j + 1 \in 0..n PROVE f[j + 1] = g[j + 1]
    OBVIOUS
  <2>1. /\ j \in Nat /\ j + 1 \in 0..n /\ j + 1 \in 0..m /\ s[j + 1] = t[j + 1]
        /\ (j + 1) - 1 = j /\ j + 1 # 0 /\ j \in 0..n
    OBVIOUS
  <2>2. /\ f[j + 1] = Changed(f[j], s[j + 1].task, s[j + 1].change)
        /\ g[j + 1] = Changed(g[j], t[j + 1].task, t[j + 1].change)
    BY <2>1, OutcomeAt
  <2>3. f[j] = g[j]
    BY <2>1
  <2> QED BY <2>1, <2>2, <2>3
<1>3. N = Nat
  <2> HIDE DEF N
  <2>1. N \in SUBSET Nat
    BY DEF N
  <2> QED BY <1>1, <1>2, <2>1, SetInduction
<1> QED BY <1>3

LEMMA OutcomeIs ==
  ASSUME NEW r, NEW S, NEW s \in Seq(S)
  PROVE  OutcomeOf(After(r, s), r, s, Len(s)) /\ Outcome(r, s) = After(r, s)[Len(s)]
<1>1. Len(s) \in Nat
  BY LenProperties
<1>2. OutcomeOf(After(r, s), r, s, Len(s))
  BY <1>1, OutcomeExists DEF After
<1>3. Outcome(r, s) = After(r, s)[Len(s)]
  BY DEF Outcome, After, OutcomeOf
<1> QED BY <1>2, <1>3

LEMMA OutcomeEmpty ==
  ASSUME NEW r
  PROVE  Outcome(r, <<>>) = r
<1>1. <<>> \in Seq({}) /\ Len(<<>>) = 0 /\ 0 \in 0..0
  BY EmptySeq
<1> DEFINE f == After(r, <<>>)
<1>2. OutcomeOf(f, r, <<>>, 0) /\ Outcome(r, <<>>) = f[0]
  BY <1>1, OutcomeIs
<1> HIDE DEF f
<1> QED BY <1>1, <1>2, OutcomeAt

LEMMA OutcomeAppend ==
  ASSUME NEW r, NEW S, NEW s \in Seq(S), NEW c \in S
  PROVE  Outcome(r, Append(s, c)) = Changed(Outcome(r, s), c.task, c.change)
<1> DEFINE t == Append(s, c)
           n == Len(s)
           m == n + 1
           f == After(r, s)
           g == After(r, t)
<1>1. /\ n \in Nat /\ m \in Nat /\ n <= m /\ t \in Seq(S) /\ Len(t) = m /\ t[m] = c
      /\ \A i \in 1..n : s[i] = t[i]
  BY AppendProperties, LenProperties
<1>2. m - 1 = n /\ m # 0 /\ n \in 0..n /\ m \in 0..m
  BY <1>1
<1> HIDE DEF m, n, t
<1>3. OutcomeOf(f, r, s, n) /\ Outcome(r, s) = f[n]
  BY OutcomeIs DEF n
<1>4. OutcomeOf(g, r, t, m) /\ Outcome(r, t) = g[m]
  BY <1>1, OutcomeIs
<1> HIDE DEF f, g
<1>5. f[n] = g[n]
  <2>1. \A i \in 0..n : f[i] = g[i]
    BY <1>1, <1>3, <1>4, OutcomeAgrees
  <2> QED BY <1>2, <2>1
<1>6. g[m] = Changed(g[n], c.task, c.change)
  BY <1>1, <1>2, <1>4, OutcomeAt
<1> QED BY <1>3, <1>4, <1>5, <1>6 DEF t

\* The commands of two sequences, one after the other.
LEMMA OutcomeConcat ==
  ASSUME NEW r, NEW S, NEW s \in Seq(S), NEW t \in Seq(S)
  PROVE  Outcome(r, s \o t) = Outcome(Outcome(r, s), t)
<1> DEFINE T == {u \in Seq(S) : Outcome(r, s \o u) = Outcome(Outcome(r, s), u)}
<1>1. <<>> \in T
  BY EmptySeq, ConcatEmptySeq, OutcomeEmpty
<1>2. ASSUME NEW u \in T, NEW c \in S PROVE Append(u, c) \in T
  <2>1. u \in Seq(S) /\ Append(u, c) \in Seq(S) /\ s \o u \in Seq(S)
    BY AppendProperties, ConcatProperties
  <2>2. s \o Append(u, c) = Append(s \o u, c)
    <3>1. <<c>> \in Seq(S) /\ Append(u, c) = u \o <<c>> /\ Append(s \o u, c) = (s \o u) \o <<c>>
      BY <2>1, ShortSequences, AppendIsConcat
    <3> QED BY <2>1, <3>1, ConcatAssociative
  <2>3. Outcome(r, Append(s \o u, c)) = Changed(Outcome(r, s \o u), c.task, c.change)
    <3> DEFINE v == s \o u
    <3>1. v \in Seq(S) /\ c \in S
      BY <2>1
    <3> HIDE DEF v, T
    <3>2. Outcome(r, Append(v, c)) = Changed(Outcome(r, v), c.task, c.change)
      BY <3>1, OutcomeAppend
    <3> QED BY <3>2 DEF v
  <2>4. Outcome(Outcome(r, s), Append(u, c))
          = Changed(Outcome(Outcome(r, s), u), c.task, c.change)
    <3> DEFINE q == Outcome(r, s)
    <3>1. u \in Seq(S) /\ c \in S
      BY <2>1
    <3> HIDE DEF q, T
    <3>2. Outcome(q, Append(u, c)) = Changed(Outcome(q, u), c.task, c.change)
      BY <3>1, OutcomeAppend
    <3> QED BY <3>2 DEF q
  <2>5. Outcome(r, s \o u) = Outcome(Outcome(r, s), u)
    OBVIOUS
  <2> HIDE DEF T
  <2>6. Outcome(r, s \o Append(u, c)) = Outcome(Outcome(r, s), Append(u, c))
    BY <2>2, <2>3, <2>4, <2>5
  <2> QED BY <2>1, <2>6 DEF T
<1>3. T = Seq(S)
  <2> HIDE DEF T
  <2>1. T \in SUBSET Seq(S)
    BY DEF T
  <2> QED BY <1>1, <1>2, <2>1, SequenceInduction
<1> QED BY <1>3

\* The first command first.
LEMMA OutcomeHead ==
  ASSUME NEW r, NEW S, NEW s \in Seq(S), s # <<>>
  PROVE  Outcome(r, s) = Outcome(Changed(r, Head(s).task, Head(s).change), Tail(s))
<1> DEFINE h == <<Head(s)>>
<1>1. Head(s) \in S /\ Tail(s) \in Seq(S) /\ h \in Seq(S)
  BY HeadTailProperties, ShortSequences
<1>2. s = h \o Tail(s)
  OBVIOUS
<1>3. h = Append(<<>>, Head(s)) /\ <<>> \in Seq(S)
  BY EmptySeq
<1>4. Outcome(r, h) = Changed(r, Head(s).task, Head(s).change)
  <2> DEFINE c == Head(s)
             e == <<>>
  <2>1. c \in S /\ e \in Seq(S) /\ h = Append(e, c)
    BY <1>1, <1>3
  <2>2. Outcome(r, e) = r
    BY OutcomeEmpty
  <2> HIDE DEF c, e, h
  <2>3. Outcome(r, Append(e, c)) = Changed(Outcome(r, e), c.task, c.change)
    BY <2>1, OutcomeAppend
  <2>4. Outcome(r, h) = Changed(r, c.task, c.change)
    BY <2>1, <2>2, <2>3
  <2> QED BY <2>4 DEF c
<1> DEFINE u == Tail(s)
<1>5. Outcome(r, h \o u) = Outcome(Outcome(r, h), u)
  <2>1. h \in Seq(S) /\ u \in Seq(S)
    BY <1>1
  <2> HIDE DEF h, u
  <2> QED BY <2>1, OutcomeConcat
<1> HIDE DEF h
<1> QED BY <1>2, <1>4, <1>5
-----------------------------------------------------------------------------
(* The inductive invariant.                                                *)

\* What the page can be offered: add_team_member adds one member, and no
\* other tool adds any.
Actions == {a \in [tool : STRING, task : Tasks, changes : Seq(Changes)] :
              IF a.tool = "add_team_member" THEN JoinsOne(a) ELSE JoinsNobody(a)}
Selections == [action : Actions, selected : BOOLEAN]

\* What a tool call came to, and a message of the exchange.
Handlings == [id : Int, verdict : {"staged", "error", "result"},
              action : [tool : STRING, task : Tasks, changes : Seq(Changes)]]
Roles == {"user", "assistant", "tool"}
Messages == [role : Roles, calls : Seq(Calls), ids : Seq(Int)]

\* The commands of a batch; a field that is assigned to is one that may be.
Read == <<"task", Nobody>>
Orders == {c \in [task : Tasks, change : Changes \union {Read}] :
             /\ c.change[1] # "join"
             /\ c.change[1] = "assignee" => c.change[2] \in Members \union {Nobody}}

Typed ==
  /\ TypeOK
  /\ calls \in Seq(Completed) /\ results \in Seq(Handlings)
  /\ staged \in Seq(Actions) /\ messages \in Seq(Messages)
  /\ offered \subseteq Actions /\ sent \in Seq(Selections) /\ commands \in Seq(Orders)

\* Where the handlers of each kind can be.
Control ==
  /\ phase = "idle" => messages = <<>>
  /\ phase \in {"calls", "final"} => kind = "chat"
  /\ phase \in {"actions", "batch"} => kind = "apply"
  /\ phase = "calls" => round < MaxRounds

\* What the provider was told, or will be, is staged.
Told == /\ told \subseteq ToSet(staged)
        /\ \A i \in DOMAIN results :
             results[i].verdict = "staged" => results[i].action \in ToSet(staged)

\* Each command of the batch reads, or is a change of a selected action that
\* was offered.
ChosenBy(s, c) == /\ s.selected
                  /\ \E j \in DOMAIN s.action.changes :
                       c = [task |-> s.action.task, change |-> s.action.changes[j]]
Chosen == /\ \A i \in DOMAIN sent : sent[i].action \in offered
          /\ \A k \in DOMAIN commands : \/ commands[k].change = Read
                                        \/ \E i \in DOMAIN sent : ChosenBy(sent[i], commands[k])

\* The repository, and the commands that wait, come to what the actions
\* before the next one mean.
Before(s, k) == Meant(SubSeq(s, 1, k - 1))
Accounted ==
  alone => /\ phase = "actions" => Outcome(repo, commands) = Outcome(before, Before(sent, next))
           /\ phase = "batch" => Outcome(repo, commands) = Intended(before, sent)

\* After the calls of a message come their results, and then a message that
\* is not a result.
ResultsOf(cs) == ResultMessages(provider, Ids(Called(cs)))
ResultsFollow(ms, j) ==
  LET n == Len(ResultsOf(ms[j].calls))
  IN /\ j + n <= Len(ms)
     /\ \A k \in 1..n : ms[j + k] = ResultsOf(ms[j].calls)[k]
     /\ j + n + 1 \in DOMAIN ms => ms[j + n + 1].ids = <<>>
Exchange ==
  \A j \in DOMAIN messages : messages[j].calls # <<>> =>
    /\ Called(messages[j].calls) # <<>> /\ messages[j].ids = <<>>
    /\ phase # "calls" \/ j # Len(messages) => ResultsFollow(messages, j)

\* The calls of a round: some came to their results, in order, the others wait.
Pending == Called(messages[Len(messages)].calls)
Round == phase = "calls" =>
  /\ messages # <<>> /\ messages[Len(messages)].calls # <<>>
  /\ Len(results) + Len(calls) = Len(Pending)
  /\ \A i \in DOMAIN results : results[i].id = Pending[i].id
  /\ \A i \in DOMAIN calls : calls[i] = Pending[Len(results) + i]

IInv == /\ Typed /\ Control /\ Told /\ Chosen
        /\ Accounted /\ Exchange /\ Round

-----------------------------------------------------------------------------
(* What a command makes of a repository.                                   *)

LEMMA ChangedTyped ==
  ASSUME NEW r \in Repositories, NEW c \in Orders, Accepts(r, c.task, c.change)
  PROVE  Changed(r, c.task, c.change) \in Repositories
<1> DEFINE t == c.task
           v == c.change
<1>1. /\ t \in Tasks /\ v[1] # "join"
      /\ v[1] = "assignee" => v[2] \in Members \union {Nobody}
      /\ v[1] = "move" => v[2] \in Statuses
  BY ToolsAssumption DEF Orders, Accepts
<1> HIDE DEF t, v
<1>2. Changed(r, t, v) \in Repositories
  <2>1. CASE v[1] = "move"
    BY <1>1, <2>1 DEF Changed, Repositories
  <2>2. CASE v[1] = "assignee"
    BY <1>1, <2>2 DEF Changed, Repositories
  <2>3. CASE v[1] = "comment"
    BY <1>1, <2>3 DEF Changed, Repositories
  <2>4. CASE v[1] \notin {"move", "assignee", "comment"}
    BY <1>1, <2>4 DEF Changed
  <2> QED BY <2>1, <2>2, <2>3, <2>4
<1> QED BY <1>2 DEF t, v

LEMMA JoinedTyped ==
  ASSUME NEW r \in Repositories, NEW m \in Members
  PROVE  Joined(r, m) \in Repositories
  BY DEF Joined, Repositories

\* A repository is made of its four fields, whatever they hold.
Shaped(r) == r = [status |-> r.status, assignee |-> r.assignee, comments |-> r.comments,
                  team |-> r.team]

LEMMA RepositoryShaped == ASSUME NEW r \in Repositories PROVE Shaped(r)
  BY DEF Repositories, Shaped

\* A command that adds nobody to the team and one that does can change places.
LEMMA JoinedChanged ==
  ASSUME NEW r, Shaped(r), NEW m, NEW t, NEW v, v[1] # "join"
  PROVE  Shaped(Changed(r, t, v)) /\ Changed(Joined(r, m), t, v) = Joined(Changed(r, t, v), m)
<1>1. CASE v[1] = "move"
  BY <1>1 DEF Changed, Joined, Shaped
<1>2. CASE v[1] = "assignee"
  BY <1>2 DEF Changed, Joined, Shaped
<1>3. CASE v[1] = "comment"
  BY <1>3 DEF Changed, Joined, Shaped
<1>4. CASE v[1] \notin {"move", "assignee", "comment"}
  BY <1>4 DEF Changed, Joined, Shaped
<1> QED BY <1>1, <1>2, <1>3, <1>4

LEMMA JoinedOutcome ==
  ASSUME NEW r, Shaped(r), NEW m, NEW s \in Seq(Orders)
  PROVE  Outcome(Joined(r, m), s) = Joined(Outcome(r, s), m)
<1> DEFINE T == {u \in Seq(Orders) : /\ Shaped(Outcome(r, u))
                                     /\ Outcome(Joined(r, m), u) = Joined(Outcome(r, u), m)}
<1>1. <<>> \in T
  BY OutcomeEmpty, EmptySeq
<1>2. ASSUME NEW u \in T, NEW c \in Orders PROVE Append(u, c) \in T
  <2> DEFINE q == Outcome(r, u)
             j == Joined(r, m)
  <2>1. /\ u \in Seq(Orders) /\ Append(u, c) \in Seq(Orders) /\ c.change[1] # "join"
        /\ Shaped(q) /\ Outcome(j, u) = Joined(q, m)
    BY AppendProperties DEF Orders
  <2> HIDE DEF T, q, j
  <2>2. /\ Outcome(r, Append(u, c)) = Changed(Outcome(r, u), c.task, c.change)
        /\ Outcome(j, Append(u, c)) = Changed(Outcome(j, u), c.task, c.change)
    BY <2>1, OutcomeAppend
  <2>3. /\ Shaped(Changed(q, c.task, c.change))
        /\ Changed(Joined(q, m), c.task, c.change) = Joined(Changed(q, c.task, c.change), m)
    BY <2>1, JoinedChanged
  <2>4. Outcome(r, Append(u, c)) = Changed(q, c.task, c.change)
    BY <2>2 DEF q
  <2>5. Outcome(j, Append(u, c)) = Joined(Changed(q, c.task, c.change), m)
    BY <2>1, <2>2, <2>3
  <2> QED BY <2>1, <2>3, <2>4, <2>5 DEF T, j
<1>3. T = Seq(Orders)
  <2> HIDE DEF T
  <2>1. T \in SUBSET Seq(Orders)
    BY DEF T
  <2> QED BY <1>1, <1>2, <2>1, SequenceInduction
<1> QED BY <1>3

-----------------------------------------------------------------------------
(* What the selected actions mean.                                         *)

Asked == [task : Tasks, change : Changes]
Taken(x) == IF x.selected THEN Steps(x.action) ELSE <<>>

LEMMA StepsType ==
  ASSUME NEW a, a.task \in Tasks, a.changes \in Seq(Changes)
  PROVE  /\ Steps(a) \in Seq(Asked) /\ Len(Steps(a)) = Len(a.changes)
         /\ DOMAIN a.changes = 1..Len(a.changes) /\ Len(a.changes) \in Nat
         /\ \A i \in DOMAIN a.changes : /\ Steps(a)[i] = [task |-> a.task, change |-> a.changes[i]]
                                        /\ a.changes[i] \in Changes
<1>1. /\ Len(a.changes) \in Nat /\ DOMAIN a.changes = 1..Len(a.changes)
      /\ \A i \in DOMAIN a.changes : a.changes[i] \in Changes
  BY LenProperties, ElementOfSeq
<1>2. Steps(a) \in [1..Len(a.changes) -> Asked]
  BY <1>1 DEF Steps, Asked
<1>3. Steps(a) \in Seq(Asked)
  BY <1>1, <1>2, SeqDef
<1> QED BY <1>1, <1>2, <1>3, LenProperties DEF Steps

LEMMA TakenType ==
  ASSUME NEW x \in Selections
  PROVE  /\ Taken(x) \in Seq(Asked)
         /\ x.action.task \in Tasks /\ x.action.changes \in Seq(Changes)
<1>1. x.action.task \in Tasks /\ x.action.changes \in Seq(Changes)
  BY DEF Selections, Actions
<1>2. <<>> \in Seq(Asked)
  BY EmptySeq
<1> DEFINE a == x.action
<1>3. a.task \in Tasks /\ a.changes \in Seq(Changes)
  BY <1>1
<1> HIDE DEF a
<1>4. Steps(a) \in Seq(Asked)
  BY <1>3, StepsType
<1> QED BY <1>1, <1>2, <1>4 DEF Taken, a

LEMMA MeantAppend ==
  ASSUME NEW s \in Seq(Selections), NEW x \in Selections
  PROVE  Meant(Append(s, x)) = Meant(s) \o Taken(x) /\ Meant(s) \in Seq(Asked)
<1> DEFINE t == Append(s, x)
           n == Len(s)
           f == [i \in DOMAIN t |-> Taken(t[i])]
           g == [i \in DOMAIN s |-> Taken(s[i])]
<1>1. /\ n \in Nat /\ DOMAIN s = 1..n /\ DOMAIN t = 1..(n + 1)
      /\ t[n + 1] = x /\ \A i \in 1..n : t[i] = s[i] /\ s[i] \in Selections
  BY AppendProperties, LenProperties, ElementOfSeq
<1> HIDE DEF t, n
<1>2. \A y \in Selections : Taken(y) \in Seq(Asked)
  BY TakenType
<1>3. /\ \A i \in DOMAIN s : f[i] = g[i] /\ g[i] \in Seq(Asked)
      /\ f[n + 1] = Taken(x) /\ f[n + 1] \in Seq(Asked)
  BY <1>1, <1>2
<1>4. /\ DOMAIN f = DOMAIN t /\ DOMAIN g = DOMAIN s
      /\ f = [i \in DOMAIN f |-> f[i]] /\ g = [i \in DOMAIN g |-> g[i]]
  OBVIOUS
<1>5. Meant(t) = FlattenSeq(f) /\ Meant(s) = FlattenSeq(g)
  BY DEF Meant, Taken
<1> HIDE DEF f, g
<1>6. f = Append(g, f[n + 1]) /\ g \in Seq(Seq(Asked))
  BY <1>3, <1>4, MapAppend DEF t, n
<1>7. f = Append(g, Taken(x)) /\ Taken(x) \in Seq(Asked)
  BY <1>3, <1>6
<1>8. FlattenSeq(Append(g, Taken(x))) = FlattenSeq(g) \o Taken(x) /\ FlattenSeq(g) \in Seq(Asked)
  BY <1>6, <1>7, FlattenAppend, FlattenType
<1> QED BY <1>5, <1>7, <1>8 DEF t

\* The next action goes on from what the actions before it mean.
LEMMA BeforeNext ==
  ASSUME NEW s \in Seq(Selections), NEW k \in 1..Len(s)
  PROVE  Before(s, k + 1) = Before(s, k) \o Taken(s[k]) /\ Before(s, k) \in Seq(Asked)
<1>1. Len(s) \in Nat /\ s[k] \in Selections
  BY LenProperties, ElementOfSeq
<1> DEFINE u == SubSeq(s, 1, k - 1)
<1>2. u \in Seq(Selections)
  BY <1>1, SubSeqProperties
<1>3. SubSeq(s, 1, k) = Append(u, s[k]) /\ (k + 1) - 1 = k
  BY <1>1, SubSeqRecursiveSecond
<1> HIDE DEF u
<1>4. Meant(Append(u, s[k])) = Meant(u) \o Taken(s[k]) /\ Meant(u) \in Seq(Asked)
  BY <1>1, <1>2, MeantAppend
<1> QED BY <1>3, <1>4 DEF Before, u

LEMMA BeforeEnds ==
  ASSUME NEW s \in Seq(Selections)
  PROVE  Before(s, 1) = <<>> /\ Before(s, Len(s) + 1) = Meant(s)
<1>1. Len(s) \in Nat /\ (Len(s) + 1) - 1 = Len(s) /\ 1 - 1 = 0
  BY LenProperties
<1>2. SubSeq(s, 1, 0) = <<>> /\ SubSeq(s, 1, Len(s)) = s
  BY <1>1, SubSeqEmpty, SubSeqFull
<1>3. Meant(<<>>) = <<>>
  BY FlattenEmpty DEF Meant
<1> QED BY <1>1, <1>2, <1>3 DEF Before

-----------------------------------------------------------------------------
(* The commands of an action.                                              *)

LEMMA CommandsMean ==
  ASSUME NEW r, NEW a, a.task \in Tasks, a.changes \in Seq(Changes)
  PROVE  Outcome(r, Commands(a)) = Outcome(r, Steps(a))
<1> DEFINE S == [task : Tasks, change : Changes \union {Read}]
           s == Steps(a)
           c == Reading(a)
<1>1. c \in S /\ c.change = Read
  BY DEF Reading, Read
<1>2. s \in Seq(S)
  <2>1. s \in Seq(Asked)
    BY StepsType
  <2>2. Asked \subseteq S
    BY DEF Asked
  <2> HIDE DEF s, S
  <2> QED BY <2>1, <2>2
<1>3. Commands(a) = Append(s, c)
  BY DEF Commands
<1> HIDE DEF s, c, S
<1>4. Outcome(r, Append(s, c)) = Changed(Outcome(r, s), c.task, c.change)
  BY <1>1, <1>2, OutcomeAppend
<1>5. \A q : Changed(q, c.task, c.change) = q
  BY <1>1 DEF Changed, Read
<1> QED BY <1>3, <1>4, <1>5 DEF s

LEMMA CommandsType ==
  ASSUME NEW r \in Repositories, NEW a \in Actions, a.tool # "add_team_member",
         AssigneesKnown(r, a)
  PROVE  /\ Commands(a) \in Seq(Orders)
         /\ \A k \in DOMAIN Commands(a) :
              \/ Commands(a)[k].change = Read
              \/ \E j \in DOMAIN a.changes :
                   Commands(a)[k] = [task |-> a.task, change |-> a.changes[j]]
<1> DEFINE s == Steps(a)
           c == Reading(a)
           n == Len(a.changes)
<1>1. a.task \in Tasks /\ a.changes \in Seq(Changes) /\ JoinsNobody(a)
  BY DEF Actions
<1>2. /\ s \in Seq(Asked) /\ Len(s) = n /\ DOMAIN a.changes = 1..n /\ n \in Nat
      /\ \A i \in 1..n : /\ s[i] = [task |-> a.task, change |-> a.changes[i]]
                         /\ a.changes[i] \in Changes
  BY <1>1, StepsType
<1>3. \A i \in 1..n : a.changes[i][1] = "assignee" => a.changes[i][2] \in Members \union {Nobody}
  BY <1>2 DEF AssigneesKnown, KnownAssignee, Repositories
<1>4. \A i \in 1..n : s[i] \in Orders
  <2> SUFFICES ASSUME NEW i \in 1..n PROVE s[i] \in Orders
    OBVIOUS
  <2> DEFINE v == a.changes[i]
  <2>1. /\ s[i] = [task |-> a.task, change |-> v] /\ v \in Changes /\ v[1] # "join"
        /\ v[1] = "assignee" => v[2] \in Members \union {Nobody}
    BY <1>1, <1>2, <1>3 DEF JoinsNobody
  <2> HIDE DEF v, s
  <2> QED BY <1>1, <2>1 DEF Orders
<1>5. c \in Orders /\ c.change = Read
  BY <1>1 DEF Reading, Read, Orders
<1>6. Commands(a) = Append(s, c)
  BY DEF Commands
<1> HIDE DEF s, c, n
<1>7. s \in Seq(Orders)
  <2>1. s \in [1..Len(s) -> Orders]
    BY <1>2, <1>4, LenProperties
  <2> QED BY <1>2, <2>1, SeqDef
<1>8. /\ Append(s, c) \in Seq(Orders) /\ DOMAIN Append(s, c) = 1..(n + 1)
      /\ Append(s, c)[n + 1] = c /\ \A i \in 1..n : Append(s, c)[i] = s[i]
  BY <1>2, <1>5, <1>7, AppendProperties, LenProperties
<1>9. ASSUME NEW k \in DOMAIN Append(s, c)
      PROVE  \/ Append(s, c)[k].change = Read
             \/ \E j \in DOMAIN a.changes :
                  Append(s, c)[k] = [task |-> a.task, change |-> a.changes[j]]
  <2>1. CASE k = n + 1
    <3>1. Append(s, c)[k] = c
      BY <1>8, <2>1
    <3> QED BY <1>5, <3>1
  <2>2. CASE k # n + 1
    <3>1. k \in 1..n
      BY <1>2, <1>8, <2>2
    <3>2. Append(s, c)[k] = s[k]
      BY <1>8, <3>1
    <3> QED BY <1>2, <3>1, <3>2, SMTT(30)
  <2> QED BY <2>1, <2>2
<1> QED BY <1>6, <1>8, <1>9, ZenonT(30)

-----------------------------------------------------------------------------
(* The invariant is inductive.                                             *)

LEMMA InitIInv == Init => IInv
<1> SUFFICES ASSUME Init PROVE IInv
  OBVIOUS
<1> USE PipAssumption DEF Init
<1>1. \A S : <<>> \in Seq(S)
  BY EmptySeq
<1>2. DOMAIN <<>> = {} /\ Len(<<>>) = 0
  OBVIOUS
<1>3. Typed
  <2>1. TypeOK
    BY <1>2 DEF TypeOK, Phases, Kinds, NoAnswer
  <2> QED BY <1>1, <2>1 DEF Typed
<1>4. Control /\ Accounted /\ Round
  BY DEF Control, Accounted, Round
<1>5. Told /\ Chosen /\ Exchange
  BY <1>2 DEF Told, Chosen, Exchange
<1> QED BY <1>3, <1>4, <1>5 DEF IInv

\* A handler that returns: its local variables are gone.
LEMMA AnswerKeeps ==
  ASSUME IInv, NEW k \in Kinds, NEW code \in {200, 400, 500, 502}, NEW actions \in Seq(Actions),
         Answer(k, code, actions), UNCHANGED <<repo, job, past>>
  PROVE  IInv'
<1> USE PipAssumption DEF Answer, ClearChat, job, past
<1>1. \A S : <<>> \in Seq(S)
  BY EmptySeq
<1>2. DOMAIN <<>> = {} /\ Len(<<>>) = 0
  OBVIOUS
<1>3. offered \subseteq offered' /\ offered' \subseteq Actions
  <2>1. ToSet(actions) \subseteq Actions
    BY ElementOfSeq DEF ToSet
  <2> QED BY <2>1 DEF IInv, Typed
<1>4. Typed'
  <2>1. TypeOK'
    BY <1>2 DEF IInv, Typed, TypeOK, Phases
  <2> QED BY <1>1, <1>3, <2>1 DEF IInv, Typed
<1>5. Control' /\ Accounted' /\ Round'
  BY DEF Control, Accounted, Round
<1>6. Told' /\ Exchange'
  BY <1>2 DEF Told, Exchange
<1>7. Chosen'
  BY <1>3 DEF IInv, Chosen
<1> QED BY <1>4, <1>5, <1>6, <1>7 DEF IInv

\* A request arrives: it is refused, or its handler begins.
LEMMA ArriveKeeps ==
  ASSUME IInv, phase = "idle", NEW k \in Kinds, NEW counter \in {"model", "apply"},
         Arrive(k, counter), NEW actions \in Seq(Selections), ClearJob(actions),
         \A i \in DOMAIN actions : actions[i].action \in offered,
         phase' \in {"idle", "context", "post", "actions"},
         phase' = "actions" => k = "apply",
         provider' \in Providers \union {"none"}, attempt' \in 0..MaxAttempts,
         answer'.code \in {0, 200, 400, 404, 500, 502},
         UNCHANGED <<round, reply, calls, results, staged, messages, told>>
  PROVE  IInv'
<1> USE PipAssumption DEF Arrive, ClearJob
<1>1. <<>> \in Seq(Orders) /\ DOMAIN <<>> = {} /\ Len(actions) \in Nat /\ messages = <<>>
  <2>1. messages = <<>>
    BY DEF IInv, Control
  <2> QED BY <2>1, EmptySeq, LenProperties
<1>2. TypeOK'
  <2>0. TypeOK
    BY DEF IInv, Typed
  <2>1. count' \in [{"model", "apply"} -> 0..MaxRequests]
    BY <2>0 DEF TypeOK
  <2>2. next' \in 1..(Len(sent') + 1)
    BY <1>1
  <2>3. phase' \in Phases
    BY DEF Phases
  <2> QED BY <2>0, <2>1, <2>2, <2>3 DEF TypeOK
<1>3. Typed'
  BY <1>1, <1>2 DEF IInv, Typed
<1>4. Control'
  BY <1>1 DEF Control
<1>5. Told'
  BY DEF IInv, Told
<1>6. Chosen'
  BY <1>1 DEF Chosen
<1>7. Accounted'
  BY OutcomeEmpty, BeforeEnds DEF Accounted
<1>8. Exchange' /\ Round'
  BY <1>1 DEF Exchange, Round
<1> QED BY <1>3, <1>4, <1>5, <1>6, <1>7, <1>8 DEF IInv

\* Steps between the calls: the post to the provider, and what to do with
\* its answer.
LEMMA MoveKeeps ==
  ASSUME IInv, phase \in {"context", "post", "reply", "final"},
         phase' \in {"context", "post", "reply", "final"},
         kind' \in Kinds, phase' = "final" => kind' = "chat",
         attempt' \in 0..MaxAttempts, reply' \in Replies \union {NotJson},
         UNCHANGED <<repo, provider, round, calls, results, staged, messages, told, job,
                     offered, answer, past>>
  PROVE  IInv'
<1> USE DEF job, past
<1>1. Typed'
  BY DEF IInv, Typed, TypeOK, Phases
<1>2. Control' /\ Accounted' /\ Round'
  BY DEF Control, Accounted, Round
<1>3. Told' /\ Chosen'
  BY DEF IInv, Told, Chosen, ChosenBy
<1>4. Exchange'
  BY DEF IInv, Exchange, ResultsFollow, ResultsOf
<1> QED BY <1>1, <1>2, <1>3, <1>4 DEF IInv

\* One call of a round is handled.
LEMMA HandledKeeps ==
  ASSUME IInv, phase = "calls", calls # <<>>, NEW verdict \in {"staged", "error", "result"},
         Handled(verdict), repo' = repo,
         staged' \in Seq(Actions), ToSet(staged) \subseteq ToSet(staged'),
         verdict = "staged" => ActionOf(Head(calls)) \in ToSet(staged')
  PROVE  IInv'
<1> DEFINE h == Head(calls)
           x == [id |-> h.id, verdict |-> verdict, action |-> ActionOf(h)]
           n == Len(results)
<1>1. /\ n \in Nat /\ DOMAIN results = 1..n /\ Len(calls) \in Nat /\ Len(calls) >= 1
      /\ h \in Completed /\ h = calls[1] /\ DOMAIN calls = 1..Len(calls)
      /\ Tail(calls) \in Seq(Completed) /\ Len(Tail(calls)) = Len(calls) - 1
      /\ \A i \in 1..(Len(calls) - 1) : Tail(calls)[i] = calls[i + 1]
      /\ DOMAIN Tail(calls) = 1..(Len(calls) - 1)
  <2>1. calls \in Seq(Completed) /\ results \in Seq(Handlings)
    BY DEF IInv, Typed
  <2>2. Tail(calls) \in Seq(Completed) /\ h \in Completed /\ h = calls[1]
    BY <2>1, HeadTailProperties
  <2> QED BY <2>1, <2>2, LenProperties, HeadTailProperties
<1>2. x \in Handlings
  <2>1. h \in [tool : STRING, task : Tasks, changes : Seq(Changes), parses : BOOLEAN, id : Int]
    BY <1>1 DEF Completed
  <2> HIDE DEF h
  <2> QED BY <2>1 DEF Handlings, ActionOf
<1>3. /\ calls' = Tail(calls) /\ results' = Append(results, x)
      /\ UNCHANGED <<phase, kind, provider, round, attempt, reply, messages, told, job,
                     answer, offered, past, repo>>
  BY DEF Handled
<1>4. x.id = h.id /\ x.verdict = verdict /\ x.action = ActionOf(h)
  OBVIOUS
<1> HIDE DEF h, x, n
<1>5. /\ results' \in Seq(Handlings) /\ DOMAIN results' = 1..(n + 1) /\ Len(results') = n + 1
      /\ results'[n + 1] = x /\ \A i \in 1..n : results'[i] = results[i]
  <2>1. results \in Seq(Handlings)
    BY DEF IInv, Typed
  <2> QED BY <1>2, <1>3, <2>1, AppendProperties, LenProperties DEF n
<1>6. Typed'
  BY <1>1, <1>3, <1>5 DEF IInv, Typed, TypeOK, job, past
<1>7. Control' /\ Accounted'
  BY <1>3 DEF IInv, Control, Accounted, job, past
<1>8. Chosen' /\ Exchange'
  BY <1>3 DEF IInv, Chosen, ChosenBy, Exchange, ResultsFollow, ResultsOf, job
<1>9. Told'
  <2>1. told' \subseteq ToSet(staged')
    BY <1>3 DEF IInv, Told
  <2>2. ASSUME NEW i \in 1..(n + 1), results'[i].verdict = "staged"
        PROVE  results'[i].action \in ToSet(staged')
    <3>1. CASE i \in 1..n
      BY <1>1, <1>5, <2>2, <3>1 DEF IInv, Told
    <3>2. CASE i = n + 1
      BY <1>4, <1>5, <2>2, <3>2 DEF h
    <3> QED BY <1>1, <3>1, <3>2
  <2> QED BY <1>5, <2>1, <2>2 DEF Told
<1>10. Round'
  <2>1. /\ messages # <<>> /\ messages[Len(messages)].calls # <<>>
        /\ n + Len(calls) = Len(Pending)
        /\ \A i \in 1..n : results[i].id = Pending[i].id
        /\ \A i \in 1..Len(calls) : calls[i] = Pending[n + i]
    BY <1>1 DEF IInv, Round, n
  <2>2. Pending' = Pending /\ messages' = messages
    BY <1>3 DEF Pending
  <2>3. Len(results') + Len(calls') = Len(Pending)
    BY <1>1, <1>3, <1>5, <2>1
  <2>4. \A i \in 1..(n + 1) : results'[i].id = Pending[i].id
    <3>1. results'[n + 1].id = Pending[n + 1].id
      BY <1>1, <1>4, <1>5, <2>1
    <3> QED BY <1>1, <1>5, <2>1, <3>1, SMTT(30)
  <2>5. \A i \in 1..(Len(calls) - 1) : calls'[i] = Pending[(n + 1) + i]
    <3> SUFFICES ASSUME NEW i \in 1..(Len(calls) - 1) PROVE calls'[i] = Pending[(n + 1) + i]
      OBVIOUS
    <3>1. calls[i + 1] = Pending[n + (i + 1)] /\ n + (i + 1) = (n + 1) + i
      BY <1>1, <2>1
    <3> QED BY <1>1, <1>3, <3>1
  <2> QED BY <1>1, <1>3, <1>5, <2>1, <2>2, <2>3, <2>4, <2>5 DEF Round
<1> QED BY <1>6, <1>7, <1>8, <1>9, <1>10 DEF IInv

LEMMA DuplicateKeeps == ASSUME IInv, Duplicate PROVE IInv'
<1> USE DEF Duplicate
<1> DEFINE h == Head(calls)
<1>1. ActionOf(h) \in ToSet(staged)
  <2>1. PICK i \in DOMAIN staged : DedupeKey(staged[i]) = DedupeKey(h)
    BY DEF IsStaged
  <2>2. staged[i] \in Actions
    BY ElementOfSeq DEF IInv, Typed
  <2> HIDE DEF h
  <2>3. staged[i] = [tool |-> staged[i].tool, task |-> staged[i].task,
                     changes |-> staged[i].changes]
    BY <2>2 DEF Actions
  <2>4. staged[i] = ActionOf(h)
    BY <2>1, <2>3 DEF DedupeKey, ActionOf
  <2> QED BY <2>4 DEF ToSet
<1>2. staged' \in Seq(Actions) /\ staged' = staged
  BY DEF IInv, Typed
<1> QED BY <1>1, <1>2, HandledKeeps

LEMMA StageKeeps == ASSUME IInv, Stage PROVE IInv'
<1> USE DEF Stage
<1> DEFINE h == Head(calls)
           a == ActionOf(h)
<1>1. a \in Actions
  <2>1. h \in Completed
    BY HeadTailProperties DEF IInv, Typed
  <2>2. h.parses
    BY DEF Stageable
  <2> HIDE DEF h
  <2>3. /\ a \in [tool : STRING, task : Tasks, changes : Seq(Changes)]
        /\ a.tool = h.tool /\ a.changes = h.changes
    BY <2>1 DEF ActionOf, Completed
  <2> HIDE DEF a
  <2> QED BY <2>1, <2>2, <2>3 DEF Completed, Actions, JoinsOne, JoinsNobody
<1>2. /\ staged' = Append(staged, a) /\ staged' \in Seq(Actions)
      /\ DOMAIN staged' = 1..(Len(staged) + 1) /\ DOMAIN staged = 1..Len(staged)
      /\ Len(staged) \in Nat /\ staged'[Len(staged) + 1] = a
      /\ \A i \in DOMAIN staged : staged'[i] = staged[i]
  <2>1. staged \in Seq(Actions) /\ staged' = Append(staged, a)
    BY DEF IInv, Typed
  <2> HIDE DEF a
  <2> QED BY <1>1, <2>1, AppendProperties, LenProperties
<1>3. ToSet(staged) \subseteq ToSet(staged') /\ a \in ToSet(staged')
  <2> HIDE DEF a
  <2> QED BY <1>2 DEF ToSet
<1> QED BY <1>2, <1>3, HandledKeeps

LEMMA OtherCallKeeps == ASSUME IInv, Reject \/ RunTool PROVE IInv'
<1>1. /\ phase = "calls" /\ calls # <<>> /\ staged' = staged /\ repo' = repo
      /\ Handled("error") \/ Handled("result")
  BY DEF Reject, RunTool, Executed, IsMutating
<1>2. staged' \in Seq(Actions)
  BY <1>1 DEF IInv, Typed
<1> QED BY <1>1, <1>2, HandledKeeps

-----------------------------------------------------------------------------
(* The exchange grows.                                                     *)

\* A message that answers calls.
Answering(role, ids) == [Text(role) EXCEPT !.ids = ids]

LEMMA WithIds ==
  ASSUME NEW role \in Roles, NEW ids \in Seq(Int)
  PROVE  /\ Answering(role, ids) \in Messages
         /\ Answering(role, ids).ids = ids /\ Answering(role, ids).calls = <<>>
<1>1. <<>> \in Seq(Calls)
  BY EmptySeq
<1>2. Answering(role, ids) = [role |-> role, calls |-> <<>>, ids |-> ids]
  BY DEF Answering, Text
<1> QED BY <1>1, <1>2 DEF Messages

LEMMA ResultsType ==
  ASSUME NEW cs \in Seq(Calls), Called(cs) # <<>>
  PROVE  /\ ResultsOf(cs) \in Seq(Messages) /\ Len(ResultsOf(cs)) \in Nat
         /\ Len(ResultsOf(cs)) >= 1 /\ DOMAIN ResultsOf(cs) = 1..Len(ResultsOf(cs))
         /\ \A k \in 1..Len(ResultsOf(cs)) :
              ResultsOf(cs)[k].ids # <<>> /\ ResultsOf(cs)[k].calls = <<>>
<1> DEFINE ids == Ids(Called(cs))
           n == Len(ids)
<1>1. ids \in Seq(Int) /\ ids # <<>>
  <2> DEFINE ds == Called(cs)
  <2>1. ds \in Seq(Completed) /\ ds # <<>>
    BY CalledAsExpected
  <2> HIDE DEF ds
  <2>2. Ids(ds) \in Seq(Int) /\ Len(Ids(ds)) = Len(ds)
    BY <2>1, IdsType
  <2>3. Len(ds) # 0
    BY <2>1, EmptySeq
  <2> QED BY <2>2, <2>3, EmptySeq DEF ds
<1> HIDE DEF ids
<1>2. n \in Nat /\ n >= 1 /\ DOMAIN ids = 1..n /\ \A i \in 1..n : ids[i] \in Int
  BY <1>1, LenProperties, ElementOfSeq, EmptySeq
<1> HIDE DEF n
<1>3. ASSUME NEW rs, NEW m \in Nat, m >= 1, rs \in [1..m -> Messages],
             \A k \in 1..m : rs[k].ids # <<>> /\ rs[k].calls = <<>>
      PROVE  /\ rs \in Seq(Messages) /\ Len(rs) \in Nat /\ Len(rs) >= 1 /\ DOMAIN rs = 1..Len(rs)
             /\ \A k \in 1..Len(rs) : rs[k].ids # <<>> /\ rs[k].calls = <<>>
  <2>1. rs \in Seq(Messages)
    BY <1>3, SeqDef
  <2>2. Len(rs) = m
    BY <1>3, <2>1, LenProperties
  <2> QED BY <1>3, <2>1, <2>2
<1>4. CASE provider = "anthropic"
  <2> DEFINE m == Answering("user", ids)
             rs == ResultsOf(cs)
  <2>1. m \in Messages /\ m.ids # <<>> /\ m.calls = <<>>
    BY <1>1, WithIds DEF Roles
  <2>2. rs = <<m>>
    BY <1>4 DEF ResultsOf, ResultMessages, AnthropicResults, Answering, ids
  <2> HIDE DEF m, rs
  <2>3. rs \in [1..1 -> Messages] /\ \A k \in 1..1 : rs[k].ids # <<>> /\ rs[k].calls = <<>>
    BY <2>1, <2>2
  <2>4. 1 \in Nat /\ 1 >= 1
    OBVIOUS
  <2> QED BY <1>3, <2>3, <2>4 DEF rs
<1>5. CASE provider # "anthropic"
  <2> DEFINE rs == ResultsOf(cs)
  <2>1. rs = [i \in 1..n |-> [Text("tool") EXCEPT !.ids = <<ids[i]>>]]
    BY <1>2, <1>5 DEF ResultsOf, ResultMessages, OpenaiResults, ids
  <2>2. ASSUME NEW i \in 1..n
        PROVE  rs[i] \in Messages /\ rs[i].ids # <<>> /\ rs[i].calls = <<>>
    <3> DEFINE s == <<ids[i]>>
               m == Answering("tool", s)
    <3>1. s \in Seq(Int) /\ s # <<>>
      BY <1>2, ShortSequences
    <3>2. rs[i] = m
      BY <2>1 DEF Answering
    <3> HIDE DEF s, rs
    <3>3. m \in Messages /\ m.ids = s /\ m.calls = <<>>
      BY <3>1, WithIds DEF Roles
    <3> QED BY <3>1, <3>2, <3>3
  <2>3. rs \in [1..n -> Messages]
    <3>1. \A i \in 1..n : rs[i] \in Messages
      BY <2>2
    <3> DEFINE f == [i \in 1..n |-> rs[i]]
    <3>2. f = rs
      BY <2>1
    <3> HIDE DEF rs
    <3>3. f \in [1..n -> Messages]
      BY <3>1
    <3> QED BY <3>2, <3>3
  <2> HIDE DEF rs
  <2> QED BY <1>2, <1>3, <2>2, <2>3 DEF rs
<1> QED BY <1>4, <1>5

\* A message that is not a result, after the results of earlier ones.
LEMMA FollowAppend ==
  ASSUME NEW ms \in Seq(Messages), NEW m \in Messages, m.ids = <<>>, NEW j \in DOMAIN ms,
         Called(ms[j].calls) # <<>>, ResultsFollow(ms, j)
  PROVE  ResultsFollow(Append(ms, m), j)
<1> DEFINE t == Append(ms, m)
           rs == ResultsOf(ms[j].calls)
           n == Len(rs)
           l == Len(ms)
<1>1. /\ l \in Nat /\ DOMAIN ms = 1..l /\ Len(t) = l + 1 /\ DOMAIN t = 1..(l + 1)
      /\ t[l + 1] = m /\ \A i \in 1..l : t[i] = ms[i]
  BY AppendProperties, LenProperties
<1>2. n \in Nat /\ n >= 1
  <2>1. ms[j].calls \in Seq(Calls)
    <3>1. ms[j] \in Messages
      BY ElementOfSeq
    <3> QED BY <3>1 DEF Messages
  <2> QED BY <2>1, ResultsType
<1>3. /\ j + n <= l /\ \A k \in 1..n : ms[j + k] = rs[k]
      /\ j + n + 1 \in DOMAIN ms => ms[j + n + 1].ids = <<>>
  BY DEF ResultsFollow
<1>4. t[j] = ms[j]
  BY <1>1
<1> HIDE DEF t, rs, n, l
<1>5. j + n <= Len(t)
  BY <1>1, <1>2, <1>3
<1>6. \A k \in 1..n : t[j + k] = rs[k]
  <2> SUFFICES ASSUME NEW k \in 1..n PROVE t[j + k] = rs[k]
    OBVIOUS
  <2>1. j + k \in 1..l
    BY <1>1, <1>2, <1>3
  <2> QED BY <1>1, <1>3, <2>1
<1>7. j + n + 1 \in DOMAIN t => t[j + n + 1].ids = <<>>
  <2> SUFFICES ASSUME j + n + 1 \in DOMAIN t PROVE t[j + n + 1].ids = <<>>
    OBVIOUS
  <2>1. CASE j + n = l
    BY <1>1, <2>1
  <2>2. CASE j + n # l
    <3>1. j + n + 1 \in 1..l
      BY <1>1, <1>2, <1>3, <2>2
    <3> QED BY <1>1, <1>3, <3>1
  <2> QED BY <2>1, <2>2
<1> QED BY <1>4, <1>5, <1>6, <1>7 DEF ResultsFollow, t, rs, n

\* The results of the last message leave those of earlier ones in place.
LEMMA FollowConcat ==
  ASSUME NEW ms \in Seq(Messages), NEW ns \in Seq(Messages), NEW j \in DOMAIN ms,
         Called(ms[j].calls) # <<>>, ResultsFollow(ms, j), ms[Len(ms)].ids = <<>>
  PROVE  ResultsFollow(ms \o ns, j)
<1> DEFINE t == ms \o ns
           rs == ResultsOf(ms[j].calls)
           n == Len(rs)
           l == Len(ms)
<1>1. /\ l \in Nat /\ DOMAIN ms = 1..l /\ Len(ns) \in Nat /\ Len(t) = l + Len(ns)
      /\ DOMAIN t = 1..Len(t) /\ \A i \in 1..l : t[i] = ms[i]
  BY ConcatProperties, LenProperties
<1>2. n \in Nat /\ n >= 1 /\ \A k \in 1..n : rs[k].ids # <<>>
  <2>1. ms[j].calls \in Seq(Calls)
    <3>1. ms[j] \in Messages
      BY ElementOfSeq
    <3> QED BY <3>1 DEF Messages
  <2> QED BY <2>1, ResultsType
<1>3. /\ j + n <= l /\ \A k \in 1..n : ms[j + k] = rs[k]
      /\ j + n + 1 \in DOMAIN ms => ms[j + n + 1].ids = <<>>
  BY DEF ResultsFollow
<1>4. t[j] = ms[j]
  BY <1>1
<1>5. ms[l].ids = <<>>
  OBVIOUS
<1> HIDE DEF t, rs, n, l
<1>6. j + n < l
  <2>1. n \in 1..n /\ rs[n].ids # <<>> /\ ms[j + n] = rs[n]
    BY <1>2, <1>3
  <2>2. j + n # l
    BY <1>5, <2>1
  <2> QED BY <1>1, <1>2, <1>3, <2>2
<1>7. \A k \in 1..n : t[j + k] = rs[k]
  <2> SUFFICES ASSUME NEW k \in 1..n PROVE t[j + k] = rs[k]
    OBVIOUS
  <2>1. j + k \in 1..l
    BY <1>1, <1>2, <1>3
  <2> QED BY <1>1, <1>3, <2>1
<1>8. t[j + n + 1].ids = <<>> /\ j + n <= Len(t)
  <2>1. j + n + 1 \in 1..l
    BY <1>1, <1>2, <1>6
  <2> QED BY <1>1, <1>2, <1>3, <1>6, <2>1
<1> QED BY <1>4, <1>7, <1>8 DEF ResultsFollow, t, rs, n

LEMMA CallsRequestedKeeps == ASSUME IInv, CallsRequested PROVE IInv'
<1> DEFINE cs == reply.calls
           m == [Text("assistant") EXCEPT !.calls = cs]
           n == Len(messages)
<1>0. /\ phase = "reply" /\ kind = "chat" /\ reply # NotJson /\ Called(cs) # <<>>
      /\ round < MaxRounds
      /\ phase' = "calls" /\ calls' = Called(cs) /\ results' = <<>>
      /\ messages' = Append(messages, m)
      /\ UNCHANGED <<repo, kind, provider, round, attempt, reply, staged, told,
                     sent, next, commands, ran, answer, offered, before, alone, count, acts>>
  BY DEF CallsRequested, Enter, job, past
<1>1. cs \in Seq(Calls) /\ Called(cs) # <<>> /\ Called(cs) \in Seq(Completed)
  <2>1. reply \in Replies
    BY <1>0 DEF IInv, Typed, TypeOK
  <2>2. cs \in Seq(Calls)
    BY <2>1, PipAssumption DEF Chats
  <2> HIDE DEF cs
  <2>3. Called(cs) \in Seq(Completed)
    BY <2>2, CalledAsExpected
  <2> QED BY <1>0, <2>2, <2>3 DEF cs
<1>2. cs # <<>>
  <2>1. Called(<<>>) = <<>>
    BY FlattenEmpty DEF Called
  <2> HIDE DEF cs
  <2> QED BY <1>1, <2>1
<1>3. calls' = Called(cs) /\ messages' = Append(messages, m)
  BY <1>0
<1> HIDE DEF cs
<1>4. m \in Messages /\ m.calls = cs /\ m.ids = <<>>
  <2>1. m = [role |-> "assistant", calls |-> cs, ids |-> <<>>]
    BY DEF Text
  <2>2. <<>> \in Seq(Int)
    BY EmptySeq
  <2> QED BY <1>1, <2>1, <2>2 DEF Messages, Roles
<1> HIDE DEF m
<1>5. /\ messages \in Seq(Messages) /\ n \in Nat /\ DOMAIN messages = 1..n
      /\ messages' \in Seq(Messages) /\ Len(messages') = n + 1 /\ DOMAIN messages' = 1..(n + 1)
      /\ messages'[n + 1] = m /\ \A i \in 1..n : messages'[i] = messages[i]
  <2>1. messages \in Seq(Messages)
    BY DEF IInv, Typed
  <2> QED BY <1>3, <1>4, <2>1, AppendProperties, LenProperties
<1>6. results' = <<>> /\ DOMAIN <<>> = {} /\ Len(<<>>) = 0 /\ <<>> \in Seq(Handlings)
  BY <1>0, EmptySeq
<1> HIDE DEF n
<1>7. Typed'
  <2>1. TypeOK'
    BY <1>0 DEF IInv, Typed, TypeOK, Phases
  <2> QED BY <1>0, <1>1, <1>5, <1>6, <2>1 DEF IInv, Typed
<1>8. Control' /\ Accounted'
  BY <1>0 DEF Control, Accounted
<1>9. Told'
  BY <1>0, <1>6 DEF IInv, Told
<1>10. Chosen'
  BY <1>0 DEF IInv, Chosen, ChosenBy
<1>11. Exchange'
  <2> SUFFICES ASSUME NEW j \in 1..(n + 1), messages'[j].calls # <<>>
               PROVE  /\ Called(messages'[j].calls) # <<>> /\ messages'[j].ids = <<>>
                      /\ j # n + 1 => ResultsFollow(messages, j)'
    BY <1>0, <1>5 DEF Exchange
  <2>1. CASE j = n + 1
    BY <1>1, <1>4, <1>5, <2>1
  <2>2. CASE j # n + 1
    <3>1. j \in 1..n /\ j \in DOMAIN messages /\ messages'[j] = messages[j]
      BY <1>5, <2>2
    <3>2. /\ Called(messages[j].calls) # <<>> /\ messages[j].ids = <<>>
          /\ ResultsFollow(messages, j)
      BY <1>0, <3>1 DEF IInv, Exchange
    <3>3. ResultsFollow(Append(messages, m), j)
      BY <1>4, <1>5, <3>1, <3>2, FollowAppend
    <3>4. ResultsFollow(messages, j)'
      BY <1>0, <3>3 DEF ResultsFollow, ResultsOf
    <3> QED BY <3>1, <3>2, <3>4
  <2> QED BY <2>1, <2>2
<1>12. Round'
  <2>1. Pending' = Called(cs) /\ messages'[Len(messages')].calls # <<>> /\ messages' # <<>>
    <3>1. messages'[Len(messages')] = m
      BY <1>5
    <3>2. messages' # <<>>
      BY <1>5
    <3> QED BY <1>2, <1>4, <3>1, <3>2 DEF Pending
  <2>2. \A i \in DOMAIN calls' : calls'[i] = Called(cs)[Len(results') + i]
    <3>1. \A i \in DOMAIN calls' : i \in Nat /\ 0 + i = i
      BY <1>1, <1>3, LenProperties
    <3> QED BY <1>3, <1>6, <3>1
  <2>3. Len(results') + Len(calls') = Len(Called(cs))
    BY <1>1, <1>3, <1>6, LenProperties
  <2> QED BY <1>6, <2>1, <2>2, <2>3 DEF Round
<1> QED BY <1>7, <1>8, <1>9, <1>10, <1>11, <1>12 DEF IInv

\* The round's results answer its calls, under their ids and in their order.
LEMMA FollowUpKeeps == ASSUME IInv, FollowUp PROVE IInv'
<1> DEFINE n == Len(messages)
           cs == messages[n].calls
           rs == ResultsOf(cs)
<1>0. /\ phase = "calls" /\ calls = <<>> /\ phase' = "post" /\ attempt' = 1
      /\ round' = round + 1
      /\ messages' = messages \o ResultMessages(provider, [i \in DOMAIN results |-> results[i].id])
      /\ told' = told \union {results[i].action : i \in {j \in DOMAIN results :
                                                         results[j].verdict = "staged"}}
      /\ UNCHANGED <<repo, kind, provider, reply, calls, results, staged,
                     sent, next, commands, ran, answer, offered, before, alone, count, acts>>
  BY DEF FollowUp, Enter, job, past
<1>1. messages \in Seq(Messages) /\ n \in Nat /\ DOMAIN messages = 1..n
  BY LenProperties DEF IInv, Typed
<1>2. /\ n >= 1 /\ cs # <<>> /\ Called(cs) # <<>> /\ messages[n].ids = <<>>
      /\ Len(results) = Len(Called(cs))
      /\ \A i \in DOMAIN results : results[i].id = Called(cs)[i].id
  <2>1. messages # <<>> /\ cs # <<>>
    BY <1>0 DEF IInv, Round
  <2>2. n >= 1 /\ n \in DOMAIN messages
    BY <1>1, <2>1, EmptySeq
  <2>3. Called(cs) # <<>> /\ messages[n].ids = <<>>
    BY <2>1, <2>2 DEF IInv, Exchange
  <2>4. Len(calls) = 0 /\ Len(results) \in Nat
    BY <1>0, LenProperties, EmptySeq DEF IInv, Typed
  <2>5. /\ Len(results) + Len(calls) = Len(Called(cs))
        /\ \A i \in DOMAIN results : results[i].id = Called(cs)[i].id
    BY <1>0 DEF IInv, Round, Pending
  <2> QED BY <2>1, <2>2, <2>3, <2>4, <2>5
<1>3. cs \in Seq(Calls) /\ Called(cs) \in Seq(Completed)
  <2>1. messages[n] \in Messages
    BY <1>1, <1>2, ElementOfSeq
  <2>2. cs \in Seq(Calls)
    BY <2>1 DEF Messages
  <2> HIDE DEF cs
  <2> QED BY <2>2, CalledAsExpected
<1> HIDE DEF cs
<1>4. messages' = messages \o rs
  <2>1. [i \in DOMAIN results |-> results[i].id] = Ids(Called(cs))
    <3>1. DOMAIN results = 1..Len(results) /\ DOMAIN Called(cs) = 1..Len(Called(cs))
      BY <1>3, LenProperties DEF IInv, Typed
    <3> QED BY <1>2, <3>1 DEF Ids
  <2> QED BY <1>0, <2>1 DEF ResultsOf
<1>5. /\ rs \in Seq(Messages) /\ Len(rs) \in Nat /\ Len(rs) >= 1
      /\ \A k \in 1..Len(rs) : rs[k].calls = <<>>
  BY <1>2, <1>3, ResultsType
<1>6. /\ messages' \in Seq(Messages) /\ Len(messages') = n + Len(rs)
      /\ DOMAIN messages' = 1..(n + Len(rs)) /\ \A i \in 1..n : messages'[i] = messages[i]
      /\ \A k \in 1..Len(rs) : messages'[n + k] = rs[k]
  <2> HIDE DEF rs
  <2>1. \A i \in (n + 1)..(n + Len(rs)) : messages'[i] = rs[i - n]
    BY <1>1, <1>4, <1>5, ConcatProperties
  <2>2. \A k \in 1..Len(rs) : n + k \in (n + 1)..(n + Len(rs)) /\ (n + k) - n = k
    BY <1>1, <1>5
  <2>3. messages' \in Seq(Messages) /\ Len(messages') = n + Len(rs)
    BY <1>1, <1>4, <1>5, ConcatProperties
  <2>4. DOMAIN messages' = 1..(n + Len(rs))
    BY <2>3, LenProperties
  <2>5. \A i \in 1..n : messages'[i] = messages[i]
    BY <1>1, <1>4, <1>5, ConcatProperties
  <2>6. \A k \in 1..Len(rs) : messages'[n + k] = rs[k]
    <3> SUFFICES ASSUME NEW k \in 1..Len(rs) PROVE messages'[n + k] = rs[k]
      OBVIOUS
    <3> QED BY <2>1, <2>2
  <2> QED BY <2>3, <2>4, <2>5, <2>6
<1>7. Typed'
  <2>1. attempt' \in 0..MaxAttempts /\ round' \in 0..MaxRounds
    BY <1>0, PipAssumption DEF IInv, Control, Typed, TypeOK
  <2>2. TypeOK'
    BY <1>0, <2>1 DEF IInv, Typed, TypeOK, Phases
  <2> QED BY <1>0, <1>6, <2>2 DEF IInv, Typed
<1>8. Control' /\ Accounted' /\ Round'
  BY <1>0 DEF Control, Accounted, Round
<1>9. Told'
  <2>1. UNCHANGED <<staged, results>>
    BY <1>0
  <2>2. told' \subseteq ToSet(staged)
    BY <1>0 DEF IInv, Told
  <2> QED BY <2>1, <2>2 DEF IInv, Told
<1>10. Chosen'
  BY <1>0 DEF IInv, Chosen, ChosenBy
<1>11. Exchange'
  <2> SUFFICES ASSUME NEW j \in 1..(n + Len(rs)), messages'[j].calls # <<>>
               PROVE  /\ Called(messages'[j].calls) # <<>> /\ messages'[j].ids = <<>>
                      /\ ResultsFollow(messages, j)'
    BY <1>0, <1>6 DEF Exchange
  <2>1. j \in 1..n
    <3> SUFFICES ASSUME j \notin 1..n PROVE FALSE
      OBVIOUS
    <3>1. j - n \in 1..Len(rs) /\ n + (j - n) = j
      BY <1>1, <1>5
    <3>2. messages'[j].calls = <<>>
      BY <1>5, <1>6, <3>1
    <3> QED BY <3>2
  <2>2. /\ messages'[j] = messages[j] /\ Called(messages[j].calls) # <<>>
        /\ messages[j].ids = <<>> /\ j \in DOMAIN messages
    BY <1>1, <1>6, <2>1 DEF IInv, Exchange
  <2>3. ResultsFollow(messages \o rs, j)
    <3>1. CASE j = n
      <4>1. messages'[j].calls = cs
        BY <2>2, <3>1 DEF cs
      <4>2. n + Len(rs) + 1 \notin DOMAIN messages'
        <5>1. n + Len(rs) + 1 > n + Len(rs)
          BY <1>1, <1>5
        <5> QED BY <1>1, <1>5, <1>6, <5>1
      <4>3. /\ n + Len(rs) <= Len(messages')
            /\ \A k \in 1..Len(rs) : messages'[n + k] = rs[k]
        BY <1>1, <1>5, <1>6
      <4> QED BY <1>4, <3>1, <4>1, <4>2, <4>3 DEF ResultsFollow
    <3>2. CASE j # n
      <4>1. ResultsFollow(messages, j)
        BY <2>2, <3>2 DEF IInv, Exchange
      <4> HIDE DEF rs
      <4> QED BY <1>1, <1>2, <1>5, <2>2, <4>1, FollowConcat
    <3> QED BY <3>1, <3>2
  <2>4. ResultsFollow(messages, j)'
    BY <1>0, <1>4, <2>3 DEF ResultsFollow, ResultsOf
  <2> QED BY <2>2, <2>4
<1> QED BY <1>7, <1>8, <1>9, <1>10, <1>11 DEF IInv

\* Applying touches nothing of a chat.
LEMMA ApplyFrame ==
  ASSUME IInv, phase \in {"actions", "batch"}, phase' \in {"actions", "batch"},
         UNCHANGED <<kind, chat>>
  PROVE  Control' /\ Told' /\ Exchange' /\ Round'
<1> USE DEF chat
<1>1. Control' /\ Round'
  BY DEF IInv, Control, Round
<1>2. Told'
  BY DEF IInv, Told
<1>3. Exchange'
  BY DEF IInv, Exchange, ResultsFollow, ResultsOf
<1> QED BY <1>1, <1>2, <1>3

LEMMA LookingAt ==
  ASSUME IInv, Looking
  PROVE  /\ next \in 1..Len(sent) /\ next + 1 \in 1..(Len(sent) + 1) /\ next \in DOMAIN sent
         /\ sent \in Seq(Selections) /\ Current \in Selections /\ Current.action \in Actions
         /\ Current.selected \in BOOLEAN
         /\ Current.action.task \in Tasks /\ Current.action.changes \in Seq(Changes)
         /\ Before(sent, next + 1) = Before(sent, next) \o Taken(Current)
         /\ Before(sent, next) \in Seq(Asked) /\ Taken(Current) \in Seq(Asked)
<1>1. /\ sent \in Seq(Selections) /\ Len(sent) \in Nat /\ DOMAIN sent = 1..Len(sent)
      /\ next \in 1..(Len(sent) + 1) /\ next <= Len(sent)
  BY LenProperties DEF IInv, Typed, TypeOK, Looking
<1>2. next \in 1..Len(sent) /\ next + 1 \in 1..(Len(sent) + 1) /\ next \in DOMAIN sent
  BY <1>1
<1>3. Current \in Selections
  BY <1>1, <1>2, ElementOfSeq DEF Current
<1>4. Current.action \in Actions /\ Current.selected \in BOOLEAN
  BY <1>3 DEF Selections
<1>5. /\ Taken(Current) \in Seq(Asked)
      /\ Current.action.task \in Tasks /\ Current.action.changes \in Seq(Changes)
  BY <1>3, TakenType
<1>6. /\ Before(sent, next + 1) = Before(sent, next) \o Taken(Current)
      /\ Before(sent, next) \in Seq(Asked)
  BY <1>1, <1>2, BeforeNext DEF Current
<1> QED BY <1>1, <1>2, <1>3, <1>4, <1>5, <1>6

LEMMA SkipActionKeeps == ASSUME IInv, SkipAction PROVE IInv'
<1>0. /\ Looking /\ ~Current.selected /\ next' = next + 1 /\ phase = "actions"
      /\ UNCHANGED <<repo, phase, kind, chat, sent, commands, ran, answer, offered, past>>
  BY DEF SkipAction, Looking
<1>1. Control' /\ Told' /\ Exchange' /\ Round'
  BY <1>0, ApplyFrame
<1>2. Typed'
  BY <1>0, LookingAt DEF IInv, Typed, TypeOK, chat, past
<1>3. Chosen'
  BY <1>0 DEF IInv, Chosen, ChosenBy
<1>4. Accounted'
  <2>1. Before(sent, next + 1) = Before(sent, next)
    <3>1. Taken(Current) = <<>> /\ Before(sent, next) \in Seq(Asked)
      BY <1>0, LookingAt DEF Taken
    <3> QED BY <1>0, <3>1, LookingAt, ConcatEmptySeq
  <2> QED BY <1>0, <2>1 DEF IInv, Accounted, past
<1> QED BY <1>1, <1>2, <1>3, <1>4 DEF IInv

LEMMA AddTeamMemberKeeps == ASSUME IInv, AddTeamMember PROVE IInv'
<1> DEFINE a == Current.action
<1>0. /\ Looking /\ Current.selected /\ a.tool = "add_team_member"
      /\ repo' = Changed(repo, a.task, a.changes[1])
      /\ next' = next + 1 /\ phase = "actions"
      /\ UNCHANGED <<phase, kind, chat, sent, commands, answer, offered, past>>
  BY DEF AddTeamMember, Looking
<1>1. PICK m \in Members : a.changes = <<<<"join", m>>>>
  <2>1. a \in Actions
    BY <1>0, LookingAt
  <2> HIDE DEF a
  <2> QED BY <1>0, <2>1 DEF Actions, JoinsOne
<1>2. a.task \in Tasks /\ a.changes \in Seq(Changes)
  BY <1>0, LookingAt
<1> HIDE DEF a
<1>3. \A q : Changed(q, a.task, a.changes[1]) = Joined(q, m)
  BY <1>1 DEF Changed
<1>4. \A q : Outcome(q, Steps(a)) = Joined(q, m)
  <2> SUFFICES ASSUME NEW q PROVE Outcome(q, Steps(a)) = Joined(q, m)
    OBVIOUS
  <2> DEFINE c == [task |-> a.task, change |-> a.changes[1]]
             e == <<>>
             s == Steps(a)
  <2>1. s = Append(e, c)
    BY <1>1 DEF Steps
  <2>2. e \in Seq(Asked) /\ c \in Asked
    <3>1. a.changes[1] \in Changes
      BY <1>1, <1>2, ElementOfSeq
    <3> QED BY <1>2, <3>1, EmptySeq DEF Asked
  <2>3. Outcome(q, e) = q
    BY OutcomeEmpty
  <2>4. Changed(q, c.task, c.change) = Joined(q, m)
    BY <1>3
  <2> HIDE DEF c, e, s
  <2>5. Outcome(q, Append(e, c)) = Changed(Outcome(q, e), c.task, c.change)
    BY <2>2, OutcomeAppend
  <2>6. Outcome(q, s) = Joined(q, m)
    BY <2>1, <2>3, <2>4, <2>5
  <2> QED BY <2>6 DEF s
<1>5. repo' = Joined(repo, m) /\ repo' \in Repositories
  BY <1>0, <1>3, JoinedTyped DEF IInv, Typed, TypeOK
<1>6. Control' /\ Told' /\ Exchange' /\ Round'
  BY <1>0, ApplyFrame
<1>7. Typed'
  BY <1>0, <1>5, LookingAt DEF IInv, Typed, TypeOK, chat, past
<1>8. Chosen'
  BY <1>0 DEF IInv, Chosen, ChosenBy
<1>9. Accounted'
  <2> SUFFICES ASSUME alone
               PROVE  Outcome(Joined(repo, m), commands) = Outcome(before, Before(sent, next + 1))
    BY <1>0, <1>5 DEF Accounted, past
  <2>1. Outcome(Joined(repo, m), commands) = Joined(Outcome(repo, commands), m)
    <3>1. commands \in Seq(Orders) /\ Shaped(repo)
      BY RepositoryShaped DEF IInv, Typed, TypeOK
    <3> QED BY <3>1, JoinedOutcome
  <2>2. Outcome(repo, commands) = Outcome(before, Before(sent, next))
    BY <1>0 DEF IInv, Accounted
  <2> DEFINE b == Before(sent, next)
             s == Steps(a)
  <2>3. b \in Seq(Asked) /\ s \in Seq(Asked) /\ Before(sent, next + 1) = b \o s
    BY <1>0, LookingAt DEF Taken, a
  <2> HIDE DEF b, s
  <2>4. Outcome(before, b \o s) = Outcome(Outcome(before, b), s)
    BY <2>3, OutcomeConcat
  <2>5. Outcome(Outcome(before, b), s) = Joined(Outcome(before, b), m)
    BY <1>4 DEF s
  <2> QED BY <2>1, <2>2, <2>3, <2>4, <2>5 DEF b
<1> QED BY <1>6, <1>7, <1>8, <1>9 DEF IInv

LEMMA CollectKeeps == ASSUME IInv, Collect PROVE IInv'
<1> DEFINE a == Current.action
           cs == Commands(a)
           n == Len(commands)
<1>0. /\ Looking /\ Current.selected /\ a.tool # "add_team_member" /\ AssigneesKnown(repo, a)
      /\ commands' = commands \o cs /\ next' = next + 1 /\ phase = "actions"
      /\ UNCHANGED <<repo, phase, kind, chat, sent, answer, offered, past>>
  BY DEF Collect, Looking, Applicable
<1>1. /\ a \in Actions /\ a.task \in Tasks /\ a.changes \in Seq(Changes)
      /\ next \in DOMAIN sent /\ sent[next].action = a
  BY <1>0, LookingAt DEF Current
<1> HIDE DEF a
<1>2. /\ cs \in Seq(Orders)
      /\ \A k \in DOMAIN cs : \/ cs[k].change = Read
                              \/ \E j \in DOMAIN a.changes :
                                   cs[k] = [task |-> a.task, change |-> a.changes[j]]
  <2>1. repo \in Repositories
    BY DEF IInv, Typed, TypeOK
  <2> QED BY <1>0, <1>1, <2>1, CommandsType
<1>3. \A q : Outcome(q, cs) = Outcome(q, Steps(a))
  BY <1>1, CommandsMean
<1> HIDE DEF cs
<1>4. /\ commands \in Seq(Orders) /\ commands' \in Seq(Orders) /\ n \in Nat
      /\ DOMAIN commands = 1..n /\ Len(cs) \in Nat /\ DOMAIN cs = 1..Len(cs)
      /\ DOMAIN commands' = 1..(n + Len(cs))
      /\ \A i \in 1..n : commands'[i] = commands[i]
      /\ \A i \in (n + 1)..(n + Len(cs)) : commands'[i] = cs[i - n]
  <2>1. commands \in Seq(Orders)
    BY DEF IInv, Typed
  <2>2. commands \o cs \in Seq(Orders) /\ Len(commands \o cs) = n + Len(cs)
    BY <1>2, <2>1, ConcatProperties
  <2>3. /\ \A i \in 1..n : (commands \o cs)[i] = commands[i]
        /\ \A i \in (n + 1)..(n + Len(cs)) : (commands \o cs)[i] = cs[i - n]
    BY <1>2, <2>1, ConcatProperties
  <2> QED BY <1>0, <1>2, <2>1, <2>2, <2>3, LenProperties
<1> HIDE DEF n
<1>5. Control' /\ Told' /\ Exchange' /\ Round'
  BY <1>0, ApplyFrame
<1>6. Typed'
  <2>1. next' \in 1..(Len(sent) + 1) /\ sent' = sent
    BY <1>0, LookingAt, LenProperties DEF IInv, Typed, TypeOK
  <2>2. TypeOK'
    BY <1>0, <2>1 DEF IInv, Typed, TypeOK, chat, past
  <2> QED BY <1>0, <1>4, <2>2 DEF IInv, Typed, chat
<1>7. Chosen'
  <2>1. sent' = sent /\ offered' = offered
    BY <1>0
  <2>2. ASSUME NEW k \in 1..(n + Len(cs))
        PROVE  \/ commands'[k].change = Read
               \/ \E i \in DOMAIN sent : ChosenBy(sent[i], commands'[k])
    <3>1. CASE k \in 1..n
      BY <1>4, <3>1 DEF IInv, Chosen
    <3>2. CASE k \notin 1..n
      <4>1. k \in (n + 1)..(n + Len(cs)) /\ k - n \in DOMAIN cs
        BY <1>4, <3>2
      <4>2. commands'[k] = cs[k - n]
        BY <1>4, <4>1
      <4>3. CASE \E j \in DOMAIN a.changes : cs[k - n] = [task |-> a.task, change |-> a.changes[j]]
        <5>1. ChosenBy(sent[next], cs[k - n])
          <6>1. sent[next].selected
            BY <1>0 DEF Current
          <6> QED BY <1>1, <4>3, <6>1 DEF ChosenBy
        <5> QED BY <1>1, <4>2, <5>1
      <4>4. CASE cs[k - n].change = Read
        BY <4>2, <4>4
      <4> QED BY <1>2, <4>1, <4>3, <4>4
    <3> QED BY <3>1, <3>2
  <2> QED BY <1>4, <2>1, <2>2 DEF IInv, Chosen
<1>8. Accounted'
  <2> SUFFICES ASSUME alone
               PROVE  Outcome(repo, commands \o cs) = Outcome(before, Before(sent, next + 1))
    BY <1>0 DEF Accounted, past
  <2> DEFINE b == Before(sent, next)
             s == Steps(a)
             q == Outcome(before, b)
  <2>1. Outcome(repo, commands) = q
    BY <1>0 DEF IInv, Accounted
  <2>2. b \in Seq(Asked) /\ s \in Seq(Asked) /\ Before(sent, next + 1) = b \o s
    BY <1>0, LookingAt DEF Taken, a
  <2>3. Outcome(repo, commands \o cs) = Outcome(Outcome(repo, commands), cs)
    BY <1>2, <1>4, OutcomeConcat
  <2> HIDE DEF b, s
  <2>4. Outcome(before, b \o s) = Outcome(q, s)
    BY <2>2, OutcomeConcat
  <2> HIDE DEF q
  <2>5. Outcome(q, cs) = Outcome(q, s)
    BY <1>3 DEF s
  <2> QED BY <2>1, <2>2, <2>3, <2>4, <2>5
<1> QED BY <1>5, <1>6, <1>7, <1>8 DEF IInv

\* All actions were looked at, and the batch begins.
LEMMA BatchBegins ==
  ASSUME IInv, phase = "actions", next > Len(sent), phase' = "batch",
         UNCHANGED <<repo, kind, chat, answer, offered, job, past>>
  PROVE  IInv'
<1>1. Control' /\ Told' /\ Exchange' /\ Round'
  BY ApplyFrame
<1>2. Typed'
  BY DEF IInv, Typed, TypeOK, Phases, chat, job, past
<1>3. Chosen'
  BY DEF IInv, Chosen, ChosenBy, job
<1>4. sent \in Seq(Selections) /\ next = Len(sent) + 1
  BY LenProperties DEF IInv, Typed, TypeOK
<1>5. Accounted'
  <2>1. Before(sent, next) = Meant(sent)
    BY <1>4, BeforeEnds
  <2> QED BY <2>1 DEF IInv, Accounted, Intended, job, past
<1> QED BY <1>1, <1>2, <1>3, <1>5 DEF IInv

LEMMA RunCommandKeeps == ASSUME IInv, RunCommand PROVE IInv'
<1> DEFINE h == Head(commands)
<1>0. /\ phase = "batch" /\ commands # <<>> /\ Accepts(repo, h.task, h.change)
      /\ repo' = Changed(repo, h.task, h.change) /\ commands' = Tail(commands)
      /\ UNCHANGED <<phase, kind, chat, sent, next, answer, offered, past>>
  BY DEF RunCommand
<1>1. /\ commands \in Seq(Orders) /\ h \in Orders /\ commands' \in Seq(Orders)
      /\ DOMAIN commands = 1..Len(commands) /\ Len(commands) \in Nat
      /\ DOMAIN commands' = 1..(Len(commands) - 1)
      /\ \A i \in 1..(Len(commands) - 1) : commands'[i] = commands[i + 1]
  <2>1. commands \in Seq(Orders)
    BY DEF IInv, Typed
  <2>2. /\ h \in Orders /\ Tail(commands) \in Seq(Orders)
        /\ Len(Tail(commands)) = Len(commands) - 1
        /\ \A i \in 1..(Len(commands) - 1) : Tail(commands)[i] = commands[i + 1]
    BY <1>0, <2>1, HeadTailProperties
  <2> QED BY <1>0, <2>1, <2>2, LenProperties
<1>2. Outcome(repo, commands) = Outcome(repo', commands')
  BY <1>0, <1>1, OutcomeHead
<1> HIDE DEF h
<1>3. repo' \in Repositories
  BY <1>0, <1>1, ChangedTyped DEF IInv, Typed, TypeOK
<1>4. Control' /\ Told' /\ Exchange' /\ Round'
  BY <1>0, ApplyFrame
<1>5. Typed'
  BY <1>0, <1>1, <1>3 DEF IInv, Typed, TypeOK, chat, past
<1>6. Chosen'
  <2>1. ASSUME NEW k \in 1..(Len(commands) - 1)
        PROVE  \/ commands'[k].change = Read
               \/ \E i \in DOMAIN sent : ChosenBy(sent[i], commands'[k])
    <3>1. k + 1 \in DOMAIN commands /\ commands'[k] = commands[k + 1]
      BY <1>1
    <3> QED BY <3>1 DEF IInv, Chosen
  <2> QED BY <1>0, <1>1, <2>1 DEF IInv, Chosen
<1>7. Accounted'
  BY <1>0, <1>2 DEF IInv, Accounted, past
<1> QED BY <1>4, <1>5, <1>6, <1>7 DEF IInv

LEMMA OthersChangeKeeps == ASSUME IInv, OthersChange PROVE IInv'
<1>0. /\ acts < MaxActs /\ acts' = acts + 1 /\ alone' = FALSE
      /\ UNCHANGED <<phase, kind, chat, sent, next, commands, answer, offered, before, count>>
  BY DEF OthersChange, job
<1>1. repo' \in Repositories
  <2>1. repo \in Repositories
    BY DEF IInv, Typed, TypeOK
  <2>2. \/ \E t \in Tasks, s \in Statuses \union {Gone} : repo' = [repo EXCEPT !.status[t] = s]
        \/ \E m \in SUBSET Members : repo' = [repo EXCEPT !.team = m]
    BY DEF OthersChange
  <2>3. CASE \E t \in Tasks, s \in Statuses \union {Gone} : repo' = [repo EXCEPT !.status[t] = s]
    BY <2>1, <2>3 DEF Repositories
  <2>4. CASE \E m \in SUBSET Members : repo' = [repo EXCEPT !.team = m]
    BY <2>1, <2>4 DEF Repositories
  <2> QED BY <2>2, <2>3, <2>4
<1>2. Typed'
  <2>1. acts' \in 0..MaxActs
    BY <1>0, PipAssumption DEF IInv, Typed, TypeOK
  <2>2. alone' \in BOOLEAN
    BY <1>0
  <2>3. answer'.code \in {0, 200, 400, 404, 500, 502} /\ next' \in 1..(Len(sent') + 1)
    BY <1>0 DEF IInv, Typed, TypeOK
  <2>4. TypeOK'
    BY <1>0, <1>1, <2>1, <2>2, <2>3 DEF IInv, Typed, TypeOK, chat
  <2> QED BY <1>0, <2>4 DEF IInv, Typed, chat
<1>3. Control' /\ Accounted' /\ Round' /\ Told'
  BY <1>0 DEF IInv, Control, Accounted, Round, Told, Pending, chat
<1>4. Chosen' /\ Exchange'
  BY <1>0 DEF IInv, Chosen, ChosenBy, Exchange, ResultsFollow, ResultsOf, chat
<1> QED BY <1>2, <1>3, <1>4 DEF IInv

LEMMA StutterKeeps == ASSUME IInv, UNCHANGED vars PROVE IInv'
<1> USE DEF vars, chat, job, past
<1>1. Typed'
  BY DEF IInv, Typed, TypeOK
<1>2. Control' /\ Accounted' /\ Round' /\ Told'
  BY DEF IInv, Control, Accounted, Round, Told, Pending
<1>3. Chosen' /\ Exchange'
  BY DEF IInv, Chosen, ChosenBy, Exchange, ResultsFollow, ResultsOf
<1> QED BY <1>1, <1>2, <1>3 DEF IInv

-----------------------------------------------------------------------------
(* Every step.                                                             *)

\* The steps of a chat turn that answer the page, and with what.
TurnAnswers ==
  \E k \in Kinds, code \in {200, 400, 500, 502}, actions \in {staged, <<>>} :
    /\ Answer(k, code, actions) /\ UNCHANGED <<repo, job, past>>
    /\ phase \in {"context", "post", "reply", "final"}
    /\ code = 200 => kind # "apply" /\ (kind \in {"chat", "repair"} => actions = staged)

LEMMA TurnAnswerSteps ==
  ASSUME IInv,
         \/ ContextFails \/ PostFails \/ ReplyUnreadable \/ LimitReached
         \/ Finish \/ NothingToRepair \/ Repaired \/ Summarized
  PROVE  TurnAnswers
<1>1. CASE ContextFails
  BY <1>1 DEF ContextFails, TurnAnswers, Kinds
<1>2. CASE PostFails
  <2>1. kind \in Kinds
    BY DEF IInv, Typed, TypeOK
  <2>2. CASE kind = "repair"
    BY <1>2, <2>2 DEF PostFails, TurnAnswers, Kinds
  <2>3. CASE kind # "repair"
    BY <1>2, <2>1, <2>3 DEF PostFails, TurnAnswers
  <2> QED BY <2>2, <2>3
<1>3. CASE ReplyUnreadable
  BY <1>3 DEF ReplyUnreadable, TurnAnswers, Kinds
<1>4. CASE LimitReached
  <2>1. CASE staged = <<>>
    BY <1>4, <2>1 DEF LimitReached, TurnAnswers, Kinds
  <2>2. CASE staged # <<>>
    BY <1>4, <2>2 DEF LimitReached, TurnAnswers, Kinds
  <2> QED BY <2>1, <2>2
<1>5. CASE Finish
  <2>1. kind = "chat"
    BY <1>5 DEF Finish, IInv, Control
  <2> QED BY <1>5, <2>1 DEF Finish, TurnAnswers, Kinds
<1>6. CASE NothingToRepair
  BY <1>6 DEF NothingToRepair, TurnAnswers, Kinds
<1>7. CASE Repaired
  BY <1>7 DEF Repaired, TurnAnswers, Kinds
<1>8. CASE Summarized
  <2>1. CASE reply # NotJson /\ reply.text # "none"
    BY <1>8, <2>1 DEF Summarized, TurnAnswers, Kinds
  <2>2. CASE ~(reply # NotJson /\ reply.text # "none")
    BY <1>8, <2>2 DEF Summarized, TurnAnswers, Kinds
  <2> QED BY <2>1, <2>2
<1> QED BY <1>1, <1>2, <1>3, <1>4, <1>5, <1>6, <1>7, <1>8

\* Those of apply-actions.
ApplyAnswers ==
  \E code \in {200, 400} :
    /\ Answer("apply", code, <<>>) /\ UNCHANGED <<repo, job, past>>
    /\ phase \in {"actions", "batch"}
    /\ code = 200 => commands = <<>> /\ (phase = "actions" => next > Len(sent))

LEMMA ApplyAnswerSteps ==
  ASSUME \/ ActionThrows \/ CommandFails \/ BatchEnds
         \/ LoopEnds /\ phase' # "batch"
  PROVE  ApplyAnswers
<1>1. CASE ActionThrows
  BY <1>1 DEF ActionThrows, Looking, ApplyAnswers
<1>2. CASE CommandFails
  BY <1>2 DEF CommandFails, ApplyAnswers
<1>3. CASE BatchEnds
  BY <1>3 DEF BatchEnds, ApplyAnswers
<1>4. CASE LoopEnds /\ phase' # "batch"
  <2>1. CASE \A i \in DOMAIN sent : ~sent[i].selected
    BY <1>4, <2>1 DEF LoopEnds, ApplyAnswers
  <2>2. CASE ~\A i \in DOMAIN sent : ~sent[i].selected
    BY <1>4, <2>2 DEF LoopEnds, ApplyAnswers, Enter
  <2> QED BY <2>1, <2>2
<1> QED BY <1>1, <1>2, <1>3, <1>4

LEMMA AnswersKeep == ASSUME IInv, TurnAnswers \/ ApplyAnswers PROVE IInv'
<1>1. staged \in Seq(Actions) /\ <<>> \in Seq(Actions)
  BY EmptySeq DEF IInv, Typed
<1>2. CASE TurnAnswers
  <2>1. PICK k \in Kinds, code \in {200, 400, 500, 502}, actions \in {staged, <<>>} :
          Answer(k, code, actions) /\ UNCHANGED <<repo, job, past>>
    BY <1>2 DEF TurnAnswers
  <2>2. actions = staged \/ actions = <<>>
    OBVIOUS
  <2>4. actions \in Seq(Actions)
    <3>1. CASE actions = staged
      BY <1>1, <3>1, Zenon
    <3>2. CASE actions = <<>>
      BY <1>1, <3>2, EmptySeq
    <3> QED BY <2>2, <3>1, <3>2
  <2>3. code \in {200, 400, 500, 502} /\ k \in Kinds
    OBVIOUS
  <2> QED BY <2>1, <2>3, <2>4, AnswerKeeps, SMTT(30)
<1>3. CASE ApplyAnswers
  <2>1. PICK code \in {200, 400} : Answer("apply", code, <<>>) /\ UNCHANGED <<repo, job, past>>
    BY <1>3 DEF ApplyAnswers
  <2> DEFINE none == <<>>
  <2>2. "apply" \in Kinds /\ code \in {200, 400, 500, 502} /\ none \in Seq(Actions)
    BY <1>1 DEF Kinds
  <2>3. Answer("apply", code, none) /\ UNCHANGED <<repo, job, past>>
    BY <2>1
  <2> HIDE DEF none
  <2> QED BY <2>2, <2>3, AnswerKeeps
<1> QED BY <1>2, <1>3

LEMMA MovesKeep ==
  ASSUME IInv, \/ BuildContext \/ (\E r \in Replies \union {NotJson} : PostSucceeds(r))
               \/ PostRetries \/ NoMoreCalls \/ Repair
  PROVE  IInv'
<1>1. /\ kind \in Kinds /\ attempt \in 0..MaxAttempts /\ reply \in Replies \union {NotJson}
      /\ MaxAttempts \in Nat /\ 1 \in 0..MaxAttempts
  BY PipAssumption DEF IInv, Typed, TypeOK
<1>2. CASE BuildContext
  BY <1>1, <1>2, MoveKeeps DEF BuildContext, Enter, chat
<1>3. CASE \E r \in Replies \union {NotJson} : PostSucceeds(r)
  BY <1>1, <1>3, MoveKeeps DEF PostSucceeds, Enter
<1>4. CASE PostRetries
  <2>1. attempt' \in 0..MaxAttempts
    BY <1>1, <1>4 DEF PostRetries
  <2> QED BY <1>1, <1>4, <2>1, MoveKeeps DEF PostRetries
<1>5. CASE NoMoreCalls
  BY <1>1, <1>5, MoveKeeps DEF NoMoreCalls, Enter, chat
<1>6. CASE Repair
  BY <1>1, <1>6, MoveKeeps DEF Repair, Enter, Kinds
<1> QED BY <1>2, <1>3, <1>4, <1>5, <1>6

LEMMA ModelRequestKeeps ==
  ASSUME IInv, NEW k \in {"chat", "summarize"}, NEW q, NEW first \in {"context", "post"},
         ModelRequest(k, q, first)
  PROVE  IInv'
<1> DEFINE none == <<>>
<1>1. /\ Arrive(k, "model") /\ ClearJob(none) /\ phase = "idle" /\ k \in Kinds
      /\ none \in Seq(Selections) /\ DOMAIN none = {}
  BY EmptySeq DEF ModelRequest, Arrive, Kinds
<1>2. provider \in Providers \union {"none"} /\ attempt \in 0..MaxAttempts /\ 1 \in 0..MaxAttempts
  BY PipAssumption DEF IInv, Typed, TypeOK
<1> HIDE DEF none
<1>3. CASE Verdict(q) = 200
  <2>1. /\ phase' \in {"idle", "context", "post", "actions"} /\ phase' # "actions"
        /\ provider' \in Providers \union {"none"} /\ attempt' \in 0..MaxAttempts
        /\ answer'.code = 0 /\ UNCHANGED <<round, reply, calls, results, staged, messages, told>>
    BY <1>2, <1>3 DEF ModelRequest, Enter, NoAnswer
  <2> QED BY <1>1, <2>1, ArriveKeeps, ZenonT(30)
<1>4. CASE Verdict(q) # 200
  <2>1. /\ phase' = "idle" /\ provider' = provider /\ attempt' = attempt
        /\ answer'.code = Verdict(q)
        /\ UNCHANGED <<round, reply, calls, results, staged, messages, told>>
    BY <1>4 DEF ModelRequest, Enter, chat
  <2>2. Verdict(q) \in {200, 400, 404, 500}
    BY DEF Verdict
  <2>3. answer'.code \in {0, 200, 400, 404, 500, 502}
    BY <2>1, <2>2
  <2>4. phase' \in {"idle", "context", "post", "actions"} /\ phase' # "actions"
    BY <2>1
  <2>5. provider' \in Providers \union {"none"} /\ attempt' \in 0..MaxAttempts
    BY <1>2, <2>1
  <2> QED BY <1>1, <2>1, <2>3, <2>4, <2>5, ArriveKeeps, ZenonT(30)
<1> QED BY <1>3, <1>4

LEMMA RequestsType ==
  ASSUME IInv, NEW actions \in Requests
  PROVE  actions \in Seq(Selections) /\ \A i \in DOMAIN actions : actions[i].action \in offered
<1>1. PICK n \in 1..MaxActions : actions \in [1..n -> [action : offered, selected : BOOLEAN]]
  BY DEF Requests
<1>2. n \in Nat
  BY PipAssumption
<1>3. [action : offered, selected : BOOLEAN] \subseteq Selections
  BY DEF IInv, Typed, Selections
<1>4. actions \in [1..n -> Selections]
  BY <1>1, <1>3
<1>5. actions \in Seq(Selections)
  BY <1>2, <1>4, SeqDef
<1> QED BY <1>1, <1>5

LEMMA ApplyRequestKeeps ==
  ASSUME IInv, \/ \E actions \in Requests : ApplyArrives(actions)
               \/ \E code \in {400, 404, 500} : ApplyRefused(code)
  PROVE  IInv'
<1>1. "apply" \in Kinds
  BY DEF Kinds
<1>2. provider \in Providers \union {"none"} /\ attempt \in 0..MaxAttempts
  BY DEF IInv, Typed, TypeOK
<1>3. CASE \E actions \in Requests : ApplyArrives(actions)
  <2>1. PICK actions \in Requests : ApplyArrives(actions)
    BY <1>3
  <2>2. actions \in Seq(Selections) /\ \A i \in DOMAIN actions : actions[i].action \in offered
    BY RequestsType
  <2>3. /\ Arrive("apply", "apply") /\ ClearJob(actions) /\ phase = "idle" /\ phase' = "actions"
        /\ answer'.code = 0 /\ provider' = provider /\ attempt' = attempt
        /\ UNCHANGED <<round, reply, calls, results, staged, messages, told>>
    BY <2>1 DEF ApplyArrives, Arrive, Enter, NoAnswer, chat
  <2> QED BY <1>1, <1>2, <2>2, <2>3, ArriveKeeps, SMTT(30)
<1>4. CASE \E code \in {400, 404, 500} : ApplyRefused(code)
  <2> DEFINE none == <<>>
  <2>0. none \in Seq(Selections) /\ DOMAIN none = {}
    BY EmptySeq
  <2>1. /\ Arrive("apply", "apply") /\ ClearJob(none) /\ phase = "idle" /\ phase' = "idle"
        /\ answer'.code \in {400, 404, 500} /\ provider' = provider /\ attempt' = attempt
        /\ UNCHANGED <<round, reply, calls, results, staged, messages, told>>
    BY <1>4 DEF ApplyRefused, Arrive, Enter, chat
  <2> HIDE DEF none
  <2>2. /\ phase' \in {"idle", "context", "post", "actions"} /\ phase' # "actions"
        /\ answer'.code \in {0, 200, 400, 404, 500, 502}
    BY <2>1
  <2>3. provider' \in Providers \union {"none"} /\ attempt' \in 0..MaxAttempts
    BY <1>2, <2>1
  <2>4. \A i \in DOMAIN none : none[i].action \in offered
    BY <2>0
  <2> QED BY <1>1, <2>0, <2>1, <2>2, <2>3, <2>4, ArriveKeeps, ZenonT(30)
<1> QED BY <1>3, <1>4

LEMMA NextIInv == ASSUME IInv, [Next]_vars PROVE IInv'
<1>1. CASE UNCHANGED vars
  BY <1>1, StutterKeeps
<1>2. CASE \/ BuildContext \/ (\E r \in Replies \union {NotJson} : PostSucceeds(r))
           \/ PostRetries \/ NoMoreCalls \/ Repair
  BY <1>2, MovesKeep
<1>3. CASE \/ ContextFails \/ PostFails \/ ReplyUnreadable \/ LimitReached
           \/ Finish \/ NothingToRepair \/ Repaired \/ Summarized
  BY <1>3, TurnAnswerSteps, AnswersKeep
<1>4. CASE CallsRequested \/ FollowUp
  BY <1>4, CallsRequestedKeeps, FollowUpKeeps
<1>5. CASE Duplicate \/ Stage \/ Reject \/ RunTool
  BY <1>5, DuplicateKeeps, StageKeeps, OtherCallKeeps
<1>6. CASE SkipAction \/ AddTeamMember \/ Collect \/ RunCommand
  BY <1>6, SkipActionKeeps, AddTeamMemberKeeps, CollectKeeps, RunCommandKeeps
<1>7. CASE LoopEnds
  <2>1. CASE phase' = "batch"
    <3>1. /\ phase = "actions" /\ next > Len(sent)
          /\ UNCHANGED <<repo, kind, chat, answer, offered, job, past>>
      BY <1>7, <2>1 DEF LoopEnds, Answer
    <3> QED BY <2>1, <3>1, BatchBegins
  <2>2. CASE phase' # "batch"
    BY <1>7, <2>2, ApplyAnswerSteps, AnswersKeep
  <2> QED BY <2>1, <2>2
<1>8. CASE ActionThrows \/ CommandFails \/ BatchEnds
  BY <1>8, ApplyAnswerSteps, AnswersKeep
<1>9. CASE \E q \in Queries : ChatArrives(q) \/ SummarizeArrives(q)
  BY <1>9, ModelRequestKeeps DEF ChatArrives, SummarizeArrives
<1>10. CASE \/ \E actions \in Requests : ApplyArrives(actions)
            \/ \E code \in {400, 404, 500} : ApplyRefused(code)
  BY <1>10, ApplyRequestKeeps
<1>11. CASE OthersChange
  BY <1>11, OthersChangeKeeps
<1> QED BY <1>1, <1>2, <1>3, <1>4, <1>5, <1>6, <1>7, <1>8, <1>9, <1>10, <1>11
        DEF Next, Handler, Page

\* The invariant holds in every reachable state.
THEOREM Inductive == Spec => []IInv
<1> QED BY InitIInv, NextIInv, PTL DEF Spec

\* TypeOK, for any completions of the provider and any requests.
THEOREM TypeCorrect == Spec => []TypeOK
<1>1. IInv => TypeOK
  BY DEF IInv, Typed
<1> QED BY <1>1, Inductive, PTL

-----------------------------------------------------------------------------
(* What the page is told.                                                  *)

LEMMA Returning ==
  ASSUME IInv, Next, phase # "idle", phase' = "idle"
  PROVE  TurnAnswers \/ ApplyAnswers
<1>1. ASSUME \/ BuildContext \/ (\E r \in Replies \union {NotJson} : PostSucceeds(r))
             \/ PostRetries \/ NoMoreCalls \/ Repair \/ CallsRequested \/ FollowUp
      PROVE  FALSE
  BY <1>1 DEF BuildContext, PostSucceeds, PostRetries, NoMoreCalls, Repair, CallsRequested,
              FollowUp, Enter
<1>2. ASSUME Duplicate \/ Stage \/ Reject \/ RunTool PROVE FALSE
  <2>1. phase' = phase
    BY <1>2 DEF Duplicate, Stage, Reject, RunTool, Handled
  <2> QED BY <2>1
<1>3. ASSUME SkipAction \/ AddTeamMember \/ Collect \/ RunCommand \/ OthersChange PROVE FALSE
  BY <1>3 DEF SkipAction, AddTeamMember, Collect, RunCommand, OthersChange
<1>4. ASSUME Page PROVE FALSE
  BY <1>4 DEF Page, ChatArrives, SummarizeArrives, ModelRequest, ApplyArrives, ApplyRefused, Arrive
<1>5. CASE \/ ContextFails \/ PostFails \/ ReplyUnreadable \/ LimitReached
           \/ Finish \/ NothingToRepair \/ Repaired \/ Summarized
  BY <1>5, TurnAnswerSteps
<1>6. CASE LoopEnds \/ ActionThrows \/ CommandFails \/ BatchEnds
  BY <1>6, ApplyAnswerSteps
<1> QED BY <1>1, <1>2, <1>3, <1>4, <1>5, <1>6 DEF Next, Handler

\* ToldIsOffered: whichever way a turn ends that is not an error, everything
\* the provider was told is staged is offered to the user.
THEOREM ToldActionsReachThePage == Spec => ToldIsOffered
<1>1. ASSUME IInv, [Next]_vars, Returns("chat") \/ Returns("repair"), answer'.code = 200
      PROVE  told \subseteq ToSet(answer'.actions)
  <2>1. phase # "idle" /\ phase' = "idle" /\ kind \in {"chat", "repair"}
    BY <1>1 DEF Returns
  <2>2. Next
    BY <1>1, <2>1 DEF vars
  <2>3. CASE TurnAnswers
    <3>1. PICK k \in Kinds, code \in {200, 400, 500, 502}, actions \in {staged, <<>>} :
            /\ Answer(k, code, actions)
            /\ code = 200 => kind # "apply" /\ (kind \in {"chat", "repair"} => actions = staged)
      BY <2>3 DEF TurnAnswers
    <3>2. answer' = [kind |-> k, code |-> code, actions |-> actions]
      BY <3>1 DEF Answer
    <3>3. answer'.code = code /\ answer'.actions = actions
      BY <3>2
    <3>4. answer'.actions = staged
      BY <1>1, <2>1, <3>1, <3>3
    <3>5. told \subseteq ToSet(staged)
      BY <1>1 DEF IInv, Told
    <3> QED BY <3>4, <3>5
  <2>4. CASE ApplyAnswers
    BY <1>1, <2>1, <2>4 DEF ApplyAnswers, IInv, Control
  <2> QED BY <1>1, <2>1, <2>2, <2>3, <2>4, Returning
<1>2. IInv /\ [Next]_vars => [(Returns("chat") \/ Returns("repair")) /\ answer'.code = 200 =>
                                told \subseteq ToSet(answer'.actions)]_vars
  BY <1>1
<1> QED BY <1>2, Inductive, PTL DEF Spec, ToldIsOffered

\* AppliedAsAsked: an apply that succeeds, undisturbed, leaves the repository
\* as the selected actions mean.
THEOREM AppliedMeansAsked == Spec => AppliedAsAsked
<1>1. ASSUME IInv, [Next]_vars, Returns("apply"), answer'.code = 200, alone
      PROVE  repo' = Intended(before, sent)
  <2>1. phase # "idle" /\ phase' = "idle" /\ kind = "apply"
    BY <1>1 DEF Returns
  <2>2. Next
    BY <1>1, <2>1 DEF vars
  <2>3. CASE TurnAnswers
    <3>1. PICK k \in Kinds, code \in {200, 400, 500, 502}, actions \in {staged, <<>>} :
            Answer(k, code, actions) /\ (code = 200 => kind # "apply")
      BY <2>3 DEF TurnAnswers
    <3>2. answer' = [kind |-> k, code |-> code, actions |-> actions]
      BY <3>1 DEF Answer
    <3>3. answer'.code = code
      BY <3>2
    <3> QED BY <1>1, <2>1, <3>1, <3>3
  <2>4. CASE ApplyAnswers
    <3> DEFINE none == <<>>
    <3>1. PICK code \in {200, 400} :
            /\ Answer("apply", code, none) /\ repo' = repo /\ phase \in {"actions", "batch"}
            /\ code = 200 => commands = none /\ (phase = "actions" => next > Len(sent))
      BY <2>4 DEF ApplyAnswers
    <3>2. answer' = [kind |-> "apply", code |-> code, actions |-> none]
      BY <3>1 DEF Answer
    <3>3. answer'.code = code
      BY <3>2
    <3>4. commands = <<>> /\ (phase = "actions" => next > Len(sent))
      BY <1>1, <3>1, <3>3
    <3>5. Outcome(repo, commands) = repo
      BY <3>4, OutcomeEmpty
    <3>6. CASE phase = "batch"
      BY <1>1, <3>1, <3>5, <3>6 DEF IInv, Accounted
    <3>7. CASE phase = "actions"
      <4>1. sent \in Seq(Selections) /\ next = Len(sent) + 1
        BY <1>1, <3>4, <3>7, LenProperties DEF IInv, Typed, TypeOK
      <4>2. Before(sent, next) = Meant(sent)
        BY <4>1, BeforeEnds
      <4>3. Outcome(repo, commands) = Outcome(before, Before(sent, next))
        BY <1>1, <3>7 DEF IInv, Accounted
      <4> QED BY <3>1, <3>5, <4>2, <4>3 DEF Intended
    <3> QED BY <3>1, <3>6, <3>7
  <2> QED BY <1>1, <2>1, <2>2, <2>3, <2>4, Returning
<1>2. IInv /\ [Next]_vars => [Returns("apply") /\ answer'.code = 200 /\ alone =>
                                repo' = Intended(before, sent)]_vars
  BY <1>1
<1> QED BY <1>2, Inductive, PTL DEF Spec, AppliedAsAsked

-----------------------------------------------------------------------------
(* What changes the repository.                                            *)

LEMMA Changers ==
  ASSUME IInv, Next, repo' # repo, acts' = acts
  PROVE  AddTeamMember \/ RunCommand
<1>1. ASSUME Page PROVE FALSE
  BY <1>1 DEF Page, ChatArrives, SummarizeArrives, ModelRequest, ApplyArrives, ApplyRefused, Arrive
<1>2. ASSUME OthersChange PROVE FALSE
  <2>1. acts' = acts + 1 /\ acts \in Nat
    <3>1. acts \in 0..MaxActs
      BY DEF IInv, Typed, TypeOK
    <3> QED BY <1>2, <3>1, PipAssumption DEF OthersChange
  <2> QED BY <2>1
<1>3. ASSUME \/ BuildContext \/ (\E r \in Replies \union {NotJson} : PostSucceeds(r))
             \/ PostRetries \/ NoMoreCalls \/ Repair \/ CallsRequested \/ FollowUp
      PROVE  FALSE
  BY <1>3 DEF BuildContext, PostSucceeds, PostRetries, NoMoreCalls, Repair, CallsRequested, FollowUp
<1>4. ASSUME \/ ContextFails \/ PostFails \/ ReplyUnreadable \/ LimitReached
             \/ Finish \/ NothingToRepair \/ Repaired \/ Summarized
      PROVE  FALSE
  BY <1>4 DEF ContextFails, PostFails, ReplyUnreadable, LimitReached, Finish, NothingToRepair,
              Repaired, Summarized
<1>5. ASSUME Duplicate \/ Stage \/ Reject \/ RunTool PROVE FALSE
  BY <1>5 DEF Duplicate, Stage, Reject, RunTool, Executed, IsMutating
<1>6. ASSUME SkipAction \/ Collect \/ ActionThrows \/ LoopEnds \/ CommandFails \/ BatchEnds
      PROVE  FALSE
  BY <1>6 DEF SkipAction, Collect, ActionThrows, LoopEnds, CommandFails, BatchEnds
<1> QED BY <1>1, <1>2, <1>3, <1>4, <1>5, <1>6 DEF Next, Handler

\* OnlyChosenActions: the server changes the repository only by a change of
\* an action that was offered and selected.
THEOREM OnlyChosen == Spec => OnlyChosenActions
<1>1. ASSUME IInv, [Next]_vars, repo' # repo, acts' = acts
      PROVE  \E i \in DOMAIN sent : /\ sent[i].selected /\ sent[i].action \in offered
                                    /\ \E j \in DOMAIN sent[i].action.changes :
                                         repo' = Changed(repo, sent[i].action.task,
                                                         sent[i].action.changes[j])
  <2>1. Next
    BY <1>1 DEF vars
  <2>2. CASE AddTeamMember
    <3>1. /\ Looking /\ Current.selected /\ Current.action.tool = "add_team_member"
          /\ repo' = Changed(repo, Current.action.task, Current.action.changes[1])
      BY <2>2 DEF AddTeamMember
    <3>2. next \in DOMAIN sent /\ Current.action \in Actions
      BY <1>1, <3>1, LookingAt
    <3>3. PICK m \in Members : Current.action.changes = <<<<"join", m>>>>
      BY <3>1, <3>2 DEF Actions, JoinsOne
    <3>4. 1 \in DOMAIN Current.action.changes
      BY <3>3
    <3>5. sent[next].action \in offered
      BY <1>1, <3>2 DEF IInv, Chosen
    <3> QED BY <3>1, <3>2, <3>4, <3>5 DEF Current
  <2>3. CASE RunCommand
    <3> DEFINE h == Head(commands)
    <3>1. /\ commands # <<>> /\ repo' = Changed(repo, h.task, h.change)
      BY <2>3 DEF RunCommand
    <3>2. h = commands[1] /\ 1 \in DOMAIN commands
      <4>1. commands \in Seq(Orders)
        BY <1>1 DEF IInv, Typed
      <4> QED BY <3>1, <4>1, HeadTailProperties, LenProperties, EmptySeq
    <3> HIDE DEF h
    <3>3. h.change # Read
      BY <1>1, <3>1 DEF Changed, Read
    <3>4. PICK i \in DOMAIN sent : ChosenBy(sent[i], h)
      BY <1>1, <3>2, <3>3 DEF IInv, Chosen
    <3>5. PICK j \in DOMAIN sent[i].action.changes :
            h = [task |-> sent[i].action.task, change |-> sent[i].action.changes[j]]
      BY <3>4 DEF ChosenBy
    <3>6. repo' = Changed(repo, sent[i].action.task, sent[i].action.changes[j])
      BY <3>1, <3>5
    <3>7. sent[i].action \in offered /\ sent[i].selected
      BY <1>1, <3>4 DEF IInv, Chosen, ChosenBy
    <3> QED BY <3>6, <3>7
  <2> QED BY <1>1, <2>1, <2>2, <2>3, Changers
<1>2. IInv /\ [Next]_vars =>
        [repo' # repo /\ acts' = acts =>
           \E i \in DOMAIN sent : /\ sent[i].selected /\ sent[i].action \in offered
                                 /\ \E j \in DOMAIN sent[i].action.changes :
                                      repo' = Changed(repo, sent[i].action.task,
                                                      sent[i].action.changes[j])]_vars
  BY <1>1
<1> QED BY <1>2, Inductive, PTL DEF Spec, OnlyChosenActions

-----------------------------------------------------------------------------
(* What the provider is told.                                              *)

LEMMA OneSequence ==
  ASSUME NEW S, NEW s \in Seq(S)
  PROVE  FlattenSeq(<<s>>) = s
<1> DEFINE e == <<>>
<1>1. /\ e \in Seq(Seq(S)) /\ Append(e, s) = <<s>> /\ FlattenSeq(e) = <<>>
      /\ <<>> \o s = s
  BY FlattenEmpty, EmptySeq, ConcatEmptySeq
<1> HIDE DEF e
<1>2. FlattenSeq(Append(e, s)) = FlattenSeq(e) \o s
  BY <1>1, FlattenAppend
<1> QED BY <1>1, <1>2

\* The results of a round, one after the other, are the ids of its calls.
LEMMA ResultIds ==
  ASSUME NEW cs \in Seq(Calls), Called(cs) # <<>>
  PROVE  FlattenSeq([k \in 1..Len(ResultsOf(cs)) |-> ResultsOf(cs)[k].ids]) = Ids(Called(cs))
<1> DEFINE ids == Ids(Called(cs))
           rs == ResultsOf(cs)
           f == [k \in 1..Len(rs) |-> rs[k].ids]
<1>1. ids \in Seq(Int)
  <2> DEFINE ds == Called(cs)
  <2>1. ds \in Seq(Completed)
    BY CalledAsExpected
  <2> HIDE DEF ds
  <2> QED BY <2>1, IdsType DEF ds
<1>2. rs = ResultMessages(provider, ids)
  BY DEF ResultsOf
<1> HIDE DEF rs, ids
<1>3. DOMAIN ids = 1..Len(ids) /\ Len(ids) \in Nat
  BY <1>1, LenProperties
<1>4. CASE provider = "anthropic"
  <2>1. rs = <<Answering("user", ids)>> /\ Answering("user", ids).ids = ids
    BY <1>1, <1>2, <1>4, WithIds DEF ResultMessages, AnthropicResults, Answering, Roles
  <2>2. f = <<ids>>
    BY <2>1
  <2> QED BY <1>1, <2>2, OneSequence DEF ids, rs
<1>5. CASE provider # "anthropic"
  <2>1. rs = [i \in 1..Len(ids) |-> Answering("tool", <<ids[i]>>)]
    BY <1>2, <1>3, <1>5 DEF ResultMessages, OpenaiResults, Answering
  <2>2. Len(rs) = Len(ids)
    BY <1>3, <2>1
  <2>3. \A i \in 1..Len(ids) : rs[i].ids = <<ids[i]>>
    BY <2>1 DEF Answering, Text
  <2>4. f = Singles(ids)
    BY <1>3, <2>2, <2>3 DEF Singles
  <2> QED BY <1>1, <2>4, FlattenSingles DEF ids, rs
<1> QED BY <1>4, <1>5

\* A request is the messages of the exchange between others.
LEMMA PostedType ==
  ASSUME IInv
  PROVE  \E p \in Nat :
           /\ Posted \in Seq(Messages \union {Text("system"), Text("user")})
           /\ Len(messages) \in Nat /\ Len(Posted) \in Nat
           /\ DOMAIN Posted = 1..Len(Posted) /\ DOMAIN messages = 1..Len(messages)
           /\ p + Len(messages) <= Len(Posted)
           /\ \A i \in DOMAIN messages : Posted[p + i] = messages[i]
           /\ \A i \in DOMAIN Posted :
                i \notin (p + 1)..(p + Len(messages)) => Posted[i].calls = <<>> /\
                     Posted[i].ids = <<>>
<1> DEFINE M == Messages \union {Text("system"), Text("user")}
           a == IF provider = "anthropic" THEN <<Text("user")>>
                 ELSE <<Text("system"), Text("user")>>
           z == Again(round)
           ms == messages
<1>1. /\ a \in Seq(M) /\ z \in Seq(M)
      /\ \A i \in DOMAIN a : a[i].calls = <<>> /\ a[i].ids = <<>>
      /\ \A i \in DOMAIN z : z[i].calls = <<>> /\ z[i].ids = <<>>
  <2>1. /\ Text("system").calls = <<>> /\ Text("system").ids = <<>>
        /\ Text("user").calls = <<>> /\ Text("user").ids = <<>>
    BY DEF Text
  <2>2. Text("system") \in M /\ Text("user") \in M
    OBVIOUS
  <2> HIDE DEF M
  <2>3. <<Text("user")>> \in Seq(M) /\ <<Text("system"), Text("user")>> \in Seq(M)
        /\ <<>> \in Seq(M)
    BY <2>2
  <2> QED BY <2>1, <2>3 DEF Again
<1>2. Posted = (a \o ms) \o z
  BY DEF Posted, AnthropicRequest, OpenaiRequest
<1>3. ms \in Seq(M)
  <2>1. ms \in Seq(Messages) /\ Messages \subseteq M
    BY DEF IInv, Typed
  <2> HIDE DEF M
  <2> QED BY <2>1
<1> DEFINE p == Len(a)
<1> HIDE DEF M, a, z, ms
<1>4. p \in Nat /\ Len(ms) \in Nat /\ Len(z) \in Nat
      /\ DOMAIN a = 1..p /\ DOMAIN ms = 1..Len(ms) /\ DOMAIN z = 1..Len(z)
  BY <1>1, <1>3, LenProperties
<1> DEFINE b == a \o ms
<1>5. /\ b \in Seq(M) /\ Len(b) = p + Len(ms)
      /\ \A i \in 1..p : b[i] = a[i]
      /\ \A i \in (p + 1)..(p + Len(ms)) : b[i] = ms[i - p]
  BY <1>1, <1>3, ConcatProperties
<1> HIDE DEF b
<1>6. /\ b \o z \in Seq(M) /\ Len(b \o z) = Len(b) + Len(z)
      /\ \A i \in 1..Len(b) : (b \o z)[i] = b[i]
      /\ \A i \in (Len(b) + 1)..(Len(b) + Len(z)) : (b \o z)[i] = z[i - Len(b)]
  <2>1. b \in Seq(M) /\ z \in Seq(M)
    BY <1>1, <1>5
  <2> QED BY <2>1, ConcatProperties
<1> DEFINE t == b \o z
<1>7. t \in Seq(M) /\ Len(t) \in Nat /\ DOMAIN t = 1..Len(t) /\ Len(t) = p + Len(ms) + Len(z)
  BY <1>4, <1>5, <1>6, LenProperties
<1>8. \A i \in 1..Len(ms) : t[p + i] = ms[i]
  <2> SUFFICES ASSUME NEW i \in 1..Len(ms) PROVE t[p + i] = ms[i]
    OBVIOUS
  <2>1. p + i \in 1..Len(b) /\ p + i \in (p + 1)..(p + Len(ms)) /\ (p + i) - p = i
    BY <1>4, <1>5
  <2> QED BY <1>5, <1>6, <2>1
<1>9. ASSUME NEW i \in 1..Len(t), i \notin (p + 1)..(p + Len(ms))
      PROVE  t[i].calls = <<>> /\ t[i].ids = <<>>
  <2>1. CASE i \in 1..p
    <3>1. i \in 1..Len(b)
      BY <1>4, <1>5, <2>1
    <3> QED BY <1>1, <1>4, <1>5, <1>6, <2>1, <3>1, ZenonT(30)
  <2>2. CASE i \notin 1..p
    <3>1. i \in (Len(b) + 1)..(Len(b) + Len(z)) /\ i - Len(b) \in 1..Len(z)
      BY <1>4, <1>5, <1>7, <1>9, <2>2
    <3> DEFINE k == i - Len(b)
    <3>2. t[i] = z[k] /\ k \in DOMAIN z
      BY <1>4, <1>6, <3>1
    <3> HIDE DEF k, t
    <3> QED BY <1>1, <3>2
  <2> QED BY <2>1, <2>2
<1>10. Posted = t
  BY <1>2 DEF b
<1> HIDE DEF t, p
<1>11. p + Len(ms) <= Len(t)
  BY <1>4, <1>7 DEF p
<1> QED BY <1>4, <1>7, <1>8, <1>9, <1>10, <1>11 DEF M, ms, p

\* CallsAnswered: every call the provider made is answered once, under its
\* id, in order, before anything else is said.
THEOREM CallsAreAnswered == Spec => []CallsAnswered
<1>1. ASSUME IInv, phase = "post", NEW i \in DOMAIN Posted, Posted[i].calls # <<>>
      PROVE  Given(Answered(i)) = Expected(Posted[i].calls)
  <2>1. PICK p \in Nat :
          /\ Len(messages) \in Nat /\ Len(Posted) \in Nat
          /\ DOMAIN Posted = 1..Len(Posted) /\ DOMAIN messages = 1..Len(messages)
          /\ p + Len(messages) <= Len(Posted)
          /\ \A j \in DOMAIN messages : Posted[p + j] = messages[j]
          /\ \A j \in DOMAIN Posted :
               j \notin (p + 1)..(p + Len(messages)) => Posted[j].calls = <<>> /\
                    Posted[j].ids = <<>>
    BY <1>1, PostedType
  <2> DEFINE l == Len(messages)
             j == i - p
             cs == messages[j].calls
             rs == ResultsOf(cs)
             n == Len(rs)
  <2>2. j \in 1..l /\ p + j = i /\ j \in DOMAIN messages
    <3>1. i \in (p + 1)..(p + l)
      BY <1>1, <2>1
    <3> QED BY <2>1, <3>1
  <2>3. Posted[i] = messages[j] /\ cs # <<>> /\ Posted[i].calls = cs
    <3>1. Posted[p + j] = messages[j]
      BY <2>1, <2>2
    <3> QED BY <1>1, <2>2, <3>1
  <2> HIDE DEF j, l
  <2>4. Called(cs) # <<>> /\ ResultsFollow(messages, j)
    BY <1>1, <2>2, <2>3 DEF IInv, Exchange
  <2>5. cs \in Seq(Calls)
    <3>1. messages[j] \in Messages
      BY <1>1, <2>2, ElementOfSeq DEF IInv, Typed
    <3> QED BY <3>1 DEF Messages
  <2>6. /\ j + n <= l /\ \A k \in 1..n : messages[j + k] = rs[k]
        /\ j + n + 1 \in DOMAIN messages => messages[j + n + 1].ids = <<>>
    BY <2>4 DEF ResultsFollow, l
  <2> HIDE DEF cs
  <2>7. n \in Nat /\ n >= 1 /\ \A k \in 1..n : rs[k].ids # <<>>
    BY <2>4, <2>5, ResultsType
  <2>8. FlattenSeq([k \in 1..n |-> rs[k].ids]) = Ids(Called(cs))
    BY <2>4, <2>5, ResultIds
  <2> HIDE DEF rs, n
  <2>9. \A k \in 1..n : i + k \in DOMAIN Posted /\ Posted[i + k] = rs[k]
    <3> SUFFICES ASSUME NEW k \in 1..n PROVE i + k \in DOMAIN Posted /\ Posted[i + k] = rs[k]
      OBVIOUS
    <3> DEFINE m == j + k
    <3>1. m \in DOMAIN messages /\ p + m = i + k
      BY <2>1, <2>2, <2>6, <2>7 DEF l
    <3>2. messages[m] = rs[k]
      BY <2>6
    <3> HIDE DEF m
    <3>3. Posted[p + m] = messages[m]
      BY <2>1, <3>1
    <3>4. p + m \in 1..Len(Posted)
      BY <2>1, <3>1
    <3> QED BY <2>1, <3>1, <3>2, <3>3, <3>4
  <2> DEFINE e == i + n + 1
  <2>10. e \in DOMAIN Posted => Posted[e].ids = <<>>
    <3> SUFFICES ASSUME e \in DOMAIN Posted PROVE Posted[e].ids = <<>>
      OBVIOUS
    <3> DEFINE m == j + n + 1
    <3>1. p + m = e /\ m \in Nat /\ m >= 1
      BY <2>1, <2>2, <2>7
    <3>2. CASE m \in DOMAIN messages
      <4>1. messages[m].ids = <<>>
        BY <2>6, <3>2
      <4> HIDE DEF m
      <4>2. Posted[p + m] = messages[m]
        BY <2>1, <3>2
      <4> QED BY <3>1, <4>1, <4>2
    <3>3. CASE m \notin DOMAIN messages
      <4> HIDE DEF m, e
      <4>1. e \notin (p + 1)..(p + Len(messages))
        BY <2>1, <3>1, <3>3
      <4> QED BY <2>1, <4>1
    <3> QED BY <3>2, <3>3
  <2> DEFINE Results(m) == \A k \in (i + 1)..(i + m) : k \in DOMAIN Posted /\ Posted[k].ids # <<>>
             c == CHOOSE m \in 0..Len(Posted) : Results(m) /\ ~Results(m + 1)
  <2>11. Results(n)
    <3> SUFFICES ASSUME NEW k \in (i + 1)..(i + n) PROVE k \in DOMAIN Posted /\ Posted[k].ids # <<>>
      OBVIOUS
    <3> DEFINE d == k - i
    <3>1. d \in 1..n /\ i + d = k
      BY <2>1, <2>7
    <3> HIDE DEF d
    <3>2. i + d \in DOMAIN Posted /\ Posted[i + d] = rs[d]
      BY <2>9, <3>1
    <3> QED BY <2>7, <3>1, <3>2
  <2>12. i \in Nat
    BY <2>1
  <2>13. \A m \in Nat : m > n => ~Results(m)
    <3> SUFFICES ASSUME NEW m \in Nat, m > n, Results(m) PROVE FALSE
      OBVIOUS
    <3>1. e \in (i + 1)..(i + m)
      BY <2>7, <2>12
    <3> HIDE DEF e
    <3> QED BY <2>10, <3>1
  <2>14. \A m \in Nat : m < n => Results(m + 1)
    <3> SUFFICES ASSUME NEW m \in Nat, m < n, NEW k \in (i + 1)..(i + (m + 1))
                 PROVE  k \in DOMAIN Posted /\ Posted[k].ids # <<>>
      OBVIOUS
    <3>1. k \in (i + 1)..(i + n)
      BY <2>7, <2>12
    <3> QED BY <2>11, <3>1
  <2>15. n \in 0..Len(Posted)
    <3>1. i + n \in DOMAIN Posted
      BY <2>7, <2>9
    <3> QED BY <2>1, <2>7, <2>12, <3>1
  <2>16. ~Results(n + 1)
    BY <2>7, <2>13
  <2> HIDE DEF Results
  <2>17. c \in 0..Len(Posted) /\ Results(c) /\ ~Results(c + 1)
    BY <2>11, <2>15, <2>16
  <2>18. c = n
    <3> HIDE DEF c
    <3>1. c \in Nat
      BY <2>1, <2>17
    <3>2. ~(c > n) /\ ~(c < n)
      BY <2>13, <2>14, <2>17, <3>1
    <3> QED BY <2>7, <3>1, <3>2
  <2>19. Answered(i) = FlattenSeq([k \in 1..c |-> Posted[i + k].ids])
    BY DEF Answered, Results
  <2>20. [k \in 1..c |-> Posted[i + k].ids] = [k \in 1..n |-> rs[k].ids]
    <3> HIDE DEF c
    <3> QED BY <2>9, <2>18
  <2>21. Given(Ids(Called(cs))) = Expected(cs)
    BY <2>5, CalledAsExpected
  <2> QED BY <2>3, <2>8, <2>19, <2>20, <2>21 DEF cs
<1>2. IInv => CallsAnswered
  BY <1>1 DEF CallsAnswered
<1> QED BY <1>2, Inductive, PTL

-----------------------------------------------------------------------------
(* Why every request ends.                                                 *)

\* What is left of a request: rounds, then stages of the round, then posts,
\* calls, actions or commands of the stage.
StageRank == CASE phase = "context" -> 6
               [] phase = "post" -> IF kind = "repair" THEN 2 ELSE 5
               [] phase = "reply" -> IF kind = "repair" THEN 1 ELSE 4
               [] phase \in {"calls", "final"} -> 3
               [] phase = "actions" -> 2
               [] OTHER -> 1
Work == CASE phase = "post" -> MaxAttempts - attempt
          [] phase = "calls" -> Len(calls)
          [] phase = "actions" -> Len(sent) + 1 - next
          [] phase = "batch" -> Len(commands)
          [] OTHER -> 0
Rank == <<MaxRounds - round, StageRank, Work>>
Lower(a, b) == \/ a[1] < b[1]
               \/ a[1] = b[1] /\ a[2] < b[2]
               \/ a[1] = b[1] /\ a[2] = b[2] /\ a[3] < b[3]

LEMMA RankType == ASSUME IInv PROVE Rank \in Nat \X Nat \X Nat
<1>1. /\ MaxRounds \in Nat /\ round \in 0..MaxRounds
      /\ MaxAttempts \in Nat /\ attempt \in 0..MaxAttempts
      /\ Len(sent) \in Nat /\ next \in 1..(Len(sent) + 1)
      /\ Len(calls) \in Nat /\ Len(commands) \in Nat
  BY PipAssumption, LenProperties DEF IInv, Typed, TypeOK
<1>2. MaxRounds - round \in Nat
  BY <1>1
<1>3. StageRank \in Nat
  BY DEF StageRank
<1>4. Work \in Nat
  <2>1. MaxAttempts - attempt \in Nat /\ Len(sent) + 1 - next \in Nat
    BY <1>1
  <2> QED BY <1>1, <2>1 DEF Work
<1> QED BY <1>2, <1>3, <1>4 DEF Rank

\* A step within a round, to a later stage or with less left of this one.
LEMMA Lowers ==
  ASSUME IInv, round' = round, phase' # "idle",
         \/ StageRank' < StageRank
         \/ StageRank' = StageRank /\ Work' < Work
  PROVE  Lower(Rank', Rank)
  BY DEF Lower, Rank

LEMMA HandlerLowers ==
  ASSUME IInv, Handler
  PROVE  phase' = "idle" \/ Lower(Rank', Rank)
<1>1. CASE TurnAnswers \/ ApplyAnswers
  BY <1>1 DEF TurnAnswers, ApplyAnswers, Answer
<1>2. CASE BuildContext
  <2>1. phase = "context" /\ phase' = "post" /\ round' = round
    BY <1>2 DEF BuildContext, Enter, chat
  <2> QED BY <2>1, Lowers DEF StageRank
<1>3. CASE \E r \in Replies \union {NotJson} : PostSucceeds(r)
  <2>1. phase = "post" /\ phase' = "reply" /\ kind' = kind /\ round' = round
    BY <1>3 DEF PostSucceeds, Enter
  <2> QED BY <2>1, Lowers DEF StageRank
<1>4. CASE PostRetries
  <2>1. /\ phase = "post" /\ phase' = "post" /\ kind' = kind /\ round' = round
        /\ attempt' = attempt + 1
    BY <1>4 DEF PostRetries
  <2>2. attempt \in Nat /\ MaxAttempts \in Nat
    BY PipAssumption DEF IInv, Typed, TypeOK
  <2>3. Work' < Work
    BY <2>1, <2>2 DEF Work
  <2> QED BY <2>1, <2>3, Lowers DEF StageRank
<1>5. CASE CallsRequested
  <2>1. phase = "reply" /\ kind = "chat" /\ phase' = "calls" /\ round' = round
    BY <1>5 DEF CallsRequested, Enter
  <2> QED BY <2>1, Lowers DEF StageRank
<1>6. CASE NoMoreCalls
  <2>1. phase = "reply" /\ kind = "chat" /\ phase' = "final" /\ round' = round
    BY <1>6 DEF NoMoreCalls, Enter, chat
  <2> QED BY <2>1, Lowers DEF StageRank
<1>7. CASE Duplicate \/ Stage \/ Reject \/ RunTool
  <2>1. /\ phase = "calls" /\ phase' = "calls" /\ round' = round
        /\ calls # <<>> /\ calls' = Tail(calls)
    BY <1>7 DEF Duplicate, Stage, Reject, RunTool, Handled
  <2>2. Len(calls) \in Nat /\ Len(calls') = Len(calls) - 1
    <3>1. calls \in Seq(Completed)
      BY DEF IInv, Typed
    <3> QED BY <2>1, <3>1, HeadTailProperties, LenProperties
  <2>3. Work' < Work
    BY <2>1, <2>2 DEF Work
  <2> QED BY <2>1, <2>3, Lowers DEF StageRank
<1>8. CASE FollowUp
  <2>1. round' = round + 1 /\ round \in Nat /\ MaxRounds \in Nat
    BY <1>8, PipAssumption DEF FollowUp, IInv, Typed, TypeOK
  <2>2. MaxRounds - round' < MaxRounds - round
    BY <2>1
  <2> QED BY <2>2 DEF Lower, Rank
<1>9. CASE Repair
  <2>1. phase = "final" /\ phase' = "post" /\ kind' = "repair" /\ round' = round
    BY <1>9 DEF Repair, Enter
  <2> QED BY <2>1, Lowers DEF StageRank
<1>10. CASE SkipAction \/ AddTeamMember \/ Collect
  <2>1. /\ Looking /\ phase = "actions" /\ phase' = "actions" /\ round' = round
        /\ sent' = sent /\ next' = next + 1
    BY <1>10 DEF SkipAction, AddTeamMember, Collect, Looking, chat
  <2>2. Len(sent) \in Nat /\ next \in Nat
    BY LenProperties DEF IInv, Typed, TypeOK
  <2>3. Work' < Work
    BY <2>1, <2>2 DEF Work
  <2> QED BY <2>1, <2>3, Lowers DEF StageRank
<1>11. CASE LoopEnds /\ phase' = "batch"
  <2>1. phase = "actions" /\ phase' = "batch" /\ round' = round
    BY <1>11 DEF LoopEnds, Answer, chat
  <2> QED BY <2>1, Lowers DEF StageRank
<1>12. CASE RunCommand
  <2>1. /\ phase = "batch" /\ phase' = "batch" /\ round' = round
        /\ commands # <<>> /\ commands' = Tail(commands)
    BY <1>12 DEF RunCommand, chat
  <2>2. Len(commands) \in Nat /\ Len(commands') = Len(commands) - 1
    <3>1. commands \in Seq(Orders)
      BY DEF IInv, Typed
    <3> QED BY <2>1, <3>1, HeadTailProperties, LenProperties
  <2>3. Work' < Work
    BY <2>1, <2>2 DEF Work
  <2> QED BY <2>1, <2>3, Lowers DEF StageRank
<1> QED BY <1>1, <1>2, <1>3, <1>4, <1>5, <1>6, <1>7, <1>8, <1>9, <1>10, <1>11, <1>12,
           TurnAnswerSteps, ApplyAnswerSteps DEF Handler

\* Each step of a handler answers the request or leaves less to do: no turn
\* goes on for ever, however many calls the provider makes in a round and
\* whatever others do meanwhile.
THEOREM HandlersEnd ==
  Spec => /\ [](Rank \in Nat \X Nat \X Nat)
          /\ [][Handler => phase' = "idle" \/ Lower(Rank', Rank)]_vars
<1>1. IInv => Rank \in Nat \X Nat \X Nat
  BY RankType
<1>2. IInv /\ [Next]_vars => [Handler => phase' = "idle" \/ Lower(Rank', Rank)]_vars
  BY HandlerLowers
<1> QED BY <1>1, <1>2, Inductive, PTL DEF Spec
================================================================================
