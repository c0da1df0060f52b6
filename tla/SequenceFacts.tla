--------------------------- MODULE SequenceFacts ---------------------------
(***************************************************************************)
(* Lemmas about sequences that the proofs about the models share: the      *)
(* least-number principle, and what the recursive definition of FlattenSeq *)
(* computes for sequences of any length.                                   *)
(***************************************************************************)
EXTENDS Integers, SequencesExt, SequenceTheorems, WellFoundedInduction, TLAPS

-----------------------------------------------------------------------------
(* Numbers *)

\* A non-empty set of natural numbers has a least one.
LEMMA LeastExists ==
  ASSUME NEW S, S \subseteq Nat, S # {}
  PROVE  \E x \in S : \A z \in S : x <= z
<1>1. PICK x \in S : \A z \in S : ~ (<<z, x>> \in OpToRel(<, Nat))
  BY NatLessThanWellFounded, WFMin
<1>2. \A z \in S : ~ (z < x)
  BY <1>1 DEF OpToRel
<1>. QED
  BY <1>2

\* What is true of 0, and of every number whose predecessor it is true of, is
\* true of every number.
LEMMA InductionOnSet ==
  ASSUME NEW T, 0 \in T, \A n \in Nat : n \in T => n + 1 \in T
  PROVE  \A n \in Nat : n \in T
<1>. SUFFICES ASSUME NEW m \in Nat, m \notin T
              PROVE  FALSE
  OBVIOUS
<1>. DEFINE S == {n \in Nat : n \notin T}
<1>1. PICK x \in S : \A z \in S : x <= z
  <2>. S \subseteq Nat /\ S # {}
    OBVIOUS
  <2>. HIDE DEF S
  <2>. QED
    BY LeastExists
<1>2. x # 0 /\ x \in Nat /\ x \notin T
  OBVIOUS
<1>3. x - 1 \in Nat /\ (x - 1) + 1 = x
  BY <1>2
<1>4. x - 1 \in T
  BY <1>1, <1>3
<1>5. (x - 1) + 1 \in T
  BY <1>3, <1>4
<1>. QED
  BY <1>2, <1>3, <1>5

\* A bounded, non-empty set of natural numbers has a largest one.
LEMMA MaxFacts ==
  ASSUME NEW b \in Nat, NEW S, S \subseteq 0 .. b, S # {}
  PROVE  Max(S) \in S /\ \A z \in S : z <= Max(S)
<1>. DEFINE T == {b - x : x \in S}
<1>1. \A x \in S : x \in Nat /\ x <= b /\ b - x \in Nat
  OBVIOUS
<1>2. T \subseteq Nat /\ T # {}
  BY <1>1
<1>3. PICK y \in T : \A z \in T : y <= z
  <2>. HIDE DEF T
  <2>. QED
    BY <1>2, LeastExists
<1>4. PICK x \in S : y = b - x
  OBVIOUS
<1>5. x \in S /\ \A z \in S : x >= z
  <2>1. ASSUME NEW z \in S
        PROVE  x >= z
    <3>1. b - x <= b - z
      BY <1>3, <1>4
    <3>. QED
      BY <1>1, <3>1
  <2>. QED
    BY <2>1
<1>6. Max(S) \in S /\ \A z \in S : Max(S) >= z
  BY <1>5 DEF Max
<1>. QED
  BY <1>1, <1>6

-----------------------------------------------------------------------------
(* Concatenation *)

\* Three sequences may be put together in any order of operations.
LEMMA Regroup ==
  ASSUME NEW C, NEW a \in Seq(C), NEW b \in Seq(C), NEW c \in Seq(C)
  PROVE  (a \o b) \o c = a \o (b \o c)
BY ConcatAssociative

\* A sequence is what it has up to a point and what it has behind.
LEMMA SplitAt ==
  ASSUME NEW C, NEW s \in Seq(C), NEW n \in 0 .. Len(s)
  PROVE  SubSeq(s, 1, n) \o SubSeq(s, n + 1, Len(s)) = s
<1>1. Len(s) \in Nat
  BY LenProperties
<1>2. 1 \in 1 .. Len(s) + 1 /\ n \in 1 - 1 .. Len(s) /\ Len(s) \in n .. Len(s)
  BY <1>1
<1>3. SubSeq(s, 1, n) \o SubSeq(s, n + 1, Len(s)) = SubSeq(s, 1, Len(s))
  BY <1>2, ConcatAdjacentSubSeq
<1>. QED
  BY <1>3, SubSeqFull

\* An element more at the end of the second is one at the end of both.
LEMMA AppendBehind ==
  ASSUME NEW C, NEW a \in Seq(C), NEW b \in Seq(C), NEW e \in C
  PROVE  a \o Append(b, e) = Append(a \o b, e)
OBVIOUS

\* A function of every member.
Mapped(F, s) == [n \in DOMAIN s |-> F[s[n]]]

\* Such a function, from S to T.
Maps(F, S, T) == F \in [S -> T]

\* Mapping keeps the order of the members.
LEMMA MappedFacts ==
  ASSUME NEW S, NEW T, NEW F, Maps(F, S, T), NEW s \in Seq(S)
  PROVE  /\ Mapped(F, s) \in Seq(T) /\ Len(Mapped(F, s)) = Len(s)
         /\ \A n \in 1 .. Len(s) : Mapped(F, s)[n] = F[s[n]]
         /\ \A e \in S : Mapped(F, Append(s, e)) = Append(Mapped(F, s), F[e])
<1>1. Len(s) \in Nat /\ DOMAIN s = 1 .. Len(s) /\ \A n \in 1 .. Len(s) : s[n] \in S
  BY LenProperties, ElementOfSeq
<1>2. Mapped(F, s) \in Seq(T) /\ Len(Mapped(F, s)) = Len(s)
  <2>1. Mapped(F, s) \in [1 .. Len(s) -> T]
    BY <1>1 DEF Mapped, Maps
  <2>. QED
    BY <1>1, <2>1
<1>3. \A n \in 1 .. Len(s) : Mapped(F, s)[n] = F[s[n]]
  BY <1>1 DEF Mapped
<1>4. ASSUME NEW e \in S
      PROVE  Mapped(F, Append(s, e)) = Append(Mapped(F, s), F[e])
  <2>. DEFINE t == Append(s, e)
              u == Append(Mapped(F, s), F[e])
  <2>1. /\ t \in Seq(S) /\ Len(t) = Len(s) + 1 /\ t[Len(s) + 1] = e
        /\ \A n \in 1 .. Len(s) : t[n] = s[n]
    BY AppendProperties
  <2>2. /\ u \in Seq(T) /\ Len(u) = Len(s) + 1 /\ u[Len(s) + 1] = F[e]
        /\ \A n \in 1 .. Len(s) : u[n] = Mapped(F, s)[n]
    <3>1. F[e] \in T
      BY DEF Maps
    <3>. QED
      BY <1>2, <3>1, AppendProperties
  <2>. HIDE DEF t, u
  <2>3. DOMAIN t = 1 .. Len(s) + 1 /\ \A n \in 1 .. Len(s) + 1 : t[n] \in S
    BY <2>1, LenProperties, ElementOfSeq
  <2>4. Mapped(F, t) \in [1 .. Len(s) + 1 -> T]
    BY <2>3 DEF Mapped, Maps
  <2>5. Mapped(F, t) \in Seq(T) /\ Len(Mapped(F, t)) = Len(s) + 1
    BY <1>1, <2>4
  <2>6. ASSUME NEW n \in 1 .. Len(s) + 1
        PROVE  Mapped(F, t)[n] = u[n]
    <3>1. Mapped(F, t)[n] = F[t[n]]
      BY <2>3 DEF Mapped
    <3>2. n = Len(s) + 1 \/ n \in 1 .. Len(s)
      BY <1>1
    <3>. QED
      BY <1>3, <2>1, <2>2, <3>1, <3>2
  <2>7. Mapped(F, t) = u
    BY <2>2, <2>5, <2>6, SeqEqual
  <2>. QED
    BY <2>7 DEF t, u
<1>. QED
  BY <1>2, <1>3, <1>4

-----------------------------------------------------------------------------
(* FlattenSeq *)

\* f is the function FlattenSeq recurs with, over the first n members of ss.
Flat(f, ss, n) == f = [i \in 1 .. n |-> IF i = 1 THEN ss[i] ELSE f[i - 1] \o ss[i]]

\* There is such a function, however many members there are.
LEMMA FlatExists ==
  ASSUME NEW ss, NEW n \in Nat
  PROVE  \E f : Flat(f, ss, n)
<1>. DEFINE T == {m \in Nat : \E f : Flat(f, ss, m)}
<1>1. 0 \in T
  <2>1. Flat([i \in 1 .. 0 |-> 0], ss, 0)
    BY DEF Flat
  <2>. QED
    BY <2>1
<1>2. ASSUME NEW m \in Nat, m \in T
      PROVE  m + 1 \in T
  <2>1. PICK g : Flat(g, ss, m)
    BY <1>2
  <2>. DEFINE f == [i \in 1 .. m + 1 |-> IF i = 1 THEN ss[i] ELSE g[i - 1] \o ss[i]]
  <2>2. ASSUME NEW i \in 1 .. m + 1, i # 1
        PROVE  f[i - 1] = g[i - 1]
    <3>1. i - 1 \in 1 .. m /\ i - 1 \in 1 .. m + 1
      BY <2>2
    <3>2. g[i - 1] = IF i - 1 = 1 THEN ss[i - 1] ELSE g[i - 1 - 1] \o ss[i - 1]
      BY <2>1, <3>1 DEF Flat
    <3>3. f[i - 1] = IF i - 1 = 1 THEN ss[i - 1] ELSE g[i - 1 - 1] \o ss[i - 1]
      BY <3>1
    <3>. QED
      BY <3>2, <3>3
  <2>3. f = [i \in 1 .. m + 1 |-> IF i = 1 THEN ss[i] ELSE f[i - 1] \o ss[i]]
    BY <2>2
  <2>4. Flat(f, ss, m + 1)
    BY <2>3 DEF Flat
  <2>. QED
    BY <2>4
<1>. HIDE DEF T
<1>3. n \in T
  BY <1>1, <1>2, InductionOnSet
<1>. QED
  BY <1>3 DEF T

\* Two functions agree on the first k numbers.
Agree(f, g, k) == \A i \in 1 .. k : f[i] = g[i]

\* Two such functions agree as far as their sequences do.
LEMMA FlatUnique ==
  ASSUME NEW ss, NEW tt, NEW m \in Nat, NEW k \in 0 .. m, NEW f, NEW g,
         Flat(f, ss, m), Flat(g, tt, k), Agree(ss, tt, k)
  PROVE  Agree(f, g, k)
<1>. DEFINE T == {i \in Nat : i \in 1 .. k => f[i] = g[i]}
<1>1. 0 \in T
  OBVIOUS
<1>2. ASSUME NEW i \in Nat, i \in T
      PROVE  i + 1 \in T
  <2>. SUFFICES ASSUME i + 1 \in 1 .. k
                PROVE  f[i + 1] = g[i + 1]
    OBVIOUS
  <2>. DEFINE j == i + 1
  <2>1. j \in 1 .. m /\ j \in 1 .. k /\ j - 1 = i /\ ss[j] = tt[j]
    BY DEF Agree
  <2>2. j # 1 => f[j - 1] = g[j - 1]
    <3>1. j # 1 => i \in 1 .. k
      OBVIOUS
    <3>. QED
      BY <1>2, <2>1, <3>1
  <2>. HIDE DEF j
  <2>3. f[j] = IF j = 1 THEN ss[j] ELSE f[j - 1] \o ss[j]
    BY <2>1 DEF Flat
  <2>4. g[j] = IF j = 1 THEN tt[j] ELSE g[j - 1] \o tt[j]
    BY <2>1 DEF Flat
  <2>. QED
    BY <2>1, <2>2, <2>3, <2>4 DEF j
<1>. HIDE DEF T
<1>3. \A i \in Nat : i \in T
  BY <1>1, <1>2, InductionOnSet
<1>. QED
  BY <1>3 DEF T, Agree

\* What its values are.
LEMMA FlatStep ==
  ASSUME NEW ss, NEW n \in Nat, NEW f, Flat(f, ss, n), NEW i \in 1 .. n
  PROVE  f[i] = IF i = 1 THEN ss[i] ELSE f[i - 1] \o ss[i]
BY DEF Flat

\* FlattenSeq is the last value of such a function.
LEMMA FlattenIs ==
  ASSUME NEW C, NEW ss \in Seq(Seq(C))
  PROVE  /\ ss = <<>> => FlattenSeq(ss) = <<>>
         /\ ss # <<>> => \E f : Flat(f, ss, Len(ss)) /\ FlattenSeq(ss) = f[Len(ss)]
<1>1. Len(ss) \in Nat /\ (ss # <<>> => Len(ss) # 0)
  BY EmptySeq, LenProperties
<1>2. ss = <<>> => FlattenSeq(ss) = <<>>
  BY DEF FlattenSeq
<1>3. ASSUME ss # <<>>
      PROVE  \E f : Flat(f, ss, Len(ss)) /\ FlattenSeq(ss) = f[Len(ss)]
  <2>. DEFINE f == CHOOSE f : f = [i \in 1 .. Len(ss) |-> IF i = 1 THEN ss[i] ELSE f[i - 1] \o ss[i]]
  <2>1. \E g : g = [i \in 1 .. Len(ss) |-> IF i = 1 THEN ss[i] ELSE g[i - 1] \o ss[i]]
    BY <1>1, FlatExists DEF Flat
  <2>2. f = [i \in 1 .. Len(ss) |-> IF i = 1 THEN ss[i] ELSE f[i - 1] \o ss[i]]
    BY <2>1
  <2>3. FlattenSeq(ss) = f[Len(ss)]
    BY <1>1, <1>3 DEF FlattenSeq
  <2>. HIDE DEF f
  <2>. QED
    BY <2>2, <2>3 DEF Flat
<1>. QED
  BY <1>2, <1>3

\* Flattening sequences over C gives one.
LEMMA FlattenTyped ==
  ASSUME NEW C, NEW ss \in Seq(Seq(C))
  PROVE  FlattenSeq(ss) \in Seq(C)
<1>1. CASE ss = <<>>
  BY <1>1, FlattenIs, EmptySeq
<1>2. CASE ss # <<>>
  <2>1. PICK f : Flat(f, ss, Len(ss)) /\ FlattenSeq(ss) = f[Len(ss)]
    BY <1>2, FlattenIs
  <2>2. Len(ss) \in Nat \ {0} /\ \A i \in 1 .. Len(ss) : ss[i] \in Seq(C)
    BY <1>2, EmptySeq, ElementOfSeq
  <2>. DEFINE T == {i \in Nat : i \in 1 .. Len(ss) => f[i] \in Seq(C)}
  <2>3. 0 \in T
    OBVIOUS
  <2>4. ASSUME NEW i \in Nat, i \in T
        PROVE  i + 1 \in T
    <3>. SUFFICES ASSUME i + 1 \in 1 .. Len(ss)
                  PROVE  f[i + 1] \in Seq(C)
      OBVIOUS
    <3>1. f[i + 1] = IF i + 1 = 1 THEN ss[i + 1] ELSE f[i + 1 - 1] \o ss[i + 1]
      BY <2>1, <2>2, FlatStep, SMTT(30)
    <3>2. i + 1 - 1 = i /\ (i + 1 # 1 => f[i] \in Seq(C)) /\ ss[i + 1] \in Seq(C)
      BY <2>2, <2>4
    <3>3. i + 1 # 1 => f[i] \o ss[i + 1] \in Seq(C)
      BY <3>2, ConcatProperties
    <3>. QED
      BY <3>1, <3>2, <3>3
  <2>. HIDE DEF T
  <2>5. \A i \in Nat : i \in T
    BY <2>3, <2>4, InductionOnSet
  <2>. QED
    BY <2>1, <2>2, <2>5 DEF T
<1>. QED
  BY <1>1, <1>2

\* A list that goes on with one more sequence.
LEMMA FlattenLonger ==
  ASSUME NEW C, NEW ss \in Seq(Seq(C)), NEW tt \in Seq(Seq(C)), NEW k \in Nat, NEW m \in Nat,
         Len(ss) = k, Len(tt) = m, m > k, m <= k + 1, Agree(tt, ss, k)
  PROVE  FlattenSeq(tt) = FlattenSeq(ss) \o tt[m]
<1>1. tt # <<>> /\ m \in 1 .. m /\ k \in 0 .. m /\ tt[m] \in Seq(C)
  BY EmptySeq, ElementOfSeq
<1>2. PICK f : Flat(f, tt, m) /\ FlattenSeq(tt) = f[m]
  BY <1>1, FlattenIs
<1>3. f[m] = IF m = 1 THEN tt[m] ELSE f[m - 1] \o tt[m]
  BY <1>1, <1>2, FlatStep
<1>4. CASE ss = <<>>
  <2>0. FlattenSeq(ss) = <<>>
    BY <1>4, FlattenIs
  <2>1. m = 1 /\ FlattenSeq(ss) = <<>>
    BY <1>4, <2>0
  <2>2. <<>> \o tt[m] = tt[m]
    BY <1>1, ConcatEmptySeq
  <2>. QED
    BY <1>2, <1>3, <2>1, <2>2
<1>5. CASE ss # <<>>
  <2>1. PICK g : Flat(g, ss, k) /\ FlattenSeq(ss) = g[k]
    BY <1>5, FlattenIs
  <2>2. k # 0
    BY <1>5, EmptySeq
  <2>3. Agree(f, g, k)
    BY <1>1, <1>2, <2>1, FlatUnique
  <2>4. f[k] = g[k] /\ m - 1 = k /\ m # 1
    BY <2>2, <2>3 DEF Agree
  <2>. QED
    BY <1>2, <1>3, <2>1, <2>4
<1>. QED
  BY <1>4, <1>5

\* One more sequence comes behind the others.
LEMMA FlattenAppend ==
  ASSUME NEW C, NEW ss \in Seq(Seq(C)), NEW e \in Seq(C)
  PROVE  FlattenSeq(Append(ss, e)) = FlattenSeq(ss) \o e
<1>. DEFINE tt == Append(ss, e)
<1>1. /\ tt \in Seq(Seq(C)) /\ Len(tt) = Len(ss) + 1
      /\ Len(ss) \in Nat /\ Len(tt) \in Nat
      /\ Agree(tt, ss, Len(ss)) /\ tt[Len(tt)] = e
      /\ Len(tt) > Len(ss) /\ Len(tt) <= Len(ss) + 1
  BY AppendProperties, LenProperties DEF Agree
<1>. HIDE DEF tt
<1>2. FlattenSeq(tt) = FlattenSeq(ss) \o tt[Len(tt)]
  BY ONLY <1>1, ss \in Seq(Seq(C)), FlattenLonger
<1>. QED
  BY <1>1, <1>2 DEF tt

\* Flattening two lists one after the other.
LEMMA FlattenConcat ==
  ASSUME NEW C, NEW ss \in Seq(Seq(C)), NEW tt \in Seq(Seq(C))
  PROVE  FlattenSeq(ss \o tt) = FlattenSeq(ss) \o FlattenSeq(tt)
<1>. DEFINE T == {n \in Nat : \A uu \in Seq(Seq(C)) :
                    Len(uu) = n => FlattenSeq(ss \o uu) = FlattenSeq(ss) \o FlattenSeq(uu)}
<1>1. 0 \in T
  <2>. SUFFICES ASSUME NEW uu \in Seq(Seq(C)), Len(uu) = 0
                PROVE  FlattenSeq(ss \o uu) = FlattenSeq(ss) \o FlattenSeq(uu)
    OBVIOUS
  <2>1. uu = <<>> /\ FlattenSeq(uu) = <<>>
    BY EmptySeq, FlattenIs
  <2>2. FlattenSeq(ss) \in Seq(C)
    BY FlattenTyped
  <2>. QED
    BY <2>1, <2>2, ConcatEmptySeq
<1>2. ASSUME NEW n \in Nat, n \in T
      PROVE  n + 1 \in T
  <2>. SUFFICES ASSUME NEW uu \in Seq(Seq(C)), Len(uu) = n + 1
                PROVE  FlattenSeq(ss \o uu) = FlattenSeq(ss) \o FlattenSeq(uu)
    OBVIOUS
  <2>1. uu # <<>>
    BY EmptySeq
  <2>2. PICK vv \in Seq(Seq(C)), e \in Seq(C) : uu = Append(vv, e)
    BY <2>1, SequenceEmptyOrAppend
  <2>3. Len(vv) \in Nat /\ Len(uu) = Len(vv) + 1
    BY <2>2, AppendProperties, LenProperties
  <2>4. Len(vv) = n
    BY <2>3
  <2>5. FlattenSeq(ss \o vv) = FlattenSeq(ss) \o FlattenSeq(vv)
    BY <1>2, <2>4
  <2>6. ss \o uu = Append(ss \o vv, e)
    <3>1. ss \o Append(vv, e) = Append(ss \o vv, e)
      BY ONLY ss \in Seq(Seq(C)), vv \in Seq(Seq(C)), e \in Seq(C), AppendBehind, SMTT(30)
    <3>. QED
      BY <2>2, <3>1
  <2>7. ss \o vv \in Seq(Seq(C))
    BY ConcatProperties
  <2>8. FlattenSeq(ss \o uu) = (FlattenSeq(ss) \o FlattenSeq(vv)) \o e
    BY <2>5, <2>6, <2>7, FlattenAppend
  <2>9. FlattenSeq(uu) = FlattenSeq(vv) \o e
    BY <2>2, FlattenAppend
  <2>10. FlattenSeq(ss) \in Seq(C) /\ FlattenSeq(vv) \in Seq(C)
    BY FlattenTyped
  <2>11. (FlattenSeq(ss) \o FlattenSeq(vv)) \o e = FlattenSeq(ss) \o (FlattenSeq(vv) \o e)
    <3>1. PICK a \in Seq(C), b \in Seq(C) : a = FlattenSeq(ss) /\ b = FlattenSeq(vv)
      BY <2>10
    <3>2. (a \o b) \o e = a \o (b \o e)
      BY Regroup, SMTT(30)
    <3>. QED
      BY <3>1, <3>2
  <2>. QED
    BY <2>8, <2>9, <2>11
<1>. HIDE DEF T
<1>3. \A n \in Nat : n \in T
  BY <1>1, <1>2, InductionOnSet
<1>4. Len(tt) \in Nat
  BY LenProperties
<1>. QED
  BY <1>3, <1>4 DEF T

\* The first n sequences flattened are the first n - 1, and the n-th behind them.
LEMMA FlattenUpTo ==
  ASSUME NEW C, NEW ss \in Seq(Seq(C)), NEW n \in 1 .. Len(ss)
  PROVE  /\ FlattenSeq(SubSeq(ss, 1, n)) = FlattenSeq(SubSeq(ss, 1, n - 1)) \o ss[n]
         /\ FlattenSeq(SubSeq(ss, 1, n)) \in Seq(C) /\ FlattenSeq(SubSeq(ss, 1, n - 1)) \in Seq(C)
         /\ ss[n] \in Seq(C)
<1>1. Len(ss) \in Nat /\ \A i \in 1 .. Len(ss) : ss[i] \in Seq(C)
  BY LenProperties, ElementOfSeq
<1>2. \A i \in 1 .. n : ss[i] \in Seq(C)
  BY <1>1
<1>. DEFINE Up(m) == SubSeq(ss, 1, m)
<1>0. ASSUME NEW m \in 0 .. n
      PROVE  Up(m) \in Seq(Seq(C)) /\ Len(Up(m)) = m /\ \A i \in 1 .. m : Up(m)[i] = ss[i]
  <2>1. m \in Int /\ \A i \in 1 .. m : ss[i] \in Seq(C)
    BY <1>2
  <2>. QED
    BY <2>1, SubSeqProperties
<1>. HIDE DEF Up
<1>3. PICK a \in Seq(Seq(C)) : a = Up(n - 1) /\ Len(a) = n - 1 /\ \A i \in 1 .. n - 1 : a[i] = ss[i]
  BY <1>0
<1>4. PICK b \in Seq(Seq(C)) : b = Up(n) /\ Len(b) = n /\ \A i \in 1 .. n : b[i] = ss[i]
  BY <1>0
<1>5. PICK k \in Nat : k = n - 1
  OBVIOUS
<1>6. Len(a) = k /\ Len(b) = n /\ n > k /\ n <= k + 1 /\ Agree(b, a, k) /\ n \in Nat /\ b[n] = ss[n]
  <2>1. n \in Nat /\ n \in 1 .. n /\ k + 1 = n
    BY <1>1, <1>5
  <2>2. \A i \in 1 .. k : a[i] = ss[i] /\ b[i] = ss[i]
    BY <1>3, <1>4, <1>5, <2>1, SMTT(30)
  <2>3. Agree(b, a, k)
    BY <2>2 DEF Agree
  <2>4. Len(a) = k /\ Len(b) = n /\ b[n] = ss[n]
    BY <1>3, <1>4, <1>5, <2>1
  <2>. QED
    BY <2>1, <2>3, <2>4
<1>7. FlattenSeq(b) = FlattenSeq(a) \o b[n]
  BY ONLY <1>6, a \in Seq(Seq(C)), b \in Seq(Seq(C)), k \in Nat, FlattenLonger
<1>8. FlattenSeq(a) \in Seq(C) /\ FlattenSeq(b) \in Seq(C)
  BY FlattenTyped
<1>. QED
  BY <1>1, <1>3, <1>4, <1>6, <1>7, <1>8 DEF Up

\* Mapping one sequence behind another.
LEMMA MappedConcat ==
  ASSUME NEW S, NEW T, NEW F, Maps(F, S, T), NEW a \in Seq(S), NEW b \in Seq(S)
  PROVE  Mapped(F, a \o b) = Mapped(F, a) \o Mapped(F, b)
<1>1. /\ a \o b \in Seq(S) /\ Len(a \o b) = Len(a) + Len(b) /\ Len(a) \in Nat /\ Len(b) \in Nat
      /\ \A i \in 1 .. Len(a) + Len(b) : (a \o b)[i] = IF i <= Len(a) THEN a[i] ELSE b[i - Len(a)]
  BY ConcatProperties, LenProperties
<1>2. PICK p \in Seq(T) : p = Mapped(F, a) /\ Len(p) = Len(a) /\ \A n \in 1 .. Len(a) : p[n] = F[a[n]]
  BY MappedFacts
<1>3. PICK q \in Seq(T) : q = Mapped(F, b) /\ Len(q) = Len(b) /\ \A n \in 1 .. Len(b) : q[n] = F[b[n]]
  BY MappedFacts
<1>4. PICK c \in Seq(S) : c = a \o b
  BY <1>1
<1>5. PICK r \in Seq(T) : r = Mapped(F, c) /\ Len(r) = Len(c) /\ \A n \in 1 .. Len(c) : r[n] = F[c[n]]
  BY MappedFacts
<1>6. /\ p \o q \in Seq(T) /\ Len(p \o q) = Len(p) + Len(q)
      /\ \A i \in 1 .. Len(p) + Len(q) : (p \o q)[i] = IF i <= Len(p) THEN p[i] ELSE q[i - Len(p)]
  BY ConcatProperties
<1>7. ASSUME NEW i \in 1 .. Len(r)
      PROVE  r[i] = (p \o q)[i]
  <2>1. i \in 1 .. Len(a) + Len(b)
    BY <1>1, <1>4, <1>5
  <2>2. CASE i <= Len(a)
    <3>1. i \in 1 .. Len(a)
      BY <1>1, <2>1, <2>2
    <3>2. c[i] = a[i] /\ (p \o q)[i] = p[i] /\ i \in 1 .. Len(c)
      BY <1>1, <1>2, <1>3, <1>4, <1>6, <2>1, <2>2
    <3>. QED
      BY <1>2, <1>5, <3>1, <3>2
  <2>3. CASE ~ (i <= Len(a))
    <3>1. PICK j \in 1 .. Len(b) : j = i - Len(a)
      BY <1>1, <2>1, <2>3
    <3>2. c[i] = b[j] /\ (p \o q)[i] = q[j] /\ i \in 1 .. Len(c)
      BY <1>1, <1>2, <1>3, <1>4, <1>6, <2>1, <2>3, <3>1
    <3>. QED
      BY <1>3, <1>5, <3>1, <3>2
  <2>. QED
    BY <2>2, <2>3
<1>8. Len(r) = Len(p \o q)
  BY <1>1, <1>2, <1>3, <1>4, <1>5, <1>6
<1>9. PICK t \in Seq(T) : t = p \o q
  BY <1>6
<1>10. r = t
  BY <1>7, <1>8, <1>9, SeqEqual
<1>. QED
  BY <1>2, <1>3, <1>4, <1>5, <1>9, <1>10

\* Mapping what was flattened is flattening what was mapped.
LEMMA FlattenMapped ==
  ASSUME NEW S, NEW T, NEW F, Maps(F, S, T), NEW G, Maps(G, Seq(S), Seq(T)),
         \A s \in Seq(S) : G[s] = Mapped(F, s), NEW ss \in Seq(Seq(S))
  PROVE  Mapped(F, FlattenSeq(ss)) = FlattenSeq(Mapped(G, ss))
<1>. DEFINE A == {n \in Nat : \A uu \in Seq(Seq(S)) :
                    Len(uu) = n => Mapped(F, FlattenSeq(uu)) = FlattenSeq(Mapped(G, uu))}
<1>1. 0 \in A
  <2>. SUFFICES ASSUME NEW uu \in Seq(Seq(S)), Len(uu) = 0
                PROVE  Mapped(F, FlattenSeq(uu)) = FlattenSeq(Mapped(G, uu))
    OBVIOUS
  <2>1. uu = <<>> /\ FlattenSeq(uu) = <<>>
    BY EmptySeq, FlattenIs
  <2>2. Mapped(G, uu) \in Seq(Seq(T)) /\ Len(Mapped(G, uu)) = 0
    <3>1. Mapped(G, uu) \in Seq(Seq(T)) /\ Len(Mapped(G, uu)) = Len(uu)
      BY ONLY Maps(G, Seq(S), Seq(T)), uu \in Seq(Seq(S)), MappedFacts
    <3>. QED
      BY <3>1
  <2>3. FlattenSeq(Mapped(G, uu)) = <<>>
    BY <2>2, EmptySeq, FlattenIs
  <2>4. PICK e \in Seq(S) : e = <<>>
    BY EmptySeq
  <2>5. Mapped(F, e) \in Seq(T) /\ Len(Mapped(F, e)) = Len(e)
    BY MappedFacts
  <2>6. Mapped(F, e) = <<>>
    BY <2>4, <2>5, EmptySeq
  <2>. QED
    BY <2>1, <2>3, <2>4, <2>6
<1>2. ASSUME NEW n \in Nat, n \in A
      PROVE  n + 1 \in A
  <2>. SUFFICES ASSUME NEW uu \in Seq(Seq(S)), Len(uu) = n + 1
                PROVE  Mapped(F, FlattenSeq(uu)) = FlattenSeq(Mapped(G, uu))
    OBVIOUS
  <2>1. uu # <<>>
    BY EmptySeq
  <2>2. PICK vv \in Seq(Seq(S)), e \in Seq(S) : uu = Append(vv, e)
    BY <2>1, SequenceEmptyOrAppend
  <2>3. Len(vv) \in Nat /\ Len(uu) = Len(vv) + 1
    BY <2>2, AppendProperties, LenProperties
  <2>4. Mapped(F, FlattenSeq(vv)) = FlattenSeq(Mapped(G, vv))
    <3>1. Len(vv) = n
      BY <2>3
    <3>. QED
      BY <1>2, <3>1
  <2>5. PICK g \in Seq(Seq(T)) : g = Mapped(G, vv) /\ Mapped(G, uu) = Append(g, G[e])
    BY <2>2, MappedFacts
  <2>6. PICK h \in Seq(T) : h = G[e] /\ h = Mapped(F, e)
    <3>1. Mapped(F, e) \in Seq(T)
      BY ONLY Maps(F, S, T), e \in Seq(S), MappedFacts
    <3>. QED
      BY <3>1
  <2>7. FlattenSeq(uu) = FlattenSeq(vv) \o e /\ FlattenSeq(Append(g, h)) = FlattenSeq(g) \o h
    BY <2>2, FlattenAppend
  <2>8. PICK v \in Seq(S) : v = FlattenSeq(vv)
    BY FlattenTyped
  <2>9. Mapped(F, v \o e) = Mapped(F, v) \o Mapped(F, e)
    BY ONLY Maps(F, S, T), e \in Seq(S), v \in Seq(S), MappedConcat
  <2>. QED
    BY <2>4, <2>5, <2>6, <2>7, <2>8, <2>9
<1>. HIDE DEF A
<1>3. \A n \in Nat : n \in A
  BY <1>1, <1>2, InductionOnSet
<1>4. Len(ss) \in Nat
  BY LenProperties
<1>. QED
  BY <1>3, <1>4 DEF A

-----------------------------------------------------------------------------
(* Lists of records with a text *)

\* The texts put end to end, and where the n-th ends.
Joined(ls) == FlattenSeq([n \in DOMAIN ls |-> ls[n].text])
End(ls, n) == Len(Joined(SubSeq(ls, 1, n)))

\* A list of records, all with a text over C.
HasTexts(ls, C) == \E R : ls \in Seq(R) /\ \A r \in R : r.text \in Seq(C)

\* The texts of a list are a sequence of texts.
LEMMA TextsOfList ==
  ASSUME NEW C, NEW ls, HasTexts(ls, C)
  PROVE  /\ [n \in DOMAIN ls |-> ls[n].text] \in Seq(Seq(C))
         /\ Len([n \in DOMAIN ls |-> ls[n].text]) = Len(ls)
         /\ Len(ls) \in Nat /\ DOMAIN ls = 1 .. Len(ls)
         /\ \A n \in 1 .. Len(ls) : ls[n].text \in Seq(C)
<1>1. PICK R : ls \in Seq(R) /\ \A r \in R : r.text \in Seq(C)
  BY DEF HasTexts
<1>2. Len(ls) \in Nat /\ DOMAIN ls = 1 .. Len(ls) /\ \A n \in 1 .. Len(ls) : ls[n] \in R
  BY <1>1, LenProperties, ElementOfSeq
<1>3. \A n \in 1 .. Len(ls) : ls[n].text \in Seq(C)
  BY <1>1, <1>2
<1>4. [n \in DOMAIN ls |-> ls[n].text] \in [1 .. Len(ls) -> Seq(C)]
  BY <1>2, <1>3
<1>. QED
  BY <1>2, <1>3, <1>4, SeqDef

\* They put together a text, none if there are none.
LEMMA JoinedTyped ==
  ASSUME NEW C, NEW ls, HasTexts(ls, C)
  PROVE  Joined(ls) \in Seq(C) /\ (ls = <<>> => Joined(ls) = <<>>)
<1>. DEFINE tt == [n \in DOMAIN ls |-> ls[n].text]
<1>1. tt \in Seq(Seq(C)) /\ Len(tt) = Len(ls)
  BY TextsOfList
<1>2. ls = <<>> => tt = <<>>
  BY <1>1, EmptySeq
<1>. HIDE DEF tt
<1>3. FlattenSeq(tt) \in Seq(C) /\ (tt = <<>> => FlattenSeq(tt) = <<>>)
  BY <1>1, FlattenTyped, FlattenIs
<1>. QED
  BY <1>2, <1>3 DEF Joined, tt

\* Lists with texts stay such.
LEMMA HasTextsOf ==
  ASSUME NEW C, NEW ls, NEW ms, HasTexts(ls, C), HasTexts(ms, C)
  PROVE  /\ HasTexts(ls \o ms, C)
         /\ \A r : r.text \in Seq(C) => HasTexts(Append(ls, r), C) /\ HasTexts(<<r>>, C)
         /\ \A m, n \in Int : m >= 1 /\ n <= Len(ls) => HasTexts(SubSeq(ls, m, n), C)
<1>1. PICK R : ls \in Seq(R) /\ \A r \in R : r.text \in Seq(C)
  BY DEF HasTexts
<1>2. PICK S : ms \in Seq(S) /\ \A r \in S : r.text \in Seq(C)
  BY DEF HasTexts
<1>3. HasTexts(ls \o ms, C)
  <2>1. ls \in Seq(R \cup S) /\ ms \in Seq(R \cup S)
    BY <1>1, <1>2, SeqMonotonic
  <2>2. ls \o ms \in Seq(R \cup S) /\ \A r \in R \cup S : r.text \in Seq(C)
    BY <1>1, <1>2, <2>1, ConcatProperties
  <2>. QED
    BY <2>2 DEF HasTexts
<1>4. ASSUME NEW r, r.text \in Seq(C)
      PROVE  HasTexts(Append(ls, r), C) /\ HasTexts(<<r>>, C)
  <2>1. ls \in Seq(R \cup {r}) /\ r \in R \cup {r}
    BY <1>1, SeqMonotonic
  <2>2. Append(ls, r) \in Seq(R \cup {r}) /\ <<r>> \in Seq(R \cup {r})
    BY <2>1, AppendProperties
  <2>3. \A x \in R \cup {r} : x.text \in Seq(C)
    BY <1>1, <1>4
  <2>. QED
    BY <2>2, <2>3 DEF HasTexts
<1>5. ASSUME NEW m \in Int, NEW n \in Int, m >= 1, n <= Len(ls)
      PROVE  HasTexts(SubSeq(ls, m, n), C)
  <2>1. Len(ls) \in Nat /\ \A i \in m .. n : ls[i] \in R
    BY <1>1, <1>5, LenProperties, ElementOfSeq
  <2>2. SubSeq(ls, m, n) \in Seq(R)
    BY <2>1, SubSeqProperties
  <2>. QED
    BY <1>1, <2>2 DEF HasTexts
<1>. QED
  BY <1>3, <1>4, <1>5

\* Two lists, one after the other.
LEMMA JoinedConcat ==
  ASSUME NEW C, NEW ls, NEW ms, HasTexts(ls, C), HasTexts(ms, C)
  PROVE  Joined(ls \o ms) = Joined(ls) \o Joined(ms)
<1>. DEFINE t(l) == [n \in DOMAIN l |-> l[n].text]
<1>1. HasTexts(ls \o ms, C)
  BY HasTextsOf
<1>2. /\ t(ls) \in Seq(Seq(C)) /\ Len(t(ls)) = Len(ls) /\ Len(ls) \in Nat /\ DOMAIN ls = 1 .. Len(ls)
      /\ t(ms) \in Seq(Seq(C)) /\ Len(t(ms)) = Len(ms) /\ Len(ms) \in Nat /\ DOMAIN ms = 1 .. Len(ms)
      /\ t(ls \o ms) \in Seq(Seq(C)) /\ Len(t(ls \o ms)) = Len(ls \o ms)
      /\ DOMAIN (ls \o ms) = 1 .. Len(ls \o ms)
  BY <1>1, TextsOfList
<1>3. /\ Len(ls \o ms) = Len(ls) + Len(ms)
      /\ \A i \in 1 .. Len(ls) + Len(ms) :
           (ls \o ms)[i] = IF i <= Len(ls) THEN ls[i] ELSE ms[i - Len(ls)]
  <2>1. PICK R : ls \in Seq(R)
    BY DEF HasTexts
  <2>2. PICK S : ms \in Seq(S)
    BY DEF HasTexts
  <2>3. ls \in Seq(R \cup S) /\ ms \in Seq(R \cup S)
    BY <2>1, <2>2, SeqMonotonic
  <2>. QED
    BY <2>3, ConcatProperties
<1>4. ASSUME NEW i \in 1 .. Len(ls) + Len(ms)
      PROVE  t(ls \o ms)[i] = (t(ls) \o t(ms))[i]
  <2>1. (t(ls) \o t(ms))[i] = IF i <= Len(ls) THEN t(ls)[i] ELSE t(ms)[i - Len(ls)]
    <3>. HIDE DEF t
    <3>. QED
      BY <1>2, ConcatProperties, SMTT(30)
  <2>2. t(ls \o ms)[i] = (ls \o ms)[i].text
    BY <1>2, <1>3
  <2>3. i <= Len(ls) => t(ls)[i] = ls[i].text
    BY <1>2
  <2>4. ~ (i <= Len(ls)) => t(ms)[i - Len(ls)] = ms[i - Len(ls)].text
    BY <1>2
  <2>. QED
    BY <1>3, <2>1, <2>2, <2>3, <2>4
<1>. HIDE DEF t
<1>5. t(ls) \o t(ms) \in Seq(Seq(C)) /\ Len(t(ls) \o t(ms)) = Len(ls) + Len(ms)
  BY <1>2, ConcatProperties, SMTT(30)
<1>6. t(ls \o ms) = t(ls) \o t(ms)
  BY <1>2, <1>3, <1>4, <1>5, SeqEqual
<1>7. FlattenSeq(t(ls) \o t(ms)) = FlattenSeq(t(ls)) \o FlattenSeq(t(ms))
  BY <1>2, FlattenConcat
<1>. QED
  BY <1>6, <1>7 DEF Joined, t

\* One record is its text; one more puts its text behind.
LEMMA JoinedAppend ==
  ASSUME NEW C, NEW ls, HasTexts(ls, C), NEW r, r.text \in Seq(C)
  PROVE  Joined(<<r>>) = r.text /\ Joined(Append(ls, r)) = Joined(ls) \o r.text
<1>1. Joined(<<r>>) = r.text
  <2>. DEFINE t == [n \in DOMAIN <<r>> |-> <<r>>[n].text]
  <2>1. DOMAIN <<r>> = 1 .. 1 /\ <<r>>[1] = r
    OBVIOUS
  <2>2. t = <<r.text>>
    BY <2>1
  <2>3. <<r.text>> = Append(<<>>, r.text) /\ <<>> \in Seq(Seq(C))
    BY EmptySeq
  <2>4. FlattenSeq(Append(<<>>, r.text)) = FlattenSeq(<<>>) \o r.text
    BY <2>3, FlattenAppend
  <2>5. FlattenSeq(<<>>) = <<>> /\ <<>> \o r.text = r.text
    BY <2>3, FlattenIs, ConcatEmptySeq
  <2>. HIDE DEF t
  <2>. QED
    BY <2>2, <2>3, <2>4, <2>5 DEF Joined, t
<1>2. HasTexts(<<r>>, C)
  BY HasTextsOf
<1>3. Append(ls, r) = ls \o <<r>>
  <2>1. PICK R : ls \in Seq(R)
    BY DEF HasTexts
  <2>2. ls \in Seq(R \cup {r}) /\ r \in R \cup {r}
    BY <2>1, SeqMonotonic
  <2>. QED
    BY <2>2, AppendIsConcat
<1>4. Joined(ls \o <<r>>) = Joined(ls) \o Joined(<<r>>)
  <2>. DEFINE one == <<r>>
  <2>1. HasTexts(one, C)
    BY <1>2
  <2>. HIDE DEF one
  <2>2. Joined(ls \o one) = Joined(ls) \o Joined(one)
    BY <2>1, JoinedConcat
  <2>. QED
    BY <2>2 DEF one
<1>. QED
  BY <1>1, <1>3, <1>4

\* A beginning of such a list is one.
LEMMA BeginningHasTexts ==
  ASSUME NEW C, NEW ls, HasTexts(ls, C), NEW n \in 0 .. Len(ls)
  PROVE  HasTexts(SubSeq(ls, 1, n), C)
<1>1. Len(ls) \in Nat
  BY TextsOfList
<1>2. 1 \in Int /\ n \in Int /\ 1 >= 1 /\ n <= Len(ls)
  BY <1>1
<1>. QED
  BY <1>2, HasTextsOf

\* The text up to the n-th record is that up to the one before and its own.
LEMMA JoinedUpTo ==
  ASSUME NEW C, NEW ls, HasTexts(ls, C), NEW n \in 1 .. Len(ls)
  PROVE  /\ Joined(SubSeq(ls, 1, n)) = Joined(SubSeq(ls, 1, n - 1)) \o ls[n].text
         /\ HasTexts(SubSeq(ls, 1, n), C) /\ HasTexts(SubSeq(ls, 1, n - 1), C)
         /\ ls[n].text \in Seq(C)
<1>1. PICK R : ls \in Seq(R) /\ \A r \in R : r.text \in Seq(C)
  BY DEF HasTexts
<1>2. Len(ls) \in Nat /\ ls[n] \in R /\ ls[n].text \in Seq(C)
  BY <1>1, LenProperties, ElementOfSeq
<1>3. /\ 1 \in 1 .. Len(ls) /\ n \in 1 .. Len(ls)
      /\ 1 \in Int /\ n \in Int /\ n - 1 \in Int /\ n <= Len(ls) /\ n - 1 <= Len(ls)
  BY <1>2
<1>4. HasTexts(SubSeq(ls, 1, n), C) /\ HasTexts(SubSeq(ls, 1, n - 1), C)
  BY <1>3, HasTextsOf
<1>5. SubSeq(ls, 1, n) = Append(SubSeq(ls, 1, n - 1), ls[n])
  <2>1. SubSeq(ls, 1, n) = SubSeq(ls, 1, n - 1) \o <<ls[n]>>
    BY <1>1, <1>3, SubSeqRecursiveSecond
  <2>2. \A i \in 1 .. n - 1 : ls[i] \in R
    BY <1>1, <1>2, ElementOfSeq
  <2>3. SubSeq(ls, 1, n - 1) \in Seq(R)
    BY <1>3, <2>2, SubSeqProperties
  <2>. QED
    BY <1>2, <2>1, <2>3, AppendIsConcat
<1>6. Joined(Append(SubSeq(ls, 1, n - 1), ls[n])) = Joined(SubSeq(ls, 1, n - 1)) \o ls[n].text
  BY <1>2, <1>4, JoinedAppend, ZenonT(30)
<1>. QED
  BY <1>2, <1>4, <1>5, <1>6

\* Each record ends where the one before it does, and its own text later.
LEMMA EndStep ==
  ASSUME NEW C, NEW ls, HasTexts(ls, C)
  PROVE  /\ End(ls, 0) = 0 /\ End(ls, Len(ls)) = Len(Joined(ls))
         /\ \A n \in 0 .. Len(ls) : End(ls, n) \in Nat
         /\ \A n \in 1 .. Len(ls) : End(ls, n) = End(ls, n - 1) + Len(ls[n].text)
<1>1. Len(ls) \in Nat /\ \A n \in 1 .. Len(ls) : ls[n].text \in Seq(C)
  BY TextsOfList
<1>2. End(ls, 0) = 0
  <2>1. SubSeq(ls, 1, 0) = <<>>
    BY SubSeqEmpty
  <2>2. HasTexts(SubSeq(ls, 1, 0), C)
    BY <1>1, BeginningHasTexts
  <2>3. Joined(<<>>) = <<>>
    BY <2>1, <2>2, JoinedTyped
  <2>4. Len(<<>>) = 0
    OBVIOUS
  <2>. QED
    BY <2>1, <2>3, <2>4 DEF End
<1>3. End(ls, Len(ls)) = Len(Joined(ls))
  <2>1. PICK R : ls \in Seq(R)
    BY DEF HasTexts
  <2>2. SubSeq(ls, 1, Len(ls)) = ls
    BY <2>1, SubSeqFull
  <2>. QED
    BY <2>2 DEF End
<1>4. ASSUME NEW n \in 0 .. Len(ls)
      PROVE  End(ls, n) \in Nat
  <2>1. HasTexts(SubSeq(ls, 1, n), C)
    BY BeginningHasTexts
  <2>2. Joined(SubSeq(ls, 1, n)) \in Seq(C)
    BY <2>1, JoinedTyped
  <2>. QED
    BY <2>2, LenProperties DEF End
<1>5. ASSUME NEW n \in 1 .. Len(ls)
      PROVE  End(ls, n) = End(ls, n - 1) + Len(ls[n].text)
  <2>. DEFINE a == Joined(SubSeq(ls, 1, n - 1))
  <2>1. /\ Joined(SubSeq(ls, 1, n)) = a \o ls[n].text
        /\ HasTexts(SubSeq(ls, 1, n - 1), C) /\ ls[n].text \in Seq(C)
    BY JoinedUpTo
  <2>2. a \in Seq(C)
    BY <2>1, JoinedTyped
  <2>. HIDE DEF a
  <2>3. Len(a \o ls[n].text) = Len(a) + Len(ls[n].text)
    BY <2>1, <2>2, ConcatProperties
  <2>. QED
    BY <2>1, <2>3 DEF End, a
<1>. QED
  BY <1>2, <1>3, <1>4, <1>5

\* Later records end later, if they have a text of their own.
LEMMA EndsInOrder ==
  ASSUME NEW C, NEW ls, HasTexts(ls, C)
  PROVE  \A n \in 0 .. Len(ls) : \A m \in 0 .. n :
           /\ End(ls, m) <= End(ls, n)
           /\ (m < n /\ \A k \in 1 .. Len(ls) : ls[k].text # <<>>) => End(ls, m) < End(ls, n)
<1>. DEFINE full == \A k \in 1 .. Len(ls) : ls[k].text # <<>>
            P(n) == \A m \in 0 .. n : End(ls, m) <= End(ls, n) /\ (m < n /\ full => End(ls, m) < End(ls, n))
            T == {n \in Nat : n <= Len(ls) => P(n)}
<1>1. /\ Len(ls) \in Nat
      /\ \A n \in 0 .. Len(ls) : End(ls, n) \in Nat
      /\ \A n \in 1 .. Len(ls) : ls[n].text \in Seq(C) /\ End(ls, n) = End(ls, n - 1) + Len(ls[n].text)
  BY TextsOfList, EndStep
<1>2. \A n \in 1 .. Len(ls) : Len(ls[n].text) \in Nat /\ (full => Len(ls[n].text) > 0)
  BY <1>1, LenProperties, EmptySeq
<1>. HIDE DEF full
<1>3. 0 \in T
  <2>1. \A m \in 0 .. 0 : m = 0
    OBVIOUS
  <2>2. End(ls, 0) <= End(ls, 0)
    BY <1>1
  <2>. QED
    BY <2>1, <2>2
<1>4. ASSUME NEW n \in Nat, n \in T
      PROVE  n + 1 \in T
  <2>. SUFFICES ASSUME n + 1 <= Len(ls), NEW m \in 0 .. n + 1
                PROVE  /\ End(ls, m) <= End(ls, n + 1)
                       /\ m < n + 1 /\ full => End(ls, m) < End(ls, n + 1)
    OBVIOUS
  <2>. DEFINE k == n + 1
  <2>1. /\ k \in 1 .. Len(ls) /\ k \in 0 .. Len(ls) /\ k - 1 = n /\ n \in 0 .. Len(ls) /\ m \in 0 .. Len(ls)
        /\ m = k \/ m \in 0 .. n
    BY <1>1
  <2>. HIDE DEF k
  <2>2. /\ End(ls, k) \in Nat /\ End(ls, n) \in Nat /\ End(ls, m) \in Nat
        /\ End(ls, k) = End(ls, n) + Len(ls[k].text)
        /\ Len(ls[k].text) \in Nat /\ (full => Len(ls[k].text) > 0)
    BY <1>1, <1>2, <2>1
  <2>3. m \in 0 .. n => End(ls, m) <= End(ls, n)
    BY <1>4, <2>1
  <2>4. m = k => ~ (m < k)
    BY <2>1
  <2>. QED
    BY <2>1, <2>2, <2>3, <2>4 DEF k
<1>. HIDE DEF T
<1>5. \A n \in Nat : n \in T
  BY <1>3, <1>4, InductionOnSet
<1>. QED
  BY <1>1, <1>5 DEF T, full

\* What is in front of the n-th record alone says where it ends.
LEMMA EndsAgree ==
  ASSUME NEW C, NEW ls, NEW ms, HasTexts(ls, C), HasTexts(ms, C),
         NEW k \in Nat, k <= Len(ls), k <= Len(ms), Agree(ls, ms, k)
  PROVE  \A n \in 0 .. k : /\ End(ls, n) = End(ms, n)
                            /\ Joined(SubSeq(ls, 1, n)) = Joined(SubSeq(ms, 1, n))
<1>1. PICK R : ls \in Seq(R)
  BY DEF HasTexts
<1>2. PICK S : ms \in Seq(S)
  BY DEF HasTexts
<1>3. ASSUME NEW n \in 0 .. k
      PROVE  SubSeq(ls, 1, n) = SubSeq(ms, 1, n)
  <2>. DEFINE a == SubSeq(ls, 1, n)
              b == SubSeq(ms, 1, n)
  <2>1. /\ Len(ls) \in Nat /\ Len(ms) \in Nat
        /\ \A i \in 1 .. n : ls[i] \in R /\ ms[i] \in R /\ ls[i] = ms[i]
    BY <1>1, <1>2, LenProperties, ElementOfSeq DEF Agree
  <2>2. /\ 1 \in Int /\ n \in Int /\ n - 1 + 1 = n /\ \A i \in 1 .. n : 1 + i - 1 = i
        /\ (IF 1 <= n THEN n - 1 + 1 ELSE 0) = n
    OBVIOUS
  <2>3. /\ a \in Seq(R) /\ Len(a) = n /\ \A i \in 1 .. n : a[i] = ls[i]
    BY <2>1, <2>2, SubSeqProperties
  <2>4. /\ b \in Seq(R) /\ Len(b) = n /\ \A i \in 1 .. n : b[i] = ms[i]
    BY <2>1, <2>2, SubSeqProperties
  <2>. HIDE DEF a, b
  <2>5. a = b
    BY <2>1, <2>3, <2>4, SeqEqual
  <2>. QED
    BY <2>5 DEF a, b
<1>. QED
  BY <1>3 DEF End

\* A list grows by a text: its last record gets longer, or a record is added.
Lengthened(ls, ms, t) ==
  /\ ls # <<>> /\ Len(ms) = Len(ls) /\ Agree(ls, ms, Len(ls) - 1)
  /\ ms[Len(ls)].text = ls[Len(ls)].text \o t

Continued(ls, ms, t) ==
  Len(ms) = Len(ls) + 1 /\ Agree(ls, ms, Len(ls)) /\ ms[Len(ls) + 1].text = t

Grown(ls, ms, t) == Lengthened(ls, ms, t) \/ Continued(ls, ms, t)

\* The text comes behind the others, and no record but the last ends elsewhere.
LEMMA GrownFacts ==
  ASSUME NEW C, NEW ls, NEW ms, NEW t \in Seq(C), HasTexts(ls, C), HasTexts(ms, C), Grown(ls, ms, t)
  PROVE  /\ Joined(ms) = Joined(ls) \o t
         /\ Len(ms) - 1 \in 0 .. Len(ls) /\ Len(ls) <= Len(ms) /\ Len(ls) \in Nat /\ Len(ms) \in Nat \ {0}
         /\ \A n \in 0 .. Len(ms) - 1 : End(ms, n) = End(ls, n)
         /\ End(ms, Len(ms)) = End(ls, Len(ls)) + Len(t)
<1>. DEFINE n == Len(ls)
            m == Len(ms)
<1>1. /\ n \in Nat /\ m \in Nat
      /\ \E R : ls \in Seq(R)
      /\ \E R : ms \in Seq(R)
      /\ ls # <<>> => n # 0
  BY TextsOfList, EmptySeq DEF HasTexts
<1>2. /\ SubSeq(ls, 1, n) = ls
      /\ SubSeq(ms, 1, m) = ms
  <2>1. PICK R : ls \in Seq(R)
    BY <1>1
  <2>2. PICK S : ms \in Seq(S)
    BY <1>1
  <2>. QED
    BY <2>1, <2>2, SubSeqFull
<1>3. Joined(ls) \in Seq(C)
  BY JoinedTyped
<1>4. CASE Lengthened(ls, ms, t)
  <2>1. n \in 1 .. n /\ m = n /\ n - 1 \in Nat /\ n - 1 <= n /\ n - 1 <= m /\ Agree(ls, ms, n - 1)
    BY <1>1, <1>4 DEF Lengthened
  <2>. HIDE DEF n, m
  <2>2. /\ Joined(SubSeq(ls, 1, n)) = Joined(SubSeq(ls, 1, n - 1)) \o ls[n].text
        /\ HasTexts(SubSeq(ls, 1, n - 1), C) /\ ls[n].text \in Seq(C)
    BY <2>1, JoinedUpTo DEF n
  <2>3. Joined(SubSeq(ms, 1, n)) = Joined(SubSeq(ms, 1, n - 1)) \o ms[n].text
    BY <2>1, JoinedUpTo DEF m
  <2>4. \A k \in 0 .. n - 1 : /\ End(ls, k) = End(ms, k)
                              /\ Joined(SubSeq(ls, 1, k)) = Joined(SubSeq(ms, 1, k))
    BY <2>1, EndsAgree DEF n, m
  <2>5. n - 1 \in 0 .. n - 1
    BY <2>1
  <2>6. PICK a \in Seq(C) : a = Joined(SubSeq(ls, 1, n - 1))
    BY <2>2, JoinedTyped
  <2>7. ms[n].text = ls[n].text \o t
    BY <1>4 DEF Lengthened, n
  <2>8. Joined(ms) = a \o (ls[n].text \o t) /\ Joined(ls) = a \o ls[n].text
    BY <1>2, <2>1, <2>2, <2>3, <2>4, <2>5, <2>6, <2>7
  <2>9. (a \o ls[n].text) \o t = a \o (ls[n].text \o t)
    <3>1. PICK b \in Seq(C) : b = ls[n].text
      BY <2>2
    <3>2. (a \o b) \o t = a \o (b \o t)
      BY Regroup
    <3>. QED
      BY <3>1, <3>2
  <2>10. Joined(ms) = Joined(ls) \o t
    BY <2>8, <2>9
  <2>. QED
    <3>1. End(ms, m) = Len(Joined(ms)) /\ End(ls, n) = Len(Joined(ls))
      BY EndStep DEF m, n
    <3>2. Len(Joined(ls) \o t) = Len(Joined(ls)) + Len(t)
      BY <1>3, ConcatProperties
    <3>3. m - 1 \in 0 .. n /\ n <= m /\ n \in Nat /\ m \in Nat \ {0}
      BY <2>1
    <3>4. \A k \in 0 .. m - 1 : End(ms, k) = End(ls, k)
      BY <2>1, <2>4
    <3>5. End(ms, m) = End(ls, n) + Len(t)
      BY <2>10, <3>1, <3>2
    <3>. QED
      BY <2>10, <3>3, <3>4, <3>5 DEF m, n
<1>5. CASE Continued(ls, ms, t)
  <2>1. m \in 1 .. m /\ n = m - 1 /\ n \in Nat /\ n <= n /\ n <= m /\ Agree(ls, ms, n) /\ ms[m].text = t
    BY <1>1, <1>5 DEF Continued
  <2>. HIDE DEF n, m
  <2>2. Joined(SubSeq(ms, 1, m)) = Joined(SubSeq(ms, 1, m - 1)) \o ms[m].text
    BY <2>1, JoinedUpTo DEF m
  <2>3. \A k \in 0 .. n : /\ End(ls, k) = End(ms, k)
                          /\ Joined(SubSeq(ls, 1, k)) = Joined(SubSeq(ms, 1, k))
    BY <2>1, EndsAgree DEF n, m
  <2>4. n \in 0 .. n
    BY <2>1
  <2>5. Joined(ms) = Joined(ls) \o t
    BY <1>2, <2>1, <2>2, <2>3, <2>4
  <2>. QED
    <3>1. End(ms, m) = Len(Joined(ms)) /\ End(ls, n) = Len(Joined(ls))
      BY EndStep DEF m, n
    <3>2. Len(Joined(ls) \o t) = Len(Joined(ls)) + Len(t)
      BY <1>3, ConcatProperties
    <3>3. m - 1 \in 0 .. n /\ n <= m /\ n \in Nat /\ m \in Nat \ {0}
      BY <2>1
    <3>4. \A k \in 0 .. m - 1 : End(ms, k) = End(ls, k)
      BY <2>1, <2>3
    <3>5. End(ms, m) = End(ls, n) + Len(t)
      BY <2>5, <3>1, <3>2
    <3>. QED
      BY <2>5, <3>3, <3>4, <3>5 DEF m, n
<1>. QED
  BY <1>4, <1>5 DEF Grown

\* The positions i .. j of the text are in the n-th record.
Holds(ls, n, i, j) == End(ls, n - 1) < i /\ j <= End(ls, n)

\* What a record holds it goes on holding; the last one holds what is new.
LEMMA GrownHolds ==
  ASSUME NEW C, NEW ls, NEW ms, NEW t \in Seq(C), HasTexts(ls, C), HasTexts(ms, C), Grown(ls, ms, t)
  PROVE  /\ \A n \in 1 .. Len(ls) : \A i, j \in Int :
              Holds(ls, n, i, j) => n \in 1 .. Len(ms) /\ Holds(ms, n, i, j)
         /\ \A i, j \in Int :
              End(ls, Len(ls)) < i /\ j <= End(ms, Len(ms)) => Holds(ms, Len(ms), i, j)
<1>1. /\ Len(ms) - 1 \in 0 .. Len(ls) /\ Len(ls) <= Len(ms) /\ Len(ls) \in Nat /\ Len(ms) \in Nat \ {0}
      /\ \A n \in 0 .. Len(ms) - 1 : End(ms, n) = End(ls, n)
      /\ End(ms, Len(ms)) = End(ls, Len(ls)) + Len(t)
  BY GrownFacts
<1>2. /\ \A n \in 0 .. Len(ls) : End(ls, n) \in Nat
      /\ Len(t) \in Nat
  BY EndStep, LenProperties
<1>3. ASSUME NEW n \in 1 .. Len(ls), NEW i \in Int, NEW j \in Int, Holds(ls, n, i, j)
      PROVE  n \in 1 .. Len(ms) /\ Holds(ms, n, i, j)
  <2>1. n \in 1 .. Len(ms) /\ n - 1 \in 0 .. Len(ms) - 1 /\ n \in 0 .. Len(ls)
    BY <1>1
  <2>2. End(ls, n) <= End(ms, n)
    <3>1. CASE n \in 0 .. Len(ms) - 1
      BY <1>1, <1>2, <2>1, <3>1
    <3>2. CASE n = Len(ms)
      <4>1. n = Len(ls)
        BY <1>1, <3>2
      <4>. QED
        BY <1>1, <1>2, <2>1, <3>2, <4>1
    <3>. QED
      BY <1>1, <2>1, <3>1, <3>2
  <2>3. End(ms, n - 1) = End(ls, n - 1) /\ End(ls, n) \in Nat /\ End(ms, n) \in Int
    <3>1. HasTexts(ms, C) /\ n \in 0 .. Len(ms)
      BY <1>1, <2>1
    <3>. QED
      BY <1>1, <1>2, <2>1, <3>1, EndStep
  <2>4. End(ls, n - 1) < i /\ j <= End(ls, n)
    BY <1>3 DEF Holds
  <2>. QED
    BY <2>1, <2>2, <2>3, <2>4 DEF Holds
<1>4. ASSUME NEW i \in Int, NEW j \in Int, End(ls, Len(ls)) < i, j <= End(ms, Len(ms))
      PROVE  Holds(ms, Len(ms), i, j)
  <2>1. Len(ms) - 1 \in 0 .. Len(ms) - 1 /\ Len(ls) \in 0 .. Len(ls) /\ Len(ms) - 1 \in 0 .. Len(ls)
    BY <1>1
  <2>2. End(ls, Len(ms) - 1) <= End(ls, Len(ls))
    <3>. DEFINE n == Len(ls)
                m == Len(ms) - 1
    <3>1. n \in 0 .. Len(ls) /\ m \in 0 .. n
      BY <2>1
    <3>. HIDE DEF n, m
    <3>2. End(ls, m) <= End(ls, n)
      BY <3>1, EndsInOrder
    <3>. QED
      BY <3>2 DEF n, m
  <2>3. End(ms, Len(ms) - 1) = End(ls, Len(ms) - 1) /\ End(ls, Len(ms) - 1) \in Nat
        /\ End(ls, Len(ls)) \in Nat
    BY <1>1, <1>2, <2>1
  <2>. QED
    BY <1>4, <2>2, <2>3 DEF Holds
<1>. QED
  BY <1>3, <1>4

\* No position is in two records.
LEMMA HoldsOnce ==
  ASSUME NEW C, NEW ls, HasTexts(ls, C), NEW n \in 1 .. Len(ls), NEW m \in 1 .. Len(ls),
         NEW k \in Int, Holds(ls, n, k, k), Holds(ls, m, k, k)
  PROVE  n = m
<1>1. /\ Len(ls) \in Nat
      /\ \A i \in 0 .. Len(ls) : End(ls, i) \in Nat
      /\ \A i \in 0 .. Len(ls) : \A j \in 0 .. i : End(ls, j) <= End(ls, i)
  BY TextsOfList, EndStep, EndsInOrder
<1>2. ASSUME NEW i \in 1 .. Len(ls), NEW j \in 1 .. Len(ls), i < j, Holds(ls, i, k, k), Holds(ls, j, k, k)
      PROVE  FALSE
  <2>1. i \in 0 .. Len(ls) /\ j - 1 \in 0 .. Len(ls) /\ i \in 0 .. j - 1
    BY <1>1, <1>2
  <2>2. End(ls, i) <= End(ls, j - 1) /\ End(ls, i) \in Nat /\ End(ls, j - 1) \in Nat
    BY <1>1, <2>1
  <2>. QED
    BY <1>2, <2>2 DEF Holds
<1>3. n < m \/ m < n \/ n = m
  BY <1>1
<1>. QED
  BY <1>2, <1>3
=============================================================================
