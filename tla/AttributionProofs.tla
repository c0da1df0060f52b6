------------------------- MODULE AttributionProofs -------------------------
(***************************************************************************)
(* Lemmas about the operators of Attribution, for any text, any labels and *)
(* any verdicts: where append_placed puts characters, how far a word       *)
(* reaches, and how the loop of Engine::attribute numbers speakers.  They  *)
(* serve the proofs about AttributionLoop and EngineRun.                   *)
(***************************************************************************)
EXTENDS Attribution, SequenceFacts, FiniteSetTheorems

-----------------------------------------------------------------------------
(* Placement *)

\* The quotient of two numbers is within its bounds.
LEMMA DivFacts ==
  ASSUME NEW a \in Nat, NEW d \in Nat \ {0}
  PROVE  a \div d \in Nat /\ d * (a \div d) <= a /\ a < d * (a \div d) + d
OBVIOUS

\* The i-th of n steps along e samples, rounded, is on the way, the steps are in
\* order, and a step and the width of one are at most a sample too far.
LEMMA RoundedFacts ==
  ASSUME NEW n \in Nat \ {0}, NEW e \in Nat, NEW i \in 0 .. n - 1
  PROVE  /\ Rounded(i * e, n) \in Nat /\ Rounded(i * e, n) <= e
         /\ Rounded(e, n) \in Nat
         /\ Rounded(i * e, n) + Rounded(e, n) <= e + 1
         /\ \A j \in i .. n - 1 : Rounded(i * e, n) <= Rounded(j * e, n)
<1>1. /\ i * e \in Nat /\ n * e \in Nat /\ i * e + e <= n * e
      /\ \A j \in i .. n - 1 : j * e \in Nat /\ i * e <= j * e
  <2>1. (i + 1) * e = i * e + e /\ (i + 1) * e <= n * e /\ i * e \in Nat /\ n * e \in Nat
    OBVIOUS
  <2>2. \A j \in i .. n - 1 : j * e \in Nat /\ i * e <= j * e
    OBVIOUS
  <2>. QED
    BY <2>1, <2>2
<1>2. \A m \in Nat : /\ Rounded(m, n) \in Nat
                     /\ (2 * n) * Rounded(m, n) <= 2 * m + n
                     /\ 2 * m + n < (2 * n) * Rounded(m, n) + 2 * n
  <2>. SUFFICES ASSUME NEW m \in Nat
                PROVE  /\ Rounded(m, n) \in Nat
                       /\ (2 * n) * Rounded(m, n) <= 2 * m + n
                       /\ 2 * m + n < (2 * n) * Rounded(m, n) + 2 * n
    OBVIOUS
  <2>1. 2 * m + n \in Nat /\ 2 * n \in Nat \ {0}
    OBVIOUS
  <2>. QED
    BY <2>1, DivFacts DEF Rounded
<1>. DEFINE q == Rounded(i * e, n)
            w == Rounded(e, n)
<1>3. q \in Nat /\ w \in Nat /\ (2 * n) * q <= 2 * (i * e) + n /\ (2 * n) * w <= 2 * e + n
  BY <1>1, <1>2
<1>. HIDE DEF q, w
<1>4. (2 * n) * (q + w) <= (2 * n) * (e + 1)
  BY <1>1, <1>3
<1>5. q + w <= e + 1
  BY <1>3, <1>4
<1>6. q <= e
  BY <1>1, <1>3
<1>7. ASSUME NEW j \in i .. n - 1
      PROVE  q <= Rounded(j * e, n)
  <2>. DEFINE r == Rounded(j * e, n)
  <2>1. r \in Nat /\ 2 * (j * e) + n < (2 * n) * r + 2 * n /\ (2 * n) * q <= 2 * (i * e) + n
    BY <1>1, <1>2, <1>3
  <2>. HIDE DEF r
  <2>2. (2 * n) * q < (2 * n) * r + 2 * n
    BY <1>1, <1>3, <2>1
  <2>3. q < r + 1
    BY <1>3, <2>1, <2>2
  <2>. QED
    BY <1>3, <2>1, <2>3 DEF r
<1>. QED
  BY <1>3, <1>5, <1>6, <1>7 DEF q, w

Span == [start : Nat, end : Nat]

\* Sequences of places, and two of them end to end.
LEMMA SpansFacts ==
  ASSUME NEW a \in Seq(Span)
  PROVE  /\ Len(a) \in Nat /\ DOMAIN a = 1 .. Len(a)
         /\ \A k \in 1 .. Len(a) : a[k].start \in Nat /\ a[k].end \in Nat
<1>1. \A k \in 1 .. Len(a) : a[k] \in Span
  BY ElementOfSeq
<1>. QED
  BY <1>1, LenProperties DEF Span

\* Spans placed after others keep their order in the whole.
LEMMA SpansJoined ==
  ASSUME NEW a \in Seq(Span), NEW b \in Seq(Span)
  PROVE  LET c == a \o b
         IN  /\ c \in Seq(Span) /\ Len(c) = Len(a) + Len(b) /\ DOMAIN c = 1 .. Len(a) + Len(b)
             /\ \A k \in 1 .. Len(a) : c[k] = a[k]
             /\ \A k \in Len(a) + 1 .. Len(a) + Len(b) :
                  k - Len(a) \in 1 .. Len(b) /\ c[k] = b[k - Len(a)]
<1>. DEFINE c == a \o b
<1>1. Len(a) \in Nat /\ Len(b) \in Nat
  BY SpansFacts
<1>2. /\ c \in Seq(Span) /\ Len(c) = Len(a) + Len(b)
      /\ \A k \in 1 .. Len(a) + Len(b) : c[k] = IF k <= Len(a) THEN a[k] ELSE b[k - Len(a)]
  BY ConcatProperties
<1>. HIDE DEF c
<1>3. DOMAIN c = 1 .. Len(a) + Len(b)
  BY <1>2, SpansFacts
<1>4. \A k \in 1 .. Len(a) : c[k] = a[k]
  BY <1>1, <1>2
<1>5. \A k \in Len(a) + 1 .. Len(a) + Len(b) :
        k - Len(a) \in 1 .. Len(b) /\ c[k] = b[k - Len(a)]
  BY <1>1, <1>2
<1>. QED
  BY <1>2, <1>3, <1>4, <1>5 DEF c

\* The characters of an interval: in order, of positive width, none before the
\* interval, none more than a sample past its end, an empty one counting as one
\* sample long.
LEMMA PlacedFacts ==
  ASSUME NEW n \in Nat, NEW from \in Nat, NEW to \in Nat, NEW exact \in BOOLEAN
  PROVE  LET p == Placed(n, from, to, exact)
         IN  /\ p \in Seq(Span) /\ Len(p) = n
             /\ \A i \in 1 .. n : /\ from <= p[i].start /\ p[i].start < p[i].end
                                  /\ p[i].end <= (IF to <= from THEN from + 1 ELSE to) + 1
             /\ \A i, j \in 1 .. n : i <= j => p[i].start <= p[j].start
<1>. DEFINE last == IF to <= from THEN from + 1 ELSE to
            est == IF exact THEN last - from ELSE Smaller(last - from, n * CharDur)
            At(i) == last - est + Rounded((i - 1) * est, n)
            p == Placed(n, from, to, exact)
<1>1. last \in Nat /\ n * CharDur \in Nat /\ est \in 0 .. last - from
  BY CharDurAssumption DEF Smaller
<1>2. p = [i \in 1 .. n |-> [start |-> At(i), end |-> At(i) + Larger(1, Rounded(est, n))]]
  BY DEF Placed
<1>. HIDE DEF last, est, p
<1>3. ASSUME NEW i \in 1 .. n
      PROVE  /\ Rounded((i - 1) * est, n) \in Nat /\ Rounded((i - 1) * est, n) <= est
             /\ Rounded(est, n) \in Nat
             /\ Rounded((i - 1) * est, n) + Rounded(est, n) <= est + 1
             /\ \A j \in 1 .. n : i <= j => Rounded((i - 1) * est, n) <= Rounded((j - 1) * est, n)
  <2>1. n \in Nat \ {0} /\ est \in Nat /\ i - 1 \in 0 .. n - 1
    BY <1>1
  <2>2. \A j \in 1 .. n : i <= j => j - 1 \in i - 1 .. n - 1
    OBVIOUS
  <2>. QED
    BY <2>1, <2>2, RoundedFacts
<1>4. ASSUME NEW i \in 1 .. n
      PROVE  /\ At(i) \in Nat /\ from <= At(i)
             /\ At(i) + Larger(1, Rounded(est, n)) \in Nat
             /\ At(i) < At(i) + Larger(1, Rounded(est, n))
             /\ At(i) + Larger(1, Rounded(est, n)) <= last + 1
             /\ \A j \in 1 .. n : i <= j => At(i) <= At(j)
  <2>. DEFINE r(j) == Rounded((j - 1) * est, n)
              w == Rounded(est, n)
  <2>1. /\ r(i) \in Nat /\ r(i) <= est /\ w \in Nat /\ r(i) + w <= est + 1
        /\ \A j \in 1 .. n : r(j) \in Nat /\ (i <= j => r(i) <= r(j))
    BY <1>3
  <2>2. \A j \in 1 .. n : At(j) = last - est + r(j)
    OBVIOUS
  <2>3. Larger(1, w) \in {1, w} /\ Larger(1, w) >= 1
    BY <2>1 DEF Larger
  <2>. HIDE DEF r, w, At
  <2>4. /\ At(i) \in Nat /\ from <= At(i)
        /\ At(i) + Larger(1, w) \in Nat
        /\ At(i) < At(i) + Larger(1, w)
        /\ At(i) + Larger(1, w) <= last + 1
    BY <1>1, <2>1, <2>2, <2>3
  <2>5. \A j \in 1 .. n : i <= j => At(i) <= At(j)
    BY <1>1, <2>1, <2>2
  <2>. QED
    BY <2>4, <2>5 DEF w
<1>. HIDE DEF At
<1>5. p \in [1 .. n -> Span]
  BY <1>2, <1>4 DEF Span
<1>6. p \in Seq(Span) /\ Len(p) = n
  BY <1>5, SeqDef
<1>7. \A i \in 1 .. n : /\ from <= p[i].start /\ p[i].start < p[i].end
                        /\ p[i].end <= last + 1
  BY <1>2, <1>4
<1>8. \A i, j \in 1 .. n : i <= j => p[i].start <= p[j].start
  BY <1>2, <1>4
<1>. QED
  BY <1>6, <1>7, <1>8 DEF p, last
-----------------------------------------------------------------------------
(* Words *)

\* A unit ends where it starts or later, inside the text.
LEMMA UnitEndFacts ==
  ASSUME NEW C, NEW s \in Seq(C), NEW i \in 1 .. Len(s)
  PROVE  UnitEnd(s, i) \in i .. Len(s)
<1>. DEFINE inWord == {j \in i .. Len(s) : \A k \in i .. j : s[k] \in Letter}
<1>1. CASE inWord = {}
  BY <1>1 DEF UnitEnd
<1>2. CASE inWord # {}
  <2>1. Len(s) \in Nat /\ inWord \subseteq 0 .. Len(s) /\ inWord \subseteq i .. Len(s)
    OBVIOUS
  <2>2. UnitEnd(s, i) = Max(inWord)
    BY <1>2 DEF UnitEnd
  <2>. HIDE DEF inWord
  <2>3. Max(inWord) \in inWord
    BY <1>2, <2>1, MaxFacts
  <2>. QED
    BY <2>1, <2>2, <2>3
<1>. QED
  BY <1>1, <1>2

\* The places of a text where a unit may begin: behind p characters, no unit
\* that begins before them going on.
UnitBorder(text, p) == \A h \in 1 .. p : UnitEnd(text, h) <= p

\* A unit is one character that is no letter, or as many letters as there are.
LEMMA UnitEndIs ==
  ASSUME NEW C, NEW s \in Seq(C), NEW i \in 1 .. Len(s)
  PROVE  /\ s[i] \notin Letter => UnitEnd(s, i) = i
         /\ s[i] \in Letter =>
              /\ \A k \in i .. UnitEnd(s, i) : s[k] \in Letter
              /\ \A j \in i .. Len(s) : (\A k \in i .. j : s[k] \in Letter) => j <= UnitEnd(s, i)
<1>. DEFINE inWord == {j \in i .. Len(s) : \A k \in i .. j : s[k] \in Letter}
<1>1. Len(s) \in Nat /\ inWord \subseteq 0 .. Len(s)
  OBVIOUS
<1>2. CASE s[i] \notin Letter
  <2>1. inWord = {}
    BY <1>2
  <2>. QED
    BY <1>2, <2>1 DEF UnitEnd
<1>3. CASE s[i] \in Letter
  <2>1. i \in inWord
    BY <1>3
  <2>2. UnitEnd(s, i) = Max(inWord)
    BY <2>1 DEF UnitEnd
  <2>. HIDE DEF inWord
  <2>3. Max(inWord) \in inWord /\ \A j \in inWord : j <= Max(inWord)
    BY <1>1, <2>1, MaxFacts
  <2>. QED
    BY <1>3, <2>2, <2>3 DEF inWord
<1>. QED
  BY <1>2, <1>3

\* Units follow each other: where one ends, none that began earlier goes on, and
\* a word does not go on either.
LEMMA BorderFacts ==
  ASSUME NEW C, NEW s \in Seq(C)
  PROVE  /\ \A i \in 1 .. Len(s) : UnitBorder(s, i - 1) => UnitBorder(s, UnitEnd(s, i))
         /\ \A p \in 1 .. Len(s) - 1 : UnitBorder(s, p) => ~ (s[p] \in Letter /\ s[p + 1] \in Letter)
<1>1. Len(s) \in Nat /\ \A i \in 1 .. Len(s) : UnitEnd(s, i) \in i .. Len(s)
  BY UnitEndFacts
<1>2. ASSUME NEW i \in 1 .. Len(s), UnitBorder(s, i - 1), NEW h \in 1 .. UnitEnd(s, i)
      PROVE  UnitEnd(s, h) <= UnitEnd(s, i)
  <2>. DEFINE e == UnitEnd(s, i)
              g == UnitEnd(s, h)
  <2>1. h \in 1 .. Len(s) /\ e \in i .. Len(s) /\ g \in h .. Len(s)
    BY <1>1
  <2>2. CASE h <= i - 1
    <3>1. h \in 1 .. i - 1
      BY <2>1, <2>2
    <3>2. g <= i - 1
      BY <1>2, <3>1 DEF UnitBorder
    <3>. QED
      BY <2>1, <3>2
  <2>3. CASE h >= i /\ s[i] \in Letter
    <3>1. \A k \in i .. e : s[k] \in Letter
      BY <2>3, UnitEndIs
    <3>2. s[h] \in Letter
      BY <2>1, <2>3, <3>1
    <3>3. \A k \in h .. g : s[k] \in Letter
      BY <2>1, <3>2, UnitEndIs
    <3>4. \A k \in i .. g : s[k] \in Letter
      BY <2>1, <2>3, <3>1, <3>3
    <3>5. g \in i .. Len(s)
      BY <2>1, <2>3
    <3>. QED
      BY <2>3, <3>4, <3>5, UnitEndIs
  <2>4. CASE h >= i /\ s[i] \notin Letter
    <3>1. e = i
      BY <2>4, UnitEndIs
    <3>2. h = i
      BY <2>1, <2>4, <3>1
    <3>. QED
      BY <2>1, <3>2
  <2>. QED
    BY <2>1, <2>2, <2>3, <2>4
<1>3. ASSUME NEW p \in 1 .. Len(s) - 1, UnitBorder(s, p), s[p] \in Letter, s[p + 1] \in Letter
      PROVE  FALSE
  <2>1. p \in 1 .. Len(s) /\ p + 1 \in p .. Len(s) /\ p \in 1 .. p
    BY <1>1
  <2>2. \A k \in p .. p + 1 : s[k] \in Letter
    BY <1>3, <2>1
  <2>3. p + 1 <= UnitEnd(s, p)
    BY <1>3, <2>1, <2>2, UnitEndIs
  <2>4. UnitEnd(s, p) <= p
    BY <1>3, <2>1 DEF UnitBorder
  <2>5. UnitEnd(s, p) \in p .. Len(s)
    BY <1>1, <2>1
  <2>. QED
    BY <1>1, <2>1, <2>3, <2>4, <2>5
<1>. QED
  BY <1>2, <1>3 DEF UnitBorder

\* A list of pieces of text over C: none of them is empty.
PieceOf(L, K, C) == [speaker : L, snapped : K, text : Seq(C) \ {<<>>}]

PieceList(ps, C) == \E L, K : ps \in Seq(PieceOf(L, K, C))

\* A unit makes or lengthens a piece.
LEMMA PutUnitTyped ==
  ASSUME NEW C, NEW M, NEW N, NEW ps \in Seq(PieceOf(M, N, C)), NEW s \in Seq(C), NEW marking,
         NEW i \in 1 .. Len(s), NEW j \in i .. Len(s),
         Winner(marking, i, j).speaker \in M, Winner(marking, i, j).snapped \in N
  PROVE  PutUnit(ps, s, marking, i, j) \in Seq(PieceOf(M, N, C))
<1>. DEFINE key == Winner(marking, i, j)
            unit == SubSeq(s, i, j)
            n == Len(ps)
<1>1. unit \in Seq(C) \ {<<>>}
  <2>1. i \in Int /\ j \in Int /\ \A k \in i .. j : s[k] \in C
    OBVIOUS
  <2>2. unit \in Seq(C) /\ Len(unit) = j - i + 1
    BY <2>1, SubSeqProperties
  <2>. QED
    BY <2>2
<1>2. [speaker |-> key.speaker, snapped |-> key.snapped, text |-> unit] \in PieceOf(M, N, C)
  BY <1>1 DEF PieceOf
<1>3. n \in Nat /\ (n > 0 => ps[n] \in PieceOf(M, N, C))
  OBVIOUS
<1>4. n > 0 => [ps EXCEPT ![n].text = @ \o unit] \in Seq(PieceOf(M, N, C))
  <2>. SUFFICES ASSUME n > 0
                PROVE  [ps EXCEPT ![n].text = @ \o unit] \in Seq(PieceOf(M, N, C))
    OBVIOUS
  <2>. DEFINE longer == [ps[n] EXCEPT !.text = @ \o unit]
  <2>1. ps[n].text \o unit \in Seq(C) \ {<<>>}
    BY <1>1, <1>3, ConcatProperties, EmptySeq DEF PieceOf
  <2>2. longer \in PieceOf(M, N, C)
    BY <1>3, <2>1 DEF PieceOf
  <2>3. [ps EXCEPT ![n].text = @ \o unit] = [ps EXCEPT ![n] = longer]
    OBVIOUS
  <2>. QED
    BY <1>3, <2>2, <2>3, ExceptSeq
<1>5. Append(ps, [speaker |-> key.speaker, snapped |-> key.snapped, text |-> unit])
        \in Seq(PieceOf(M, N, C))
  BY <1>2, AppendProperties
<1>. QED
  BY <1>3, <1>4, <1>5 DEF PutUnit

\* A unit put behind the pieces leaves a list of pieces, whatever labels it adds.
LEMMA PutUnitFacts ==
  ASSUME NEW C, NEW ps, PieceList(ps, C), NEW s \in Seq(C), NEW marking,
         NEW i \in 1 .. Len(s), NEW j \in i .. Len(s)
  PROVE  PieceList(PutUnit(ps, s, marking, i, j), C)
<1>1. PICK L, K : ps \in Seq(PieceOf(L, K, C))
  BY DEF PieceList
<1>. DEFINE M == L \cup {Winner(marking, i, j).speaker}
            N == K \cup {Winner(marking, i, j).snapped}
<1>2. PieceOf(L, K, C) \subseteq PieceOf(M, N, C)
  BY DEF PieceOf
<1>3. /\ ps \in Seq(PieceOf(M, N, C))
      /\ Winner(marking, i, j).speaker \in M /\ Winner(marking, i, j).snapped \in N
  BY <1>1, <1>2, SeqMonotonic
<1>. HIDE DEF M, N
<1>4. PutUnit(ps, s, marking, i, j) \in Seq(PieceOf(M, N, C))
  BY <1>3, PutUnitTyped
<1>. QED
  BY <1>4 DEF PieceList

\* A unit comes behind the text of the pieces; the last piece has its verdict.
LEMMA PutUnitGrows ==
  ASSUME NEW C, NEW M, NEW N, NEW ps \in Seq(PieceOf(M, N, C)), NEW s \in Seq(C), NEW marking,
         NEW i \in 1 .. Len(s), NEW j \in i .. Len(s)
  PROVE  LET qs == PutUnit(ps, s, marking, i, j)
             key == Winner(marking, i, j)
         IN  /\ Grown(ps, qs, SubSeq(s, i, j))
             /\ \A n \in 1 .. Len(ps) : qs[n].speaker = ps[n].speaker
             /\ qs[Len(qs)].speaker = key.speaker
<1>. DEFINE qs == PutUnit(ps, s, marking, i, j)
            key == Winner(marking, i, j)
            unit == SubSeq(s, i, j)
            n == Len(ps)
            fresh == [speaker |-> key.speaker, snapped |-> key.snapped, text |-> unit]
<1>1. n \in Nat /\ \A k \in 1 .. n : ps[k] \in PieceOf(M, N, C)
  BY LenProperties, ElementOfSeq
<1>2. CASE n > 0 /\ ps[n].speaker = key.speaker /\ ps[n].snapped = key.snapped
  <2>. DEFINE longer == [ps[n] EXCEPT !.text = @ \o unit]
  <2>1. qs = [ps EXCEPT ![n] = longer]
    BY <1>2 DEF PutUnit
  <2>2. longer.text = ps[n].text \o unit /\ longer.speaker = ps[n].speaker
    <3>1. n \in 1 .. n
      BY <1>1, <1>2
    <3>2. PICK r \in PieceOf(M, N, C) : r = ps[n]
      BY <1>1, <3>1
    <3>. HIDE DEF n, unit
    <3>3. PICK u : u = r.text \o unit
      OBVIOUS
    <3>4. longer = [r EXCEPT !.text = u]
      BY <3>2, <3>3
    <3>5. [r EXCEPT !.text = u].text = u /\ [r EXCEPT !.text = u].speaker = r.speaker
      BY DEF PieceOf
    <3>. QED
      BY <3>2, <3>3, <3>4, <3>5
  <2>. HIDE DEF longer, qs, key, unit
  <2>3. Len(qs) = n /\ n \in 1 .. n /\ \A k \in 1 .. n : qs[k] = IF k = n THEN longer ELSE ps[k]
    BY <1>1, <1>2, <2>1
  <2>4. ps # <<>>
    BY <1>2
  <2>. HIDE DEF n
  <2>5. Agree(ps, qs, n - 1)
    BY <1>1, <2>3 DEF Agree
  <2>6. Lengthened(ps, qs, unit)
    BY <2>2, <2>3, <2>4, <2>5 DEF Lengthened, n
  <2>. QED
    BY <1>2, <2>2, <2>3, <2>6 DEF Grown, qs, key, unit, n
<1>3. CASE ~ (n > 0 /\ ps[n].speaker = key.speaker /\ ps[n].snapped = key.snapped)
  <2>1. qs = Append(ps, fresh)
    BY <1>3 DEF PutUnit
  <2>2. fresh.text = unit /\ fresh.speaker = key.speaker
    OBVIOUS
  <2>. HIDE DEF fresh, qs, key, unit
  <2>3. Len(qs) = n + 1 /\ qs[n + 1] = fresh /\ \A k \in 1 .. n : qs[k] = ps[k]
    BY <1>1, <2>1
  <2>4. Continued(ps, qs, unit)
    BY <2>2, <2>3 DEF Continued, Agree
  <2>. QED
    BY <2>2, <2>3, <2>4 DEF Grown, qs, key, unit
<1>. QED
  BY <1>2, <1>3

-----------------------------------------------------------------------------
(* Verdicts *)

\* A bounded rank has a largest value, and the first index of it is the first.
LEMMA FirstLargestExists ==
  ASSUME NEW S, S \subseteq Nat, S # {}, NEW r \in [S -> Int], NEW b \in Int,
         \A i \in S : r[i] <= b
  PROVE  \E i \in S : \A j \in S : r[j] < r[i] \/ (r[j] = r[i] /\ i <= j)
<1>. DEFINE T == {b - r[i] : i \in S}
<1>1. \A i \in S : r[i] \in Int /\ b - r[i] \in Nat
  OBVIOUS
<1>2. T \subseteq Nat /\ T # {}
  BY <1>1
<1>3. PICK y \in T : \A z \in T : y <= z
  <2>. HIDE DEF T
  <2>. QED
    BY <1>2, LeastExists
<1>. DEFINE U == {i \in S : b - r[i] = y}
<1>4. U \subseteq Nat /\ U # {}
  OBVIOUS
<1>5. PICK x \in U : \A z \in U : x <= z
  <2>. HIDE DEF U
  <2>. QED
    BY <1>4, LeastExists
<1>6. ASSUME NEW j \in S
      PROVE  r[j] < r[x] \/ (r[j] = r[x] /\ x <= j)
  <2>1. b - r[x] = y /\ y <= b - r[j] /\ (b - r[j] = y => x <= j)
    BY <1>3, <1>5
  <2>2. x \in S /\ r[x] \in Int /\ r[j] \in Int
    BY <1>1
  <2>. HIDE DEF U, T
  <2>. QED
    BY <2>1, <2>2
<1>. QED
  BY <1>6

\* What a turn list consists of.
LEMMA TurnListFacts ==
  ASSUME NEW ts \in Seq(Turn)
  PROVE  /\ Len(ts) \in Nat /\ DOMAIN ts = 1 .. Len(ts) /\ (ts # <<>> => DOMAIN ts # {})
         /\ \A i \in DOMAIN ts : /\ ts[i].start \in Nat /\ ts[i].end \in Nat
                                 /\ ts[i].speaker \in Label
<1>1. Len(ts) \in Nat /\ DOMAIN ts = 1 .. Len(ts) /\ \A i \in 1 .. Len(ts) : ts[i] \in Turn
  BY LenProperties, ElementOfSeq
<1>2. ts # <<>> => Len(ts) \in Nat \ {0}
  BY EmptySeq
<1>. QED
  BY <1>1, <1>2 DEF Turn

\* A turn that fills a gap exists if there is a turn, and the policy takes any.
Boundless(gap) == gap.snap = 0 \/ gap.fill = "previous"

\* The turn that fills a gap is one of the list or none, and one for sure if the policy has no bound.
LEMMA FillingFacts ==
  ASSUME NEW ts \in Seq(Turn), NEW t \in Nat, NEW dur \in Nat, NEW gap \in GapPolicy
  PROVE  /\ Filling(ts, t, dur, gap) \in DOMAIN ts \cup {NoTurn}
         /\ ts # <<>> /\ Boundless(gap) => Filling(ts, t, dur, gap) \in DOMAIN ts
<1>. DEFINE ended == {i \in DOMAIN ts : ts[i].end <= t + dur}
            near  == {i \in DOMAIN ts : gap.snap = 0 \/ Gap(ts[i], t, dur) <= gap.snap}
            fill  == Filling(ts, t, dur, gap)
<1>1. /\ Len(ts) \in Nat /\ DOMAIN ts = 1 .. Len(ts)
      /\ \A i \in DOMAIN ts : ts[i].start \in Nat /\ ts[i].end \in Nat
      /\ ended \subseteq DOMAIN ts /\ near \subseteq DOMAIN ts /\ DOMAIN ts \subseteq Nat
      /\ ts # <<>> => DOMAIN ts # {}
      /\ gap.fill \in {"nearest", "previous"}
  <2>1. /\ Len(ts) \in Nat /\ DOMAIN ts = 1 .. Len(ts) /\ (ts # <<>> => DOMAIN ts # {})
        /\ \A i \in DOMAIN ts : ts[i].start \in Nat /\ ts[i].end \in Nat
    BY TurnListFacts
  <2>. QED
    BY <2>1 DEF GapPolicy
<1>2. \A i \in DOMAIN ts : Gap(ts[i], t, dur) \in Nat
  BY <1>1 DEF Gap, Distance, Smaller
<1>3. CASE gap.fill = "previous" /\ ended # {}
  <2>. DEFINE r == [i \in ended |-> ts[i].end]
  <2>1. ended \subseteq Nat /\ r \in [ended -> Int] /\ t + dur \in Int /\ \A i \in ended : r[i] <= t + dur
    BY <1>1
  <2>2. \E i \in ended : \A j \in ended : r[j] < r[i] \/ (r[j] = r[i] /\ i <= j)
    <3>. HIDE DEF ended, r
    <3>. QED
      BY <1>3, <2>1, FirstLargestExists
  <2>3. fill = CHOOSE i \in ended : \A j \in ended :
                 ts[j].end < ts[i].end \/ (ts[j].end = ts[i].end /\ i <= j)
    BY <1>3 DEF Filling, FirstLargest
  <2>4. fill \in ended
    BY <2>2, <2>3
  <2>. QED
    BY <1>1, <2>4
<1>4. CASE gap.fill = "previous" /\ ended = {} /\ ts # <<>>
  <2>. DEFINE S == DOMAIN ts
              r == [i \in S |-> - ts[i].start]
  <2>1. S \subseteq Nat /\ S # {} /\ r \in [S -> Int] /\ \A i \in S : r[i] <= 0
    BY <1>1, <1>4
  <2>2. \E i \in S : \A j \in S : r[j] < r[i] \/ (r[j] = r[i] /\ i <= j)
    <3>1. 0 \in Int
      OBVIOUS
    <3>. HIDE DEF S, r
    <3>. QED
      BY <2>1, <3>1, FirstLargestExists
  <2>3. fill = CHOOSE i \in S : \A j \in S :
                 - ts[j].start < - ts[i].start \/ (- ts[j].start = - ts[i].start /\ i <= j)
    BY <1>4 DEF Filling, FirstLargest
  <2>4. fill \in S
    BY <2>2, <2>3
  <2>. QED
    BY <2>4
<1>5. CASE gap.fill = "nearest" /\ near # {}
  <2>. DEFINE r == [i \in near |-> - Gap(ts[i], t, dur)]
  <2>1. near \subseteq Nat /\ r \in [near -> Int] /\ \A i \in near : r[i] <= 0
    BY <1>1, <1>2
  <2>2. \E i \in near : \A j \in near : r[j] < r[i] \/ (r[j] = r[i] /\ i <= j)
    <3>1. 0 \in Int
      OBVIOUS
    <3>. HIDE DEF near, r
    <3>. QED
      BY <1>5, <2>1, <3>1, FirstLargestExists
  <2>3. fill = CHOOSE i \in near : \A j \in near :
                 \/ - Gap(ts[j], t, dur) < - Gap(ts[i], t, dur)
                 \/ - Gap(ts[j], t, dur) = - Gap(ts[i], t, dur) /\ i <= j
    BY <1>5 DEF Filling, FirstLargest
  <2>4. fill \in near
    BY <2>2, <2>3
  <2>. QED
    BY <1>1, <2>4
<1>6. CASE /\ ~ (gap.fill = "previous" /\ ended # {})
           /\ ~ (gap.fill = "previous" /\ ended = {} /\ ts # <<>>)
           /\ ~ (gap.fill = "nearest" /\ near # {})
  <2>1. fill = NoTurn
    BY <1>6 DEF Filling
  <2>2. ~ (ts # <<>> /\ Boundless(gap))
    BY <1>1, <1>6 DEF Boundless
  <2>. QED
    BY <2>1, <2>2
<1>. QED
  BY <1>3, <1>4, <1>5, <1>6

\* The verdict on a character: the turn that overlaps it most, the first of
\* several; only text no turn overlaps is filled, and always if the policy takes
\* any turn and there is one.
LEMMA CoveringFacts ==
  ASSUME NEW ts \in Seq(Turn), NEW t \in Nat, NEW dur \in Nat, NEW gap \in GapPolicy
  PROVE  LET c == Covering(ts, t, dur, gap)
             Over(i) == Overlap(ts[i], t, dur)
         IN  /\ c.turn \in DOMAIN ts \cup {NoTurn} /\ c.snapped \in BOOLEAN
             /\ (\E i \in DOMAIN ts : Over(i) > 0) =>
                  /\ c.turn \in DOMAIN ts /\ Over(c.turn) > 0 /\ ~ c.snapped
                  /\ \A j \in DOMAIN ts : Over(j) <= Over(c.turn)
             /\ ts # <<>> /\ Boundless(gap) => c.turn \in DOMAIN ts
<1>. DEFINE c == Covering(ts, t, dur, gap)
            Over(i) == Overlap(ts[i], t, dur)
            over == {i \in DOMAIN ts : Over(i) > 0}
<1>1. /\ Len(ts) \in Nat /\ DOMAIN ts = 1 .. Len(ts)
      /\ \A i \in DOMAIN ts : ts[i].start \in Nat /\ ts[i].end \in Nat
  BY TurnListFacts
<1>2. \A i \in DOMAIN ts : Over(i) \in Int /\ Over(i) <= dur
  BY <1>1 DEF Overlap, Smaller, Larger
<1>3. CASE over = {}
  <2>1. /\ c.turn = Filling(ts, t, dur, gap)
        /\ c.snapped = (Filling(ts, t, dur, gap) # NoTurn)
    BY <1>3 DEF Covering
  <2>2. c.snapped \in BOOLEAN
    BY <2>1
  <2>3. ~ \E i \in DOMAIN ts : Over(i) > 0
    BY <1>3
  <2>. HIDE DEF c, Over
  <2>. QED
    BY <2>1, <2>2, <2>3, FillingFacts DEF c, Over
<1>4. CASE over # {}
  <2>. DEFINE r == [i \in over |-> Over(i)]
  <2>1. over \subseteq Nat /\ r \in [over -> Int] /\ \A i \in over : r[i] <= dur
    BY <1>1, <1>2
  <2>2. \E i \in over : \A j \in over : r[j] < r[i] \/ (r[j] = r[i] /\ i <= j)
    <3>1. dur \in Int
      OBVIOUS
    <3>. HIDE DEF over, r
    <3>. QED
      BY <1>4, <2>1, <3>1, FirstLargestExists
  <2>3. /\ c.turn = CHOOSE i \in over : \A j \in over :
                      Over(j) < Over(i) \/ (Over(j) = Over(i) /\ i <= j)
        /\ c.snapped = FALSE
    BY <1>4 DEF Covering, FirstLargest
  <2>4. /\ c.turn \in over
        /\ \A j \in over : Over(j) < Over(c.turn) \/ (Over(j) = Over(c.turn) /\ c.turn <= j)
    <3>1. \E i \in over : \A j \in over : Over(j) < Over(i) \/ (Over(j) = Over(i) /\ i <= j)
      BY <2>2
    <3>. HIDE DEF c, Over, over
    <3>. QED
      BY <2>3, <3>1
  <2>. HIDE DEF c, Over
  <2>5. c.turn \in DOMAIN ts /\ Over(c.turn) > 0
    BY <2>4
  <2>6. \A j \in DOMAIN ts : Over(j) <= Over(c.turn)
    BY <1>2, <2>4, <2>5
  <2>. QED
    BY <2>3, <2>5, <2>6 DEF c, Over
<1>. QED
  BY <1>3, <1>4

\* The verdict on a unit is that of one of its characters, and none has more
\* votes.
LEMMA WinnerFacts ==
  ASSUME NEW i \in Nat, NEW j \in Nat, i <= j, NEW marking,
         \A k \in i .. j : marking[k] \in [speaker : Nat, snapped : BOOLEAN]
  PROVE  LET Votes(key) == Cardinality({k \in i .. j : marking[k] = key})
         IN  /\ Winner(marking, i, j) \in {marking[k] : k \in i .. j}
             /\ \A k \in i .. j : Votes(marking[k]) <= Votes(Winner(marking, i, j))
<1>. DEFINE Votes(key) == Cardinality({k \in i .. j : marking[k] = key})
            keys == {marking[k] : k \in i .. j}
            Code(key) == 2 * key.speaker + (IF key.snapped THEN 1 ELSE 0)
            Best(best) == \A key \in keys :
              Votes(key) < Votes(best) \/ (Votes(key) = Votes(best) /\ KeyBefore(best, key))
            b == Cardinality(i .. j)
<1>1. b \in Nat /\ \A key : Votes(key) \in Nat /\ Votes(key) <= b
  <2>1. IsFiniteSet(i .. j)
    BY FS_Interval
  <2>2. ASSUME NEW key
        PROVE  Votes(key) \in Nat /\ Votes(key) <= b
    <3>. DEFINE V == {k \in i .. j : marking[k] = key}
    <3>1. V \in SUBSET (i .. j)
      OBVIOUS
    <3>. QED
      BY <2>1, <3>1, FS_Subset, FS_CardinalityType
  <2>. QED
    BY <2>1, <2>2, FS_CardinalityType
<1>2. keys # {} /\ \A key \in keys : key \in [speaker : Nat, snapped : BOOLEAN]
  OBVIOUS
<1>. HIDE DEF Votes, keys, b
<1>3. \A key \in keys : Code(key) \in Nat
  BY <1>2
<1>4. \A key, other \in keys : /\ Code(key) <= Code(other) <=> KeyBefore(key, other)
                               /\ Code(key) = Code(other) => key = other
  <2>. SUFFICES ASSUME NEW key \in keys, NEW other \in keys
                PROVE  /\ Code(key) <= Code(other) <=> KeyBefore(key, other)
                       /\ Code(key) = Code(other) => key = other
    OBVIOUS
  <2>1. /\ key.speaker \in Nat /\ key.snapped \in BOOLEAN
        /\ other.speaker \in Nat /\ other.snapped \in BOOLEAN
        /\ (key.speaker = other.speaker /\ key.snapped = other.snapped) => key = other
    BY <1>2
  <2>. QED
    BY <2>1 DEF KeyBefore
<1>. DEFINE S == {Code(key) : key \in keys}
            KeyOf(c) == CHOOSE key \in keys : Code(key) = c
            r == [c \in S |-> Votes(KeyOf(c))]
<1>5. \A c \in S : KeyOf(c) \in keys /\ Code(KeyOf(c)) = c
  <2>. HIDE DEF Code
  <2>. QED
    OBVIOUS
<1>6. \A key \in keys : Code(key) \in S /\ KeyOf(Code(key)) = key
  <2>1. \A key \in keys : Code(key) \in S
    OBVIOUS
  <2>. HIDE DEF Code, S, KeyOf
  <2>. QED
    BY <1>4, <1>5, <2>1
<1>7. S \subseteq Nat /\ S # {} /\ r \in [S -> Int] /\ b \in Int /\ \A c \in S : r[c] <= b
  <2>1. S \subseteq Nat /\ S # {}
    BY <1>2, <1>3
  <2>. HIDE DEF S, KeyOf
  <2>. QED
    BY <1>1, <2>1
<1>8. PICK c \in S : \A d \in S : r[d] < r[c] \/ (r[d] = r[c] /\ c <= d)
  <2>. HIDE DEF S, r
  <2>. QED
    BY <1>7, FirstLargestExists
<1>9. \A d \in S : r[d] = Votes(KeyOf(d))
  OBVIOUS
<1>. HIDE DEF S, r, KeyOf, Code
<1>10. KeyOf(c) \in keys /\ Best(KeyOf(c))
  <2>. SUFFICES ASSUME NEW key \in keys
                PROVE  \/ Votes(key) < Votes(KeyOf(c))
                       \/ Votes(key) = Votes(KeyOf(c)) /\ KeyBefore(KeyOf(c), key)
    BY <1>5
  <2>1. r[Code(key)] < r[c] \/ (r[Code(key)] = r[c] /\ c <= Code(key))
    BY <1>6, <1>8
  <2>2. r[Code(key)] = Votes(key) /\ r[c] = Votes(KeyOf(c))
    BY <1>6, <1>9
  <2>3. c <= Code(key) => KeyBefore(KeyOf(c), key)
    BY <1>4, <1>5
  <2>. QED
    BY <2>1, <2>2, <2>3
<1>11. Winner(marking, i, j) = CHOOSE best \in keys : Best(best)
  BY DEF Winner, keys, Votes
<1>12. Winner(marking, i, j) \in keys /\ Best(Winner(marking, i, j))
  <2>. HIDE DEF Best
  <2>. QED
    BY <1>10, <1>11
<1>13. \A key \in keys : Votes(key) <= Votes(Winner(marking, i, j))
  BY <1>1, <1>12
<1>. QED
  BY <1>12, <1>13 DEF keys, Votes

-----------------------------------------------------------------------------
(* Numbers *)

\* The segments of a pass so far, the open one included.
SegmentOf(L, C) == [speaker : Int, id : L, text : Seq(C) \ {<<>>}]

Segments(st) == IF st.open.text = <<>> THEN st.closed ELSE Append(st.closed, st.open)

\* The labels other than none of the first n segments.
LabelsOf(segs, n) == {segs[m].id : m \in 1 .. n} \ {NoLabel}

\* Segment f is the first of the label at position p of ids: it comes after
\* segments of the labels before it in ids, and of no other.
Introduces(segs, f, ids, p) ==
  /\ segs[f].id = ids[p] /\ ids[p] # NoLabel
  /\ LabelsOf(segs, f - 1) = {ids[q] : q \in 1 .. p - 1}

\* The label at position p of ids has number p - 1 and a first segment; only the
\* first segment of all may be without a label.
Numbered(segs, ids) ==
  /\ \A p, q \in DOMAIN ids : ids[p] = ids[q] => p = q
  /\ \A n \in DOMAIN segs : segs[n].id # NoLabel =>
       \E p \in DOMAIN ids : ids[p] = segs[n].id /\ segs[n].speaker = p - 1
  /\ \A n \in DOMAIN segs : segs[n].id = NoLabel => n = 1
  /\ \A p \in DOMAIN ids : \E f \in DOMAIN segs : Introduces(segs, f, ids, p)

\* Numbers are a matter of labels: the text of the segments does not count.
LEMMA NumberedSameLabels ==
  ASSUME NEW segs, NEW later, NEW ids, Numbered(segs, ids),
         NEW k \in Nat, DOMAIN segs = 1 .. k, DOMAIN later = 1 .. k,
         \A n \in 1 .. k : later[n].id = segs[n].id /\ later[n].speaker = segs[n].speaker
  PROVE  Numbered(later, ids)
<1>1. \A f \in 1 .. k : LabelsOf(later, f - 1) = LabelsOf(segs, f - 1)
  BY DEF LabelsOf
<1>2. \A f \in 1 .. k, p \in DOMAIN ids : Introduces(segs, f, ids, p) => Introduces(later, f, ids, p)
  BY <1>1 DEF Introduces
<1>. QED
  BY <1>2 DEF Numbered

\* A segment more, of a label that has its number.
LEMMA NumberedKnown ==
  ASSUME NEW S, NEW segs \in Seq(S), NEW ids, Numbered(segs, ids),
         NEW seg \in S, NEW p \in DOMAIN ids, seg.id = ids[p], seg.speaker = p - 1,
         seg.id # NoLabel
  PROVE  Numbered(Append(segs, seg), ids)
<1>. DEFINE more == Append(segs, seg)
            k == Len(segs)
<1>1. /\ k \in Nat /\ DOMAIN segs = 1 .. k /\ DOMAIN more = 1 .. k + 1
      /\ \A n \in 1 .. k : more[n] = segs[n]
      /\ more[k + 1] = seg
  BY AppendProperties, LenProperties
<1>. HIDE DEF more, k
<1>2. \A f \in 1 .. k : LabelsOf(more, f - 1) = LabelsOf(segs, f - 1)
  BY <1>1 DEF LabelsOf
<1>3. \A n \in DOMAIN more : more[n].id # NoLabel =>
        \E q \in DOMAIN ids : ids[q] = more[n].id /\ more[n].speaker = q - 1
  BY <1>1 DEF Numbered
<1>4. \A n \in DOMAIN more : more[n].id = NoLabel => n = 1
  BY <1>1 DEF Numbered
<1>5. \A q \in DOMAIN ids : \E f \in DOMAIN more : Introduces(more, f, ids, q)
  <2>1. \A f \in 1 .. k, q \in DOMAIN ids : Introduces(segs, f, ids, q) => Introduces(more, f, ids, q)
    BY <1>1, <1>2 DEF Introduces
  <2>. QED
    BY <1>1, <2>1 DEF Numbered
<1>. QED
  BY <1>3, <1>4, <1>5 DEF Numbered, more

\* A segment more, of a label that gets the next number.
LEMMA NumberedNew ==
  ASSUME NEW S, NEW segs \in Seq(S), NEW L, NEW ids \in Seq(L), Numbered(segs, ids),
         NEW seg \in S, seg.id \in L, seg.id # NoLabel, \A p \in DOMAIN ids : ids[p] # seg.id,
         seg.speaker = Len(ids)
  PROVE  Numbered(Append(segs, seg), Append(ids, seg.id))
<1>. DEFINE more == Append(segs, seg)
            numbers == Append(ids, seg.id)
            k == Len(segs)
            h == Len(ids)
<1>1. /\ k \in Nat /\ DOMAIN segs = 1 .. k /\ DOMAIN more = 1 .. k + 1
      /\ \A n \in 1 .. k : more[n] = segs[n]
      /\ more[k + 1] = seg
  BY AppendProperties, LenProperties
<1>2. /\ h \in Nat /\ DOMAIN ids = 1 .. h /\ DOMAIN numbers = 1 .. h + 1
      /\ \A p \in 1 .. h : numbers[p] = ids[p]
      /\ numbers[h + 1] = seg.id
  BY AppendProperties, LenProperties
<1>3. seg.speaker = h
  OBVIOUS
<1>. HIDE DEF more, numbers, k, h
<1>4. \A p, q \in DOMAIN numbers : numbers[p] = numbers[q] => p = q
  BY <1>2 DEF Numbered
<1>5. \A f \in 1 .. k + 1 : LabelsOf(more, f - 1) = LabelsOf(segs, f - 1)
  BY <1>1 DEF LabelsOf
<1>6. \A p \in 1 .. h + 1 : {numbers[q] : q \in 1 .. p - 1} = {ids[q] : q \in 1 .. p - 1}
  BY <1>2
<1>7. \A n \in DOMAIN more : more[n].id # NoLabel =>
        \E p \in DOMAIN numbers : numbers[p] = more[n].id /\ more[n].speaker = p - 1
  <2>. SUFFICES ASSUME NEW n \in DOMAIN more, more[n].id # NoLabel
                PROVE  \E p \in DOMAIN numbers : numbers[p] = more[n].id /\ more[n].speaker = p - 1
    OBVIOUS
  <2>1. CASE n \in 1 .. k
    <3>1. PICK p \in DOMAIN ids : ids[p] = segs[n].id /\ segs[n].speaker = p - 1
      BY <1>1, <2>1 DEF Numbered
    <3>2. p \in DOMAIN numbers /\ numbers[p] = more[n].id /\ more[n].speaker = p - 1
      BY <1>1, <1>2, <2>1, <3>1
    <3>. QED
      BY <3>2
  <2>2. CASE n = k + 1
    <3>1. PICK p : p = h + 1
      OBVIOUS
    <3>2. p \in DOMAIN numbers /\ numbers[p] = more[n].id /\ more[n].speaker = p - 1
      BY <1>1, <1>2, <1>3, <2>2, <3>1
    <3>. QED
      BY <3>2
  <2>. QED
    BY <1>1, <2>1, <2>2
<1>8. \A n \in DOMAIN more : more[n].id = NoLabel => n = 1
  BY <1>1 DEF Numbered
<1>9. LabelsOf(segs, k) = {ids[q] : q \in 1 .. h}
  <2>1. \A m \in 1 .. k : segs[m].id # NoLabel => \E q \in 1 .. h : ids[q] = segs[m].id
    BY <1>1, <1>2 DEF Numbered
  <2>2. \A q \in 1 .. h : \E m \in 1 .. k : segs[m].id = ids[q] /\ ids[q] # NoLabel
    BY <1>1, <1>2, ZenonT(30) DEF Numbered, Introduces
  <2>. QED
    BY <2>1, <2>2, SMTT(30) DEF LabelsOf
<1>10. \A p \in DOMAIN numbers : \E f \in DOMAIN more : Introduces(more, f, numbers, p)
  <2>. SUFFICES ASSUME NEW p \in DOMAIN numbers
                PROVE  \E f \in DOMAIN more : Introduces(more, f, numbers, p)
    OBVIOUS
  <2>1. CASE p \in 1 .. h
    <3>1. PICK f \in 1 .. k : Introduces(segs, f, ids, p)
      BY <1>1, <1>2, <2>1 DEF Numbered
    <3>2. f \in DOMAIN more /\ more[f].id = numbers[p] /\ numbers[p] # NoLabel
      BY <1>1, <1>2, <2>1, <3>1 DEF Introduces
    <3>3. LabelsOf(more, f - 1) = {numbers[q] : q \in 1 .. p - 1}
      BY <1>1, <1>2, <1>5, <1>6, <2>1, <3>1 DEF Introduces
    <3>. QED
      BY <3>2, <3>3 DEF Introduces
  <2>2. CASE p = h + 1
    <3>1. PICK f : f = k + 1
      OBVIOUS
    <3>2. f \in DOMAIN more /\ more[f].id = numbers[p] /\ numbers[p] # NoLabel
      BY <1>1, <1>2, <2>2, <3>1
    <3>3. f \in 1 .. k + 1 /\ f - 1 = k /\ p \in 1 .. h + 1 /\ p - 1 = h
      BY <1>1, <1>2, <2>2, <3>1
    <3>4. LabelsOf(more, f - 1) = LabelsOf(segs, k)
      BY <1>5, <3>3
    <3>5. {numbers[q] : q \in 1 .. p - 1} = {ids[q] : q \in 1 .. h}
      BY <1>6, <3>3
    <3>. QED
      BY <1>9, <3>2, <3>4, <3>5 DEF Introduces
  <2>. QED
    BY <1>2, <2>1, <2>2
<1>. QED
  BY <1>4, <1>7, <1>8, <1>10 DEF Numbered, more, numbers

\* Segment f is the first with the label of segment n.
FirstOfLabel(segs, n, f) ==
  segs[f].id = segs[n].id /\ \A m \in 1 .. f - 1 : segs[m].id # segs[n].id

\* A label that has a number has it from its first segment on: the number is how
\* many labels came before that segment.
LEMMA NumbersCount ==
  ASSUME NEW segs, NEW k \in Nat, DOMAIN segs = 1 .. k,
         NEW L, NEW ids \in Seq(L), Numbered(segs, ids),
         NEW n \in 1 .. k, segs[n].id # NoLabel
  PROVE  /\ \E f \in 1 .. n : FirstOfLabel(segs, n, f)
         /\ \A f \in 1 .. k : FirstOfLabel(segs, n, f) =>
              segs[n].speaker = Cardinality(LabelsOf(segs, f - 1))
<1>1. Len(ids) \in Nat /\ DOMAIN ids = 1 .. Len(ids) /\ \A i \in 1 .. Len(ids) : ids[i] \in L
  BY LenProperties
<1>2. PICK p \in 1 .. Len(ids) : ids[p] = segs[n].id /\ segs[n].speaker = p - 1
  BY <1>1 DEF Numbered
<1>3. PICK g \in 1 .. k : Introduces(segs, g, ids, p)
  BY <1>1 DEF Numbered
<1>4. segs[g].id = segs[n].id /\ LabelsOf(segs, g - 1) = {ids[q] : q \in 1 .. p - 1}
  BY <1>2, <1>3 DEF Introduces
<1>5. \A m \in 1 .. g - 1 : segs[m].id # segs[n].id
  <2>. SUFFICES ASSUME NEW m \in 1 .. g - 1, segs[m].id = segs[n].id
                PROVE  FALSE
    OBVIOUS
  <2>1. ids[p] \in LabelsOf(segs, g - 1)
    BY <1>2 DEF LabelsOf
  <2>2. PICK q \in 1 .. p - 1 : ids[q] = ids[p]
    BY <1>4, <2>1
  <2>. QED
    BY <1>1, <1>2, <2>2 DEF Numbered
<1>6. g <= n
  BY <1>5
<1>7. Cardinality(LabelsOf(segs, g - 1)) = p - 1
  <2>. DEFINE b == [q \in 1 .. p - 1 |-> ids[q]]
  <2>2. b \in Bijection(1 .. p - 1, {ids[q] : q \in 1 .. p - 1})
    BY <1>1 DEF Bijection, Injection, Surjection, IsInjective, Numbered
  <2>. HIDE DEF b
  <2>3. ExistsBijection(1 .. p - 1, {ids[q] : q \in 1 .. p - 1})
    BY <2>2 DEF ExistsBijection
  <2>4. p - 1 \in Nat
    BY <1>1
  <2>. QED
    BY <1>4, <2>3, <2>4, FS_CountingElements
<1>8. ASSUME NEW f \in 1 .. k, segs[f].id = segs[n].id,
             \A m \in 1 .. f - 1 : segs[m].id # segs[n].id
      PROVE  f = g
  BY <1>4, <1>5, <1>8
<1>. QED
  BY <1>2, <1>4, <1>5, <1>6, <1>7, <1>8 DEF FirstOfLabel

\* The state of a pass, and of a pass in its loop, where a segment is closed only
\* to open another.
PassState(L, C) ==
  [open : [speaker : Int, id : L, text : Seq(C)], closed : Seq(SegmentOf(L, C)),
   ids : Seq(L), unattributed : Nat]

Tidy(st, C) == \E L : st \in PassState(L, C) /\ Numbered(Segments(st), st.ids)

InLoop(st, C) == Tidy(st, C) /\ (st.closed # <<>> => st.open.text # <<>>)

\* The loop starts without a segment and without a number.
LEMMA StartFacts == ASSUME NEW C PROVE InLoop(StartOfPass(<<>>), C)
<1>. DEFINE st == StartOfPass(<<>>)
<1>1. /\ st \in PassState({NoLabel}, C) /\ st.closed = <<>> /\ st.ids = <<>> /\ Segments(st) = <<>>
  BY EmptySeq DEF StartOfPass, NoSegment, PassState, Segments, Unattributed
<1>2. Numbered(<<>>, <<>>)
  BY DEF Numbered
<1>. QED
  BY <1>1, <1>2 DEF InLoop, Tidy

\* The segments of a pass are segments, one more than the closed ones if one is
\* open.
LEMMA SegmentsFacts ==
  ASSUME NEW L, NEW C, NEW st \in PassState(L, C)
  PROVE  /\ Segments(st) \in Seq(SegmentOf(L, C))
         /\ st.open.text # <<>> =>
              /\ Segments(st) = Append(st.closed, st.open)
              /\ CloseOpen(st).closed = Append(st.closed, st.open)
         /\ CloseOpen(st).closed = Segments(st)
         /\ CloseOpen(st).ids = st.ids /\ CloseOpen(st).unattributed = st.unattributed
<1>1. /\ st.closed \in Seq(SegmentOf(L, C))
      /\ st.open.text # <<>> => st.open \in SegmentOf(L, C)
  BY DEF PassState, SegmentOf
<1>2. st.open.text # <<>> => Append(st.closed, st.open) \in Seq(SegmentOf(L, C))
  BY <1>1, AppendProperties
<1>3. st.open.text # <<>> =>
        CloseOpen(st) = [[st EXCEPT !.closed = Append(@, st.open)] EXCEPT !.open = NoSegment]
  BY DEF CloseOpen
<1>4. st.open.text # <<>> =>
        /\ CloseOpen(st).closed = Append(st.closed, st.open)
        /\ CloseOpen(st).ids = st.ids /\ CloseOpen(st).unattributed = st.unattributed
  BY <1>3 DEF PassState
<1>5. st.open.text = <<>> => CloseOpen(st) = st
  BY DEF CloseOpen
<1>. QED
  BY <1>1, <1>2, <1>4, <1>5 DEF Segments

\* A pass whose open segment is closed is a state of a pass.
LEMMA ShutFacts ==
  ASSUME NEW L, NEW C, NEW st \in PassState(L, C), NoLabel \in L
  PROVE  CloseOpen(st) \in PassState(L, C)
<1>. DEFINE shut == CloseOpen(st)
<1>1. /\ Segments(st) \in Seq(SegmentOf(L, C)) /\ shut.closed = Segments(st)
      /\ st.open.text # <<>> => Append(st.closed, st.open) = Segments(st)
  BY SegmentsFacts
<1>2. st.open.text = <<>> => shut = st
  BY DEF CloseOpen
<1>3. st.open.text # <<>> =>
        shut = [[st EXCEPT !.closed = Segments(st)] EXCEPT !.open = NoSegment]
  BY <1>1 DEF CloseOpen
<1>4. NoSegment \in [speaker : Int, id : L, text : Seq(C)]
  BY EmptySeq DEF NoSegment, Unattributed
<1>5. st.open.text # <<>> => shut \in PassState(L, C)
  BY <1>1, <1>3, <1>4 DEF PassState
<1>. QED
  BY <1>2, <1>5

\* A piece that continues the open segment lengthens it.
LEMMA ExtendFacts ==
  ASSUME NEW L, NEW C, NEW st \in PassState(L, C), Numbered(Segments(st), st.ids),
         NEW t \in Seq(C) \ {<<>>}, st.open.text # <<>>
  PROVE  LET next == [st EXCEPT !.open.text = @ \o t]
         IN  /\ next \in PassState(L, C) /\ next.open.text # <<>>
             /\ Numbered(Segments(next), next.ids)
<1>. DEFINE next == [st EXCEPT !.open.text = @ \o t]
            longer == [st.open EXCEPT !.text = @ \o t]
<1>1. /\ st.closed \in Seq(SegmentOf(L, C))
      /\ st.open \in [speaker : Int, id : L, text : Seq(C)]
  BY DEF PassState
<1>2. st.open.text \o t \in Seq(C) /\ st.open.text \o t # <<>>
  BY <1>1, ConcatProperties, EmptySeq
<1>3. /\ longer \in [speaker : Int, id : L, text : Seq(C)]
      /\ longer.text # <<>> /\ longer.id = st.open.id /\ longer.speaker = st.open.speaker
  BY <1>1, <1>2
<1>4. next = [st EXCEPT !.open = longer]
  OBVIOUS
<1>. HIDE DEF longer
<1>5. /\ next \in PassState(L, C) /\ next.open = longer
      /\ next.closed = st.closed /\ next.ids = st.ids
  BY <1>3, <1>4 DEF PassState
<1>. HIDE DEF next
<1>6. Segments(next) = Append(st.closed, longer) /\ Segments(st) = Append(st.closed, st.open)
  BY <1>3, <1>5 DEF Segments
<1>7. st.open \in SegmentOf(L, C) /\ longer \in SegmentOf(L, C)
  BY <1>1, <1>3 DEF SegmentOf
<1>8. Numbered(Append(st.closed, longer), st.ids)
  <2>. DEFINE k == Len(st.closed) + 1
              old == Append(st.closed, st.open)
              new == Append(st.closed, longer)
  <2>1. /\ k \in Nat /\ DOMAIN old = 1 .. k /\ DOMAIN new = 1 .. k
        /\ \A n \in 1 .. k - 1 : old[n] = st.closed[n] /\ new[n] = st.closed[n]
        /\ old[k] = st.open /\ new[k] = longer
    BY <1>1, <1>7, AppendProperties, LenProperties
  <2>2. Numbered(old, st.ids)
    BY <1>6
  <2>. HIDE DEF old, new, k
  <2>3. \A n \in 1 .. k : new[n].id = old[n].id /\ new[n].speaker = old[n].speaker
    BY <1>3, <2>1
  <2>4. Numbered(new, st.ids)
    BY <2>1, <2>2, <2>3, NumberedSameLabels
  <2>. QED
    BY <2>4 DEF new
<1>. QED
  BY <1>3, <1>5, <1>6, <1>8 DEF next

\* A label more does not matter.
LEMMA MoreLabels ==
  ASSUME NEW L, NEW M, L \subseteq M, NEW C
  PROVE  /\ SegmentOf(L, C) \subseteq SegmentOf(M, C)
         /\ PassState(L, C) \subseteq PassState(M, C)
<1>1. SegmentOf(L, C) \subseteq SegmentOf(M, C)
  BY DEF SegmentOf
<1>2. ASSUME NEW st \in PassState(L, C)
      PROVE  st \in PassState(M, C)
  <2>1. st.closed \in Seq(SegmentOf(M, C)) /\ st.ids \in Seq(M)
    BY <1>1, SeqMonotonic DEF PassState
  <2>2. st.open \in [speaker : Int, id : M, text : Seq(C)]
    BY DEF PassState
  <2>. QED
    BY <2>1, <2>2 DEF PassState
<1>. QED
  BY <1>1, <1>2

\* A piece that opens a segment closes the one before; its label is known or
\* gets the next number.  Only the first segment opens without a label.
LEMMA OpenFacts ==
  ASSUME NEW L, NEW C, NEW st \in PassState(L, C), Numbered(Segments(st), st.ids),
         st.closed # <<>> => st.open.text # <<>>,
         NoLabel \in L, NEW p, p.speaker \in L, p.text \in Seq(C) \ {<<>>}, ~ Extends(st, p)
  PROVE  LET next == OpenFor(st, p)
         IN  /\ next \in PassState(L, C) /\ next.open.text # <<>>
             /\ Numbered(Segments(next), next.ids)
<1>. DEFINE ids == IF p.speaker = NoLabel \/ Contains(st.ids, p.speaker) THEN st.ids
                   ELSE Append(st.ids, p.speaker)
            number == IF p.speaker = NoLabel THEN Unattributed ELSE NumberOf(ids, p.speaker)
            seg == [speaker |-> number, id |-> p.speaker, text |-> p.text]
            shut == CloseOpen(st)
            next == OpenFor(st, p)
<1>1. /\ st.ids \in Seq(L) /\ Len(st.ids) \in Nat /\ DOMAIN st.ids = 1 .. Len(st.ids)
      /\ \A i \in 1 .. Len(st.ids) : st.ids[i] \in L
  BY LenProperties DEF PassState
<1>2. /\ ids \in Seq(L)
      /\ p.speaker # NoLabel /\ ~ Contains(st.ids, p.speaker) =>
           /\ Len(ids) = Len(st.ids) + 1 /\ ids[Len(ids)] = p.speaker
           /\ \A i \in DOMAIN st.ids : st.ids[i] # p.speaker /\ ids[i] = st.ids[i]
  BY <1>1, AppendProperties DEF Contains
<1>3. p.speaker # NoLabel => \E i \in DOMAIN ids : ids[i] = p.speaker
  BY <1>1, <1>2 DEF Contains
<1>4. p.speaker # NoLabel =>
        /\ number \in Int /\ number + 1 \in DOMAIN ids /\ ids[number + 1] = p.speaker
  <2>. SUFFICES ASSUME p.speaker # NoLabel
                PROVE  number \in Int /\ number + 1 \in DOMAIN ids /\ ids[number + 1] = p.speaker
    OBVIOUS
  <2>. DEFINE c == CHOOSE n \in DOMAIN ids : ids[n] = p.speaker
  <2>1. c \in DOMAIN ids /\ ids[c] = p.speaker
    BY <1>3
  <2>2. number = c - 1
    BY DEF NumberOf
  <2>3. DOMAIN ids = 1 .. Len(ids) /\ Len(ids) \in Nat
    BY <1>2, LenProperties
  <2>. HIDE DEF ids, number, c
  <2>. QED
    BY <2>1, <2>2, <2>3
<1>5. number \in Int
  BY <1>4 DEF Unattributed
<1>6. seg \in SegmentOf(L, C)
  BY <1>5 DEF SegmentOf
<1>7. /\ Segments(st) \in Seq(SegmentOf(L, C)) /\ shut.closed = Segments(st)
      /\ shut \in PassState(L, C)
  BY SegmentsFacts, ShutFacts
<1>8. next = [[shut EXCEPT !.open = seg] EXCEPT !.ids = ids]
  BY DEF OpenFor
<1>9. seg.id = p.speaker /\ seg.text # <<>> /\ seg.speaker = number
  OBVIOUS
<1>. HIDE DEF seg, shut, ids, number
<1>10. /\ next \in PassState(L, C) /\ next.open = seg /\ next.ids = ids
       /\ next.closed = Segments(st)
  BY <1>2, <1>6, <1>7, <1>8 DEF PassState, SegmentOf
<1>. HIDE DEF next
<1>11. Segments(next) = Append(Segments(st), seg)
  BY <1>9, <1>10 DEF Segments
<1>12. Numbered(Append(Segments(st), seg), ids)
  <2>1. CASE p.speaker = NoLabel
    <3>1. st.open.text = <<>> /\ Segments(st) = <<>>
      BY <2>1 DEF Extends, Segments
    <3>2. ids = st.ids
      BY <2>1 DEF ids
    <3>3. \A q \in DOMAIN ids : FALSE
      BY <3>1, <3>2 DEF Numbered
    <3>4. Append(Segments(st), seg) = <<seg>>
      BY <3>1
    <3>. QED
      BY <1>9, <2>1, <3>3, <3>4 DEF Numbered
  <2>2. CASE p.speaker # NoLabel /\ Contains(st.ids, p.speaker)
    <3>1. ids = st.ids
      BY <2>2 DEF ids
    <3>2. PICK q : q = number + 1
      OBVIOUS
    <3>3. q \in DOMAIN ids /\ seg.id = ids[q] /\ seg.speaker = q - 1 /\ seg.id # NoLabel
      BY <1>4, <1>9, <2>2, <3>2
    <3>. QED
      BY <1>6, <1>7, <3>1, <3>3, NumberedKnown
  <2>3. CASE p.speaker # NoLabel /\ ~ Contains(st.ids, p.speaker)
    <3>1. ids = Append(st.ids, seg.id)
      BY <1>9, <2>3 DEF ids
    <3>2. \A i \in DOMAIN st.ids : st.ids[i] # seg.id
      BY <1>2, <1>9, <2>3
    <3>3. seg.speaker = Len(st.ids)
      <4>1. /\ number \in Int /\ number + 1 \in DOMAIN ids /\ ids[number + 1] = p.speaker
            /\ DOMAIN ids = 1 .. Len(st.ids) + 1
        BY <1>1, <1>2, <1>4, <2>3, LenProperties
      <4>2. \A i \in 1 .. Len(st.ids) : ids[i] # p.speaker
        BY <1>1, <1>2, <2>3
      <4>. QED
        BY <1>1, <1>9, <4>1, <4>2
    <3>. QED
      BY <1>1, <1>6, <1>7, <1>9, <2>3, <3>1, <3>2, <3>3, NumberedNew
  <2>. QED
    BY <2>1, <2>2, <2>3
<1>. QED
  BY <1>9, <1>10, <1>11, <1>12 DEF next

\* The loop takes a piece.
LEMMA TakePieceFacts ==
  ASSUME NEW C, NEW st, InLoop(st, C), NEW p, p.text \in Seq(C) \ {<<>>}
  PROVE  InLoop(TakePiece(st, p), C)
<1>1. PICK K : /\ st \in PassState(K, C)
               /\ st.closed # <<>> => st.open.text # <<>>
               /\ Numbered(Segments(st), st.ids)
  BY DEF InLoop, Tidy
<1>. DEFINE L == K \cup {NoLabel, p.speaker}
            next == IF Extends(st, p) THEN [st EXCEPT !.open.text = @ \o p.text]
                    ELSE OpenFor(st, p)
<1>2. st \in PassState(L, C)
  BY <1>1, MoreLabels
<1>3. /\ next \in PassState(L, C) /\ next.open.text # <<>>
      /\ Numbered(Segments(next), next.ids)
  <2>1. CASE Extends(st, p)
    <3>1. st.open.text # <<>>
      BY <2>1 DEF Extends
    <3>2. next = [st EXCEPT !.open.text = @ \o p.text]
      BY <2>1
    <3>. HIDE DEF L, next
    <3>. QED
      BY <1>1, <1>2, <3>1, <3>2, ExtendFacts
  <2>2. CASE ~ Extends(st, p)
    <3>1. NoLabel \in L /\ p.speaker \in L
      OBVIOUS
    <3>. HIDE DEF L
    <3>. QED
      BY <1>1, <1>2, <2>2, <3>1, OpenFacts
  <2>. QED
    BY <2>1, <2>2
<1>. HIDE DEF next, L
<1>. DEFINE counted == [next EXCEPT !.unattributed = @ + Len(p.text)]
<1>4. /\ counted \in PassState(L, C) /\ counted.open = next.open
      /\ counted.closed = next.closed /\ counted.ids = next.ids
  <2>1. Len(p.text) \in Nat /\ next.unattributed \in Nat
    BY <1>3 DEF PassState
  <2>2. PICK n \in Nat : n = next.unattributed + Len(p.text)
    BY <2>1
  <2>3. counted = [next EXCEPT !.unattributed = n]
    BY <2>2
  <2>. HIDE DEF counted
  <2>. QED
    BY <1>3, <2>3 DEF PassState
<1>5. Segments(counted) = Segments(next)
  BY <1>4 DEF Segments
<1>6. TakePiece(st, p) \in {next, counted}
  BY DEF TakePiece, next
<1>. HIDE DEF counted
<1>. QED
  BY <1>3, <1>4, <1>5, <1>6 DEF InLoop, Tidy

\* What a piece that opens a segment leaves: the segments before, closed, and
\* its own, open.
LEMMA OpenForIs ==
  ASSUME NEW L, NEW C, NEW st \in PassState(L, C), NoLabel \in L, NEW p
  PROVE  LET next == OpenFor(st, p)
         IN  /\ next.closed = Segments(st)
             /\ next.open.text = p.text /\ next.open.id = p.speaker
             /\ p.speaker = NoLabel => next.open.speaker = Unattributed
             /\ next.unattributed = st.unattributed
             /\ \A u : LET more == [next EXCEPT !.unattributed = u]
                       IN  more.closed = next.closed /\ more.open = next.open /\ more.unattributed = u
<1>. DEFINE next == OpenFor(st, p)
            shut == CloseOpen(st)
<1>1. PICK seg, ids : /\ next = [[shut EXCEPT !.open = seg] EXCEPT !.ids = ids]
                      /\ seg.text = p.text /\ seg.id = p.speaker
                      /\ p.speaker = NoLabel => seg.speaker = Unattributed
  <2>. DEFINE ids == IF p.speaker = NoLabel \/ Contains(st.ids, p.speaker) THEN st.ids
                     ELSE Append(st.ids, p.speaker)
              number == IF p.speaker = NoLabel THEN Unattributed ELSE NumberOf(ids, p.speaker)
              seg == [speaker |-> number, id |-> p.speaker, text |-> p.text]
  <2>1. next = [[shut EXCEPT !.open = seg] EXCEPT !.ids = ids]
    BY DEF OpenFor
  <2>2. /\ seg.text = p.text /\ seg.id = p.speaker
        /\ p.speaker = NoLabel => seg.speaker = Unattributed
    OBVIOUS
  <2>. QED
    BY <2>1, <2>2
<1>2. /\ shut.closed = Segments(st) /\ shut.unattributed = st.unattributed
      /\ shut \in PassState(L, C)
  BY SegmentsFacts, ShutFacts
<1>. HIDE DEF shut, next
<1>3. /\ next.closed = Segments(st) /\ next.open = seg /\ next.unattributed = st.unattributed
      /\ DOMAIN next = {"open", "closed", "ids", "unattributed"}
      /\ next = [f \in DOMAIN next |-> next[f]]
  BY <1>1, <1>2 DEF PassState
<1>4. ASSUME NEW u
      PROVE  LET more == [next EXCEPT !.unattributed = u]
             IN  more.closed = next.closed /\ more.open = next.open /\ more.unattributed = u
  BY <1>3
<1>. QED
  BY <1>1, <1>3, <1>4 DEF next

\* A piece comes behind the text of the segments.  They keep their labels and
\* numbers; the piece is in a segment of its label, if it has one, and counts if
\* it has none.  A segment it opens behind others has a label, and another one
\* than the segment before.
LEMMA TakeGrows ==
  ASSUME NEW C, NEW st, InLoop(st, C), NEW p, p.text \in Seq(C) \ {<<>>}
  PROVE  LET next == TakePiece(st, p)
             segs == Segments(st)
             more == Segments(next)
         IN  /\ Grown(segs, more, p.text)
             /\ \A n \in 1 .. Len(segs) :
                  more[n].id = segs[n].id /\ more[n].speaker = segs[n].speaker
             /\ p.speaker # NoLabel => more[Len(more)].id = p.speaker
             /\ Len(more) # Len(segs) =>
                  /\ Len(more) = Len(segs) + 1 /\ more[Len(more)].id = p.speaker
                  /\ p.speaker = NoLabel => more[Len(more)].speaker = Unattributed
                  /\ segs # <<>> => p.speaker \notin {NoLabel, segs[Len(segs)].id}
             /\ next.unattributed = st.unattributed + (IF p.speaker = NoLabel THEN Len(p.text) ELSE 0)
<1>1. PICK K : st \in PassState(K, C) /\ (st.closed # <<>> => st.open.text # <<>>)
  BY DEF InLoop, Tidy
<1>. DEFINE L == K \cup {NoLabel}
<1>2. st \in PassState(L, C) /\ NoLabel \in L
  BY <1>1, MoreLabels
<1>. HIDE DEF L
<1>. DEFINE next == TakePiece(st, p)
            segs == Segments(st)
            more == Segments(next)
            u == st.unattributed + (IF p.speaker = NoLabel THEN Len(p.text) ELSE 0)
<1>3. /\ st.closed \in Seq(SegmentOf(L, C)) /\ st.unattributed \in Nat
      /\ st.open \in [speaker : Int, id : L, text : Seq(C)]
      /\ segs \in Seq(SegmentOf(L, C))
  BY <1>2, SegmentsFacts DEF PassState
<1>4. st.unattributed + 0 = st.unattributed
  BY <1>3
<1>5. CASE Extends(st, p)
  <2>. DEFINE longer == [st.open EXCEPT !.text = @ \o p.text]
              n == Len(st.closed) + 1
  <2>1. st.open.text # <<>> /\ (p.speaker # NoLabel => p.speaker = st.open.id)
    BY <1>5 DEF Extends
  <2>2. next = IF p.speaker = NoLabel
               THEN [[st EXCEPT !.open = longer] EXCEPT !.unattributed = @ + Len(p.text)]
               ELSE [st EXCEPT !.open = longer]
    BY <1>5 DEF TakePiece
  <2>3. longer.text = st.open.text \o p.text /\ longer.id = st.open.id /\ longer.speaker = st.open.speaker
        /\ longer \in SegmentOf(L, C)
    <3>1. PICK t \in Seq(C) : t = st.open.text \o p.text
      BY <1>3, ConcatProperties
    <3>2. t # <<>>
      BY <1>3, <2>1, <3>1, ConcatProperties, EmptySeq
    <3>3. longer = [st.open EXCEPT !.text = t]
      BY <3>1
    <3>. QED
      BY <1>3, <3>1, <3>2, <3>3 DEF SegmentOf
  <2>. HIDE DEF longer
  <2>4. next.open = longer /\ next.closed = st.closed /\ next.unattributed = u
    BY <1>2, <1>4, <2>2 DEF PassState
  <2>. HIDE DEF next, u
  <2>5. more = Append(st.closed, longer) /\ segs = Append(st.closed, st.open)
        /\ st.open \in SegmentOf(L, C)
    BY <1>3, <2>1, <2>3, <2>4 DEF Segments, SegmentOf
  <2>. HIDE DEF more, segs
  <2>6. /\ n \in Nat \ {0} /\ Len(more) = n /\ Len(segs) = n
        /\ \A k \in 1 .. n - 1 : more[k] = st.closed[k] /\ segs[k] = st.closed[k]
        /\ more[n] = longer /\ segs[n] = st.open
    BY <1>3, <2>3, <2>5, AppendProperties, LenProperties
  <2>. HIDE DEF n
  <2>7. \A k \in 1 .. n - 1 : segs[k] = more[k]
    BY <2>6
  <2>8. segs # <<>>
    BY <2>6, EmptySeq, <1>3
  <2>9. Lengthened(segs, more, p.text)
    BY <2>3, <2>6, <2>7, <2>8 DEF Lengthened, Agree
  <2>10. \A k \in 1 .. n : more[k].id = segs[k].id /\ more[k].speaker = segs[k].speaker
    BY <2>3, <2>6
  <2>. QED
    BY <2>1, <2>3, <2>4, <2>6, <2>9, <2>10 DEF Grown, segs, more, next, u
<1>6. CASE ~ Extends(st, p)
  <2>. DEFINE opened == OpenFor(st, p)
              n == Len(segs)
  <2>1. /\ opened.closed = Segments(st)
        /\ opened.open.text = p.text /\ opened.open.id = p.speaker
        /\ p.speaker = NoLabel => opened.open.speaker = Unattributed
        /\ opened.unattributed = st.unattributed
        /\ \A v : LET counted == [opened EXCEPT !.unattributed = v]
                  IN  /\ counted.closed = opened.closed /\ counted.open = opened.open
                      /\ counted.unattributed = v
    BY <1>2, OpenForIs
  <2>2. next = IF p.speaker = NoLabel
               THEN [opened EXCEPT !.unattributed = @ + Len(p.text)] ELSE opened
    BY <1>6 DEF TakePiece
  <2>0. segs # <<>> => p.speaker \notin {NoLabel, segs[Len(segs)].id}
    <3>. SUFFICES ASSUME segs # <<>> PROVE p.speaker \notin {NoLabel, segs[Len(segs)].id}
      OBVIOUS
    <3>1. st.open.text # <<>>
      BY <1>1 DEF Segments
    <3>2. segs = Append(st.closed, st.open) /\ st.open \in SegmentOf(L, C)
      BY <1>3, <3>1 DEF Segments, SegmentOf
    <3>3. segs[Len(segs)] = st.open
      BY <1>3, <3>2, AppendProperties
    <3>. QED
      BY <1>6, <3>1, <3>3 DEF Extends
  <2>. HIDE DEF opened
  <2>3. next.closed = segs /\ next.open = opened.open /\ next.unattributed = u
    BY <1>4, <2>1, <2>2
  <2>. HIDE DEF next, u
  <2>4. more = Append(segs, opened.open)
    BY <2>1, <2>3 DEF Segments
  <2>. HIDE DEF more, segs
  <2>5. /\ n \in Nat /\ Len(more) = n + 1 /\ more[n + 1] = opened.open
        /\ \A k \in 1 .. n : more[k] = segs[k]
    BY <1>3, <2>4, AppendProperties, LenProperties
  <2>6. Continued(segs, more, p.text)
    BY <2>1, <2>5 DEF Continued, Agree
  <2>. QED
    BY <2>0, <2>1, <2>3, <2>5, <2>6 DEF Grown, segs, more, next, u
<1>. QED
  BY <1>5, <1>6

\* What the loop hands out when it ends are the segments of the pass.
LEMMA CloseFacts ==
  ASSUME NEW C, NEW st, Tidy(st, C)
  PROVE  /\ Tidy(CloseOpen(st), C)
         /\ CloseOpen(st).closed = Segments(st)
         /\ Segments(CloseOpen(st)) = Segments(st)
         /\ CloseOpen(st).unattributed = st.unattributed
<1>1. PICK K : st \in PassState(K, C) /\ Numbered(Segments(st), st.ids)
  BY DEF Tidy
<1>. DEFINE L == K \cup {NoLabel}
            shut == CloseOpen(st)
<1>2. st \in PassState(L, C) /\ NoLabel \in L
  BY <1>1, MoreLabels
<1>. HIDE DEF L
<1>3. /\ shut.closed = Segments(st) /\ shut.ids = st.ids
      /\ shut.unattributed = st.unattributed /\ shut \in PassState(L, C)
  BY <1>2, SegmentsFacts, ShutFacts
<1>4. Segments(shut) = Segments(st)
  <2>1. st.open.text = <<>> => shut = st
    BY DEF CloseOpen
  <2>2. st.open.text # <<>> =>
          shut = [[st EXCEPT !.closed = Append(@, st.open)] EXCEPT !.open = NoSegment]
    BY DEF CloseOpen
  <2>3. st.open.text # <<>> => shut.open = NoSegment
    BY <1>2, <2>2 DEF PassState
  <2>. QED
    BY <1>3, <2>1, <2>3 DEF Segments, NoSegment
<1>. QED
  BY <1>1, <1>3, <1>4 DEF Tidy

\* Text with a label keeps the telemetry at zero and every segment labelled.
AllLabelled(segs) == \A n \in DOMAIN segs : segs[n].id # NoLabel

\* A piece with a label neither counts as unattributed nor leaves a segment without one.
LEMMA LabelledPieceFacts ==
  ASSUME NEW C, NEW st, InLoop(st, C), NEW p, p.text \in Seq(C) \ {<<>>},
         p.speaker # NoLabel, AllLabelled(Segments(st))
  PROVE  /\ TakePiece(st, p).unattributed = st.unattributed
         /\ AllLabelled(Segments(TakePiece(st, p)))
<1>1. PICK K : st \in PassState(K, C)
  BY DEF InLoop, Tidy
<1>. DEFINE L == K \cup {NoLabel, p.speaker}
<1>2. st \in PassState(L, C) /\ NoLabel \in L /\ p.speaker \in L
  BY <1>1, MoreLabels
<1>. HIDE DEF L
<1>3. st.closed \in Seq(SegmentOf(L, C)) /\ st.unattributed \in Nat /\ st.ids \in Seq(L)
  BY <1>2 DEF PassState
<1>4. CASE Extends(st, p)
  <2>. DEFINE next == TakePiece(st, p)
              longer == [st.open EXCEPT !.text = @ \o p.text]
  <2>1. next = [st EXCEPT !.open = longer]
    BY <1>4 DEF TakePiece
  <2>2. /\ longer.id = st.open.id
        /\ next.open = longer /\ next.closed = st.closed /\ next.unattributed = st.unattributed
    BY <1>2, <2>1 DEF PassState
  <2>3. st.open.text # <<>> /\ p.speaker = st.open.id
    BY <1>4 DEF Extends
  <2>. HIDE DEF next, longer
  <2>4. longer.id # NoLabel
    BY <2>2, <2>3
  <2>5. \A n \in DOMAIN st.closed : st.closed[n].id # NoLabel
    <3>1. Segments(st) = Append(st.closed, st.open)
      BY <2>3 DEF Segments
    <3>2. \A n \in DOMAIN st.closed : n \in DOMAIN Segments(st) /\ Segments(st)[n] = st.closed[n]
      BY <1>3, <3>1
    <3>. QED
      BY <3>2 DEF AllLabelled
  <2>6. AllLabelled(Append(st.closed, longer))
    BY <1>3, <2>4, <2>5 DEF AllLabelled
  <2>7. AllLabelled(Segments(next))
    BY <2>2, <2>5, <2>6 DEF Segments, AllLabelled
  <2>. QED
    BY <2>2, <2>7 DEF next
<1>5. CASE ~ Extends(st, p)
  <2>. DEFINE next == TakePiece(st, p)
              shut == CloseOpen(st)
              numbers == IF p.speaker = NoLabel \/ Contains(st.ids, p.speaker) THEN st.ids
                         ELSE Append(st.ids, p.speaker)
              number == IF p.speaker = NoLabel THEN Unattributed ELSE NumberOf(numbers, p.speaker)
              opened == [speaker |-> number, id |-> p.speaker, text |-> p.text]
  <2>1. next = [[shut EXCEPT !.open = opened] EXCEPT !.ids = numbers] /\ opened.id = p.speaker
    BY <1>5 DEF TakePiece, OpenFor
  <2>2. PICK seg, ids : next = [[shut EXCEPT !.open = seg] EXCEPT !.ids = ids] /\ seg.id = p.speaker
    BY <2>1
  <2>3. /\ shut.closed = Segments(st) /\ shut.unattributed = st.unattributed
        /\ shut \in PassState(L, C) /\ Segments(st) \in Seq(SegmentOf(L, C))
    BY <1>2, SegmentsFacts, ShutFacts
  <2>. HIDE DEF next, shut
  <2>4. /\ next.open = seg /\ next.closed = Segments(st)
        /\ next.unattributed = st.unattributed
    BY <2>2, <2>3 DEF PassState
  <2>5. AllLabelled(Append(Segments(st), seg))
    BY <2>2, <2>3 DEF AllLabelled
  <2>6. AllLabelled(Segments(next))
    BY <2>4, <2>5 DEF Segments
  <2>. QED
    BY <2>4, <2>6 DEF next
<1>. QED
  BY <1>4, <1>5

-----------------------------------------------------------------------------
(* Where the units and the pieces are *)

\* Every piece ends with a unit.
BordersOf(ls, s) == \A n \in 0 .. Len(ls) : UnitBorder(s, End(ls, n))

\* Every unit that begins in the first p characters is in a piece that has its verdict.
UnitsIn(ls, s, marking, p) ==
  \A i \in 1 .. p : UnitBorder(s, i - 1) =>
    \E n \in 1 .. Len(ls) : /\ Holds(ls, n, i, UnitEnd(s, i))
                            /\ ls[n].speaker = Winner(marking, i, UnitEnd(s, i)).speaker

\* Every segment ends with one of the first t pieces.
Inside(segs, ls, t) ==
  \A n \in 0 .. Len(segs) : \E m \in 0 .. t : End(segs, n) = End(ls, m)

\* Each of the first t pieces is in a segment of its label, if it has one.
Credited(segs, ls, t) ==
  \A n \in 1 .. t : ls[n].speaker # NoLabel =>
    \E m \in 1 .. Len(segs) : /\ Holds(segs, m, End(ls, n - 1) + 1, End(ls, n))
                              /\ segs[m].id = ls[n].speaker

\* The characters of those of the first t pieces that have no label.
Unlabelled(ls, t) ==
  {k \in 1 .. End(ls, Len(ls)) :
     \E n \in 1 .. t : ls[n].speaker = NoLabel /\ Holds(ls, n, k, k)}

\* Pieces and segments have texts.
LEMMA PiecesHaveTexts ==
  ASSUME NEW L, NEW K, NEW C
  PROVE  /\ \A ps \in Seq(PieceOf(L, K, C)) : HasTexts(ps, C)
         /\ \A segs \in Seq(SegmentOf(L, C)) : HasTexts(segs, C)
<1>1. /\ \A r \in PieceOf(L, K, C) : r.text \in Seq(C)
      /\ \A r \in SegmentOf(L, C) : r.text \in Seq(C)
  BY DEF PieceOf, SegmentOf
<1>2. ASSUME NEW ls, NEW R, ls \in Seq(R), \A r \in R : r.text \in Seq(C)
      PROVE  HasTexts(ls, C)
  BY <1>2 DEF HasTexts
<1>. QED
  BY <1>1, <1>2

\* A unit more: it comes behind the text of the pieces, in a piece of its verdict.
LEMMA UnitsGrow ==
  ASSUME NEW C, NEW M, NEW N, NEW ps \in Seq(PieceOf(M, N, C)), NEW s \in Seq(C), NEW marking,
         NEW i \in 1 .. Len(s),
         Winner(marking, i, UnitEnd(s, i)).speaker \in M,
         Winner(marking, i, UnitEnd(s, i)).snapped \in N,
         Joined(ps) = SubSeq(s, 1, i - 1), UnitBorder(s, i - 1),
         BordersOf(ps, s), UnitsIn(ps, s, marking, i - 1)
  PROVE  LET j == UnitEnd(s, i)
             qs == PutUnit(ps, s, marking, i, j)
         IN  /\ Joined(qs) = SubSeq(s, 1, j) /\ UnitBorder(s, j)
             /\ BordersOf(qs, s) /\ UnitsIn(qs, s, marking, j)
<1>. DEFINE j == UnitEnd(s, i)
            qs == PutUnit(ps, s, marking, i, j)
            unit == SubSeq(s, i, j)
            n == Len(ps)
            m == Len(qs)
<1>1. Len(s) \in Nat /\ j \in i .. Len(s) /\ j \in Nat /\ \A h \in 1 .. Len(s) : UnitEnd(s, h) \in h .. Len(s)
  BY UnitEndFacts
<1>2. /\ qs \in Seq(PieceOf(M, N, C))
      /\ Grown(ps, qs, unit)
      /\ \A k \in 1 .. n : qs[k].speaker = ps[k].speaker
      /\ qs[m].speaker = Winner(marking, i, j).speaker
  <2>. HIDE DEF j
  <2>. QED
    BY <1>1, PutUnitTyped, PutUnitGrows, SMTT(30) DEF j
<1>3. unit \in Seq(C) /\ Len(unit) = j - i + 1
  BY <1>1
<1>4. HasTexts(ps, C) /\ HasTexts(qs, C)
  BY <1>2, PiecesHaveTexts
<1>. HIDE DEF j, qs, unit, n, m
<1>5. /\ Joined(qs) = Joined(ps) \o unit
      /\ m - 1 \in 0 .. n /\ n <= m /\ n \in Nat /\ m \in Nat \ {0}
      /\ \A k \in 0 .. m - 1 : End(qs, k) = End(ps, k)
      /\ End(qs, m) = End(ps, n) + Len(unit)
  <2>1. Grown(ps, qs, unit) /\ unit \in Seq(C) /\ HasTexts(ps, C) /\ HasTexts(qs, C)
    BY <1>2, <1>3, <1>4
  <2>2. /\ Joined(qs) = Joined(ps) \o unit
        /\ Len(qs) - 1 \in 0 .. Len(ps) /\ Len(ps) <= Len(qs)
        /\ Len(ps) \in Nat /\ Len(qs) \in Nat \ {0}
        /\ \A k \in 0 .. Len(qs) - 1 : End(qs, k) = End(ps, k)
        /\ End(qs, Len(qs)) = End(ps, Len(ps)) + Len(unit)
    BY ONLY <2>1, GrownFacts
  <2>. QED
    BY <2>2 DEF n, m
<1>6. End(ps, n) = i - 1 /\ End(qs, m) = j
  <2>1. End(ps, n) = Len(Joined(ps))
    BY <1>4, EndStep DEF n
  <2>2. Len(SubSeq(s, 1, i - 1)) = i - 1
    BY <1>1
  <2>. QED
    BY <1>1, <1>3, <1>5, <2>1, <2>2, SMTT(30)
<1>7. Joined(qs) = SubSeq(s, 1, j)
  <2>1. SubSeq(s, 1, i - 1) \o SubSeq(s, i, j) = SubSeq(s, 1, j)
    BY <1>1, SMTT(30)
  <2>. QED
    BY <1>5, <2>1 DEF unit
<1>8. UnitBorder(s, j)
  BY BorderFacts DEF j
<1>9. BordersOf(qs, s)
  <2>1. ASSUME NEW k \in 0 .. m
        PROVE  UnitBorder(s, End(qs, k))
    <3>1. CASE k = m
      BY <1>6, <1>8, <3>1
    <3>2. CASE k # m
      <4>1. k \in 0 .. m - 1 /\ k \in 0 .. n
        BY <1>5, <3>2
      <4>. QED
        BY <1>5, <4>1 DEF BordersOf, n
    <3>. QED
      BY <3>1, <3>2
  <2>. QED
    BY <2>1 DEF BordersOf, m
<1>10. ASSUME NEW h \in 1 .. j, UnitBorder(s, h - 1)
       PROVE  \E k \in 1 .. m : /\ Holds(qs, k, h, UnitEnd(s, h))
                                /\ qs[k].speaker = Winner(marking, h, UnitEnd(s, h)).speaker
  <2>0. h \in 1 .. Len(s) /\ h \in Int /\ UnitEnd(s, h) \in Int /\ i \in Int /\ j \in Int
    BY <1>1
  <2>1. CASE h <= i - 1
    <3>1. h \in 1 .. i - 1
      BY <2>0, <2>1
    <3>2. PICK k \in 1 .. n : /\ Holds(ps, k, h, UnitEnd(s, h))
                              /\ ps[k].speaker = Winner(marking, h, UnitEnd(s, h)).speaker
      BY <1>10, <3>1 DEF UnitsIn, n
    <3>3. k \in 1 .. m /\ Holds(qs, k, h, UnitEnd(s, h))
      BY <1>2, <1>3, <1>4, <2>0, <3>2, GrownHolds DEF n, m
    <3>. QED
      BY <1>2, <3>2, <3>3
  <2>2. CASE h = i
    <3>1. UnitEnd(s, h) = j
      BY <2>2 DEF j
    <3>2. Holds(qs, m, i, j)
      <4>1. End(ps, Len(ps)) < i /\ j <= End(qs, Len(qs))
        BY <1>1, <1>6, <2>0 DEF n, m
      <4>. QED
        BY <1>2, <1>3, <1>4, <2>0, <4>1, GrownHolds DEF m
    <3>3. m \in 1 .. m
      BY <1>5
    <3>. QED
      BY <1>2, <2>2, <3>1, <3>2, <3>3
  <2>3. CASE h > i
    <3>1. i \in 1 .. h - 1
      BY <2>0, <2>3
    <3>2. UnitEnd(s, i) <= h - 1
      BY <1>10, <3>1 DEF UnitBorder
    <3>. QED
      BY <1>1, <2>0, <3>2 DEF j
  <2>. QED
    BY <2>0, <2>1, <2>2, <2>3
<1>11. UnitsIn(qs, s, marking, j)
  BY <1>10 DEF UnitsIn, m
<1>. QED
  BY <1>7, <1>8, <1>9, <1>11 DEF j, qs

\* Every character is in a unit.
LEMMA UnitOf ==
  ASSUME NEW C, NEW s \in Seq(C), NEW k \in 1 .. Len(s)
  PROVE  \E i \in 1 .. k : UnitBorder(s, i - 1) /\ k <= UnitEnd(s, i)
<1>. DEFINE B == {p \in 0 .. k - 1 : UnitBorder(s, p)}
<1>1. Len(s) \in Nat /\ k \in Nat /\ k - 1 \in Nat
  BY LenProperties
<1>2. 0 \in B
  BY <1>1 DEF UnitBorder
<1>3. PICK p \in B : \A q \in B : q <= p
  <2>1. B \subseteq 0 .. k - 1 /\ B # {}
    BY <1>2
  <2>. HIDE DEF B
  <2>. QED
    BY <1>1, <2>1, MaxFacts
<1>4. p + 1 \in 1 .. k /\ p + 1 \in 1 .. Len(s) /\ (p + 1) - 1 = p /\ UnitBorder(s, p) /\ p \in Int
  BY <1>1
<1>. DEFINE i == p + 1
            e == UnitEnd(s, i)
<1>5. i \in 1 .. k /\ i \in 1 .. Len(s) /\ UnitBorder(s, i - 1) /\ p < i
  BY <1>4
<1>. HIDE DEF i, B
<1>6. UnitBorder(s, e) /\ e \in i .. Len(s)
  BY <1>5, BorderFacts, UnitEndFacts
<1>. HIDE DEF e
<1>7. ~ (e <= k - 1)
  <2>. SUFFICES ASSUME e <= k - 1 PROVE FALSE
    OBVIOUS
  <2>1. e \in B
    BY <1>1, <1>5, <1>6 DEF B
  <2>2. e <= p
    BY <1>3, <2>1
  <2>. QED
    BY <1>1, <1>4, <1>5, <1>6, <2>2
<1>8. k <= e
  BY <1>1, <1>5, <1>6, <1>7
<1>. QED
  BY <1>5, <1>8 DEF e

\* A piece more: its text comes behind that of the segments, in a segment of its
\* label, if it has one.
LEMMA SegmentsGrow ==
  ASSUME NEW C, NEW M, NEW N, NEW ps \in Seq(PieceOf(M, N, C)), NEW t \in 1 .. Len(ps),
         NEW st, InLoop(st, C),
         Joined(Segments(st)) = Joined(SubSeq(ps, 1, t - 1)),
         Inside(Segments(st), ps, t - 1), Credited(Segments(st), ps, t - 1)
  PROVE  LET more == Segments(TakePiece(st, ps[t]))
         IN  /\ Joined(more) = Joined(SubSeq(ps, 1, t))
             /\ Inside(more, ps, t) /\ Credited(more, ps, t)
<1>. DEFINE p == ps[t]
            segs == Segments(st)
            more == Segments(TakePiece(st, p))
            n == Len(segs)
            m == Len(more)
<1>1. /\ p \in PieceOf(M, N, C) /\ p.text \in Seq(C) \ {<<>>}
      /\ Len(ps) \in Nat /\ HasTexts(ps, C)
  <2>1. p \in PieceOf(M, N, C) /\ Len(ps) \in Nat
    BY ElementOfSeq, LenProperties
  <2>. HIDE DEF p
  <2>. QED
    BY <2>1, PiecesHaveTexts DEF PieceOf
<1>. HIDE DEF p
<1>2. HasTexts(segs, C) /\ HasTexts(more, C)
  <2>1. \A any : InLoop(any, C) => HasTexts(Segments(any), C)
    <3>. SUFFICES ASSUME NEW any, InLoop(any, C) PROVE HasTexts(Segments(any), C)
      OBVIOUS
    <3>1. PICK K : any \in PassState(K, C)
      BY DEF InLoop, Tidy
    <3>2. Segments(any) \in Seq(SegmentOf(K, C))
      BY <3>1, SegmentsFacts
    <3>. QED
      BY <3>2, PiecesHaveTexts
  <2>2. InLoop(TakePiece(st, p), C)
    BY <1>1, TakePieceFacts
  <2>. QED
    BY <2>1, <2>2
<1>3. /\ Grown(segs, more, p.text)
      /\ \A k \in 1 .. n : more[k].id = segs[k].id
      /\ p.speaker # NoLabel => more[m].id = p.speaker
  BY <1>1, TakeGrows
<1>. HIDE DEF segs, more
<1>4. /\ Joined(more) = Joined(segs) \o p.text
      /\ m - 1 \in 0 .. n /\ n <= m /\ n \in Nat /\ m \in Nat \ {0}
      /\ \A k \in 0 .. m - 1 : End(more, k) = End(segs, k)
      /\ End(more, m) = End(segs, n) + Len(p.text)
  <2>1. PICK u \in Seq(C) : u = p.text
    BY <1>1
  <2>2. Grown(segs, more, u) /\ HasTexts(segs, C) /\ HasTexts(more, C)
    BY <1>2, <1>3, <2>1
  <2>3. /\ Joined(more) = Joined(segs) \o u
        /\ Len(more) - 1 \in 0 .. Len(segs) /\ Len(segs) <= Len(more)
        /\ Len(segs) \in Nat /\ Len(more) \in Nat \ {0}
        /\ \A k \in 0 .. Len(more) - 1 : End(more, k) = End(segs, k)
        /\ End(more, Len(more)) = End(segs, Len(segs)) + Len(u)
    BY ONLY u \in Seq(C), <2>2, GrownFacts
  <2>. QED
    BY <2>1, <2>3
<1>5. /\ Joined(SubSeq(ps, 1, t)) = Joined(SubSeq(ps, 1, t - 1)) \o p.text
      /\ End(ps, t) = End(ps, t - 1) + Len(p.text)
  BY <1>1, JoinedUpTo, EndStep DEF p
<1>6. Joined(more) = Joined(SubSeq(ps, 1, t))
  BY <1>4, <1>5 DEF segs
<1>7. End(segs, n) = End(ps, t - 1) /\ End(more, m) = End(ps, t)
  <2>1. End(segs, n) = Len(Joined(segs))
    BY <1>2, EndStep
  <2>2. End(segs, n) = End(ps, t - 1)
    BY <2>1 DEF End, segs
  <2>. QED
    BY <1>4, <1>5, <2>2
<1>8. t \in Nat /\ t - 1 \in 0 .. t /\ t \in 0 .. t /\ t - 1 \in Nat
  BY <1>1
<1>9. ASSUME NEW k \in 0 .. m
      PROVE  \E h \in 0 .. t : End(more, k) = End(ps, h)
  <2>1. CASE k = m
    BY <1>7, <1>8, <2>1
  <2>2. CASE k # m
    <3>1. k \in 0 .. m - 1 /\ k \in 0 .. n
      BY <1>4, <2>2
    <3>2. PICK h \in 0 .. t - 1 : End(segs, k) = End(ps, h)
      BY <3>1 DEF Inside, segs
    <3>3. h \in 0 .. t
      BY <1>8
    <3>. QED
      BY <1>4, <3>1, <3>2, <3>3
  <2>. QED
    BY <2>1, <2>2
<1>10. Inside(more, ps, t)
  BY <1>9 DEF Inside
<1>11. ASSUME NEW k \in 1 .. t, ps[k].speaker # NoLabel
       PROVE  \E h \in 1 .. m : /\ Holds(more, h, End(ps, k - 1) + 1, End(ps, k))
                                /\ more[h].id = ps[k].speaker
  <2>1. /\ k \in 0 .. Len(ps) /\ k - 1 \in 0 .. Len(ps)
        /\ t \in 0 .. Len(ps) /\ t - 1 \in 0 .. Len(ps)
    BY <1>1
  <2>2. /\ End(ps, k) \in Nat /\ End(ps, k - 1) \in Nat /\ End(ps, k - 1) + 1 \in Int /\ End(ps, k) \in Int
        /\ End(ps, t) \in Nat /\ End(ps, t - 1) \in Nat
    BY <1>1, <2>1, EndStep
  <2>3. CASE k = t
    <3>1. End(segs, n) < End(ps, k - 1) + 1 /\ End(ps, k) <= End(more, m)
      BY <1>7, <2>2, <2>3
    <3>2. Holds(more, m, End(ps, k - 1) + 1, End(ps, k))
      BY <1>1, <1>2, <1>3, <2>2, <3>1, GrownHolds
    <3>3. m \in 1 .. m /\ more[m].id = ps[k].speaker
      BY <1>3, <1>4, <1>11, <2>3 DEF p
    <3>. QED
      BY <3>2, <3>3
  <2>4. CASE k # t
    <3>1. k \in 1 .. t - 1
      BY <1>8, <2>4
    <3>2. PICK h \in 1 .. n : /\ Holds(segs, h, End(ps, k - 1) + 1, End(ps, k))
                              /\ segs[h].id = ps[k].speaker
      BY <1>11, <3>1 DEF Credited, segs
    <3>3. h \in 1 .. m /\ Holds(more, h, End(ps, k - 1) + 1, End(ps, k))
      BY <1>1, <1>2, <1>3, <2>2, <3>2, GrownHolds
    <3>. QED
      BY <1>3, <3>2, <3>3
  <2>. QED
    BY <2>3, <2>4
<1>12. Credited(more, ps, t)
  BY <1>11 DEF Credited
<1>. QED
  BY <1>6, <1>10, <1>12 DEF more, p

\* The characters without a label: those of the first t pieces are finitely many,
\* and the next piece adds its own, if it has no label.
LEMMA UnlabelledGrows ==
  ASSUME NEW C, NEW M, NEW N, NEW ps \in Seq(PieceOf(M, N, C)), NEW t \in 1 .. Len(ps)
  PROVE  /\ Unlabelled(ps, 0) = {}
         /\ IsFiniteSet(Unlabelled(ps, t)) /\ IsFiniteSet(Unlabelled(ps, t - 1))
         /\ Cardinality(Unlabelled(ps, t)) =
              Cardinality(Unlabelled(ps, t - 1))
                + (IF ps[t].speaker = NoLabel THEN Len(ps[t].text) ELSE 0)
<1>. DEFINE old == Unlabelled(ps, t - 1)
            new == (End(ps, t - 1) + 1) .. End(ps, t)
            all == 1 .. End(ps, Len(ps))
            last == Len(ps)
<1>1. HasTexts(ps, C) /\ last \in Nat
  BY PiecesHaveTexts, LenProperties
<1>2. /\ \A n \in 0 .. last : End(ps, n) \in Nat
      /\ \A n \in 0 .. last : \A m \in 0 .. n : End(ps, m) <= End(ps, n)
      /\ End(ps, t) = End(ps, t - 1) + Len(ps[t].text)
  BY <1>1, EndStep, EndsInOrder
<1>3. /\ t \in 0 .. last /\ t - 1 \in 0 .. last /\ t - 1 \in 0 .. t /\ last \in 0 .. last
      /\ t \in 0 .. last /\ t \in 1 .. last
  BY <1>1
<1>4. ps[t].text \in Seq(C) /\ Len(ps[t].text) \in Nat
  <2>1. ps[t] \in PieceOf(M, N, C)
    BY ElementOfSeq
  <2>. QED
    BY <2>1, LenProperties DEF PieceOf
<1>. DEFINE a == End(ps, t - 1)
            b == End(ps, t)
            c == End(ps, last)
<1>5. a \in Nat /\ b \in Nat /\ c \in Nat /\ a <= b /\ b <= c /\ b - a = Len(ps[t].text)
  <2>1. a \in Nat /\ b \in Nat /\ c \in Nat
    BY <1>2, <1>3
  <2>2. a <= b /\ b <= c
    BY <1>2, <1>3
  <2>. HIDE DEF a, b, c
  <2>3. b = a + Len(ps[t].text)
    BY <1>2 DEF a, b
  <2>. QED
    BY <1>4, <2>1, <2>2, <2>3
<1>6. IsFiniteSet(all) /\ IsFiniteSet(new) /\ Cardinality(new) = Len(ps[t].text)
  <2>. HIDE DEF a, b, c
  <2>1. IsFiniteSet(1 .. c) /\ IsFiniteSet((a + 1) .. b)
        /\ Cardinality((a + 1) .. b) = IF a + 1 > b THEN 0 ELSE b - (a + 1) + 1
    <3>1. 1 \in Int /\ a + 1 \in Int /\ b \in Int /\ c \in Int
      BY <1>5
    <3>2. IsFiniteSet(1 .. c)
      BY <3>1, FS_Interval
    <3>3. PICK d \in Int : d = a + 1
      BY <3>1
    <3>4. IsFiniteSet(d .. b) /\ Cardinality(d .. b) = IF d > b THEN 0 ELSE b - d + 1
      BY <3>1, FS_Interval
    <3>. QED
      BY <3>2, <3>3, <3>4
  <2>2. Cardinality((a + 1) .. b) = b - a
    BY <1>5, <2>1
  <2>. QED
    BY <1>5, <2>1, <2>2 DEF a, b, c
<1>7. IsFiniteSet(Unlabelled(ps, t)) /\ IsFiniteSet(old)
  <2>1. Unlabelled(ps, t) \in SUBSET all /\ old \in SUBSET all
    BY DEF Unlabelled
  <2>. HIDE DEF all, old
  <2>. QED
    BY <1>6, <2>1, FS_Subset
<1>8. Unlabelled(ps, 0) = {}
  BY DEF Unlabelled
<1>9. CASE ps[t].speaker # NoLabel
  <2>1. Unlabelled(ps, t) = old
    <3>1. \A n \in 1 .. t : ps[n].speaker = NoLabel => n \in 1 .. t - 1
      BY <1>3, <1>9
    <3>2. \A n \in 1 .. t - 1 : n \in 1 .. t
      BY <1>3
    <3>. QED
      BY <3>1, <3>2 DEF Unlabelled
  <2>2. Cardinality(old) \in Nat
    BY <1>7, FS_CardinalityType
  <2>. QED
    BY <1>7, <1>8, <1>9, <2>1, <2>2
<1>10. CASE ps[t].speaker = NoLabel
  <2>1. Unlabelled(ps, t) = old \cup new
    <3>1. \A k \in Int : k \in new <=> Holds(ps, t, k, k)
      <4>. HIDE DEF a, b
      <4>1. \A k \in Int : k \in (a + 1) .. b <=> a < k /\ k <= b
        BY <1>5
      <4>. QED
        BY <4>1 DEF Holds, a, b
    <3>2. new \subseteq all
      <4>. HIDE DEF a, b, c
      <4>1. (a + 1) .. b \subseteq 1 .. c
        BY <1>5
      <4>. QED
        BY <4>1 DEF a, b, c
    <3>3. \A n \in 1 .. t : n = t \/ n \in 1 .. t - 1
      BY <1>3
    <3>4. \A n \in 1 .. t - 1 : n \in 1 .. t
      BY <1>3
    <3>5. t \in 1 .. t
      BY <1>3
    <3>6. \A k \in all : k \in Int
      OBVIOUS
    <3>. HIDE DEF new
    <3>7. ASSUME NEW k \in all
          PROVE  (\E n \in 1 .. t : ps[n].speaker = NoLabel /\ Holds(ps, n, k, k))
                   <=> (\/ \E n \in 1 .. t - 1 : ps[n].speaker = NoLabel /\ Holds(ps, n, k, k)
                        \/ k \in new)
      BY <1>10, <3>1, <3>3, <3>4, <3>5, <3>6
    <3>. QED
      BY <3>2, <3>7 DEF Unlabelled
  <2>2. old \cap new = {}
    <3>. SUFFICES ASSUME NEW k \in old, k \in new PROVE FALSE
      OBVIOUS
    <3>1. PICK n \in 1 .. t - 1 : Holds(ps, n, k, k)
      BY DEF Unlabelled
    <3>2. n \in 0 .. last /\ n \in 0 .. t - 1 /\ t - 1 \in 0 .. last
      BY <1>1, <1>3
    <3>3. End(ps, n) <= End(ps, t - 1) /\ End(ps, n) \in Nat
      BY <1>2, <3>2
    <3>. QED
      BY <1>5, <3>1, <3>3 DEF Holds
  <2>. HIDE DEF old, new
  <2>3. Cardinality(old \cup new) = Cardinality(old) + Cardinality(new) - Cardinality(old \cap new)
    BY <1>6, <1>7, FS_Union
  <2>4. Cardinality(old \cap new) = 0 /\ Cardinality(old) \in Nat /\ Cardinality(new) \in Nat
    BY <1>6, <1>7, <2>2, FS_EmptySet, FS_CardinalityType
  <2>5. Cardinality(old \cup new) = Cardinality(old) + Cardinality(new)
    BY <2>3, <2>4
  <2>. QED
    BY <1>6, <1>7, <1>8, <1>10, <2>1, <2>5 DEF old
<1>. QED
  BY <1>9, <1>10

\* Segments and a count of unattributed characters are those of the first t pieces.
Follows(segs, count, ps, t) ==
  /\ Joined(segs) = Joined(SubSeq(ps, 1, t))
  /\ Inside(segs, ps, t) /\ Credited(segs, ps, t)
  /\ count = Cardinality(Unlabelled(ps, t))

\* Before the first piece there is nothing.
LEMMA NoneTaken ==
  ASSUME NEW C, NEW M, NEW N, NEW ps \in Seq(PieceOf(M, N, C))
  PROVE  Follows(<<>>, 0, ps, 0) /\ Cardinality(Unlabelled(ps, 0)) = 0
<1>. DEFINE none == <<>>
<1>1. HasTexts(ps, C) /\ HasTexts(none, C) /\ Len(none) = 0 /\ SubSeq(ps, 1, 0) = none
  BY PiecesHaveTexts, EmptySeq, SubSeqEmpty DEF HasTexts
<1>. HIDE DEF none
<1>2. End(none, 0) = 0 /\ End(ps, 0) = 0
  BY <1>1, EndStep
<1>3. Inside(none, ps, 0)
  BY <1>1, <1>2 DEF Inside
<1>4. Credited(none, ps, 0)
  BY DEF Credited
<1>5. Unlabelled(ps, 0) = {}
  BY DEF Unlabelled
<1>6. Cardinality(Unlabelled(ps, 0)) = 0
  BY <1>5, FS_EmptySet
<1>. QED
  BY <1>1, <1>3, <1>4, <1>6 DEF Follows, none

\* The loop takes the next piece.
LEMMA FollowsOn ==
  ASSUME NEW C, NEW M, NEW N, NEW ps \in Seq(PieceOf(M, N, C)), NEW t \in 1 .. Len(ps),
         NEW st, InLoop(st, C), Follows(Segments(st), st.unattributed, ps, t - 1)
  PROVE  LET next == TakePiece(st, ps[t]) IN Follows(Segments(next), next.unattributed, ps, t)
<1>. DEFINE next == TakePiece(st, ps[t])
<1>1. ps[t].text \in Seq(C) \ {<<>>}
  <2>1. ps[t] \in PieceOf(M, N, C)
    BY ElementOfSeq
  <2>. QED
    BY <2>1 DEF PieceOf
<1>2. next.unattributed = st.unattributed + (IF ps[t].speaker = NoLabel THEN Len(ps[t].text) ELSE 0)
  <2>. DEFINE p == ps[t]
  <2>1. p.text \in Seq(C) \ {<<>>}
    BY <1>1
  <2>. HIDE DEF p
  <2>2. TakePiece(st, p).unattributed = st.unattributed + (IF p.speaker = NoLabel THEN Len(p.text) ELSE 0)
    BY <2>1, TakeGrows
  <2>. QED
    BY <2>2 DEF p
<1>3. Cardinality(Unlabelled(ps, t)) =
        Cardinality(Unlabelled(ps, t - 1)) + (IF ps[t].speaker = NoLabel THEN Len(ps[t].text) ELSE 0)
  BY UnlabelledGrows
<1>4. /\ Joined(Segments(next)) = Joined(SubSeq(ps, 1, t))
      /\ Inside(Segments(next), ps, t) /\ Credited(Segments(next), ps, t)
  BY SegmentsGrow DEF Follows
<1>. HIDE DEF next
<1>5. next.unattributed = Cardinality(Unlabelled(ps, t))
  BY <1>2, <1>3 DEF Follows
<1>. QED
  BY <1>4, <1>5 DEF Follows, next
=============================================================================
