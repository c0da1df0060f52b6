------------------------- MODULE WindowOutputProofs -------------------------
(***************************************************************************)
(* Proofs about WindowOutput for every set of reports: whatever segments   *)
(* and tokens the engine hands over, nothing is lost or cut on the way to  *)
(* the windows, and nothing is printed out of its place.                   *)
(***************************************************************************)
EXTENDS WindowOutput, SequenceFacts

-----------------------------------------------------------------------------
(* Lines *)

Text == Seq(Char) \ {<<>>}
Line == [label : Int, text : Text]
Shown == [window : Nat, label : Int, text : Text]

\* The lines of a window as they are printed, and those of all windows.
Mark(w, line) == [window |-> w, label |-> line.label, text |-> line.text]
Marked(w, ls) == [n \in DOMAIN ls |-> [window |-> w, label |-> ls[n].label, text |-> ls[n].text]]
LinesOf(ws) == FlattenSeq([w \in DOMAIN ws |-> Marked(w, ws[w])])

\* A line is added to those printed: behind them, or to the last one.
WithMore(last, line) == [window |-> line.window, label |-> line.label, text |-> last.text \o line.text]

AddedLine(ls, ms, line) ==
  \/ ms = Append(ls, line)
  \/ \E rest \in Seq(Shown), last \in Shown :
       /\ ls = Append(rest, last) /\ last.window = line.window /\ last.label = line.label
       /\ ms = Append(rest, WithMore(last, line))

\* Marking keeps the order of the lines.
LEMMA MarkedFacts ==
  ASSUME NEW w \in Nat, NEW ls \in Seq(Line)
  PROVE  /\ Marked(w, ls) \in Seq(Shown) /\ Len(Marked(w, ls)) = Len(ls)
         /\ ls = <<>> => Marked(w, ls) = <<>>
         /\ \A e \in Line : Mark(w, e) \in Shown /\ Marked(w, Append(ls, e)) = Append(Marked(w, ls), Mark(w, e))
<1>. DEFINE F == [e \in Line |-> Mark(w, e)]
<1>1. Maps(F, Line, Shown) /\ \A e \in Line : F[e] = Mark(w, e) /\ Mark(w, e) \in Shown
  BY DEF Mark, Line, Shown, Maps
<1>. HIDE DEF F
<1>2. ASSUME NEW ms \in Seq(Line)
      PROVE  Marked(w, ms) = Mapped(F, ms)
  <2>1. \A n \in DOMAIN ms : F[ms[n]] = Mark(w, ms[n])
    BY <1>1, LenProperties, ElementOfSeq
  <2>. QED
    BY <2>1 DEF Marked, Mark, Mapped
<1>3. /\ Mapped(F, ls) \in Seq(Shown) /\ Len(Mapped(F, ls)) = Len(ls)
      /\ \A e \in Line : Mapped(F, Append(ls, e)) = Append(Mapped(F, ls), F[e])
  BY ONLY <1>1, ls \in Seq(Line), MappedFacts
<1>4. Marked(w, ls) \in Seq(Shown) /\ Len(Marked(w, ls)) = Len(ls)
  BY <1>2, <1>3
<1>5. ls = <<>> => Marked(w, ls) = <<>>
  BY <1>4, EmptySeq
<1>6. ASSUME NEW e \in Line
      PROVE  Marked(w, Append(ls, e)) = Append(Marked(w, ls), Mark(w, e))
  <2>1. Append(ls, e) \in Seq(Line)
    BY AppendProperties
  <2>2. Marked(w, Append(ls, e)) = Mapped(F, Append(ls, e))
    BY <1>2, <2>1
  <2>. QED
    BY <1>1, <1>2, <1>3, <2>2
<1>. QED
  BY <1>1, <1>4, <1>5, <1>6

\* The windows of which all behind w are empty end with the lines of w.
LEMMA LinesUpTo ==
  ASSUME NEW W \in Nat, NEW ws \in [1 .. W -> Seq(Line)], NEW w \in 1 .. W,
         \A v \in w + 1 .. W : ws[v] = <<>>
  PROVE  /\ LinesOf(ws) = FlattenSeq([v \in 1 .. w - 1 |-> Marked(v, ws[v])]) \o Marked(w, ws[w])
         /\ [v \in 1 .. w - 1 |-> Marked(v, ws[v])] \in Seq(Seq(Shown))
<1>. DEFINE Up(n) == [v \in 1 .. n |-> Marked(v, ws[v])]
<1>1. \A v \in 1 .. W : Marked(v, ws[v]) \in Seq(Shown)
  BY MarkedFacts
<1>2. ASSUME NEW n \in 0 .. W
      PROVE  Up(n) \in Seq(Seq(Shown)) /\ Len(Up(n)) = n
  <2>1. Up(n) \in [1 .. n -> Seq(Shown)]
    BY <1>1
  <2>. QED
    BY <2>1
<1>3. ASSUME NEW n \in 1 .. W
      PROVE  FlattenSeq(Up(n)) = FlattenSeq(Up(n - 1)) \o Marked(n, ws[n])
  <2>1. n - 1 \in 0 .. W /\ n \in 0 .. W /\ n - 1 \in Nat /\ n \in Nat
    OBVIOUS
  <2>2. /\ Up(n) \in Seq(Seq(Shown)) /\ Len(Up(n)) = n
        /\ Up(n - 1) \in Seq(Seq(Shown)) /\ Len(Up(n - 1)) = n - 1
    BY <1>2, <2>1
  <2>3. Agree(Up(n), Up(n - 1), n - 1) /\ Up(n)[n] = Marked(n, ws[n])
    BY DEF Agree
  <2>. HIDE DEF Up
  <2>4. FlattenSeq(Up(n)) = FlattenSeq(Up(n - 1)) \o Up(n)[n]
    <3>1. PICK a \in Seq(Seq(Shown)), b \in Seq(Seq(Shown)) : a = Up(n) /\ b = Up(n - 1)
      BY <2>2
    <3>2. PICK k \in Nat : k = n - 1
      BY <2>1
    <3>3. Len(b) = k /\ Len(a) = n /\ n > k /\ n <= k + 1 /\ Agree(a, b, k) /\ n \in Nat
      BY <2>1, <2>2, <2>3, <3>1, <3>2
    <3>4. FlattenSeq(a) = FlattenSeq(b) \o a[n]
      BY ONLY <3>3, a \in Seq(Seq(Shown)), b \in Seq(Seq(Shown)), k \in Nat, FlattenLonger
    <3>. QED
      BY <3>1, <3>4
  <2>. QED
    BY <2>3, <2>4
<1>4. LinesOf(ws) = FlattenSeq(Up(W))
  BY DEF LinesOf
<1>. DEFINE T == {m \in Nat : w + m <= W => FlattenSeq(Up(w + m)) = FlattenSeq(Up(w))}
<1>. HIDE DEF Up
<1>5. 0 \in T
  OBVIOUS
<1>6. ASSUME NEW m \in Nat, m \in T
      PROVE  m + 1 \in T
  <2>. SUFFICES ASSUME w + (m + 1) <= W
                PROVE  FlattenSeq(Up(w + (m + 1))) = FlattenSeq(Up(w))
    OBVIOUS
  <2>1. w + m + 1 \in 1 .. W /\ w + m + 1 - 1 = w + m /\ w + m \in 0 .. W /\ w + m + 1 \in w + 1 .. W
        /\ w + (m + 1) = w + m + 1
    OBVIOUS
  <2>2. Marked(w + m + 1, ws[w + m + 1]) = <<>>
    <3>1. PICK v \in 1 .. W : v = w + m + 1
      BY <2>1
    <3>2. ws[v] = <<>> /\ ws[v] \in Seq(Line) /\ v \in Nat
      BY <2>1, <3>1
    <3>3. Marked(v, ws[v]) = <<>>
      BY <3>2, MarkedFacts
    <3>. QED
      BY <3>1, <3>3
  <2>3. FlattenSeq(Up(w + m + 1)) = FlattenSeq(Up(w + m)) \o <<>>
    <3>1. PICK n \in 1 .. W : n = w + m + 1
      BY <2>1
    <3>2. n - 1 = w + m
      BY <3>1
    <3>3. FlattenSeq(Up(n)) = FlattenSeq(Up(n - 1)) \o Marked(n, ws[n])
      BY <1>3
    <3>. QED
      BY <2>2, <3>1, <3>2, <3>3
  <2>4. FlattenSeq(Up(w + m)) \in Seq(Shown)
    BY <1>2, <2>1, FlattenTyped
  <2>5. FlattenSeq(Up(w + m)) = FlattenSeq(Up(w))
    BY <1>6, <2>1
  <2>6. FlattenSeq(Up(w + m)) \o <<>> = FlattenSeq(Up(w + m))
    BY <2>4, ConcatEmptySeq
  <2>. QED
    BY <2>1, <2>3, <2>5, <2>6
<1>. HIDE DEF T
<1>7. \A m \in Nat : m \in T
  BY <1>5, <1>6, InductionOnSet
<1>8. FlattenSeq(Up(W)) = FlattenSeq(Up(w))
  <2>1. W - w \in Nat /\ w + (W - w) = W /\ W <= W
    OBVIOUS
  <2>2. W - w \in T
    BY <1>7, <2>1
  <2>. QED
    BY <2>1, <2>2 DEF T
<1>9. Up(w - 1) \in Seq(Seq(Shown))
  BY <1>2
<1>. QED
  BY <1>3, <1>4, <1>8, <1>9 DEF Up

\* The last line of a list, and the lines before it.
LEMMA LastLine ==
  ASSUME NEW ls \in Seq(Line), ls # <<>>
  PROVE  \E rest \in Seq(Line), last \in Line :
           ls = Append(rest, last) /\ Front(ls) = rest /\ Last(ls) = last
<1>1. PICK rest \in Seq(Line), last \in Line : ls = Append(rest, last)
  BY SequenceEmptyOrAppend
<1>2. /\ Len(ls) = Len(rest) + 1 /\ Len(rest) \in Nat /\ ls[Len(rest) + 1] = last
      /\ \A n \in 1 .. Len(rest) : ls[n] = rest[n] /\ rest[n] \in Line
  BY <1>1, AppendProperties, LenProperties, ElementOfSeq
<1>3. Last(ls) = last
  BY <1>2 DEF Last
<1>4. Front(ls) = rest
  <2>1. Front(ls) = SubSeq(ls, 1, Len(rest))
    BY <1>2 DEF Front
  <2>2. \A n \in 1 .. Len(rest) : ls[n] \in Line
    BY <1>2
  <2>3. /\ SubSeq(ls, 1, Len(rest)) \in Seq(Line)
        /\ Len(SubSeq(ls, 1, Len(rest))) = Len(rest)
        /\ \A n \in 1 .. Len(rest) : SubSeq(ls, 1, Len(rest))[n] = ls[n]
    BY <1>2, <2>2, SubSeqProperties
  <2>4. SubSeq(ls, 1, Len(rest)) = rest
    BY <1>2, <2>3, SeqEqual
  <2>. QED
    BY <2>1, <2>4
<1>. QED
  BY <1>1, <1>3, <1>4

\* What is added to the last window with lines is added to the lines printed.
LEMMA AddedBehind ==
  ASSUME NEW W \in Nat, NEW ws \in [1 .. W -> Seq(Line)], NEW ms \in [1 .. W -> Seq(Line)], NEW w \in 1 .. W,
         \A v \in w + 1 .. W : ws[v] = <<>>, \A v \in 1 .. W : v # w => ms[v] = ws[v],
         NEW line \in Line,
         \/ ms[w] = Append(ws[w], line)
         \/ /\ ws[w] # <<>> /\ Last(ws[w]).label = line.label
            /\ ms[w] = Append(Front(ws[w]), [label |-> line.label, text |-> Last(ws[w]).text \o line.text])
  PROVE  /\ LinesOf(ws) \in Seq(Shown) /\ LinesOf(ms) \in Seq(Shown)
         /\ AddedLine(LinesOf(ws), LinesOf(ms), Mark(w, line))
<1>1. PICK before : before = [v \in 1 .. w - 1 |-> Marked(v, ws[v])]
  OBVIOUS
<1>2. before = [v \in 1 .. w - 1 |-> Marked(v, ms[v])]
  BY <1>1
<1>3. \A v \in w + 1 .. W : ms[v] = <<>>
  OBVIOUS
<1>4. /\ LinesOf(ws) = FlattenSeq(before) \o Marked(w, ws[w]) /\ before \in Seq(Seq(Shown))
      /\ LinesOf(ms) = FlattenSeq(before) \o Marked(w, ms[w])
  BY <1>1, <1>2, <1>3, LinesUpTo, ZenonT(30)
<1>5. PICK p \in Seq(Shown) : p = FlattenSeq(before)
  BY <1>4, FlattenTyped
<1>6. PICK ls \in Seq(Line) : ls = ws[w]
  OBVIOUS
<1>7. PICK ns \in Seq(Line) : ns = ms[w]
  OBVIOUS
<1>8. w \in Nat /\ Marked(w, ls) \in Seq(Shown) /\ Marked(w, ns) \in Seq(Shown)
  BY MarkedFacts, SMTT(30)
<1>9. LinesOf(ws) \in Seq(Shown) /\ LinesOf(ms) \in Seq(Shown)
  BY <1>4, <1>5, <1>6, <1>7, <1>8, ConcatProperties
<1>10. CASE ns = Append(ls, line)
  <2>1. Marked(w, ns) = Append(Marked(w, ls), Mark(w, line)) /\ Mark(w, line) \in Shown
    BY <1>8, <1>10, MarkedFacts
  <2>2. p \o Append(Marked(w, ls), Mark(w, line)) = Append(p \o Marked(w, ls), Mark(w, line))
    <3>1. PICK a \in Seq(Shown), b \in Seq(Shown), e \in Shown :
            a = p /\ b = Marked(w, ls) /\ e = Mark(w, line)
      BY <1>5, <1>8, <2>1
    <3>2. a \o Append(b, e) = Append(a \o b, e)
      BY ONLY a \in Seq(Shown), b \in Seq(Shown), e \in Shown, AppendBehind
    <3>. QED
      BY <3>1, <3>2
  <2>. QED
    BY <1>4, <1>5, <1>6, <1>7, <1>9, <2>1, <2>2 DEF AddedLine
<1>11. CASE ls # <<>> /\ Last(ls).label = line.label
            /\ ns = Append(Front(ls), [label |-> line.label, text |-> Last(ls).text \o line.text])
  <2>1. PICK rest \in Seq(Line), last \in Line : ls = Append(rest, last) /\ Front(ls) = rest /\ Last(ls) = last
    BY <1>11, LastLine
  <2>2. PICK longer : longer = [label |-> line.label, text |-> last.text \o line.text]
    OBVIOUS
  <2>3. last.label = line.label /\ ns = Append(rest, longer)
    BY <1>11, <2>1, <2>2
  <2>4. longer \in Line
    <3>1. line.text \in Seq(Char) /\ last.text \in Seq(Char) /\ line.text # <<>> /\ line.label \in Int
      BY DEF Line, Text
    <3>2. last.text \o line.text \in Seq(Char) /\ last.text \o line.text # <<>>
      BY <3>1, ConcatProperties, ConcatEqualIffEmpty
    <3>. QED
      BY <2>2, <3>1, <3>2 DEF Line, Text
  <2>5. /\ Marked(w, rest) \in Seq(Shown) /\ Mark(w, last) \in Shown /\ Mark(w, longer) \in Shown
        /\ Marked(w, ls) = Append(Marked(w, rest), Mark(w, last))
        /\ Marked(w, ns) = Append(Marked(w, rest), Mark(w, longer))
    BY <1>8, <2>1, <2>3, <2>4, MarkedFacts
  <2>6. Mark(w, longer) = WithMore(Mark(w, last), Mark(w, line))
    BY <2>2 DEF Mark, WithMore
  <2>7. /\ LinesOf(ws) = Append(p \o Marked(w, rest), Mark(w, last))
        /\ LinesOf(ms) = Append(p \o Marked(w, rest), Mark(w, longer))
    <3>1. PICK r \in Seq(Shown), a \in Shown, b \in Shown :
            r = Marked(w, rest) /\ a = Mark(w, last) /\ b = Mark(w, longer)
      BY <2>5
    <3>2. p \o Append(r, a) = Append(p \o r, a)
      BY ONLY p \in Seq(Shown), r \in Seq(Shown), a \in Shown, AppendBehind
    <3>3. p \o Append(r, b) = Append(p \o r, b)
      BY ONLY p \in Seq(Shown), r \in Seq(Shown), b \in Shown, AppendBehind
    <3>. QED
      BY <1>4, <1>5, <1>6, <1>7, <2>5, <3>1, <3>2, <3>3
  <2>8. p \o Marked(w, rest) \in Seq(Shown)
    BY <2>5, ConcatProperties
  <2>9. Mark(w, last).window = Mark(w, line).window /\ Mark(w, last).label = Mark(w, line).label
    BY <2>3 DEF Mark
  <2>. QED
    BY <1>9, <2>5, <2>6, <2>7, <2>8, <2>9 DEF AddedLine
<1>. QED
  BY <1>6, <1>7, <1>10, <1>11

-----------------------------------------------------------------------------
(* What is printed when a line is added *)

\* The head of a sequence is its first member.
LEMMA FirstOf ==
  ASSUME NEW C, NEW s \in Seq(C), s # <<>>
  PROVE  Head(s) = s[1]
<1>1. 1 \in 1 .. Len(s) /\ Len(s) \in 1 .. Len(s)
  BY EmptySeq
<1>. QED
  BY <1>1, SubSeqFull, HeadTailOfSubSeq

Spot == [window : Nat, label : Int]

\* Where the characters of a line are, and those of all lines.
SpotsOf(line) == [i \in DOMAIN line.text |-> [window |-> line.window, label |-> line.label]]
PlacesOf(ls) == FlattenSeq([n \in DOMAIN ls |-> SpotsOf(ls[n])])

\* No line ends inside a word that the next one goes on with.
WholeWords(ls) == \A n \in 2 .. Len(ls) : ~ (Last(ls[n - 1].text) \in WordChars /\ Head(ls[n].text) \in WordChars)

\* The characters of a line are all at one place.
LEMMA SpotsFacts ==
  ASSUME NEW line \in Shown
  PROVE  /\ line.text \in Seq(Char) /\ Len(line.text) \in Nat \ {0} /\ line.text # <<>>
         /\ SpotsOf(line) \in Seq(Spot) /\ Len(SpotsOf(line)) = Len(line.text)
         /\ \A i \in 1 .. Len(line.text) : SpotsOf(line)[i] = [window |-> line.window, label |-> line.label]
<1>1. line.text \in Seq(Char) /\ line.text # <<>> /\ line.window \in Nat /\ line.label \in Int
  BY DEF Shown, Text
<1>2. Len(line.text) \in Nat \ {0} /\ DOMAIN line.text = 1 .. Len(line.text)
  BY <1>1, EmptySeq, LenProperties
<1>3. SpotsOf(line) \in [1 .. Len(line.text) -> Spot]
  BY <1>1, <1>2 DEF SpotsOf, Spot
<1>. QED
  BY <1>1, <1>2, <1>3 DEF SpotsOf

\* A line that gets longer puts its characters where the others are.
LEMMA SpotsWithMore ==
  ASSUME NEW last \in Shown, NEW line \in Shown, last.window = line.window, last.label = line.label
  PROVE  /\ WithMore(last, line) \in Shown
         /\ SpotsOf(WithMore(last, line)) = SpotsOf(last) \o SpotsOf(line)
<1>. DEFINE more == WithMore(last, line)
<1>1. more.text = last.text \o line.text /\ more.window = line.window /\ more.label = line.label
  BY DEF WithMore
<1>2. /\ last.text \in Seq(Char) /\ line.text \in Seq(Char) /\ last.text # <<>>
      /\ line.window \in Nat /\ line.label \in Int
  BY DEF Shown, Text
<1>3. /\ last.text \o line.text \in Seq(Char) /\ Len(last.text \o line.text) = Len(last.text) + Len(line.text)
      /\ last.text \o line.text # <<>>
  BY <1>2, ConcatProperties, ConcatEqualIffEmpty
<1>4. more \in Shown
  BY <1>2, <1>3 DEF WithMore, Shown, Text
<1>. HIDE DEF more
<1>5. /\ SpotsOf(more) \in Seq(Spot) /\ Len(SpotsOf(more)) = Len(more.text)
      /\ \A i \in 1 .. Len(more.text) : SpotsOf(more)[i] = [window |-> line.window, label |-> line.label]
  BY <1>1, <1>4, SpotsFacts
<1>6. /\ SpotsOf(last) \in Seq(Spot) /\ Len(SpotsOf(last)) = Len(last.text) /\ Len(last.text) \in Nat
      /\ \A i \in 1 .. Len(last.text) : SpotsOf(last)[i] = [window |-> line.window, label |-> line.label]
      /\ SpotsOf(line) \in Seq(Spot) /\ Len(SpotsOf(line)) = Len(line.text) /\ Len(line.text) \in Nat
      /\ \A i \in 1 .. Len(line.text) : SpotsOf(line)[i] = [window |-> line.window, label |-> line.label]
  BY SpotsFacts
<1>7. PICK a \in Seq(Spot), b \in Seq(Spot) : a = SpotsOf(last) /\ b = SpotsOf(line)
  BY <1>6
<1>8. /\ a \o b \in Seq(Spot) /\ Len(a \o b) = Len(a) + Len(b)
      /\ \A i \in 1 .. Len(a) + Len(b) : (a \o b)[i] = IF i <= Len(a) THEN a[i] ELSE b[i - Len(a)]
  BY ConcatProperties
<1>9. ASSUME NEW i \in 1 .. Len(a) + Len(b)
      PROVE  (a \o b)[i] = [window |-> line.window, label |-> line.label]
  <2>1. i \in 1 .. Len(a) \/ i - Len(a) \in 1 .. Len(b)
    BY <1>6, <1>7
  <2>. QED
    BY <1>6, <1>7, <1>8, <2>1
<1>10. PICK c \in Seq(Spot), d \in Seq(Spot) : c = SpotsOf(more) /\ d = a \o b
  BY <1>5, <1>8
<1>11. Len(c) = Len(d) /\ \A i \in 1 .. Len(c) : c[i] = d[i]
  BY <1>1, <1>3, <1>5, <1>6, <1>7, <1>8, <1>9, <1>10, ZenonT(30)
<1>12. c = d
  BY ONLY <1>11, c \in Seq(Spot), d \in Seq(Spot), SeqEqual
<1>. QED
  BY <1>4, <1>7, <1>10, <1>12 DEF more

\* The places of a line come behind those of the lines before it.
LEMMA PlacesAppend ==
  ASSUME NEW ls \in Seq(Shown)
  PROVE  /\ PlacesOf(ls) \in Seq(Spot)
         /\ \A line \in Shown : PlacesOf(Append(ls, line)) = PlacesOf(ls) \o SpotsOf(line)
<1>. DEFINE F == [e \in Shown |-> SpotsOf(e)]
<1>1. Maps(F, Shown, Seq(Spot)) /\ \A e \in Shown : F[e] = SpotsOf(e) /\ SpotsOf(e) \in Seq(Spot)
  BY SpotsFacts DEF Maps
<1>. HIDE DEF F
<1>2. ASSUME NEW ms \in Seq(Shown)
      PROVE  PlacesOf(ms) = FlattenSeq(Mapped(F, ms))
  <2>1. \A n \in DOMAIN ms : F[ms[n]] = SpotsOf(ms[n])
    BY <1>1, LenProperties, ElementOfSeq
  <2>2. [n \in DOMAIN ms |-> SpotsOf(ms[n])] = Mapped(F, ms)
    BY <2>1 DEF Mapped
  <2>. QED
    BY <2>2 DEF PlacesOf
<1>3. /\ Mapped(F, ls) \in Seq(Seq(Spot))
      /\ \A e \in Shown : Mapped(F, Append(ls, e)) = Append(Mapped(F, ls), F[e])
  BY ONLY <1>1, ls \in Seq(Shown), MappedFacts
<1>4. PlacesOf(ls) \in Seq(Spot)
  BY <1>2, <1>3, FlattenTyped
<1>5. ASSUME NEW line \in Shown
      PROVE  PlacesOf(Append(ls, line)) = PlacesOf(ls) \o SpotsOf(line)
  <2>1. Append(ls, line) \in Seq(Shown)
    BY AppendProperties
  <2>2. PlacesOf(Append(ls, line)) = FlattenSeq(Mapped(F, Append(ls, line)))
    BY <1>2, <2>1
  <2>3. PlacesOf(Append(ls, line)) = FlattenSeq(Append(Mapped(F, ls), SpotsOf(line)))
    BY <1>1, <1>3, <2>2
  <2>4. PICK m \in Seq(Seq(Spot)), e \in Seq(Spot) : m = Mapped(F, ls) /\ e = SpotsOf(line)
    BY <1>1, <1>3
  <2>5. FlattenSeq(Append(m, e)) = FlattenSeq(m) \o e
    BY FlattenAppend
  <2>. QED
    BY <1>2, <2>3, <2>4, <2>5
<1>. QED
  BY <1>4, <1>5

\* Lines to be printed have texts.
LEMMA ShownHasTexts ==
  ASSUME NEW ls \in Seq(Shown)
  PROVE  HasTexts(ls, Char) /\ Joined(ls) \in Seq(Char)
<1>1. \A r \in Shown : r.text \in Seq(Char)
  BY DEF Shown, Text
<1>2. HasTexts(ls, Char)
  BY <1>1 DEF HasTexts
<1>. QED
  BY <1>2, JoinedTyped

\* The last character printed is that of the last line.
LEMMA LastPrinted ==
  ASSUME NEW rest \in Seq(Shown), NEW last \in Shown
  PROVE  /\ Joined(Append(rest, last)) # <<>>
         /\ Last(last.text) = Joined(Append(rest, last))[Len(Joined(Append(rest, last)))]
<1>1. /\ Joined(rest) \in Seq(Char) /\ HasTexts(rest, Char)
      /\ last.text \in Seq(Char) /\ Len(last.text) \in Nat \ {0}
  BY ShownHasTexts, SpotsFacts
<1>2. Joined(Append(rest, last)) = Joined(rest) \o last.text
  BY <1>1, JoinedAppend, ZenonT(30)
<1>3. PICK a \in Seq(Char), b \in Seq(Char) : a = Joined(rest) /\ b = last.text
  BY <1>1
<1>4. /\ a \o b \in Seq(Char) /\ Len(a \o b) = Len(a) + Len(b) /\ Len(a) \in Nat
      /\ \A i \in 1 .. Len(a) + Len(b) : (a \o b)[i] = IF i <= Len(a) THEN a[i] ELSE b[i - Len(a)]
  BY ConcatProperties, LenProperties
<1>5. Len(a) + Len(b) \in 1 .. Len(a) + Len(b) /\ ~ (Len(a) + Len(b) <= Len(a)) /\ Len(a) + Len(b) - Len(a) = Len(b)
  BY <1>1, <1>3, <1>4
<1>6. (a \o b)[Len(a \o b)] = b[Len(b)]
  BY <1>4, <1>5
<1>7. a \o b # <<>>
  BY <1>1, <1>3, <1>4, EmptySeq
<1>. QED
  BY <1>2, <1>3, <1>6, <1>7 DEF Last

\* An added line lengthens the text and the places by its own, and cuts no word
\* if it does not go on with one that the text printed so far ends in.
LEMMA AddedFacts ==
  ASSUME NEW ls \in Seq(Shown), NEW ms, NEW line \in Shown, AddedLine(ls, ms, line)
  PROVE  /\ Joined(ms) = Joined(ls) \o line.text
         /\ PlacesOf(ms) = PlacesOf(ls) \o SpotsOf(line)
         /\ WholeWords(ls)
            /\ (Joined(ls) = <<>> \/ Joined(ls)[Len(Joined(ls))] \notin WordChars \/ Head(line.text) \notin WordChars)
              => WholeWords(ms)
<1>0. /\ HasTexts(ls, Char) /\ Len(ls) \in Nat
      /\ line.text \in Seq(Char) /\ line.text # <<>> /\ SpotsOf(line) \in Seq(Spot)
  BY ShownHasTexts, SpotsFacts, LenProperties
<1>1. CASE ms = Append(ls, line)
  <2>1. Joined(ms) = Joined(ls) \o line.text
    BY <1>0, <1>1, JoinedAppend, ZenonT(30)
  <2>2. PlacesOf(ms) = PlacesOf(ls) \o SpotsOf(line)
    BY <1>1, PlacesAppend
  <2>3. /\ Len(ms) = Len(ls) + 1 /\ ms[Len(ls) + 1] = line
        /\ \A n \in 1 .. Len(ls) : ms[n] = ls[n]
    BY <1>1, AppendProperties
  <2>4. ASSUME WholeWords(ls), NEW n \in 2 .. Len(ms),
               Joined(ls) = <<>> \/ Joined(ls)[Len(Joined(ls))] \notin WordChars \/ Head(line.text) \notin WordChars
        PROVE  ~ (Last(ms[n - 1].text) \in WordChars /\ Head(ms[n].text) \in WordChars)
    <3>1. CASE n = Len(ls) + 1
      <4>1. ls # <<>> /\ n - 1 = Len(ls) /\ Len(ls) \in 1 .. Len(ls)
        BY <1>0, <2>3, <3>1, EmptySeq
      <4>2. PICK rest \in Seq(Shown), last \in Shown : ls = Append(rest, last)
        BY <4>1, SequenceEmptyOrAppend
      <4>3. ls[Len(ls)] = last
        BY <4>2, AppendProperties
      <4>4. Joined(ls) # <<>> /\ Last(last.text) = Joined(ls)[Len(Joined(ls))]
        BY <4>2, LastPrinted
      <4>. QED
        BY <2>3, <2>4, <3>1, <4>1, <4>3, <4>4
    <3>2. CASE n # Len(ls) + 1
      <4>1. n \in 2 .. Len(ls) /\ n - 1 \in 1 .. Len(ls) /\ n \in 1 .. Len(ls)
        BY <1>0, <2>3, <3>2
      <4>. QED
        BY <2>3, <2>4, <4>1 DEF WholeWords
    <3>. QED
      BY <3>1, <3>2
  <2>. QED
    BY <2>1, <2>2, <2>4 DEF WholeWords
<1>2. CASE \E rest \in Seq(Shown), last \in Shown :
             /\ ls = Append(rest, last) /\ last.window = line.window /\ last.label = line.label
             /\ ms = Append(rest, WithMore(last, line))
  <2>1. PICK rest \in Seq(Shown), last \in Shown :
             /\ ls = Append(rest, last) /\ last.window = line.window /\ last.label = line.label
             /\ ms = Append(rest, WithMore(last, line))
    BY <1>2
  <2>2. PICK more \in Shown : more = WithMore(last, line) /\ SpotsOf(more) = SpotsOf(last) \o SpotsOf(line)
    BY <2>1, SpotsWithMore
  <2>3. /\ HasTexts(rest, Char) /\ Joined(rest) \in Seq(Char) /\ PlacesOf(rest) \in Seq(Spot)
        /\ last.text \in Seq(Char) /\ Len(last.text) \in Nat \ {0} /\ SpotsOf(last) \in Seq(Spot)
        /\ more.text \in Seq(Char) /\ more.text = last.text \o line.text
    BY <2>2, ShownHasTexts, PlacesAppend, SpotsFacts DEF WithMore
  <2>4. Joined(ms) = Joined(ls) \o line.text
    <3>0. ASSUME NEW e, e.text \in Seq(Char)
          PROVE  Joined(Append(rest, e)) = Joined(rest) \o e.text
      <4>1. HasTexts(rest, Char)
        BY <2>3
      <4>. QED
        BY ONLY <3>0, <4>1, JoinedAppend, ZenonT(30)
    <3>1. Joined(ls) = Joined(rest) \o last.text /\ Joined(ms) = Joined(rest) \o (last.text \o line.text)
      BY <2>1, <2>2, <2>3, <3>0
    <3>2. PICK a \in Seq(Char), b \in Seq(Char), c \in Seq(Char) :
            a = Joined(rest) /\ b = last.text /\ c = line.text
      BY <1>0, <2>3
    <3>3. (a \o b) \o c = a \o (b \o c)
      BY Regroup, SMTT(30)
    <3>. QED
      BY <3>1, <3>2, <3>3
  <2>5. PlacesOf(ms) = PlacesOf(ls) \o SpotsOf(line)
    <3>1. /\ PlacesOf(ls) = PlacesOf(rest) \o SpotsOf(last)
          /\ PlacesOf(ms) = PlacesOf(rest) \o (SpotsOf(last) \o SpotsOf(line))
      BY <2>1, <2>2, PlacesAppend
    <3>2. PICK a \in Seq(Spot), b \in Seq(Spot), c \in Seq(Spot) :
            a = PlacesOf(rest) /\ b = SpotsOf(last) /\ c = SpotsOf(line)
      BY <1>0, <2>3
    <3>3. (a \o b) \o c = a \o (b \o c)
      BY Regroup, SMTT(30)
    <3>. QED
      BY <3>1, <3>2, <3>3
  <2>6. /\ Len(rest) \in Nat /\ Len(ls) = Len(rest) + 1 /\ Len(ms) = Len(rest) + 1
        /\ ls[Len(rest) + 1] = last /\ ms[Len(rest) + 1] = more
        /\ \A n \in 1 .. Len(rest) : ls[n] = rest[n] /\ ms[n] = rest[n]
    BY <2>1, <2>2, AppendProperties, LenProperties
  <2>7. Head(more.text) = Head(last.text)
    <3>1. PICK a \in Seq(Char), b \in Seq(Char) : a = last.text /\ b = line.text
      BY <1>0, <2>3
    <3>2. 1 \in 1 .. Len(a) + Len(b) /\ 1 <= Len(a) /\ a # <<>> /\ a \o b # <<>> /\ a \o b \in Seq(Char)
      <4>1. Len(a) \in Nat \ {0} /\ Len(b) \in Nat /\ a # <<>>
        BY <2>3, <3>1, LenProperties, EmptySeq
      <4>2. a \o b # <<>> /\ a \o b \in Seq(Char)
        BY <4>1, ConcatProperties, ConcatEqualIffEmpty
      <4>. QED
        BY <4>1, <4>2
    <3>3. \A i \in 1 .. Len(a) + Len(b) : (a \o b)[i] = IF i <= Len(a) THEN a[i] ELSE b[i - Len(a)]
      BY ConcatProperties
    <3>4. (a \o b)[1] = a[1]
      BY <3>2, <3>3
    <3>5. Head(a \o b) = (a \o b)[1] /\ Head(a) = a[1]
      BY <3>2, FirstOf
    <3>. QED
      BY <2>3, <3>1, <3>4, <3>5
  <2>8. ASSUME WholeWords(ls), NEW n \in 2 .. Len(ms)
        PROVE  ~ (Last(ms[n - 1].text) \in WordChars /\ Head(ms[n].text) \in WordChars)
    <3>1. n \in 2 .. Len(ls) /\ n - 1 \in 1 .. Len(rest) /\ (n = Len(rest) + 1 \/ n \in 1 .. Len(rest))
      BY <2>6
    <3>2. Head(ms[n].text) = Head(ls[n].text) /\ ms[n - 1] = ls[n - 1]
      BY <2>6, <2>7, <3>1
    <3>. QED
      BY <2>8, <3>1, <3>2 DEF WholeWords
  <2>. QED
    BY <2>4, <2>5, <2>8 DEF WholeWords
<1>. QED
  BY <1>1, <1>2 DEF AddedLine

-----------------------------------------------------------------------------
(* What is laid out in windows *)

Cell == [c : Char, at : Int, label : Int]

\* Times do not go back.
InOrder(cs) == \A k \in 1 .. Len(cs) : \A j \in 1 .. k : cs[j].at <= cs[k].at

\* WindowAt and Added for W windows.
WinOf(at, W) == LET w == at \div Hop + 1 IN IF w < 1 THEN 1 ELSE IF w > W THEN W ELSE w

AddTo(ws, W, unit) ==
  LET w == WinOf(unit.at, W)
  IN  IF unit.text = <<>> THEN ws
      ELSE IF ws[w] # <<>> /\ Last(ws[w]).label = unit.label
      THEN [ws EXCEPT ![w] = Append(Front(@), [label |-> unit.label, text |-> Last(@).text \o unit.text])]
      ELSE [ws EXCEPT ![w] = Append(@, [label |-> unit.label, text |-> unit.text])]

\* The line a unit is, printed.
LineOf(unit, W) == [window |-> WinOf(unit.at, W), label |-> unit.label, text |-> unit.text]

\* u is a unit of the characters from the b-th on.
IsUnit(u, cs, b) ==
  /\ u.text \in Text /\ b + Len(u.text) - 1 <= Len(cs)
  /\ u.at = cs[b].at /\ u.label = cs[b].label
  /\ \A i \in 1 .. Len(u.text) : u.text[i] = cs[b + i - 1].c
  /\ \A i \in 2 .. Len(u.text) : u.text[i] \notin Wide

\* No word goes on at the b-th character.
AtEdge(cs, b) == b = 1 \/ cs[b - 1].c \notin WordChars

\* Character k is in the window of its time, or where the one before it is.
Rightly(spots, cs, W, k) ==
  \/ spots[k] = [window |-> WinOf(cs[k].at, W), label |-> cs[k].label]
  \/ /\ k > 1 /\ cs[k].c \notin Wide
     /\ spots[k] = spots[k - 1]
     /\ spots[k].window <= WinOf(cs[k].at, W)

\* W windows hold the characters before the b-th, and no window with lines is
\* behind one that a character to come may go to.
Laid(ws, cs, W, b) ==
  /\ ws \in [1 .. W -> Seq(Line)] /\ b \in 1 .. Len(cs) + 1
  /\ Len(Joined(LinesOf(ws))) = b - 1
  /\ \A k \in 1 .. b - 1 : Joined(LinesOf(ws))[k] = cs[k].c
  /\ Len(PlacesOf(LinesOf(ws))) = b - 1
  /\ \A k \in 1 .. b - 1 : Rightly(PlacesOf(LinesOf(ws)), cs, W, k)
  /\ \A v \in 1 .. W : ws[v] # <<>> => \A k \in b .. Len(cs) : v <= WinOf(cs[k].at, W)
  /\ WholeWords(LinesOf(ws))

\* Every time has a window, and a later time no earlier one.
LEMMA WinFacts ==
  ASSUME NEW W \in Nat \ {0}, NEW at \in Int
  PROVE  /\ WinOf(at, W) \in 1 .. W
         /\ \A bt \in Int : at <= bt => WinOf(at, W) <= WinOf(bt, W)
<1>1. Hop \in Nat \ {0}
  BY WindowAssumption
<1>2. \A t \in Int : t \div Hop \in Int /\ Hop * (t \div Hop) <= t /\ t < Hop * (t \div Hop) + Hop
  BY <1>1
<1>3. WinOf(at, W) \in 1 .. W
  BY <1>2 DEF WinOf
<1>4. ASSUME NEW bt \in Int, at <= bt
      PROVE  at \div Hop <= bt \div Hop
  <2>. DEFINE p == at \div Hop
              q == bt \div Hop
  <2>1. p \in Int /\ q \in Int /\ Hop * p <= at /\ bt < Hop * q + Hop
    BY <1>2
  <2>. HIDE DEF p, q
  <2>2. Hop * p < Hop * (q + 1)
    BY <1>1, <1>4, <2>1
  <2>3. p < q + 1
    BY <1>1, <2>1, <2>2
  <2>4. p <= q
    BY <2>1, <2>3
  <2>. QED
    BY <2>4 DEF p, q
<1>5. ASSUME NEW bt \in Int, at <= bt
      PROVE  WinOf(at, W) <= WinOf(bt, W)
  <2>1. at \div Hop <= bt \div Hop /\ at \div Hop \in Int /\ bt \div Hop \in Int
    BY <1>2, <1>4, <1>5
  <2>. QED
    BY <2>1 DEF WinOf
<1>. QED
  BY <1>3, <1>5

\* A unit is added to the lines printed as one line.
LEMMA AddToLines ==
  ASSUME NEW W \in Nat \ {0}, NEW cs \in Seq(Cell), InOrder(cs), NEW ws, NEW b, Laid(ws, cs, W, b),
         NEW u, IsUnit(u, cs, b)
  PROVE  /\ WinOf(u.at, W) \in 1 .. W /\ LineOf(u, W) \in Shown
         /\ AddTo(ws, W, u) \in [1 .. W -> Seq(Line)]
         /\ \A v \in 1 .. W : v # WinOf(u.at, W) => AddTo(ws, W, u)[v] = ws[v]
         /\ LinesOf(ws) \in Seq(Shown) /\ LinesOf(AddTo(ws, W, u)) \in Seq(Shown)
         /\ AddedLine(LinesOf(ws), LinesOf(AddTo(ws, W, u)), LineOf(u, W))
<1>1. ws \in [1 .. W -> Seq(Line)] /\ b \in 1 .. Len(cs) + 1 /\ Len(cs) \in Nat
  BY LenProperties DEF Laid
<1>2. u.text \in Text /\ Len(u.text) \in Nat \ {0}
  BY EmptySeq DEF IsUnit, Text
<1>3. b \in 1 .. Len(cs)
  BY <1>1, <1>2 DEF IsUnit
<1>4. u.at \in Int /\ u.label \in Int /\ u.at = cs[b].at
  <2>1. cs[b] \in Cell
    BY <1>3, ElementOfSeq
  <2>. QED
    BY <2>1 DEF IsUnit, Cell
<1>5. PICK w \in 1 .. W : w = WinOf(u.at, W)
  BY <1>4, WinFacts
<1>6. PICK e \in Line : e = [label |-> u.label, text |-> u.text]
  BY <1>2, <1>4 DEF Line
<1>7. PICK line \in Shown : line = [window |-> w, label |-> u.label, text |-> u.text] /\ line = Mark(w, e)
  <2>1. e.label = u.label /\ e.text = u.text /\ w \in Nat
    BY <1>6
  <2>2. [window |-> w, label |-> u.label, text |-> u.text] \in Shown
    BY <1>2, <1>4, <2>1 DEF Shown
  <2>3. Mark(w, e) = [window |-> w, label |-> u.label, text |-> u.text]
    BY <2>1 DEF Mark
  <2>. QED
    BY <2>2, <2>3
<1>8. PICK ms : ms = AddTo(ws, W, u)
  OBVIOUS
<1>9. PICK ls \in Seq(Line) : ls = ws[w]
  BY <1>1
<1>10. PICK ns \in Seq(Line) :
         /\ ms = [ws EXCEPT ![w] = ns]
         /\ \/ ns = Append(ls, e)
            \/ /\ ls # <<>> /\ Last(ls).label = e.label
               /\ ns = Append(Front(ls), [label |-> e.label, text |-> Last(ls).text \o e.text])
  <2>1. u.text # <<>> /\ e.label = u.label /\ e.text = u.text
    BY <1>2, <1>6 DEF Text
  <2>2. CASE ls # <<>> /\ Last(ls).label = u.label
    <3>1. PICK rest \in Seq(Line), last \in Line : ls = Append(rest, last) /\ Front(ls) = rest /\ Last(ls) = last
      BY <2>2, LastLine
    <3>2. [label |-> e.label, text |-> last.text \o e.text] \in Line
      <4>1. last.text \in Seq(Char) /\ e.text \in Seq(Char) /\ e.text # <<>> /\ e.label \in Int
        BY DEF Line, Text
      <4>2. last.text \o e.text \in Seq(Char) /\ last.text \o e.text # <<>>
        BY <4>1, ConcatProperties, ConcatEqualIffEmpty
      <4>. QED
        BY <4>1, <4>2 DEF Line, Text
    <3>3. PICK ns \in Seq(Line) : ns = Append(Front(ls), [label |-> e.label, text |-> Last(ls).text \o e.text])
      BY <3>1, <3>2, AppendProperties
    <3>4. ms = [ws EXCEPT ![w] = ns]
      BY <1>5, <1>8, <1>9, <2>1, <2>2, <3>3 DEF AddTo
    <3>. QED
      BY <2>1, <2>2, <3>3, <3>4
  <2>3. CASE ~ (ls # <<>> /\ Last(ls).label = u.label)
    <3>1. PICK ns \in Seq(Line) : ns = Append(ls, e)
      BY AppendProperties
    <3>2. ms = [ws EXCEPT ![w] = ns]
      BY <1>5, <1>6, <1>8, <1>9, <2>1, <2>3, <3>1 DEF AddTo
    <3>. QED
      BY <3>1, <3>2
  <2>. QED
    BY <2>2, <2>3
<1>11. ms \in [1 .. W -> Seq(Line)] /\ ms[w] = ns /\ \A v \in 1 .. W : v # w => ms[v] = ws[v]
  BY <1>1, <1>10
<1>12. \A v \in w + 1 .. W : ws[v] = <<>>
  <2>1. ASSUME NEW v \in 1 .. W, ws[v] # <<>>
        PROVE  v <= w
    <3>1. v <= WinOf(cs[b].at, W)
      BY <1>1, <1>3, <2>1 DEF Laid
    <3>. QED
      BY <1>4, <1>5, <3>1
  <2>. QED
    BY <2>1
<1>13. /\ LinesOf(ws) \in Seq(Shown) /\ LinesOf(ms) \in Seq(Shown)
       /\ AddedLine(LinesOf(ws), LinesOf(ms), Mark(w, e))
  <2>1. W \in Nat
    OBVIOUS
  <2>2. \/ ms[w] = Append(ws[w], e)
        \/ /\ ws[w] # <<>> /\ Last(ws[w]).label = e.label
           /\ ms[w] = Append(Front(ws[w]), [label |-> e.label, text |-> Last(ws[w]).text \o e.text])
    BY <1>9, <1>10, <1>11
  <2>. QED
    BY <1>1, <1>11, <1>12, <2>1, <2>2, AddedBehind
<1>. QED
  BY <1>5, <1>7, <1>8, <1>11, <1>13 DEF LineOf

\* A unit added behind the characters laid out is laid out with them.
LEMMA AddUnit ==
  ASSUME NEW W \in Nat \ {0}, NEW cs \in Seq(Cell), InOrder(cs), NEW ws, NEW b, Laid(ws, cs, W, b),
         NEW u, IsUnit(u, cs, b), AtEdge(cs, b) \/ Head(u.text) \notin WordChars
  PROVE  Laid(AddTo(ws, W, u), cs, W, b + Len(u.text))
<1>. DEFINE w == WinOf(u.at, W)
            line == LineOf(u, W)
            ms == AddTo(ws, W, u)
            ls == LinesOf(ws)
            ns == LinesOf(ms)
            n == Len(u.text)
<1>1. /\ w \in 1 .. W /\ line \in Shown /\ ms \in [1 .. W -> Seq(Line)]
      /\ \A v \in 1 .. W : v # w => ms[v] = ws[v]
      /\ ls \in Seq(Shown) /\ ns \in Seq(Shown) /\ AddedLine(ls, ns, line)
  BY AddToLines
<1>2. /\ b \in Nat \ {0} /\ Len(cs) \in Nat /\ n \in Nat \ {0} /\ u.text \in Seq(Char) /\ u.text # <<>>
      /\ b + n - 1 <= Len(cs)
  BY LenProperties, EmptySeq DEF Laid, IsUnit, Text
<1>3. line.text = u.text /\ line.window = w /\ line.label = u.label
  BY DEF LineOf
<1>4. /\ u.at = cs[b].at /\ u.label = cs[b].label
      /\ \A i \in 1 .. n : u.text[i] = cs[b + i - 1].c
      /\ \A i \in 2 .. n : u.text[i] \notin Wide
  BY DEF IsUnit
<1>5. /\ Len(Joined(ls)) = b - 1 /\ \A k \in 1 .. b - 1 : Joined(ls)[k] = cs[k].c
      /\ Len(PlacesOf(ls)) = b - 1 /\ \A k \in 1 .. b - 1 : Rightly(PlacesOf(ls), cs, W, k)
      /\ \A v \in 1 .. W : ws[v] # <<>> => \A k \in b .. Len(cs) : v <= WinOf(cs[k].at, W)
      /\ WholeWords(ls)
  BY DEF Laid
<1>6. \A k \in 1 .. Len(cs) : cs[k].at \in Int
  <2>1. \A k \in 1 .. Len(cs) : cs[k] \in Cell
    BY ElementOfSeq
  <2>. QED
    BY <2>1 DEF Cell
<1>7. \A k \in b .. Len(cs) : w <= WinOf(cs[k].at, W)
  <2>1. ASSUME NEW k \in b .. Len(cs)
        PROVE  w <= WinOf(cs[k].at, W)
    <3>1. k \in 1 .. Len(cs) /\ b \in 1 .. k /\ b \in 1 .. Len(cs)
      BY <1>2
    <3>2. cs[b].at <= cs[k].at /\ cs[b].at \in Int /\ cs[k].at \in Int
      BY <1>6, <3>1 DEF InOrder
    <3>3. PICK x \in Int, y \in Int : x = cs[b].at /\ y = cs[k].at
      BY <3>2
    <3>4. WinOf(x, W) <= WinOf(y, W)
      BY <3>2, <3>3, WinFacts
    <3>. QED
      BY <1>4, <3>3, <3>4
  <2>. QED
    BY <2>1
<1>. HIDE DEF w, line, ms, ls, ns, n
<1>8. PICK e \in Shown : e = line
  BY <1>1
<1>9. /\ Joined(ns) = Joined(ls) \o e.text /\ PlacesOf(ns) = PlacesOf(ls) \o SpotsOf(e)
      /\ WholeWords(ls)
         /\ (Joined(ls) = <<>> \/ Joined(ls)[Len(Joined(ls))] \notin WordChars \/ Head(e.text) \notin WordChars)
           => WholeWords(ns)
  BY <1>1, <1>8, AddedFacts
<1>10. /\ e.text = u.text /\ SpotsOf(e) \in Seq(Spot) /\ Len(SpotsOf(e)) = n
       /\ \A i \in 1 .. n : SpotsOf(e)[i] = [window |-> w, label |-> cs[b].label]
  BY <1>3, <1>4, <1>8, SpotsFacts DEF n
<1>11. Joined(ls) \in Seq(Char) /\ PlacesOf(ls) \in Seq(Spot)
  BY <1>1, ShownHasTexts, PlacesAppend
<1>12. PICK p \in Seq(Char), q \in Seq(Char) : p = Joined(ls) /\ q = e.text
  BY <1>2, <1>10, <1>11
<1>13. /\ Len(Joined(ns)) = b + n - 1
       /\ \A k \in 1 .. b + n - 1 : Joined(ns)[k] = cs[k].c
  <2>1. /\ Len(p \o q) = Len(p) + Len(q)
        /\ \A k \in 1 .. Len(p) + Len(q) : (p \o q)[k] = IF k <= Len(p) THEN p[k] ELSE q[k - Len(p)]
    BY ConcatProperties
  <2>2. Len(p) = b - 1 /\ Len(q) = n /\ Joined(ns) = p \o q
    BY <1>5, <1>9, <1>10, <1>12 DEF n
  <2>3. ASSUME NEW k \in 1 .. b + n - 1
        PROVE  (p \o q)[k] = cs[k].c
    <3>1. CASE k <= b - 1
      BY <1>2, <1>5, <1>12, <2>1, <2>2, <3>1
    <3>2. CASE ~ (k <= b - 1)
      <4>1. PICK i \in 1 .. n : i = k - (b - 1)
        BY <1>2, <3>2
      <4>2. (p \o q)[k] = q[i] /\ b + i - 1 = k
        BY <1>2, <2>1, <2>2, <3>2, <4>1
      <4>. QED
        BY <1>4, <1>10, <1>12, <4>2
    <3>. QED
      BY <3>1, <3>2
  <2>4. Len(p \o q) = b + n - 1
    BY <1>2, <2>1, <2>2
  <2>. QED
    BY <2>2, <2>3, <2>4
<1>14. PICK r \in Seq(Spot), s \in Seq(Spot) : r = PlacesOf(ls) /\ s = SpotsOf(e)
  BY <1>10, <1>11
<1>15. PICK t : t = PlacesOf(ns)
  OBVIOUS
<1>16. /\ Len(t) = b + n - 1 /\ \A k \in 1 .. b - 1 : t[k] = r[k]
       /\ \A k \in b .. b + n - 1 : t[k] = [window |-> w, label |-> cs[b].label]
  <2>1. /\ Len(r \o s) = Len(r) + Len(s)
        /\ \A k \in 1 .. Len(r) + Len(s) : (r \o s)[k] = IF k <= Len(r) THEN r[k] ELSE s[k - Len(r)]
    BY ConcatProperties
  <2>2. Len(r) = b - 1 /\ Len(s) = n /\ t = r \o s
    BY <1>5, <1>9, <1>10, <1>14, <1>15
  <2>3. ASSUME NEW k \in b .. b + n - 1
        PROVE  t[k] = [window |-> w, label |-> cs[b].label]
    <3>1. PICK i \in 1 .. n : i = k - (b - 1)
      BY <1>2
    <3>2. t[k] = s[i]
      BY <1>2, <2>1, <2>2, <3>1, SMTT(30)
    <3>. QED
      BY <1>10, <1>14, <3>2
  <2>4. \A k \in 1 .. b - 1 : t[k] = r[k]
    BY <1>2, <2>1, <2>2
  <2>5. Len(t) = b + n - 1
    BY <1>2, <2>1, <2>2
  <2>. QED
    BY <2>3, <2>4, <2>5
<1>17. ASSUME NEW k \in 1 .. b + n - 1
       PROVE  Rightly(t, cs, W, k)
  <2>1. CASE k <= b - 1
    <3>1. k \in 1 .. b - 1 /\ (k > 1 => k - 1 \in 1 .. b - 1)
      BY <1>2, <2>1
    <3>2. Rightly(r, cs, W, k)
      BY <1>5, <1>14, <3>1
    <3>. QED
      BY <1>16, <3>1, <3>2 DEF Rightly
  <2>2. CASE k = b
    <3>1. t[k] = [window |-> WinOf(cs[k].at, W), label |-> cs[k].label]
      BY <1>2, <1>4, <1>16, <2>2 DEF w
    <3>. QED
      BY <3>1 DEF Rightly
  <2>3. CASE k > b
    <3>1. k \in b .. b + n - 1 /\ k - 1 \in b .. b + n - 1 /\ k \in b .. Len(cs) /\ k > 1
      BY <1>2, <2>3
    <3>2. t[k] = t[k - 1] /\ t[k].window = w
      BY <1>16, <3>1
    <3>3. PICK i \in 2 .. n : b + i - 1 = k
      BY <1>2, <2>3
    <3>4. i \in 1 .. n
      BY <1>2
    <3>5. cs[k].c \notin Wide
      BY <1>4, <3>3, <3>4
    <3>. QED
      BY <1>7, <3>1, <3>2, <3>5 DEF Rightly
  <2>. QED
    BY <1>2, <2>1, <2>2, <2>3
<1>18. \A v \in 1 .. W : ms[v] # <<>> => \A k \in b + n .. Len(cs) : v <= WinOf(cs[k].at, W)
  <2>1. \A k \in b + n .. Len(cs) : k \in b .. Len(cs)
    BY <1>2
  <2>. QED
    BY <1>1, <1>5, <1>7, <2>1
<1>19. WholeWords(ns)
  <2>1. CASE b = 1
    <3>1. Joined(ls) = <<>>
      BY <1>5, <1>11, <2>1, EmptySeq
    <3>. QED
      BY <1>5, <1>9, <3>1
  <2>2. CASE b # 1 /\ cs[b - 1].c \notin WordChars
    <3>1. b - 1 \in 1 .. b - 1
      BY <1>2, <2>2
    <3>2. Joined(ls)[Len(Joined(ls))] \notin WordChars
      BY <1>5, <2>2, <3>1
    <3>. QED
      BY <1>5, <1>9, <3>2
  <2>3. CASE Head(u.text) \notin WordChars
    BY <1>5, <1>9, <1>10, <2>3
  <2>. QED
    BY <2>1, <2>2, <2>3 DEF AtEdge
<1>20. b + n \in 1 .. Len(cs) + 1 /\ b + n - 1 = b + n - 1
  BY <1>2
<1>. QED
  BY <1>1, <1>13, <1>15, <1>16, <1>17, <1>18, <1>19, <1>20 DEF Laid, ms, ns, n

-----------------------------------------------------------------------------
(* The characters *)

\* A text and the span its characters are spread over; a list of such.
Piece == [text : Seq(Char), start : Int, span : Nat, label : Int]
SpreadPiece(x) == SpreadOver(x.text, x.start, x.span, x.label)
SpreadAll(xs) == FlattenSeq([n \in DOMAIN xs |-> SpreadPiece(xs[n])])

\* No piece begins before the one before it ends.
Staggered(xs) == \A n \in 2 .. Len(xs) : xs[n - 1].start + xs[n - 1].span <= xs[n].start

Within(s, lo, hi) == \A k \in 1 .. Len(s) : lo <= s[k].at /\ s[k].at <= hi

\* What is in order and then in order from there on is in order.
LEMMA InOrderConcat ==
  ASSUME NEW a \in Seq(Cell), NEW b \in Seq(Cell), NEW lo \in Int, NEW hi \in Int,
         InOrder(a), InOrder(b), \A k \in 1 .. Len(a) : a[k].at <= lo, Within(b, lo, hi), lo <= hi
  PROVE  /\ a \o b \in Seq(Cell) /\ InOrder(a \o b)
         /\ \A k \in 1 .. Len(a \o b) : (a \o b)[k].at <= hi
<1>1. /\ a \o b \in Seq(Cell) /\ Len(a \o b) = Len(a) + Len(b) /\ Len(a) \in Nat /\ Len(b) \in Nat
      /\ \A i \in 1 .. Len(a) + Len(b) : (a \o b)[i] = IF i <= Len(a) THEN a[i] ELSE b[i - Len(a)]
  BY ConcatProperties, LenProperties
<1>2. /\ \A k \in 1 .. Len(a) : a[k].at \in Int
      /\ \A k \in 1 .. Len(b) : b[k].at \in Int
  <2>1. (\A k \in 1 .. Len(a) : a[k] \in Cell) /\ \A k \in 1 .. Len(b) : b[k] \in Cell
    BY ElementOfSeq
  <2>. QED
    BY <2>1 DEF Cell
<1>. DEFINE c == a \o b
<1>3. ASSUME NEW k \in 1 .. Len(a) + Len(b)
      PROVE  \/ k \in 1 .. Len(a) /\ c[k] = a[k]
             \/ k - Len(a) \in 1 .. Len(b) /\ c[k] = b[k - Len(a)] /\ k > Len(a)
  BY <1>1
<1>. HIDE DEF c
<1>4. ASSUME NEW k \in 1 .. Len(a) + Len(b), NEW j \in 1 .. k
      PROVE  c[j].at <= c[k].at
  <2>1. j \in 1 .. Len(a) + Len(b)
    BY <1>1
  <2>2. CASE k \in 1 .. Len(a) /\ c[k] = a[k]
    <3>1. j \in 1 .. Len(a) /\ c[j] = a[j]
      BY <1>1, <1>3, <2>1, <2>2
    <3>. QED
      BY <2>2, <3>1 DEF InOrder
  <2>3. CASE k - Len(a) \in 1 .. Len(b) /\ c[k] = b[k - Len(a)] /\ k > Len(a)
    <3>1. CASE j \in 1 .. Len(a) /\ c[j] = a[j]
      <4>1. a[j].at <= lo /\ lo <= b[k - Len(a)].at
        BY <2>3, <3>1 DEF Within
      <4>2. PICK x \in Int, y \in Int : x = a[j].at /\ y = b[k - Len(a)].at
        BY <1>2, <2>3, <3>1
      <4>. QED
        BY <2>3, <3>1, <4>1, <4>2, SMTT(30)
    <3>2. CASE j - Len(a) \in 1 .. Len(b) /\ c[j] = b[j - Len(a)]
      <4>1. j - Len(a) \in 1 .. k - Len(a)
        BY <1>1, <2>3, <3>2
      <4>. QED
        BY <2>3, <3>2, <4>1 DEF InOrder
    <3>. QED
      BY <1>3, <2>1, <3>1, <3>2
  <2>. QED
    BY <1>3, <2>2, <2>3
<1>5. ASSUME NEW k \in 1 .. Len(a) + Len(b)
      PROVE  c[k].at <= hi
  <2>1. CASE k \in 1 .. Len(a) /\ c[k] = a[k]
    <3>1. PICK x \in Int : x = a[k].at
      BY <1>2, <2>1
    <3>. QED
      BY <2>1, <3>1
  <2>2. CASE k - Len(a) \in 1 .. Len(b) /\ c[k] = b[k - Len(a)]
    BY <2>2 DEF Within
  <2>. QED
    BY <1>3, <2>1, <2>2
<1>. QED
  BY <1>1, <1>4, <1>5 DEF InOrder, c

\* The characters of a piece are in order, within its span, and spell its text.
LEMMA SpreadFacts ==
  ASSUME NEW x \in Piece
  PROVE  /\ SpreadPiece(x) \in Seq(Cell) /\ Len(SpreadPiece(x)) = Len(x.text)
         /\ InOrder(SpreadPiece(x)) /\ Within(SpreadPiece(x), x.start, x.start + x.span)
         /\ \A k \in 1 .. Len(x.text) : SpreadPiece(x)[k].c = x.text[k]
<1>. DEFINE n == Len(x.text)
            At(i) == x.start + (x.span * (i - 1)) \div n
<1>1. x.text \in Seq(Char) /\ x.start \in Int /\ x.span \in Nat /\ x.label \in Int
  BY DEF Piece
<1>2. n \in Nat /\ DOMAIN x.text = 1 .. n /\ \A i \in 1 .. n : x.text[i] \in Char
  BY <1>1, LenProperties, ElementOfSeq
<1>3. SpreadPiece(x) = [i \in 1 .. n |-> [c |-> x.text[i], at |-> At(i), label |-> x.label]]
  BY <1>2 DEF SpreadPiece, SpreadOver
<1>. HIDE DEF n
<1>4. ASSUME NEW i \in 1 .. n
      PROVE  /\ At(i) \in Int /\ x.start <= At(i) /\ At(i) <= x.start + x.span
             /\ \A j \in 1 .. i : At(j) <= At(i)
  <2>1. PICK s \in Nat : s = x.span
    BY <1>1
  <2>2. n \in Nat \ {0}
    BY <1>2
  <2>3. \A j \in 1 .. i : /\ s * (j - 1) \in Nat /\ s * (j - 1) <= s * (i - 1)
                          /\ s * (j - 1) <= s * n
    <3>1. ASSUME NEW j \in 1 .. i
          PROVE  s * (j - 1) \in Nat /\ s * (j - 1) <= s * (i - 1) /\ s * (j - 1) <= s * n
      <4>1. j - 1 \in Nat /\ i - 1 \in Nat /\ j - 1 <= i - 1 /\ j - 1 <= n
        BY <2>2
      <4>. QED
        BY <2>2, <4>1
    <3>. QED
      BY <3>1
  <2>4. \A m \in Nat : m \div n \in Nat /\ n * (m \div n) <= m /\ m < n * (m \div n) + n
    BY <2>2
  <2>5. ASSUME NEW j \in 1 .. i
        PROVE  /\ (s * (j - 1)) \div n \in Nat /\ (s * (j - 1)) \div n <= s
               /\ (s * (j - 1)) \div n <= (s * (i - 1)) \div n
    <3>1. PICK m \in Nat : m = s * (j - 1)
      BY <2>3
    <3>2. PICK o \in Nat : o = s * (i - 1)
      BY <2>3
    <3>3. m <= o /\ m <= s * n
      BY <2>3, <3>1, <3>2
    <3>4. PICK p \in Nat : p = m \div n /\ n * p <= m /\ m < n * p + n
      BY <2>4
    <3>5. PICK q \in Nat : q = o \div n /\ n * q <= o /\ o < n * q + n
      BY <2>4
    <3>6. p <= s
      <4>1. n * p <= n * s
        BY <2>2, <3>3, <3>4
      <4>. QED
        BY <2>2, <4>1
    <3>7. p <= q
      <4>1. n * p < n * (q + 1)
        BY <2>2, <3>3, <3>4, <3>5
      <4>2. p < q + 1
        BY <2>2, <4>1
      <4>. QED
        BY <4>2
    <3>. QED
      BY <3>1, <3>2, <3>4, <3>5, <3>6, <3>7
  <2>6. i \in 1 .. i
    BY <2>2
  <2>7. \A j \in 1 .. i : At(j) = x.start + (s * (j - 1)) \div n
    BY <2>1
  <2>. QED
    BY <1>1, <2>1, <2>5, <2>6, <2>7, SMTT(30)
<1>. HIDE DEF At
<1>5. SpreadPiece(x) \in [1 .. n -> Cell]
  BY <1>1, <1>2, <1>3, <1>4 DEF Cell
<1>6. SpreadPiece(x) \in Seq(Cell) /\ Len(SpreadPiece(x)) = n
  BY <1>2, <1>5
<1>7. \A i \in 1 .. n : SpreadPiece(x)[i].at = At(i) /\ SpreadPiece(x)[i].c = x.text[i]
  BY <1>3
<1>8. InOrder(SpreadPiece(x))
  <2>1. ASSUME NEW k \in 1 .. n, NEW j \in 1 .. k
        PROVE  SpreadPiece(x)[j].at <= SpreadPiece(x)[k].at
    <3>1. j \in 1 .. n
      BY <1>2
    <3>. QED
      BY <1>4, <1>7, <3>1
  <2>. QED
    BY <1>6, <2>1 DEF InOrder
<1>9. Within(SpreadPiece(x), x.start, x.start + x.span)
  BY <1>4, <1>6, <1>7 DEF Within
<1>. QED
  BY <1>6, <1>7, <1>8, <1>9 DEF n

\* The letters of cells.
Letters == [e \in Cell |-> e.c]
Spelled(cs) == Mapped(Letters, cs)

\* The characters of staggered pieces are in order and spell the texts.
LEMMA SpreadAllFacts ==
  ASSUME NEW xs \in Seq(Piece), Staggered(xs)
  PROVE  /\ SpreadAll(xs) \in Seq(Cell) /\ InOrder(SpreadAll(xs))
         /\ Spelled(SpreadAll(xs)) = Joined(xs)
<1>. DEFINE ss == [n \in DOMAIN xs |-> SpreadPiece(xs[n])]
            N == Len(xs)
<1>1. N \in Nat /\ DOMAIN xs = 1 .. N /\ \A n \in 1 .. N : xs[n] \in Piece
  BY LenProperties, ElementOfSeq
<1>2. \A n \in 1 .. N : /\ xs[n].text \in Seq(Char) /\ xs[n].start \in Int /\ xs[n].span \in Nat
                        /\ SpreadPiece(xs[n]) \in Seq(Cell)
  BY <1>1, SpreadFacts DEF Piece
<1>3. ss \in Seq(Seq(Cell)) /\ Len(ss) = N /\ \A n \in 1 .. N : ss[n] = SpreadPiece(xs[n])
  <2>1. ss \in [1 .. N -> Seq(Cell)]
    BY <1>1, <1>2
  <2>. QED
    BY <1>1, <2>1
<1>4. SpreadAll(xs) = FlattenSeq(ss)
  BY DEF SpreadAll
<1>. HIDE DEF N, ss
<1>5. SpreadAll(xs) \in Seq(Cell)
  BY <1>3, <1>4, FlattenTyped
<1>6. InOrder(SpreadAll(xs))
  <2>. DEFINE Up(m) == FlattenSeq(SubSeq(ss, 1, m))
              T == {m \in Nat : m <= N =>
                      /\ Up(m) \in Seq(Cell) /\ InOrder(Up(m))
                      /\ m > 0 => \A k \in 1 .. Len(Up(m)) : Up(m)[k].at <= xs[m].start + xs[m].span}
  <2>1. 0 \in T
    <3>1. SubSeq(ss, 1, 0) = <<>>
      BY SubSeqEmpty
    <3>2. Up(0) = <<>>
      <4>1. PICK e \in Seq(Seq(Cell)) : e = <<>>
        BY EmptySeq
      <4>2. FlattenSeq(e) = <<>>
        BY <4>1, FlattenIs
      <4>. QED
        BY <3>1, <4>1, <4>2
    <3>3. Up(0) \in Seq(Cell) /\ Len(Up(0)) = 0
      BY <3>2, EmptySeq
    <3>. QED
      BY <3>3 DEF InOrder
  <2>2. ASSUME NEW m \in Nat, m \in T
        PROVE  m + 1 \in T
    <3>. SUFFICES ASSUME m + 1 <= N
                  PROVE  /\ Up(m + 1) \in Seq(Cell) /\ InOrder(Up(m + 1))
                         /\ \A k \in 1 .. Len(Up(m + 1)) :
                              Up(m + 1)[k].at <= xs[m + 1].start + xs[m + 1].span
      OBVIOUS
    <3>1. PICK n \in 1 .. N : n = m + 1 /\ n - 1 = m
      BY <1>1
    <3>2. Up(n) = Up(n - 1) \o ss[n] /\ Up(n - 1) \in Seq(Cell) /\ ss[n] \in Seq(Cell)
      <4>1. n \in 1 .. Len(ss)
        BY <1>3
      <4>. QED
        BY <1>3, <4>1, FlattenUpTo
    <3>3. InOrder(Up(n - 1)) /\ (m > 0 => \A k \in 1 .. Len(Up(m)) : Up(m)[k].at <= xs[m].start + xs[m].span)
      BY <1>1, <2>2, <3>1
    <3>4. PICK x \in Piece : x = xs[n]
      BY <1>1
    <3>5. /\ InOrder(ss[n]) /\ Within(ss[n], x.start, x.start + x.span)
          /\ x.start \in Int /\ x.span \in Nat
      BY <1>3, <3>4, SpreadFacts DEF Piece
    <3>6. PICK a \in Seq(Cell), b \in Seq(Cell) : a = Up(n - 1) /\ b = ss[n]
      BY <3>2
    <3>7. \A k \in 1 .. Len(a) : a[k].at <= x.start
      <4>1. CASE m = 0
        <5>1. SubSeq(ss, 1, 0) = <<>>
          BY SubSeqEmpty
        <5>2. PICK e \in Seq(Seq(Cell)) : e = <<>>
          BY EmptySeq
        <5>3. FlattenSeq(e) = <<>>
          BY <5>2, FlattenIs
        <5>4. a = <<>>
          BY <3>1, <3>6, <4>1, <5>1, <5>2, <5>3
        <5>5. Len(a) = 0
          BY <5>4, EmptySeq
        <5>. QED
          BY <5>5
      <4>2. CASE m > 0
        <5>1. n \in 2 .. Len(xs) /\ m \in 1 .. N
          BY <1>1, <3>1, <4>2 DEF N
        <5>2. xs[n - 1].start + xs[n - 1].span <= xs[n].start
          BY <5>1 DEF Staggered
        <5>3. PICK h \in Int : h = xs[m].start + xs[m].span
          <6>1. xs[m].start \in Int /\ xs[m].span \in Int
            BY <1>2, <5>1
          <6>2. PICK y \in Int, z \in Int : y = xs[m].start /\ z = xs[m].span
            BY <6>1
          <6>3. y + z \in Int
            OBVIOUS
          <6>. QED
            BY <6>2, <6>3
        <5>4. h <= x.start
          BY <3>1, <3>4, <5>2, <5>3
        <5>5. \A k \in 1 .. Len(a) : a[k].at \in Int /\ a[k].at <= h
          <6>1. \A k \in 1 .. Len(a) : a[k] \in Cell
            BY ElementOfSeq
          <6>2. \A k \in 1 .. Len(a) : a[k].at \in Int
            BY <6>1 DEF Cell
          <6>3. \A k \in 1 .. Len(a) : a[k].at <= h
            BY <3>1, <3>3, <3>6, <4>2, <5>3
          <6>. QED
            BY <6>2, <6>3
        <5>. QED
          BY <3>5, <5>4, <5>5
      <4>. QED
        BY <4>1, <4>2
    <3>8. PICK lo \in Int, hi \in Int : lo = x.start /\ hi = x.start + x.span /\ lo <= hi
      BY <3>5
    <3>9. InOrder(a) /\ InOrder(b) /\ Within(b, lo, hi) /\ \A k \in 1 .. Len(a) : a[k].at <= lo
      BY <3>3, <3>5, <3>6, <3>7, <3>8
    <3>10. /\ a \o b \in Seq(Cell) /\ InOrder(a \o b)
           /\ \A k \in 1 .. Len(a \o b) : (a \o b)[k].at <= hi
      BY <3>8, <3>9, InOrderConcat
    <3>. HIDE DEF Up
    <3>. QED
      BY <3>1, <3>2, <3>4, <3>6, <3>8, <3>10
  <2>. HIDE DEF T
  <2>3. N \in T
    BY <1>1, <2>1, <2>2, InductionOnSet
  <2>4. SubSeq(ss, 1, N) = ss
    BY <1>3, SubSeqFull
  <2>5. N <= N
    BY <1>1
  <2>6. InOrder(Up(N))
    BY <2>3, <2>5 DEF T
  <2>. QED
    BY <1>4, <2>4, <2>6
<1>7. Spelled(SpreadAll(xs)) = Joined(xs)
  <2>. DEFINE G == [s \in Seq(Cell) |-> Spelled(s)]
  <2>1. Maps(Letters, Cell, Char)
    BY DEF Maps, Letters, Cell
  <2>2. \A s \in Seq(Cell) : Spelled(s) \in Seq(Char) /\ Len(Spelled(s)) = Len(s)
    BY <2>1, MappedFacts DEF Spelled
  <2>3. Maps(G, Seq(Cell), Seq(Char)) /\ \A s \in Seq(Cell) : G[s] = Mapped(Letters, s)
    BY <2>2 DEF Maps, Spelled
  <2>. HIDE DEF G
  <2>4. Mapped(Letters, FlattenSeq(ss)) = FlattenSeq(Mapped(G, ss))
    BY <1>3, <2>1, <2>3, FlattenMapped
  <2>5. ASSUME NEW n \in 1 .. N
        PROVE  G[ss[n]] = xs[n].text
    <3>1. PICK x \in Piece : x = xs[n]
      BY <1>1
    <3>2. PICK s \in Seq(Cell) : s = SpreadPiece(x)
      BY SpreadFacts
    <3>3. Len(s) = Len(x.text) /\ \A k \in 1 .. Len(x.text) : s[k].c = x.text[k] /\ s[k] \in Cell
      BY <3>2, SpreadFacts, ElementOfSeq
    <3>4. /\ Spelled(s) \in Seq(Char) /\ Len(Spelled(s)) = Len(x.text)
          /\ \A k \in 1 .. Len(s) : Spelled(s)[k] = Letters[s[k]]
      BY <2>1, <2>2, <3>3, MappedFacts DEF Spelled
    <3>5. \A k \in 1 .. Len(x.text) : Spelled(s)[k] = x.text[k]
      BY <3>3, <3>4 DEF Letters
    <3>6. x.text \in Seq(Char)
      BY DEF Piece
    <3>7. Spelled(s) = x.text
      BY <3>4, <3>5, <3>6, SeqEqual
    <3>. QED
      BY <1>3, <2>3, <3>1, <3>2, <3>7 DEF Spelled
  <2>6. Mapped(G, ss) = [n \in DOMAIN xs |-> xs[n].text]
    <3>1. DOMAIN ss = 1 .. N
      BY <1>3, LenProperties
    <3>. QED
      BY <1>1, <2>5, <3>1 DEF Mapped
  <2>. QED
    BY <1>4, <2>4, <2>6 DEF Spelled, Joined
<1>. QED
  BY <1>5, <1>6, <1>7

-----------------------------------------------------------------------------
(* The token table *)

Entry == [text : Seq(Char), at : Int, id : Int]

\* The table holds the tokens so far, and their text if the decode only appends.
Decoded ==
  /\ report \in Reports
  /\ table \in Seq(Entry) /\ Len(table) <= Len(report.tokens)
  /\ \A n \in 1 .. Len(table) : table[n].at = report.tokens[n].frame * FrameStep - Offset
  /\ Reproduces(report) =>
       Joined(table) = IF table = <<>> THEN <<>> ELSE report.tokens[Len(table)].decoded

\* What is in a report.
LEMMA ReportFacts ==
  ASSUME NEW r \in Reports
  PROVE  /\ r \in Report
         /\ Len(r.tokens) \in Nat /\ DOMAIN r.tokens = 1 .. Len(r.tokens)
         /\ \A n \in 1 .. Len(r.tokens) : /\ r.tokens[n].decoded \in Seq(Char)
                                          /\ r.tokens[n].frame \in Nat /\ r.tokens[n].id \in Int
         /\ \A n \in 2 .. Len(r.tokens) : r.tokens[n - 1].frame < r.tokens[n].frame
         /\ Len(r.segs) \in Nat /\ DOMAIN r.segs = 1 .. Len(r.segs)
         /\ \A n \in 1 .. Len(r.segs) :
              /\ r.segs[n].text \in Seq(Char) /\ r.segs[n].speaker \in Int
              /\ r.segs[n].start \in Nat /\ r.segs[n].end \in Nat /\ r.segs[n].start <= r.segs[n].end
         /\ \A n \in 2 .. Len(r.segs) : r.segs[n - 1].end <= r.segs[n].start
<1>1. r \in Report
  BY WindowAssumption
<1>. DEFINE S == [start : Nat, end : Nat, speaker : Int, id : Int, text : Seq(Char)]
            T == [decoded : Seq(Char), frame : Nat, id : Int]
<1>2. r.segs \in Seq(S) /\ r.tokens \in Seq(T)
  BY <1>1 DEF Report
<1>. HIDE DEF S, T
<1>3. /\ Len(r.tokens) \in Nat /\ DOMAIN r.tokens = 1 .. Len(r.tokens)
      /\ \A n \in 1 .. Len(r.tokens) : r.tokens[n] \in T
      /\ Len(r.segs) \in Nat /\ DOMAIN r.segs = 1 .. Len(r.segs)
      /\ \A n \in 1 .. Len(r.segs) : r.segs[n] \in S
  BY <1>2, LenProperties, ElementOfSeq
<1>4. \A n \in 1 .. Len(r.tokens) : /\ r.tokens[n].decoded \in Seq(Char)
                                    /\ r.tokens[n].frame \in Nat /\ r.tokens[n].id \in Int
  BY <1>3 DEF T
<1>5. \A n \in 1 .. Len(r.segs) :
        /\ r.segs[n].text \in Seq(Char) /\ r.segs[n].speaker \in Int
        /\ r.segs[n].start \in Nat /\ r.segs[n].end \in Nat
  BY <1>3 DEF S
<1>6. /\ \A n \in 2 .. Len(r.tokens) : r.tokens[n - 1].frame < r.tokens[n].frame
      /\ \A n \in 2 .. Len(r.segs) : r.segs[n - 1].end <= r.segs[n].start
      /\ \A n \in DOMAIN r.segs : r.segs[n].start <= r.segs[n].end
  BY WindowAssumption
<1>. QED
  BY <1>1, <1>3, <1>4, <1>5, <1>6

\* A prefix, and what is behind it.
LEMMA PrefixSplits ==
  ASSUME NEW a \in Seq(Char), NEW b \in Seq(Char), IsPrefix(a, b)
  PROVE  a \o SubSeq(b, Len(a) + 1, Len(b)) = b /\ Len(a) <= Len(b)
<1>1. Len(a) \in Nat /\ Len(b) \in Nat
  BY LenProperties
<1>2. Len(a) <= Len(b) /\ SubSeq(a, 1, Len(a)) = SubSeq(b, 1, Len(a))
  BY <1>1 DEF IsPrefix
<1>3. SubSeq(b, 1, Len(a)) = a
  BY <1>2, SubSeqFull
<1>4. SubSeq(b, 1, Len(a)) \o SubSeq(b, Len(a) + 1, Len(b)) = b
  <2>1. PICK k \in 0 .. Len(b) : k = Len(a)
    BY <1>1, <1>2
  <2>2. SubSeq(b, 1, k) \o SubSeq(b, k + 1, Len(b)) = b
    BY ONLY k \in 0 .. Len(b), b \in Seq(Char), SplitAt
  <2>. QED
    BY <2>1, <2>2
<1>. QED
  BY <1>2, <1>3, <1>4

\* Decoding one more token.
LEMMA DecodeStep ==
  ASSUME Decoded, DecodeToken
  PROVE  Decoded'
<1>1. PICK n : n = Len(table) + 1
  OBVIOUS
<1>2. PICK prev : prev = IF n = 1 THEN 0 ELSE Len(report.tokens[n - 1].decoded)
  OBVIOUS
<1>3. PICK d : d = report.tokens[n].decoded
  OBVIOUS
<1>4. PICK e : e = [text |-> SubSeq(d, prev + 1, Len(d)),
                    at |-> report.tokens[n].frame * FrameStep - Offset, id |-> report.tokens[n].id]
  OBVIOUS
<1>5. /\ table' = Append(table, e) /\ report' = report
      /\ n <= Len(report.tokens) /\ report \in Reports /\ table \in Seq(Entry)
      /\ Len(table) \in Nat /\ n \in Nat \ {0}
  BY <1>1, <1>2, <1>3, <1>4, LenProperties DEF DecodeToken, MoreTokens, Decoded
<1>6. /\ Len(report.tokens) \in Nat /\ n \in 1 .. Len(report.tokens) /\ d \in Seq(Char)
      /\ report.tokens[n].frame \in Nat /\ report.tokens[n].id \in Int
      /\ n # 1 => n - 1 \in 1 .. Len(report.tokens) /\ report.tokens[n - 1].decoded \in Seq(Char)
  BY <1>3, <1>5, ReportFacts
<1>7. prev \in Nat /\ Len(d) \in Nat
  BY <1>2, <1>6, LenProperties
<1>8. SubSeq(d, prev + 1, Len(d)) \in Seq(Char)
  <2>1. \A i \in prev + 1 .. Len(d) : d[i] \in Char
    BY <1>6, <1>7, ElementOfSeq
  <2>. QED
    BY <1>7, <2>1, SubSeqProperties
<1>9. e \in Entry /\ e.text = SubSeq(d, prev + 1, Len(d)) /\ e.at = report.tokens[n].frame * FrameStep - Offset
  <2>1. FrameStep \in Nat /\ Offset \in Nat
    BY WindowAssumption
  <2>2. PICK f \in Nat : f = report.tokens[n].frame
    BY <1>6
  <2>3. f * FrameStep - Offset \in Int
    BY <2>1
  <2>. QED
    BY <1>4, <1>6, <1>8, <2>2, <2>3 DEF Entry
<1>10. /\ table' \in Seq(Entry) /\ Len(table') = n /\ table'[n] = e
       /\ \A m \in 1 .. n - 1 : table'[m] = table[m]
  BY <1>1, <1>5, <1>9, AppendProperties
<1>11. \A m \in 1 .. n : table'[m].at = report.tokens[m].frame * FrameStep - Offset
  <2>1. \A m \in 1 .. n - 1 : table[m].at = report.tokens[m].frame * FrameStep - Offset
    BY <1>1, <1>5 DEF Decoded
  <2>2. \A m \in 1 .. n : m = n \/ m \in 1 .. n - 1
    BY <1>5
  <2>. QED
    BY <1>9, <1>10, <2>1, <2>2
<1>12. ASSUME Reproduces(report)
       PROVE  Joined(table') = d
  <2>1. HasTexts(table, Char) /\ e.text \in Seq(Char)
    <3>1. \A r \in Entry : r.text \in Seq(Char)
      BY DEF Entry
    <3>. QED
      BY <1>5, <1>9, <3>1 DEF HasTexts
  <2>2. Joined(table') = Joined(table) \o e.text
    BY <1>5, <2>1, JoinedAppend, ZenonT(30)
  <2>3. CASE n = 1
    <3>1. table = <<>> /\ prev = 0
      BY <1>1, <1>2, <1>5, <2>3, EmptySeq
    <3>2. Joined(table) = <<>>
      BY <1>12, <3>1 DEF Decoded
    <3>3. e.text = d
      BY <1>6, <1>9, <3>1, SubSeqFull
    <3>. QED
      BY <1>6, <2>2, <3>2, <3>3, ConcatEmptySeq
  <2>4. CASE n # 1
    <3>1. PICK p \in Seq(Char) : p = report.tokens[n - 1].decoded
      BY <1>6, <2>4
    <3>2. Joined(table) = p
      <4>1. table # <<>> /\ Len(table) = n - 1
        BY <1>1, <1>5, <2>4, EmptySeq
      <4>. QED
        BY <1>12, <3>1, <4>1 DEF Decoded
    <3>3. IsPrefix(p, d)
      <4>1. n \in 2 .. Len(report.tokens) /\ report.tokens # <<>>
        BY <1>6, <2>4, EmptySeq
      <4>. QED
        BY <1>3, <1>12, <3>1, <4>1 DEF Reproduces
    <3>4. p \o SubSeq(d, Len(p) + 1, Len(d)) = d
      BY <1>6, <3>3, PrefixSplits
    <3>. QED
      BY <1>2, <1>9, <2>2, <2>4, <3>1, <3>2, <3>4
  <2>. QED
    BY <2>3, <2>4
<1>13. table' # <<>>
  BY <1>5, <1>10, EmptySeq
<1>. QED
  BY <1>3, <1>5, <1>10, <1>11, <1>12, <1>13 DEF Decoded, Reproduces, Transcript

-----------------------------------------------------------------------------
(* From the table or the segments to characters *)

\* What is spread: the tokens, or the segments if there are none.
Pieces ==
  IF table # <<>>
  THEN [n \in DOMAIN table |->
         [text |-> table[n].text, start |-> table[n].at, span |-> FrameStep,
          label |-> IF table[n].id = 0 THEN -1 ELSE LabelOf(table[n].id)]]
  ELSE [n \in DOMAIN report.segs |->
         [text |-> report.segs[n].text, start |-> report.segs[n].start,
          span |-> report.segs[n].end - report.segs[n].start, label |-> report.segs[n].speaker]]

\* A label's number is one.
LEMMA LabelTyped ==
  ASSUME report \in Reports, NEW id
  PROVE  LabelOf(id) \in Int
<1>. DEFINE own == {n \in DOMAIN report.segs : report.segs[n].id = id}
<1>1. Len(report.segs) \in Nat /\ own \subseteq 1 .. Len(report.segs)
  BY ReportFacts
<1>2. CASE own = {}
  BY <1>2 DEF LabelOf
<1>3. CASE own # {}
  <2>1. own \subseteq 0 .. Len(report.segs)
    BY <1>1
  <2>2. \E n \in own : \A m \in own : m <= n
    <3>. HIDE DEF own
    <3>1. PICK b \in Nat : b = Len(report.segs)
      BY <1>1
    <3>. QED
      BY <1>3, <2>1, <3>1, MaxFacts
  <2>3. (CHOOSE n \in own : \A m \in own : m <= n) \in own
    BY <2>2
  <2>4. PICK n \in 1 .. Len(report.segs) : n = CHOOSE k \in own : \A m \in own : m <= k
    BY <1>1, <2>3
  <2>5. report.segs[n].speaker \in Int
    BY ReportFacts
  <2>. QED
    BY <1>3, <2>4, <2>5 DEF LabelOf
<1>. QED
  BY <1>2, <1>3

\* The characters are the pieces spread.
LEMMA CharactersSpread == Characters = SpreadAll(Pieces)
<1>1. CASE table # <<>>
  <2>1. Pieces = [n \in DOMAIN table |->
                   [text |-> table[n].text, start |-> table[n].at, span |-> FrameStep,
                    label |-> IF table[n].id = 0 THEN -1 ELSE LabelOf(table[n].id)]]
    BY <1>1 DEF Pieces
  <2>2. [n \in DOMAIN Pieces |-> SpreadPiece(Pieces[n])]
        = [n \in DOMAIN table |->
            SpreadOver(table[n].text, table[n].at, FrameStep,
                       IF table[n].id = 0 THEN -1 ELSE LabelOf(table[n].id))]
    BY <2>1 DEF SpreadPiece
  <2>. QED
    BY <1>1, <2>2 DEF Characters, SpreadAll
<1>2. CASE table = <<>>
  <2>1. Pieces = [n \in DOMAIN report.segs |->
                   [text |-> report.segs[n].text, start |-> report.segs[n].start,
                    span |-> report.segs[n].end - report.segs[n].start, label |-> report.segs[n].speaker]]
    BY <1>2 DEF Pieces
  <2>2. [n \in DOMAIN Pieces |-> SpreadPiece(Pieces[n])]
        = [n \in DOMAIN report.segs |->
            LET s == report.segs[n] IN SpreadOver(s.text, s.start, s.end - s.start, s.speaker)]
    BY <2>1 DEF SpreadPiece
  <2>. QED
    BY <1>2, <2>2 DEF Characters, SpreadAll
<1>. QED
  BY <1>1, <1>2

\* The pieces are staggered, and their texts are the table's or the segments'.
LEMMA PiecesFacts ==
  ASSUME Decoded
  PROVE  /\ Pieces \in Seq(Piece) /\ Staggered(Pieces)
         /\ Joined(Pieces) = IF table # <<>> THEN Joined(table) ELSE Transcript(report)
<1>1. /\ report \in Reports /\ table \in Seq(Entry) /\ Len(table) \in Nat /\ DOMAIN table = 1 .. Len(table)
      /\ \A n \in 1 .. Len(table) : table[n] \in Entry
      /\ Len(table) <= Len(report.tokens)
      /\ \A n \in 1 .. Len(table) : table[n].at = report.tokens[n].frame * FrameStep - Offset
  BY LenProperties, ElementOfSeq DEF Decoded
<1>2. CASE table # <<>>
  <2>1. Pieces = [n \in 1 .. Len(table) |->
                   [text |-> table[n].text, start |-> table[n].at, span |-> FrameStep,
                    label |-> IF table[n].id = 0 THEN -1 ELSE LabelOf(table[n].id)]]
    BY <1>1, <1>2 DEF Pieces
  <2>2. ASSUME NEW n \in 1 .. Len(table)
        PROVE  Pieces[n] \in Piece
    <3>1. table[n].text \in Seq(Char) /\ table[n].at \in Int /\ FrameStep \in Nat
      BY <1>1, WindowAssumption DEF Entry
    <3>2. (IF table[n].id = 0 THEN -1 ELSE LabelOf(table[n].id)) \in Int
      BY <1>1, LabelTyped
    <3>. QED
      BY <2>1, <3>1, <3>2 DEF Piece
  <2>3. Pieces \in [1 .. Len(table) -> Piece]
    BY <2>1, <2>2
  <2>4. Pieces \in Seq(Piece) /\ Len(Pieces) = Len(table)
    BY <1>1, <2>3
  <2>5. ASSUME NEW n \in 2 .. Len(table)
        PROVE  Pieces[n - 1].start + Pieces[n - 1].span <= Pieces[n].start
    <3>1. n \in 1 .. Len(table) /\ n - 1 \in 1 .. Len(table) /\ n \in 2 .. Len(report.tokens)
          /\ n \in 1 .. Len(report.tokens) /\ n - 1 \in 1 .. Len(report.tokens)
      BY <1>1, ReportFacts
    <3>2. PICK f \in Nat, g \in Nat, s \in Nat, o \in Nat :
            /\ f = report.tokens[n - 1].frame /\ g = report.tokens[n].frame
            /\ s = FrameStep /\ o = Offset /\ f < g
      BY <1>1, <3>1, ReportFacts, WindowAssumption
    <3>3. f * s + s <= g * s /\ f * s \in Nat /\ g * s \in Nat
      <4>1. PICK h \in Nat : g = f + 1 + h
        <5>1. f < g
          BY <3>2
        <5>2. \A x, y \in Nat : x < y => \E h \in Nat : y = x + 1 + h
          <6>1. \A x, y \in Nat : x < y => y - x - 1 \in Nat /\ y = x + 1 + (y - x - 1)
            OBVIOUS
          <6>. QED
            BY <6>1
        <5>. QED
          BY <5>1, <5>2
      <4>2. (f + 1 + h) * s = f * s + s + h * s /\ h * s \in Nat /\ f * s \in Nat /\ g * s \in Nat
        OBVIOUS
      <4>. QED
        BY <4>1, <4>2
    <3>4. Pieces[n - 1].start = f * s - o /\ Pieces[n - 1].span = s /\ Pieces[n].start = g * s - o
      BY <1>1, <2>1, <3>1, <3>2
    <3>. QED
      BY <3>3, <3>4
  <2>6. Joined(Pieces) = Joined(table)
    <3>1. [n \in DOMAIN Pieces |-> Pieces[n].text] = [n \in DOMAIN table |-> table[n].text]
      BY <1>1, <2>1
    <3>. QED
      BY <3>1 DEF Joined
  <2>. QED
    BY <1>2, <2>4, <2>5, <2>6 DEF Staggered
<1>3. CASE table = <<>>
  <2>0. /\ Len(report.segs) \in Nat /\ DOMAIN report.segs = 1 .. Len(report.segs)
        /\ \A n \in 1 .. Len(report.segs) :
              /\ report.segs[n].text \in Seq(Char) /\ report.segs[n].speaker \in Int
              /\ report.segs[n].start \in Nat /\ report.segs[n].end \in Nat
              /\ report.segs[n].start <= report.segs[n].end
        /\ \A n \in 2 .. Len(report.segs) : report.segs[n - 1].end <= report.segs[n].start
    BY <1>1, ReportFacts
  <2>1. Pieces = [n \in 1 .. Len(report.segs) |->
                   [text |-> report.segs[n].text, start |-> report.segs[n].start,
                    span |-> report.segs[n].end - report.segs[n].start, label |-> report.segs[n].speaker]]
    BY <1>3, <2>0 DEF Pieces
  <2>2. ASSUME NEW n \in 1 .. Len(report.segs)
        PROVE  Pieces[n] \in Piece
    BY <2>0, <2>1 DEF Piece
  <2>3. Pieces \in [1 .. Len(report.segs) -> Piece]
    BY <2>1, <2>2
  <2>4. Pieces \in Seq(Piece) /\ Len(Pieces) = Len(report.segs)
    BY <2>0, <2>3, SMTT(30)
  <2>5. ASSUME NEW n \in 2 .. Len(report.segs)
        PROVE  Pieces[n - 1].start + Pieces[n - 1].span <= Pieces[n].start
    <3>1. n \in 1 .. Len(report.segs) /\ n - 1 \in 1 .. Len(report.segs)
      BY <2>0
    <3>2. PICK a \in Nat, b \in Nat, c \in Nat :
            /\ a = report.segs[n - 1].start /\ b = report.segs[n - 1].end /\ c = report.segs[n].start
            /\ b <= c
      BY <2>0, <3>1
    <3>3. Pieces[n - 1].start = a /\ Pieces[n - 1].span = b - a /\ Pieces[n].start = c
      BY <2>1, <3>1, <3>2
    <3>. QED
      BY <3>2, <3>3
  <2>6. Joined(Pieces) = Transcript(report)
    <3>1. [n \in DOMAIN Pieces |-> Pieces[n].text] = [n \in DOMAIN report.segs |-> report.segs[n].text]
      BY <2>0, <2>1
    <3>. QED
      BY <3>1 DEF Joined, Transcript
  <2>. QED
    BY <1>3, <2>4, <2>5, <2>6 DEF Staggered
<1>. QED
  BY <1>2, <1>3

\* When the decode is over and was one that only appends, the characters spell
\* the transcript.
LEMMA CharactersFacts ==
  ASSUME Decoded
  PROVE  /\ Characters \in Seq(Cell) /\ InOrder(Characters)
         /\ ~ MoreTokens /\ Reproduces(report) => Spelled(Characters) = Transcript(report)
<1>1. /\ Characters \in Seq(Cell) /\ InOrder(Characters)
      /\ Spelled(Characters) = Joined(Pieces)
  BY CharactersSpread, PiecesFacts, SpreadAllFacts
<1>2. ASSUME ~ MoreTokens, Reproduces(report), table # <<>>
      PROVE  Joined(table) = Transcript(report)
  <2>1. /\ report \in Reports /\ Len(table) \in Nat \ {0} /\ Len(table) <= Len(report.tokens)
        /\ Joined(table) = report.tokens[Len(table)].decoded
    BY <1>2, EmptySeq DEF Decoded
  <2>2. Len(report.tokens) \in Nat
    BY <2>1, ReportFacts
  <2>3. report.tokens # <<>>
    BY <2>1, <2>2, EmptySeq
  <2>4. /\ \A n \in 2 .. Len(report.tokens) : IsPrefix(report.tokens[n - 1].decoded, report.tokens[n].decoded)
        /\ report.tokens[Len(report.tokens)].decoded = Transcript(report)
    BY <1>2, <2>3 DEF Reproduces
  <2>5. Len(table) = Len(report.tokens)
    <3>. SUFFICES ASSUME Len(table) # Len(report.tokens)
                  PROVE  FALSE
      OBVIOUS
    <3>1. PICK n \in 2 .. Len(report.tokens) : n = Len(table) + 1
      BY <2>1, <2>2
    <3>2. n \in 1 .. Len(report.tokens) /\ n - 1 \in 1 .. Len(report.tokens)
      BY <2>2
    <3>3. PICK a \in Seq(Char), b \in Seq(Char) :
            a = report.tokens[n - 1].decoded /\ b = report.tokens[n].decoded
      BY <2>1, <3>2, ReportFacts
    <3>4. Len(a) <= Len(b) /\ Len(a) \in Nat /\ Len(b) \in Nat
      BY <2>4, <3>3, PrefixSplits, LenProperties
    <3>. QED
      BY <1>2, <2>2, <3>1, <3>3, <3>4 DEF MoreTokens
  <2>. QED
    BY <2>1, <2>4, <2>5
<1>. QED
  BY <1>1, <1>2, PiecesFacts

-----------------------------------------------------------------------------
(* The inductive invariant *)

\* Where the open unit begins.
Begin == next - Len(buf.text)

Unit == [text : Seq(Char), at : Int, label : Int]

\* Before the characters are laid out there are none.
Waiting == chars = <<>> /\ next = 1 /\ buf = NoUnit /\ win = <<>>

\* Afterwards what comes before the open unit is laid out, and the unit is one.
Grouping ==
  /\ chars \in Seq(Cell) /\ InOrder(chars)
  /\ Reproduces(report) => Spelled(chars) = Transcript(report)
  /\ next \in 1 .. Len(chars) + 1
  /\ buf \in Unit
  /\ Len(win) \in Nat \ {0} /\ Laid(win, chars, Len(win), Begin)
  /\ buf.text # <<>> => IsUnit(buf, chars, Begin)
  /\ pc = "group" => AtEdge(chars, Begin)
  /\ pc = "printed" => buf.text = <<>> /\ next = Len(chars) + 1

WindowInv ==
  /\ pc \in {"decode", "group", "printed"}
  /\ Decoded
  /\ pc = "decode" => Waiting
  /\ pc # "decode" => Grouping

\* No characters, in windows without lines.
LEMMA NothingLaid ==
  ASSUME NEW W \in Nat \ {0}, NEW cs \in Seq(Cell), NEW ws, ws = [w \in 1 .. W |-> <<>>]
  PROVE  Laid(ws, cs, W, 1) /\ Len(ws) = W
<1>1. ws \in [1 .. W -> Seq(Line)]
  BY EmptySeq
<1>2. Len(ws) = W
  <2>1. ws \in Seq(Seq(Line))
    BY <1>1
  <2>. QED
    BY <1>1, <2>1
<1>3. LinesOf(ws) = <<>>
  <2>1. PICK e \in Seq(Seq(Shown)) : e = <<>>
    BY EmptySeq
  <2>2. FlattenSeq(e) = <<>> /\ <<>> \in Seq(Shown)
    BY <2>1, FlattenIs, EmptySeq
  <2>3. 1 \in 1 .. W /\ W \in Nat /\ \A v \in 1 + 1 .. W : ws[v] = <<>>
    OBVIOUS
  <2>4. LinesOf(ws) = FlattenSeq([v \in 1 .. 1 - 1 |-> Marked(v, ws[v])]) \o Marked(1, ws[1])
    BY <1>1, <2>3, LinesUpTo
  <2>5. Marked(1, ws[1]) = <<>>
    <3>1. PICK ls \in Seq(Line) : ls = <<>> /\ ls = ws[1]
      BY <1>1, <2>3
    <3>2. Marked(1, ls) = <<>>
      BY <3>1, MarkedFacts
    <3>. QED
      BY <3>1, <3>2
  <2>6. [v \in 1 .. 1 - 1 |-> Marked(v, ws[v])] = <<>>
    OBVIOUS
  <2>. QED
    BY <2>1, <2>2, <2>4, <2>5, <2>6, ConcatEmptySeq
<1>4. PICK ls \in Seq(Shown) : ls = <<>>
  BY EmptySeq
<1>5. Joined(ls) = <<>> /\ PlacesOf(ls) = <<>> /\ WholeWords(ls)
  <2>1. Joined(ls) = <<>>
    BY <1>4, ShownHasTexts, JoinedTyped
  <2>2. PlacesOf(ls) = <<>>
    <3>1. [n \in DOMAIN ls |-> SpotsOf(ls[n])] = <<>>
      BY <1>4
    <3>2. PICK e \in Seq(Seq(Spot)) : e = <<>>
      BY EmptySeq
    <3>3. FlattenSeq(e) = <<>>
      BY <3>2, FlattenIs
    <3>. QED
      BY <3>1, <3>2, <3>3 DEF PlacesOf
  <2>3. Len(ls) = 0
    BY <1>4, EmptySeq
  <2>. QED
    BY <2>1, <2>2, <2>3 DEF WholeWords
<1>6. Len(Joined(LinesOf(ws))) = 0 /\ Len(PlacesOf(LinesOf(ws))) = 0 /\ WholeWords(LinesOf(ws))
  BY <1>3, <1>4, <1>5, EmptySeq
<1>7. 1 \in 1 .. Len(cs) + 1 /\ \A k \in 1 .. 1 - 1 : FALSE
  BY LenProperties
<1>. QED
  BY <1>1, <1>2, <1>6, <1>7 DEF Laid

\* There is a window at least.
LEMMA WindowsFacts ==
  ASSUME report \in Reports
  PROVE  Windows \in Nat \ {0}
<1>. DEFINE S == {1} \cup {report.segs[n].end \div Hop + 1 : n \in DOMAIN report.segs}
            N == Len(report.segs)
            Needed(n) == report.segs[n].end \div Hop + 1
            T == {m \in Nat : m <= N => \E b \in Nat : 1 <= b /\ \A n \in 1 .. m : Needed(n) <= b}
<1>1. N \in Nat /\ DOMAIN report.segs = 1 .. N /\ \A n \in 1 .. N : report.segs[n].end \in Nat
  BY ReportFacts
<1>2. \A n \in 1 .. N : Needed(n) \in Nat \ {0}
  <2>1. Hop \in Nat \ {0}
    BY WindowAssumption
  <2>2. ASSUME NEW n \in 1 .. N
        PROVE  Needed(n) \in Nat \ {0}
    <3>1. PICK e \in Nat : e = report.segs[n].end
      BY <1>1
    <3>2. e \div Hop \in Nat
      BY <2>1
    <3>. QED
      BY <3>1, <3>2
  <2>. HIDE DEF Needed
  <2>. QED
    BY <2>2
<1>3. S = {1} \cup {Needed(n) : n \in 1 .. N}
  BY <1>1
<1>. HIDE DEF Needed, N
<1>4. 0 \in T
  OBVIOUS
<1>5. ASSUME NEW m \in Nat, m \in T
      PROVE  m + 1 \in T
  <2>. SUFFICES ASSUME m + 1 <= N
                PROVE  \E b \in Nat : 1 <= b /\ \A n \in 1 .. m + 1 : Needed(n) <= b
    OBVIOUS
  <2>1. PICK b \in Nat : 1 <= b /\ \A n \in 1 .. m : Needed(n) <= b
    BY <1>1, <1>5
  <2>2. PICK e \in Nat : e = Needed(m + 1)
    BY <1>1, <1>2
  <2>3. PICK c \in Nat : b <= c /\ e <= c
    OBVIOUS
  <2>4. \A n \in 1 .. m + 1 : Needed(n) <= c
    <3>1. ASSUME NEW n \in 1 .. m + 1
          PROVE  Needed(n) <= c
      <4>1. Needed(n) \in Nat /\ (n \in 1 .. m \/ n = m + 1)
        BY <1>1, <1>2
      <4>. QED
        BY <2>1, <2>2, <2>3, <4>1
    <3>. QED
      BY <3>1
  <2>. QED
    BY <2>1, <2>3, <2>4
<1>. HIDE DEF T
<1>6. N \in T
  BY <1>1, <1>4, <1>5, InductionOnSet
<1>7. PICK b \in Nat : 1 <= b /\ \A n \in 1 .. N : Needed(n) <= b
  BY <1>1, <1>6 DEF T
<1>8. S \subseteq 0 .. b /\ S # {} /\ 0 \notin S
  BY <1>2, <1>3, <1>7
<1>9. Windows = Max(S)
  BY DEF Windows
<1>. HIDE DEF S
<1>10. Max(S) \in S
  BY <1>8, MaxFacts
<1>11. Max(S) \in 0 .. b /\ Max(S) # 0
  BY <1>8, <1>10
<1>. QED
  BY <1>9, <1>11

-----------------------------------------------------------------------------
(* The steps *)

\* The windows that are there are those the unit is added to.
LEMMA AddedIs ==
  ASSUME NEW ws, NEW u
  PROVE  Added(ws, u) = AddTo(ws, Len(win), u)
BY DEF Added, WindowAt, AddTo, WinOf

\* Adding the open unit, if there is one.
LEMMA Flush ==
  ASSUME NEW W \in Nat \ {0}, NEW cs \in Seq(Cell), InOrder(cs), NEW ws, NEW b, Laid(ws, cs, W, b),
         NEW u, u.text # <<>> => IsUnit(u, cs, b) /\ (AtEdge(cs, b) \/ Head(u.text) \notin WordChars),
         u.text = <<>> => AddTo(ws, W, u) = ws
  PROVE  Laid(AddTo(ws, W, u), cs, W, b + Len(u.text))
<1>1. CASE u.text = <<>>
  <2>1. Len(u.text) = 0 /\ b \in Nat
    BY <1>1, EmptySeq, LenProperties DEF Laid
  <2>2. b + Len(u.text) = b
    BY <2>1
  <2>. QED
    BY <1>1, <2>2
<1>2. CASE u.text # <<>>
  BY <1>2, AddUnit
<1>. QED
  BY <1>1, <1>2

\* The character looked at, alone, is a unit.
LEMMA HereFacts ==
  ASSUME Grouping, next <= Len(chars)
  PROVE  /\ Here.c \in Char /\ Here = chars[next] /\ next \in 1 .. Len(chars) /\ Len(chars) \in Nat
         /\ Alone(Here) \in Unit /\ IsUnit(Alone(Here), chars, next)
         /\ Alone(Here).text # <<>> /\ Len(Alone(Here).text) = 1 /\ Head(Alone(Here).text) = Here.c
<1>1. next \in 1 .. Len(chars) /\ Len(chars) \in Nat /\ chars \in Seq(Cell)
  BY LenProperties DEF Grouping
<1>2. PICK e \in Cell : e = chars[next] /\ e = Here
  BY <1>1, ElementOfSeq DEF Here
<1>3. e.c \in Char /\ e.at \in Int /\ e.label \in Int
  BY DEF Cell
<1>4. /\ <<e.c>> \in Seq(Char) /\ Len(<<e.c>>) = 1 /\ <<e.c>>[1] = e.c /\ <<e.c>> # <<>>
      /\ Head(<<e.c>>) = e.c
  BY <1>3
<1>5. Alone(e) = [text |-> <<e.c>>, at |-> e.at, label |-> e.label]
  BY DEF Alone
<1>6. IsUnit(Alone(e), chars, next)
  <2>1. Alone(e).text = <<e.c>> /\ Alone(e).at = e.at /\ Alone(e).label = e.label
    BY <1>5
  <2>2. <<e.c>> \in Text /\ next + 1 - 1 = next /\ next <= Len(chars)
    BY <1>1, <1>4 DEF Text
  <2>3. \A i \in 1 .. 1 : <<e.c>>[i] = chars[next + i - 1].c
    <3>1. \A i \in 1 .. 1 : i = 1 /\ next + i - 1 = next
      BY <1>1
    <3>2. <<e.c>>[1] = chars[next].c
      BY <1>2, <1>4
    <3>. QED
      BY <3>1, <3>2
  <2>4. \A i \in 2 .. 1 : <<e.c>>[i] \notin Wide
    OBVIOUS
  <2>. QED
    BY <1>2, <1>4, <2>1, <2>2, <2>3, <2>4 DEF IsUnit
<1>7. Alone(e) \in Unit
  BY <1>3, <1>4, <1>5 DEF Unit
<1>. QED
  BY <1>1, <1>2, <1>3, <1>4, <1>5, <1>6, <1>7

\* The open unit with the character looked at is one.
LEMMA LongerFacts ==
  ASSUME Grouping, next <= Len(chars), buf.text # <<>>, Here.c \notin Wide
  PROVE  /\ Longer \in Unit /\ IsUnit(Longer, chars, Begin)
         /\ Longer.text # <<>> /\ Begin + Len(Longer.text) = next + 1
<1>1. /\ next \in 1 .. Len(chars) /\ Len(chars) \in Nat /\ Here = chars[next] /\ Here.c \in Char
  BY HereFacts
<1>2. /\ buf \in Unit /\ buf.text \in Seq(Char) /\ buf.at \in Int /\ buf.label \in Int
      /\ IsUnit(buf, chars, Begin)
  BY DEF Grouping, Unit
<1>3. Longer = [text |-> Append(buf.text, Here.c), at |-> buf.at, label |-> buf.label]
  <2>1. \A v \in Unit : \A t : [v EXCEPT !.text = t] = [text |-> t, at |-> v.at, label |-> v.label]
    BY DEF Unit
  <2>. QED
    BY <1>2, <2>1 DEF Longer
<1>4. PICK t \in Seq(Char), c \in Char, b \in Int : t = buf.text /\ c = Here.c /\ b = Begin
  <2>1. Begin \in Int
    BY <1>1, <1>2, LenProperties DEF Begin
  <2>. QED
    BY <1>1, <1>2, <2>1
<1>5. /\ Append(t, c) \in Seq(Char) /\ Append(t, c) # <<>> /\ Len(Append(t, c)) = Len(t) + 1
      /\ \A i \in 1 .. Len(t) : Append(t, c)[i] = t[i]
      /\ Append(t, c)[Len(t) + 1] = c
      /\ Len(t) \in Nat \ {0}
  BY <1>4, AppendProperties, EmptySeq
<1>6. b = next - Len(t) /\ b \in Int /\ b + Len(t) = next
  BY <1>1, <1>4, <1>5 DEF Begin
<1>7. /\ buf.at = chars[b].at /\ buf.label = chars[b].label
      /\ \A i \in 1 .. Len(t) : t[i] = chars[b + i - 1].c
      /\ \A i \in 2 .. Len(t) : t[i] \notin Wide
  BY <1>2, <1>4 DEF IsUnit
<1>8. ASSUME NEW i \in 1 .. Len(t) + 1
      PROVE  /\ Append(t, c)[i] = chars[b + i - 1].c
             /\ i # 1 => Append(t, c)[i] \notin Wide
  <2>1. CASE i = Len(t) + 1
    <3>1. b + i - 1 = next
      BY <1>5, <1>6, <2>1
    <3>. QED
      BY <1>1, <1>4, <1>5, <2>1, <3>1
  <2>2. CASE i # Len(t) + 1
    <3>1. i \in 1 .. Len(t) /\ (i # 1 => i \in 2 .. Len(t))
      BY <1>5, <2>2
    <3>. QED
      BY <1>5, <1>7, <3>1
  <2>. QED
    BY <2>1, <2>2
<1>9. b + (Len(t) + 1) - 1 <= Len(chars) /\ b + (Len(t) + 1) = next + 1
  BY <1>1, <1>5, <1>6
<1>10. PICK l : l = Longer
  OBVIOUS
<1>11. l.text = Append(t, c) /\ l.at = buf.at /\ l.label = buf.label /\ Len(l.text) = Len(t) + 1
  BY <1>3, <1>4, <1>5, <1>10
<1>12. IsUnit(l, chars, b)
  <2>1. l.text \in Text
    BY <1>5, <1>11 DEF Text
  <2>2. \A i \in 1 .. Len(l.text) : l.text[i] = chars[b + i - 1].c
    BY <1>8, <1>11
  <2>3. \A i \in 2 .. Len(l.text) : l.text[i] \notin Wide
    <3>1. \A i \in 2 .. Len(t) + 1 : i \in 1 .. Len(t) + 1 /\ i # 1
      BY <1>5
    <3>. QED
      BY <1>8, <1>11, <3>1
  <2>. QED
    BY <1>7, <1>9, <1>11, <2>1, <2>2, <2>3 DEF IsUnit
<1>13. l \in Unit
  BY <1>2, <1>3, <1>4, <1>5, <1>10 DEF Unit
<1>. QED
  BY <1>4, <1>5, <1>9, <1>10, <1>11, <1>12, <1>13

\* A step of the loop keeps Grouping if what it leaves is laid out.
LEMMA GoesOn ==
  ASSUME Grouping, Take, NEW b, Laid(win', chars, Len(win), b),
         buf' \in Unit, b = next + 1 - Len(buf'.text),
         buf'.text # <<>> => IsUnit(buf', chars, b), AtEdge(chars, b)
  PROVE  Grouping' /\ pc' = "group"
<1>1. /\ pc = "group" /\ pc' = pc /\ next' = next + 1 /\ next <= Len(chars)
      /\ report' = report /\ table' = table /\ chars' = chars
  BY DEF Take
<1>2. Len(chars) \in Nat /\ Len(win) \in Nat \ {0} /\ next \in 1 .. Len(chars) + 1 /\ chars \in Seq(Cell)
      /\ InOrder(chars) /\ (Reproduces(report) => Spelled(chars) = Transcript(report))
  BY LenProperties DEF Grouping
<1>3. PICK W \in Nat \ {0} : W = Len(win)
  BY <1>2
<1>4. win' \in [1 .. W -> Seq(Line)]
  BY <1>3 DEF Laid
<1>5. Len(win') = W
  BY <1>4
<1>6. Begin' = b
  <2>1. Begin' = next' - Len(buf'.text)
    BY DEF Begin
  <2>2. next' = next + 1
    BY <1>1
  <2>3. next \in Nat /\ Len(buf'.text) \in Nat
    BY <1>2, LenProperties DEF Unit
  <2>4. PICK m \in Nat, l \in Nat : m = next /\ l = Len(buf'.text)
    BY <2>3
  <2>5. b = m + 1 - l /\ Begin' = (m + 1) - l
    BY <2>1, <2>2, <2>4
  <2>. QED
    BY <2>5
<1>7. next' \in 1 .. Len(chars') + 1
  BY <1>1, <1>2
<1>8. (Reproduces(report) => Spelled(chars) = Transcript(report))'
  BY <1>1, <1>2 DEF Reproduces, Transcript, Spelled
<1>9. /\ Laid(win', chars', Len(win'), Begin') /\ (buf'.text # <<>> => IsUnit(buf', chars', Begin'))
      /\ AtEdge(chars', Begin') /\ Len(win') \in Nat \ {0} /\ buf' \in Unit
  BY <1>1, <1>3, <1>5, <1>6
<1>10. chars' \in Seq(Cell) /\ InOrder(chars')
  BY <1>1, <1>2
<1>. QED
  BY <1>1, <1>7, <1>8, <1>9, <1>10 DEF Grouping

\* With the open unit flushed, everything before the next character is laid out.
LEMMA FlushOpen ==
  ASSUME Grouping, pc = "group"
  PROVE  /\ Laid(Added(win, buf), chars, Len(win), next)
         /\ Begin + Len(buf.text) = next /\ Begin \in Int /\ Len(buf.text) \in Nat
         /\ buf.text = <<>> => Begin = next /\ Added(win, buf) = win
         /\ buf.text # <<>> /\ Last(buf.text) \notin WordChars => AtEdge(chars, next)
<1>1. /\ Len(win) \in Nat \ {0} /\ chars \in Seq(Cell) /\ InOrder(chars)
      /\ Laid(win, chars, Len(win), Begin) /\ AtEdge(chars, Begin)
      /\ (buf.text # <<>> => IsUnit(buf, chars, Begin))
      /\ buf \in Unit /\ next \in 1 .. Len(chars) + 1
  BY DEF Grouping
<1>2. buf.text = <<>> => AddTo(win, Len(win), buf) = win
  BY DEF AddTo
<1>3. Laid(AddTo(win, Len(win), buf), chars, Len(win), Begin + Len(buf.text))
  <2>0. PICK b, u, ws : b = Begin /\ u = buf /\ ws = win
    OBVIOUS
  <2>1. PICK W \in Nat \ {0}, cs \in Seq(Cell) : W = Len(win) /\ cs = chars
    BY <1>1
  <2>2. /\ InOrder(cs) /\ Laid(ws, cs, W, b) /\ (u.text # <<>> => IsUnit(u, cs, b) /\ AtEdge(cs, b))
        /\ (u.text = <<>> => AddTo(ws, W, u) = ws)
    BY <1>1, <1>2, <2>0, <2>1
  <2>3. Laid(AddTo(ws, W, u), cs, W, b + Len(u.text))
    BY <2>2, Flush
  <2>. QED
    BY <2>0, <2>1, <2>3
<1>4. next \in Int /\ buf.text \in Seq(Char) /\ Len(buf.text) \in Nat
  BY <1>1, LenProperties DEF Unit
<1>5. Begin \in Int /\ Begin + Len(buf.text) = next
  BY <1>4 DEF Begin
<1>6. buf.text = <<>> => Begin = next
  BY <1>4, <1>5, EmptySeq
<1>7. ASSUME buf.text # <<>>, Last(buf.text) \notin WordChars
      PROVE  AtEdge(chars, next)
  <2>1. PICK n \in Nat : n = Len(buf.text)
    BY <1>4
  <2>2. n \in 1 .. n
    BY <1>4, <1>7, <2>1, EmptySeq
  <2>3. buf.text[n] = chars[Begin + n - 1].c
    BY <1>1, <1>7, <2>1, <2>2 DEF IsUnit
  <2>4. Begin + n - 1 = next - 1
    BY <1>4, <1>5, <2>1
  <2>5. Last(buf.text) = buf.text[n]
    BY <2>1 DEF Last
  <2>. QED
    BY <1>7, <2>3, <2>4, <2>5 DEF AtEdge
<1>. QED
  BY <1>2, <1>3, <1>5, <1>6, <1>7, <1>4, AddedIs

\* What leaves no unit open goes on if everything up to the character looked at
\* is laid out and no word is open there.
LEMMA GoesOnClosed ==
  ASSUME Grouping, Take, Laid(win', chars, Len(win), next + 1), buf' = NoUnit, Here.c \notin WordChars
  PROVE  Grouping' /\ pc' = "group"
<1>1. next <= Len(chars) /\ next \in 1 .. Len(chars) /\ Here = chars[next]
  BY HereFacts DEF Take
<1>2. buf'.text = <<>> /\ buf'.at = 0 /\ buf'.label = -1
  BY DEF NoUnit
<1>3. buf' \in Unit
  <2>1. <<>> \in Seq(Char)
    BY EmptySeq
  <2>. QED
    BY <2>1 DEF NoUnit, Unit
<1>4. PICK m \in Int : m = next + 1
  BY <1>1
<1>5. m = next + 1 - Len(buf'.text)
  <2>1. Len(buf'.text) = 0
    BY <1>2, EmptySeq
  <2>2. next + 1 - 0 = m
    BY <1>1, <1>4
  <2>. QED
    BY <2>1, <2>2
<1>6. AtEdge(chars, m)
  <2>1. m - 1 = next
    BY <1>1, <1>4
  <2>. QED
    BY <1>1, <2>1 DEF AtEdge
<1>7. Laid(win', chars, Len(win), m)
  BY <1>4
<1>. QED
  BY <1>2, <1>3, <1>5, <1>6, <1>7, GoesOn

\* A unit added to what is laid out before it.
LEMMA UnitBehind ==
  ASSUME Grouping, NEW ws, NEW b, Laid(ws, chars, Len(win), b),
         NEW u, IsUnit(u, chars, b), AtEdge(chars, b) \/ Head(u.text) \notin WordChars
  PROVE  Laid(Added(ws, u), chars, Len(win), b + Len(u.text))
<1>1. Len(win) \in Nat \ {0} /\ chars \in Seq(Cell) /\ InOrder(chars)
  BY DEF Grouping
<1>2. PICK W \in Nat \ {0}, cs \in Seq(Cell) : W = Len(win) /\ cs = chars
  BY <1>1
<1>3. /\ InOrder(cs) /\ Laid(ws, cs, W, b) /\ IsUnit(u, cs, b)
      /\ (AtEdge(cs, b) \/ Head(u.text) \notin WordChars)
  BY <1>1, <1>2
<1>4. Laid(AddTo(ws, W, u), cs, W, b + Len(u.text))
  BY <1>3, AddUnit
<1>. QED
  BY <1>2, <1>4, AddedIs

\* A character that is a unit is laid out behind the open one.
LEMMA OwnUnitStep ==
  ASSUME Grouping, OwnUnit
  PROVE  Grouping' /\ pc' = "group"
<1>1. /\ Take /\ Here.c \in Wide /\ win' = Added(Added(win, buf), Alone(Here)) /\ buf' = NoUnit
      /\ pc = "group" /\ next <= Len(chars)
  BY DEF OwnUnit, Take
<1>2. Here.c \notin WordChars
  BY <1>1, WindowAssumption
<1>3. Laid(Added(win, buf), chars, Len(win), next)
  BY <1>1, FlushOpen
<1>4. /\ IsUnit(Alone(Here), chars, next) /\ Len(Alone(Here).text) = 1 /\ Head(Alone(Here).text) = Here.c
  BY <1>1, HereFacts
<1>5. PICK ws, u : ws = Added(win, buf) /\ u = Alone(Here)
  OBVIOUS
<1>6. Laid(Added(ws, u), chars, Len(win), next + Len(u.text))
  BY <1>2, <1>3, <1>4, <1>5, UnitBehind
<1>7. Laid(win', chars, Len(win), next + 1)
  BY <1>1, <1>4, <1>5, <1>6
<1>. QED
  BY <1>1, <1>2, <1>7, GoesOnClosed

\* The first character of a unit: punctuation alone is laid out, any other opens one.
LEMMA StartUnitStep ==
  ASSUME Grouping, StartUnit
  PROVE  Grouping' /\ pc' = "group"
<1>1. /\ Take /\ Here.c \notin Wide /\ buf.text = <<>> /\ pc = "group" /\ next <= Len(chars)
      /\ IF Here.c \in Others
         THEN win' = Added(win, Alone(Here)) /\ buf' = NoUnit
         ELSE buf' = Alone(Here) /\ win' = win
  BY DEF StartUnit, Take
<1>2. /\ IsUnit(Alone(Here), chars, next) /\ Len(Alone(Here).text) = 1 /\ Head(Alone(Here).text) = Here.c
      /\ Alone(Here) \in Unit /\ next \in 1 .. Len(chars)
  BY <1>1, HereFacts
<1>3. Laid(win, chars, Len(win), next) /\ AtEdge(chars, next)
  <2>1. Begin = next
    BY <1>1, FlushOpen
  <2>. QED
    BY <1>1, <2>1 DEF Grouping
<1>4. PICK u : u = Alone(Here)
  OBVIOUS
<1>5. CASE Here.c \in Others
  <2>1. Here.c \notin WordChars
    BY <1>5, WindowAssumption
  <2>2. Laid(Added(win, u), chars, Len(win), next + Len(u.text))
    BY <1>2, <1>3, <1>4, UnitBehind
  <2>3. Laid(win', chars, Len(win), next + 1)
    BY <1>1, <1>2, <1>4, <1>5, <2>2
  <2>. QED
    BY <1>1, <1>5, <2>1, <2>3, GoesOnClosed
<1>6. CASE Here.c \notin Others
  <2>1. buf' = u /\ win' = win
    BY <1>1, <1>4, <1>6
  <2>2. next = next + 1 - Len(buf'.text)
    <3>1. Len(buf'.text) = 1
      BY <1>2, <1>4, <2>1
    <3>2. next = next + 1 - 1
      BY <1>2
    <3>. QED
      BY <3>1, <3>2
  <2>3. buf' \in Unit /\ IsUnit(buf', chars, next) /\ Laid(win', chars, Len(win), next)
    BY <1>2, <1>3, <1>4, <2>1
  <2>. QED
    BY <1>1, <1>3, <2>2, <2>3, GoesOn
<1>. QED
  BY <1>5, <1>6

\* The open unit is laid out with the character looked at.
LEMMA LongerLaid ==
  ASSUME Grouping, pc = "group", next <= Len(chars), buf.text # <<>>, Here.c \notin Wide
  PROVE  Laid(Added(win, Longer), chars, Len(win), next + 1)
<1>1. IsUnit(Longer, chars, Begin) /\ Begin + Len(Longer.text) = next + 1
  BY LongerFacts
<1>2. Laid(win, chars, Len(win), Begin) /\ AtEdge(chars, Begin)
  BY DEF Grouping
<1>3. PICK u, b : u = Longer /\ b = Begin
  OBVIOUS
<1>4. Laid(Added(win, u), chars, Len(win), b + Len(u.text))
  BY <1>1, <1>2, <1>3, UnitBehind
<1>. QED
  BY <1>1, <1>3, <1>4

\* A blank ends the open unit.
LEMMA SeparatorStep ==
  ASSUME Grouping, Separator
  PROVE  Grouping' /\ pc' = "group"
<1>1. /\ Take /\ Here.c = Space /\ buf.text # <<>> /\ win' = Added(win, Longer) /\ buf' = NoUnit
      /\ pc = "group" /\ next <= Len(chars)
  BY DEF Separator, Take
<1>2. Here.c \notin Wide /\ Here.c \notin WordChars
  BY <1>1, WindowAssumption
<1>3. Laid(win', chars, Len(win), next + 1)
  BY <1>1, <1>2, LongerLaid
<1>. QED
  BY <1>1, <1>2, <1>3, GoesOnClosed

\* A word goes on, or ends with punctuation.
LEMMA ExtendStep ==
  ASSUME Grouping, Extend
  PROVE  Grouping' /\ pc' = "group"
<1>1. /\ Take /\ Here.c \in WordChars \cup Others /\ buf.text # <<>> /\ pc = "group" /\ next <= Len(chars)
      /\ IF Here.c \in WordChars
         THEN buf' = Longer /\ win' = win
         ELSE win' = Added(win, Longer) /\ buf' = NoUnit
  BY DEF Extend, Take
<1>2. Here.c \notin Wide
  BY <1>1, WindowAssumption
<1>3. CASE Here.c \in WordChars
  <2>1. /\ Longer \in Unit /\ IsUnit(Longer, chars, Begin) /\ Longer.text # <<>>
        /\ Begin + Len(Longer.text) = next + 1
    BY <1>1, <1>2, LongerFacts
  <2>2. Laid(win, chars, Len(win), Begin) /\ AtEdge(chars, Begin) /\ next \in 1 .. Len(chars) + 1
    BY <1>1 DEF Grouping
  <2>3. PICK u, b : u = Longer /\ b = Begin
    OBVIOUS
  <2>4. b \in Int /\ Len(u.text) \in Nat
    BY <1>1, <2>1, <2>3, FlushOpen, LenProperties DEF Unit
  <2>5. b = next + 1 - Len(u.text)
    <3>1. PICK n \in Nat, l \in Nat : n = next /\ l = Len(u.text)
      BY <1>1, <2>4, HereFacts
    <3>2. b + l = n + 1
      BY <2>1, <2>3, <3>1
    <3>3. b = n + 1 - l
      BY <2>4, <3>2
    <3>. QED
      BY <3>1, <3>3
  <2>6. buf' = u /\ win' = win
    BY <1>1, <1>3, <2>3
  <2>7. /\ Laid(win', chars, Len(win), b) /\ buf' \in Unit /\ IsUnit(buf', chars, b) /\ AtEdge(chars, b)
        /\ b = next + 1 - Len(buf'.text)
    BY <2>1, <2>2, <2>3, <2>5, <2>6
  <2>. QED
    BY <1>1, <2>7, GoesOn
<1>4. CASE Here.c \notin WordChars
  <2>1. Laid(win', chars, Len(win), next + 1)
    BY <1>1, <1>2, <1>4, LongerLaid
  <2>. QED
    BY <1>1, <1>4, <2>1, GoesOnClosed
<1>. QED
  BY <1>3, <1>4

\* Punctuation behind a blank opens a unit.
LEMMA NextUnitStep ==
  ASSUME Grouping, NextUnit
  PROVE  Grouping' /\ pc' = "group"
<1>1. /\ Take /\ buf.text # <<>> /\ Last(buf.text) \notin WordChars /\ pc = "group" /\ next <= Len(chars)
      /\ win' = Added(win, buf) /\ buf' = Alone(Here)
  BY DEF NextUnit, Take
<1>2. Laid(win', chars, Len(win), next) /\ AtEdge(chars, next)
  BY <1>1, FlushOpen
<1>3. /\ IsUnit(Alone(Here), chars, next) /\ Len(Alone(Here).text) = 1
      /\ Alone(Here) \in Unit /\ next \in 1 .. Len(chars)
  BY <1>1, HereFacts
<1>4. next = next + 1 - Len(buf'.text)
  <2>1. Len(buf'.text) = 1
    BY <1>1, <1>3
  <2>2. next = next + 1 - 1
    BY <1>3
  <2>. QED
    BY <2>1, <2>2
<1>5. buf' \in Unit /\ IsUnit(buf', chars, next)
  BY <1>1, <1>3
<1>. QED
  BY <1>1, <1>2, <1>4, <1>5, GoesOn

\* The last unit is flushed.
LEMMA EndOfTextStep ==
  ASSUME Grouping, EndOfText
  PROVE  Grouping' /\ pc' = "printed"
<1>1. /\ pc = "group" /\ next > Len(chars) /\ pc' = "printed" /\ win' = Added(win, buf) /\ buf' = NoUnit
      /\ report' = report /\ chars' = chars /\ next' = next
  BY DEF EndOfText
<1>2. /\ Len(win) \in Nat \ {0} /\ chars \in Seq(Cell) /\ InOrder(chars) /\ next \in 1 .. Len(chars) + 1
      /\ (Reproduces(report) => Spelled(chars) = Transcript(report)) /\ Len(chars) \in Nat
  BY LenProperties DEF Grouping
<1>3. Laid(win', chars, Len(win), next)
  BY <1>1, FlushOpen
<1>4. PICK W \in Nat \ {0} : W = Len(win)
  BY <1>2
<1>5. win' \in [1 .. W -> Seq(Line)]
  BY <1>3, <1>4 DEF Laid
<1>6. Len(win') = W
  BY <1>5
<1>7. buf'.text = <<>> /\ buf' \in Unit /\ Len(buf'.text) = 0
  BY <1>1, EmptySeq DEF NoUnit, Unit
<1>8. Begin' = next
  <2>1. Begin' = next' - Len(buf'.text)
    BY DEF Begin
  <2>. QED
    BY <1>1, <1>2, <1>7, <2>1
<1>9. next' = Len(chars') + 1
  BY <1>1, <1>2
<1>10. (Reproduces(report) => Spelled(chars) = Transcript(report))'
  BY <1>1, <1>2 DEF Reproduces, Transcript, Spelled
<1>11. Laid(win', chars', Len(win'), Begin') /\ Len(win') \in Nat \ {0}
  BY <1>1, <1>3, <1>4, <1>6, <1>8
<1>12. chars' \in Seq(Cell) /\ InOrder(chars') /\ next' \in 1 .. Len(chars') + 1 /\ pc' # "group"
  BY <1>1, <1>2
<1>. QED
  BY <1>1, <1>7, <1>9, <1>10, <1>11, <1>12 DEF Grouping

\* The characters are laid out, the windows are open and empty.
LEMMA BeginStep ==
  ASSUME Decoded, Waiting, BeginGrouping
  PROVE  Grouping' /\ pc' = "group"
<1>1. /\ ~ MoreTokens /\ pc' = "group" /\ chars' = Characters /\ win' = [w \in 1 .. Windows |-> <<>>]
      /\ report' = report /\ next' = 1 /\ buf' = NoUnit /\ report \in Reports
  BY DEF BeginGrouping, Waiting, Decoded
<1>2. Characters \in Seq(Cell) /\ InOrder(Characters) /\ (Reproduces(report) => Spelled(Characters) = Transcript(report))
  BY <1>1, CharactersFacts
<1>3. PICK W \in Nat \ {0} : W = Windows
  BY <1>1, WindowsFacts
<1>4. PICK cs \in Seq(Cell) : cs = Characters
  BY <1>2
<1>5. win' = [w \in 1 .. W |-> <<>>]
  BY <1>1, <1>3
<1>6. Laid(win', cs, W, 1) /\ Len(win') = W
  BY <1>5, NothingLaid
<1>7. buf'.text = <<>> /\ buf' \in Unit /\ Len(buf'.text) = 0
  BY <1>1, EmptySeq DEF NoUnit, Unit
<1>8. Begin' = 1
  <2>1. Begin' = next' - Len(buf'.text)
    BY DEF Begin
  <2>. QED
    BY <1>1, <1>7, <2>1
<1>9. (Reproduces(report) => Spelled(chars) = Transcript(report))'
  BY <1>1, <1>2 DEF Reproduces, Transcript, Spelled
<1>10. next' \in 1 .. Len(chars') + 1
  <2>1. Len(cs) \in Nat
    BY LenProperties
  <2>. QED
    BY <1>1, <1>4, <2>1
<1>11. Laid(win', chars', Len(win'), Begin') /\ Len(win') \in Nat \ {0} /\ AtEdge(chars', Begin')
  BY <1>1, <1>4, <1>6, <1>8 DEF AtEdge
<1>12. chars' \in Seq(Cell) /\ InOrder(chars')
  BY <1>1, <1>2
<1>. QED
  BY <1>1, <1>7, <1>9, <1>10, <1>11, <1>12 DEF Grouping

\* The invariant is inductive.
LEMMA WindowInvHolds == Spec => []WindowInv
<1>1. Init => WindowInv
  <2>. SUFFICES ASSUME Init
                PROVE  WindowInv
    OBVIOUS
  <2>1. Waiting /\ pc = "decode" /\ report \in Reports /\ table = <<>>
    BY DEF Init, Waiting
  <2>2. table \in Seq(Entry) /\ Len(table) = 0
    BY <2>1, EmptySeq
  <2>3. Joined(table) = <<>>
    <3>1. \A r \in Entry : r.text \in Seq(Char)
      BY DEF Entry
    <3>2. HasTexts(table, Char)
      BY <2>2, <3>1 DEF HasTexts
    <3>. QED
      BY <2>1, <3>2, JoinedTyped
  <2>4. Len(report.tokens) \in Nat
    BY <2>1, ReportFacts
  <2>5. Len(table) <= Len(report.tokens) /\ 1 .. Len(table) = {}
    BY <2>2, <2>4
  <2>. QED
    BY <2>1, <2>2, <2>3, <2>5 DEF WindowInv, Decoded
<1>2. WindowInv /\ [Next]_vars => WindowInv'
  <2>. SUFFICES ASSUME WindowInv, [Next]_vars
                PROVE  WindowInv'
    OBVIOUS
  <2>0. /\ Decoded /\ (pc = "decode" => Waiting) /\ (pc # "decode" => Grouping)
        /\ pc \in {"decode", "group", "printed"}
    BY DEF WindowInv
  <2>1. CASE DecodeToken
    <3>1. Decoded'
      BY <2>0, <2>1, DecodeStep
    <3>2. pc' = "decode" /\ Waiting'
      BY <2>0, <2>1 DEF DecodeToken, Waiting
    <3>. QED
      BY <3>1, <3>2 DEF WindowInv
  <2>2. ASSUME UNCHANGED <<report, table>>
        PROVE  Decoded'
    BY <2>0, <2>2 DEF Decoded, Reproduces, Transcript, Joined
  <2>3. CASE BeginGrouping
    <3>1. Grouping' /\ pc' = "group"
      BY <2>0, <2>3, BeginStep DEF BeginGrouping
    <3>2. Decoded'
      BY <2>2, <2>3 DEF BeginGrouping
    <3>. QED
      BY <3>1, <3>2 DEF WindowInv
  <2>4. ASSUME Take, Grouping' /\ pc' = "group"
        PROVE  WindowInv'
    <3>1. Decoded'
      BY <2>2, <2>4 DEF Take
    <3>. QED
      BY <2>4, <3>1 DEF WindowInv
  <2>5. ASSUME Take
        PROVE  Grouping
    BY <2>0, <2>5 DEF Take
  <2>6. CASE OwnUnit
    BY <2>4, <2>5, <2>6, OwnUnitStep DEF OwnUnit
  <2>7. CASE StartUnit
    BY <2>4, <2>5, <2>7, StartUnitStep DEF StartUnit
  <2>8. CASE Separator
    BY <2>4, <2>5, <2>8, SeparatorStep DEF Separator
  <2>9. CASE Extend
    BY <2>4, <2>5, <2>9, ExtendStep DEF Extend
  <2>10. CASE NextUnit
    BY <2>4, <2>5, <2>10, NextUnitStep DEF NextUnit
  <2>11. CASE EndOfText
    <3>1. Grouping' /\ pc' = "printed"
      BY <2>0, <2>11, EndOfTextStep DEF EndOfText
    <3>2. Decoded'
      BY <2>2, <2>11 DEF EndOfText
    <3>. QED
      BY <3>1, <3>2 DEF WindowInv
  <2>12. CASE UNCHANGED vars
    <3>1. Decoded'
      BY <2>2, <2>12 DEF vars
    <3>2. pc' = pc /\ Waiting' = Waiting
      BY <2>12 DEF vars, Waiting
    <3>3. Grouping' = Grouping
      BY <2>12 DEF vars, Grouping, Begin, Reproduces, Transcript, Spelled
    <3>. QED
      BY <2>0, <3>1, <3>2, <3>3 DEF WindowInv
  <2>13. Stop => UNCHANGED vars
    BY DEF Stop
  <2>. QED
    BY <2>1, <2>3, <2>6, <2>7, <2>8, <2>9, <2>10, <2>11, <2>12, <2>13 DEF Next
<1>. QED
  BY <1>1, <1>2, PTL DEF Spec

-----------------------------------------------------------------------------
(* The properties *)

\* The lines of windows that hold lines are such as are printed, none if there
\* is no window.
LEMMA LinesTyped ==
  ASSUME NEW W \in Nat, NEW ws \in [1 .. W -> Seq(Line)]
  PROVE  LinesOf(ws) \in Seq(Shown) /\ (W = 0 => LinesOf(ws) = <<>>)
<1>. DEFINE ms == [w \in 1 .. W |-> Marked(w, ws[w])]
<1>1. \A w \in 1 .. W : Marked(w, ws[w]) \in Seq(Shown)
  BY MarkedFacts
<1>2. ms \in Seq(Seq(Shown))
  BY <1>1
<1>3. LinesOf(ws) = FlattenSeq(ms)
  BY DEF LinesOf
<1>4. W = 0 => ms = <<>>
  <2>1. W = 0 => 1 .. W = {}
    OBVIOUS
  <2>. QED
    BY <2>1
<1>. HIDE DEF ms
<1>5. FlattenSeq(ms) \in Seq(Shown) /\ (ms = <<>> => FlattenSeq(ms) = <<>>)
  BY <1>2, FlattenTyped, FlattenIs
<1>. QED
  BY <1>3, <1>4, <1>5

\* What the windows hold, whether they are open yet or not.
LEMMA LinesFacts ==
  ASSUME WindowInv
  PROVE  /\ Lines = LinesOf(win) /\ Lines \in Seq(Shown)
         /\ Printed = Joined(Lines) /\ Printed \in Seq(Char)
         /\ Place = PlacesOf(Lines) /\ Place \in Seq(Spot)
         /\ pc = "decode" => Lines = <<>> /\ Printed = <<>>
<1>1. Lines = LinesOf(win)
  BY DEF Lines, LinesOf, Marked
<1>2. PICK W \in Nat : win \in [1 .. W -> Seq(Line)] /\ (pc = "decode" => W = 0)
  <2>1. CASE pc = "decode"
    <3>1. win = <<>>
      BY <2>1 DEF WindowInv, Waiting
    <3>2. win \in [1 .. 0 -> Seq(Line)]
      BY <3>1
    <3>. QED
      BY <3>2
  <2>2. CASE pc # "decode"
    <3>1. Len(win) \in Nat \ {0} /\ win \in [1 .. Len(win) -> Seq(Line)]
      BY <2>2 DEF WindowInv, Grouping, Laid
    <3>. QED
      BY <2>2, <3>1
  <2>. QED
    BY <2>1, <2>2
<1>3. LinesOf(win) \in Seq(Shown) /\ (W = 0 => LinesOf(win) = <<>>)
  BY <1>2, LinesTyped
<1>4. Lines \in Seq(Shown) /\ (pc = "decode" => Lines = <<>>)
  BY <1>1, <1>2, <1>3
<1>5. Printed = Joined(Lines)
  BY DEF Printed, Joined
<1>6. Joined(Lines) \in Seq(Char) /\ HasTexts(Lines, Char)
  BY <1>4, ShownHasTexts
<1>7. Lines = <<>> => Joined(Lines) = <<>>
  BY <1>6, JoinedTyped
<1>8. Place = PlacesOf(Lines)
  BY DEF Place, PlacesOf, SpotsOf
<1>9. PlacesOf(Lines) \in Seq(Spot)
  <2>1. PICK ls \in Seq(Shown) : ls = Lines
    BY <1>4
  <2>. QED
    BY <2>1, PlacesAppend
<1>. QED
  BY <1>1, <1>4, <1>5, <1>6, <1>7, <1>8, <1>9

\* The characters, without times and speakers.
LEMMA SaidFacts ==
  ASSUME chars \in Seq(Cell)
  PROVE  /\ Said \in Seq(Char) /\ Len(Said) = Len(chars) /\ Spelled(chars) = Said
         /\ \A k \in 1 .. Len(chars) : Said[k] = chars[k].c /\ chars[k].c \in Char
<1>1. /\ Len(chars) \in Nat /\ DOMAIN chars = 1 .. Len(chars)
      /\ \A k \in 1 .. Len(chars) : chars[k] \in Cell
  BY LenProperties, ElementOfSeq
<1>2. \A k \in 1 .. Len(chars) : chars[k].c \in Char
  BY <1>1 DEF Cell
<1>3. Said \in [1 .. Len(chars) -> Char]
  BY <1>1, <1>2 DEF Said
<1>4. Said \in Seq(Char) /\ Len(Said) = Len(chars)
  <2>1. PICK n \in Nat : n = Len(chars)
    BY <1>1
  <2>2. Said \in [1 .. n -> Char]
    BY <1>3, <2>1
  <2>3. Said \in Seq(Char) /\ Len(Said) = n
    BY <2>2
  <2>. QED
    BY <2>1, <2>3
<1>5. \A k \in 1 .. Len(chars) : Letters[chars[k]] = chars[k].c
  BY <1>1 DEF Letters
<1>6. Spelled(chars) = Said
  BY <1>1, <1>5 DEF Spelled, Mapped, Said
<1>. QED
  BY <1>1, <1>2, <1>4, <1>6 DEF Said

\* Windows hold lines of characters.
THEOREM WindowTypeCorrect == Spec => []TypeOK
<1>1. WindowInv => TypeOK
  <2>. SUFFICES ASSUME WindowInv
                PROVE  TypeOK
    OBVIOUS
  <2>1. pc \in {"decode", "group", "printed"} /\ report \in Reports
    BY DEF WindowInv, Decoded
  <2>2. report \in Report
    BY <2>1, ReportFacts
  <2>3. next \in 1 .. Len(chars) + 1
    <3>1. CASE pc = "decode"
      <4>1. next = 1 /\ Len(chars) = 0
        BY <3>1, EmptySeq DEF WindowInv, Waiting
      <4>. QED
        BY <4>1
    <3>2. CASE pc # "decode"
      BY <3>2 DEF WindowInv, Grouping
    <3>. QED
      BY <3>1, <3>2
  <2>4. buf.label \in Int /\ buf.at \in Int
    BY DEF WindowInv, Waiting, NoUnit, Grouping, Unit
  <2>5. ASSUME NEW n \in DOMAIN Lines
        PROVE  Lines[n].text # <<>> /\ Range(Lines[n].text) \subseteq Char
    <3>1. Lines[n] \in Shown
      BY LinesFacts, LenProperties, ElementOfSeq
    <3>2. PICK t \in Seq(Char) : t = Lines[n].text /\ t # <<>>
      BY <3>1 DEF Shown, Text
    <3>3. \A i \in DOMAIN t : t[i] \in Char
      BY LenProperties, ElementOfSeq
    <3>. QED
      BY <3>2, <3>3 DEF Range
  <2>. QED
    BY <2>1, <2>2, <2>3, <2>4, <2>5 DEF TypeOK
<1>. QED
  BY <1>1, WindowInvHolds, PTL

\* Every character looked at so far is printed in a window or waits in the open
\* unit, in the order of the text: flush, add and the branches of main's loop
\* lose none, double none and let none overtake another.
THEOREM NoCharacterLost == Spec => []NothingLost
<1>1. WindowInv => NothingLost
  <2>. SUFFICES ASSUME WindowInv
                PROVE  Printed \o buf.text = SubSeq(Said, 1, next - 1)
    BY DEF NothingLost
  <2>1. CASE pc = "decode"
    <3>1. Printed = <<>> /\ buf.text = <<>> /\ next = 1
      BY <2>1, LinesFacts DEF WindowInv, Waiting, NoUnit
    <3>2. SubSeq(Said, 1, 1 - 1) = <<>>
      BY SubSeqEmpty
    <3>3. <<>> \o <<>> = <<>>
      BY ONLY EmptySeq, ConcatEmptySeq
    <3>. QED
      BY <3>1, <3>2, <3>3
  <2>2. CASE pc # "decode"
    <3>1. /\ chars \in Seq(Cell) /\ Laid(win, chars, Len(win), Begin) /\ buf \in Unit
          /\ (buf.text # <<>> => IsUnit(buf, chars, Begin)) /\ next \in 1 .. Len(chars) + 1
      BY <2>2 DEF WindowInv, Grouping
    <3>0. /\ Printed \in Seq(Char) /\ buf.text \in Seq(Char) /\ Said \in Seq(Char)
          /\ next - 1 \in Nat /\ Begin \in Int
      <4>1. Len(chars) \in Nat /\ buf.text \in Seq(Char)
        BY <3>1, LenProperties DEF Unit
      <4>2. next \in Nat \ {0} /\ Len(buf.text) \in Nat
        BY <3>1, <4>1, LenProperties
      <4>. QED
        BY <3>1, <4>1, <4>2, LinesFacts, SaidFacts DEF Begin
    <3>2. PICK p \in Seq(Char), t \in Seq(Char), q \in Seq(Char), b \in Int, n \in Nat :
            p = Printed /\ t = buf.text /\ q = Said /\ b = Begin /\ n = next - 1
      BY <3>0
    <3>3. /\ Len(p) \in Nat /\ Len(t) \in Nat /\ Len(q) \in Nat /\ Len(q) = Len(chars)
          /\ \A k \in 1 .. Len(q) : q[k] = chars[k].c
      BY <3>1, <3>2, SaidFacts, LenProperties
    <3>4. b = n + 1 - Len(t) /\ n <= Len(q)
      <4>1. next \in Nat /\ b = next - Len(t) /\ n = next - 1
        BY <3>1, <3>2, <3>3 DEF Begin
      <4>2. next <= Len(q) + 1
        BY <3>1, <3>3
      <4>. QED
        BY <3>3, <4>1, <4>2
    <3>5. Len(p) = b - 1 /\ (\A k \in 1 .. b - 1 : p[k] = chars[k].c)
      BY <3>1, <3>2, LinesFacts DEF Laid
    <3>6. \A i \in 1 .. Len(t) : t[i] = chars[b + i - 1].c
      <4>1. CASE t = <<>>
        BY <4>1, EmptySeq
      <4>2. CASE t # <<>>
        BY <3>1, <3>2, <4>2 DEF IsUnit
      <4>. QED
        BY <4>1, <4>2
    <3>7. /\ p \o t \in Seq(Char) /\ Len(p \o t) = Len(p) + Len(t)
          /\ \A i \in 1 .. Len(p) + Len(t) : (p \o t)[i] = IF i <= Len(p) THEN p[i] ELSE t[i - Len(p)]
      BY ConcatProperties
    <3>8. /\ SubSeq(q, 1, n) \in Seq(Char) /\ Len(SubSeq(q, 1, n)) = n
          /\ \A i \in 1 .. n : SubSeq(q, 1, n)[i] = q[i]
      <4>1. \A i \in 1 .. n : q[i] \in Char
        BY <3>3, <3>4, ElementOfSeq
      <4>. QED
        BY <4>1, SubSeqProperties
    <3>9. Len(p) + Len(t) = n
      BY <3>3, <3>4, <3>5
    <3>10. ASSUME NEW i \in 1 .. n
           PROVE  (p \o t)[i] = SubSeq(q, 1, n)[i]
      <4>1. q[i] = chars[i].c
        BY <3>3, <3>4
      <4>2. CASE i <= Len(p)
        <5>1. i \in 1 .. b - 1
          BY <3>3, <3>4, <3>5, <4>2
        <5>. QED
          BY <3>5, <3>7, <3>8, <3>9, <4>1, <4>2, <5>1
      <4>3. CASE ~ (i <= Len(p))
        <5>1. PICK j \in 1 .. Len(t) : j = i - Len(p)
          <6>1. PICK l \in Nat, m \in Nat : l = Len(p) /\ m = Len(t)
            BY <3>3
          <6>2. i \in 1 .. l + m /\ i > l
            BY <3>9, <4>3, <6>1
          <6>3. i - l \in 1 .. m
            BY <6>2
          <6>. QED
            BY <6>1, <6>3
        <5>2. b + j - 1 = i
          BY <3>3, <3>4, <3>5, <5>1
        <5>3. t[j] = chars[i].c
          BY <3>6, <5>2
        <5>. QED
          BY <3>7, <3>8, <3>9, <4>1, <4>3, <5>1, <5>3
      <4>. QED
        BY <4>2, <4>3
    <3>11. p \o t = SubSeq(q, 1, n)
      BY <3>7, <3>8, <3>9, <3>10, SeqEqual
    <3>. QED
      BY <3>2, <3>11
  <2>. QED
    BY <2>1, <2>2
<1>. QED
  BY <1>1, WindowInvHolds, PTL

\* The windows print the transcript, whatever times and speakers the tokens
\* have, wherever the cumulative decode only appends: laying text out by tokens
\* or by segments gives the same characters ("concatenated text is IDENTICAL
\* either way", src/src/main.cpp).
THEOREM WindowsPrintTheTranscript == Spec => []SameTextEitherWay
<1>1. WindowInv => SameTextEitherWay
  <2>. SUFFICES ASSUME WindowInv, pc = "printed", Reproduces(report)
                PROVE  Printed = Transcript(report)
    BY DEF SameTextEitherWay
  <2>1. /\ chars \in Seq(Cell) /\ Laid(win, chars, Len(win), Begin) /\ buf.text = <<>>
        /\ next = Len(chars) + 1 /\ Spelled(chars) = Transcript(report)
    BY DEF WindowInv, Grouping
  <2>2. PICK p \in Seq(Char), q \in Seq(Char) : p = Printed /\ q = Said
    BY <2>1, LinesFacts, SaidFacts
  <2>3. Len(q) = Len(chars) /\ Len(q) \in Nat /\ \A k \in 1 .. Len(q) : q[k] = chars[k].c
    BY <2>1, <2>2, SaidFacts, LenProperties
  <2>4. Begin - 1 = Len(q)
    <3>1. Len(buf.text) = 0
      BY <2>1, EmptySeq
    <3>2. Begin = next - 0
      BY <3>1 DEF Begin
    <3>3. next = Len(q) + 1
      BY <2>1, <2>3
    <3>. QED
      BY <2>3, <3>2, <3>3
  <2>5. Len(p) = Len(q) /\ \A k \in 1 .. Len(q) : p[k] = chars[k].c
    BY <2>1, <2>2, <2>4, LinesFacts DEF Laid
  <2>6. p = q
    BY <2>3, <2>5, SeqEqual
  <2>. QED
    BY <2>1, <2>2, <2>6, SaidFacts
<1>. QED
  BY <1>1, WindowInvHolds, PTL

\* No line ends inside a word that the next line goes on with: main flushes the
\* open unit where a word ends, and never inside one.
THEOREM NoWordIsCut == Spec => []WordsNeverCut
<1>1. WindowInv => WordsNeverCut
  <2>. SUFFICES ASSUME WindowInv
                PROVE  WordsNeverCut
    OBVIOUS
  <2>1. CASE pc = "decode"
    <3>1. Lines = <<>>
      BY <2>1, LinesFacts
    <3>2. Len(Lines) = 0
      BY <3>1, EmptySeq
    <3>. QED
      BY <3>2 DEF WordsNeverCut
  <2>2. CASE pc # "decode"
    <3>1. WholeWords(Lines)
      BY <2>2, LinesFacts DEF WindowInv, Grouping, Laid
    <3>. QED
      BY <3>1 DEF WordsNeverCut, WholeWords
  <2>. QED
    BY <2>1, <2>2
<1>. QED
  BY <1>1, WindowInvHolds, PTL

\* A character is printed in the window of its own time and under its own
\* speaker, or it trails the one before it into an earlier window.
THEOREM CharactersStayInPlace == Spec => []MovedOnlyWithItsWord
<1>1. WindowInv => MovedOnlyWithItsWord
  <2>. SUFFICES ASSUME WindowInv, pc # "decode", NEW k \in DOMAIN Place
                PROVE  \/ Place[k] = [window |-> WindowAt(chars[k].at), label |-> chars[k].label]
                       \/ /\ k > 1 /\ chars[k].c \notin Wide
                          /\ Place[k] = Place[k - 1]
                          /\ Place[k].window <= WindowAt(chars[k].at)
    BY DEF MovedOnlyWithItsWord
  <2>1. Laid(win, chars, Len(win), Begin)
    BY DEF WindowInv, Grouping
  <2>2. Place = PlacesOf(LinesOf(win)) /\ DOMAIN Place = 1 .. Len(Place)
    BY LinesFacts, LenProperties
  <2>3. Rightly(Place, chars, Len(win), k)
    BY <2>1, <2>2 DEF Laid
  <2>4. WindowAt(chars[k].at) = WinOf(chars[k].at, Len(win))
    BY DEF WindowAt, WinOf
  <2>. QED
    BY <2>3, <2>4 DEF Rightly
<1>. QED
  BY <1>1, WindowInvHolds, PTL

=============================================================================
