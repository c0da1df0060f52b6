----------------------- MODULE AttributionLoopProofs -----------------------
(***************************************************************************)
(* Theorems about AttributionLoop, for any text, any turn list and any gap *)
(* policy: the numbers of the segments, and when text gets a label.        *)
(***************************************************************************)
EXTENDS AttributionLoop, AttributionProofs

Chars == Range(text)

-----------------------------------------------------------------------------
(* The inductive invariant *)

\* The setting in which the policy promises a label for every text.
Promised ==
  /\ turns # <<>>
  /\ \A i \in DOMAIN turns : turns[i].speaker # NoLabel
  /\ Boundless(gap)

\* The labels a verdict may have in this setting.
Given == IF Promised THEN Label \ {NoLabel} ELSE Label

Inputs ==
  /\ turns \in Seq(Turn) /\ gap \in GapPolicy
  /\ text \in Seq(Chars) /\ spans \in Seq(Span) /\ Len(spans) = Len(text)
  /\ \A k \in DOMAIN spans : spans[k].start < spans[k].end

Verdicts ==
  phase # "mark" => \A k \in DOMAIN text : marks[k] \in [speaker : Given, snapped : BOOLEAN]

Pieces ==
  /\ at \in Nat \ {0}
  /\ pieces \in Seq(PieceOf(Given, BOOLEAN, Chars))
  /\ taken \in 0 .. Len(pieces)

\* The pass is in its loop or has its segments closed; it has left nothing
\* without a label in a setting that promises one.
Pass ==
  /\ phase # "done" => InLoop(pass, Chars)
  /\ phase = "done" => Tidy(pass, Chars) /\ pass.closed = Segments(pass)
  /\ Promised => pass.unattributed = 0 /\ AllLabelled(Segments(pass))

LInv == Inputs /\ Verdicts /\ Pieces /\ Pass

\* A pass starts with nothing marked, cut or taken.
LEMMA InitHolds == Init => LInv
<1>. SUFFICES ASSUME Init PROVE LInv
  OBVIOUS
<1>1. PICK split \in 0 .. Len(text), h1 \in Horizons, h2 \in Horizons :
        spans = Placed(split, 0, h1, FALSE) \o Placed(Len(text) - split, h1, h2, FALSE)
  BY DEF Init
<1>2. text \in Seq(Chars) /\ turns \in Seq(Turn) /\ gap \in GapPolicy /\ h1 \in Nat /\ h2 \in Nat
  BY InputAssumption DEF Init, Chars
<1>3. Len(text) \in Nat /\ split \in Nat /\ Len(text) - split \in Nat /\ 0 \in Nat
  BY <1>2, LenProperties
<1>. DEFINE a == Placed(split, 0, h1, FALSE)
            b == Placed(Len(text) - split, h1, h2, FALSE)
<1>4. /\ a \in Seq(Span) /\ Len(a) = split
      /\ b \in Seq(Span) /\ Len(b) = Len(text) - split
      /\ \A k \in 1 .. Len(a) : a[k].start < a[k].end
      /\ \A k \in 1 .. Len(b) : b[k].start < b[k].end
  BY <1>2, <1>3, PlacedFacts
<1>. HIDE DEF a, b
<1>5. /\ a \o b \in Seq(Span) /\ Len(a \o b) = Len(text) /\ DOMAIN (a \o b) = 1 .. Len(a) + Len(b)
      /\ \A k \in 1 .. Len(a) : (a \o b)[k] = a[k]
      /\ \A k \in Len(a) + 1 .. Len(a) + Len(b) :
           k - Len(a) \in 1 .. Len(b) /\ (a \o b)[k] = b[k - Len(a)]
  <2>1. a \in Seq(Span) /\ b \in Seq(Span)
    BY <1>4
  <2>2. /\ a \o b \in Seq(Span) /\ Len(a \o b) = Len(a) + Len(b)
        /\ DOMAIN (a \o b) = 1 .. Len(a) + Len(b)
        /\ \A k \in 1 .. Len(a) : (a \o b)[k] = a[k]
        /\ \A k \in Len(a) + 1 .. Len(a) + Len(b) :
             k - Len(a) \in 1 .. Len(b) /\ (a \o b)[k] = b[k - Len(a)]
    BY ONLY <2>1, SpansJoined
  <2>3. Len(a) + Len(b) = Len(text)
    BY <1>3, <1>4
  <2>. QED
    BY <2>2, <2>3
<1>6. \A k \in DOMAIN (a \o b) : (a \o b)[k].start < (a \o b)[k].end
  <2>. SUFFICES ASSUME NEW k \in DOMAIN (a \o b)
                PROVE  (a \o b)[k].start < (a \o b)[k].end
    OBVIOUS
  <2>1. k \in 1 .. Len(a) \/ k \in Len(a) + 1 .. Len(a) + Len(b)
    BY <1>3, <1>4, <1>5
  <2>. QED
    BY <1>4, <1>5, <2>1
<1>7. spans = a \o b
  BY <1>1 DEF a, b
<1>8. Inputs
  BY <1>2, <1>5, <1>6, <1>7 DEF Inputs
<1>9. phase = "mark" /\ at = 1 /\ pieces = <<>> /\ taken = 0 /\ pass = StartOfPass(<<>>)
  BY DEF Init
<1>10. Pieces
  BY <1>9, EmptySeq DEF Pieces
<1>11. pass.unattributed = 0 /\ Segments(pass) = <<>>
  BY <1>9 DEF StartOfPass, NoSegment, Segments
<1>12. Pass
  BY <1>9, <1>11, StartFacts DEF Pass, AllLabelled
<1>. QED
  BY <1>8, <1>9, <1>10, <1>12 DEF LInv, Verdicts

-----------------------------------------------------------------------------
(* The steps *)

\* Every character gets a verdict, and one with a label if that is promised.
LEMMA MarkingFacts ==
  ASSUME Inputs, NEW k \in DOMAIN text
  PROVE  Marks(turns, spans, gap)[k] \in [speaker : Given, snapped : BOOLEAN]
<1>. DEFINE t == spans[k].start
            dur == spans[k].end - spans[k].start
            c == Covering(turns, t, dur, gap)
<1>1. /\ Len(spans) \in Nat /\ DOMAIN spans = 1 .. Len(spans) /\ k \in DOMAIN spans
      /\ spans[k].start \in Nat /\ spans[k].end \in Nat /\ spans[k].start < spans[k].end
  <2>1. /\ spans \in Seq(Span) /\ text \in Seq(Chars) /\ Len(spans) = Len(text)
        /\ \A i \in DOMAIN spans : spans[i].start < spans[i].end
    BY DEF Inputs
  <2>2. DOMAIN text = 1 .. Len(text)
    BY <2>1, LenProperties
  <2>. QED
    BY <2>1, <2>2, SpansFacts
<1>2. t \in Nat /\ dur \in Nat
  BY <1>1
<1>3. turns \in Seq(Turn) /\ gap \in GapPolicy
  BY DEF Inputs
<1>. HIDE DEF t, dur
<1>4. /\ c.turn \in DOMAIN turns \cup {NoTurn} /\ c.snapped \in BOOLEAN
      /\ turns # <<>> /\ Boundless(gap) => c.turn \in DOMAIN turns
  BY <1>2, <1>3, CoveringFacts
<1>. HIDE DEF c
<1>5. 0 \notin DOMAIN turns /\ \A i \in DOMAIN turns : turns[i].speaker \in Label
  BY <1>3, TurnListFacts
<1>. DEFINE s == IF c.turn = NoTurn THEN NoLabel ELSE turns[c.turn].speaker
<1>6. s \in Given
  BY <1>4, <1>5 DEF Given, Promised, NoTurn, Label
<1>7. Marks(turns, spans, gap)[k] = [speaker |-> s, snapped |-> c.snapped]
  BY <1>1 DEF Marks, c, t, dur
<1>. QED
  BY <1>4, <1>6, <1>7

\* The verdict on a unit is one of those of its characters.
LEMMA WinnerGiven ==
  ASSUME LInv, phase = "tag", at <= Len(text)
  PROVE  LET last == UnitEnd(text, at)
             w == Winner(marks, at, last)
         IN  w.speaker \in Given /\ w.snapped \in BOOLEAN
<1>. DEFINE last == UnitEnd(text, at)
            w == Winner(marks, at, last)
<1>1. /\ text \in Seq(Chars) /\ at \in Nat \ {0}
      /\ \A k \in DOMAIN text : marks[k] \in [speaker : Given, snapped : BOOLEAN]
  BY DEF LInv, Inputs, Verdicts, Pieces
<1>2. Len(text) \in Nat /\ DOMAIN text = 1 .. Len(text) /\ at \in 1 .. Len(text)
  BY <1>1, LenProperties
<1>3. last \in at .. Len(text)
  BY <1>1, <1>2, UnitEndFacts
<1>. HIDE DEF last
<1>4. Given \subseteq Nat
  BY TurnsAssumption DEF Given, Label, NoLabel
<1>5. at \in Nat /\ last \in Nat /\ at <= last /\ at .. last \subseteq DOMAIN text
  BY <1>1, <1>2, <1>3
<1>6. \A k \in at .. last : marks[k] \in [speaker : Nat, snapped : BOOLEAN]
  BY <1>1, <1>4, <1>5
<1>7. w \in {marks[k] : k \in at .. last}
  BY <1>5, <1>6, WinnerFacts
<1>. QED
  BY <1>1, <1>5, <1>7 DEF last

\* A unit put behind the pieces leaves pieces.
LEMMA UnitFacts ==
  ASSUME LInv, phase = "tag", at <= Len(text)
  PROVE  LET last == UnitEnd(text, at)
         IN  /\ last + 1 \in Nat \ {0}
             /\ PutUnit(pieces, text, marks, at, last) \in Seq(PieceOf(Given, BOOLEAN, Chars))
<1>. DEFINE last == UnitEnd(text, at)
<1>1. /\ text \in Seq(Chars) /\ pieces \in Seq(PieceOf(Given, BOOLEAN, Chars)) /\ at \in Nat \ {0}
  BY DEF LInv, Inputs, Pieces
<1>2. Len(text) \in Nat /\ at \in 1 .. Len(text)
  BY <1>1, LenProperties
<1>3. last \in at .. Len(text)
  BY <1>1, <1>2, UnitEndFacts
<1>4. Winner(marks, at, last).speaker \in Given /\ Winner(marks, at, last).snapped \in BOOLEAN
  BY WinnerGiven
<1>. HIDE DEF last
<1>5. PutUnit(pieces, text, marks, at, last) \in Seq(PieceOf(Given, BOOLEAN, Chars))
  BY <1>1, <1>2, <1>3, <1>4, PutUnitTyped
<1>. QED
  BY <1>1, <1>3, <1>5 DEF last

\* Every loop of the pass hands the next one what that one expects.
LEMMA StepKeepsLInv ==
  ASSUME LInv, [Next]_vars
  PROVE  LInv'
<1>1. CASE MarkCharacters
  <2>1. /\ phase = "mark" /\ phase' = "tag" /\ marks' = Marks(turns, spans, gap)
        /\ UNCHANGED <<turns, gap, text, spans, at, pieces, taken, pass>>
    BY <1>1 DEF MarkCharacters, inputs
  <2>2. UNCHANGED <<Given, Promised, Chars>>
    BY <2>1 DEF Given, Promised, Chars
  <2>3. Verdicts'
    BY <2>1, <2>2, MarkingFacts DEF Verdicts, LInv
  <2>. QED
    BY <2>1, <2>2, <2>3 DEF LInv, Inputs, Pieces, Pass
<1>2. CASE TagUnit
  <2>1. /\ phase = "tag" /\ at <= Len(text)
        /\ pieces' = PutUnit(pieces, text, marks, at, UnitEnd(text, at))
        /\ at' = UnitEnd(text, at) + 1
        /\ UNCHANGED <<turns, gap, text, spans, marks, taken, pass, phase>>
    BY <1>2 DEF TagUnit, inputs
  <2>2. UNCHANGED <<Given, Promised, Chars>>
    BY <2>1 DEF Given, Promised, Chars
  <2>3. at' \in Nat \ {0} /\ pieces' \in Seq(PieceOf(Given, BOOLEAN, Chars))
    BY <2>1, UnitFacts
  <2>4. taken \in Nat /\ taken <= Len(pieces) /\ Len(pieces) \in Nat
    BY DEF LInv, Pieces
  <2>5. Len(pieces') >= Len(pieces) /\ Len(pieces') \in Nat
    <3>1. pieces \in Seq(PieceOf(Given, BOOLEAN, Chars))
      BY DEF LInv, Pieces
    <3>2. \E p : pieces' = Append(pieces, p) \/ pieces' = [pieces EXCEPT ![Len(pieces)] = p]
      BY <2>1 DEF PutUnit
    <3>. QED
      BY <2>3, <3>1, <3>2
  <2>6. Pieces'
    BY <2>1, <2>2, <2>3, <2>4, <2>5 DEF Pieces
  <2>. QED
    BY <2>1, <2>2, <2>6 DEF LInv, Inputs, Verdicts, Pass
<1>3. CASE TaggingDone
  <2>1. /\ phase = "tag" /\ phase' = "segment"
        /\ UNCHANGED <<turns, gap, text, spans, marks, at, pieces, taken, pass>>
    BY <1>3 DEF TaggingDone, inputs
  <2>2. UNCHANGED <<Given, Promised, Chars>>
    BY <2>1 DEF Given, Promised, Chars
  <2>. QED
    BY <2>1, <2>2 DEF LInv, Inputs, Verdicts, Pieces, Pass
<1>4. CASE TakeNextPiece
  <2>1. /\ phase = "segment" /\ taken < Len(pieces) /\ taken' = taken + 1
        /\ pass' = TakePiece(pass, pieces[taken'])
        /\ UNCHANGED <<turns, gap, text, spans, marks, at, pieces, phase>>
    BY <1>4 DEF TakeNextPiece, inputs
  <2>2. UNCHANGED <<Given, Promised, Chars>>
    BY <2>1 DEF Given, Promised, Chars
  <2>3. /\ pieces \in Seq(PieceOf(Given, BOOLEAN, Chars)) /\ taken \in 0 .. Len(pieces)
        /\ InLoop(pass, Chars)
    BY <2>1 DEF LInv, Pieces, Pass
  <2>4. taken' \in 1 .. Len(pieces)
    BY <2>1, <2>3
  <2>. DEFINE p == pieces[taken']
  <2>5. p.text \in Seq(Chars) \ {<<>>} /\ p.speaker \in Given
    <3>1. PICK i \in 1 .. Len(pieces) : i = taken'
      BY <2>4
    <3>2. pieces[i] \in PieceOf(Given, BOOLEAN, Chars)
      BY <2>3, ElementOfSeq
    <3>. QED
      BY <3>1, <3>2 DEF PieceOf
  <2>. HIDE DEF p
  <2>6. InLoop(TakePiece(pass, p), Chars)
    BY <2>3, <2>5, TakePieceFacts
  <2>7. Promised => /\ TakePiece(pass, p).unattributed = 0
                    /\ AllLabelled(Segments(TakePiece(pass, p)))
    BY <2>3, <2>5, LabelledPieceFacts DEF LInv, Pass, Given
  <2>8. Pass'
    BY <2>1, <2>2, <2>6, <2>7 DEF Pass, p
  <2>9. Pieces'
    BY <2>1, <2>2, <2>3, <2>4 DEF Pieces, LInv
  <2>. QED
    BY <2>1, <2>2, <2>8, <2>9 DEF LInv, Inputs, Verdicts
<1>5. CASE CloseLast
  <2>1. /\ phase = "segment" /\ phase' = "done" /\ pass' = CloseOpen(pass)
        /\ UNCHANGED <<turns, gap, text, spans, marks, at, pieces, taken>>
    BY <1>5 DEF CloseLast, inputs
  <2>2. UNCHANGED <<Given, Promised, Chars>>
    BY <2>1 DEF Given, Promised, Chars
  <2>3. Tidy(pass, Chars)
    BY <2>1 DEF LInv, Pass, InLoop
  <2>4. /\ Tidy(pass', Chars) /\ pass'.closed = Segments(pass) /\ Segments(pass') = Segments(pass)
        /\ pass'.unattributed = pass.unattributed
    BY <2>1, <2>3, CloseFacts
  <2>5. Pass'
    BY <2>1, <2>2, <2>4 DEF LInv, Pass
  <2>. QED
    BY <2>1, <2>2, <2>5 DEF LInv, Inputs, Verdicts, Pieces
<1>6. CASE UNCHANGED vars
  <2>1. UNCHANGED <<Given, Promised, Chars>>
    BY <1>6 DEF Given, Promised, Chars, vars
  <2>. QED
    BY <1>6, <2>1 DEF LInv, Inputs, Verdicts, Pieces, Pass, vars
<1>. QED
  BY <1>1, <1>2, <1>3, <1>4, <1>5, <1>6 DEF Next, Done

\* The invariant holds throughout a pass.
LEMMA InductiveInvariant == Spec => []LInv
BY InitHolds, StepKeepsLInv, PTL DEF Spec

-----------------------------------------------------------------------------
(* The theorems *)

\* The closed segments are the first ones of the pass; the numbers among them
\* are those of Numbered.
LEMMA ClosedFacts ==
  ASSUME LInv
  PROVE  \E L : /\ pass \in PassState(L, Chars) /\ Numbered(Segments(pass), pass.ids)
                /\ Segments(pass) \in Seq(SegmentOf(L, Chars))
                /\ DOMAIN pass.closed \subseteq DOMAIN Segments(pass)
                /\ \A n \in DOMAIN pass.closed : Segments(pass)[n] = pass.closed[n]
<1>1. PICK L : pass \in PassState(L, Chars) /\ Numbered(Segments(pass), pass.ids)
  BY DEF LInv, Pass, InLoop, Tidy
<1>2. Segments(pass) \in Seq(SegmentOf(L, Chars))
  BY <1>1, SegmentsFacts
<1>3. pass.closed \in Seq(SegmentOf(L, Chars))
      /\ (pass.open.text # <<>> => pass.open \in SegmentOf(L, Chars))
  BY <1>1 DEF PassState, SegmentOf
<1>4. /\ DOMAIN pass.closed \subseteq DOMAIN Segments(pass)
      /\ \A n \in DOMAIN pass.closed : Segments(pass)[n] = pass.closed[n]
  <2>1. pass.open.text = <<>> => Segments(pass) = pass.closed
    BY DEF Segments
  <2>2. pass.open.text # <<>> => Segments(pass) = Append(pass.closed, pass.open)
    BY DEF Segments
  <2>. QED
    BY <1>3, <2>1, <2>2, AppendProperties, LenProperties
<1>. QED
  BY <1>1, <1>2, <1>4

\* The numbers of the segments are those of the labels seen so far.
LEMMA LInvNumbers == LInv => Numbering /\ OnlyTheFirstUnlabelled
<1>. SUFFICES ASSUME LInv PROVE Numbering /\ OnlyTheFirstUnlabelled
  OBVIOUS
<1>. DEFINE segs == Segments(pass)
            closed == pass.closed
            ids == pass.ids
            k == Len(segs)
<1>1. PICK L : /\ pass \in PassState(L, Chars) /\ Numbered(segs, ids)
               /\ segs \in Seq(SegmentOf(L, Chars))
               /\ DOMAIN closed \subseteq DOMAIN segs
               /\ \A n \in DOMAIN closed : segs[n] = closed[n]
  BY ClosedFacts
<1>2. ids \in Seq(L) /\ closed \in Seq(SegmentOf(L, Chars))
  BY <1>1 DEF PassState
<1>3. /\ k \in Nat /\ DOMAIN segs = 1 .. k
      /\ DOMAIN closed = 1 .. Len(closed) /\ Len(closed) \in Nat
      /\ DOMAIN ids = 1 .. Len(ids) /\ Len(ids) \in Nat
  BY <1>1, <1>2, LenProperties
<1>. HIDE DEF segs, closed, ids, k
<1>4. Len(closed) <= k
  BY <1>1, <1>3
<1>5. ASSUME NEW n \in DOMAIN closed, closed[n].id # NoLabel
      PROVE  /\ \E p \in DOMAIN ids : ids[p] = closed[n].id /\ closed[n].speaker = p - 1
             /\ \A m \in DOMAIN closed : closed[m].id = closed[n].id =>
                  closed[m].speaker = closed[n].speaker
             /\ (\A m \in 1 .. n - 1 : closed[m].id # closed[n].id) =>
                  closed[n].speaker = Cardinality(LabelsOf(closed, n - 1))
  <2>1. /\ n \in 1 .. k /\ n \in DOMAIN segs /\ segs[n] = closed[n] /\ segs[n].id # NoLabel
    BY <1>1, <1>3, <1>5
  <2>2. PICK p \in DOMAIN ids : ids[p] = closed[n].id /\ closed[n].speaker = p - 1
    BY <1>1, <2>1 DEF Numbered
  <2>3. ASSUME NEW m \in DOMAIN closed, closed[m].id = closed[n].id
        PROVE  closed[m].speaker = closed[n].speaker
    <3>1. m \in DOMAIN segs /\ segs[m] = closed[m] /\ segs[m].id # NoLabel
      BY <1>1, <1>5, <2>3
    <3>2. PICK q \in DOMAIN ids : ids[q] = closed[m].id /\ closed[m].speaker = q - 1
      BY <1>1, <3>1 DEF Numbered
    <3>3. q = p
      BY <1>1, <2>2, <2>3, <3>2 DEF Numbered
    <3>. QED
      BY <2>2, <3>2, <3>3
  <2>4. ASSUME \A m \in 1 .. n - 1 : closed[m].id # closed[n].id
        PROVE  closed[n].speaker = Cardinality(LabelsOf(closed, n - 1))
    <3>1. \A m \in 1 .. n - 1 : m \in DOMAIN closed /\ segs[m] = closed[m]
      BY <1>1, <1>3
    <3>2. FirstOfLabel(segs, n, n)
      BY <2>1, <2>4, <3>1 DEF FirstOfLabel
    <3>3. LabelsOf(segs, n - 1) = LabelsOf(closed, n - 1)
      BY <3>1 DEF LabelsOf
    <3>4. \A f \in 1 .. k : FirstOfLabel(segs, n, f) =>
            segs[n].speaker = Cardinality(LabelsOf(segs, f - 1))
      BY <1>1, <1>2, <1>3, <2>1, NumbersCount
    <3>. QED
      BY <2>1, <3>2, <3>3, <3>4
  <2>. QED
    BY <2>2, <2>3, <2>4
<1>6. ASSUME NEW n \in DOMAIN closed, closed[n].id # NoLabel
      PROVE  closed[n].speaker =
               IF \E m \in 1 .. n - 1 : closed[m].id = closed[n].id
               THEN closed[CHOOSE m \in 1 .. n - 1 : closed[m].id = closed[n].id].speaker
               ELSE Cardinality({closed[m].id : m \in 1 .. n - 1} \ {NoLabel})
  <2>1. CASE \E m \in 1 .. n - 1 : closed[m].id = closed[n].id
    <3>. DEFINE g == CHOOSE m \in 1 .. n - 1 : closed[m].id = closed[n].id
    <3>1. g \in 1 .. n - 1 /\ closed[g].id = closed[n].id
      BY <2>1
    <3>. HIDE DEF g
    <3>2. g \in DOMAIN closed
      BY <1>3, <3>1
    <3>3. closed[n].speaker = closed[g].speaker
      BY <1>5, <1>6, <3>1, <3>2
    <3>. QED
      BY <2>1, <3>3 DEF g
  <2>2. CASE ~ \E m \in 1 .. n - 1 : closed[m].id = closed[n].id
    <3>1. closed[n].speaker = Cardinality(LabelsOf(closed, n - 1))
      BY <1>5, <1>6, <2>2
    <3>. QED
      BY <2>2, <3>1 DEF LabelsOf
  <2>. QED
    BY <2>1, <2>2
<1>7. Numbering
  BY <1>6 DEF Numbering, NumberedByAppearance, closed
<1>8. ASSUME NEW n \in 2 .. Len(closed)
      PROVE  closed[n].speaker # Unattributed
  <2>1. n \in DOMAIN closed /\ n # 1
    BY <1>3
  <2>2. closed[n].id # NoLabel
    BY <1>1, <2>1 DEF Numbered
  <2>3. PICK p \in DOMAIN ids : closed[n].speaker = p - 1
    BY <1>5, <2>1, <2>2
  <2>. QED
    BY <1>3, <2>3 DEF Unattributed
<1>9. OnlyTheFirstUnlabelled
  BY <1>8 DEF OnlyTheFirstUnlabelled, closed
<1>. QED
  BY <1>7, <1>9

\* Numbers are given in order of first appearance, at every point of the loop
\* (engine.cpp:417).
THEOREM NumbersAreInOrder == Spec => []Numbering
BY InductiveInvariant, LInvNumbers, PTL

\* A segment without a speaker can only be the first one (engine.cpp:434-438).
THEOREM UnlabelledComesFirst == Spec => []OnlyTheFirstUnlabelled
BY InductiveInvariant, LInvNumbers, PTL

\* A gap policy without a bound leaves no text untagged, once there is a turn
\* and the diarizer labels its turns (fusion.cpp:142).
LEMMA LInvTags == LInv => NeverUntagged
<1>. SUFFICES ASSUME LInv, phase = "done", turns # <<>>,
                     \A i \in DOMAIN turns : turns[i].speaker # NoLabel,
                     gap.snap = 0 \/ gap.fill = "previous"
              PROVE  /\ pass.unattributed = 0
                     /\ \A n \in DOMAIN pass.closed : pass.closed[n].speaker # Unattributed
  BY DEF NeverUntagged
<1>1. Promised
  BY DEF Promised, Boundless
<1>2. pass.unattributed = 0 /\ AllLabelled(Segments(pass)) /\ pass.closed = Segments(pass)
  BY <1>1 DEF LInv, Pass
<1>3. PICK L : pass \in PassState(L, Chars) /\ Numbered(pass.closed, pass.ids)
  BY <1>2, ClosedFacts
<1>4. pass.ids \in Seq(L)
  BY <1>3 DEF PassState
<1>5. DOMAIN pass.ids = 1 .. Len(pass.ids) /\ Len(pass.ids) \in Nat
  BY <1>4, LenProperties
<1>6. \A n \in DOMAIN pass.closed : \E p \in DOMAIN pass.ids : pass.closed[n].speaker = p - 1
  BY <1>2, <1>3 DEF AllLabelled, Numbered
<1>. QED
  BY <1>2, <1>5, <1>6 DEF Unattributed

\* The tolerance 0 is "always nearest, never leave text untagged"
\* (fusion.cpp:142), and the previous speaker is always there.
THEOREM NothingStaysUntagged == Spec => []NeverUntagged
BY InductiveInvariant, LInvTags, PTL

-----------------------------------------------------------------------------
(* Where everything is *)

\* What the phases have in common with each other.
Order ==
  /\ phase \in {"mark", "tag", "segment", "done"}
  /\ at \in 1 .. Len(text) + 1
  /\ marks = IF phase = "mark" THEN <<>> ELSE Marks(turns, spans, gap)
  /\ phase \in {"mark", "tag"} => taken = 0 /\ Segments(pass) = <<>>
  /\ phase = "mark" => at = 1 /\ pieces = <<>>
  /\ phase \in {"segment", "done"} => at = Len(text) + 1
  /\ phase = "done" => taken = Len(pieces)

\* The pieces hold the text in front of `at`, unit by unit.
Cuts ==
  /\ Joined(pieces) = SubSeq(text, 1, at - 1)
  /\ UnitBorder(text, at - 1)
  /\ BordersOf(pieces, text) /\ UnitsIn(pieces, text, marks, at - 1)

\* The segments hold the pieces taken.
Taken == Follows(Segments(pass), pass.unattributed, pieces, taken)

PInv == Order /\ Cuts /\ Taken

\* What the earlier invariant says of the text and the pieces.
LEMMA Facts ==
  ASSUME LInv
  PROVE  /\ text \in Seq(Chars) /\ Len(text) \in Nat /\ DOMAIN text = 1 .. Len(text)
         /\ pieces \in Seq(PieceOf(Given, BOOLEAN, Chars))
         /\ Len(pieces) \in Nat /\ taken \in 0 .. Len(pieces)
         /\ HasTexts(pieces, Chars) /\ HasTexts(Segments(pass), Chars)
         /\ phase # "done" => InLoop(pass, Chars)
         /\ phase = "done" => pass.closed = Segments(pass)
<1>1. /\ text \in Seq(Chars) /\ pieces \in Seq(PieceOf(Given, BOOLEAN, Chars))
      /\ taken \in 0 .. Len(pieces)
      /\ phase # "done" => InLoop(pass, Chars)
      /\ phase = "done" => pass.closed = Segments(pass)
  BY DEF LInv, Inputs, Pieces, Pass
<1>2. /\ Len(text) \in Nat /\ DOMAIN text = 1 .. Len(text) /\ Len(pieces) \in Nat
      /\ HasTexts(pieces, Chars)
  BY <1>1, LenProperties, PiecesHaveTexts
<1>3. HasTexts(Segments(pass), Chars)
  <2>1. PICK L : Segments(pass) \in Seq(SegmentOf(L, Chars))
    BY ClosedFacts
  <2>. QED
    BY <2>1, PiecesHaveTexts
<1>. QED
  BY <1>1, <1>2, <1>3

\* At the start nothing is cut and nothing is taken.
LEMMA InitPlaced ==
  ASSUME Init, LInv
  PROVE  PInv
<1>1. /\ phase = "mark" /\ at = 1 /\ pieces = <<>> /\ taken = 0 /\ pass = StartOfPass(<<>>)
      /\ marks = <<>>
  BY DEF Init
<1>2. pass.unattributed = 0 /\ Segments(pass) = <<>>
  BY <1>1 DEF StartOfPass, NoSegment, Segments
<1>3. Order
  BY <1>1, <1>2, Facts DEF Order
<1>4. Cuts
  <2>1. End(pieces, 0) = 0 /\ Len(pieces) = 0 /\ Joined(pieces) = <<>>
    BY <1>1, Facts, EndStep, JoinedTyped
  <2>2. SubSeq(text, 1, 0) = <<>>
    BY SubSeqEmpty
  <2>3. UnitBorder(text, 0)
    BY DEF UnitBorder
  <2>4. at - 1 = 0
    BY <1>1
  <2>5. BordersOf(pieces, text)
    BY <2>1, <2>3 DEF BordersOf
  <2>6. UnitsIn(pieces, text, marks, 0)
    BY DEF UnitsIn
  <2>. QED
    BY <2>1, <2>2, <2>3, <2>4, <2>5, <2>6 DEF Cuts
<1>5. Taken
  <2>1. pieces \in Seq(PieceOf(Given, BOOLEAN, Chars))
    BY Facts
  <2>2. Follows(<<>>, 0, pieces, 0)
    BY <2>1, NoneTaken
  <2>. QED
    BY <1>1, <1>2, <2>2 DEF Taken
<1>. QED
  BY <1>3, <1>4, <1>5 DEF PInv

\* A unit put behind the pieces leaves no character between them and `at`.
LEMMA TagKeepsPlaces ==
  ASSUME LInv, PInv, TagUnit, LInv'
  PROVE  PInv'
<1>. DEFINE last == UnitEnd(text, at)
<1>1. /\ phase = "tag" /\ at <= Len(text)
      /\ pieces' = PutUnit(pieces, text, marks, at, last)
      /\ at' = last + 1
      /\ UNCHANGED <<turns, gap, text, spans, marks, taken, pass, phase>>
  BY DEF TagUnit, inputs
<1>2. /\ text \in Seq(Chars) /\ Len(text) \in Nat /\ DOMAIN text = 1 .. Len(text)
      /\ pieces \in Seq(PieceOf(Given, BOOLEAN, Chars))
      /\ at \in 1 .. Len(text)
  <2>1. at \in 1 .. Len(text) + 1
    BY DEF PInv, Order
  <2>. QED
    BY <1>1, <2>1, Facts
<1>3. last \in at .. Len(text)
  BY <1>2, UnitEndFacts
<1>4. Winner(marks, at, last).speaker \in Given /\ Winner(marks, at, last).snapped \in BOOLEAN
  BY <1>1, WinnerGiven
<1>5. /\ Joined(pieces') = SubSeq(text, 1, last) /\ UnitBorder(text, last)
      /\ BordersOf(pieces', text) /\ UnitsIn(pieces', text, marks, last)
  <2>1. /\ Joined(pieces) = SubSeq(text, 1, at - 1) /\ UnitBorder(text, at - 1)
        /\ BordersOf(pieces, text) /\ UnitsIn(pieces, text, marks, at - 1)
    BY DEF PInv, Cuts
  <2>. QED
    BY <1>1, <1>2, <1>4, <2>1, UnitsGrow
<1>6. at' - 1 = last /\ at' \in 1 .. Len(text) + 1
  BY <1>1, <1>2, <1>3
<1>. HIDE DEF last
<1>7. Cuts'
  BY <1>1, <1>5, <1>6 DEF Cuts
<1>8. Order'
  BY <1>1, <1>6 DEF PInv, Order
<1>9. taken = 0 /\ Segments(pass) = <<>> /\ pass.unattributed = 0
  <2>1. taken = 0 /\ Segments(pass) = <<>>
    BY <1>1 DEF PInv, Order
  <2>2. pass.unattributed = Cardinality(Unlabelled(pieces, 0))
    BY <2>1 DEF PInv, Taken, Follows
  <2>3. Cardinality(Unlabelled(pieces, 0)) = 0
    BY <1>2, NoneTaken
  <2>. QED
    BY <2>1, <2>2, <2>3
<1>10. Taken'
  <2>1. PICK ps \in Seq(PieceOf(Given, BOOLEAN, Chars)) : ps = pieces'
    <3>1. PutUnit(pieces, text, marks, at, last) \in Seq(PieceOf(Given, BOOLEAN, Chars))
      BY <1>2, <1>3, <1>4, PutUnitTyped
    <3>. QED
      BY <1>1, <3>1
  <2>2. Follows(<<>>, 0, ps, 0)
    BY NoneTaken
  <2>. QED
    BY <1>1, <1>9, <2>1, <2>2 DEF Taken
<1>. QED
  BY <1>7, <1>8, <1>10 DEF PInv

\* A piece taken is in the segments.
LEMMA TakeKeepsPlaces ==
  ASSUME LInv, PInv, TakeNextPiece
  PROVE  PInv'
<1>1. /\ phase = "segment" /\ taken < Len(pieces) /\ taken' = taken + 1
      /\ pass' = TakePiece(pass, pieces[taken'])
      /\ UNCHANGED <<turns, gap, text, spans, marks, at, pieces, phase>>
  BY DEF TakeNextPiece, inputs
<1>2. /\ pieces \in Seq(PieceOf(Given, BOOLEAN, Chars)) /\ InLoop(pass, Chars)
      /\ taken \in 0 .. Len(pieces) /\ Len(pieces) \in Nat
  BY <1>1, Facts
<1>3. PICK t \in 1 .. Len(pieces) : t = taken' /\ t - 1 = taken
  BY <1>1, <1>2
<1>4. Follows(Segments(pass), pass.unattributed, pieces, t - 1)
  BY <1>3 DEF PInv, Taken
<1>5. PICK next : next = TakePiece(pass, pieces[t])
  OBVIOUS
<1>6. Follows(Segments(next), next.unattributed, pieces, t)
  BY <1>2, <1>4, <1>5, FollowsOn
<1>7. Taken'
  BY <1>1, <1>3, <1>5, <1>6 DEF Taken
<1>8. Order' /\ Cuts'
  BY <1>1 DEF PInv, Order, Cuts
<1>. QED
  BY <1>7, <1>8 DEF PInv

\* Every step keeps everything in its place.
LEMMA StepKeepsPlaces ==
  ASSUME LInv, PInv, [Next]_vars
  PROVE  PInv'
<1>1. CASE MarkCharacters
  <2>1. /\ phase = "mark" /\ phase' = "tag" /\ marks' = Marks(turns, spans, gap)
        /\ UNCHANGED <<turns, gap, text, spans, at, pieces, taken, pass>>
    BY <1>1 DEF MarkCharacters, inputs
  <2>2. at = 1 /\ UnitsIn(pieces, text, marks', 0)
    BY <2>1 DEF PInv, Order, UnitsIn
  <2>. QED
    BY <2>1, <2>2 DEF PInv, Order, Cuts, Taken
<1>2. CASE TagUnit
  BY <1>2, TagKeepsPlaces, StepKeepsLInv
<1>3. CASE TaggingDone
  <2>1. /\ phase = "tag" /\ phase' = "segment" /\ at > Len(text)
        /\ UNCHANGED <<turns, gap, text, spans, marks, at, pieces, taken, pass>>
    BY <1>3 DEF TaggingDone, inputs
  <2>2. at = Len(text) + 1
    BY <2>1, Facts DEF PInv, Order
  <2>. QED
    BY <2>1, <2>2 DEF PInv, Order, Cuts, Taken
<1>4. CASE TakeNextPiece
  BY <1>4, TakeKeepsPlaces
<1>5. CASE CloseLast
  <2>1. /\ phase = "segment" /\ phase' = "done" /\ pass' = CloseOpen(pass) /\ taken = Len(pieces)
        /\ UNCHANGED <<turns, gap, text, spans, marks, at, pieces, taken>>
    BY <1>5 DEF CloseLast, inputs
  <2>2. Tidy(pass, Chars)
    BY <2>1 DEF LInv, Pass, InLoop
  <2>3. Segments(pass') = Segments(pass) /\ pass'.unattributed = pass.unattributed
    BY <2>1, <2>2, CloseFacts
  <2>. QED
    BY <2>1, <2>3 DEF PInv, Order, Cuts, Taken
<1>6. CASE UNCHANGED vars
  BY <1>6 DEF PInv, Order, Cuts, Taken, vars
<1>. QED
  BY <1>1, <1>2, <1>3, <1>4, <1>5, <1>6 DEF Next, Done

\* The whole invariant holds throughout a pass.
LEMMA PlacesInvariant == Spec => [](LInv /\ PInv)
<1>1. Init => LInv /\ PInv
  BY InitHolds, InitPlaced
<1>2. LInv /\ PInv /\ [Next]_vars => (LInv /\ PInv)'
  BY StepKeepsLInv, StepKeepsPlaces
<1>. QED
  BY <1>1, <1>2, PTL DEF Spec

-----------------------------------------------------------------------------
(* The theorems about places *)

\* The variables keep their types; no piece is empty and no more characters are
\* counted than there are.
LEMMA PlacesTyped == LInv /\ PInv => TypeOK
<1>. SUFFICES ASSUME LInv, PInv PROVE TypeOK
  OBVIOUS
<1>1. /\ text \in Seq(Chars) /\ Len(text) \in Nat /\ DOMAIN text = 1 .. Len(text)
      /\ pieces \in Seq(PieceOf(Given, BOOLEAN, Chars))
      /\ Len(pieces) \in Nat /\ taken \in 0 .. Len(pieces)
      /\ HasTexts(pieces, Chars)
  BY Facts
<1>2. spans \in Seq(Span) /\ Len(spans) = Len(text) /\ \A k \in DOMAIN spans : spans[k].start < spans[k].end
  BY DEF LInv, Inputs
<1>3. DOMAIN spans = DOMAIN text /\ \A k \in DOMAIN spans : spans[k].start \in Nat
  BY <1>1, <1>2, SpansFacts
<1>4. \A k \in DOMAIN spans : spans[k].start \in Nat /\ spans[k].end > spans[k].start
  <2>1. \A k \in DOMAIN spans : spans[k].end \in Nat
    BY <1>2, SpansFacts
  <2>. QED
    BY <1>2, <1>3, <2>1
<1>5. marks = <<>> \/ marks \in [DOMAIN text -> Verdict]
  <2>1. CASE phase = "mark"
    BY <2>1 DEF PInv, Order
  <2>2. CASE phase # "mark"
    <3>1. marks = Marks(turns, spans, gap)
      BY <2>2 DEF PInv, Order
    <3>2. \A k \in DOMAIN text : marks[k] \in [speaker : Given, snapped : BOOLEAN]
      BY <2>2 DEF LInv, Verdicts
    <3>3. [speaker : Given, snapped : BOOLEAN] \subseteq Verdict
      BY DEF Verdict, Given
    <3>4. marks = [k \in DOMAIN spans |-> marks[k]]
      BY <3>1 DEF Marks
    <3>. QED
      BY <1>3, <3>2, <3>3, <3>4
  <2>. QED
    BY <2>1, <2>2
<1>6. \A n \in DOMAIN pieces : pieces[n].speaker \in Label /\ pieces[n].text # <<>>
  <2>1. \A n \in DOMAIN pieces : pieces[n] \in PieceOf(Given, BOOLEAN, Chars)
    BY <1>1, ElementOfSeq, LenProperties
  <2>2. Given \subseteq Label
    BY DEF Given
  <2>. QED
    BY <2>1, <2>2 DEF PieceOf
<1>7. pass.unattributed \in 0 .. Len(text)
  <2>1. pass.unattributed = Cardinality(Unlabelled(pieces, taken))
    BY DEF PInv, Taken, Follows
  <2>2. End(pieces, Len(pieces)) = Len(Joined(pieces))
    BY <1>1, EndStep
  <2>3. Joined(pieces) = SubSeq(text, 1, at - 1) /\ at \in 1 .. Len(text) + 1
    BY DEF PInv, Cuts, Order
  <2>4. Len(SubSeq(text, 1, at - 1)) = at - 1
    BY <1>1, <2>3
  <2>5. PICK b \in Nat : b = End(pieces, Len(pieces)) /\ b <= Len(text)
    BY <1>1, <2>2, <2>3, <2>4
  <2>6. Unlabelled(pieces, taken) \in SUBSET (1 .. b)
    BY <2>5 DEF Unlabelled
  <2>7. IsFiniteSet(1 .. b) /\ Cardinality(1 .. b) = IF 1 > b THEN 0 ELSE b - 1 + 1
    <3>1. 1 \in Int /\ b \in Int
      OBVIOUS
    <3>. QED
      BY <3>1, FS_Interval
  <2>8. /\ IsFiniteSet(Unlabelled(pieces, taken))
        /\ Cardinality(Unlabelled(pieces, taken)) <= Cardinality(1 .. b)
    BY <2>6, <2>7, FS_Subset
  <2>9. Cardinality(Unlabelled(pieces, taken)) \in Nat
    BY <2>8, FS_CardinalityType
  <2>. QED
    BY <1>1, <2>1, <2>5, <2>7, <2>8, <2>9
<1>8. at \in 1 .. Len(text) + 1 /\ phase \in {"mark", "tag", "segment", "done"}
  BY DEF PInv, Order
<1>. QED
  BY <1>1, <1>3, <1>4, <1>5, <1>6, <1>7, <1>8 DEF TypeOK

\* The types of the loop's variables (fusion.cpp:177).
THEOREM LoopTyped == Spec => []TypeOK
BY PlacesInvariant, PlacesTyped, PTL

\* Segments, pieces to be taken and text to be cut make up the text.
LEMMA PlacesMakeText == LInv /\ PInv => Layer
<1>. SUFFICES ASSUME LInv, PInv, phase # "mark"
              PROVE  TextOf(pass.closed) \o pass.open.text
                       \o TextOf(SubSeq(pieces, taken + 1, Len(pieces)))
                       \o SubSeq(text, at, Len(text)) = text
  BY DEF Layer
<1>. DEFINE rest == SubSeq(pieces, taken + 1, Len(pieces))
            done == SubSeq(pieces, 1, taken)
<1>1. /\ text \in Seq(Chars) /\ Len(text) \in Nat
      /\ pieces \in Seq(PieceOf(Given, BOOLEAN, Chars))
      /\ Len(pieces) \in Nat /\ taken \in 0 .. Len(pieces)
      /\ HasTexts(pieces, Chars) /\ HasTexts(Segments(pass), Chars)
  BY Facts
<1>2. TextOf(pass.closed) \o pass.open.text = Joined(Segments(pass))
  <2>1. PICK L : pass \in PassState(L, Chars)
    BY ClosedFacts
  <2>2. pass.closed \in Seq(SegmentOf(L, Chars)) /\ pass.open.text \in Seq(Chars)
    BY <2>1 DEF PassState
  <2>3. HasTexts(pass.closed, Chars)
    BY <2>2, PiecesHaveTexts
  <2>4. CASE pass.open.text = <<>>
    <3>1. Joined(pass.closed) \in Seq(Chars)
      BY <2>3, JoinedTyped
    <3>2. Joined(pass.closed) \o <<>> = Joined(pass.closed)
      BY <3>1, ConcatEmptySeq
    <3>. QED
      BY <2>4, <3>2 DEF Segments, TextOf, Joined
  <2>5. CASE pass.open.text # <<>>
    <3>1. Joined(Append(pass.closed, pass.open)) = Joined(pass.closed) \o pass.open.text
      BY <2>2, <2>3, JoinedAppend, ZenonT(30)
    <3>. QED
      BY <2>5, <3>1 DEF Segments, TextOf, Joined
  <2>. QED
    BY <2>4, <2>5
<1>3. Joined(Segments(pass)) = Joined(done) /\ Joined(pieces) = SubSeq(text, 1, at - 1)
      /\ at \in 1 .. Len(text) + 1
  BY DEF PInv, Taken, Follows, Cuts, Order
<1>4. HasTexts(rest, Chars) /\ HasTexts(done, Chars)
  <2>1. 1 \in Int /\ taken + 1 \in Int /\ taken \in Int /\ Len(pieces) \in Int
        /\ taken + 1 >= 1 /\ 1 >= 1 /\ Len(pieces) <= Len(pieces) /\ taken <= Len(pieces)
    BY <1>1
  <2>. QED
    BY <1>1, <2>1, HasTextsOf
<1>5. done \o rest = pieces
  BY <1>1, SplitAt
<1>. HIDE DEF rest, done
<1>6. Joined(done) \o Joined(rest) = Joined(pieces)
  <2>1. PICK a, b : a = done /\ b = rest
    OBVIOUS
  <2>2. HasTexts(a, Chars) /\ HasTexts(b, Chars)
    BY <1>4, <2>1
  <2>3. Joined(a \o b) = Joined(a) \o Joined(b)
    BY ONLY <2>2, JoinedConcat
  <2>. QED
    BY <1>5, <2>1, <2>3
<1>7. SubSeq(text, 1, at - 1) \o SubSeq(text, at, Len(text)) = text
  <2>1. PICK n \in 0 .. Len(text) : n = at - 1 /\ n + 1 = at
    BY <1>1, <1>3
  <2>2. SubSeq(text, 1, n) \o SubSeq(text, n + 1, Len(text)) = text
    BY <1>1, SplitAt
  <2>. QED
    BY <2>1, <2>2
<1>. QED
  BY <1>2, <1>3, <1>6, <1>7 DEF rest, TextOf, Joined

\* Attribution is a layer over the transcript, never a rewrite of it
\* (docs/findings.md:208): no character is lost, doubled or moved at any point.
THEOREM TextIsKept == Spec => []Layer
BY PlacesInvariant, PlacesMakeText, PTL

\* At the end the segments hold the whole text.
LEMMA DoneFacts ==
  ASSUME LInv, PInv, phase = "done"
  PROVE  /\ pass.closed = Segments(pass) /\ HasTexts(pass.closed, Chars)
         /\ \A n : Cut(n) = End(pass.closed, n)
         /\ End(pass.closed, Len(pass.closed)) = Len(text) /\ End(pieces, Len(pieces)) = Len(text)
         /\ taken = Len(pieces) /\ at - 1 = Len(text) /\ Len(text) \in Nat
         /\ Len(pass.closed) \in Nat /\ \A n \in 1 .. Len(pass.closed) : pass.closed[n].text # <<>>
<1>1. /\ text \in Seq(Chars) /\ Len(text) \in Nat
      /\ pieces \in Seq(PieceOf(Given, BOOLEAN, Chars))
      /\ HasTexts(pieces, Chars) /\ HasTexts(Segments(pass), Chars)
      /\ pass.closed = Segments(pass)
  BY Facts
<1>2. taken = Len(pieces) /\ at = Len(text) + 1
  BY DEF PInv, Order
<1>3. /\ Joined(pieces) = SubSeq(text, 1, at - 1)
      /\ Joined(Segments(pass)) = Joined(SubSeq(pieces, 1, taken))
  BY DEF PInv, Cuts, Taken, Follows
<1>4. SubSeq(pieces, 1, taken) = pieces /\ SubSeq(text, 1, at - 1) = text
  BY <1>1, <1>2
<1>5. /\ End(pass.closed, Len(pass.closed)) = Len(Joined(pass.closed))
      /\ End(pieces, Len(pieces)) = Len(Joined(pieces))
  BY <1>1, EndStep
<1>6. \A n : Cut(n) = End(pass.closed, n)
  BY DEF Cut, End, TextOf, Joined
<1>7. Len(pass.closed) \in Nat /\ \A n \in 1 .. Len(pass.closed) : pass.closed[n].text # <<>>
  <2>1. PICK L : Segments(pass) \in Seq(SegmentOf(L, Chars))
    BY ClosedFacts
  <2>2. \A n \in 1 .. Len(pass.closed) : pass.closed[n] \in SegmentOf(L, Chars)
    BY <1>1, <2>1, ElementOfSeq
  <2>. QED
    BY <1>1, <2>1, <2>2, LenProperties DEF SegmentOf
<1>8. Joined(pass.closed) = text /\ Joined(pieces) = text
  BY <1>1, <1>3, <1>4
<1>9. at - 1 = Len(text)
  BY <1>1, <1>2
<1>10. End(pass.closed, Len(pass.closed)) = Len(text) /\ End(pieces, Len(pieces)) = Len(text)
  BY <1>5, <1>8
<1>11. HasTexts(pass.closed, Chars) /\ pass.closed = Segments(pass) /\ Len(text) \in Nat
  BY <1>1
<1>. QED
  BY ONLY <1>2, <1>6, <1>7, <1>9, <1>10, <1>11

\* A segment ends with a unit, and no word goes on behind a unit.
LEMMA PlacesKeepWords == LInv /\ PInv => WordsWhole
<1>. SUFFICES ASSUME LInv, PInv, phase = "done", NEW n \in 1 .. Len(pass.closed) - 1
              PROVE  ~ (text[Cut(n)] \in Letter /\ text[Cut(n) + 1] \in Letter)
  BY DEF WordsWhole
<1>. DEFINE closed == pass.closed
<1>1. /\ closed = Segments(pass) /\ HasTexts(closed, Chars)
      /\ Cut(n) = End(closed, n)
      /\ End(closed, Len(closed)) = Len(text)
      /\ taken = Len(pieces) /\ Len(text) \in Nat
      /\ Len(closed) \in Nat /\ \A k \in 1 .. Len(closed) : closed[k].text # <<>>
  BY DoneFacts
<1>. HIDE DEF closed
<1>2. n \in 0 .. Len(closed) /\ 0 \in 0 .. n /\ 0 < n /\ n < Len(closed)
      /\ Len(closed) \in 0 .. Len(closed) /\ n \in 0 .. Len(closed)
  BY <1>1 DEF closed
<1>3. End(closed, 0) < End(closed, n) /\ End(closed, n) < End(closed, Len(closed))
  BY <1>1, <1>2, EndsInOrder
<1>4. End(closed, 0) = 0 /\ End(closed, n) \in Nat
  BY <1>1, <1>2, EndStep
<1>5. End(closed, n) \in 1 .. Len(text) - 1
  BY <1>1, <1>3, <1>4
<1>6. UnitBorder(text, End(closed, n))
  <2>1. Inside(Segments(pass), pieces, taken) /\ BordersOf(pieces, text)
    BY DEF PInv, Taken, Follows, Cuts
  <2>2. PICK m \in 0 .. Len(pieces) : End(closed, n) = End(pieces, m)
    BY <1>1, <1>2, <2>1 DEF Inside
  <2>. QED
    BY <2>1, <2>2 DEF BordersOf
<1>7. text \in Seq(Chars)
  BY Facts
<1>. QED
  BY <1>1, <1>5, <1>6, <1>7, BorderFacts

\* No segment boundary falls inside a word, however long it is and whichever
\* deltas it came in (fusion.cpp:36-43, fusion.h:77-79).
THEOREM NoWordIsCut == Spec => []WordsWhole
BY PlacesInvariant, PlacesKeepWords, PTL

\* The characters counted are those of units without a label.
LEMMA PlacesCount == LInv /\ PInv => UnattributedHonest
<1>. SUFFICES ASSUME LInv, PInv, phase = "done" PROVE UnattributedHonest
  BY DEF UnattributedHonest
<1>1. /\ text \in Seq(Chars) /\ Len(text) \in Nat /\ DOMAIN text = 1 .. Len(text)
      /\ HasTexts(pieces, Chars)
  BY Facts
<1>2. End(pieces, Len(pieces)) = Len(text) /\ taken = Len(pieces) /\ at - 1 = Len(text)
  BY DoneFacts
<1>3. /\ UnitsIn(pieces, text, marks, Len(text))
      /\ pass.unattributed = Cardinality(Unlabelled(pieces, Len(pieces)))
  BY <1>2 DEF PInv, Cuts, Taken, Follows
<1>. DEFINE Of(k, i) == /\ \A h \in 1 .. i - 1 : UnitEnd(text, h) < i
                        /\ k <= UnitEnd(text, i)
                        /\ Winner(marks, i, UnitEnd(text, i)).speaker = NoLabel
<1>4. \A h \in 1 .. Len(text) : UnitEnd(text, h) \in h .. Len(text)
  BY <1>1, UnitEndFacts
<1>5. \A i \in 1 .. Len(text) :
        UnitBorder(text, i - 1) <=> \A h \in 1 .. i - 1 : UnitEnd(text, h) < i
  <2>. SUFFICES ASSUME NEW i \in 1 .. Len(text), NEW h \in 1 .. i - 1
                PROVE  UnitEnd(text, h) <= i - 1 <=> UnitEnd(text, h) < i
    BY DEF UnitBorder
  <2>1. UnitEnd(text, h) \in Int
    BY <1>1, <1>4
  <2>. QED
    BY <2>1
<1>6. ASSUME NEW k \in DOMAIN text, NEW i \in 1 .. k, Of(k, i)
      PROVE  \E n \in 1 .. Len(pieces) : pieces[n].speaker = NoLabel /\ Holds(pieces, n, k, k)
  <2>1. i \in 1 .. Len(text) /\ UnitBorder(text, i - 1)
    BY <1>1, <1>5, <1>6
  <2>2. PICK n \in 1 .. Len(pieces) :
          /\ Holds(pieces, n, i, UnitEnd(text, i))
          /\ pieces[n].speaker = Winner(marks, i, UnitEnd(text, i)).speaker
    BY <1>3, <2>1 DEF UnitsIn
  <2>3. End(pieces, n - 1) \in Nat /\ End(pieces, n) \in Nat /\ UnitEnd(text, i) \in Int
    <3>1. n \in 0 .. Len(pieces) /\ n - 1 \in 0 .. Len(pieces)
      BY Facts
    <3>. QED
      BY <1>1, <1>4, <2>1, <3>1, EndStep, SMTT(30)
  <2>4. Holds(pieces, n, k, k)
    BY <1>1, <1>6, <2>2, <2>3 DEF Holds
  <2>. QED
    BY <1>6, <2>2, <2>4
<1>7. ASSUME NEW k \in DOMAIN text, NEW n \in 1 .. Len(pieces),
             pieces[n].speaker = NoLabel, Holds(pieces, n, k, k)
      PROVE  \E i \in 1 .. k : Of(k, i)
  <2>1. PICK i \in 1 .. k : UnitBorder(text, i - 1) /\ k <= UnitEnd(text, i)
    BY <1>1, UnitOf
  <2>2. i \in 1 .. Len(text) /\ k \in Int
    BY <1>1
  <2>3. PICK m \in 1 .. Len(pieces) :
          /\ Holds(pieces, m, i, UnitEnd(text, i))
          /\ pieces[m].speaker = Winner(marks, i, UnitEnd(text, i)).speaker
    BY <1>3, <2>1, <2>2 DEF UnitsIn
  <2>4. End(pieces, m - 1) \in Nat /\ End(pieces, m) \in Nat /\ UnitEnd(text, i) \in Int
    <3>1. m \in 0 .. Len(pieces) /\ m - 1 \in 0 .. Len(pieces)
      BY Facts
    <3>. QED
      BY <1>1, <1>4, <2>2, <3>1, EndStep, SMTT(30)
  <2>5. Holds(pieces, m, k, k)
    BY <2>1, <2>2, <2>3, <2>4 DEF Holds
  <2>6. m = n
    BY <1>1, <1>7, <2>2, <2>5, HoldsOnce
  <2>. QED
    BY <1>5, <1>7, <2>1, <2>2, <2>3, <2>6
<1>8. Unlabelled(pieces, Len(pieces)) = {k \in DOMAIN text : \E i \in 1 .. k : Of(k, i)}
  BY <1>1, <1>2, <1>6, <1>7 DEF Unlabelled
<1>. QED
  BY <1>3, <1>8 DEF UnattributedHonest

\* The telemetry is honest: the count is the number of characters of the words
\* that got no label, whatever segment they are in (engine.cpp:437-438).
THEOREM CountIsHonest == Spec => []UnattributedHonest
BY PlacesInvariant, PlacesCount, PTL

\* A unit whose characters overlap turns of one speaker only has that verdict.
LEMMA OwnVerdict ==
  ASSUME LInv, PInv, phase = "done", NEW s, NEW i \in 1 .. Len(text),
         \A k \in i .. UnitEnd(text, i) :
           LET over == {n \in DOMAIN turns :
                          Overlap(turns[n], spans[k].start, spans[k].end - spans[k].start) > 0}
           IN  over # {} /\ \A n \in over : turns[n].speaker = s
  PROVE  Winner(marks, i, UnitEnd(text, i)).speaker = s
<1>. DEFINE j == UnitEnd(text, i)
<1>1. /\ text \in Seq(Chars) /\ Len(text) \in Nat /\ DOMAIN text = 1 .. Len(text)
      /\ spans \in Seq(Span) /\ Len(spans) = Len(text) /\ turns \in Seq(Turn) /\ gap \in GapPolicy
      /\ \A k \in DOMAIN spans : spans[k].start < spans[k].end
      /\ marks = Marks(turns, spans, gap)
      /\ \A k \in DOMAIN text : marks[k] \in [speaker : Given, snapped : BOOLEAN]
  BY Facts DEF LInv, Inputs, Verdicts, PInv, Order
<1>2. j \in i .. Len(text)
  BY <1>1, UnitEndFacts
<1>. HIDE DEF j
<1>3. ASSUME NEW k \in i .. j
      PROVE  marks[k].speaker = s
  <2>. DEFINE t == spans[k].start
              dur == spans[k].end - spans[k].start
              c == Covering(turns, t, dur, gap)
  <2>1. k \in DOMAIN spans /\ k \in DOMAIN text /\ t \in Nat /\ dur \in Nat
    <3>1. k \in 1 .. Len(text) /\ DOMAIN spans = 1 .. Len(spans)
      BY <1>1, <1>2, SpansFacts
    <3>2. k \in DOMAIN spans
      BY <1>1, <3>1
    <3>3. spans[k].start \in Nat /\ spans[k].end \in Nat /\ spans[k].start < spans[k].end
      BY <1>1, <3>2, SpansFacts
    <3>. QED
      BY <1>1, <3>1, <3>2, <3>3
  <2>2. (\E n \in DOMAIN turns : Overlap(turns[n], t, dur) > 0)
        /\ \A n \in DOMAIN turns : Overlap(turns[n], t, dur) > 0 => turns[n].speaker = s
    BY DEF j
  <2>3. marks[k].speaker = IF c.turn = NoTurn THEN NoLabel ELSE turns[c.turn].speaker
    BY <1>1, <2>1 DEF Marks
  <2>. HIDE DEF t, dur
  <2>4. c.turn \in DOMAIN turns /\ Overlap(turns[c.turn], t, dur) > 0
    BY <1>1, <2>1, <2>2, CoveringFacts
  <2>. HIDE DEF c
  <2>5. c.turn # NoTurn
    BY <1>1, <2>4, TurnListFacts DEF NoTurn
  <2>. QED
    BY <2>2, <2>3, <2>4, <2>5
<1>4. Given \subseteq Nat
  BY TurnsAssumption DEF Given, Label, NoLabel
<1>5. i \in Nat /\ j \in Nat /\ i <= j /\ i .. j \subseteq DOMAIN text
  BY <1>1, <1>2
<1>6. \A k \in i .. j : marks[k] \in [speaker : Nat, snapped : BOOLEAN]
  BY <1>1, <1>4, <1>5
<1>7. Winner(marks, i, j) \in {marks[k] : k \in i .. j}
  <2>1. PICK a \in Nat, b \in Nat : a = i /\ b = j
    BY <1>5
  <2>2. a <= b /\ \A k \in a .. b : marks[k] \in [speaker : Nat, snapped : BOOLEAN]
    BY <1>5, <1>6, <2>1
  <2>3. Winner(marks, a, b) \in {marks[k] : k \in a .. b}
    BY ONLY a \in Nat, b \in Nat, <2>2, WinnerFacts
  <2>. QED
    BY <2>1, <2>3
<1>. QED
  BY <1>3, <1>7 DEF j

\* The verdict of a unit is that of its piece, the piece's that of its segment.
LEMMA PlacesCredit == LInv /\ PInv => SpokenInOwnTurn
<1>. SUFFICES ASSUME LInv, PInv, phase = "done", NEW i \in DOMAIN text,
                     \A h \in 1 .. i - 1 : UnitEnd(text, h) < i, NEW s \in Speaker,
                     \A k \in i .. UnitEnd(text, i) :
                       LET over == {n \in DOMAIN turns :
                             Overlap(turns[n], spans[k].start, spans[k].end - spans[k].start) > 0}
                       IN  over # {} /\ \A n \in over : turns[n].speaker = s
              PROVE  \E n \in DOMAIN pass.closed :
                       /\ Cut(n - 1) < i /\ UnitEnd(text, i) <= Cut(n)
                       /\ pass.closed[n].id = s
  BY DEF SpokenInOwnTurn, Units
<1>. DEFINE j == UnitEnd(text, i)
            closed == pass.closed
<1>1. /\ text \in Seq(Chars) /\ Len(text) \in Nat /\ DOMAIN text = 1 .. Len(text)
      /\ HasTexts(pieces, Chars) /\ Len(pieces) \in Nat
  BY Facts
<1>2. i \in 1 .. Len(text) /\ j \in i .. Len(text)
  BY <1>1, UnitEndFacts
<1>3. /\ closed = Segments(pass) /\ HasTexts(closed, Chars)
      /\ \A n : Cut(n) = End(closed, n)
      /\ taken = Len(pieces) /\ at - 1 = Len(text)
      /\ Len(closed) \in Nat /\ DOMAIN closed = 1 .. Len(closed)
  BY DoneFacts, TextsOfList
<1>4. Winner(marks, i, j).speaker = s
  BY <1>2, OwnVerdict
<1>5. UnitBorder(text, i - 1)
  <2>1. \A h \in 1 .. i - 1 : UnitEnd(text, h) \in Int
    <3>1. \A h \in 1 .. Len(text) : UnitEnd(text, h) \in h .. Len(text)
      BY <1>1, UnitEndFacts
    <3>. QED
      BY <1>1, <1>2, <3>1
  <2>. QED
    BY <1>2, <2>1 DEF UnitBorder
<1>. HIDE DEF j, closed
<1>6. PICK n \in 1 .. Len(pieces) : Holds(pieces, n, i, j) /\ pieces[n].speaker = s
  <2>1. UnitsIn(pieces, text, marks, Len(text))
    BY <1>3 DEF PInv, Cuts
  <2>. QED
    BY <1>2, <1>4, <1>5, <2>1 DEF UnitsIn, j
<1>7. s # NoLabel
  BY TurnsAssumption DEF NoLabel
<1>8. PICK m \in 1 .. Len(closed) :
        Holds(closed, m, End(pieces, n - 1) + 1, End(pieces, n)) /\ closed[m].id = s
  <2>1. Credited(Segments(pass), pieces, taken)
    BY DEF PInv, Taken, Follows
  <2>. QED
    BY <1>3, <1>6, <1>7, <2>1 DEF Credited
<1>9. /\ End(pieces, n - 1) \in Nat /\ End(pieces, n) \in Nat
      /\ End(closed, m - 1) \in Nat /\ End(closed, m) \in Nat
  <2>1. n \in 0 .. Len(pieces) /\ n - 1 \in 0 .. Len(pieces)
        /\ m \in 0 .. Len(closed) /\ m - 1 \in 0 .. Len(closed)
    BY <1>1, <1>3
  <2>. QED
    BY <1>1, <1>3, <2>1, EndStep
<1>10. End(closed, m - 1) < i /\ j <= End(closed, m)
  BY <1>2, <1>6, <1>8, <1>9, SMTT(30) DEF Holds
<1>. QED
  BY <1>3, <1>8, <1>10 DEF closed, j

\* A word that overlaps turns of one speaker only is in a segment of that
\* speaker, whatever other turns are near (fusion.cpp:117-126, 44-66).
THEOREM OwnTurnWins == Spec => []SpokenInOwnTurn
BY PlacesInvariant, PlacesCredit, PTL
=============================================================================
