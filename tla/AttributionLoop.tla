-------------------------- MODULE AttributionLoop --------------------------
(***************************************************************************)
(* One attribution pass, loop by loop: Fusion::attribute_all marks every   *)
(* character of the timeline and groups it (tag_sequence), the loop of     *)
(* Engine::attribute turns the pieces into segments.  The timeline and the *)
(* turn list are inputs: any text, delivered in two deltas, against any of *)
(* the given turn lists.                                                   *)
(***************************************************************************)
EXTENDS Attribution

CONSTANTS
  Texts,      \* the transcripts tried: sequences of codepoints
  TurnLists,  \* the turn lists tried: ordered, as update_turns leaves them
  Gaps,       \* the gap policies tried
  Horizons    \* the audio positions a delta may be pinned to

ASSUME InputAssumption ==
  /\ \A t \in Texts : t \in Seq(Range(t))
  /\ TurnLists \subseteq Seq(Turn)
  /\ Gaps \subseteq GapPolicy
  /\ Horizons \subseteq Nat

VARIABLES
  turns, gap,     \* Fusion::turns_ and the gap settings
  text, spans,    \* Fusion::text_ and spans_
  marks,          \* mark and snap of attribute_all
  at,             \* the index i of tag_sequence
  pieces,         \* its result so far
  taken,          \* pieces the loop of attribute has consumed
  pass,           \* open, closed, spk_id and the count of unattributed text
  phase

inputs == <<turns, gap, text, spans>>
vars == <<turns, gap, text, spans, marks, at, pieces, taken, pass, phase>>

Init ==
  /\ turns \in TurnLists
  /\ gap \in Gaps
  /\ text \in Texts
  /\ \E split \in 0 .. Len(text), h1, h2 \in Horizons :
       /\ h1 <= h2
       /\ spans = Placed(split, 0, h1, FALSE)
                  \o Placed(Len(text) - split, h1, h2, FALSE)
  /\ marks = <<>>
  /\ at = 1
  /\ pieces = <<>>
  /\ taken = 0
  /\ pass = StartOfPass(<<>>)
  /\ phase = "mark"

MarkCharacters ==
  /\ phase = "mark"
  /\ marks' = Marks(turns, spans, gap)
  /\ phase' = "tag"
  /\ UNCHANGED <<inputs, at, pieces, taken, pass>>

TagUnit ==
  /\ phase = "tag"
  /\ at <= Len(text)
  /\ pieces' = PutUnit(pieces, text, marks, at, UnitEnd(text, at))
  /\ at' = UnitEnd(text, at) + 1
  /\ UNCHANGED <<inputs, marks, taken, pass, phase>>

TaggingDone ==
  /\ phase = "tag"
  /\ at > Len(text)
  /\ phase' = "segment"
  /\ UNCHANGED <<inputs, marks, at, pieces, taken, pass>>

TakeNextPiece ==
  /\ phase = "segment"
  /\ taken < Len(pieces)
  /\ taken' = taken + 1
  /\ pass' = TakePiece(pass, pieces[taken'])
  /\ UNCHANGED <<inputs, marks, at, pieces, phase>>

CloseLast ==
  /\ phase = "segment"
  /\ taken = Len(pieces)
  /\ pass' = CloseOpen(pass)
  /\ phase' = "done"
  /\ UNCHANGED <<inputs, marks, at, pieces, taken>>

Done == phase = "done" /\ UNCHANGED vars

Next == MarkCharacters \/ TagUnit \/ TaggingDone \/ TakeNextPiece \/ CloseLast \/ Done

Spec == Init /\ [][Next]_vars

-----------------------------------------------------------------------------
(* Properties *)

Verdict == [speaker : Label, snapped : BOOLEAN]

\* Every character has an interval of positive width, as covering needs to
\* find an overlap at all (fusion.cpp:177).
TypeOK ==
  /\ DOMAIN spans = DOMAIN text
  /\ \A k \in DOMAIN spans : spans[k].start \in Nat /\ spans[k].end > spans[k].start
  /\ marks = <<>> \/ marks \in [DOMAIN text -> Verdict]
  /\ at \in 1 .. Len(text) + 1
  /\ \A n \in DOMAIN pieces : pieces[n].speaker \in Label /\ pieces[n].text # <<>>
  /\ taken \in 0 .. Len(pieces)
  /\ pass.unattributed \in 0 .. Len(text)
  /\ phase \in {"mark", "tag", "segment", "done"}

\* Attribution is a layer over the transcript, never a rewrite of it
\* (docs/findings.md:208): at every point of the loops the segments closed,
\* the open one and what is still to do make up the text, in order.
Layer ==
  phase # "mark" =>
    TextOf(pass.closed) \o pass.open.text
      \o TextOf(SubSeq(pieces, taken + 1, Len(pieces)))
      \o SubSeq(text, at, Len(text)) = text

\* The position in the text before the n-th closed segment ends.
Cut(n) == Len(TextOf(SubSeq(pass.closed, 1, n)))

\* No segment boundary falls inside a word, even a word that came in two
\* deltas (fusion.cpp:36-43, fusion.h:77-79).
WordsWhole ==
  phase = "done" =>
    \A n \in 1 .. Len(pass.closed) - 1 :
      ~ (text[Cut(n)] \in Letter /\ text[Cut(n) + 1] \in Letter)

\* Speaker numbers are the order of first appearance (engine.cpp:417).
NumberedByAppearance(segs) ==
  \A n \in DOMAIN segs : segs[n].id # NoLabel =>
    segs[n].speaker =
      IF \E m \in 1 .. n - 1 : segs[m].id = segs[n].id
      THEN segs[CHOOSE m \in 1 .. n - 1 : segs[m].id = segs[n].id].speaker
      ELSE Cardinality({segs[m].id : m \in 1 .. n - 1} \ {NoLabel})

Numbering == NumberedByAppearance(pass.closed)

\* Uncovered text stays under the label it follows: a segment without a
\* speaker can only be the first one (engine.cpp:434-438).
OnlyTheFirstUnlabelled ==
  \A n \in 2 .. Len(pass.closed) : pass.closed[n].speaker # Unattributed

\* With an unlimited gap tolerance, or with the previous-speaker policy, text
\* is never left untagged once there is a turn ("0 = always nearest, never
\* leave text untagged", fusion.cpp:142), provided the diarizer labels its
\* turns.
NeverUntagged ==
  (/\ phase = "done" /\ turns # <<>>
   /\ \A i \in DOMAIN turns : turns[i].speaker # NoLabel
   /\ (gap.snap = 0 \/ gap.fill = "previous")) =>
    /\ pass.unattributed = 0
    /\ \A n \in DOMAIN pass.closed : pass.closed[n].speaker # Unattributed

\* The telemetry is honest: the count of unattributed characters is the number
\* of characters of the words that got no label, whatever segment the layout
\* put them in (engine.cpp:437-438).
UnattributedHonest ==
  phase = "done" =>
    pass.unattributed =
      Cardinality({k \in DOMAIN text : \E i \in 1 .. k :
        /\ \A h \in 1 .. i - 1 : UnitEnd(text, h) < i
        /\ k <= UnitEnd(text, i)
        /\ Winner(marks, i, UnitEnd(text, i)).speaker = NoLabel})

\* The units tag_sequence votes over, as pairs of first and last character.
Units == {<<i, UnitEnd(text, i)>> : i \in {b \in DOMAIN text :
            \A h \in 1 .. b - 1 : UnitEnd(text, h) < b}}

\* A word that overlaps turns of one speaker only, all along, is given to that
\* speaker, whatever other turns are near (fusion.cpp:117-126, 44-66).
SpokenInOwnTurn ==
  phase = "done" => \A u \in Units, s \in Speaker :
    (\A k \in u[1] .. u[2] :
       LET over == {i \in DOMAIN turns :
                      Overlap(turns[i], spans[k].start, spans[k].end - spans[k].start) > 0}
       IN  over # {} /\ \A i \in over : turns[i].speaker = s) =>
    \E n \in DOMAIN pass.closed :
      /\ Cut(n - 1) < u[1] /\ u[2] <= Cut(n)
      /\ pass.closed[n].id = s

\* "a tie keeps the first character's verdict" (fusion.cpp:55).
TieKeepsFirst ==
  phase = "done" => \A u \in Units :
    LET Votes(k) == Cardinality({l \in u[1] .. u[2] : marks[l] = marks[k]})
    IN  (\A k \in u[1] .. u[2] : Votes(k) <= Votes(u[1])) =>
          Winner(marks, u[1], u[2]) = marks[u[1]]

\* "a boundary that would fall inside a word moves to the word's majority
\* speaker instead" (fusion.cpp:36-37).
MajoritySpeaker ==
  phase = "done" => \A u \in Units :
    LET Votes(s) == Cardinality({k \in u[1] .. u[2] : marks[k].speaker = s})
    IN  \A k \in u[1] .. u[2] :
          Votes(marks[k].speaker) <= Votes(Winner(marks, u[1], u[2]).speaker)
=============================================================================
