---------------------------- MODULE Attribution ----------------------------
(***************************************************************************)
(* How text gets its speakers: the placement of characters in audio time   *)
(* (Fusion::append_placed), the verdict on one character                   *)
(* (Fusion::covering), the grouping of characters into words and pieces    *)
(* (tag_sequence) and of pieces into numbered segments (the loop of        *)
(* Engine::attribute).  Constant operators, one per loop body, so that     *)
(* AttributionLoop and EngineRun can run the loops step by step.           *)
(*                                                                         *)
(* Text is a sequence of codepoints (the attribution unit of fusion.h); a  *)
(* codepoint is any value, and is a word character iff it is in Letter.    *)
(***************************************************************************)
EXTENDS Turns, SequencesExt

CONSTANTS
  Letter,    \* the codepoints word_char accepts: ASCII letters, digits and '
  CharDur    \* Fusion::char_dur_s_ * rate_: samples a character takes

ASSUME CharDurAssumption == CharDur \in Nat

-----------------------------------------------------------------------------
(* Fusion::append_placed *)

\* llround(num / den) of a non-negative quotient.
Rounded(num, den) == (2 * num + den) \div (2 * den)

\* Bug: a character may get no width at all.
PlacedEmpty(n, from, to, exact) ==
  LET est  == IF exact THEN to - from ELSE Smaller(to - from, n * CharDur)
      At(i) == to - est + Rounded((i - 1) * est, n)
  IN  [i \in 1 .. n |-> [start |-> At(i), end |-> At(i) + Rounded(est, n)]]

\* The audio intervals of n characters that describe [from, to): they fill it
\* if the interval is exact, else they take CharDur each at its right end.
Placed(n, from, to, exact) ==
  LET end  == IF to <= from THEN from + 1 ELSE to
      est  == IF exact THEN end - from ELSE Smaller(end - from, n * CharDur)
      At(i) == end - est + Rounded((i - 1) * est, n)
  IN  [i \in 1 .. n |-> [start |-> At(i), end |-> At(i) + Larger(1, Rounded(est, n))]]

-----------------------------------------------------------------------------
(* Fusion::covering *)

\* The first index of S whose rank is largest: what a scan that replaces its
\* best on a strictly larger rank ends with.
FirstLargest(S, rank(_)) ==
  CHOOSE i \in S : \A j \in S : rank(j) < rank(i) \/ (rank(j) = rank(i) /\ i <= j)

Overlap(e, t, dur) == Smaller(e.end, t + dur) - Larger(e.start, t)

Distance(a, b) == IF a < b THEN b - a ELSE a - b

\* Samples between the audio and the nearer boundary of the turn.
Gap(e, t, dur) == Smaller(Distance(t, e.end), Distance(e.start, t + dur))

\* How text in a gap between turns is filled: the nearest boundary, at most
\* `snap` samples away (0: any distance), or the previous speaker.
GapPolicy == [fill : {"nearest", "previous"}, snap : Nat]

NoTurn == 0

\* Bug: the tolerance 0 means none instead of any.
FillingWithin(ts, t, dur, gap) ==
  LET near == {i \in DOMAIN ts : Gap(ts[i], t, dur) <= gap.snap}
  IN  IF near = {} THEN NoTurn ELSE FirstLargest(near, LAMBDA i : - Gap(ts[i], t, dur))

\* The turn that fills audio no turn overlaps, or NoTurn.
Filling(ts, t, dur, gap) ==
  LET ended == {i \in DOMAIN ts : ts[i].end <= t + dur}
      near  == {i \in DOMAIN ts : gap.snap = 0 \/ Gap(ts[i], t, dur) <= gap.snap}
  IN  CASE gap.fill = "previous" /\ ended # {} ->
             FirstLargest(ended, LAMBDA i : ts[i].end)
        [] gap.fill = "previous" /\ ended = {} /\ ts # <<>> ->
             FirstLargest(DOMAIN ts, LAMBDA i : - ts[i].start)
        [] gap.fill = "nearest" /\ near # {} ->
             FirstLargest(near, LAMBDA i : - Gap(ts[i], t, dur))
        [] OTHER -> NoTurn

\* Bug: the overlap is not looked at.
CoveringNearest(ts, t, dur, gap) ==
  [turn |-> Filling(ts, t, dur, gap), snapped |-> Filling(ts, t, dur, gap) # NoTurn]

\* The turn that overlaps the audio [t, t + dur) most, else the filling one.
Covering(ts, t, dur, gap) ==
  LET over == {i \in DOMAIN ts : Overlap(ts[i], t, dur) > 0}
      fill == Filling(ts, t, dur, gap)
  IN  IF over # {}
      THEN [turn |-> FirstLargest(over, LAMBDA i : Overlap(ts[i], t, dur)), snapped |-> FALSE]
      ELSE [turn |-> fill, snapped |-> fill # NoTurn]

\* The verdict on each character: a label, and whether it came from a gap.
Marks(ts, spans, gap) ==
  [k \in DOMAIN spans |->
     LET c == Covering(ts, spans[k].start, spans[k].end - spans[k].start, gap)
     IN  [speaker |-> IF c.turn = NoTurn THEN NoLabel ELSE ts[c.turn].speaker,
          snapped |-> c.snapped]]

-----------------------------------------------------------------------------
(* tag_sequence *)

\* Bug: every character is a unit.
UnitEndCharacter(text, i) == i

\* The last character of the unit that starts at i: the word, or i alone.
UnitEnd(text, i) ==
  LET inWord == {j \in i .. Len(text) : \A k \in i .. j : text[k] \in Letter}
  IN  IF inWord = {} THEN i ELSE Max(inWord)

\* Order of the keys of the vote map: by label, then not snapped first.
KeyBefore(a, b) ==
  \/ a.speaker < b.speaker
  \/ a.speaker = b.speaker /\ (a.snapped => b.snapped)

\* The verdict of the unit i..j: the most voted one, the least in the order of
\* the map among equals.
Winner(marks, i, j) ==
  LET Votes(key) == Cardinality({k \in i .. j : marks[k] = key})
      keys == {marks[k] : k \in i .. j}
  IN  CHOOSE best \in keys : \A key \in keys :
        \/ Votes(key) < Votes(best)
        \/ Votes(key) = Votes(best) /\ KeyBefore(best, key)

\* Add the unit i..j to the pieces: to the last one if the verdict is the same.
PutUnit(pieces, text, marks, i, j) ==
  LET key  == Winner(marks, i, j)
      unit == SubSeq(text, i, j)
      n    == Len(pieces)
  IN  IF n > 0 /\ pieces[n].speaker = key.speaker /\ pieces[n].snapped = key.snapped
      THEN [pieces EXCEPT ![n].text = @ \o unit]
      ELSE Append(pieces, [speaker |-> key.speaker, snapped |-> key.snapped, text |-> unit])

-----------------------------------------------------------------------------
(* The loop of Engine::attribute *)

Unattributed == -1

\* open is the segment being filled, <<>> text when there is none; closed the
\* segments handed to the callback; ids the labels in the order of their
\* numbers (spk_id_ maps the label at position n to number n - 1).
NoSegment == [speaker |-> Unattributed, id |-> NoLabel, text |-> <<>>]

StartOfPass(ids) == [open |-> NoSegment, closed |-> <<>>, ids |-> ids, unattributed |-> 0]

\* Bug: the number is the size of the map after the insertion.
NumberOfAfter(ids, id) == CHOOSE n \in DOMAIN ids : ids[n] = id

NumberOf(ids, id) == (CHOOSE n \in DOMAIN ids : ids[n] = id) - 1

CloseOpen(st) ==
  IF st.open.text = <<>> THEN st
  ELSE [st EXCEPT !.closed = Append(@, st.open), !.open = NoSegment]

\* Bug: an uncovered piece after covered text opens a segment of its own.
ExtendsNever(st, p) == st.open.text # <<>> /\ p.speaker = st.open.id

\* The piece continues the open segment: uncovered text does, whoever speaks.
Extends(st, p) ==
  st.open.text # <<>> /\ (p.speaker = NoLabel \/ p.speaker = st.open.id)

\* Bug: the open segment is overwritten, not closed.
OpenForLosing(st, p) ==
  [st EXCEPT !.open = [speaker |-> 0, id |-> p.speaker, text |-> p.text]]

\* Close the open segment and open the one of this piece.
OpenFor(st, p) ==
  LET ids == IF p.speaker = NoLabel \/ Contains(st.ids, p.speaker) THEN st.ids
             ELSE Append(st.ids, p.speaker)
      number == IF p.speaker = NoLabel THEN Unattributed ELSE NumberOf(ids, p.speaker)
  IN  [CloseOpen(st) EXCEPT
         !.open = [speaker |-> number, id |-> p.speaker, text |-> p.text],
         !.ids  = ids]

\* Bug: only the unattributed text that opens a segment is counted.
TakePieceUncounted(st, p) ==
  IF Extends(st, p) THEN [st EXCEPT !.open.text = @ \o p.text]
  ELSE [OpenFor(st, p) EXCEPT !.unattributed = IF p.speaker = NoLabel THEN @ + Len(p.text) ELSE @]

TakePiece(st, p) ==
  LET next == IF Extends(st, p) THEN [st EXCEPT !.open.text = @ \o p.text]
              ELSE OpenFor(st, p)
  IN  IF p.speaker = NoLabel
      THEN [next EXCEPT !.unattributed = @ + Len(p.text)] ELSE next

\* The text of segments or pieces, put end to end.
TextOf(segs) == FlattenSeq([n \in DOMAIN segs |-> segs[n].text])
=============================================================================
