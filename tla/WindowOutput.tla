---------------------------- MODULE WindowOutput ----------------------------
(***************************************************************************)
(* The --windows output of main (src/src/main.cpp) over the token table of *)
(* Engine::token_table (src/src/engine.cpp): the characters of the         *)
(* transcript, each with a time and a speaker number, are grouped into     *)
(* units (words with what trails them, single wide characters), and a unit *)
(* goes whole to the window its first character falls in.  Times are whole *)
(* units; rounding them down before dividing by the window changes none.   *)
(***************************************************************************)
EXTENDS Integers, SequencesExt

CONSTANTS
  WordChars,  \* what is_word_char accepts: letters, digits, ' and -
  Space,      \* the blank
  Wide,       \* characters that are no ASCII: each is a word of its own
  Others,     \* the rest of ASCII: punctuation
  Reports,    \* what the engine may hand over: segments and the token stream
  Hop,        \* length of a window
  FrameStep,  \* 40 ms, the time between two encoder frames
  Offset      \* token_offset_ms

Char == WordChars \cup {Space} \cup Wide \cup Others

\* A token with the text of all tokens up to it; at most one token per frame.
Report == [segs : Seq([start : Nat, end : Nat, speaker : Int, id : Int, text : Seq(Char)]),
           tokens : Seq([decoded : Seq(Char), frame : Nat, id : Int])]

ASSUME WindowAssumption ==
  /\ Reports \subseteq Report
  /\ Hop \in Nat \ {0} /\ FrameStep \in Nat /\ Offset \in Nat
  /\ WordChars \cap (Wide \cup Others) = {} /\ Wide \cap Others = {}
  /\ Space \notin WordChars \cup Wide \cup Others
  /\ \A r \in Reports : \A n \in 2 .. Len(r.tokens) : r.tokens[n - 1].frame < r.tokens[n].frame
  /\ \A r \in Reports : \A n \in 2 .. Len(r.segs) : r.segs[n - 1].end <= r.segs[n].start
  /\ \A r \in Reports : \A n \in DOMAIN r.segs : r.segs[n].start <= r.segs[n].end

VARIABLES
  pc,      \* "decode", "group" or "printed"
  report,  \* segs, and the recognizer's tokens behind token_table
  table,   \* the tokens decoded so far: [text, at, id]
  chars,   \* main's chars: [c, at, label]
  next,    \* the character looked at next
  buf,     \* buf, buf_at, buf_label
  win      \* windows of lines [label, text]

vars == <<pc, report, table, chars, next, buf, win>>

NoUnit == [text |-> <<>>, at |-> 0, label |-> -1]

Init ==
  /\ pc = "decode"
  /\ report \in Reports
  /\ table = <<>> /\ chars = <<>> /\ next = 1
  /\ buf = NoUnit /\ win = <<>>

-----------------------------------------------------------------------------
(* Engine::token_table *)

\* Tokens still to decode; a cumulative text that got shorter ends the table.
MoreTokens ==
  LET n == Len(table) + 1
  IN  /\ n <= Len(report.tokens)
      /\ n > 1 => Len(report.tokens[n].decoded) >= Len(report.tokens[n - 1].decoded)

\* A token's own text is what the cumulative text has more than the last one.
DecodeToken ==
  /\ pc = "decode"
  /\ MoreTokens
  /\ LET n    == Len(table) + 1
         prev == IF n = 1 THEN 0 ELSE Len(report.tokens[n - 1].decoded)
         tok  == report.tokens[n]
     IN  table' = Append(table, [text |-> SubSeq(tok.decoded, prev + 1, Len(tok.decoded)),
                                 at |-> tok.frame * FrameStep - Offset, id |-> tok.id])
  /\ UNCHANGED <<pc, report, chars, next, buf, win>>

-----------------------------------------------------------------------------
(* Characters and windows *)

\* Characters spread evenly over a span that begins at a time.
SpreadOver(text, start, span, label) ==
  [i \in DOMAIN text |-> [c |-> text[i], at |-> start + (span * (i - 1)) \div Len(text), label |-> label]]

\* The number the segments give a label, the last one if they disagree; -1 for
\* a speaker no segment has.
LabelOf(id) ==
  LET own == {n \in DOMAIN report.segs : report.segs[n].id = id}
  IN  IF own = {} THEN -1 ELSE report.segs[CHOOSE n \in own : \A m \in own : m <= n].speaker

\* Token times if there are any, else each segment's text over its span.
Characters ==
  IF table # <<>>
  THEN FlattenSeq([n \in DOMAIN table |->
         SpreadOver(table[n].text, table[n].at, FrameStep,
                    IF table[n].id = 0 THEN -1 ELSE LabelOf(table[n].id))])
  ELSE FlattenSeq([n \in DOMAIN report.segs |->
         LET s == report.segs[n] IN SpreadOver(s.text, s.start, s.end - s.start, s.speaker)])

\* nwin: enough windows for the segments, one at least.
Windows == Max({1} \cup {report.segs[n].end \div Hop + 1 : n \in DOMAIN report.segs})

\* A time before the first window or after the last one belongs to that one.
WindowAt(at) ==
  LET w == at \div Hop + 1 IN IF w < 1 THEN 1 ELSE IF w > Len(win) THEN Len(win) ELSE w

\* Bug: an empty unit opens a line.
AddedEmpty(ws, unit) ==
  LET w == WindowAt(unit.at)
  IN  [ws EXCEPT ![w] = Append(@, [label |-> unit.label, text |-> unit.text])]

\* add, for the unit flush passes on: a line goes on while the label is the same.
Added(ws, unit) ==
  LET w == WindowAt(unit.at)
  IN  IF unit.text = <<>> THEN ws
      ELSE IF ws[w] # <<>> /\ Last(ws[w]).label = unit.label
      THEN [ws EXCEPT ![w] = Append(Front(@), [label |-> unit.label, text |-> Last(@).text \o unit.text])]
      ELSE [ws EXCEPT ![w] = Append(@, [label |-> unit.label, text |-> unit.text])]

\* The table is complete: lay the characters out and open the windows.
BeginGrouping ==
  /\ pc = "decode"
  /\ ~ MoreTokens
  /\ pc' = "group"
  /\ chars' = Characters
  /\ win' = [w \in 1 .. Windows |-> <<>>]
  /\ UNCHANGED <<report, table, next, buf>>

-----------------------------------------------------------------------------
(* The loop over the characters, one action per branch *)

Here == chars[next]
Alone(ch) == [text |-> <<ch.c>>, at |-> ch.at, label |-> ch.label]

\* Look at the next character.
Take ==
  /\ pc = "group" /\ next <= Len(chars)
  /\ next' = next + 1
  /\ UNCHANGED <<pc, report, table, chars>>

\* Bug: the buffer is not flushed before a wide character.
OwnUnitUnflushed ==
  /\ Take
  /\ Here.c \in Wide
  /\ win' = Added(win, Alone(Here))
  /\ UNCHANGED buf

\* A wide character ends the unit and is one.
OwnUnit ==
  /\ Take
  /\ Here.c \in Wide
  /\ win' = Added(Added(win, buf), Alone(Here))
  /\ buf' = NoUnit

\* Bug: a new unit keeps the time the buffer had.
StartUnitStale ==
  /\ Take
  /\ Here.c \notin Wide /\ buf.text = <<>>
  /\ IF Here.c \in Others
     THEN win' = Added(win, Alone(Here)) /\ buf' = [buf EXCEPT !.text = <<>>]
     ELSE buf' = [Alone(Here) EXCEPT !.at = buf.at] /\ UNCHANGED win

\* The first character of a unit; punctuation alone is one.
StartUnit ==
  /\ Take
  /\ Here.c \notin Wide /\ buf.text = <<>>
  /\ IF Here.c \in Others
     THEN win' = Added(win, Alone(Here)) /\ buf' = NoUnit
     ELSE buf' = Alone(Here) /\ UNCHANGED win

Longer == [buf EXCEPT !.text = Append(@, Here.c)]

\* A blank ends the unit it follows.
Separator ==
  /\ Take
  /\ Here.c = Space /\ buf.text # <<>>
  /\ win' = Added(win, Longer)
  /\ buf' = NoUnit

\* Bug: a character of a later window starts a unit of its own.
ExtendCut ==
  /\ Take
  /\ Here.c \in WordChars \cup Others /\ buf.text # <<>>
  /\ Here.c \in WordChars \/ Last(buf.text) \in WordChars
  /\ IF WindowAt(Here.at) # WindowAt(buf.at)
     THEN win' = Added(win, buf) /\ buf' = Alone(Here)
     ELSE buf' = Longer /\ UNCHANGED win

\* A word goes on, or ends with the punctuation that follows it.
Extend ==
  /\ Take
  /\ Here.c \in WordChars \cup Others /\ buf.text # <<>>
  /\ Here.c \in WordChars \/ Last(buf.text) \in WordChars
  /\ IF Here.c \in WordChars
     THEN buf' = Longer /\ UNCHANGED win
     ELSE win' = Added(win, Longer) /\ buf' = NoUnit

\* Punctuation after a blank opens a unit and waits for what follows.
NextUnit ==
  /\ Take
  /\ Here.c \in Others /\ buf.text # <<>>
  /\ Last(buf.text) \notin WordChars
  /\ win' = Added(win, buf)
  /\ buf' = Alone(Here)

\* Bug: what is left in the buffer is not flushed.
EndUnflushed ==
  /\ pc = "group" /\ next > Len(chars)
  /\ pc' = "printed"
  /\ buf' = NoUnit
  /\ UNCHANGED <<report, table, chars, next, win>>

\* The end of the loop: flush, and print the windows that have lines.
EndOfText ==
  /\ pc = "group" /\ next > Len(chars)
  /\ pc' = "printed"
  /\ win' = Added(win, buf)
  /\ buf' = NoUnit
  /\ UNCHANGED <<report, table, chars, next>>

Stop == pc = "printed" /\ UNCHANGED vars

Next ==
  \/ DecodeToken \/ BeginGrouping
  \/ OwnUnit \/ StartUnit \/ Separator \/ Extend \/ NextUnit
  \/ EndOfText \/ Stop

Spec == Init /\ [][Next]_vars

-----------------------------------------------------------------------------
(* Properties *)

\* The lines of all windows, in the order they are printed, and the unit open.
Lines == FlattenSeq([w \in DOMAIN win |->
           [n \in DOMAIN win[w] |-> [window |-> w, label |-> win[w][n].label, text |-> win[w][n].text]]])

Printed == FlattenSeq([n \in DOMAIN Lines |-> Lines[n].text])

Said == [k \in DOMAIN chars |-> chars[k].c]

\* Windows hold lines of characters, one after the other without overlap.
TypeOK ==
  /\ pc \in {"decode", "group", "printed"}
  /\ report \in Report
  /\ next \in 1 .. Len(chars) + 1
  /\ buf.label \in Int /\ buf.at \in Int
  /\ \A n \in DOMAIN Lines : Lines[n].text # <<>> /\ Range(Lines[n].text) \subseteq Char

\* Every character looked at so far is in exactly one place, in order: printed
\* in a window, or in the buffer.
NothingLost == Printed \o buf.text = SubSeq(Said, 1, next - 1)

\* The windows print the text the segments carry, whatever times and speakers
\* the tokens have ("concatenated text is IDENTICAL either way"), as long as the
\* cumulative decode only appends and ends as the transcript.
Transcript(r) == FlattenSeq([n \in DOMAIN r.segs |-> r.segs[n].text])
Reproduces(r) ==
  \/ r.tokens = <<>>
  \/ /\ \A n \in 2 .. Len(r.tokens) : IsPrefix(r.tokens[n - 1].decoded, r.tokens[n].decoded)
     /\ r.tokens[Len(r.tokens)].decoded = Transcript(r)
SameTextEitherWay == pc = "printed" /\ Reproduces(report) => Printed = Transcript(report)

\* "Never cut a word at a window boundary": no line ends inside a word that the
\* next line goes on with, whatever tokens, times and speakers cut it.
WordsNeverCut ==
  \A n \in 2 .. Len(Lines) :
    ~ (Last(Lines[n - 1].text) \in WordChars /\ Head(Lines[n].text) \in WordChars)

\* Where each printed character is: window and label, by its position.
Place == FlattenSeq([n \in DOMAIN Lines |->
           [i \in DOMAIN Lines[n].text |-> [window |-> Lines[n].window, label |-> Lines[n].label]]])

\* A character is printed in the window and under the speaker its own time and
\* token give it, or it follows the character before it into that one's window
\* and line: only what trails the first character of a unit moves, and only to
\* an earlier window.
MovedOnlyWithItsWord ==
  pc # "decode" =>
    \A k \in DOMAIN Place :
      \/ Place[k] = [window |-> WindowAt(chars[k].at), label |-> chars[k].label]
      \/ /\ k > 1 /\ chars[k].c \notin Wide
         /\ Place[k] = Place[k - 1]
         /\ Place[k].window <= WindowAt(chars[k].at)

=============================================================================
