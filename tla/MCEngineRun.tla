---------------------------- MODULE MCEngineRun ----------------------------
(* Small instance: three pieces of audio, three characters, three possible   *)
(* answers of the diarizer, and the set-ups that differ in what the run does. *)
EXTENDS EngineRun

MCSpeaker == {1, 2}
MCTol == 0
MCLetter == {"a", "b"}
MCCharDur == 2
MCSpoken == <<"a", "x", "b">>
MCTotal == 5
MCPiece == 2
MCLatency == 3
MCTokenShift == 1
MCTokenWidth == 1

Over(start, end, speaker) == [start |-> start, end |-> end, speaker |-> speaker]
MCSnapshots ==
  {<<>>, <<Over(0, 2, 1)>>, <<Over(0, 3, 2), Over(2, 4, 1)>>}

Plain == [timing |-> "auto", gap |-> [fill |-> "nearest", snap |-> 0], live |-> FALSE,
          skipDiar |-> FALSE, skipAsr |-> FALSE, tail |-> FALSE, finish |-> TRUE,
          tokens |-> "none", mayFail |-> {}]

\* A NULL accept before the last piece is harmless if the token table replaces
\* the timeline it spoils; the token timing is usable if there is a table.
MCSetups ==
  {Plain,
   [Plain EXCEPT !.live = TRUE],
   [Plain EXCEPT !.tokens = "exact", !.mayFail = {FALSE}],
   [Plain EXCEPT !.tokens = "differ", !.tail = TRUE, !.finish = FALSE],
   [Plain EXCEPT !.tokens = "exact", !.timing = "inferred", !.gap.fill = "previous"],
   [Plain EXCEPT !.tokens = "exact", !.timing = "tokens", !.live = TRUE, !.gap.snap = 1],
   [Plain EXCEPT !.skipDiar = TRUE],
   [Plain EXCEPT !.skipAsr = TRUE, !.live = TRUE]}

\* A NULL accept before the last piece, where no token table replaces the
\* timeline: there is none, or it is not asked for.
FailingSetups ==
  {[Plain EXCEPT !.mayFail = {FALSE}],
   [Plain EXCEPT !.mayFail = {FALSE}, !.tokens = "exact", !.timing = "inferred"]}

\* Token timing without a table, or with one that is not accepted.
TokenlessSetups ==
  {[Plain EXCEPT !.timing = "tokens"],
   [Plain EXCEPT !.timing = "tokens", !.tokens = "differ"]}

\* A NULL at the last accept; no run has these, the end of the text may be
\* missing (OnlyTheEndMissing).
EndlessSetups == {[Plain EXCEPT !.mayFail = {TRUE}]}

\* Which set-ups the theorems about Recovers are about: all of the passing run,
\* none of the violation runs.
ASSUME RecoveringSetups == \A s \in MCSetups : Recovers(s)
ASSUME NotRecovering == \A s \in FailingSetups \cup TokenlessSetups \cup EndlessSetups : ~ Recovers(s)

LiveSetups == {[Plain EXCEPT !.live = TRUE]}
=============================================================================
