------------------------- MODULE MCAttributionLoop -------------------------
(* Small instance: texts of up to five codepoints, three of them letters,  *)
(* up to three turns of two speakers in twelve samples, three gap policies. *)
EXTENDS AttributionLoop

MCSpeaker == {1, 2}
MCTol == 0
MCLetter == {"a", "b", "c"}
MCCharDur == 2

MCTexts ==
  {<<"a", "b", "c">>, <<"a", "b", " ", "c">>, <<"x", "a", "b", "y">>,
   <<"a", "b", "c", "a", "b">>, <<"a", " ", "x", "b", "c">>}

Over(start, end, speaker) == [start |-> start, end |-> end, speaker |-> speaker]

MCTurnLists ==
  {<<>>}
  \cup {<<Over(a, b, s)>> : a \in {0, 3}, b \in {5, 9}, s \in {0, 1}}
  \cup {<<Over(a, b, s), Over(c, 9, 3 - s)>> : a \in {0, 2}, b \in {3, 4, 6}, c \in {5, 7}, s \in {1, 2}}
  \cup {<<Over(0, 2, s), Over(3, b, 3 - s), Over(8, 9, s)>> : b \in {4, 6}, s \in {1, 2}}

MCGaps == {[fill |-> "nearest", snap |-> 0], [fill |-> "nearest", snap |-> 1],
           [fill |-> "previous", snap |-> 0]}
MCHorizons == {0, 4, 7}
=============================================================================
