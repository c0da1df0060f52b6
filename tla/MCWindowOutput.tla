--------------------------- MODULE MCWindowOutput ---------------------------
(* Small instance of WindowOutput: three tokens of one or two characters of *)
(* every class, frames with and without gaps and times below zero, speakers *)
(* that change inside a word or that no segment has; or no token at all; or *)
(* a cumulative decode that rewrites or shortens what it said.              *)
EXTENDS WindowOutput

MCWordChars == {"w"}
MCWide == {"c"}
MCOthers == {"p"}
MCSpace == "_"

MCToken == {<<"w">>, <<"w", "p">>, <<"_", "w">>, <<"_">>, <<"p">>, <<"c">>}
MCText == {<<a, b, c>> : a, b, c \in MCToken}
MCFrames == {<<0, 1, 2>>, <<1, 3, 7>>}
MCIds == {<<1, 1, 1>>, <<0, 1, 2>>, <<2, 2, 1>>, <<1, 3, 1>>}

\* The same words as two segments cut after the first token, or as one.
Segments(t) ==
  {<<[start |-> 0, end |-> 4, speaker |-> 0, id |-> 1, text |-> t[1]],
     [start |-> 5, end |-> 12, speaker |-> 1, id |-> 2, text |-> t[2] \o t[3]]>>,
   <<[start |-> 2, end |-> 7, speaker |-> -1, id |-> 0, text |-> t[1] \o t[2] \o t[3]]>>}

\* Cumulative texts of the tokens.
Cumulative(t) == <<t[1], t[1] \o t[2], t[1] \o t[2] \o t[3]>>
TokensOf(d, f, ids) == [n \in DOMAIN d |-> [decoded |-> d[n], frame |-> f[n], id |-> ids[n]]]

MCTimed == {[segs |-> s, tokens |-> TokensOf(Cumulative(t), f, i)] :
              <<t, s, f, i>> \in UNION {{t} \X Segments(t) \X MCFrames \X MCIds : t \in MCText}}
MCUntimed == UNION {{[segs |-> s, tokens |-> <<>>] : s \in Segments(t)} : t \in MCText}
MCRewritten == UNION {{[segs |-> s, tokens |-> TokensOf(<<t[1], t[2] \o t[3], t[3]>>, <<0, 1, 2>>, <<1, 1, 2>>)] :
                         s \in Segments(t)} : t \in MCText}
MCReports == MCTimed \cup MCUntimed \cup MCRewritten \cup {[segs |-> <<>>, tokens |-> <<>>]}

=============================================================================
