-------------------------- MODULE MCTurnTimeline --------------------------
(* Small instance of TurnTimeline: starts that chain within a tolerance of *)
(* one, two speakers and the empty label, snapshots of up to two turns.    *)
EXTENDS TurnTimeline

MCSpeaker == {1, 2}
MCTol == 1

MCTurn == {t \in [start : {0, 1, 2, 4}, end : {3, 5}, speaker : MCSpeaker \cup {NoLabel}] :
             t.start < t.end}
MCSnapshots == {<<t>> : t \in MCTurn} \cup {<<t, u>> : t, u \in MCTurn}

=============================================================================
