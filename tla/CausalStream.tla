---------------------------- MODULE CausalStream ----------------------------
(***************************************************************************)
(* What a streaming encoder promises whoever feeds it windows: the answer  *)
(* to a window is computed from that window and all windows since the last *)
(* restart, each once and in order.  A window that fails is not taken: it  *)
(* leaves no trace, and can be offered again.                              *)
(***************************************************************************)
EXTENDS Naturals, Sequences

VARIABLES
  history,  \* the windows taken since the last restart
  said      \* the answers given since then, each the windows it stands for

vars == <<history, said>>

Init == history = <<>> /\ said = {}

\* One more window, and the answer to it.
Take ==
  /\ Len(history') = Len(history) + 1
  /\ SubSeq(history', 1, Len(history)) = history
  /\ said' = said \cup {history'}

Restart == history' = <<>> /\ said' = {}

Next == Take \/ Restart

Spec == Init /\ [][Next]_vars
=============================================================================
