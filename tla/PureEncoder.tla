----------------------------- MODULE PureEncoder -----------------------------
(***************************************************************************)
(* What an encoder hook promises the diarizer: one call at a time, and the *)
(* answer to a call is a function of that call alone, Meaning, whatever    *)
(* was asked before; or the call fails.                                    *)
(***************************************************************************)
CONSTANTS
  Requests,    \* what can be asked
  Meaning(_),  \* the answer to it
  Failed       \* no answer

VARIABLES
  asked,   \* the call that is being answered, {} between calls
  answer   \* what the last call was answered, if it has been

vars == <<asked, answer>>

Init == asked = {} /\ answer = Failed

Ask ==
  /\ asked = {}
  /\ \E r \in Requests : asked' = {r}
  /\ answer' = Failed

Reply ==
  /\ \E r \in asked : answer' \in {Meaning(r), Failed}
  /\ asked' = {}

Next == Ask \/ Reply

Spec == Init /\ [][Next]_vars
=============================================================================
