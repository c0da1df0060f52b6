------------------------------- MODULE Turns -------------------------------
(***************************************************************************)
(* The turn list that Fusion keeps (src/src/fusion.h, turns_) and the two  *)
(* elementary things Fusion::update_turns does to it: refine the turn a    *)
(* snapshot turn re-states, or append a new one.  Constant operators only; *)
(* TurnTimeline runs the loop, EngineRun calls the whole function.         *)
(*                                                                         *)
(* A turn is a record of start and end (samples) and speaker.  The label   *)
(* strings of the diarizer are numbered in their lexicographic order, the  *)
(* empty string (no label) being 0, because std::map orders them that way  *)
(* in tag_sequence.  The confidence of a turn is carried to the output and *)
(* decides nothing, so it is left out.                                     *)
(***************************************************************************)
EXTENDS Integers, Sequences

CONSTANTS
  Speaker,   \* the labels the diarizer gives, as ranks in string order
  Tol        \* start samples this close are the same turn: rate / 100

ASSUME TurnsAssumption ==
  /\ Speaker \subseteq Nat \ {0}
  /\ Tol \in Nat

NoLabel == 0
Label == Speaker \cup {NoLabel}

Turn == [start : Nat, end : Nat, speaker : Label]

Larger(a, b) == IF a < b THEN b ELSE a
Smaller(a, b) == IF b < a THEN b ELSE a

(***************************************************************************)
(* The std::find_if of update_turns: the first entry whose start is within *)
(* the tolerance.                                                          *)
(***************************************************************************)
Near(e, t) == e.start - t.start <= Tol /\ t.start - e.start <= Tol

FirstMatch(ts, t, i) ==
  /\ i \in DOMAIN ts
  /\ Near(ts[i], t)
  /\ \A j \in DOMAIN ts : Near(ts[j], t) => i <= j

\* Bug: a turn of another speaker never matches.
HasMatchSameSpeaker(ts, t) ==
  \E i \in DOMAIN ts : Near(ts[i], t) /\ ts[i].speaker = t.speaker

HasMatch(ts, t) == \E i \in DOMAIN ts : Near(ts[i], t)

\* No two entries are near each other.
Apart(ts) == \A i, j \in DOMAIN ts : i # j => ~ Near(ts[i], ts[j])

(***************************************************************************)
(* The refinement in place: the later end wins, a label replaces the old   *)
(* one unless it is empty, the start stays.                                *)
(***************************************************************************)
\* Bugs: the latest end wins; an empty label replaces a known one; the entry
\* moves to the restated start; its start is widened by the tolerance.
RestatedLatestEnd(e, t) ==
  [e EXCEPT !.end = t.end, !.speaker = IF t.speaker = NoLabel THEN @ ELSE t.speaker]
RestatedAnyLabel(e, t) ==
  [e EXCEPT !.end = Larger(@, t.end), !.speaker = t.speaker]
RestatedMovesStart(e, t) ==
  [t EXCEPT !.end = Larger(@, e.end), !.speaker = IF @ = NoLabel THEN e.speaker ELSE @]

RestatedWidened(e, t) ==
  [e EXCEPT !.start = @ - Tol, !.end = Larger(@, t.end),
            !.speaker = IF t.speaker = NoLabel THEN @ ELSE t.speaker]

Restated(e, t) ==
  [start   |-> e.start,
   end     |-> Larger(e.end, t.end),
   speaker |-> IF t.speaker = NoLabel THEN e.speaker ELSE t.speaker]

(***************************************************************************)
(* std::sort by start.  The sort is not stable, so any ordered permutation *)
(* of the list is a possible result.                                       *)
(***************************************************************************)
Ordered(ts) == \A i, j \in DOMAIN ts : i < j => ts[i].start <= ts[j].start

Permutation(D) ==
  {p \in [D -> D] : /\ \A i, j \in D : p[i] = p[j] => i = j
                    /\ \A j \in D : \E i \in D : p[i] = j}

SortedOf(ts) ==
  {us \in {[i \in DOMAIN ts |-> ts[p[i]]] : p \in Permutation(DOMAIN ts)} :
     Ordered(us)}
=============================================================================
