---------------------------- MODULE TurnTimeline ----------------------------
(***************************************************************************)
(* Fusion::update_turns (src/src/fusion.cpp), the only writer of the turn  *)
(* list, called by Engine::run with the turns of one diarizer push, of the *)
(* tail push or of the final decode.  One action per iteration of its loop *)
(* over the snapshot; the iteration that finishes the snapshot also does   *)
(* the sort that ends the function.                                        *)
(***************************************************************************)
EXTENDS Turns

CONSTANT Snapshots   \* the non-empty turn sequences a diarizer result may hold

ASSUME SnapshotsAssumption == Snapshots \subseteq (Seq(Turn) \ {<<>>})

VARIABLES
  turns,     \* Fusion::turns_
  pending,   \* the part of the snapshot the loop has still to visit
  told       \* history: the whole snapshot of the latest call

vars == <<turns, pending, told>>

Idle == pending = <<>>

TypeOK ==
  /\ turns \in Seq(Turn)
  /\ pending \in Seq(Turn)
  /\ told \in Seq(Turn)

Init ==
  /\ turns = <<>>
  /\ pending = <<>>
  /\ told = <<>>

\* The call: both callers return early on an empty snapshot.
BeginUpdate(s) ==
  /\ Idle
  /\ pending' = s
  /\ told' = s
  /\ UNCHANGED turns

\* The rest of an iteration, given the list it leaves: next turn, or the sort.
EndIteration(ts) ==
  /\ pending' = Tail(pending)
  /\ IF Tail(pending) = <<>> THEN turns' \in SortedOf(ts) ELSE turns' = ts
  /\ UNCHANGED told

RefineTurn(i) ==
  /\ ~ Idle
  /\ FirstMatch(turns, Head(pending), i)
  /\ EndIteration([turns EXCEPT ![i] = Restated(@, Head(pending))])

AppendTurn ==
  /\ ~ Idle
  /\ ~ HasMatch(turns, Head(pending))
  /\ EndIteration(Append(turns, Head(pending)))

Next ==
  \/ \E s \in Snapshots : BeginUpdate(s)
  \/ \E i \in DOMAIN turns : RefineTurn(i)
  \/ AppendTurn

Spec == Init /\ [][Next]_vars

-----------------------------------------------------------------------------
(* Properties *)

\* No two entries start within the tolerance of each other, in the middle of
\* a snapshot too: find_if never leaves a duplicate behind, so a restatement
\* has exactly one entry it can mean (fusion.cpp:97-100).
Separated == Apart(turns)

\* Some entry of ts starts near t and reaches at least to its end.
Represented(t, ts) ==
  \E i \in DOMAIN ts : Near(ts[i], t) /\ t.end <= ts[i].end

\* Between two calls the list is in order of start and every turn of the
\* latest snapshot is represented, whichever turns of the same snapshot were
\* merged into its entry after it (fusion.cpp:96-107).
SnapshotRepresented ==
  Idle => Ordered(turns) /\ \A k \in DOMAIN told : Represented(told[k], turns)

\* No step forgets a turn: each entry survives with its start, an end that is
\* not earlier, and a label if it had one (fusion.cpp:102-104).
Survives(e, ts) ==
  \E j \in DOMAIN ts : /\ ts[j].start = e.start
                       /\ e.end <= ts[j].end
                       /\ e.speaker # NoLabel => ts[j].speaker # NoLabel

NothingForgotten ==
  [][\A i \in DOMAIN turns : Survives(turns[i], turns')]_vars

\* A turn that is re-stated with the start it was first stated with refines
\* that very entry: the first match of find_if is the exact one, and every
\* other entry is left as it was ("re-stated with the same start and a later
\* end", fusion.cpp:93-94).
OthersUntouched(i) ==
  \A j \in DOMAIN turns \ {i} : \E k \in DOMAIN turns' : turns'[k] = turns[j]

RestatementHitsItsOwn ==
  [][\A i \in DOMAIN turns :
       ~ Idle /\ turns[i].start = Head(pending).start => OthersUntouched(i)]_vars

\* The comment of update_turns: "anything else (a new turn, a re-segmentation)
\* is a new interval" (fusion.cpp:93-94).  A turn of another speaker is a new
\* turn, so between calls each labelled turn of the snapshot has an entry under
\* its own label.
NewSpeakerIsNewInterval ==
  Idle => \A k \in DOMAIN told : told[k].speaker # NoLabel =>
            \E i \in DOMAIN turns : /\ turns[i].speaker = told[k].speaker
                                    /\ told[k].end <= turns[i].end

-----------------------------------------------------------------------------
(* The inductive invariant of the proofs *)

Visited == Len(told) - Len(pending)

\* What is pending is the end of the snapshot, and the turns the loop has
\* passed are represented.
LoopInv ==
  /\ Visited \in 0 .. Len(told)
  /\ \A k \in DOMAIN pending : pending[k] = told[Visited + k]
  /\ \A k \in 1 .. Visited : Represented(told[k], turns)
  /\ Idle => Ordered(turns)

IInv == TypeOK /\ Separated /\ LoopInv
=============================================================================
