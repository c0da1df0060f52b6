----------------------------- MODULE Transcript -----------------------------
(***************************************************************************)
(* What the composite engine promises its caller, without audio, turns or  *)
(* models: a transcript that only grows while the run is open, and, once,  *)
(* a list of lines (speaker number, text) that is the transcript cut into  *)
(* speaker changes; or a run that fails and publishes nothing.             *)
(***************************************************************************)
EXTENDS Integers, SequencesExt

VARIABLES
  transcript,   \* what the recognizer has said so far
  lines,        \* the lines published: [speaker, text]
  state         \* "open", "published" or "failed"

vars == <<transcript, lines, state>>

Init ==
  /\ transcript = <<>>
  /\ lines = <<>>
  /\ state = "open"

Hear ==
  /\ state = "open"
  /\ IsPrefix(transcript, transcript')
  /\ UNCHANGED <<lines, state>>

\* Numbers are given in the order of first appearance; -1 (text no turn covers)
\* only comes first; neighbours are different speakers.
WellNumbered(ls) ==
  \A n \in DOMAIN ls :
    LET before == {ls[m].speaker : m \in 1 .. n - 1}
    IN  /\ ls[n].speaker \in before \cup {Cardinality(before \ {-1})} \cup (IF n = 1 THEN {-1} ELSE {})
        /\ n > 1 => ls[n].speaker \notin {ls[n - 1].speaker, -1}

Publish ==
  /\ state = "open"
  /\ state' = "published"
  /\ FlattenSeq([n \in DOMAIN lines' |-> lines'[n].text]) = transcript
  /\ \A n \in DOMAIN lines' : lines'[n].text # <<>>
  /\ WellNumbered(lines')
  /\ UNCHANGED transcript

Fail ==
  /\ state = "open"
  /\ state' = "failed"
  /\ UNCHANGED <<transcript, lines>>

Next == Hear \/ Publish \/ Fail

Spec == Init /\ [][Next]_vars
=============================================================================
