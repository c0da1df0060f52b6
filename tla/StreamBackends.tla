--------------------------- MODULE StreamBackends ---------------------------
(***************************************************************************)
(* The two model backends under the run loop of the engine                 *)
(* (src/src/engine.cpp): every piece is pushed to the diarizer, which asks *)
(* its encoder for windows through the hook, and then accepted by the      *)
(* recognizer, which asks XasrLiteRT for chunks.  A call that fails ends   *)
(* the push and the run, or the accept, or the final decode, each with     *)
(* other consequences.                                                     *)
(***************************************************************************)
EXTENDS XasrStream, DiarEncoder

CONSTANT Pieces  \* how many pieces the audio has

ASSUME PiecesAssumption == Pieces \in Nat

VARIABLES
  phase,  \* "push", "accept", "hear", "decode" (final), "done", "failed", "aborted"
  piece,  \* pieces accepted
  nulls   \* (history) an accept since the last reset has returned NULL

runVars == <<phase, piece, nulls>>
vars == <<asrVars, diarVars, runVars>>

Init ==
  /\ AsrInit /\ DiarInit
  /\ phase = "push" /\ piece = 0 /\ nulls = FALSE

-----------------------------------------------------------------------------
(* The diarizer *)

\* A push, the one of the tail included, or the final decode asks for a window.
AskEncoder ==
  /\ phase \in {"push", "decode"}
  /\ Call
  /\ UNCHANGED <<asrVars, runVars>>

\* A window without an answer fails the push, and the run; the final decode it
\* only ends.
AfterHook ==
  IF diar' = "crashed" THEN "aborted"
  ELSE IF diar' = "idle" /\ answer' = Failed
  THEN IF phase = "push" THEN "failed" ELSE "done"
  ELSE phase

InHook ==
  /\ phase \in {"push", "decode"}
  /\ DiarStep
  /\ phase' = AfterHook
  /\ UNCHANGED <<asrVars, piece, nulls>>

\* The push is through: the piece goes to the recognizer; after the last one
\* (the tail, when there is one) the turns are decoded.
EndPush ==
  /\ phase = "push" /\ diar = "idle"
  /\ phase' = IF piece < Pieces THEN "accept" ELSE "decode"
  /\ UNCHANGED <<asrVars, diarVars, piece, nulls>>

EndDecode ==
  /\ phase = "decode" /\ diar = "idle"
  /\ phase' = "done"
  /\ UNCHANGED <<asrVars, diarVars, piece, nulls>>

-----------------------------------------------------------------------------
(* The recognizer *)

AcceptPiece ==
  /\ phase = "accept"
  /\ Accept
  /\ phase' = "hear"
  /\ piece' = piece + 1
  /\ UNCHANGED <<diarVars, nulls>>

\* The accept goes on; NULL is no error to the engine.
InAccept ==
  /\ phase = "hear"
  /\ AsrStep
  /\ phase' = IF asr' = "idle" THEN "push" ELSE "hear"
  /\ nulls' = (nulls \/ (asr' = "idle" /\ pos < rows))
  /\ UNCHANGED <<diarVars, piece>>

\* The stream may be started over between accepts; the engine does so once, when
\* it opens the stream.
StartOver ==
  /\ phase = "push" /\ diar = "idle"
  /\ Reset
  /\ nulls' = FALSE
  /\ UNCHANGED <<diarVars, phase, piece>>

StartOverAborts ==
  /\ phase = "push" /\ diar = "idle"
  /\ ResetAborts
  /\ phase' = "aborted"
  /\ UNCHANGED <<diarVars, piece, nulls>>

Stop == phase \in {"done", "failed", "aborted"} /\ UNCHANGED vars

Next ==
  \/ AskEncoder \/ InHook \/ EndPush \/ EndDecode
  \/ AcceptPiece \/ InAccept
  \/ StartOver \/ StartOverAborts \/ Stop

Spec == Init /\ [][Next]_vars

-----------------------------------------------------------------------------
(* Properties *)

\* Types of all parts.  One caller at a time: a hook is in progress only inside a
\* push or the final decode, a chunk only inside an accept, and never both.
TypeOK ==
  /\ AsrTypeOK /\ DiarTypeOK
  /\ phase \in {"push", "accept", "hear", "decode", "done", "failed", "aborted"}
  /\ piece \in 0 .. Pieces /\ nulls \in BOOLEAN
  /\ diar # "idle" => phase \in {"push", "decode", "aborted"}
  /\ asr \notin {"idle", "aborted"} => phase = "hear"

\* What a run may lose, and where it shows: unless an accept returned NULL, every
\* window of features that was complete is decoded, in order, from an unbroken
\* history, at its own time.
CompleteUnlessNull ==
  phase \in {"push", "accept", "decode", "done"} /\ ~ nulls =>
    /\ pos = rows
    /\ decoded = [n \in 1 .. pos |-> Upto(n)]
    /\ times = [n \in 1 .. pos |-> n - 1]
=============================================================================
