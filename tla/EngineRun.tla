----------------------------- MODULE EngineRun -----------------------------
(***************************************************************************)
(* Engine::run (src/src/engine.cpp): the loop that feeds the same audio,   *)
(* piece by piece, first to the diarizer and then to the recognizer, pins  *)
(* the new text to the audio it decodes, and at the end attributes the     *)
(* text to the turns.  One action per step of the loop; the two engines    *)
(* are external and answer in any order and with any delay the interface   *)
(* allows.  Audio is counted in samples, scaled down with everything else. *)
(***************************************************************************)
EXTENDS Attribution

CONSTANTS
  Setups,      \* the configurations and builds a run may have
  Snapshots,   \* the turn sequences a diarizer result may hold, <<>> included
  Spoken,      \* what the recognizer would hear in the whole audio
  Total,       \* samples of audio
  Piece,       \* samples of a piece: piece_ms
  Latency,     \* Fusion::latency_s_: how far the recognizer is taken to lag
  TokenShift,  \* token_offset_ms: how late the model decides a token
  TokenWidth   \* the 40 ms of the last token

\* timing: where characters get their times from; live: provisional passes;
\* skipDiar, skipAsr: one engine only; tail: silence before the end; finish:
\* the final decode; tokens: the table of token times is missing ("none"), does
\* not reproduce the text ("differ") or does ("exact"); mayFail: the accepts
\* (before the last piece: FALSE, the last: TRUE) that may return NULL.
Setup == [timing : {"auto", "tokens", "inferred"}, gap : GapPolicy, live : BOOLEAN,
          skipDiar : BOOLEAN, skipAsr : BOOLEAN, tail : BOOLEAN, finish : BOOLEAN,
          tokens : {"none", "differ", "exact"}, mayFail : SUBSET BOOLEAN]

ASSUME EngineAssumption ==
  /\ Setups \subseteq Setup
  /\ \A s \in Setups : ~ (s.skipDiar /\ s.skipAsr)   \* main refuses both
  /\ Snapshots \subseteq Seq(Turn)
  /\ Spoken \in Seq(Range(Spoken))
  /\ Total \in Nat /\ Piece \in Nat \ {0}
  /\ Latency \in Nat /\ TokenShift \in Nat /\ TokenWidth \in Nat

VARIABLES
  cfg,           \* the set-up of this run
  pc,            \* the step of the run
  off,           \* samples fed before the current piece
  turns,         \* Fusion::turns_
  heard, times,  \* the recognizer's text and its token times
  asrText,       \* Engine::asr_text_
  text, spans,   \* Fusion::text_ and spans_
  charged,       \* charged_upto: audio already claimed by deltas
  marks, at,     \* attribute_all: the verdicts, and the character tagged next
  pieces, pass,  \* the loop of attribute; pass.ids (Engine::spk_id_) outlives it
  shown          \* the turns of the last provisional pass; turns_seen is its length

asr == <<heard, times, asrText>>
timeline == <<text, spans, charged>>
attribution == <<marks, at, pieces, pass>>
vars == <<cfg, pc, off, turns, asr, timeline, attribution, shown>>

Fed == Smaller(off + Piece, Total)
LastPiece == Fed = Total

Init ==
  /\ cfg \in Setups
  /\ pc = IF Total = 0 THEN "tail" ELSE "diarize"
  /\ off = 0
  /\ turns = <<>> /\ shown = <<>>
  /\ heard = <<>> /\ times = <<>> /\ asrText = <<>>
  /\ text = <<>> /\ spans = <<>> /\ charged = 0
  /\ marks = <<>> /\ at = 1 /\ pieces = <<>> /\ pass = StartOfPass(<<>>)

-----------------------------------------------------------------------------
(* Turns *)

\* One iteration of update_turns; TurnTimeline has the loop.
Merged(ts, t) ==
  IF HasMatch(ts, t)
  THEN LET i == CHOOSE i \in DOMAIN ts : FirstMatch(ts, t, i)
       IN  [ts EXCEPT ![i] = Restated(@, t)]
  ELSE Append(ts, t)

\* The turns of a result, all its events taken together, reach the fusion.
Harvest(snapshot) == turns' \in SortedOf(FoldLeft(Merged, turns, snapshot))

-----------------------------------------------------------------------------
(* Engine::attribute *)

\* push_timed_tokens accepts the table: it reproduces the streamed text.
UsesTokens ==
  /\ cfg.timing # "inferred" /\ ~ cfg.skipAsr
  /\ cfg.tokens = "exact" /\ heard # <<>>
  /\ heard = asrText

\* Bug: a token decided early begins before the audio.
TimedSpansUnclamped ==
  LET At(i)    == times[i] - TokenShift
      Until(i) == IF i < Len(times) THEN At(i + 1) ELSE At(i) + TokenWidth
  IN  [i \in DOMAIN times |-> Placed(1, At(i), Larger(Until(i), At(i) + 1), TRUE)[1]]

\* A token, here one character, takes the audio to the next one.
TimedSpans ==
  LET At(i)    == times[i] - TokenShift
      Until(i) == IF i < Len(times) THEN At(i + 1) ELSE At(i) + TokenWidth
  IN  [i \in DOMAIN times |->
         Placed(1, Larger(0, At(i)), Larger(Until(i), At(i) + 1), TRUE)[1]]

\* The characters a pass sees and where: exactly, if the table can be used.
PassText == IF UsesTokens THEN heard ELSE text
PassSpans == IF UsesTokens THEN TimedSpans ELSE spans

\* Bug: the final pass numbers on from the provisional ones.
KnownToFinalKept == pass.ids

\* The numbers the final pass starts with.
KnownToFinal == <<>>

\* The locals of attribute, between passes.
NoPass == marks' = <<>> /\ at' = 1 /\ pieces' = <<>>

\* Mark the characters; a provisional pass numbers on from the ones before it.
BeginPass ==
  /\ pc \in {"show", "attribute"}
  /\ marks' = Marks(turns, PassSpans, cfg.gap)
  /\ IF pc = "show" THEN pc' = "showing" /\ UNCHANGED pass
     ELSE pc' = "publishing" /\ pass' = StartOfPass(KnownToFinal)
  /\ UNCHANGED <<cfg, off, turns, asr, timeline, at, pieces, shown>>

InPass == pc \in {"showing", "publishing"}

TagUnit ==
  /\ InPass /\ at <= Len(PassText)
  /\ pieces' = PutUnit(pieces, PassText, marks, at, UnitEnd(PassText, at))
  /\ at' = UnitEnd(PassText, at) + 1
  /\ UNCHANGED <<cfg, pc, off, turns, asr, timeline, marks, pass, shown>>

TakeNextPiece ==
  /\ InPass /\ at > Len(PassText) /\ pieces # <<>>
  /\ pass' = TakePiece(pass, Head(pieces))
  /\ pieces' = Tail(pieces)
  /\ UNCHANGED <<cfg, pc, off, turns, asr, timeline, marks, at, shown>>

\* The last segment is closed.  Those of a provisional pass are printed and
\* forgotten, but for the numbers given.
EndPass ==
  /\ InPass /\ at > Len(PassText) /\ pieces = <<>>
  /\ IF pc = "showing" THEN pc' = "transcribe" /\ pass' = StartOfPass(pass.ids)
     ELSE pc' = "done" /\ pass' = CloseOpen(pass)
  /\ NoPass
  /\ UNCHANGED <<cfg, off, turns, asr, timeline, shown>>

-----------------------------------------------------------------------------
(* The loop *)

\* A provisional pass is due when the number of turns has changed since the
\* last one.
PushDiar ==
  /\ pc = "diarize" /\ ~ cfg.skipDiar
  /\ \E s \in Snapshots : Harvest(s)
  /\ IF cfg.live /\ Len(turns') # Len(shown)
     THEN pc' = "show" /\ shown' = turns'
     ELSE pc' = "transcribe" /\ UNCHANGED shown
  /\ UNCHANGED <<cfg, off, asr, timeline, attribution>>

PassDiarBy ==
  /\ pc = "diarize" /\ cfg.skipDiar
  /\ pc' = "transcribe"
  /\ UNCHANGED <<cfg, off, turns, asr, timeline, attribution, shown>>

\* A push that fails, in the loop or in the tail, ends the run.
PushFails ==
  /\ ~ cfg.skipDiar
  /\ pc = "diarize" \/ (pc = "tail" /\ cfg.tail)
  /\ pc' = "failed"
  /\ UNCHANGED <<cfg, off, turns, asr, timeline, attribution, shown>>

\* External: the recognizer has heard some more and, if it keeps times that can
\* be used, noted when.
Recognize ==
  \E n \in Len(heard) .. Len(Spoken) :
    /\ heard' = SubSeq(Spoken, 1, n)
    /\ IF cfg.tokens # "exact" THEN UNCHANGED times
       ELSE \E t \in off .. Fed : times' = times \o [k \in 1 .. n - Len(heard) |-> t]

\* Bugs: the horizon may lie before the audio already claimed; the latency is
\* added.
HorizonUnclamped == IF LastPiece THEN Total ELSE Fed - Latency
HorizonAhead == Larger(IF LastPiece THEN Total ELSE Fed + Latency, charged)

\* The audio the text so far describes: it lags by the latency.
Horizon == Larger(IF LastPiece THEN Total ELSE Fed - Latency, charged)

Pinned(delta) == Placed(Len(delta), charged, Horizon, FALSE)

\* Bug: a delta also repeats the last character.
DeltaOverlapping(cur) == SubSeq(cur, Larger(1, Len(asrText)), Len(cur))

\* What cur, the text of this accept, adds to that of the one before.
Delta(cur) == SubSeq(cur, Len(asrText) + 1, Len(cur))

\* Take the text of an accept and pin what is new in it to the audio.
TakeText(cur) ==
  /\ asrText' = cur
  /\ IF Delta(cur) = <<>> THEN UNCHANGED timeline
     ELSE /\ charged' = Horizon
          /\ IF cfg.timing = "tokens" THEN UNCHANGED <<text, spans>>
             ELSE /\ text' = text \o Delta(cur)
                  /\ spans' = spans \o Pinned(Delta(cur))

\* Bug: the piece is not advanced past the last full one.
NextPieceRounded ==
  /\ off' = IF off + Piece > Total THEN off ELSE off + Piece
  /\ pc' = IF off' < Total THEN "diarize" ELSE "tail"

NextPiece ==
  /\ off' = off + Piece
  /\ pc' = IF off' < Total THEN "diarize" ELSE "tail"

Accept ==
  /\ pc = "transcribe" /\ ~ cfg.skipAsr
  /\ Recognize
  /\ TakeText(heard')
  /\ NextPiece
  /\ UNCHANGED <<cfg, turns, attribution, shown>>

\* accept returned NULL: the engine takes it for an empty text.
AcceptFails ==
  /\ pc = "transcribe" /\ ~ cfg.skipAsr
  /\ LastPiece \in cfg.mayFail
  /\ Recognize
  /\ TakeText(<<>>)
  /\ NextPiece
  /\ UNCHANGED <<cfg, turns, attribution, shown>>

PassAsrBy ==
  /\ pc = "transcribe" /\ cfg.skipAsr
  /\ NextPiece
  /\ UNCHANGED <<cfg, turns, asr, timeline, attribution, shown>>

-----------------------------------------------------------------------------
(* After the loop *)

\* Push the diarizer some silence; its turns are kept, not shown.
PushTail ==
  /\ pc = "tail"
  /\ IF cfg.tail /\ ~ cfg.skipDiar THEN \E s \in Snapshots : Harvest(s)
     ELSE UNCHANGED turns
  /\ pc' = "finish"
  /\ UNCHANGED <<cfg, off, asr, timeline, attribution, shown>>

\* The final decode.  One that fails is passed over, like an empty one.
Finish ==
  /\ pc = "finish"
  /\ IF cfg.finish /\ ~ cfg.skipDiar THEN \E s \in Snapshots \cup {<<>>} : Harvest(s)
     ELSE UNCHANGED turns
  /\ pc' = "attribute"
  /\ UNCHANGED <<cfg, off, asr, timeline, attribution, shown>>

Ended == pc \in {"done", "failed"}

Stop == Ended /\ UNCHANGED vars

Next ==
  \/ PushDiar \/ PassDiarBy \/ PushFails
  \/ Accept \/ AcceptFails \/ PassAsrBy
  \/ PushTail \/ Finish
  \/ BeginPass \/ TagUnit \/ TakeNextPiece \/ EndPass
  \/ Stop

Spec == Init /\ [][Next]_vars /\ WF_vars(Next)

-----------------------------------------------------------------------------
(* Properties *)

\* What the caller has once the run is done.
Published == IF pc = "done" THEN pass.closed ELSE <<>>

\* Types; whichever timeline a pass would use now, each of its characters has a
\* place of positive length in the audio, equal or early token times included
\* (engine.cpp:364-366, fusion.cpp:168).
TypeOK ==
  /\ cfg \in Setups
  /\ pc \in {"diarize", "show", "showing", "transcribe", "tail", "finish", "attribute",
             "publishing", "done", "failed"}
  /\ off \in Nat
  /\ turns \in Seq(Turn) /\ shown \in Seq(Turn)
  /\ IsPrefix(heard, Spoken)
  /\ Len(times) = IF cfg.tokens = "exact" THEN Len(heard) ELSE 0
  /\ \A n \in DOMAIN times : times[n] \in 0 .. Total
  /\ asrText \in {heard, <<>>}
  /\ Len(text) = Len(spans)
  /\ \A k \in DOMAIN PassSpans : 0 <= PassSpans[k].start /\ PassSpans[k].start < PassSpans[k].end
  /\ charged \in 0 .. Total
  /\ IsInjective(pass.ids) /\ Range(pass.ids) \subseteq Speaker

\* No character is pinned to audio before the start, or to audio the engine has
\* not fed yet, in any order of deltas and latencies, but for the two samples
\* that rounding takes to the right of an empty interval (engine.cpp:609-617).
PinnedToFedAudio ==
  /\ charged <= off
  /\ \A k \in DOMAIN spans : 0 <= spans[k].start /\ spans[k].end <= charged + 2

\* The timeline is in the order of the text: a delta is pinned after the deltas
\* before it.  A character starts at most one sample (the rounding of an empty
\* interval) before its predecessor (engine.cpp:612-617, fusion.cpp:165-181).
TimelineInOrder ==
  \A j, k \in DOMAIN spans : j < k => spans[j].start <= spans[k].start + 1

\* The numbers of the published segments are the order of first appearance in
\* them, whatever the provisional passes showed before (engine.cpp:417-421).
NumberedAfresh ==
  \A n \in DOMAIN Published : Published[n].id # NoLabel =>
    Published[n].speaker = Cardinality({Published[m].id : m \in
      1 .. (CHOOSE f \in DOMAIN Published : /\ Published[f].id = Published[n].id
                                           /\ \A m \in 1 .. f - 1 : Published[m].id # Published[n].id) - 1}
      \ {NoLabel})

\* The run implements the promise: what is published is the transcript of the
\* recognizer, cut, never rewritten (docs/findings.md:207-208).
T == INSTANCE Transcript WITH
       transcript <- heard,
       lines      <- [n \in DOMAIN Published |->
                        [speaker |-> Published[n].speaker, text |-> Published[n].text]],
       state      <- CASE pc = "done" -> "published" [] pc = "failed" -> "failed"
                       [] OTHER -> "open"

LayerOverTranscript == T!Spec

\* The timing asked for can be had: with "tokens" nothing else is kept, and only
\* an exact table is accepted (engine.cpp:368, 406-408, 616).
Timed(s) == s.skipAsr \/ (s.timing = "tokens" => s.tokens = "exact")

\* The set-ups in which no text is lost or doubled whatever accept returns.  Three
\* things leave them: a timing that cannot be had; a last accept that returns NULL,
\* after which nothing is heard again; and an earlier one that does, where no exact
\* table replaces the timeline it spoils (engine.cpp:402-409, 601-603, 616).
Recovers(s) ==
  s.skipAsr \/ /\ Timed(s)
               /\ TRUE \notin s.mayFail
               /\ FALSE \in s.mayFail => s.timing # "inferred" /\ s.tokens = "exact"

\* Every run ends: each piece is fed once and the engines answer.
Terminates == <>Ended

\* "attribution is a layer over the transcript, never a rewrite of it"
\* (docs/findings.md:208).
NeverRewritten == pc = "done" => TextOf(Published) = heard

\* Less than that: what is published is heard from the beginning, once and
\* unchanged, though not always to the end.
OnlyTheEndMissing == pc = "done" => IsPrefix(TextOf(Published), heard)

\* What is published is the text the final pass was given, from whichever timeline.
SpellsThePassText == pc = "done" => TextOf(Published) = PassText

\* "re-attribute on every turn update" (engine.h, live_provisional): after a
\* push that changed the turns, the turns shown are the turns.
ShownOnEveryUpdate ==
  [][pc = "diarize" /\ cfg.live /\ turns' # turns => shown' = turns']_vars
=============================================================================
