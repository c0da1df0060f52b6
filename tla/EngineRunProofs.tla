-------------------------- MODULE EngineRunProofs --------------------------
(***************************************************************************)
(* Theorems about EngineRun, for audio of any length, cut into pieces of   *)
(* any size, any latency, any text, any answers of the diarizer and any    *)
(* set-ups: where deltas are pinned, how the published segments are        *)
(* numbered, that the run implements Transcript, and its types.            *)
(***************************************************************************)
EXTENDS EngineRun, AttributionProofs

Chars == Range(Spoken)

-----------------------------------------------------------------------------
(* The inductive invariant *)

\* The text is sequences of what was spoken, and has its places.
Heard ==
  /\ heard \in Seq(Chars) /\ asrText \in Seq(Chars) /\ text \in Seq(Chars)
  /\ spans \in Seq(Span) /\ Len(spans) = Len(text)
  /\ off \in Nat /\ charged \in Nat

\* Characters have a width; with PinnedToFedAudio this bounds their starts by
\* what is charged, which the next delta starts from.
Wide == \A k \in DOMAIN spans : spans[k].start < spans[k].end

\* The final pass, from its first piece to the published segments.
FinalPass ==
  /\ at \in Nat \ {0}
  /\ PieceList(pieces, Chars)
  /\ pc = "publishing" => InLoop(pass, Chars)
  /\ pc = "done" => Tidy(pass, Chars) /\ pass.closed = Segments(pass)

Timeline == Heard /\ Wide /\ PinnedToFedAudio /\ TimelineInOrder

EInv == Timeline /\ FinalPass

\* What is spoken is a sequence of its characters.
LEMMA SpokenFacts == Spoken \in Seq(Chars) /\ Len(Spoken) \in Nat
BY EngineAssumption DEF Chars

\* A run starts with no text and no segments.
LEMMA InitHolds == Init => EInv
<1>. SUFFICES ASSUME Init PROVE EInv
  OBVIOUS
<1>1. Heard /\ spans = <<>> /\ charged = 0 /\ off = 0
  BY EmptySeq DEF Init, Heard
<1>2. Wide /\ PinnedToFedAudio /\ TimelineInOrder
  BY <1>1 DEF Wide, PinnedToFedAudio, TimelineInOrder
<1>3. PieceList(pieces, Chars)
  BY EmptySeq DEF Init, PieceList
<1>4. at = 1 /\ pc \notin {"publishing", "done"}
  BY DEF Init
<1>. QED
  BY <1>1, <1>2, <1>3, <1>4 DEF EInv, Timeline, FinalPass

-----------------------------------------------------------------------------
(* The timeline *)

\* The audio fed after a piece covers the horizon.
LEMMA HorizonFacts ==
  ASSUME off \in Nat, charged \in Nat, charged <= off
  PROVE  Horizon \in Nat /\ charged <= Horizon /\ Horizon <= off + Piece
<1>1. Total \in Nat /\ Piece \in Nat /\ Latency \in Nat
  BY EngineAssumption
<1>2. LastPiece => Total <= off + Piece
  BY <1>1 DEF LastPiece, Fed, Smaller
<1>3. Fed \in Nat /\ Fed <= off + Piece
  BY <1>1 DEF Fed, Smaller
<1>. DEFINE h == IF LastPiece THEN Total ELSE Fed - Latency
<1>4. h \in Int /\ h <= off + Piece
  BY <1>1, <1>2, <1>3
<1>5. Horizon = Larger(h, charged)
  BY DEF Horizon
<1>. HIDE DEF h
<1>. QED
  BY <1>1, <1>4, <1>5 DEF Larger

\* A delta is pinned after what is charged, and in order.
LEMMA PinnedFacts ==
  ASSUME Timeline, NEW d \in Seq(Chars)
  PROVE  LET new == Pinned(d)
         IN  /\ new \in Seq(Span) /\ Len(new) = Len(d)
             /\ \A k \in 1 .. Len(d) : /\ charged <= new[k].start
                                       /\ new[k].start < new[k].end
                                       /\ new[k].end <= Horizon + 2
             /\ \A j, k \in 1 .. Len(d) : j <= k => new[j].start <= new[k].start
<1>1. /\ charged \in Nat /\ Horizon \in Nat /\ charged <= Horizon /\ Len(d) \in Nat
  BY HorizonFacts DEF Timeline, Heard, PinnedToFedAudio
<1>. DEFINE new == Placed(Len(d), charged, Horizon, FALSE)
            last == IF Horizon <= charged THEN charged + 1 ELSE Horizon
<1>2. /\ new \in Seq(Span) /\ Len(new) = Len(d)
      /\ \A k \in 1 .. Len(d) : /\ charged <= new[k].start
                                /\ new[k].start < new[k].end
                                /\ new[k].end <= last + 1
      /\ \A j, k \in 1 .. Len(d) : j <= k => new[j].start <= new[k].start
  BY <1>1, PlacedFacts
<1>3. last + 1 <= Horizon + 2 /\ last + 1 \in Nat
  BY <1>1
<1>. HIDE DEF new, last
<1>4. \A k \in 1 .. Len(d) : new[k].end \in Nat
  BY <1>2, SpansFacts
<1>5. \A k \in 1 .. Len(d) : new[k].end <= Horizon + 2
  BY <1>1, <1>2, <1>3, <1>4
<1>. QED
  BY <1>2, <1>5 DEF Pinned, new

\* The text of an accept extends the timeline and keeps its order.
LEMMA TakeTextFacts ==
  ASSUME Timeline, NEW cur \in Seq(Chars), TakeText(cur), heard' \in Seq(Chars), NextPiece
  PROVE  Timeline'
<1>. DEFINE d == Delta(cur)
            new == Pinned(d)
            n == Len(spans)
<1>1. off' = off + Piece /\ Piece \in Nat /\ off' \in Nat /\ asrText' = cur
  BY EngineAssumption DEF NextPiece, TakeText, Timeline, Heard
<1>2. d \in Seq(Chars) /\ Len(d) \in Nat
  <2>1. Len(asrText) + 1 \in Int /\ Len(cur) \in Int
    BY DEF Timeline, Heard
  <2>2. \A i \in Len(asrText) + 1 .. Len(cur) : cur[i] \in Chars
    BY DEF Timeline, Heard
  <2>3. d \in Seq(Chars)
    BY <2>1, <2>2, SubSeqProperties DEF Delta
  <2>. QED
    BY <2>3
<1>. HIDE DEF d
<1>3. /\ charged \in Nat /\ Horizon \in Nat /\ charged <= Horizon /\ Horizon <= off + Piece
      /\ charged <= off /\ off \in Nat
  BY HorizonFacts DEF Timeline, Heard, PinnedToFedAudio
<1>4. /\ spans \in Seq(Span) /\ n \in Nat /\ DOMAIN spans = 1 .. n /\ text \in Seq(Chars)
      /\ Len(text) = n
      /\ \A k \in 1 .. n : /\ spans[k].start \in Nat /\ spans[k].end \in Nat
                           /\ spans[k].start < spans[k].end /\ spans[k].end <= charged + 2
      /\ \A j, k \in 1 .. n : j < k => spans[j].start <= spans[k].start + 1
  <2>1. spans \in Seq(Span) /\ n \in Nat /\ DOMAIN spans = 1 .. n /\ text \in Seq(Chars) /\ Len(text) = n
    BY LenProperties DEF Timeline, Heard
  <2>2. \A k \in 1 .. n : spans[k].start \in Nat /\ spans[k].end \in Nat
    BY <2>1, SpansFacts
  <2>. QED
    BY <2>1, <2>2 DEF Timeline, Wide, PinnedToFedAudio, TimelineInOrder
<1>5. CASE UNCHANGED <<text, spans>> /\ charged' \in {charged, Horizon}
  <2>1. charged' \in Nat /\ charged <= charged' /\ charged' <= off'
    BY <1>1, <1>3, <1>5
  <2>2. Heard'
    BY <1>1, <1>4, <1>5, <2>1 DEF Heard
  <2>3. Wide' /\ TimelineInOrder'
    BY <1>5 DEF Wide, TimelineInOrder, Timeline
  <2>4. PinnedToFedAudio'
    BY <1>3, <1>4, <1>5, <2>1 DEF PinnedToFedAudio
  <2>. QED
    BY <2>2, <2>3, <2>4 DEF Timeline
<1>6. CASE charged' = Horizon /\ text' = text \o d /\ spans' = spans \o new
  <2>1. /\ new \in Seq(Span) /\ Len(new) = Len(d)
        /\ \A k \in 1 .. Len(d) : /\ charged <= new[k].start
                                  /\ new[k].start < new[k].end
                                  /\ new[k].end <= Horizon + 2
        /\ \A j, k \in 1 .. Len(d) : j <= k => new[j].start <= new[k].start
    BY <1>2, PinnedFacts
  <2>. HIDE DEF new
  <2>2. /\ n \in Nat /\ Len(d) \in Nat
        /\ new \in Seq(Span) /\ Len(new) = Len(d) /\ spans \in Seq(Span) /\ n = Len(spans)
        /\ text \in Seq(Chars) /\ d \in Seq(Chars) /\ Len(text) = n
    BY <1>2, <1>4, <2>1
  <2>. HIDE DEF n
  <2>3. \A k \in 1 .. Len(d) : new[k].start \in Nat /\ new[k].end \in Nat
    BY <2>2, SpansFacts
  <2>4. /\ spans' \in Seq(Span) /\ Len(spans') = n + Len(d) /\ DOMAIN spans' = 1 .. n + Len(d)
        /\ \A k \in 1 .. n : spans'[k] = spans[k]
        /\ \A k \in n + 1 .. n + Len(d) : k - n \in 1 .. Len(d) /\ spans'[k] = new[k - n]
    <3>1. spans' = spans \o new
      BY <1>6
    <3>2. /\ spans \o new \in Seq(Span) /\ Len(spans \o new) = Len(spans) + Len(new)
          /\ DOMAIN (spans \o new) = 1 .. Len(spans) + Len(new)
          /\ \A k \in 1 .. Len(spans) : (spans \o new)[k] = spans[k]
          /\ \A k \in Len(spans) + 1 .. Len(spans) + Len(new) :
               k - Len(spans) \in 1 .. Len(new) /\ (spans \o new)[k] = new[k - Len(spans)]
      <4>1. spans \in Seq(Span) /\ new \in Seq(Span)
        BY <2>2
      <4>. QED
        BY ONLY <4>1, SpansJoined
    <3>3. Len(spans) = n /\ Len(new) = Len(d)
      BY <2>2
    <3>. QED
      BY ONLY <3>1, <3>2, <3>3
  <2>5. text' \in Seq(Chars) /\ Len(text') = n + Len(d)
    <3>1. text' = text \o d
      BY <1>6
    <3>. QED
      BY <2>2, <3>1, ConcatProperties, ZenonT(30)
  <2>6. charged' \in Nat /\ charged <= charged' /\ charged' <= off'
    BY <1>1, <1>3, <1>6
  <2>7. Heard'
    BY <1>1, <2>4, <2>5, <2>6 DEF Heard
  <2>8. ASSUME NEW k \in DOMAIN spans'
        PROVE  /\ spans'[k].start \in Nat /\ spans'[k].start < spans'[k].end
               /\ spans'[k].end <= charged' + 2
    <3>1. CASE k \in 1 .. n
      BY <1>3, <1>4, <2>4, <2>6, <3>1, SMTT(30)
    <3>2. CASE k \in n + 1 .. n + Len(d)
      BY <1>6, <2>1, <2>3, <2>4, <3>2
    <3>3. k \in 1 .. n \/ k \in n + 1 .. n + Len(d)
      BY <2>2, <2>4
    <3>. QED
      BY <3>1, <3>2, <3>3
  <2>9. ASSUME NEW j \in DOMAIN spans', NEW k \in DOMAIN spans', j < k
        PROVE  spans'[j].start <= spans'[k].start + 1
    <3>1. CASE k \in 1 .. n
      <4>1. j \in 1 .. n
        BY <2>2, <2>4, <2>9, <3>1
      <4>. QED
        BY <1>4, <2>4, <2>9, <3>1, <4>1
    <3>2. CASE j \in n + 1 .. n + Len(d)
      <4>1. k \in n + 1 .. n + Len(d) /\ j - n \in 1 .. Len(d) /\ k - n \in 1 .. Len(d) /\ j - n <= k - n
        BY <2>2, <2>4, <2>9, <3>2
      <4>2. new[j - n].start <= new[k - n].start /\ new[j - n].start \in Nat /\ new[k - n].start \in Nat
        BY <2>1, <2>3, <4>1
      <4>. QED
        BY <2>4, <3>2, <4>1, <4>2, SMTT(30)
    <3>3. CASE j \in 1 .. n /\ k \in n + 1 .. n + Len(d)
      <4>1. k - n \in 1 .. Len(d) /\ spans'[k] = new[k - n] /\ spans'[j] = spans[j]
        BY <2>4, <3>3
      <4>2. charged <= new[k - n].start /\ new[k - n].start \in Nat
        BY <2>1, <2>3, <4>1
      <4>3. spans[j].start \in Nat /\ spans[j].end \in Nat /\ spans[j].start < spans[j].end
            /\ spans[j].end <= charged + 2
        BY <1>4, <3>3
      <4>4. charged \in Nat
        BY <1>3
      <4>5. spans[j].start <= new[k - n].start + 1
        BY <4>2, <4>3, <4>4
      <4>. QED
        BY <4>1, <4>5
    <3>4. /\ j \in 1 .. n \/ j \in n + 1 .. n + Len(d)
          /\ k \in 1 .. n \/ k \in n + 1 .. n + Len(d)
      BY <2>2, <2>4
    <3>. QED
      BY <3>1, <3>2, <3>3, <3>4
  <2>10. Wide'
    BY <2>8 DEF Wide
  <2>11. PinnedToFedAudio'
    BY <2>6, <2>8 DEF PinnedToFedAudio
  <2>12. TimelineInOrder'
    BY <2>9 DEF TimelineInOrder
  <2>. QED
    BY <2>7, <2>10, <2>11, <2>12 DEF Timeline
<1>7. \/ UNCHANGED <<text, spans>> /\ charged' \in {charged, Horizon}
      \/ charged' = Horizon /\ text' = text \o d /\ spans' = spans \o new
  BY DEF TakeText, timeline, d
<1>. QED
  BY <1>5, <1>6, <1>7

-----------------------------------------------------------------------------
(* The steps *)

\* The recognizer hears a longer part of what is spoken.
LEMMA RecognizeFacts ==
  ASSUME Heard, Recognize
  PROVE  heard' \in Seq(Chars)
<1>1. PICK n \in Len(heard) .. Len(Spoken) : heard' = SubSeq(Spoken, 1, n)
  BY DEF Recognize
<1>2. Len(heard) \in Nat /\ Len(Spoken) \in Nat /\ \A i \in 1 .. Len(Spoken) : Spoken[i] \in Chars
  BY SpokenFacts, LenProperties, ElementOfSeq DEF Heard
<1>3. n \in Int /\ 1 \in Int /\ \A i \in 1 .. n : Spoken[i] \in Chars
  BY <1>2
<1>4. SubSeq(Spoken, 1, n) \in Seq(Chars)
  BY <1>3, SubSeqProperties
<1>. QED
  BY <1>1, <1>4

\* Only an accept touches the timeline and the audio position.
LEMMA TimelineStep ==
  ASSUME Timeline, [Next]_vars
  PROVE  Timeline'
<1>1. CASE Accept
  <2>1. TakeText(heard') /\ NextPiece /\ heard' \in Seq(Chars)
    BY <1>1, RecognizeFacts DEF Accept, Timeline
  <2>. QED
    BY <2>1, TakeTextFacts
<1>2. CASE AcceptFails
  <2>1. TakeText(<<>>) /\ NextPiece /\ heard' \in Seq(Chars) /\ <<>> \in Seq(Chars)
    BY <1>2, RecognizeFacts, EmptySeq DEF AcceptFails, Timeline
  <2>. QED
    BY <2>1, TakeTextFacts
<1>3. CASE PassAsrBy
  <2>1. off' = off + Piece /\ Piece \in Nat
    BY <1>3, EngineAssumption DEF PassAsrBy, NextPiece
  <2>2. off' \in Nat /\ charged <= off'
    BY <2>1 DEF Timeline, Heard, PinnedToFedAudio
  <2>3. UNCHANGED <<heard, asrText, text, spans, charged>>
    BY <1>3 DEF PassAsrBy, asr, timeline
  <2>. QED
    BY <2>2, <2>3 DEF Timeline, Heard, Wide, PinnedToFedAudio, TimelineInOrder
<1>4. CASE UNCHANGED <<off, heard, asrText, text, spans, charged>>
  BY <1>4 DEF Timeline, Heard, Wide, PinnedToFedAudio, TimelineInOrder
<1>. QED
  BY <1>1, <1>2, <1>3, <1>4
  DEF Next, PushDiar, PassDiarBy, PushFails, PushTail, Finish, BeginPass, TagUnit,
      TakeNextPiece, EndPass, Stop, asr, timeline, attribution, vars

\* Steps outside the passes leave the final pass alone, and do not begin it.
LEMMA FinalPassStep ==
  ASSUME Heard, FinalPass, [Next]_vars
  PROVE  FinalPass'
<1>1. CASE BeginPass
  <2>1. UNCHANGED <<at, pieces>> /\ pc' # "done"
    BY <1>1 DEF BeginPass
  <2>2. pc' = "publishing" => pass' = StartOfPass(<<>>)
    BY <1>1 DEF BeginPass, KnownToFinal
  <2>. QED
    BY <2>1, <2>2, StartFacts DEF FinalPass
<1>2. CASE TagUnit
  <2>. DEFINE last == UnitEnd(PassText, at)
  <2>1. /\ at <= Len(PassText) /\ UNCHANGED <<pc, pass>>
        /\ pieces' = PutUnit(pieces, PassText, marks, at, last) /\ at' = last + 1
    BY <1>2 DEF TagUnit
  <2>2. PassText \in Seq(Chars)
    BY DEF PassText, Heard
  <2>3. at \in 1 .. Len(PassText) /\ last \in at .. Len(PassText) /\ Len(PassText) \in Nat
    BY <2>1, <2>2, UnitEndFacts DEF FinalPass
  <2>. HIDE DEF last
  <2>4. at' \in Nat \ {0}
    BY <2>1, <2>3
  <2>5. PieceList(pieces, Chars)
    BY DEF FinalPass
  <2>6. PieceList(pieces', Chars)
    BY <2>1, <2>2, <2>3, <2>5, PutUnitFacts
  <2>. QED
    BY <2>1, <2>4, <2>6 DEF FinalPass
<1>3. CASE TakeNextPiece
  <2>1. /\ pieces # <<>> /\ UNCHANGED <<pc, at>> /\ InPass
        /\ pass' = TakePiece(pass, Head(pieces)) /\ pieces' = Tail(pieces)
    BY <1>3 DEF TakeNextPiece
  <2>2. PICK L, K : pieces \in Seq(PieceOf(L, K, Chars))
    BY DEF FinalPass, PieceList
  <2>3. Head(pieces) \in PieceOf(L, K, Chars) /\ Tail(pieces) \in Seq(PieceOf(L, K, Chars))
    BY <2>1, <2>2, HeadTailProperties
  <2>4. PieceList(pieces', Chars)
    BY <2>1, <2>3 DEF PieceList
  <2>5. Head(pieces).text \in Seq(Chars) \ {<<>>}
    BY <2>3 DEF PieceOf
  <2>6. pc = "publishing" => InLoop(pass', Chars)
    BY <2>1, <2>5, TakePieceFacts DEF FinalPass
  <2>. QED
    BY <2>1, <2>4, <2>6 DEF FinalPass, InPass
<1>4. CASE EndPass
  <2>1. at' = 1 /\ pieces' = <<>> /\ pc' # "publishing" /\ InPass
    BY <1>4 DEF EndPass, NoPass
  <2>2. pc' = "done" => pc = "publishing" /\ pass' = CloseOpen(pass)
    BY <1>4 DEF EndPass, InPass
  <2>3. pc' = "done" => Tidy(pass', Chars) /\ pass'.closed = Segments(pass')
    BY <2>2, CloseFacts DEF FinalPass, InLoop
  <2>4. PieceList(pieces', Chars)
    BY <2>1, EmptySeq DEF PieceList
  <2>. QED
    BY <2>1, <2>3, <2>4 DEF FinalPass
<1>5. CASE UNCHANGED <<at, pieces, pass>> /\ (pc' = pc \/ pc' \notin {"publishing", "done"})
  BY <1>5 DEF FinalPass
<1>. QED
  BY <1>1, <1>2, <1>3, <1>4, <1>5
  DEF Next, PushDiar, PassDiarBy, PushFails, Accept, AcceptFails, PassAsrBy, NextPiece,
      PushTail, Finish, Stop, attribution, vars

\* The invariant holds throughout a run.
LEMMA InductiveInvariant == Spec => []EInv
<1>1. EInv /\ [Next]_vars => EInv'
  BY TimelineStep, FinalPassStep DEF EInv, Timeline
<1>. QED
  BY InitHolds, <1>1, PTL DEF Spec

-----------------------------------------------------------------------------
(* The theorems *)

\* No character is ever pinned to audio that has not been fed, but for two
\* samples of rounding, and the audio claimed has been fed (engine.cpp:609-617).
THEOREM PinnedBehindTheFeed == Spec => []PinnedToFedAudio
BY InductiveInvariant, PTL DEF EInv, Timeline

\* Deltas are pinned one after the other, whatever the latency, the failures and
\* the sizes of pieces and deltas (engine.cpp:612-617).
THEOREM TimelineOrdered == Spec => []TimelineInOrder
BY InductiveInvariant, PTL DEF EInv, Timeline

\* Numbers given in order of first appearance count the labels before.
LEMMA PublishedNumbers == EInv => NumberedAfresh
<1>1. pc # "done" => NumberedAfresh
  <2>1. pc # "done" => Published = <<>> /\ DOMAIN Published = {}
    BY DEF Published
  <2>. QED
    BY <2>1 DEF NumberedAfresh
<1>. SUFFICES ASSUME EInv, pc = "done" PROVE NumberedAfresh
  BY <1>1
<1>. DEFINE segs == pass.closed
<1>2. Published = segs
  BY DEF Published
<1>3. PICK L : pass \in PassState(L, Chars) /\ Numbered(segs, pass.ids)
  BY DEF EInv, FinalPass, Tidy
<1>4. segs \in Seq(SegmentOf(L, Chars)) /\ pass.ids \in Seq(L)
  BY <1>3 DEF PassState
<1>. DEFINE k == Len(segs)
<1>5. k \in Nat /\ DOMAIN segs = 1 .. k
  BY <1>4, LenProperties
<1>. HIDE DEF segs, k
<1>6. ASSUME NEW n \in DOMAIN segs, segs[n].id # NoLabel
      PROVE  LET First(f) == /\ segs[f].id = segs[n].id
                             /\ \A m \in 1 .. f - 1 : segs[m].id # segs[n].id
                 f == CHOOSE f \in DOMAIN segs : First(f)
             IN  segs[n].speaker = Cardinality({segs[m].id : m \in 1 .. f - 1} \ {NoLabel})
  <2>. DEFINE First(f) == /\ segs[f].id = segs[n].id
                          /\ \A m \in 1 .. f - 1 : segs[m].id # segs[n].id
              g == CHOOSE f \in DOMAIN segs : First(f)
  <2>1. n \in 1 .. k /\ k \in Nat /\ DOMAIN segs = 1 .. k /\ segs[n].id # NoLabel
    BY <1>5, <1>6
  <2>2. /\ \E f \in 1 .. n : FirstOfLabel(segs, n, f)
        /\ \A f \in 1 .. k : FirstOfLabel(segs, n, f) =>
             segs[n].speaker = Cardinality(LabelsOf(segs, f - 1))
    BY <1>3, <1>4, <2>1, NumbersCount
  <2>. HIDE DEF First
  <2>3. \A f : First(f) <=> FirstOfLabel(segs, n, f)
    BY DEF First, FirstOfLabel
  <2>4. \E f \in DOMAIN segs : First(f)
    <3>1. 1 .. n \subseteq DOMAIN segs
      BY <2>1
    <3>. QED
      BY <2>2, <2>3, <3>1
  <2>5. g \in DOMAIN segs /\ First(g)
    BY <2>4
  <2>. HIDE DEF g
  <2>6. segs[n].speaker = Cardinality(LabelsOf(segs, g - 1))
    BY <1>5, <2>2, <2>3, <2>5
  <2>. QED
    BY <2>6 DEF LabelsOf, First, g
<1>. QED
  BY <1>2, <1>6 DEF NumberedAfresh

\* The numbers of the published segments count the labels published before: the
\* provisional passes leave no trace in them (engine.cpp:417-421).
THEOREM NumbersAreFresh == Spec => []NumberedAfresh
BY InductiveInvariant, PublishedNumbers, PTL

-----------------------------------------------------------------------------
(* Numbers of published lines *)

\* Segments without a label have the number of none; neighbours have different labels.
Alternating(segs) ==
  \A n \in DOMAIN segs : /\ segs[n].id = NoLabel => segs[n].speaker = Unattributed
                         /\ n # 1 => segs[n].id # segs[n - 1].id

\* A piece keeps them so.
LEMMA AlternatingKept ==
  ASSUME NEW C, NEW st, InLoop(st, C), Alternating(Segments(st)),
         NEW p, p.text \in Seq(C) \ {<<>>}
  PROVE  Alternating(Segments(TakePiece(st, p)))
<1>. DEFINE segs == Segments(st)
            more == Segments(TakePiece(st, p))
            n == Len(segs)
<1>1. /\ \A i \in 1 .. n : more[i].id = segs[i].id /\ more[i].speaker = segs[i].speaker
      /\ Len(more) # n =>
           /\ Len(more) = n + 1 /\ more[Len(more)].id = p.speaker
           /\ p.speaker = NoLabel => more[Len(more)].speaker = Unattributed
           /\ segs # <<>> => p.speaker \notin {NoLabel, segs[n].id}
  BY TakeGrows
<1>2. InLoop(TakePiece(st, p), C)
  BY TakePieceFacts
<1>3. \A any : InLoop(any, C) => \E S : Segments(any) \in Seq(S)
  BY SegmentsFacts DEF InLoop, Tidy
<1>4. /\ n \in Nat /\ DOMAIN segs = 1 .. n
      /\ DOMAIN more = 1 .. Len(more)
      /\ n # 0 => segs # <<>>
  <2>1. PICK S : segs \in Seq(S)
    BY <1>3
  <2>2. PICK R : more \in Seq(R)
    BY <1>2, <1>3
  <2>. HIDE DEF segs, more
  <2>. QED
    BY <2>1, <2>2, LenProperties, EmptySeq
<1>. HIDE DEF segs, more, n
<1>5. ASSUME NEW i \in DOMAIN more
      PROVE  /\ more[i].id = NoLabel => more[i].speaker = Unattributed
             /\ i # 1 => more[i].id # more[i - 1].id
  <2>1. CASE i \in 1 .. n
    <3>1. i # 1 => i - 1 \in 1 .. n
      BY <1>4, <2>1
    <3>2. i \in DOMAIN segs /\ Alternating(segs)
      BY <1>4, <2>1 DEF segs
    <3>. QED
      BY <1>1, <2>1, <3>1, <3>2 DEF Alternating
  <2>2. CASE i \notin 1 .. n
    <3>0. Len(more) # n
      BY <1>4, <2>2
    <3>1. i = n + 1 /\ Len(more) = n + 1 /\ Len(more) # n
      <4>1. Len(more) = n + 1
        BY <1>1, <3>0
      <4>. QED
        BY <1>4, <2>2, <3>0, <4>1
    <3>2. i # 1 => i - 1 = n /\ n \in 1 .. n
      BY <1>4, <3>1
    <3>3. i # 1 => segs # <<>> /\ more[i - 1].id = segs[n].id
      BY <1>1, <1>4, <3>1, <3>2
    <3>. QED
      BY <1>1, <3>1, <3>3
  <2>. QED
    BY <2>1, <2>2
<1>. QED
  BY <1>5 DEF Alternating, more

\* The numbers of segments 1 .. n - 1.
NumbersOf(segs, n) == {segs[m].speaker : m \in 1 .. n - 1}

\* A number is one given before or the next one; only the first segment has none;
\* neighbours have different numbers.
LEMMA NumbersInOrder ==
  ASSUME NEW segs, NEW k \in Nat, DOMAIN segs = 1 .. k, NEW L, NEW ids \in Seq(L),
         Numbered(segs, ids), Alternating(segs), NEW n \in 1 .. k
  PROVE  /\ segs[n].speaker \in NumbersOf(segs, n)
                                  \cup {Cardinality(NumbersOf(segs, n) \ {-1})}
                                  \cup (IF n = 1 THEN {-1} ELSE {})
         /\ n > 1 => segs[n].speaker \notin {segs[n - 1].speaker, -1}
<1>. DEFINE given == NumbersOf(segs, n)
<1>1. Len(ids) \in Nat /\ DOMAIN ids = 1 .. Len(ids)
  BY LenProperties
<1>2. ASSUME NEW m \in 1 .. k, segs[m].id # NoLabel
      PROVE  \E p \in 1 .. Len(ids) : ids[p] = segs[m].id /\ segs[m].speaker = p - 1
  BY <1>1, <1>2 DEF Numbered
<1>3. \A p, q \in 1 .. Len(ids) : ids[p] = ids[q] => p = q
  BY <1>1 DEF Numbered
<1>4. \A m \in 1 .. k : /\ segs[m].id = NoLabel => m = 1 /\ segs[m].speaker = -1
                        /\ m # 1 => segs[m].id # segs[m - 1].id
  BY DEF Numbered, Alternating, Unattributed
<1>5. CASE segs[n].id = NoLabel
  BY <1>4, <1>5
<1>6. CASE segs[n].id # NoLabel
  <2>1. PICK p \in 1 .. Len(ids) : ids[p] = segs[n].id /\ segs[n].speaker = p - 1
    BY <1>2, <1>6
  <2>2. n > 1 => segs[n].speaker \notin {segs[n - 1].speaker, -1}
    <3>. SUFFICES ASSUME n > 1 PROVE segs[n].speaker \notin {segs[n - 1].speaker, -1}
      OBVIOUS
    <3>1. n - 1 \in 1 .. k /\ n # 1
      OBVIOUS
    <3>2. CASE segs[n - 1].id = NoLabel
      BY <1>4, <2>1, <3>1, <3>2
    <3>3. CASE segs[n - 1].id # NoLabel
      <4>1. PICK q \in 1 .. Len(ids) : ids[q] = segs[n - 1].id /\ segs[n - 1].speaker = q - 1
        BY <1>2, <3>1, <3>3
      <4>2. p # q
        BY <1>4, <2>1, <3>1, <4>1
      <4>. QED
        BY <2>1, <4>1, <4>2
    <3>. QED
      BY <3>2, <3>3
  <2>3. CASE \E m \in 1 .. n - 1 : segs[m].id = segs[n].id
    <3>1. PICK m \in 1 .. n - 1 : segs[m].id = segs[n].id
      BY <2>3
    <3>2. PICK q \in 1 .. Len(ids) : ids[q] = segs[m].id /\ segs[m].speaker = q - 1
      BY <1>2, <1>6, <3>1
    <3>3. segs[n].speaker = segs[m].speaker
      BY <1>3, <2>1, <3>1, <3>2
    <3>4. segs[n].speaker \in given
      BY <3>3 DEF NumbersOf
    <3>. QED
      BY <2>2, <3>4
  <2>4. CASE \A m \in 1 .. n - 1 : segs[m].id # segs[n].id
    <3>1. PICK f \in 1 .. k : Introduces(segs, f, ids, p)
      BY <1>1, <2>1 DEF Numbered
    <3>2. segs[f].id = ids[p] /\ LabelsOf(segs, f - 1) = {ids[q] : q \in 1 .. p - 1}
      BY <3>1 DEF Introduces
    <3>3. f = n
      <4>1. ~ (f < n)
        BY <2>1, <2>4, <3>2
      <4>2. ASSUME n < f PROVE FALSE
        <5>1. n \in 1 .. f - 1
          BY <4>2
        <5>2. ids[p] \in LabelsOf(segs, f - 1)
          BY <1>6, <2>1, <5>1 DEF LabelsOf
        <5>3. PICK q \in 1 .. p - 1 : ids[q] = ids[p]
          BY <3>2, <5>2
        <5>. QED
          BY <1>1, <1>3, <5>3
      <4>. QED
        BY <4>1, <4>2
    <3>4. LabelsOf(segs, n - 1) = {ids[q] : q \in 1 .. p - 1}
      BY <3>2, <3>3
    <3>5. given \ {-1} = 0 .. p - 2
      <4>1. ASSUME NEW x \in given, x # -1
            PROVE  x \in 0 .. p - 2
        <5>1. PICK m \in 1 .. n - 1 : x = segs[m].speaker
          BY DEF NumbersOf
        <5>2. m \in 1 .. k /\ segs[m].id # NoLabel
          BY <1>4, <4>1, <5>1
        <5>3. PICK q \in 1 .. Len(ids) : ids[q] = segs[m].id /\ segs[m].speaker = q - 1
          BY <1>2, <5>2
        <5>4. ids[q] \in LabelsOf(segs, n - 1)
          BY <5>2, <5>3 DEF LabelsOf
        <5>5. PICK r \in 1 .. p - 1 : ids[q] = ids[r]
          BY <3>4, <5>4
        <5>6. q = r
          BY <1>1, <1>3, <5>5
        <5>. QED
          BY <1>1, <5>1, <5>3, <5>6
      <4>2. ASSUME NEW x \in 0 .. p - 2
            PROVE  x \in given /\ x # -1
        <5>1. x + 1 \in 1 .. p - 1 /\ x + 1 \in 1 .. Len(ids)
          BY <1>1
        <5>2. ids[x + 1] \in LabelsOf(segs, n - 1)
          BY <3>4, <5>1
        <5>3. PICK m \in 1 .. n - 1 : segs[m].id = ids[x + 1] /\ segs[m].id # NoLabel
          BY <5>2 DEF LabelsOf
        <5>4. PICK q \in 1 .. Len(ids) : ids[q] = segs[m].id /\ segs[m].speaker = q - 1
          BY <1>2, <5>3
        <5>5. q = x + 1
          BY <1>3, <5>1, <5>3, <5>4
        <5>6. segs[m].speaker = x
          BY <5>4, <5>5
        <5>. QED
          BY <5>6 DEF NumbersOf
      <4>. QED
        BY <4>1, <4>2
    <3>6. Cardinality(given \ {-1}) = p - 1
      <4>1. Cardinality(0 .. p - 2) = IF 0 > p - 2 THEN 0 ELSE p - 2 - 0 + 1
        <5>1. PICK b \in Int : b = p - 2
          BY <1>1
        <5>2. Cardinality(0 .. b) = IF 0 > b THEN 0 ELSE b - 0 + 1
          BY FS_Interval
        <5>. QED
          BY <5>1, <5>2
      <4>2. (IF 0 > p - 2 THEN 0 ELSE p - 2 - 0 + 1) = p - 1
        BY <1>1
      <4>. QED
        BY <3>5, <4>1, <4>2, Zenon
    <3>. QED
      BY <2>1, <2>2, <3>6
  <2>. QED
    BY <2>3, <2>4
<1>. QED
  BY <1>5, <1>6

\* Segments as lines: they spell the joined texts, none is empty, and they are
\* numbered as the promise asks.
LEMMA PublishedWell ==
  ASSUME NEW C, NEW L, NEW segs \in Seq(SegmentOf(L, C)), NEW K, NEW ids \in Seq(K),
         Numbered(segs, ids), Alternating(segs)
  PROVE  LET ls == [n \in DOMAIN segs |-> [speaker |-> segs[n].speaker, text |-> segs[n].text]]
         IN  /\ T!FlattenSeq([n \in DOMAIN ls |-> ls[n].text]) = Joined(segs)
             /\ \A n \in DOMAIN ls : ls[n].text # <<>>
             /\ T!WellNumbered(ls)
<1>. DEFINE ls == [n \in DOMAIN segs |-> [speaker |-> segs[n].speaker, text |-> segs[n].text]]
<1>1. Len(segs) \in Nat /\ DOMAIN segs = 1 .. Len(segs)
      /\ \A n \in 1 .. Len(segs) : segs[n].text # <<>>
  <2>1. \A n \in 1 .. Len(segs) : segs[n] \in SegmentOf(L, C)
    BY ElementOfSeq
  <2>. QED
    BY <2>1, LenProperties DEF SegmentOf
<1>2. /\ DOMAIN ls = DOMAIN segs
      /\ \A n \in DOMAIN segs : ls[n].speaker = segs[n].speaker /\ ls[n].text = segs[n].text
  OBVIOUS
<1>. HIDE DEF ls
<1>3. T!FlattenSeq([n \in DOMAIN ls |-> ls[n].text]) = Joined(segs)
  <2>1. [n \in DOMAIN ls |-> ls[n].text] = [n \in DOMAIN segs |-> segs[n].text]
    BY <1>2
  <2>2. \A x : T!FlattenSeq(x) = FlattenSeq(x)
    BY DEF T!FlattenSeq, FlattenSeq
  <2>. QED
    BY <2>1, <2>2 DEF Joined
<1>4. ASSUME NEW n \in DOMAIN ls
      PROVE  LET before == {ls[m].speaker : m \in 1 .. n - 1}
             IN  /\ ls[n].speaker \in before \cup {Cardinality(before \ {-1})}
                                      \cup (IF n = 1 THEN {-1} ELSE {})
                 /\ n > 1 => ls[n].speaker \notin {ls[n - 1].speaker, -1}
  <2>1. n \in 1 .. Len(segs) /\ ls[n].speaker = segs[n].speaker
    BY <1>1, <1>2
  <2>2. {ls[m].speaker : m \in 1 .. n - 1} = NumbersOf(segs, n)
    <3>1. \A m \in 1 .. n - 1 : ls[m].speaker = segs[m].speaker
      BY <1>1, <1>2, <2>1
    <3>. QED
      BY <3>1 DEF NumbersOf
  <2>3. n > 1 => ls[n - 1].speaker = segs[n - 1].speaker
    BY <1>1, <1>2, <2>1
  <2>4. /\ segs[n].speaker \in NumbersOf(segs, n)
                                 \cup {Cardinality(NumbersOf(segs, n) \ {-1})}
                                 \cup (IF n = 1 THEN {-1} ELSE {})
        /\ n > 1 => segs[n].speaker \notin {segs[n - 1].speaker, -1}
    BY <1>1, <2>1, NumbersInOrder
  <2>. QED
    BY <2>1, <2>2, <2>3, <2>4
<1>5. T!WellNumbered(ls)
  <2>1. \A S : T!Cardinality(S) = Cardinality(S)
    BY DEF T!Cardinality, Cardinality
  <2>. QED
    BY <1>4, <2>1 DEF T!WellNumbered
<1>. QED
  BY <1>1, <1>2, <1>3, <1>5 DEF ls

-----------------------------------------------------------------------------
(* What is heard, and what of it is published *)

\* The steps at which the text of an accept may be missing: the next accept has it
\* again, or, if the run has failed, nobody asks for it.
Looping == {"diarize", "show", "showing", "transcribe"}
Feeding == Looping \cup {"failed"}

\* The recognizer's text is a beginning of what is spoken.
Hears == Len(heard) <= Len(Spoken) /\ heard = SubSeq(Spoken, 1, Len(heard))

\* Nothing is missing: the engine's copy of what is heard is exact, and the
\* timeline has it too where the deltas are kept.
Whole == asrText = heard /\ (cfg.timing # "tokens" => text = heard)

\* Nothing is doubled: the timeline is a beginning of what is heard.
BeginsIt == Len(text) <= Len(heard) /\ text = SubSeq(heard, 1, Len(text))

\* What of it holds depends on which accepts may fail: none, none but the last, or
\* none but earlier ones.
Texts ==
  /\ cfg \in Setups /\ Hears
  /\ cfg.skipAsr => heard = <<>>
  /\ heard = <<>> => text = <<>> /\ asrText = <<>>
  /\ cfg.timing = "tokens" => text = <<>>
  /\ cfg.mayFail = {} => Whole
  /\ FALSE \notin cfg.mayFail => BeginsIt /\ (pc \in Looping => Whole)
  /\ TRUE \notin cfg.mayFail /\ pc \notin Feeding => asrText = heard

\* The final pass: its segments, then the pieces to come, spell the text before
\* the next character.
Passes ==
  /\ pc \notin {"showing", "publishing"} => at = 1 /\ pieces = <<>>
  /\ pc = "publishing" =>
       /\ at <= Len(PassText) + 1
       /\ Joined(Segments(pass)) \o Joined(pieces) = SubSeq(PassText, 1, at - 1)
       /\ Alternating(Segments(pass))
  /\ pc = "done" => Joined(pass.closed) = PassText /\ Alternating(pass.closed)

RInv == Texts /\ Passes

\* Nothing is heard yet.
LEMMA RunStarts == Init => RInv /\ Whole
<1>. SUFFICES ASSUME Init PROVE RInv /\ Whole
  OBVIOUS
<1>1. /\ cfg \in Setups /\ heard = <<>> /\ text = <<>> /\ asrText = <<>>
      /\ at = 1 /\ pieces = <<>> /\ pc \notin {"showing", "publishing", "done"}
  BY DEF Init
<1>2. Len(heard) = 0 /\ 0 <= Len(Spoken) /\ SubSeq(Spoken, 1, 0) = <<>>
  BY <1>1, SpokenFacts, SubSeqEmpty
<1>3. Whole /\ Hears
  BY <1>1, <1>2 DEF Whole, Hears
<1>4. BeginsIt
  <2>1. Len(text) = 0 /\ SubSeq(heard, 1, 0) = <<>>
    BY <1>1, SubSeqEmpty
  <2>. QED
    BY <1>1, <1>2, <2>1 DEF BeginsIt
<1>5. Texts
  BY <1>1, <1>3, <1>4 DEF Texts, Whole
<1>6. Passes
  BY <1>1 DEF Passes
<1>. QED
  BY <1>3, <1>5, <1>6 DEF RInv

\* A beginning of a beginning.
LEMMA BeginningOf ==
  ASSUME NEW C, NEW s \in Seq(C), NEW n \in 0 .. Len(s), NEW m \in 0 .. n
  PROVE  /\ SubSeq(s, 1, n) \in Seq(C) /\ Len(SubSeq(s, 1, n)) = n
         /\ SubSeq(SubSeq(s, 1, n), 1, m) = SubSeq(s, 1, m)
<1>. DEFINE t == SubSeq(s, 1, n)
<1>1. Len(s) \in Nat /\ \A i \in 1 .. Len(s) : s[i] \in C
  BY LenProperties, ElementOfSeq
<1>2. /\ t \in Seq(C) /\ Len(t) = n /\ \A i \in 1 .. n : t[i] = s[i]
  <2>1. \A i \in 1 .. n : s[i] \in C
    BY <1>1
  <2>. QED
    BY <2>1, SubSeqProperties
<1>. HIDE DEF t
<1>. DEFINE a == SubSeq(t, 1, m)
            b == SubSeq(s, 1, m)
<1>3. a \in Seq(C) /\ Len(a) = m /\ \A i \in 1 .. m : a[i] = t[i]
  <2>1. m \in Int /\ \A i \in 1 .. m : t[i] \in C
    BY <1>1, <1>2
  <2>. QED
    BY <2>1, SubSeqProperties
<1>4. b \in Seq(C) /\ Len(b) = m /\ \A i \in 1 .. m : b[i] = s[i]
  <2>1. m \in Int /\ \A i \in 1 .. m : s[i] \in C
    BY <1>1
  <2>. QED
    BY <2>1, SubSeqProperties
<1>. HIDE DEF a, b
<1>5. a = b
  <2>1. \A i \in 1 .. m : a[i] = b[i]
    BY <1>2, <1>3, <1>4
  <2>. QED
    BY <1>3, <1>4, <2>1, SeqEqual
<1>. QED
  BY <1>2, <1>5 DEF a, b, t

\* The recognizer goes on where it was.
LEMMA HeardGrows ==
  ASSUME Heard, Hears, Recognize
  PROVE  /\ heard' \in Seq(Chars) /\ Len(heard) \in 0 .. Len(heard')
         /\ Len(heard') <= Len(Spoken) /\ heard' = SubSeq(Spoken, 1, Len(heard'))
         /\ heard = SubSeq(heard', 1, Len(heard))
         /\ T!IsPrefix(heard, heard')
<1>1. PICK n \in Len(heard) .. Len(Spoken) : heard' = SubSeq(Spoken, 1, n)
  BY DEF Recognize
<1>2. /\ Len(heard) \in Nat /\ Spoken \in Seq(Chars) /\ Len(Spoken) \in Nat
      /\ heard \in Seq(Chars)
  BY SpokenFacts, LenProperties DEF Heard
<1>3. n \in 0 .. Len(Spoken) /\ Len(heard) \in 0 .. n
  BY <1>2
<1>4. /\ heard' \in Seq(Chars) /\ Len(heard') = n
      /\ SubSeq(heard', 1, Len(heard)) = SubSeq(Spoken, 1, Len(heard))
  BY <1>1, <1>2, <1>3, BeginningOf
<1>5. heard = SubSeq(heard', 1, Len(heard))
  BY <1>4 DEF Hears
<1>6. T!IsPrefix(heard, heard')
  <2>1. SubSeq(heard, 1, Len(heard)) = heard
    BY <1>2, SubSeqFull
  <2>2. Len(heard) <= Len(heard')
    BY <1>2, <1>3, <1>4
  <2>. QED
    BY <1>5, <2>1, <2>2 DEF T!IsPrefix
<1>. QED
  BY <1>1, <1>2, <1>3, <1>4, <1>5, <1>6

\* What a successful accept leaves: deltas put one after the other are the text.
LEMMA AcceptGives ==
  ASSUME Heard, Hears, Accept
  PROVE  /\ asrText' = heard' /\ cfg' = cfg
         /\ heard = <<>> /\ text = <<>> /\ asrText = <<>> /\ heard' = <<>> => text' = <<>>
         /\ cfg.timing = "tokens" => text' = text
         /\ Whole => Whole'
<1>1. /\ Recognize /\ TakeText(heard') /\ cfg' = cfg
  BY DEF Accept
<1>2. /\ heard' \in Seq(Chars) /\ Len(heard) \in 0 .. Len(heard')
      /\ heard = SubSeq(heard', 1, Len(heard))
  BY <1>1, HeardGrows
<1>3. asrText' = heard' /\ heard \in Seq(Chars)
  BY <1>1 DEF TakeText, Heard
<1>4. ASSUME heard = <<>>, text = <<>>, asrText = <<>>, heard' = <<>> PROVE text' = <<>>
  <2>1. Delta(heard') = <<>>
    BY <1>4 DEF Delta
  <2>. QED
    BY <1>1, <1>4, <2>1 DEF TakeText, timeline
<1>5. ASSUME cfg.timing = "tokens" PROVE text' = text
  BY <1>1, <1>5 DEF TakeText, timeline
<1>6. ASSUME Whole, cfg.timing # "tokens" PROVE text' = heard'
  <2>1. text = heard /\ asrText = heard
    BY <1>6 DEF Whole
  <2>2. heard \o Delta(heard') = heard'
    <3>1. Delta(heard') = SubSeq(heard', Len(heard) + 1, Len(heard'))
      BY <2>1 DEF Delta
    <3>2. SubSeq(heard', 1, Len(heard)) \o SubSeq(heard', Len(heard) + 1, Len(heard')) = heard'
      BY <1>2, SplitAt
    <3>. QED
      BY <1>2, <3>1, <3>2
  <2>3. CASE Delta(heard') = <<>>
    <3>1. heard \o <<>> = heard
      BY <1>3, ConcatEmptySeq
    <3>2. text' = text
      BY <1>1, <2>3 DEF TakeText, timeline
    <3>. QED
      BY <2>1, <2>2, <2>3, <3>1, <3>2
  <2>4. CASE Delta(heard') # <<>>
    <3>1. text' = text \o Delta(heard')
      BY <1>1, <1>6, <2>4 DEF TakeText
    <3>. QED
      BY <2>1, <2>2, <3>1
  <2>. QED
    BY <2>3, <2>4
<1>. QED
  BY <1>1, <1>3, <1>4, <1>5, <1>6 DEF Whole

\* What a failed one leaves: the text so far, as the timeline has it.
LEMMA FailureLeaves ==
  ASSUME Heard, AcceptFails
  PROVE  text' = text /\ asrText' = <<>> /\ cfg' = cfg
<1>1. Len(<<>>) = 0 /\ Len(asrText) \in Nat
  BY LenProperties DEF Heard
<1>2. 0 < Len(asrText) + 1 /\ Len(asrText) + 1 \in Int
  BY <1>1
<1>3. SubSeq(<<>>, Len(asrText) + 1, 0) = <<>>
  BY <1>2, SubSeqEmpty
<1>4. Delta(<<>>) = <<>>
  BY <1>1, <1>3 DEF Delta
<1>. QED
  BY <1>4 DEF AcceptFails, TakeText, timeline

\* The text of an accept is missing until the next one brings the whole text back
\* into asrText; the timeline never loses what it has.
LEMMA TextsStep ==
  ASSUME EInv, Texts, [Next]_vars
  PROVE  Texts'
<1>1. cfg \in Setups /\ Heard /\ cfg \in Setup /\ Hears /\ heard \in Seq(Chars)
  BY EngineAssumption DEF Texts, EInv, Timeline, Heard
<1>2. CASE Accept
  <2>1. /\ ~ cfg.skipAsr /\ Recognize /\ pc = "transcribe" /\ pc \in Looping
    BY <1>2 DEF Accept, Looping
  <2>2. /\ heard' \in Seq(Chars) /\ Len(heard) \in 0 .. Len(heard')
        /\ Hears'
    BY <1>1, <2>1, HeardGrows DEF Hears
  <2>3. /\ asrText' = heard' /\ cfg' = cfg
        /\ cfg.timing = "tokens" => text' = text
        /\ Whole => Whole'
    BY <1>1, <1>2, AcceptGives
  <2>4. heard' = <<>> => text' = <<>>
    <3>. SUFFICES ASSUME heard' = <<>> PROVE text' = <<>>
      OBVIOUS
    <3>1. heard = <<>>
      BY <1>1, <2>2, EmptySeq
    <3>2. text = <<>> /\ asrText = <<>>
      BY <3>1 DEF Texts
    <3>. QED
      BY <1>1, <1>2, <3>1, <3>2, AcceptGives
  <2>5. ASSUME FALSE \notin cfg.mayFail PROVE Whole' /\ BeginsIt'
    <3>1. Whole'
      BY <2>1, <2>3, <2>5 DEF Texts
    <3>2. CASE cfg.timing = "tokens"
      <4>1. text' = <<>>
        BY <2>3, <3>2 DEF Texts
      <4>2. Len(text') = 0 /\ SubSeq(heard', 1, 0) = <<>> /\ 0 <= Len(heard')
        BY <2>2, <4>1, SubSeqEmpty
      <4>. QED
        BY <3>1, <4>1, <4>2 DEF BeginsIt
    <3>3. CASE cfg.timing # "tokens"
      <4>1. text' = heard'
        BY <2>3, <3>1, <3>3 DEF Whole
      <4>2. SubSeq(heard', 1, Len(heard')) = heard' /\ Len(heard') <= Len(heard')
        BY <2>2, SubSeqFull, LenProperties
      <4>. QED
        BY <3>1, <4>1, <4>2 DEF BeginsIt
    <3>. QED
      BY <3>2, <3>3
  <2>. QED
    BY <1>1, <2>1, <2>2, <2>3, <2>4, <2>5 DEF Texts
<1>3. CASE AcceptFails
  <2>1. /\ ~ cfg.skipAsr /\ Recognize /\ LastPiece \in cfg.mayFail /\ NextPiece
    BY <1>3 DEF AcceptFails
  <2>2. /\ heard' \in Seq(Chars) /\ Len(heard) \in 0 .. Len(heard')
        /\ heard = SubSeq(heard', 1, Len(heard)) /\ Hears'
    BY <1>1, <2>1, HeardGrows DEF Hears
  <2>3. text' = text /\ asrText' = <<>> /\ cfg' = cfg
    BY <1>1, <1>3, FailureLeaves
  <2>4. heard' = <<>> => heard = <<>>
    BY <1>1, <2>2, EmptySeq
  <2>5. cfg.mayFail # {} /\ LastPiece \in BOOLEAN
    BY <2>1 DEF LastPiece
  <2>6. off \in Nat /\ Piece \in Nat /\ Total \in Nat
    BY <1>1, EngineAssumption DEF Heard
  <2>7. ASSUME FALSE \notin cfg.mayFail PROVE BeginsIt' /\ pc' \notin Looping
    <3>1. LastPiece
      BY <2>1, <2>5, <2>7
    <3>2. ~ (off + Piece < Total)
      BY <2>6, <3>1 DEF LastPiece, Fed, Smaller
    <3>3. pc' = "tail"
      BY <2>1, <2>6, <3>2 DEF NextPiece
    <3>4. BeginsIt
      BY <2>7 DEF Texts
    <3>5. PICK n \in 0 .. Len(heard') : n = Len(heard)
      BY <2>2
    <3>6. PICK m \in 0 .. n : m = Len(text)
      <4>1. Len(text) \in Nat
        BY <1>1, LenProperties DEF Heard
      <4>2. Len(text) <= n
        BY <3>4, <3>5 DEF BeginsIt
      <4>. QED
        BY <3>5, <4>1, <4>2
    <3>7. SubSeq(SubSeq(heard', 1, n), 1, m) = SubSeq(heard', 1, m)
      BY <2>2, BeginningOf
    <3>8. text = SubSeq(heard', 1, m)
      BY <2>2, <3>4, <3>5, <3>6, <3>7 DEF BeginsIt
    <3>9. m <= Len(heard')
      BY <2>2, <3>5, <3>6
    <3>. QED
      BY <2>3, <3>3, <3>6, <3>8, <3>9 DEF BeginsIt, Looping
  <2>8. ASSUME TRUE \notin cfg.mayFail PROVE pc' \in Feeding
    <3>1. ~ LastPiece
      BY <2>1, <2>5, <2>8
    <3>2. off + Piece < Total
      BY <2>6, <3>1 DEF LastPiece, Fed, Smaller
    <3>. QED
      BY <2>1, <3>2 DEF NextPiece, Feeding, Looping
  <2>. QED
    BY <1>1, <2>1, <2>2, <2>3, <2>4, <2>5, <2>7, <2>8 DEF Texts
<1>4. CASE PassAsrBy
  <2>1. UNCHANGED <<cfg, heard, asrText, text>> /\ cfg.skipAsr
    BY <1>4 DEF PassAsrBy, asr, timeline
  <2>2. heard = <<>> /\ asrText = heard /\ text = heard
    BY <2>1 DEF Texts
  <2>. QED
    BY <2>1, <2>2 DEF Texts, Hears, Whole, BeginsIt
<1>5. CASE /\ UNCHANGED <<cfg, heard, asrText, text>>
           /\ pc' \in Looping => pc \in Looping
           /\ pc' \notin Feeding => pc \notin Feeding
  BY <1>5 DEF Texts, Hears, Whole, BeginsIt
<1>. QED
  BY <1>2, <1>3, <1>4, <1>5
  DEF Next, PushDiar, PassDiarBy, PushFails, PushTail, Finish, BeginPass, TagUnit,
      TakeNextPiece, EndPass, InPass, Stop, asr, timeline, attribution, vars, Feeding, Looping

\* Either timing gives attribute the recognizer's text (engine.cpp:402-414), if
\* the last accept brought it and a spoiled timeline is replaced, or if none failed.
LEMMA PassTextIs ==
  ASSUME Texts, \/ Recovers(cfg) /\ pc \notin Feeding
                \/ Timed(cfg) /\ Whole
  PROVE  PassText = heard
<1>1. cfg \in Setups /\ cfg \in Setup /\ cfg.mayFail \in SUBSET BOOLEAN
  BY EngineAssumption DEF Texts, Setup
<1>2. CASE UsesTokens
  BY <1>2 DEF PassText
<1>3. CASE heard = <<>>
  BY <1>3 DEF PassText, Texts
<1>4. CASE ~ UsesTokens /\ heard # <<>>
  <2>1. ~ cfg.skipAsr
    BY <1>4 DEF Texts
  <2>2. asrText = heard /\ Timed(cfg)
    BY <2>1 DEF Texts, Whole, Recovers, Timed
  <2>3. cfg.timing = "inferred" \/ cfg.tokens # "exact"
    BY <1>4, <2>1, <2>2 DEF UsesTokens
  <2>4. cfg.timing # "tokens"
    BY <2>1, <2>2, <2>3 DEF Timed
  <2>5. Whole
    <3>1. CASE Recovers(cfg)
      <4>1. TRUE \notin cfg.mayFail /\ FALSE \notin cfg.mayFail
        BY <2>1, <2>3, <3>1 DEF Recovers
      <4>2. cfg.mayFail = {}
        BY <1>1, <4>1
      <4>. QED
        BY <4>2 DEF Texts
    <3>. QED
      BY <3>1
  <2>. QED
    BY <1>4, <2>4, <2>5 DEF Whole, PassText
<1>. QED
  BY <1>2, <1>3, <1>4

\* The timeline a pass is given is never more than what is heard, if an accept that
\* failed was the last one, or the timeline is not kept.
LEMMA PassTextBegins ==
  ASSUME EInv, Texts, cfg.timing = "tokens" \/ FALSE \notin cfg.mayFail
  PROVE  IsPrefix(PassText, heard)
<1>1. heard \in Seq(Chars) /\ text \in Seq(Chars)
  BY DEF EInv, Timeline, Heard
<1>2. IsPrefix(heard, heard)
  BY <1>1, LenProperties DEF IsPrefix
<1>3. Len(text) <= Len(heard) /\ text = SubSeq(heard, 1, Len(text))
  <2>1. CASE cfg.timing = "tokens"
    <3>1. text = <<>> /\ Len(text) = 0 /\ 0 <= Len(heard) /\ SubSeq(heard, 1, 0) = <<>>
      BY <1>1, <2>1, SubSeqEmpty, LenProperties DEF Texts
    <3>. QED
      BY <3>1
  <2>2. CASE FALSE \notin cfg.mayFail
    BY <2>2 DEF Texts, BeginsIt
  <2>. QED
    BY <2>1, <2>2
<1>4. IsPrefix(text, heard)
  <2>1. SubSeq(text, 1, Len(text)) = text
    BY <1>1, SubSeqFull
  <2>. QED
    BY <1>3, <2>1 DEF IsPrefix
<1>. QED
  BY <1>2, <1>4 DEF PassText

\* The texts of a list: that of its head, then those of the rest.
LEMMA JoinedHead ==
  ASSUME NEW C, NEW ls, HasTexts(ls, C), ls # <<>>
  PROVE  /\ Joined(ls) = Head(ls).text \o Joined(Tail(ls))
         /\ Head(ls).text \in Seq(C) /\ HasTexts(Tail(ls), C)
<1>1. PICK R : ls \in Seq(R) /\ \A r \in R : r.text \in Seq(C)
  BY DEF HasTexts
<1>2. Head(ls) \in R /\ Tail(ls) \in Seq(R) /\ ls = <<Head(ls)>> \o Tail(ls)
  BY <1>1
<1>3. HasTexts(Tail(ls), C) /\ Head(ls).text \in Seq(C)
  BY <1>1, <1>2 DEF HasTexts
<1>4. PICK r, ms : r = Head(ls) /\ ms = Tail(ls)
  OBVIOUS
<1>5. PICK one : one = <<r>>
  OBVIOUS
<1>6. Joined(one) = r.text /\ HasTexts(one, C)
  <2>1. HasTexts(ls, C) /\ r.text \in Seq(C)
    BY <1>3, <1>4
  <2>2. Joined(<<r>>) = r.text
    BY ONLY <2>1, JoinedAppend
  <2>3. HasTexts(<<r>>, C)
    BY ONLY <2>1, HasTextsOf
  <2>. QED
    BY <1>5, <2>2, <2>3
<1>7. Joined(one \o ms) = Joined(one) \o Joined(ms)
  <2>1. HasTexts(one, C) /\ HasTexts(ms, C)
    BY <1>3, <1>4, <1>6
  <2>. QED
    BY ONLY <2>1, JoinedConcat
<1>8. ls = one \o ms
  BY <1>2, <1>4, <1>5
<1>. QED
  BY <1>3, <1>4, <1>6, <1>7, <1>8

\* The lists of a pass have texts.
LEMMA ListsHaveTexts ==
  ASSUME EInv
  PROVE  /\ HasTexts(pieces, Chars)
         /\ pc = "publishing" => HasTexts(Segments(pass), Chars) /\ InLoop(pass, Chars)
<1>1. HasTexts(pieces, Chars)
  BY PiecesHaveTexts DEF EInv, FinalPass, PieceList
<1>2. ASSUME pc = "publishing"
      PROVE  HasTexts(Segments(pass), Chars) /\ InLoop(pass, Chars)
  <2>1. InLoop(pass, Chars)
    BY <1>2 DEF EInv, FinalPass
  <2>2. PICK L : pass \in PassState(L, Chars)
    BY <2>1 DEF InLoop, Tidy
  <2>3. Segments(pass) \in Seq(SegmentOf(L, Chars))
    BY <2>2, SegmentsFacts
  <2>. QED
    BY <2>1, <2>3, PiecesHaveTexts
<1>. QED
  BY <1>1, <1>2

\* A unit goes from the text to the pieces, a piece to the segments.
LEMMA PassesStep ==
  ASSUME EInv, Passes, [Next]_vars
  PROVE  Passes'
<1>1. /\ PassText \in Seq(Chars) /\ Len(PassText) \in Nat /\ at \in Nat \ {0}
      /\ HasTexts(pieces, Chars)
      /\ pc = "publishing" => HasTexts(Segments(pass), Chars) /\ InLoop(pass, Chars)
  BY ListsHaveTexts, LenProperties DEF EInv, Timeline, Heard, FinalPass, PassText
<1>. DEFINE Same == UNCHANGED <<cfg, heard, asrText, text>>
<1>0. Same => UNCHANGED PassText
  BY DEF PassText, UsesTokens
<1>. HIDE DEF Same
<1>2. CASE BeginPass
  <2>0. Same
    BY <1>2 DEF BeginPass, Same, asr, timeline
  <2>1. /\ pc \in {"show", "attribute"} /\ UNCHANGED <<PassText, at, pieces>>
        /\ pc' = "showing" \/ (pc' = "publishing" /\ pass' = StartOfPass(<<>>))
    BY <1>0, <1>2, <2>0 DEF BeginPass, KnownToFinal
  <2>2. at = 1 /\ pieces = <<>>
    BY <2>1 DEF Passes
  <2>3. ASSUME pc' = "publishing"
        PROVE  /\ at' <= Len(PassText') + 1
               /\ Joined(Segments(pass')) \o Joined(pieces') = SubSeq(PassText', 1, at' - 1)
               /\ Alternating(Segments(pass'))
    <3>1. Segments(pass') = <<>>
      BY <2>1, <2>3 DEF StartOfPass, NoSegment, Segments
    <3>2. Joined(<<>>) = <<>>
      BY <1>1, <2>2, JoinedTyped
    <3>3. <<>> \o <<>> = <<>>
      BY ConcatEmptySeq, EmptySeq
    <3>4. at' - 1 = 0 /\ at' <= Len(PassText') + 1 /\ pieces' = <<>>
      BY <1>1, <2>1, <2>2
    <3>5. SubSeq(PassText', 1, 0) = <<>>
      BY SubSeqEmpty
    <3>6. Alternating(<<>>)
      BY DEF Alternating
    <3>. QED
      BY <3>1, <3>2, <3>3, <3>4, <3>5, <3>6
  <2>. QED
    BY <2>1, <2>3 DEF Passes
<1>3. CASE TagUnit
  <2>. DEFINE last == UnitEnd(PassText, at)
  <2>0. Same
    BY <1>3 DEF TagUnit, Same, asr, timeline
  <2>1. /\ pc \in {"showing", "publishing"} /\ UNCHANGED <<pc, PassText, pass>>
        /\ at <= Len(PassText)
        /\ pieces' = PutUnit(pieces, PassText, marks, at, last) /\ at' = last + 1
    BY <1>0, <1>3, <2>0 DEF TagUnit, InPass
  <2>2. ASSUME pc = "publishing"
        PROVE  /\ at' <= Len(PassText) + 1
               /\ Joined(Segments(pass)) \o Joined(pieces') = SubSeq(PassText, 1, at' - 1)
    <3>1. /\ at \in 1 .. Len(PassText)
          /\ Joined(Segments(pass)) \o Joined(pieces) = SubSeq(PassText, 1, at - 1)
      BY <1>1, <2>1, <2>2 DEF Passes
    <3>2. last \in at .. Len(PassText)
      BY <1>1, <3>1, UnitEndFacts
    <3>. DEFINE unit == SubSeq(PassText, at, last)
    <3>. HIDE DEF last
    <3>3. PICK L, K : pieces \in Seq(PieceOf(L, K, Chars))
      BY DEF EInv, FinalPass, PieceList
    <3>4. Grown(pieces, pieces', unit)
      BY <1>1, <2>1, <3>1, <3>2, <3>3, PutUnitGrows
    <3>5. unit \in Seq(Chars)
      <4>1. at \in Int /\ last \in Int /\ \A i \in at .. last : PassText[i] \in Chars
        BY <1>1, <3>1, <3>2, ElementOfSeq
      <4>. QED
        BY <4>1, SubSeqProperties
    <3>6. HasTexts(pieces', Chars)
      <4>1. PieceList(pieces, Chars)
        BY <3>3 DEF PieceList
      <4>2. PieceList(pieces', Chars)
        BY <1>1, <2>1, <3>1, <3>2, <4>1, PutUnitFacts
      <4>. QED
        BY <4>2, PiecesHaveTexts DEF PieceList
    <3>. HIDE DEF unit
    <3>7. Joined(pieces') = Joined(pieces) \o unit
      BY <1>1, <3>4, <3>5, <3>6, GrownFacts
    <3>8. PICK a \in Seq(Chars), b \in Seq(Chars) : a = Joined(Segments(pass)) /\ b = Joined(pieces)
      BY <1>1, <2>2, JoinedTyped
    <3>9. a \o (b \o unit) = (a \o b) \o unit
      BY <3>5, Regroup
    <3>10. SubSeq(PassText, 1, at - 1) \o unit = SubSeq(PassText, 1, last)
      <4>1. PICK k \in 1 - 1 .. Len(PassText) : k = at - 1 /\ k + 1 = at
        BY <1>1, <3>1
      <4>2. 1 \in 1 .. Len(PassText) + 1 /\ last \in k .. Len(PassText)
        BY <1>1, <3>1, <3>2, <4>1
      <4>3. SubSeq(PassText, 1, k) \o SubSeq(PassText, k + 1, last) = SubSeq(PassText, 1, last)
        BY <1>1, <4>2, ConcatAdjacentSubSeq
      <4>. QED
        BY <4>1, <4>3 DEF unit
    <3>11. at' - 1 = last /\ at' <= Len(PassText) + 1
      BY <1>1, <2>1, <3>1, <3>2 DEF last
    <3>. QED
      BY <3>1, <3>7, <3>8, <3>9, <3>10, <3>11
  <2>. QED
    BY <2>1, <2>2 DEF Passes
<1>4. CASE TakeNextPiece
  <2>0. Same
    BY <1>4 DEF TakeNextPiece, Same, asr, timeline
  <2>1. /\ pc \in {"showing", "publishing"} /\ UNCHANGED <<pc, PassText, at>> /\ pieces # <<>>
        /\ pass' = TakePiece(pass, Head(pieces)) /\ pieces' = Tail(pieces)
    BY <1>0, <1>4, <2>0 DEF TakeNextPiece, InPass
  <2>2. ASSUME pc = "publishing"
        PROVE  /\ Joined(Segments(pass')) \o Joined(pieces') = SubSeq(PassText, 1, at - 1)
               /\ Alternating(Segments(pass'))
    <3>1. /\ InLoop(pass, Chars) /\ HasTexts(Segments(pass), Chars)
          /\ Joined(Segments(pass)) \o Joined(pieces) = SubSeq(PassText, 1, at - 1)
          /\ Alternating(Segments(pass))
      BY <1>1, <2>2 DEF Passes
    <3>2. /\ Joined(pieces) = Head(pieces).text \o Joined(pieces')
          /\ HasTexts(pieces', Chars)
      BY <1>1, <2>1, JoinedHead
    <3>. DEFINE p == Head(pieces)
    <3>3. p.text \in Seq(Chars) \ {<<>>}
      <4>1. PICK L, K : pieces \in Seq(PieceOf(L, K, Chars))
        BY DEF EInv, FinalPass, PieceList
      <4>2. p \in PieceOf(L, K, Chars)
        BY <2>1, <4>1, HeadTailProperties
      <4>. QED
        BY <4>2 DEF PieceOf
    <3>. HIDE DEF p
    <3>4. pass' = TakePiece(pass, p)
      BY <2>1 DEF p
    <3>5. Grown(Segments(pass), Segments(pass'), p.text)
      BY <3>1, <3>3, <3>4, TakeGrows
    <3>6. Alternating(Segments(pass'))
      BY <3>1, <3>3, <3>4, AlternatingKept
    <3>7. HasTexts(Segments(pass'), Chars)
      <4>1. InLoop(pass', Chars)
        BY <3>1, <3>3, <3>4, TakePieceFacts
      <4>2. PICK L : pass' \in PassState(L, Chars)
        BY <4>1 DEF InLoop, Tidy
      <4>3. Segments(pass') \in Seq(SegmentOf(L, Chars))
        BY <4>2, SegmentsFacts
      <4>. QED
        BY <4>3, PiecesHaveTexts
    <3>8. Joined(Segments(pass')) = Joined(Segments(pass)) \o p.text
      <4>1. PICK t \in Seq(Chars) : t = p.text
        BY <3>3
      <4>2. Grown(Segments(pass), Segments(pass'), t)
        BY <3>5, <4>1
      <4>3. Joined(Segments(pass')) = Joined(Segments(pass)) \o t
        BY <3>1, <3>7, <4>2, GrownFacts
      <4>. QED
        BY <4>1, <4>3
    <3>9. PICK a \in Seq(Chars), b \in Seq(Chars), c \in Seq(Chars) :
            a = Joined(Segments(pass)) /\ b = p.text /\ c = Joined(pieces')
      BY <3>1, <3>2, <3>3, JoinedTyped
    <3>10. (a \o b) \o c = a \o (b \o c)
      BY Regroup
    <3>. QED
      BY <3>1, <3>2, <3>6, <3>8, <3>9, <3>10 DEF p
  <2>. QED
    BY <2>1, <2>2 DEF Passes
<1>5. CASE EndPass
  <2>0. Same
    BY <1>5 DEF EndPass, Same, asr, timeline
  <2>1. /\ InPass /\ UNCHANGED PassText /\ at' = 1 /\ pieces' = <<>>
        /\ at > Len(PassText) /\ pieces = <<>>
        /\ \/ pc' = "transcribe"
           \/ pc = "publishing" /\ pc' = "done" /\ pass' = CloseOpen(pass)
    BY <1>0, <1>5, <2>0 DEF EndPass, NoPass, InPass
  <2>2. ASSUME pc = "publishing", pass' = CloseOpen(pass)
        PROVE  Joined(pass'.closed) = PassText /\ Alternating(pass'.closed)
    <3>1. pass'.closed = Segments(pass)
      BY <1>1, <2>2, CloseFacts DEF InLoop
    <3>2. /\ at = Len(PassText) + 1 /\ at - 1 = Len(PassText)
          /\ Joined(Segments(pass)) \o Joined(pieces) = SubSeq(PassText, 1, at - 1)
          /\ Alternating(Segments(pass))
      BY <1>1, <2>1, <2>2 DEF Passes
    <3>3. SubSeq(PassText, 1, Len(PassText)) = PassText
      BY <1>1, SubSeqFull
    <3>4. Joined(pieces) = <<>> /\ Joined(Segments(pass)) \in Seq(Chars)
      BY <1>1, <2>1, <2>2, JoinedTyped
    <3>5. Joined(Segments(pass)) \o <<>> = Joined(Segments(pass))
      BY <3>4, ConcatEmptySeq
    <3>. QED
      BY <3>1, <3>2, <3>3, <3>4, <3>5
  <2>. QED
    BY <2>1, <2>2 DEF Passes
<1>6. CASE /\ UNCHANGED <<at, pieces, pass>>
           /\ \/ pc' \notin {"showing", "publishing", "done"} /\ pc \notin {"showing", "publishing"}
              \/ UNCHANGED pc /\ Same
  BY <1>0, <1>6 DEF Passes
<1>. QED
  BY <1>2, <1>3, <1>4, <1>5, <1>6
  DEF Next, PushDiar, PassDiarBy, PushFails, Accept, AcceptFails, PassAsrBy, NextPiece,
      PushTail, Finish, Stop, Same, asr, timeline, attribution, vars

\* The inductive invariant of the refinement.
LEMMA RunInvariant == Spec => [](EInv /\ RInv)
<1>1. EInv /\ RInv /\ [Next]_vars => RInv'
  BY TextsStep, PassesStep DEF RInv
<1>. QED
  BY InductiveInvariant, RunStarts, <1>1, PTL DEF Spec

\* Every step of the run hears more, publishes, fails, or is no step of the
\* promise, if the final pass is given what is heard.
LEMMA StepImplements ==
  ASSUME EInv, RInv, EInv', RInv', [Next]_vars, pc = "publishing" => PassText = heard
  PROVE  [T!Next]_(T!vars)
<1>. DEFINE ls == [n \in DOMAIN Published |->
                     [speaker |-> Published[n].speaker, text |-> Published[n].text]]
            st == CASE pc = "done" -> "published" [] pc = "failed" -> "failed" [] OTHER -> "open"
<1>1. pc # "done" => Published = <<>>
  BY DEF Published
<1>2. pc' # "done" => Published' = <<>>
  BY DEF Published
<1>3. CASE UNCHANGED heard /\ pc' \notin {"done", "failed"} /\ pc \notin {"done", "failed"}
  <2>1. UNCHANGED <<heard, ls, st>>
    BY <1>1, <1>2, <1>3
  <2>. QED
    BY <2>1 DEF T!vars
<1>4. CASE UNCHANGED <<heard, pc, pass>>
  <2>1. UNCHANGED <<heard, ls, st>>
    BY <1>4 DEF Published
  <2>. QED
    BY <2>1 DEF T!vars
<1>5. CASE PushFails
  <2>1. UNCHANGED heard /\ pc' = "failed" /\ pc \notin {"done", "failed"}
    BY <1>5 DEF PushFails, asr
  <2>2. UNCHANGED <<heard, ls>> /\ st = "open" /\ st' = "failed"
    BY <1>1, <1>2, <2>1
  <2>. QED
    BY <2>2 DEF T!Next, T!Fail
<1>6. CASE Accept \/ AcceptFails
  <2>1. Recognize /\ pc = "transcribe" /\ pc' \in {"diarize", "tail"}
    BY <1>6 DEF Accept, AcceptFails, NextPiece
  <2>2. T!IsPrefix(heard, heard')
    BY <2>1, HeardGrows DEF EInv, Timeline, RInv, Texts
  <2>3. UNCHANGED ls /\ st = "open" /\ st' = "open"
    BY <1>1, <1>2, <2>1
  <2>. QED
    BY <2>2, <2>3 DEF T!Next, T!Hear
<1>7. CASE EndPass /\ pc = "publishing"
  <2>1. UNCHANGED <<heard, PassText>> /\ pc' = "done"
    BY <1>7 DEF EndPass, asr, timeline, PassText, UsesTokens
  <2>2. st = "open" /\ st' = "published"
    BY <1>7, <2>1
  <2>3. Published' = pass'.closed
    BY <2>1 DEF Published
  <2>4. PICK L : /\ pass' \in PassState(L, Chars') /\ Numbered(pass'.closed, pass'.ids)
    BY <2>1 DEF EInv, FinalPass, Tidy
  <2>5. pass'.closed \in Seq(SegmentOf(L, Chars)) /\ pass'.ids \in Seq(L)
    BY <2>4 DEF PassState, Chars
  <2>6. Joined(pass'.closed) = heard /\ Alternating(pass'.closed)
    BY <1>7, <2>1 DEF RInv, Passes
  <2>7. /\ T!FlattenSeq([n \in DOMAIN ls' |-> ls'[n].text]) = heard
        /\ \A n \in DOMAIN ls' : ls'[n].text # <<>>
        /\ T!WellNumbered(ls')
    <3>. DEFINE of(segs) == [n \in DOMAIN segs |-> [speaker |-> segs[n].speaker, text |-> segs[n].text]]
    <3>1. ls' = of(pass'.closed)
      BY <2>3
    <3>2. PICK segs : segs = pass'.closed
      OBVIOUS
    <3>3. /\ T!FlattenSeq([n \in DOMAIN of(segs) |-> of(segs)[n].text]) = Joined(segs)
          /\ \A n \in DOMAIN of(segs) : of(segs)[n].text # <<>>
          /\ T!WellNumbered(of(segs))
      BY <2>4, <2>5, <2>6, <3>2, PublishedWell, ZenonT(30)
    <3>. HIDE DEF of, ls
    <3>. QED
      BY <2>6, <3>1, <3>2, <3>3
  <2>. HIDE DEF ls, st
  <2>8. T!Publish
    BY <2>1, <2>2, <2>7 DEF T!Publish, ls, st
  <2>. QED
    BY <2>8 DEF T!Next
<1>. QED
  BY <1>3, <1>4, <1>5, <1>6, <1>7
  DEF Next, PushDiar, PassDiarBy, PushFails, Accept, AcceptFails, PassAsrBy, NextPiece,
      PushTail, Finish, BeginPass, TagUnit, TakeNextPiece, EndPass, InPass,
      Stop, Ended, asr, attribution, vars

\* The configuration stays, and so does a whole text while no accept fails.
LEMMA WholeStays ==
  ASSUME EInv, RInv, [Next]_vars
  PROVE  /\ cfg' = cfg
         /\ Whole /\ [AcceptFails => Accept]_vars => Whole'
<1>1. cfg' = cfg
  BY DEF Next, PushDiar, PassDiarBy, PushFails, Accept, AcceptFails, PassAsrBy, PushTail,
         Finish, BeginPass, TagUnit, TakeNextPiece, EndPass, Stop, vars
<1>2. ASSUME Whole, [AcceptFails => Accept]_vars PROVE Whole'
  <2>1. CASE Accept
    BY <1>2, <2>1, AcceptGives DEF EInv, Timeline, RInv, Texts
  <2>2. CASE UNCHANGED <<cfg, heard, asrText, text>>
    BY <1>2, <2>2 DEF Whole
  <2>. QED
    BY <1>2, <2>1, <2>2
    DEF Next, PushDiar, PassDiarBy, PushFails, AcceptFails, PassAsrBy, PushTail, Finish,
        BeginPass, TagUnit, TakeNextPiece, EndPass, Stop, asr, timeline, vars
<1>. QED
  BY <1>1, <1>2

\* Nothing is heard or published at first.
LEMMA PromiseStarts == Init => T!Init
<1>. SUFFICES ASSUME Init PROVE T!Init
  OBVIOUS
<1>1. heard = <<>> /\ pc \notin {"done", "failed"}
  BY DEF Init
<1>2. Published = <<>>
  BY <1>1 DEF Published
<1>. QED
  BY <1>1, <1>2 DEF T!Init

\* The run implements the abstract transcript: whatever the engines answer, however
\* the audio is cut and whatever provisional passes showed, what is published is
\* what the recognizer heard, cut into non-empty lines numbered in order of first
\* appearance, or nothing if the run failed (engine.cpp:513-700).  For a
\* configuration that Recovers: where the timing can be had, with any number of
\* failed accepts but the last if an exact table replaces the timeline, with none
\* otherwise.
THEOREM RunKeepsThePromise == Spec /\ Recovers(cfg) => LayerOverTranscript
<1>1. EInv /\ RInv /\ Recovers(cfg) /\ (EInv /\ RInv)' /\ [Next]_vars => [T!Next]_(T!vars)
  <2>. SUFFICES ASSUME EInv, RInv, Recovers(cfg), EInv', RInv', [Next]_vars
                PROVE  [T!Next]_(T!vars)
    OBVIOUS
  <2>1. pc = "publishing" => PassText = heard
    BY PassTextIs DEF RInv, Feeding, Looping
  <2>. QED
    BY <2>1, StepImplements
<1>2. EInv /\ RInv /\ Recovers(cfg) /\ [Next]_vars => Recovers(cfg)'
  BY WholeStays
<1>. QED
  BY RunInvariant, PromiseStarts, <1>1, <1>2, PTL DEF Spec, LayerOverTranscript, T!Spec

\* The same of a run in which no accept returns NULL (an AcceptFails step that is
\* also an Accept had no text to lose), although any might, whenever the timing can
\* be had (engine.cpp:402-414, 601-618).
THEOREM PromiseKeptWithoutNull ==
  Spec /\ Timed(cfg) /\ [][AcceptFails => Accept]_vars => LayerOverTranscript
<1>1. /\ EInv /\ RInv /\ Timed(cfg) /\ Whole /\ (EInv /\ RInv)' /\ [Next]_vars
      => [T!Next]_(T!vars)
  <2>. SUFFICES ASSUME EInv, RInv, Timed(cfg), Whole, EInv', RInv', [Next]_vars
                PROVE  [T!Next]_(T!vars)
    OBVIOUS
  <2>1. PassText = heard
    BY PassTextIs DEF RInv
  <2>. QED
    BY <2>1, StepImplements
<1>2. /\ EInv /\ RInv /\ Timed(cfg) /\ Whole /\ [Next]_vars /\ [AcceptFails => Accept]_vars
      => Timed(cfg)' /\ Whole'
  BY WholeStays
<1>3. Init => Whole
  BY RunStarts
<1>. QED
  BY RunInvariant, PromiseStarts, <1>1, <1>2, <1>3, PTL DEF Spec, LayerOverTranscript, T!Spec

\* Nothing published is rewritten (docs/findings.md:207-208), under the conditions of
\* the two theorems above.  Outside them it can be: if the timing cannot be had
\* (run engine_tokenless: "tokens" where the table is missing or differs; nothing
\* is published), if an earlier accept fails and the timeline is used (run
\* engine_asr_failure: text is doubled), or if the last one fails (the end may be
\* missing, see OnlyTheEndIsMissing).
THEOREM NothingIsRewritten ==
  Spec /\ (Recovers(cfg) \/ (Timed(cfg) /\ [][AcceptFails => Accept]_vars)) => []NeverRewritten
<1>1. EInv /\ RInv /\ Recovers(cfg) => NeverRewritten
  <2>. SUFFICES ASSUME RInv, Recovers(cfg), pc = "done" PROVE TextOf(Published) = heard
    BY DEF NeverRewritten
  <2>1. PassText = heard
    BY PassTextIs DEF RInv, Feeding, Looping
  <2>. QED
    BY <2>1 DEF RInv, Passes, Published, TextOf, Joined
<1>2. EInv /\ RInv /\ Timed(cfg) /\ Whole => NeverRewritten
  <2>. SUFFICES ASSUME RInv, Timed(cfg), Whole, pc = "done" PROVE TextOf(Published) = heard
    BY DEF NeverRewritten
  <2>1. PassText = heard
    BY PassTextIs DEF RInv
  <2>. QED
    BY <2>1 DEF RInv, Passes, Published, TextOf, Joined
<1>3. EInv /\ RInv /\ Recovers(cfg) /\ [Next]_vars => Recovers(cfg)'
  BY WholeStays
<1>4. /\ EInv /\ RInv /\ Timed(cfg) /\ Whole /\ [Next]_vars /\ [AcceptFails => Accept]_vars
      => Timed(cfg)' /\ Whole'
  BY WholeStays
<1>5. Init => Whole
  BY RunStarts
<1>. QED
  BY RunInvariant, <1>1, <1>2, <1>3, <1>4, <1>5, PTL DEF Spec

\* Attribution itself never rewrites: in every configuration, whatever accept
\* returned, what is published spells the text of the timeline the final pass was
\* given (engine.cpp:400-492).
THEOREM AttributionRewritesNothing == Spec => []SpellsThePassText
<1>1. RInv => SpellsThePassText
  BY DEF RInv, Passes, SpellsThePassText, Published, TextOf, Joined
<1>. QED
  BY RunInvariant, <1>1, PTL

\* What is published is at least a beginning of what was heard, if no accept but
\* the last may fail, or if no deltas are kept, whether or not the token table can
\* be used; nothing is doubled or changed there (engine.cpp:402-414, 601-618).
THEOREM OnlyTheEndIsMissing ==
  Spec /\ (cfg.timing = "tokens" \/ FALSE \notin cfg.mayFail) => []OnlyTheEndMissing
<1>. DEFINE Kept == cfg.timing = "tokens" \/ FALSE \notin cfg.mayFail
<1>1. EInv /\ RInv /\ Kept => OnlyTheEndMissing
  BY PassTextBegins DEF RInv, Passes, OnlyTheEndMissing, Published, TextOf, Joined
<1>2. EInv /\ RInv /\ Kept /\ [Next]_vars => Kept'
  BY WholeStays
<1>. HIDE DEF Kept
<1>3. Spec /\ Kept => []OnlyTheEndMissing
  BY RunInvariant, <1>1, <1>2, PTL DEF Spec
<1>. QED
  BY <1>3 DEF Kept

-----------------------------------------------------------------------------
(* Turns: the loop of update_turns, a fold here *)

\* The loop of update_turns over the first m turns of a snapshot, as FoldLeft
\* defines it on sets of indices.
LoopOver(f, base, s, m) ==
  f = [S \in SUBSET (1 .. m) |->
         IF S = {} THEN base ELSE Merged(f[S \ {Max(S)}], s[Max(S)])]

\* The largest index of a set of them.
LEMMA TopOf ==
  ASSUME NEW m \in Nat, NEW S \in SUBSET (1 .. m), S # {}
  PROVE  /\ Max(S) \in S /\ \A x \in S : x <= Max(S)
         /\ S \ {Max(S)} \in SUBSET (1 .. m)
         /\ Max(S) \in 1 .. m
<1>1. S \subseteq 0 .. m
  OBVIOUS
<1>2. Max(S) \in S /\ \A x \in S : x <= Max(S)
  BY <1>1, MaxFacts
<1>. QED
  BY <1>2

\* The function FoldLeft chooses exists.
LEMMA LoopExists ==
  ASSUME NEW base, NEW s, NEW n \in Nat
  PROVE  \E f : LoopOver(f, base, s, n)
<1>. DEFINE upTo == {m \in Nat : \E f : LoopOver(f, base, s, m)}
<1>1. 0 \in upTo
  <2>. DEFINE f == [S \in SUBSET (1 .. 0) |-> base]
  <2>1. \A S \in SUBSET (1 .. 0) : S = {}
    OBVIOUS
  <2>2. f = [S \in SUBSET (1 .. 0) |->
               IF S = {} THEN base ELSE Merged(f[S \ {Max(S)}], s[Max(S)])]
    BY <2>1
  <2>. HIDE DEF f
  <2>3. LoopOver(f, base, s, 0)
    BY <2>2 DEF LoopOver
  <2>. QED
    BY <2>3
<1>2. ASSUME NEW m \in Nat, m \in upTo
      PROVE  m + 1 \in upTo
  <2>1. PICK f : LoopOver(f, base, s, m)
    BY <1>2
  <2>2. \A S \in SUBSET (1 .. m) :
          f[S] = IF S = {} THEN base ELSE Merged(f[S \ {Max(S)}], s[Max(S)])
    BY <2>1 DEF LoopOver
  <2>. DEFINE g == [S \in SUBSET (1 .. m + 1) |->
                      IF S = {} THEN base
                      ELSE IF m + 1 \in S THEN Merged(f[S \ {m + 1}], s[m + 1]) ELSE f[S]]
  <2>3. \A S \in SUBSET (1 .. m) : S \in SUBSET (1 .. m + 1) /\ g[S] = f[S]
    <3>1. \A S \in SUBSET (1 .. m) : S \in SUBSET (1 .. m + 1) /\ m + 1 \notin S
      OBVIOUS
    <3>. QED
      BY <2>2, <3>1
  <2>4. ASSUME NEW S \in SUBSET (1 .. m + 1), S # {}
        PROVE  g[S] = Merged(g[S \ {Max(S)}], s[Max(S)])
    <3>1. /\ Max(S) \in S /\ \A x \in S : x <= Max(S)
          /\ S \ {Max(S)} \in SUBSET (1 .. m + 1) /\ Max(S) \in 1 .. m + 1
      <4>1. m + 1 \in Nat
        OBVIOUS
      <4>. QED
        BY <2>4, <4>1, TopOf
    <3>2. CASE m + 1 \in S
      <4>1. Max(S) = m + 1
        <5>1. PICK x : x = Max(S)
          OBVIOUS
        <5>2. x \in 1 .. m + 1 /\ m + 1 <= x
          BY <3>1, <3>2, <5>1
        <5>. QED
          BY <5>1, <5>2
      <4>2. S \ {m + 1} \in SUBSET (1 .. m)
        OBVIOUS
      <4>3. g[S] = Merged(f[S \ {m + 1}], s[m + 1])
        BY <3>2
      <4>4. g[S \ {m + 1}] = f[S \ {m + 1}]
        BY <2>3, <4>2
      <4>. QED
        BY <4>1, <4>3, <4>4
    <3>3. CASE m + 1 \notin S
      <4>1. S \in SUBSET (1 .. m)
        BY <3>3
      <4>2. S \ {Max(S)} \in SUBSET (1 .. m)
        BY <4>1
      <4>3. g[S] = f[S] /\ g[S \ {Max(S)}] = f[S \ {Max(S)}]
        BY <2>3, <4>1, <4>2
      <4>4. f[S] = Merged(f[S \ {Max(S)}], s[Max(S)])
        BY <2>2, <2>4, <4>1
      <4>. QED
        BY <4>3, <4>4
    <3>. QED
      BY <3>2, <3>3
  <2>5. g[{}] = base
    OBVIOUS
  <2>6. DOMAIN g = SUBSET (1 .. m + 1) /\ g = [S \in DOMAIN g |-> g[S]]
    OBVIOUS
  <2>. HIDE DEF g
  <2>7. g = [S \in SUBSET (1 .. m + 1) |->
               IF S = {} THEN base ELSE Merged(g[S \ {Max(S)}], s[Max(S)])]
    <3>1. \A S \in SUBSET (1 .. m + 1) :
            g[S] = IF S = {} THEN base ELSE Merged(g[S \ {Max(S)}], s[Max(S)])
      BY <2>4, <2>5
    <3>. QED
      BY <2>6, <3>1
  <2>8. LoopOver(g, base, s, m + 1)
    BY <2>7 DEF LoopOver
  <2>. QED
    BY <2>8
<1>. HIDE DEF upTo
<1>3. n \in upTo
  BY <1>1, <1>2, InductionOnSet
<1>. QED
  BY <1>3 DEF upTo

\* Every turn of ts is in us: its start, an end that is not earlier, and a label
\* if it had one.
Keeps(ts, us) ==
  \A i \in DOMAIN ts : \E j \in DOMAIN us :
    /\ us[j].start = ts[i].start /\ ts[i].end <= us[j].end
    /\ ts[i].speaker # NoLabel => us[j].speaker # NoLabel

\* A list keeps its own turns.
LEMMA KeptAlone == ASSUME NEW ts \in Seq(Turn) PROVE Keeps(ts, ts)
<1>1. \A i \in DOMAIN ts : ts[i].end \in Nat
  BY TurnListFacts
<1>. QED
  BY <1>1 DEF Keeps

\* What is kept twice is kept.
LEMMA KeptTwice ==
  ASSUME NEW a \in Seq(Turn), NEW b \in Seq(Turn), NEW c \in Seq(Turn), Keeps(a, b), Keeps(b, c)
  PROVE  Keeps(a, c)
<1>. SUFFICES ASSUME NEW i \in DOMAIN a
              PROVE  \E k \in DOMAIN c : /\ c[k].start = a[i].start /\ a[i].end <= c[k].end
                                         /\ a[i].speaker # NoLabel => c[k].speaker # NoLabel
  BY DEF Keeps
<1>1. PICK j \in DOMAIN b : /\ b[j].start = a[i].start /\ a[i].end <= b[j].end
                            /\ a[i].speaker # NoLabel => b[j].speaker # NoLabel
  BY DEF Keeps
<1>2. PICK k \in DOMAIN c : /\ c[k].start = b[j].start /\ b[j].end <= c[k].end
                            /\ b[j].speaker # NoLabel => c[k].speaker # NoLabel
  BY DEF Keeps
<1>3. a[i].end \in Nat /\ b[j].end \in Nat /\ c[k].end \in Nat
  BY TurnListFacts
<1>. QED
  BY <1>1, <1>2, <1>3

\* An iteration of the loop refines a turn, whose start stays, or appends one
\* that is not near any other.
LEMMA MergedFacts ==
  ASSUME NEW ts \in Seq(Turn), NEW t \in Turn
  PROVE  LET us == Merged(ts, t)
         IN  us \in Seq(Turn) /\ Keeps(ts, us) /\ (Apart(ts) => Apart(us))
<1>1. /\ Len(ts) \in Nat /\ DOMAIN ts = 1 .. Len(ts) /\ \A i \in DOMAIN ts : ts[i] \in Turn
      /\ t.start \in Nat /\ t.end \in Nat /\ t.speaker \in Label
      /\ \A i \in DOMAIN ts : ts[i].start \in Nat /\ ts[i].end \in Nat
  <2>1. \A i \in 1 .. Len(ts) : ts[i] \in Turn
    BY ElementOfSeq
  <2>. QED
    BY <2>1, TurnListFacts DEF Turn
<1>2. PICK us : us = Merged(ts, t)
  OBVIOUS
<1>3. CASE HasMatch(ts, t)
  <2>. DEFINE i == CHOOSE i \in DOMAIN ts : FirstMatch(ts, t, i)
  <2>1. us = [ts EXCEPT ![i] = Restated(@, t)]
    BY <1>2, <1>3 DEF Merged
  <2>2. i \in DOMAIN ts
    <3>. DEFINE S == {j \in DOMAIN ts : Near(ts[j], t)}
    <3>1. S \subseteq Nat /\ S # {}
      BY <1>1, <1>3 DEF HasMatch
    <3>2. PICK j \in S : \A k \in S : j <= k
      <4>. HIDE DEF S
      <4>. QED
        BY <3>1, LeastExists
    <3>3. FirstMatch(ts, t, j) /\ j \in DOMAIN ts
      BY <3>2 DEF FirstMatch
    <3>. QED
      BY <3>3
  <2>. HIDE DEF i
  <2>3. PICK r : r = Restated(ts[i], t)
    OBVIOUS
  <2>4. /\ r \in Turn /\ r.start = ts[i].start /\ ts[i].end <= r.end
        /\ ts[i].speaker # NoLabel => r.speaker # NoLabel
    BY <1>1, <2>2, <2>3 DEF Restated, Turn, Larger
  <2>5. us = [ts EXCEPT ![i] = r] /\ us \in Seq(Turn)
    BY <1>1, <2>1, <2>2, <2>3, <2>4, ExceptSeq
  <2>6. /\ DOMAIN us = DOMAIN ts /\ us[i] = r
        /\ \A j \in DOMAIN ts : j # i => us[j] = ts[j]
    BY <2>2, <2>5
  <2>7. \A j \in DOMAIN ts : us[j].start = ts[j].start
    BY <2>4, <2>6
  <2>8. Apart(ts) => Apart(us)
    BY <2>6, <2>7 DEF Apart, Near
  <2>9. Keeps(ts, us)
    <3>. SUFFICES ASSUME NEW j \in DOMAIN ts
                  PROVE  /\ us[j].start = ts[j].start /\ ts[j].end <= us[j].end
                         /\ ts[j].speaker # NoLabel => us[j].speaker # NoLabel
      BY <2>6 DEF Keeps
    <3>. QED
      BY <1>1, <2>4, <2>6
  <2>. QED
    BY <1>2, <2>5, <2>8, <2>9
<1>4. CASE ~ HasMatch(ts, t)
  <2>1. us = Append(ts, t)
    BY <1>2, <1>4 DEF Merged
  <2>2. /\ us \in Seq(Turn) /\ DOMAIN us = 1 .. Len(ts) + 1 /\ us[Len(ts) + 1] = t
        /\ \A j \in 1 .. Len(ts) : us[j] = ts[j]
    BY <2>1, AppendProperties, LenProperties
  <2>3. \A j \in DOMAIN ts : ~ Near(ts[j], t) /\ ~ Near(t, ts[j])
    BY <1>4 DEF HasMatch, Near
  <2>4. Apart(ts) => Apart(us)
    <3>. SUFFICES ASSUME Apart(ts), NEW a \in DOMAIN us, NEW b \in DOMAIN us, a # b
                  PROVE  ~ Near(us[a], us[b])
      BY DEF Apart
    <3>1. CASE a \in DOMAIN ts /\ b \in DOMAIN ts
      BY <1>1, <2>2, <3>1 DEF Apart
    <3>2. CASE a = Len(ts) + 1 \/ b = Len(ts) + 1
      BY <1>1, <2>2, <2>3, <3>2
    <3>. QED
      BY <1>1, <2>2, <3>1, <3>2
  <2>5. Keeps(ts, us)
    <3>. SUFFICES ASSUME NEW j \in DOMAIN ts
                  PROVE  j \in DOMAIN us /\ us[j] = ts[j] /\ ts[j].end <= ts[j].end
      BY DEF Keeps
    <3>. QED
      BY <1>1, <2>2
  <2>. QED
    BY <1>2, <2>2, <2>4, <2>5
<1>. QED
  BY <1>3, <1>4

\* The loop over a snapshot leaves a list of turns in which every turn before it
\* is kept.
LEMMA FoldFacts ==
  ASSUME NEW base \in Seq(Turn), NEW s \in Seq(Turn)
  PROVE  LET us == FoldLeft(Merged, base, s)
         IN  us \in Seq(Turn) /\ Keeps(base, us) /\ (Apart(base) => Apart(us))
<1>. DEFINE n == Len(s)
            iter == CHOOSE f : LoopOver(f, base, s, n)
<1>1. n \in Nat /\ DOMAIN s = 1 .. n /\ \A i \in 1 .. n : s[i] \in Turn
  BY LenProperties, ElementOfSeq
<1>2. FoldLeft(Merged, base, s) = iter[1 .. n]
  BY <1>1 DEF FoldLeft, MapThenFoldSet, LoopOver
<1>3. LoopOver(iter, base, s, n)
  <2>1. \E f : LoopOver(f, base, s, n)
    BY <1>1, LoopExists
  <2>. QED
    BY <2>1
<1>. HIDE DEF iter, n
<1>4. \A S \in SUBSET (1 .. n) :
        iter[S] = IF S = {} THEN base ELSE Merged(iter[S \ {Max(S)}], s[Max(S)])
  BY <1>3 DEF LoopOver
<1>. DEFINE Good(us) == us \in Seq(Turn) /\ Keeps(base, us) /\ (Apart(base) => Apart(us))
            upTo == {m \in Nat : m <= n => Good(iter[1 .. m])}
<1>5. 0 \in upTo
  <2>1. 1 .. 0 = {} /\ {} \in SUBSET (1 .. n)
    OBVIOUS
  <2>2. iter[{}] = base
    BY <1>4, <2>1
  <2>3. Good(base)
    BY KeptAlone
  <2>. QED
    BY <2>1, <2>2, <2>3
<1>6. ASSUME NEW m \in Nat, m \in upTo
      PROVE  m + 1 \in upTo
  <2>. SUFFICES ASSUME m + 1 <= n
                PROVE  Good(iter[1 .. m + 1])
    OBVIOUS
  <2>. DEFINE S == 1 .. m + 1
  <2>1. S \in SUBSET (1 .. n) /\ S # {} /\ m + 1 \in S
    <3>1. m + 1 \in S
      OBVIOUS
    <3>2. \A x \in S : x \in 1 .. n
      BY <1>1
    <3>. QED
      BY <3>1, <3>2
  <2>2. Max(S) = m + 1
    <3>1. PICK x : x = Max(S)
      OBVIOUS
    <3>2. x \in S /\ \A y \in S : y <= x
      <4>. HIDE DEF S
      <4>. QED
        BY <1>1, <2>1, <3>1, TopOf
    <3>. QED
      BY <2>1, <3>1, <3>2
  <2>3. S \ {m + 1} = 1 .. m
    OBVIOUS
  <2>4. iter[S] = Merged(iter[1 .. m], s[m + 1])
    BY <1>4, <2>1, <2>2, <2>3
  <2>5. PICK us : us = iter[1 .. m]
    OBVIOUS
  <2>6. Good(us) /\ s[m + 1] \in Turn
    BY <1>1, <1>6, <2>5
  <2>7. PICK ws : ws = Merged(us, s[m + 1])
    OBVIOUS
  <2>8. ws \in Seq(Turn) /\ Keeps(us, ws) /\ (Apart(us) => Apart(ws))
    BY <2>6, <2>7, MergedFacts
  <2>9. Good(ws)
    BY <2>6, <2>8, KeptTwice
  <2>. QED
    BY <2>4, <2>5, <2>7, <2>9
<1>. HIDE DEF upTo
<1>7. n \in upTo
  BY <1>1, <1>5, <1>6, InductionOnSet
<1>. QED
  BY <1>1, <1>2, <1>7 DEF upTo

\* The sort keeps the turns, and puts them in order.
LEMMA SortedFacts ==
  ASSUME NEW ts \in Seq(Turn), NEW us \in SortedOf(ts)
  PROVE  us \in Seq(Turn) /\ Keeps(ts, us) /\ (Apart(ts) => Apart(us)) /\ Ordered(us)
<1>1. PICK p \in Permutation(DOMAIN ts) : us = [i \in DOMAIN ts |-> ts[p[i]]]
  BY DEF SortedOf
<1>2. /\ Len(ts) \in Nat /\ DOMAIN ts = 1 .. Len(ts)
      /\ \A i \in 1 .. Len(ts) : ts[i] \in Turn /\ ts[i].end \in Nat
  BY ElementOfSeq, TurnListFacts
<1>3. /\ \A i \in DOMAIN ts : p[i] \in DOMAIN ts
      /\ \A i, j \in DOMAIN ts : p[i] = p[j] => i = j
      /\ \A j \in DOMAIN ts : \E i \in DOMAIN ts : p[i] = j
  BY DEF Permutation
<1>4. us \in Seq(Turn)
  <2>1. us \in [1 .. Len(ts) -> Turn]
    BY <1>1, <1>2, <1>3
  <2>. QED
    BY <1>2, <2>1, SeqDef
<1>5. DOMAIN us = DOMAIN ts /\ \A i \in DOMAIN ts : us[i] = ts[p[i]]
  BY <1>1
<1>6. Keeps(ts, us)
  <2>. SUFFICES ASSUME NEW j \in DOMAIN ts
                PROVE  \E i \in DOMAIN us : us[i] = ts[j] /\ ts[j].end <= ts[j].end
    BY DEF Keeps
  <2>1. PICK i \in DOMAIN ts : p[i] = j
    BY <1>3
  <2>2. i \in DOMAIN us /\ us[i] = ts[j]
    BY <1>5, <2>1
  <2>3. ts[j].end \in Nat
    BY <1>2
  <2>. QED
    BY <2>2, <2>3
<1>7. Apart(ts) => Apart(us)
  <2>. SUFFICES ASSUME Apart(ts), NEW i \in DOMAIN us, NEW j \in DOMAIN us, i # j
                PROVE  ~ Near(us[i], us[j])
    BY DEF Apart
  <2>1. i \in DOMAIN ts /\ j \in DOMAIN ts /\ us[i] = ts[p[i]] /\ us[j] = ts[p[j]]
    BY <1>5
  <2>2. p[i] \in DOMAIN ts /\ p[j] \in DOMAIN ts /\ p[i] # p[j]
    BY <1>3, <2>1
  <2>. QED
    BY <2>1, <2>2 DEF Apart
<1>. QED
  BY <1>4, <1>6, <1>7 DEF SortedOf

\* What a call of update_turns leaves.
LEMMA HarvestFacts ==
  ASSUME turns \in Seq(Turn), NEW s \in Snapshots \cup {<<>>}, Harvest(s)
  PROVE  /\ turns' \in Seq(Turn) /\ Keeps(turns, turns')
         /\ Apart(turns) => Apart(turns') /\ Ordered(turns')
<1>1. s \in Seq(Turn)
  BY EngineAssumption, EmptySeq
<1>2. PICK ts : ts = FoldLeft(Merged, turns, s)
  OBVIOUS
<1>3. ts \in Seq(Turn) /\ Keeps(turns, ts) /\ (Apart(turns) => Apart(ts))
  BY <1>1, <1>2, FoldFacts
<1>4. PICK us : us = turns'
  OBVIOUS
<1>5. us \in SortedOf(ts)
  BY <1>2, <1>4 DEF Harvest
<1>6. us \in Seq(Turn) /\ Keeps(ts, us) /\ (Apart(ts) => Apart(us)) /\ Ordered(us)
  BY <1>3, <1>5, SortedFacts
<1>7. Keeps(turns, us)
  BY <1>3, <1>6, KeptTwice
<1>. QED
  BY <1>3, <1>4, <1>6, <1>7

-----------------------------------------------------------------------------
(* Verdicts, pieces and numbers have types *)

\* An empty interval is placed like the one sample behind it.
LEMMA PlacedEmptyIs ==
  ASSUME NEW from \in Nat, NEW to \in Int
  PROVE  \E u \in Nat : Placed(1, from, to, TRUE) = Placed(1, from, u, TRUE)
<1>1. CASE to <= from
  <2>1. from + 1 \in Nat /\ ~ (from + 1 <= from)
    OBVIOUS
  <2>2. Placed(1, from, to, TRUE) = Placed(1, from, from + 1, TRUE)
    BY <1>1, <2>1, Zenon DEF Placed
  <2>. QED
    BY <2>1, <2>2
<1>2. CASE ~ (to <= from)
  <2>1. to \in Nat
    BY <1>2
  <2>. QED
    BY <2>1
<1>. QED
  BY <1>1, <1>2

\* A place in audio that has a width.
Proper(s) == s.start \in Nat /\ s.end \in Nat /\ s.start < s.end

\* The places of tokens, whatever the shift takes from their times.
LEMMA TimedSpansFacts ==
  ASSUME times \in Seq(0 .. Total)
  PROVE  /\ DOMAIN TimedSpans = 1 .. Len(times) /\ Len(times) \in Nat
         /\ \A i \in 1 .. Len(times) : Proper(TimedSpans[i])
<1>1. /\ Len(times) \in Nat /\ DOMAIN times = 1 .. Len(times)
      /\ \A i \in 1 .. Len(times) : times[i] \in 0 .. Total
      /\ Total \in Nat /\ TokenShift \in Nat /\ TokenWidth \in Nat
  BY EngineAssumption, LenProperties, ElementOfSeq
<1>. DEFINE At(i) == times[i] - TokenShift
            Until(i) == IF i < Len(times) THEN At(i + 1) ELSE At(i) + TokenWidth
            from(i) == Larger(0, At(i))
            to(i) == Larger(Until(i), At(i) + 1)
<1>2. TimedSpans = [i \in DOMAIN times |-> Placed(1, from(i), to(i), TRUE)[1]]
  BY DEF TimedSpans
<1>3. \A i \in 1 .. Len(times) : At(i) \in Int
  BY <1>1
<1>4. \A i \in 1 .. Len(times) : Until(i) \in Int
  <2>1. \A i \in 1 .. Len(times) : i < Len(times) => i + 1 \in 1 .. Len(times)
    BY <1>1
  <2>. HIDE DEF At
  <2>. QED
    BY <1>1, <1>3, <2>1
<1>5. \A i \in 1 .. Len(times) : from(i) \in Nat /\ to(i) \in Int
  <2>. HIDE DEF At, Until
  <2>. QED
    BY <1>3, <1>4 DEF Larger
<1>. HIDE DEF At, Until, from, to
<1>6. ASSUME NEW i \in 1 .. Len(times)
      PROVE  Proper(TimedSpans[i])
  <2>1. PICK f \in Nat, u \in Nat : TimedSpans[i] = Placed(1, f, u, TRUE)[1]
    <3>1. PICK f \in Nat, t \in Int : f = from(i) /\ t = to(i)
      BY <1>5
    <3>2. PICK u \in Nat : Placed(1, f, t, TRUE) = Placed(1, f, u, TRUE)
      BY PlacedEmptyIs
    <3>3. TimedSpans[i] = Placed(1, f, t, TRUE)[1]
      BY <1>1, <1>2, <3>1
    <3>. QED
      BY <3>2, <3>3
  <2>. DEFINE p == Placed(1, f, u, TRUE)
  <2>2. p \in Seq(Span) /\ Len(p) = 1 /\ p[1].start < p[1].end
    <3>1. 1 \in Nat /\ TRUE \in BOOLEAN /\ 1 \in 1 .. 1
      OBVIOUS
    <3>. QED
      BY <3>1, PlacedFacts
  <2>. HIDE DEF p
  <2>3. p[1] \in Span
    <3>1. 1 \in 1 .. Len(p)
      BY <2>2
    <3>. QED
      BY <2>2, <3>1, ElementOfSeq
  <2>. QED
    BY <2>1, <2>2, <2>3 DEF p, Proper, Span
<1>. QED
  BY <1>1, <1>2, <1>6

\* A verdict: a label, and whether it came from a gap.
Verdict == [speaker : Label, snapped : BOOLEAN]

\* Every character that has a place gets one.
LEMMA MarkTyped ==
  ASSUME NEW ts \in Seq(Turn), NEW sp, NEW k \in DOMAIN sp, Proper(sp[k]), NEW gap \in GapPolicy
  PROVE  Marks(ts, sp, gap)[k] \in Verdict
<1>. DEFINE t == sp[k].start
            dur == sp[k].end - sp[k].start
            c == Covering(ts, t, dur, gap)
<1>1. t \in Nat /\ dur \in Nat
  BY DEF Proper
<1>. HIDE DEF t, dur
<1>2. c.turn \in DOMAIN ts \cup {NoTurn} /\ c.snapped \in BOOLEAN
  BY <1>1, CoveringFacts
<1>. HIDE DEF c
<1>. DEFINE s == IF c.turn = NoTurn THEN NoLabel ELSE ts[c.turn].speaker
<1>3. s \in Label
  BY <1>2, TurnListFacts DEF NoTurn, Label
<1>4. Marks(ts, sp, gap)[k] = [speaker |-> s, snapped |-> c.snapped]
  BY DEF Marks, c, t, dur
<1>. QED
  BY <1>2, <1>3, <1>4 DEF Verdict

\* A unit of characters with verdicts becomes or joins a piece with a label.
LEMMA UnitTyped ==
  ASSUME NEW C, NEW ps \in Seq(PieceOf(Label, BOOLEAN, C)), NEW s \in Seq(C), NEW marking,
         \A k \in 1 .. Len(s) : marking[k] \in Verdict,
         NEW i \in 1 .. Len(s), NEW j \in i .. Len(s)
  PROVE  PutUnit(ps, s, marking, i, j) \in Seq(PieceOf(Label, BOOLEAN, C))
<1>. DEFINE w == Winner(marking, i, j)
<1>1. Len(s) \in Nat
  BY LenProperties
<1>2. Label \subseteq Nat
  BY TurnsAssumption DEF Label, NoLabel
<1>3. i \in Nat /\ j \in Nat /\ i <= j /\ \A k \in i .. j : k \in 1 .. Len(s)
  BY <1>1
<1>4. \A k \in i .. j : marking[k] \in [speaker : Nat, snapped : BOOLEAN]
  BY <1>2, <1>3 DEF Verdict
<1>5. w \in {marking[k] : k \in i .. j}
  BY <1>3, <1>4, WinnerFacts
<1>. HIDE DEF w
<1>6. w.speaker \in Label /\ w.snapped \in BOOLEAN
  BY <1>3, <1>5 DEF Verdict
<1>. QED
  BY <1>6, PutUnitTyped DEF w

\* The map of numbers outlives a pass: labels of the diarizer, each once.
Numbering(st) ==
  /\ DOMAIN st = {"open", "closed", "ids", "unattributed"}
  /\ st = [f \in DOMAIN st |-> st[f]]
  /\ st.ids \in Seq(Speaker) /\ IsInjective(st.ids)

\* What else of the state of a pass changes does not matter to them.
LEMMA NumberingOf ==
  ASSUME NEW st, Numbering(st), NEW v
  PROVE  /\ Numbering([st EXCEPT !.open = v]) /\ Numbering([st EXCEPT !.closed = v])
         /\ Numbering([st EXCEPT !.unattributed = v])
         /\ [st EXCEPT !.open = v].ids = st.ids
         /\ v \in Seq(Speaker) /\ IsInjective(v) => Numbering([st EXCEPT !.ids = v])
BY DEF Numbering

\* Closing a segment leaves the numbers alone.
LEMMA NumberingShut ==
  ASSUME NEW st, Numbering(st)
  PROVE  Numbering(CloseOpen(st)) /\ CloseOpen(st).ids = st.ids
<1>1. PICK more : more = Append(st.closed, st.open)
  OBVIOUS
<1>2. [st EXCEPT !.closed = Append(@, st.open), !.open = NoSegment]
        = [[st EXCEPT !.closed = more] EXCEPT !.open = NoSegment]
  BY <1>1 DEF Numbering
<1>3. PICK once : once = [st EXCEPT !.closed = more]
  OBVIOUS
<1>4. Numbering(once) /\ once.ids = st.ids
  BY <1>3, NumberingOf DEF Numbering
<1>5. Numbering([once EXCEPT !.open = NoSegment]) /\ [once EXCEPT !.open = NoSegment].ids = once.ids
  BY <1>4, NumberingOf
<1>. QED
  BY <1>2, <1>3, <1>4, <1>5 DEF CloseOpen

\* A label without a number gets one of its own.
LEMMA NumberingKept ==
  ASSUME NEW st, Numbering(st), NEW p, p.speaker \in Label
  PROVE  Numbering(TakePiece(st, p))
<1>. DEFINE next == IF Extends(st, p) THEN [st EXCEPT !.open.text = @ \o p.text]
                    ELSE OpenFor(st, p)
<1>1. ASSUME Extends(st, p) PROVE Numbering(next)
  <2>1. PICK seg : seg = [st.open EXCEPT !.text = @ \o p.text]
    OBVIOUS
  <2>2. [st EXCEPT !.open.text = @ \o p.text] = [st EXCEPT !.open = seg]
    BY <2>1
  <2>. QED
    BY <1>1, <2>2, NumberingOf
<1>2. ASSUME ~ Extends(st, p) PROVE Numbering(next)
  <2>. DEFINE ids == IF p.speaker = NoLabel \/ Contains(st.ids, p.speaker) THEN st.ids
                     ELSE Append(st.ids, p.speaker)
              number == IF p.speaker = NoLabel THEN Unattributed ELSE NumberOf(ids, p.speaker)
              seg == [speaker |-> number, id |-> p.speaker, text |-> p.text]
              shut == CloseOpen(st)
  <2>1. OpenFor(st, p) = [[shut EXCEPT !.open = seg] EXCEPT !.ids = ids]
    BY DEF OpenFor
  <2>2. ids \in Seq(Speaker) /\ IsInjective(ids)
    <3>1. st.ids \in Seq(Speaker) /\ IsInjective(st.ids)
      BY DEF Numbering
    <3>2. CASE p.speaker = NoLabel \/ Contains(st.ids, p.speaker)
      BY <3>1, <3>2
    <3>3. CASE p.speaker # NoLabel /\ ~ Contains(st.ids, p.speaker)
      <4>1. p.speaker \in Speaker /\ ids = Append(st.ids, p.speaker)
        BY <3>3 DEF Label
      <4>2. PICK is \in Seq(Speaker), s \in Speaker : is = st.ids /\ s = p.speaker
        BY <3>1, <4>1
      <4>3. /\ Append(is, s) \in Seq(Speaker) /\ Len(is) \in Nat
            /\ DOMAIN is = 1 .. Len(is) /\ DOMAIN Append(is, s) = 1 .. Len(is) + 1
            /\ \A k \in 1 .. Len(is) : Append(is, s)[k] = is[k]
            /\ Append(is, s)[Len(is) + 1] = s
        BY AppendProperties, LenProperties
      <4>4. \A k \in 1 .. Len(is) : is[k] # s
        BY <3>3, <4>2 DEF Contains
      <4>5. \A a, b \in 1 .. Len(is) : is[a] = is[b] => a = b
        BY <3>1, <4>2, <4>3 DEF IsInjective
      <4>6. PICK more : more = Append(is, s)
        OBVIOUS
      <4>7. ASSUME NEW a \in DOMAIN more, NEW b \in DOMAIN more, more[a] = more[b]
            PROVE  a = b
        BY <4>3, <4>4, <4>5, <4>6, <4>7
      <4>. QED
        BY <4>1, <4>2, <4>3, <4>6, <4>7 DEF IsInjective
    <3>. QED
      BY <3>2, <3>3
  <2>. HIDE DEF ids, seg
  <2>3. Numbering(shut)
    BY NumberingShut
  <2>4. Numbering([shut EXCEPT !.open = seg])
    BY <2>3, NumberingOf
  <2>5. Numbering([[shut EXCEPT !.open = seg] EXCEPT !.ids = ids])
    BY <2>2, <2>4, NumberingOf
  <2>. QED
    BY <1>2, <2>1, <2>5
<1>3. Numbering(next)
  BY <1>1, <1>2
<1>4. \A u : Numbering([next EXCEPT !.unattributed = u])
  BY <1>3, NumberingOf
<1>5. TakePiece(st, p) \in {next} \cup {[next EXCEPT !.unattributed = u] : u \in {next.unattributed + Len(p.text)}}
  BY DEF TakePiece, next
<1>. HIDE DEF next
<1>. QED
  BY <1>3, <1>4, <1>5

-----------------------------------------------------------------------------
(* The types of a run *)

\* The steps of a run.
Steps == {"diarize", "show", "showing", "transcribe", "tail", "finish", "attribute",
          "publishing", "done", "failed"}

\* The set-up, the step and the lists of turns.
Loop == /\ cfg \in Setups /\ pc \in Steps
        /\ turns \in Seq(Turn) /\ shown \in Seq(Turn)
        /\ Apart(turns) /\ Ordered(turns)

\* The recognizer: its times are those of its text and within the audio.
Listens == /\ Hears /\ asrText \in {heard, <<>>}
           /\ times \in Seq(0 .. Total)
           /\ Len(times) = IF cfg.tokens = "exact" THEN Len(heard) ELSE 0
           /\ charged <= Total

\* The pass: every character it sees has a verdict, every piece a label.
Attributes == /\ pieces \in Seq(PieceOf(Label, BOOLEAN, Chars))
              /\ InPass => \A k \in 1 .. Len(PassText) : marks[k] \in Verdict
              /\ Numbering(pass)

\* The inductive invariant of the types, and of the order of the turns.
TInv == Loop /\ Listens /\ Attributes

\* A run starts with nothing heard and no turns.
LEMMA TypedAtFirst == Init => TInv
<1>. SUFFICES ASSUME Init PROVE TInv
  OBVIOUS
<1>1. Loop
  BY EmptySeq DEF Init, Loop, Steps, Apart, Ordered
<1>2. Listens
  <2>1. heard = <<>> /\ times = <<>> /\ asrText = <<>> /\ charged = 0
    BY DEF Init
  <2>2. 0 <= Total
    BY EngineAssumption
  <2>3. Len(heard) = 0 /\ 0 <= Len(Spoken) /\ SubSeq(Spoken, 1, 0) = <<>> /\ Len(times) = 0
    BY <2>1, SpokenFacts, SubSeqEmpty
  <2>4. times \in Seq(0 .. Total)
    BY <2>1, EmptySeq
  <2>. QED
    BY <2>1, <2>2, <2>3, <2>4 DEF Listens, Hears
<1>3. Attributes
  <2>1. pieces = <<>> /\ pass = StartOfPass(<<>>) /\ ~ InPass
    BY DEF Init, InPass
  <2>2. Numbering(StartOfPass(<<>>))
    BY EmptySeq DEF Numbering, StartOfPass, IsInjective
  <2>. QED
    BY <2>1, <2>2, EmptySeq DEF Attributes
<1>. QED
  BY <1>1, <1>2, <1>3 DEF TInv

\* Turns change only in the calls of update_turns.
LEMMA LoopStep ==
  ASSUME Loop, [Next]_vars
  PROVE  Loop'
<1>1. CASE PushDiar
  <2>1. turns' \in Seq(Turn) /\ Apart(turns') /\ Ordered(turns')
    BY <1>1, HarvestFacts DEF PushDiar, Loop
  <2>. QED
    BY <1>1, <2>1 DEF PushDiar, Loop, Steps
<1>2. CASE PushTail
  <2>1. turns' \in Seq(Turn) /\ Apart(turns') /\ Ordered(turns')
    BY <1>2, HarvestFacts DEF PushTail, Loop
  <2>. QED
    BY <1>2, <2>1 DEF PushTail, Loop, Steps
<1>3. CASE Finish
  <2>1. turns' \in Seq(Turn) /\ Apart(turns') /\ Ordered(turns')
    BY <1>3, HarvestFacts DEF Finish, Loop
  <2>. QED
    BY <1>3, <2>1 DEF Finish, Loop, Steps
<1>4. CASE UNCHANGED <<cfg, turns, shown>> /\ pc' \in Steps
  BY <1>4 DEF Loop
<1>5. CASE UNCHANGED vars
  BY <1>5 DEF vars, Loop
<1>6. CASE \/ PassDiarBy \/ PushFails \/ Accept \/ AcceptFails \/ PassAsrBy
           \/ BeginPass \/ TagUnit \/ TakeNextPiece \/ EndPass
  <2>1. UNCHANGED <<cfg, turns, shown>> /\ (pc' \in Steps \/ pc' = pc)
    BY <1>6 DEF PassDiarBy, PushFails, Accept, AcceptFails, PassAsrBy, NextPiece,
                BeginPass, TagUnit, TakeNextPiece, EndPass, Steps
  <2>. QED
    BY <1>4, <2>1 DEF Loop
<1>. QED
  BY <1>1, <1>2, <1>3, <1>5, <1>6 DEF Next, Stop

\* What an accept hears has times, if the recognizer keeps them.
LEMMA TimesTyped ==
  ASSUME Heard, Listens, Recognize, UNCHANGED cfg
  PROVE  /\ times' \in Seq(0 .. Total)
         /\ Len(times') = IF cfg'.tokens = "exact" THEN Len(heard') ELSE 0
<1>1. /\ heard \in Seq(Chars) /\ Len(heard) \in Nat /\ Spoken \in Seq(Chars) /\ Len(Spoken) \in Nat
      /\ off \in Nat /\ Total \in Nat /\ Piece \in Nat /\ Len(heard) <= Len(Spoken)
      /\ times \in Seq(0 .. Total) /\ Len(times) = IF cfg.tokens = "exact" THEN Len(heard) ELSE 0
  BY SpokenFacts, LenProperties, EngineAssumption DEF Heard, Listens, Hears
<1>2. PICK n \in Len(heard) .. Len(Spoken) :
        /\ heard' = SubSeq(Spoken, 1, n)
        /\ IF cfg.tokens # "exact" THEN UNCHANGED times
           ELSE \E t \in off .. Fed : times' = times \o [k \in 1 .. n - Len(heard) |-> t]
  BY DEF Recognize
<1>3. n \in 0 .. Len(Spoken) /\ 0 \in 0 .. n
  BY <1>1, <1>2
<1>4. Len(heard') = n
  BY <1>1, <1>2, <1>3, BeginningOf
<1>5. CASE cfg.tokens # "exact"
  BY <1>1, <1>2, <1>5
<1>6. CASE cfg.tokens = "exact"
  <2>1. PICK t \in off .. Fed : times' = times \o [k \in 1 .. n - Len(heard) |-> t]
    BY <1>2, <1>6
  <2>2. t \in 0 .. Total
    BY <1>1 DEF Fed, Smaller
  <2>3. PICK d \in Nat : d = n - Len(heard)
    <3>1. PICK l \in Nat : l = Len(heard) /\ n \in l .. Len(Spoken)
      BY <1>1, <1>2
    <3>2. n - l \in Nat
      BY <1>1, <3>1
    <3>. QED
      BY <3>1, <3>2
  <2>. DEFINE new == [k \in 1 .. d |-> t]
  <2>4. new \in Seq(0 .. Total) /\ Len(new) = d
    <3>1. new \in [1 .. d -> 0 .. Total]
      BY <2>2
    <3>2. new \in Seq(0 .. Total)
      BY <3>1, SeqDef
    <3>3. DOMAIN new = 1 .. d
      OBVIOUS
    <3>. HIDE DEF new
    <3>. QED
      BY <2>3, <3>2, <3>3, LenProperties
  <2>5. times' = times \o new
    BY <2>1, <2>3
  <2>. HIDE DEF new
  <2>6. times \o new \in Seq(0 .. Total) /\ Len(times \o new) = Len(times) + Len(new)
    BY <1>1, <2>4, ConcatProperties
  <2>. QED
    BY <1>1, <1>2, <1>4, <1>6, <2>3, <2>4, <2>5, <2>6
<1>. QED
  BY <1>5, <1>6

\* Accepts hear more and charge audio up to the horizon, which the end bounds.
LEMMA ListensStep ==
  ASSUME EInv, Listens, [Next]_vars
  PROVE  Listens'
<1>1. Heard /\ Hears /\ charged \in Nat /\ charged <= Total /\ Total \in Nat
  BY EngineAssumption DEF EInv, Timeline, Heard, Listens
<1>2. Horizon <= Total
  <2>1. off \in Nat /\ Piece \in Nat /\ Latency \in Nat
    BY <1>1, EngineAssumption DEF Heard
  <2>2. Fed \in Nat /\ Fed <= Total
    BY <1>1, <2>1 DEF Fed, Smaller
  <2>3. PICK h \in Int : h = (IF LastPiece THEN Total ELSE Fed - Latency) /\ h <= Total
    <3>1. Fed - Latency \in Int /\ Fed - Latency <= Total
      BY <1>1, <2>1, <2>2
    <3>2. Total \in Int /\ Total <= Total
      BY <1>1
    <3>. QED
      BY <3>1, <3>2
  <2>4. Horizon = Larger(h, charged)
    BY <2>3 DEF Horizon
  <2>. QED
    BY <1>1, <2>3, <2>4 DEF Larger
<1>3. CASE Accept \/ AcceptFails
  <2>1. /\ Recognize /\ UNCHANGED cfg
        /\ asrText' \in {heard', <<>>} /\ (charged' = Horizon \/ charged' = charged)
    BY <1>3 DEF Accept, AcceptFails, TakeText, timeline
  <2>2. Hears'
    BY <1>1, <2>1, HeardGrows DEF Hears
  <2>3. /\ times' \in Seq(0 .. Total)
        /\ Len(times') = IF cfg'.tokens = "exact" THEN Len(heard') ELSE 0
    BY <1>1, <2>1, TimesTyped
  <2>4. charged' <= Total
    BY <1>1, <1>2, <2>1
  <2>. QED
    BY <2>1, <2>2, <2>3, <2>4 DEF Listens
<1>4. CASE UNCHANGED <<cfg, heard, times, asrText, charged>>
  BY <1>4 DEF Listens, Hears
<1>. QED
  BY <1>3, <1>4
  DEF Next, PushDiar, PassDiarBy, PushFails, PassAsrBy, PushTail, Finish,
      BeginPass, TagUnit, TakeNextPiece, EndPass, Stop, asr, timeline, vars

\* Every character a pass sees has a place of positive width.
LEMMA PlacesOfPass ==
  ASSUME EInv, Listens
  PROVE  /\ PassText \in Seq(Chars) /\ Len(PassText) \in Nat
         /\ DOMAIN PassSpans = 1 .. Len(PassText)
         /\ \A k \in DOMAIN PassSpans : Proper(PassSpans[k])
<1>1. heard \in Seq(Chars) /\ text \in Seq(Chars) /\ Len(heard) \in Nat /\ Len(text) \in Nat
  BY LenProperties DEF EInv, Timeline, Heard
<1>2. CASE UsesTokens
  <2>1. PassText = heard /\ PassSpans = TimedSpans /\ cfg.tokens = "exact"
    BY <1>2 DEF PassText, PassSpans, UsesTokens
  <2>2. Len(times) = Len(heard) /\ times \in Seq(0 .. Total)
    BY <2>1 DEF Listens
  <2>3. /\ DOMAIN TimedSpans = 1 .. Len(times)
        /\ \A i \in 1 .. Len(times) : Proper(TimedSpans[i])
    BY <2>2, TimedSpansFacts
  <2>. QED
    BY <1>1, <2>1, <2>2, <2>3
<1>3. CASE ~ UsesTokens
  <2>1. PassText = text /\ PassSpans = spans
    BY <1>3 DEF PassText, PassSpans
  <2>2. /\ spans \in Seq(Span) /\ Len(spans) = Len(text)
        /\ \A k \in DOMAIN spans : spans[k].start < spans[k].end
    BY DEF EInv, Timeline, Heard, Wide
  <2>3. DOMAIN spans = 1 .. Len(text) /\ \A k \in DOMAIN spans : spans[k] \in Span
    BY <2>2, LenProperties, ElementOfSeq
  <2>. QED
    BY <1>1, <2>1, <2>2, <2>3 DEF Proper, Span
<1>. QED
  BY <1>2, <1>3

\* The loops of attribute hand on labels; numbers are only added, or all forgotten.
LEMMA AttributesStep ==
  ASSUME EInv, Loop, Listens, Attributes, [Next]_vars
  PROVE  Attributes'
<1>1. CASE BeginPass
  <2>1. /\ marks' = Marks(turns, PassSpans, cfg.gap)
        /\ pass' \in {pass, StartOfPass(<<>>)}
        /\ UNCHANGED <<pieces, heard, asrText, text, cfg>>
    BY <1>1 DEF BeginPass, KnownToFinal, asr, timeline
  <2>2. PassText' = PassText
    BY <2>1 DEF PassText, UsesTokens
  <2>3. cfg.gap \in GapPolicy /\ turns \in Seq(Turn)
    <3>1. cfg \in Setup
      BY EngineAssumption DEF Loop
    <3>. QED
      BY <3>1 DEF Setup, Loop
  <2>4. ASSUME NEW k \in 1 .. Len(PassText)
        PROVE  marks'[k] \in Verdict
    <3>1. PICK sp, gap : sp = PassSpans /\ gap = cfg.gap
      OBVIOUS
    <3>2. k \in DOMAIN sp /\ Proper(sp[k])
      BY <3>1, PlacesOfPass
    <3>3. Marks(turns, sp, gap)[k] \in Verdict
      BY <2>3, <3>1, <3>2, MarkTyped
    <3>. QED
      BY <2>1, <3>1, <3>3
  <2>5. Numbering(StartOfPass(<<>>))
    BY EmptySeq DEF Numbering, StartOfPass, IsInjective
  <2>6. Numbering(pass')
    BY <2>1, <2>5 DEF Attributes
  <2>. QED
    BY <2>1, <2>2, <2>4, <2>6 DEF Attributes, Chars
<1>2. CASE TagUnit
  <2>1. /\ InPass /\ at <= Len(PassText) /\ UNCHANGED <<pc, pass, marks, heard, asrText, text, cfg>>
        /\ pieces' = PutUnit(pieces, PassText, marks, at, UnitEnd(PassText, at))
    BY <1>2 DEF TagUnit, asr, timeline
  <2>2. PassText' = PassText /\ InPass' = InPass
    BY <2>1 DEF PassText, UsesTokens, InPass
  <2>3. PassText \in Seq(Chars) /\ Len(PassText) \in Nat /\ at \in 1 .. Len(PassText)
    BY <2>1, PlacesOfPass DEF EInv, FinalPass
  <2>4. UnitEnd(PassText, at) \in at .. Len(PassText)
    BY <2>3, UnitEndFacts
  <2>5. PICK s, last : s = PassText /\ last = UnitEnd(PassText, at)
    OBVIOUS
  <2>6. \A k \in 1 .. Len(s) : marks[k] \in Verdict
    BY <2>1, <2>5 DEF Attributes
  <2>7. PutUnit(pieces, s, marks, at, last) \in Seq(PieceOf(Label, BOOLEAN, Chars))
    BY <2>3, <2>4, <2>5, <2>6, UnitTyped DEF Attributes
  <2>. QED
    BY <2>1, <2>2, <2>5, <2>7 DEF Attributes, Chars
<1>3. CASE TakeNextPiece
  <2>1. /\ pieces # <<>> /\ pass' = TakePiece(pass, Head(pieces)) /\ pieces' = Tail(pieces)
        /\ UNCHANGED <<pc, marks, heard, asrText, text, cfg>>
    BY <1>3 DEF TakeNextPiece, asr, timeline
  <2>2. PassText' = PassText /\ InPass' = InPass
    BY <2>1 DEF PassText, UsesTokens, InPass
  <2>3. /\ Head(pieces) \in PieceOf(Label, BOOLEAN, Chars)
        /\ Tail(pieces) \in Seq(PieceOf(Label, BOOLEAN, Chars))
    BY <2>1, HeadTailProperties DEF Attributes
  <2>4. Numbering(pass')
    <3>1. PICK p : p = Head(pieces)
      OBVIOUS
    <3>2. p.speaker \in Label
      BY <2>3, <3>1 DEF PieceOf
    <3>3. Numbering(TakePiece(pass, p))
      BY <3>2, NumberingKept DEF Attributes
    <3>. QED
      BY <2>1, <3>1, <3>3
  <2>. QED
    BY <2>1, <2>2, <2>3, <2>4 DEF Attributes, Chars
<1>4. CASE EndPass
  <2>1. /\ pieces' = <<>> /\ pass' \in {StartOfPass(pass.ids), CloseOpen(pass)} /\ ~ InPass'
    BY <1>4 DEF EndPass, NoPass, InPass
  <2>2. Numbering(pass)
    BY DEF Attributes
  <2>3. Numbering(StartOfPass(pass.ids))
    BY <2>2 DEF Numbering, StartOfPass
  <2>4. Numbering(CloseOpen(pass))
    BY <2>2, NumberingShut
  <2>. QED
    BY <2>1, <2>3, <2>4, EmptySeq DEF Attributes
<1>5. CASE UNCHANGED <<pieces, pass>> /\ ~ InPass'
  BY <1>5 DEF Attributes, Chars
<1>6. CASE UNCHANGED vars
  BY <1>6 DEF Attributes, Chars, vars, attribution, timeline, asr, InPass, PassText, UsesTokens
<1>. QED
  BY <1>1, <1>2, <1>3, <1>4, <1>5, <1>6
  DEF Next, PushDiar, PassDiarBy, PushFails, Accept, AcceptFails, PassAsrBy, NextPiece,
      PushTail, Finish, Stop, attribution, InPass

\* The invariant holds throughout a run.
LEMMA TypedInvariant == Spec => [](EInv /\ TInv)
<1>1. EInv /\ TInv /\ [Next]_vars => TInv'
  BY LoopStep, ListensStep, AttributesStep DEF TInv
<1>. QED
  BY InductiveInvariant, TypedAtFirst, <1>1, PTL DEF Spec

\* What it says of types.
LEMMA TypedMeans == EInv /\ TInv => TypeOK
<1>. SUFFICES ASSUME EInv, TInv PROVE TypeOK
  OBVIOUS
<1>1. IsPrefix(heard, Spoken)
  <2>1. heard \in Seq(Chars) /\ SubSeq(heard, 1, Len(heard)) = heard
    BY SubSeqFull DEF EInv, Timeline, Heard
  <2>2. Len(heard) <= Len(Spoken) /\ heard = SubSeq(Spoken, 1, Len(heard))
    BY DEF TInv, Listens, Hears
  <2>. QED
    BY <2>1, <2>2 DEF IsPrefix
<1>2. \A n \in DOMAIN times : times[n] \in 0 .. Total
  <2>1. times \in Seq(0 .. Total)
    BY DEF TInv, Listens
  <2>. QED
    BY <2>1, LenProperties, ElementOfSeq
<1>3. charged \in 0 .. Total /\ off \in Nat /\ Len(text) = Len(spans)
  BY EngineAssumption DEF EInv, Timeline, Heard, TInv, Listens
<1>4. IsInjective(pass.ids) /\ Range(pass.ids) \subseteq Speaker
  <2>1. pass.ids \in Seq(Speaker) /\ IsInjective(pass.ids)
    BY DEF TInv, Attributes, Numbering
  <2>2. \A k \in DOMAIN pass.ids : pass.ids[k] \in Speaker
    BY <2>1, LenProperties, ElementOfSeq
  <2>. QED
    BY <2>1, <2>2 DEF Range
<1>5. \A k \in DOMAIN PassSpans : 0 <= PassSpans[k].start /\ PassSpans[k].start < PassSpans[k].end
  BY PlacesOfPass DEF TInv, Proper
<1>. QED
  BY <1>1, <1>2, <1>3, <1>4, <1>5 DEF TypeOK, TInv, Loop, Listens, Steps

\* The types of a run: among others, the token times are as many as the characters
\* and within the audio, no more audio is charged than there is, and no label ever
\* has two numbers, in whatever passes it got them (engine.cpp:366, 435-475, 611-618).
THEOREM RunTypeCorrect == Spec => []TypeOK
BY TypedInvariant, TypedMeans, PTL

\* The list attribute reads is in order of start and no two of its turns start
\* within the tolerance of each other, after any number of pushes, the tail push and
\* the final decode (fusion.cpp:91-108, engine.cpp:570, 650, 664).
THEOREM TurnsInOrder == Spec => [](Apart(turns) /\ Ordered(turns))
BY TypedInvariant, PTL DEF TInv, Loop

\* No step of a run loses a turn the diarizer gave: it keeps its start, ends no
\* earlier and stays labelled, though a whole result is merged and the list sorted
\* in one step (fusion.cpp:91-108).
THEOREM TurnsAreKept == Spec => [][Keeps(turns, turns')]_vars
<1>1. TInv /\ [Next]_vars => [Keeps(turns, turns')]_vars
  <2>. SUFFICES ASSUME TInv, Next PROVE Keeps(turns, turns')
    OBVIOUS
  <2>1. turns \in Seq(Turn)
    BY DEF TInv, Loop
  <2>2. CASE PushDiar \/ PushTail \/ Finish
    <3>1. CASE \E s \in Snapshots \cup {<<>>} : Harvest(s)
      BY <2>1, <3>1, HarvestFacts
    <3>2. CASE UNCHANGED turns
      BY <2>1, <3>2, KeptAlone
    <3>. QED
      BY <2>2, <3>1, <3>2 DEF PushDiar, PushTail, Finish
  <2>3. CASE UNCHANGED turns
    BY <2>1, <2>3, KeptAlone
  <2>. QED
    BY <2>2, <2>3
    DEF Next, PassDiarBy, PushFails, Accept, AcceptFails, PassAsrBy, BeginPass, TagUnit,
        TakeNextPiece, EndPass, Stop, vars
<1>. QED
  BY TypedInvariant, <1>1, PTL DEF Spec
=============================================================================
