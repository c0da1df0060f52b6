--------------------------- MODULE MCMainProgram ---------------------------
(***************************************************************************)
(* A small instance of MainProgram: every configuration of the engine that *)
(* makes a difference, and all files of up to three chunks out of six      *)
(* kinds, complete or one byte short.                                      *)
(***************************************************************************)
EXTENDS MainProgram, FiniteSets, TLC

\* A setting is varied where the engine looks at it.
AllSetups ==
  {s \in [asr : BOOLEAN, diar : BOOLEAN, backend : {"ggml", "litert", "unknown"},
          native : BOOLEAN, pre : BOOLEAN, bundle : BOOLEAN] :
     /\ s.native => s.diar
     /\ s.pre => s.native /\ s.backend # "ggml"
     /\ s.bundle => s.asr}

SomeOutputs ==
  {[json |-> FALSE, out |-> FALSE, turns |-> FALSE, tokens |-> FALSE],
   [json |-> TRUE, out |-> FALSE, turns |-> FALSE, tokens |-> TRUE],
   [json |-> FALSE, out |-> TRUE, turns |-> TRUE, tokens |-> FALSE],
   [json |-> TRUE, out |-> TRUE, turns |-> TRUE, tokens |-> TRUE]}

Fmt(size, pcm16, channels, rt) ==
  [id |-> "fmt", size |-> size, pcm16 |-> pcm16, channels |-> channels, rate |-> rt]
Plain(id, size) == [id |-> id, size |-> size, pcm16 |-> FALSE, channels |-> 0, rate |-> 0]

\* The usual mono format; an extended one, stereo, to be resampled; one without a
\* rate; odd data; data too short for a sample; an empty chunk.  In the first
\* place also: formats that are refused, a chunk of odd size, and a rate that is
\* negative as an int, of which one sample or two are no size or are one.
MCChunks ==
  <<Fmt(16, TRUE, 1, 16000), Fmt(18, TRUE, 2, 24000), Fmt(16, TRUE, 1, 0),
    Plain("data", 5), Plain("data", 1), Plain("other", 0),
    Fmt(16, FALSE, 1, 16000), Fmt(14, FALSE, 1, 16000), Fmt(16, TRUE, 0, 16000), Plain("other", 3),
    Fmt(16, TRUE, 1, 40000)>>

\* A file is named for its chunks, 0 for none, and the bytes it lacks.
MCNames ==
  {<<n[1], n[2], n[3], short>> :
     n \in {m \in (0 .. 11) \X (0 .. 6) \X (0 .. 6) : (m[1] = 0 => m[2] = 0) /\ (m[2] = 0 => m[3] = 0)},
     short \in {0, 1}}

Complete(chunks) ==
  LET f == [magic |-> "RIFF", chunks |-> chunks, bytes |-> 0] IN Starts(f)[Len(chunks) + 1]

ChunksOf(n) ==
  [i \in 1 .. Cardinality({k \in 1 .. 3 : n[k] # 0}) |-> MCChunks[n[i]]]

\* Files that are walked, and files that begin with something else.
ShortFiles ==
  [n \in MCNames |-> [magic |-> "RIFF", chunks |-> ChunksOf(n), bytes |-> Complete(ChunksOf(n)) - n[4]]]
  @@ [n \in {<<i>> : i \in 1 .. 3} |->
        [magic |-> <<"absent", "short", "other">>[n[1]], chunks |-> <<>>, bytes |-> 3]]

\* The constants, named apart from their definitions, which TLC evaluates once.
MCSetups == AllSetups
MCOutputs == SomeOutputs
MCFiles == ShortFiles
=============================================================================
