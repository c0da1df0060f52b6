------------------------- MODULE MainProgramProofs -------------------------
(***************************************************************************)
(* Proofs about MainProgram for every set of configurations, of output     *)
(* options and of files: what is on stdout when the program ends and where *)
(* everything else went, what the WAV reader reads of a file with any      *)
(* chunks in it, that the engine is made and destroyed without a dangling  *)
(* handle or a leftover, and the types of all three parts of the program.  *)
(***************************************************************************)
EXTENDS MainProgram, SequenceFacts

-----------------------------------------------------------------------------
(* The inductive invariant *)

\* What the transcript, once written, has put on stdout and elsewhere.
Printed == IF Sink = "stdout" THEN <<"transcript">> ELSE <<>>
Written == IF Sink = "stdout" THEN {} ELSE {<<"transcript", Sink>>}

\* The files asked for.
TurnsFile == IF wanted.turns THEN {<<"turns", "file">>} ELSE {}
TokensFile == IF wanted.tokens THEN {<<"tokens", "file">>} ELSE {}

\* How far the output is in each phase; a run that fails has printed a prefix of
\* what it would have, one that succeeds all of it.
Progress ==
  /\ wanted \in [json : BOOLEAN, out : BOOLEAN, turns : BOOLEAN, tokens : BOOLEAN]
  /\ phase \in {"arguments", "init", "load", "run", "transcript", "turns", "tokens", "report",
                "destroy", "exited", "crashed"}
  /\ phase \notin {"destroy", "exited"} => status = Running
  /\ phase \in {"arguments", "init", "load", "run", "transcript", "crashed"} => stdout = <<>> /\ told = {}
  /\ phase = "turns" => stdout = Printed /\ told = Written
  /\ phase = "tokens" => stdout = Printed /\ told = Written \cup TurnsFile
  /\ phase = "report" => stdout = Printed /\ told = Written \cup TurnsFile \cup TokensFile
  /\ phase \in {"destroy", "exited"} =>
       /\ status \in {0, 1, 2}
       /\ status = 1 => stdout \in {<<>>, Printed}
       /\ status = 0 => /\ stdout = Append(Printed, IF wanted.json THEN "json" ELSE "stats")
                        /\ told = Written \cup TurnsFile \cup TokensFile

\* Nothing is printed yet.
LEMMA ProgressInit ==
  ASSUME Init
  PROVE  Progress
BY OutputsAssumption DEF Init, Progress, Running

\* What was asked for, and with it where things go, never changes.
LEMMA ProgressStep ==
  ASSUME Progress, [Next]_vars
  PROVE  Progress'
<1>1. UNCHANGED wanted
  BY DEF Next, Advance, Stop, vars, Arguments, InitGoesOn, InitFails, InitAborts, InitEnds,
         Load, LoadEnds, Push, PushFails, RunEnds, WriteTranscript, WriteTurns, WriteTokens,
         CannotWrite, Report, Destroy, Exit
<1>2. /\ Sink' = Sink /\ Printed' = Printed /\ Written' = Written
      /\ TurnsFile' = TurnsFile /\ TokensFile' = TokensFile
  BY <1>1 DEF Sink, Printed, Written, TurnsFile, TokensFile
<1>3. CASE Arguments
  BY <1>1, <1>2, <1>3 DEF Arguments, Progress, Running
<1>4. CASE InitGoesOn \/ InitFails \/ InitAborts \/ InitEnds
  BY <1>1, <1>2, <1>4 DEF InitGoesOn, InitFails, InitAborts, InitEnds, Return, output, Progress, Running
<1>5. CASE Load \/ LoadEnds \/ Push \/ PushFails \/ RunEnds
  BY <1>1, <1>2, <1>5 DEF Load, LoadEnds, Push, PushFails, RunEnds, Return, output, Progress, Running
<1>6. CASE WriteTranscript
  <2>1. stdout = <<>> /\ told = {} /\ status' = status /\ phase = "transcript" /\ phase' = "turns"
    BY <1>6 DEF WriteTranscript, Progress
  <2>2. stdout' = Printed /\ told' = Written
    BY <1>6, <2>1 DEF WriteTranscript, Printed, Written
  <2>. QED
    BY <1>1, <1>2, <2>1, <2>2 DEF Progress
<1>7. CASE WriteTurns
  <2>1. told' = told \cup TurnsFile
    BY <1>7 DEF WriteTurns, TurnsFile
  <2>. QED
    BY <1>1, <1>2, <1>7, <2>1 DEF WriteTurns, Progress
<1>8. CASE WriteTokens
  <2>1. told' = told \cup TokensFile
    BY <1>8 DEF WriteTokens, TokensFile
  <2>. QED
    BY <1>1, <1>2, <1>8, <2>1 DEF WriteTokens, Progress
<1>9. CASE CannotWrite
  BY <1>1, <1>2, <1>9 DEF CannotWrite, Return, output, Progress
<1>10. CASE Report
  BY <1>1, <1>2, <1>10 DEF Report, Return, Progress
<1>11. CASE Destroy \/ Exit
  BY <1>1, <1>2, <1>11 DEF Destroy, Exit, output, Progress
<1>12. CASE Stop \/ UNCHANGED vars
  BY <1>1, <1>2, <1>12 DEF Stop, vars, output, Progress
<1>. QED
  BY <1>3, <1>4, <1>5, <1>6, <1>7, <1>8, <1>9, <1>10, <1>11, <1>12 DEF Next, Advance

-----------------------------------------------------------------------------
(* The theorem *)

\* With --json the transcript is not on stdout, so what is there at any time is
\* nothing or the JSON; without, it is on stdout or in a file, never both.
LEMMA ProgressOnStdout ==
  ASSUME Progress
  PROVE  OneThingOnStdout
<1>1. wanted.json \in BOOLEAN /\ wanted.out \in BOOLEAN /\ wanted.turns \in BOOLEAN /\ wanted.tokens \in BOOLEAN
  BY DEF Progress
<1>2. wanted.json => Printed = <<>>
  BY DEF Printed, Sink
<1>3. status \in {Running, 0, 1, 2}
  BY DEF Progress
<1>4. ASSUME wanted.json, status # 2
      PROVE  stdout \in {<<>>, <<"json">>}
  BY <1>2, <1>4 DEF Progress
<1>5. ASSUME status = 0
      PROVE  /\ stdout = Append(Printed, IF wanted.json THEN "json" ELSE "stats")
             /\ told = Written \cup TurnsFile \cup TokensFile
  BY <1>5 DEF Progress, Running
<1>6. ASSUME status = 0
      PROVE  /\ wanted.json <=> stdout = <<"json">>
             /\ (stdout # <<>> /\ stdout[1] = "transcript") <=> Sink = "stdout"
  <2>1. CASE Sink = "stdout"
    <3>1. ~ wanted.json
      BY <1>2, <2>1 DEF Printed
    <3>2. stdout = <<"transcript", "stats">>
      BY <1>5, <1>6, <2>1, <3>1 DEF Printed
    <3>. QED
      BY <2>1, <3>1, <3>2
  <2>2. CASE Sink # "stdout"
    <3>1. stdout = <<IF wanted.json THEN "json" ELSE "stats">>
      BY <1>5, <1>6, <2>2 DEF Printed
    <3>. QED
      BY <1>1, <2>2, <3>1
  <2>. QED
    BY <2>1, <2>2
<1>7. ASSUME status = 0
      PROVE  /\ Sink = "stdout" <=> told \cap ({"transcript"} \X {"file", "stderr"}) = {}
             /\ wanted.turns <=> <<"turns", "file">> \in told
             /\ wanted.tokens <=> <<"tokens", "file">> \in told
  <2>1. Sink \in {"stdout", "file", "stderr"}
    BY DEF Sink
  <2>2. /\ wanted.turns <=> <<"turns", "file">> \in told
        /\ wanted.tokens <=> <<"tokens", "file">> \in told
    BY <1>1, <1>5, <1>7 DEF Written, TurnsFile, TokensFile
  <2>3. Sink # "stdout" => <<"transcript", Sink>> \in told
    BY <1>5, <1>7 DEF Written
  <2>4. Sink = "stdout" => \A p \in told : p \notin {"transcript"} \X {"file", "stderr"}
    BY <1>5, <1>7 DEF Written, TurnsFile, TokensFile
  <2>. QED
    BY <2>1, <2>2, <2>3, <2>4
<1>. QED
  BY <1>4, <1>6, <1>7 DEF OneThingOnStdout

\* Whatever fails, and whenever: with --json, stdout never holds anything beside
\* the JSON (main.cpp:184), and a run that says it succeeded has delivered each
\* thing asked for to its one place.
THEOREM StdoutHoldsOneThing == Spec => []OneThingOnStdout
<1>1. Init => Progress
  BY ProgressInit
<1>2. Progress /\ [Next]_vars => Progress'
  BY ProgressStep
<1>. QED
  BY <1>1, <1>2, ProgressOnStdout, PTL DEF Spec

-----------------------------------------------------------------------------
(* The reader: where chunks begin *)

File == [magic : Magic, chunks : Seq(Chunk), bytes : Nat]

\* f is the function Starts recurs with, over n chunks.
Begins(f, chunks, n) ==
  f = [i \in 1 .. n + 1 |-> IF i = 1 THEN FirstChunk ELSE f[i - 1] + HeaderSize + Even(chunks[i - 1].size)]

\* There is such a function, however many chunks there are.
LEMMA BeginsExists ==
  ASSUME NEW chunks, NEW n \in Nat
  PROVE  \E f : Begins(f, chunks, n)
<1>. DEFINE T == {m \in Nat : \E f : Begins(f, chunks, m)}
<1>1. 0 \in T
  <2>1. Begins([i \in 1 .. 0 + 1 |-> FirstChunk], chunks, 0)
    BY DEF Begins
  <2>. QED
    BY <2>1
<1>2. ASSUME NEW m \in Nat, m \in T
      PROVE  m + 1 \in T
  <2>1. PICK g : Begins(g, chunks, m)
    BY <1>2
  <2>. DEFINE f == [i \in 1 .. m + 1 + 1 |->
                      IF i = 1 THEN FirstChunk ELSE g[i - 1] + HeaderSize + Even(chunks[i - 1].size)]
  <2>2. ASSUME NEW i \in 1 .. m + 1 + 1, i # 1
        PROVE  f[i - 1] = g[i - 1]
    <3>1. i - 1 \in 1 .. m + 1 /\ i - 1 \in 1 .. m + 1 + 1
      BY <2>2
    <3>2. g[i - 1] = IF i - 1 = 1 THEN FirstChunk
                     ELSE g[i - 1 - 1] + HeaderSize + Even(chunks[i - 1 - 1].size)
      BY <2>1, <3>1 DEF Begins
    <3>3. f[i - 1] = IF i - 1 = 1 THEN FirstChunk
                     ELSE g[i - 1 - 1] + HeaderSize + Even(chunks[i - 1 - 1].size)
      BY <3>1
    <3>. QED
      BY <3>2, <3>3
  <2>3. f = [i \in 1 .. m + 1 + 1 |->
               IF i = 1 THEN FirstChunk ELSE f[i - 1] + HeaderSize + Even(chunks[i - 1].size)]
    BY <2>2
  <2>4. Begins(f, chunks, m + 1)
    BY <2>3 DEF Begins
  <2>. QED
    BY <2>4
<1>. HIDE DEF T
<1>3. n \in T
  BY <1>1, <1>2, InductionOnSet
<1>. QED
  BY <1>3 DEF T

\* A chunk begins behind the body of the one before it, on an even offset.
LEMMA StartsStep ==
  ASSUME NEW f \in File
  PROVE  /\ Starts(f)[1] = FirstChunk
         /\ \A i \in 1 .. Len(f.chunks) :
              Starts(f)[i + 1] = Starts(f)[i] + HeaderSize + Even(f.chunks[i].size)
<1>. DEFINE n == Len(f.chunks)
            s == CHOOSE g : g = [i \in 1 .. Len(f.chunks) + 1 |->
                    IF i = 1 THEN FirstChunk ELSE g[i - 1] + HeaderSize + Even(f.chunks[i - 1].size)]
<1>1. n \in Nat
  BY LenProperties DEF File
<1>2. \E g : g = [i \in 1 .. Len(f.chunks) + 1 |->
                    IF i = 1 THEN FirstChunk ELSE g[i - 1] + HeaderSize + Even(f.chunks[i - 1].size)]
  BY <1>1, BeginsExists DEF Begins
<1>3. s = [i \in 1 .. Len(f.chunks) + 1 |->
             IF i = 1 THEN FirstChunk ELSE s[i - 1] + HeaderSize + Even(f.chunks[i - 1].size)]
  BY <1>2
<1>4. Starts(f) = s
  BY DEF Starts
<1>. HIDE DEF s
<1>5. s[1] = FirstChunk
  BY <1>1, <1>3
<1>6. ASSUME NEW i \in 1 .. n
      PROVE  s[i + 1] = s[i] + HeaderSize + Even(f.chunks[i].size)
  <2>1. i + 1 \in 1 .. Len(f.chunks) + 1 /\ i + 1 # 1 /\ i + 1 - 1 = i
    BY <1>1
  <2>. QED
    BY <1>3, <2>1
<1>. QED
  BY <1>4, <1>5, <1>6

\* They begin one behind the other, with room for a name and a size at least.
LEMMA StartsFacts ==
  ASSUME NEW f \in File
  PROVE  /\ Len(f.chunks) \in Nat /\ DOMAIN f.chunks = 1 .. Len(f.chunks)
         /\ \A i \in 1 .. Len(f.chunks) : f.chunks[i] \in Chunk
         /\ \A i \in 1 .. Len(f.chunks) + 1 : Starts(f)[i] \in Nat
         /\ \A j \in 1 .. Len(f.chunks) + 1 : \A i \in 1 .. j - 1 : Starts(f)[i] + HeaderSize <= Starts(f)[j]
<1>. DEFINE n == Len(f.chunks)
            T == {k \in Nat : k <= n => /\ \A i \in 1 .. k + 1 : Starts(f)[i] \in Nat
                                        /\ \A i \in 1 .. k : Starts(f)[i] + HeaderSize <= Starts(f)[k + 1]}
<1>1. n \in Nat /\ DOMAIN f.chunks = 1 .. n /\ \A i \in 1 .. n : f.chunks[i] \in Chunk
  BY LenProperties, ElementOfSeq DEF File
<1>2. \A i \in 1 .. n : Even(f.chunks[i].size) \in Nat
  BY <1>1 DEF Even, Chunk
<1>. HIDE DEF n
<1>3. 0 \in T
  BY StartsStep DEF FirstChunk
<1>4. ASSUME NEW k \in Nat, k \in T
      PROVE  k + 1 \in T
  <2>. SUFFICES ASSUME k + 1 <= n
                PROVE  /\ \A i \in 1 .. k + 1 + 1 : Starts(f)[i] \in Nat
                       /\ \A i \in 1 .. k + 1 : Starts(f)[i] + HeaderSize <= Starts(f)[k + 1 + 1]
    OBVIOUS
  <2>1. k + 1 \in 1 .. n
    BY <1>1
  <2>2. Starts(f)[k + 1 + 1] = Starts(f)[k + 1] + HeaderSize + Even(f.chunks[k + 1].size)
    BY <2>1, StartsStep DEF n
  <2>3. Even(f.chunks[k + 1].size) \in Nat
    BY <1>2, <2>1
  <2>4. (\A i \in 1 .. k + 1 : Starts(f)[i] \in Nat) /\ \A i \in 1 .. k : Starts(f)[i] + HeaderSize <= Starts(f)[k + 1]
    BY <1>1, <1>4
  <2>5. ASSUME NEW i \in 1 .. k + 1
        PROVE  Starts(f)[i] + HeaderSize <= Starts(f)[k + 1 + 1]
    <3>1. CASE i = k + 1
      <4>1. Starts(f)[k + 1] \in Nat
        BY <2>4
      <4>. QED
        BY <2>2, <2>3, <3>1, <4>1 DEF HeaderSize
    <3>2. CASE i \in 1 .. k
      <4>. DEFINE a == Starts(f)[i]
      <4>1. a + HeaderSize <= Starts(f)[k + 1]
        BY <2>4, <3>2
      <4>2. HeaderSize \in Nat
        BY DEF HeaderSize
      <4>. HIDE DEF a
      <4>3. Starts(f)[k + 1] <= Starts(f)[k + 1 + 1] /\ Starts(f)[k + 1] \in Nat
        BY <2>2, <2>3, <2>4, <4>2
      <4>4. a \in Nat
        BY <2>4, <3>2 DEF a
      <4>. QED
        BY <2>2, <2>3, <2>4, <4>1, <4>2, <4>3, <4>4 DEF a
    <3>. QED
      BY <3>1, <3>2
  <2>6. ASSUME NEW i \in 1 .. k + 1 + 1
        PROVE  Starts(f)[i] \in Nat
    <3>1. CASE i \in 1 .. k + 1
      BY <2>4, <3>1
    <3>2. CASE i = k + 1 + 1
      <4>1. Starts(f)[k + 1] \in Nat
        BY <2>4
      <4>. QED
        BY <2>2, <2>3, <3>2, <4>1 DEF HeaderSize
    <3>. QED
      BY <3>1, <3>2
  <2>. QED
    BY <2>5, <2>6
<1>. HIDE DEF T
<1>5. \A k \in Nat : k \in T
  BY <1>3, <1>4, InductionOnSet
<1>6. ASSUME NEW j \in 1 .. n + 1
      PROVE  Starts(f)[j] \in Nat /\ \A i \in 1 .. j - 1 : Starts(f)[i] + HeaderSize <= Starts(f)[j]
  <2>1. j - 1 \in Nat /\ j - 1 <= n /\ j - 1 + 1 = j
    BY <1>1
  <2>2. j - 1 \in T
    BY <1>5, <2>1
  <2>. QED
    BY <2>1, <2>2 DEF T
<1>. QED
  BY <1>1, <1>6 DEF n

-----------------------------------------------------------------------------
(* The reader: the inductive invariant *)

\* s is what is found of a file: its chunks of the right name, or none.
Named(f, s) ==
  /\ s \in [fmt : Nat, data : Nat]
  /\ s.fmt # 0 => s.fmt \in Indices(f, "fmt")
  /\ s.data # 0 => s.data \in Indices(f, "data")

\* It is the latest format and the latest data before chunk i.
Latest(f, s, i) ==
  /\ Named(f, s)
  /\ s.fmt \in 0 .. i - 1 /\ s.data \in 0 .. i - 1
  /\ \A j \in s.fmt + 1 .. i - 1 : f.chunks[j].id # "fmt"
  /\ \A j \in s.data + 1 .. i - 1 : f.chunks[j].id # "data"

\* No chunk before chunk i is empty, or the walk would have ended there.
NoneEmpty(f, i) == \A j \in 1 .. i - 1 : f.chunks[j].size > 0

\* If the file is well-formed it is the one format and the one data chunk.
FoundThem(f, s) ==
  \A fmt, data \in DOMAIN f.chunks : WellFormed(f, fmt, data) => s = [fmt |-> fmt, data |-> data]

\* The file is not well-formed.
Malformed(f) == \A fmt, data \in DOMAIN f.chunks : ~ WellFormed(f, fmt, data)

\* The walk is at the begin of a chunk, or behind the last one.
Walking == \E i \in 1 .. Len(Content.chunks) + 1 :
             at = Starts(Content)[i] /\ Latest(Content, seen, i) /\ NoneEmpty(Content, i)

\* The samples declared.
Declared == FramesOf(Content.chunks[seen.fmt], Content.chunks[seen.data])
DeclaredRate == AsInt(Content.chunks[seen.fmt].rate)

WavInv ==
  /\ wav \in {"closed", "walk", "check", "resample", "ready", "refused", "crashed"}
  /\ at \in Nat /\ frames \in Nat /\ rate \in Int
  /\ wav = "closed" => file = NoFile /\ seen = [fmt |-> 0, data |-> 0]
  /\ wav # "closed" => file \in DOMAIN Files /\ Named(Content, seen)
  /\ wav \notin {"closed", "refused"} => Content.magic = "RIFF"
  /\ wav = "walk" => Walking
  /\ wav = "refused" => Malformed(Content)
  /\ wav \in {"check", "resample", "ready", "crashed"} => FoundThem(Content, seen)
  /\ wav \in {"resample", "ready", "crashed"} => Sound
  /\ wav = "resample" => frames = Declared /\ rate = DeclaredRate /\ rate # 16000
  /\ wav = "ready" /\ DeclaredRate > 0 =>
       rate = 16000 /\ KeepsTheTime(Declared, DeclaredRate, frames)

-----------------------------------------------------------------------------
(* The reader: the steps *)

\* The file being read is one.
LEMMA ContentFacts ==
  ASSUME file \in DOMAIN Files
  PROVE  /\ file # NoFile /\ Content \in File
         /\ Content.bytes \in Nat /\ Content.bytes < Starts(Content)[Len(Content.chunks) + 1] + HeaderSize
BY FilesAssumption DEF Content, File

\* What is in a well-formed file.
LEMMA WellFormedFacts ==
  ASSUME NEW f \in File, NEW fmt \in DOMAIN f.chunks, NEW data \in DOMAIN f.chunks,
         WellFormed(f, fmt, data)
  PROVE  /\ f.magic = "RIFF"
         /\ \A i \in DOMAIN f.chunks :
              /\ f.chunks[i].id = "fmt" <=> i = fmt
              /\ f.chunks[i].id = "data" <=> i = data
              /\ i <= fmt \/ i <= data => f.chunks[i].size > 0
         /\ f.chunks[fmt].size >= FmtBytes /\ f.chunks[fmt].pcm16 /\ f.chunks[fmt].channels > 0
         /\ Starts(f)[fmt] + HeaderSize + f.chunks[fmt].size <= f.bytes
         /\ Starts(f)[data] + HeaderSize + f.chunks[data].size <= f.bytes
<1>1. Indices(f, "fmt") = {fmt} /\ Indices(f, "data") = {data}
  BY DEF WellFormed
<1>2. \A i \in DOMAIN f.chunks :
        (f.chunks[i].id = "fmt" <=> i = fmt) /\ (f.chunks[i].id = "data" <=> i = data)
  <2>. TAKE i \in DOMAIN f.chunks
  <2>1. f.chunks[i].id = "fmt" <=> i \in Indices(f, "fmt")
    BY DEF Indices
  <2>2. f.chunks[i].id = "data" <=> i \in Indices(f, "data")
    BY DEF Indices
  <2>. QED
    BY <1>1, <2>1, <2>2
<1>3. \A i \in DOMAIN f.chunks : i <= fmt \/ i <= data => f.chunks[i].size > 0
  BY Zenon DEF WellFormed
<1>4. /\ f.magic = "RIFF"
      /\ f.chunks[fmt].size >= FmtBytes /\ f.chunks[fmt].pcm16 /\ f.chunks[fmt].channels > 0
  BY Zenon DEF WellFormed
<1>5. \A i \in {fmt, data} : Starts(f)[i] + HeaderSize + f.chunks[i].size <= f.bytes
  BY Zenon DEF WellFormed
<1>6. /\ Starts(f)[fmt] + HeaderSize + f.chunks[fmt].size <= f.bytes
      /\ Starts(f)[data] + HeaderSize + f.chunks[data].size <= f.bytes
  BY <1>5, Zenon
<1>7. \A i \in DOMAIN f.chunks :
        /\ f.chunks[i].id = "fmt" <=> i = fmt
        /\ f.chunks[i].id = "data" <=> i = data
        /\ i <= fmt \/ i <= data => f.chunks[i].size > 0
  BY <1>2, <1>3
<1>. QED
  BY <1>4, <1>6, <1>7, Zenon

\* The samples a chunk of data has do not take more than the chunk.
LEMMA FramesFit ==
  ASSUME NEW fmt \in Chunk, NEW data \in Chunk, fmt.channels > 0
  PROVE  FramesOf(fmt, data) \in Nat /\ Block(fmt) * FramesOf(fmt, data) <= data.size
<1>. DEFINE b == Block(fmt)
            s == data.size
<1>1. b \in Nat /\ b > 0 /\ s \in Nat
  BY DEF Block, Chunk
<1>. HIDE DEF b, s
<1>2. s \div b \in Nat /\ b * (s \div b) <= s
  BY <1>1
<1>. QED
  BY <1>2 DEF FramesOf, b, s

\* The format and the data of a well-formed file are sound.
LEMMA WellFormedIsSound ==
  ASSUME file \in DOMAIN Files, NEW fmt \in DOMAIN Content.chunks, NEW data \in DOMAIN Content.chunks,
         WellFormed(Content, fmt, data), seen = [fmt |-> fmt, data |-> data]
  PROVE  Sound
<1>. DEFINE f == Content
<1>1. f \in File /\ f.bytes \in Nat
  BY ContentFacts
<1>. HIDE DEF f
<1>2. /\ DOMAIN f.chunks = 1 .. Len(f.chunks) /\ Len(f.chunks) \in Nat
      /\ f.chunks[fmt] \in Chunk /\ f.chunks[data] \in Chunk
      /\ Starts(f)[data] \in Nat
  BY <1>1, StartsFacts DEF f
<1>3. /\ f.chunks[fmt].pcm16 /\ f.chunks[fmt].channels > 0
      /\ Starts(f)[data] + HeaderSize + f.chunks[data].size <= f.bytes
  BY <1>1, WellFormedFacts DEF f
<1>4. /\ FramesOf(f.chunks[fmt], f.chunks[data]) \in Nat
      /\ Block(f.chunks[fmt]) * FramesOf(f.chunks[fmt], f.chunks[data]) <= f.chunks[data].size
  BY <1>2, <1>3, FramesFit
<1>5. Block(f.chunks[fmt]) * FramesOf(f.chunks[fmt], f.chunks[data]) \in Nat /\ f.chunks[data].size \in Nat
  <2>1. Block(f.chunks[fmt]) \in Nat
    BY <1>2, SMTT(30) DEF Block, Chunk
  <2>. QED
    BY <1>2, <1>4, <2>1 DEF Chunk
<1>6. Starts(f)[data] + HeaderSize + Block(f.chunks[fmt]) * FramesOf(f.chunks[fmt], f.chunks[data]) <= f.bytes
  <2>. DEFINE x == Block(f.chunks[fmt]) * FramesOf(f.chunks[fmt], f.chunks[data])
  <2>1. x \in Nat /\ x <= f.chunks[data].size
    BY <1>4, <1>5
  <2>. HIDE DEF x
  <2>2. Starts(f)[data] + HeaderSize + x <= f.bytes
    BY <1>1, <1>2, <1>3, <1>5, <2>1, SMTT(30) DEF HeaderSize
  <2>. QED
    BY <2>2 DEF x
<1>7. seen.fmt = fmt /\ seen.data = data /\ fmt # 0 /\ data # 0
  BY <1>2 DEF f
<1>. QED
  BY <1>3, <1>6, <1>7 DEF Sound, f

\* At the end of the walk, what was found is what a well-formed file has: both
\* its chunks were passed by then.
LEMMA BothFound ==
  ASSUME NEW f \in File, NEW s, NEW i \in 1 .. Len(f.chunks) + 1, Latest(f, s, i),
         \A fmt, data \in DOMAIN f.chunks :
            WellFormed(f, fmt, data) => (fmt < i /\ data < i) \/ (s.fmt # 0 /\ s.data # 0)
  PROVE  FoundThem(f, s)
<1>. SUFFICES ASSUME NEW fmt \in DOMAIN f.chunks, NEW data \in DOMAIN f.chunks,
                     WellFormed(f, fmt, data)
              PROVE  s = [fmt |-> fmt, data |-> data]
  BY DEF FoundThem
<1>1. PICK chunks, p, q : chunks = f.chunks /\ p = s.fmt /\ q = s.data
  OBVIOUS
<1>2. DOMAIN chunks = 1 .. Len(chunks) /\ Len(chunks) \in Nat
  BY <1>1, StartsFacts
<1>3. \A j \in DOMAIN chunks : (chunks[j].id = "fmt" <=> j = fmt) /\ (chunks[j].id = "data" <=> j = data)
  BY <1>1, WellFormedFacts
<1>4. /\ p # 0 => p \in DOMAIN chunks /\ chunks[p].id = "fmt"
      /\ q # 0 => q \in DOMAIN chunks /\ chunks[q].id = "data"
  BY <1>1 DEF Latest, Named, Indices
<1>5. /\ \A j \in p + 1 .. i - 1 : chunks[j].id # "fmt"
      /\ \A j \in q + 1 .. i - 1 : chunks[j].id # "data"
  BY <1>1 DEF Latest
<1>6. (fmt < i /\ data < i) \/ (p # 0 /\ q # 0)
  BY <1>1
<1>7. fmt \in DOMAIN chunks /\ data \in DOMAIN chunks /\ i \in Nat /\ p \in Nat /\ q \in Nat
  BY <1>1, <1>2 DEF Latest, Named
<1>8. fmt < i => p # 0
  <2>. SUFFICES ASSUME fmt < i, p = 0
                PROVE  FALSE
    OBVIOUS
  <2>1. fmt \in p + 1 .. i - 1
    BY <1>2, <1>7
  <2>. QED
    BY <1>3, <1>5, <1>7, <2>1
<1>9. data < i => q # 0
  <2>. SUFFICES ASSUME data < i, q = 0
                PROVE  FALSE
    OBVIOUS
  <2>1. data \in q + 1 .. i - 1
    BY <1>2, <1>7
  <2>. QED
    BY <1>3, <1>5, <1>7, <2>1
<1>10. p # 0 /\ q # 0
  BY <1>6, <1>8, <1>9
<1>11. p = fmt
  BY <1>3, <1>4, <1>10
<1>12. q = data
  BY <1>3, <1>4, <1>10
<1>. QED
  BY <1>1, <1>11, <1>12 DEF Latest, Named

\* A file that begins with RIFF is walked from its first chunk on, another one
\* is refused.
LEMMA OpenStep ==
  ASSUME WavInv, wav = "closed", Open
  PROVE  WavInv'
<1>1. /\ file' \in DOMAIN Files /\ seen' = [fmt |-> 0, data |-> 0]
      /\ at' = FirstChunk /\ frames' = frames /\ rate' = rate
  BY DEF Open, WavInv
<1>2. PICK f \in File : f = Content'
  BY <1>1, FilesAssumption DEF Content, File
<1>3. Named(f, seen') /\ Latest(f, seen', 1) /\ NoneEmpty(f, 1)
  BY <1>1 DEF Named, Latest, NoneEmpty
<1>4. Starts(f)[1] = FirstChunk /\ 1 \in 1 .. Len(f.chunks) + 1
  BY StartsStep, StartsFacts
<1>5. wav' = IF f.magic = "RIFF" THEN "walk" ELSE "refused"
  BY <1>2 DEF Open, Content
<1>6. CASE f.magic = "RIFF"
  <2>1. wav' = "walk"
    BY <1>5, <1>6
  <2>2. Walking'
    BY <1>1, <1>2, <1>3, <1>4 DEF Walking
  <2>. QED
    BY <1>1, <1>2, <1>3, <1>6, <2>1, <2>2 DEF WavInv, FirstChunk
<1>7. CASE f.magic # "RIFF"
  <2>1. wav' = "refused"
    BY <1>5, <1>7
  <2>2. Malformed(f)
    BY <1>7 DEF Malformed, WellFormed
  <2>. QED
    BY <1>1, <1>2, <1>3, <2>1, <2>2 DEF WavInv, FirstChunk
<1>. QED
  BY <1>6, <1>7

\* The reader starts over.
LEMMA CloseStep ==
  ASSUME Close
  PROVE  WavInv'
BY DEF Close, WavInv

\* The invariant says nothing that changes while the reader stands still.
LEMMA IdleStep ==
  ASSUME WavInv, UNCHANGED wavVars
  PROVE  WavInv'
BY SMTT(30) DEF wavVars, WavInv, Content, Walking, Sound, Declared, DeclaredRate

\* No room for another name: every chunk that is all there has been passed.
LEMMA EndOfFileStep ==
  ASSUME WavInv, EndOfFile
  PROVE  WavInv'
<1>1. /\ wav = "walk" /\ PastEnd /\ wav' = "check"
      /\ UNCHANGED <<file, seen>> /\ at' = at /\ frames' = frames /\ rate' = rate
  BY DEF EndOfFile
<1>2. file \in DOMAIN Files /\ Content.magic = "RIFF" /\ Walking
  BY <1>1 DEF WavInv
<1>3. PICK f \in File : f = Content
  BY <1>2, ContentFacts
<1>4. PICK i \in 1 .. Len(f.chunks) + 1 : at = Starts(f)[i] /\ Latest(f, seen, i)
  BY <1>2, <1>3 DEF Walking
<1>5. f.bytes \in Nat /\ at + HeaderSize > f.bytes /\ at = Starts(f)[i] /\ i \in 1 .. Len(f.chunks) + 1
  BY <1>1, <1>3, <1>4 DEF PastEnd, File
<1>6. ASSUME NEW fmt \in DOMAIN f.chunks, NEW data \in DOMAIN f.chunks, WellFormed(f, fmt, data)
      PROVE  fmt < i /\ data < i
  <2>1. /\ Starts(f)[fmt] + HeaderSize + f.chunks[fmt].size <= f.bytes
        /\ Starts(f)[data] + HeaderSize + f.chunks[data].size <= f.bytes
    BY <1>6, WellFormedFacts
  <2>2. ASSUME NEW j \in DOMAIN f.chunks, Starts(f)[j] + HeaderSize + f.chunks[j].size <= f.bytes, ~ (j < i)
        PROVE  FALSE
    <3>1. DOMAIN f.chunks = 1 .. Len(f.chunks) /\ Len(f.chunks) \in Nat
      BY StartsFacts
    <3>2. j \in 1 .. Len(f.chunks) + 1 /\ (i = j \/ i \in 1 .. j - 1)
      BY <1>5, <2>2, <3>1
    <3>3. Starts(f)[i] \in Nat /\ Starts(f)[j] \in Nat /\ f.chunks[j] \in Chunk
      BY <1>5, <3>1, <3>2, StartsFacts
    <3>4. i # j => Starts(f)[i] + HeaderSize <= Starts(f)[j]
      BY <3>2, StartsFacts
    <3>5. f.chunks[j].size \in Nat
      BY <3>3 DEF Chunk
    <3>6. PICK a \in Nat, b \in Nat, c \in Nat : a = Starts(f)[i] /\ b = Starts(f)[j] /\ c = f.chunks[j].size
      BY <3>3, <3>5
    <3>. QED
      <4>1. b + 8 + c <= f.bytes /\ a + 8 > f.bytes /\ (i = j => a = b) /\ (i # j => a + 8 <= b)
        BY <1>5, <2>2, <3>4, <3>6 DEF HeaderSize
      <4>. QED
        BY <1>5, <4>1
  <2>. QED
    BY <2>1, <2>2
<1>7. FoundThem(f, seen) /\ Named(f, seen)
  BY <1>4, <1>6, BothFound DEF Latest
<1>8. Content' = Content
  BY <1>1 DEF Content
<1>. QED
  BY <1>1, <1>2, <1>3, <1>7, <1>8 DEF WavInv

\* What is found after one more chunk.
LEMMA FoundNext ==
  ASSUME NEW f \in File, NEW s, NEW i \in 1 .. Len(f.chunks), Latest(f, s, i), NEW t,
         t = IF f.chunks[i].id = "other" THEN s ELSE [s EXCEPT ![f.chunks[i].id] = i]
  PROVE  Latest(f, t, i + 1) /\ (t.fmt # 0 <=> s.fmt # 0 \/ f.chunks[i].id = "fmt")
         /\ (t.data # 0 <=> s.data # 0 \/ f.chunks[i].id = "data")
<1>1. PICK chunks, id : chunks = f.chunks /\ id = f.chunks[i].id
  OBVIOUS
<1>2. DOMAIN chunks = 1 .. Len(chunks) /\ Len(chunks) \in Nat /\ id \in {"fmt", "data", "other"}
  BY <1>1, StartsFacts DEF Chunk
<1>3. PICK p \in Nat, q \in Nat : s = [fmt |-> p, data |-> q]
  BY DEF Latest, Named
<1>4. /\ p # 0 => p \in DOMAIN chunks /\ chunks[p].id = "fmt"
      /\ q # 0 => q \in DOMAIN chunks /\ chunks[q].id = "data"
  BY <1>1, <1>3 DEF Latest, Named, Indices
<1>5. /\ p \in 0 .. i - 1 /\ q \in 0 .. i - 1
      /\ \A j \in p + 1 .. i - 1 : chunks[j].id # "fmt"
      /\ \A j \in q + 1 .. i - 1 : chunks[j].id # "data"
  BY <1>1, <1>3 DEF Latest
<1>6. \E p1 \in Nat, q1 \in Nat :
         /\ t = [fmt |-> p1, data |-> q1]
         /\ p1 = (IF id = "fmt" THEN i ELSE p) /\ q1 = (IF id = "data" THEN i ELSE q)
  <2>1. CASE id = "fmt"
    <3>1. t = [fmt |-> i, data |-> q]
      BY <1>1, <1>3, <2>1
    <3>. QED
      BY <1>2, <2>1, <3>1
  <2>2. CASE id = "data"
    <3>1. t = [fmt |-> p, data |-> i]
      BY <1>1, <1>3, <2>2
    <3>. QED
      BY <1>2, <2>2, <3>1
  <2>3. CASE id = "other"
    BY <1>1, <1>3, <2>3
  <2>. QED
    BY <1>2, <2>1, <2>2, <2>3
<1>7. PICK p1 \in Nat, q1 \in Nat :
         /\ t = [fmt |-> p1, data |-> q1]
         /\ p1 = (IF id = "fmt" THEN i ELSE p) /\ q1 = (IF id = "data" THEN i ELSE q)
  BY <1>6
<1>8. chunks[i].id = id /\ i \in DOMAIN chunks /\ i \in Nat \ {0}
  BY <1>1, <1>2
<1>9. /\ p1 # 0 => p1 \in DOMAIN chunks /\ chunks[p1].id = "fmt"
      /\ q1 # 0 => q1 \in DOMAIN chunks /\ chunks[q1].id = "data"
  BY <1>4, <1>7, <1>8
<1>10. /\ p1 \in 0 .. i + 1 - 1 /\ q1 \in 0 .. i + 1 - 1
       /\ p1 # 0 <=> p # 0 \/ id = "fmt"
       /\ q1 # 0 <=> q # 0 \/ id = "data"
  BY <1>5, <1>7, <1>8
<1>11. \A j \in p1 + 1 .. i + 1 - 1 : chunks[j].id # "fmt"
  BY <1>5, <1>7, <1>8
<1>12. \A j \in q1 + 1 .. i + 1 - 1 : chunks[j].id # "data"
  BY <1>5, <1>7, <1>8
<1>13. Named(f, t)
  BY <1>1, <1>7, <1>9 DEF Named, Indices
<1>14. Latest(f, t, i + 1)
  BY <1>1, <1>7, <1>10, <1>11, <1>12, <1>13 DEF Latest
<1>. QED
  BY <1>1, <1>3, <1>7, <1>10, <1>14

\* A chunk is read: the walk goes on behind it, or ends because it was the last
\* one needed, or an empty one, or a format that is not all there.
LEMMA ReadStep ==
  ASSUME WavInv, NEW i \in DOMAIN Content.chunks, ReadChunk(i)
  PROVE  WavInv'
<1>1. /\ wav = "walk" /\ Starts(Content)[i] = at
      /\ UNCHANGED <<file, frames, rate>> /\ Content' = Content
  BY DEF ReadChunk, Content
<1>2. file \in DOMAIN Files /\ Content.magic = "RIFF" /\ Walking /\ frames \in Nat /\ rate \in Int /\ at \in Nat
  BY <1>1 DEF WavInv
<1>3. PICK f \in File : f = Content
  BY <1>2, ContentFacts
<1>4. PICK k \in 1 .. Len(f.chunks) + 1 : at = Starts(f)[k] /\ Latest(f, seen, k) /\ NoneEmpty(f, k)
  BY <1>2, <1>3 DEF Walking
<1>5. /\ Len(f.chunks) \in Nat /\ i \in 1 .. Len(f.chunks) /\ i \in DOMAIN f.chunks
      /\ f.chunks[i] \in Chunk /\ Even(f.chunks[i].size) \in Nat
  BY <1>3, StartsFacts, SMTT(30) DEF Chunk, Even
<1>6. Latest(f, seen, i) /\ NoneEmpty(f, i)
  <2>1. at = Starts(f)[i] /\ at \in Nat
    BY <1>1, <1>2, <1>3
  <2>2. ASSUME NEW a \in 1 .. Len(f.chunks) + 1, NEW b \in 1 .. a - 1, Starts(f)[a] = at, Starts(f)[b] = at
        PROVE  FALSE
    <3>1. Starts(f)[b] + HeaderSize <= Starts(f)[a]
      BY StartsFacts
    <3>. QED
      BY <2>1, <2>2, <3>1 DEF HeaderSize
  <2>3. k \in 1 .. i - 1 \/ i \in 1 .. k - 1 \/ i = k
    BY <1>5
  <2>4. i \in 1 .. Len(f.chunks) + 1
    BY <1>5
  <2>5. i = k
    BY <1>4, <2>1, <2>2, <2>3, <2>4
  <2>. QED
    BY <1>4, <2>5
<1>7. CASE f.chunks[i].id = "fmt" /\ at + HeaderSize + FmtBytes > f.bytes
  <2>1. wav' = "refused" /\ at' = at /\ seen' = seen
    BY <1>3, <1>7 DEF ReadChunk
  <2>2. Malformed(f)
    <3>. SUFFICES ASSUME NEW fmt \in DOMAIN f.chunks, NEW data \in DOMAIN f.chunks, WellFormed(f, fmt, data)
                  PROVE  FALSE
      BY DEF Malformed
    <3>1. /\ i = fmt /\ f.chunks[fmt].size >= FmtBytes
          /\ Starts(f)[fmt] + HeaderSize + f.chunks[fmt].size <= f.bytes
      BY <1>5, <1>7, WellFormedFacts
    <3>2. PICK a \in Nat, c \in Nat, n \in Nat : a = at /\ c = f.chunks[i].size /\ n = f.bytes
      BY <1>2, <1>5 DEF Chunk, File
    <3>3. a + 8 + c <= n /\ c >= 16 /\ a + 8 + 16 > n
      BY <1>1, <1>3, <1>7, <3>1, <3>2 DEF HeaderSize, FmtBytes
    <3>. QED
      BY <3>3
  <2>. QED
    BY <1>1, <1>2, <1>3, <1>6, <2>1, <2>2 DEF WavInv, Latest
<1>8. CASE ~ (f.chunks[i].id = "fmt" /\ at + HeaderSize + FmtBytes > f.bytes)
  <2>. DEFINE t == IF f.chunks[i].id = "other" THEN seen ELSE [seen EXCEPT ![f.chunks[i].id] = i]
  <2>1. seen' = t /\ at' = Following(i) /\ wav' = IF Done(i, t) THEN "check" ELSE "walk"
    BY <1>3, <1>8 DEF ReadChunk
  <2>. HIDE DEF t
  <2>2. Latest(f, t, i + 1)
    BY <1>5, <1>6, FoundNext DEF t
  <2>3. /\ i + 1 \in 1 .. Len(f.chunks) + 1 /\ at' = Starts(f)[i + 1] /\ at' \in Nat
    <3>1. at' = at + HeaderSize + Even(f.chunks[i].size)
      BY <1>3, <2>1 DEF Following
    <3>2. Starts(f)[i + 1] = Starts(f)[i] + HeaderSize + Even(f.chunks[i].size)
      BY <1>5, StartsStep
    <3>. QED
      BY <1>1, <1>2, <1>3, <1>5, <3>1, <3>2, SMTT(30) DEF HeaderSize
  <2>4. CASE Done(i, t)
    <3>1. f.chunks[i].size = 0 \/ (t.fmt # 0 /\ t.data # 0)
      BY <1>3, <2>4 DEF Done
    <3>2. ASSUME NEW fmt \in DOMAIN f.chunks, NEW data \in DOMAIN f.chunks, WellFormed(f, fmt, data)
          PROVE  (fmt < i + 1 /\ data < i + 1) \/ (t.fmt # 0 /\ t.data # 0)
      <4>1. i <= fmt \/ i <= data => f.chunks[i].size > 0
        BY <1>5, <3>2, WellFormedFacts
      <4>2. fmt \in Nat /\ data \in Nat /\ i \in Nat
        BY <1>5, StartsFacts
      <4>3. f.chunks[i].size \in Nat
        BY <1>5 DEF Chunk
      <4>. QED
        BY <3>1, <4>1, <4>2, <4>3
    <3>3. FoundThem(f, t)
      BY <2>2, <2>3, <3>2, BothFound
    <3>. QED
      BY <1>1, <1>2, <1>3, <2>1, <2>2, <2>3, <2>4, <3>3 DEF WavInv, Latest
  <2>5. CASE ~ Done(i, t)
    <3>1. f.chunks[i].size # 0 /\ f.chunks[i].size \in Nat
      BY <1>3, <1>5, <2>5 DEF Done, Chunk
    <3>2. NoneEmpty(f, i + 1)
      BY <1>5, <1>6, <3>1 DEF NoneEmpty
    <3>3. Walking'
      BY <1>1, <1>3, <2>1, <2>2, <2>3, <3>2 DEF Walking
    <3>. QED
      BY <1>1, <1>2, <1>3, <2>1, <2>2, <2>3, <2>5, <3>3 DEF WavInv, Latest
  <2>. QED
    BY <2>4, <2>5
<1>. QED
  BY <1>7, <1>8

\* Only what no well-formed file has is refused.
LEMMA RefuseStep ==
  ASSUME WavInv, Refuse
  PROVE  WavInv'
<1>1. /\ wav = "check" /\ ~ Sound /\ wav' = "refused" /\ file \in DOMAIN Files /\ FoundThem(Content, seen)
      /\ UNCHANGED <<file, at, seen, frames, rate>> /\ Content' = Content
  BY DEF Refuse, WavInv, Content
<1>2. Malformed(Content)
  <2>. SUFFICES ASSUME NEW fmt \in DOMAIN Content.chunks, NEW data \in DOMAIN Content.chunks,
                       WellFormed(Content, fmt, data)
                PROVE  FALSE
    BY DEF Malformed
  <2>1. seen = [fmt |-> fmt, data |-> data]
    BY <1>1 DEF FoundThem
  <2>. QED
    BY <1>1, <2>1, WellFormedIsSound
<1>. QED
  BY <1>1, <1>2 DEF WavInv

\* The format and the data of sound samples, and how many samples that are.
LEMMA SoundFacts ==
  ASSUME file \in DOMAIN Files, Named(Content, seen), Sound
  PROVE  /\ seen.fmt \in Indices(Content, "fmt") /\ seen.data \in Indices(Content, "data")
         /\ Declared \in Nat /\ DeclaredRate \in Int
<1>1. PICK f \in File : f = Content
  BY ContentFacts
<1>2. seen.fmt \in Indices(f, "fmt") /\ seen.data \in Indices(f, "data")
  BY <1>1 DEF Named, Sound
<1>3. PICK p, q : p = seen.fmt /\ q = seen.data
  OBVIOUS
<1>4. p \in DOMAIN f.chunks /\ q \in DOMAIN f.chunks
  BY <1>2, <1>3 DEF Indices
<1>5. f.chunks[p] \in Chunk /\ f.chunks[q] \in Chunk
  BY <1>4, StartsFacts
<1>6. f.chunks[p].channels > 0
  BY <1>1, <1>3 DEF Sound
<1>7. FramesOf(f.chunks[p], f.chunks[q]) \in Nat /\ AsInt(f.chunks[p].rate) \in Int
  <2>1. f.chunks[p].rate \in Int /\ RateLimit \in Int
    BY <1>5, FilesAssumption DEF Chunk
  <2>2. AsInt(f.chunks[p].rate) \in Int
    BY <2>1 DEF AsInt
  <2>. QED
    BY <1>5, <1>6, <2>2, FramesFit
<1>. QED
  BY <1>1, <1>2, <1>3, <1>7 DEF Declared, DeclaredRate

\* What is converted is what was declared.
LEMMA ConvertStep ==
  ASSUME WavInv, Convert
  PROVE  WavInv'
<1>1. /\ wav = "check" /\ Sound /\ file \in DOMAIN Files /\ Named(Content, seen) /\ FoundThem(Content, seen)
      /\ UNCHANGED <<file, at, seen>> /\ Content' = Content /\ Content.magic = "RIFF" /\ at \in Nat
      /\ frames' = Declared /\ rate' = DeclaredRate
      /\ wav' = IF DeclaredRate = 16000 THEN "ready" ELSE "resample"
  BY DEF Convert, WavInv, Content, Declared, DeclaredRate
<1>2. Declared \in Nat /\ DeclaredRate \in Int
  BY <1>1, SoundFacts
<1>3. Sound' /\ Declared' = Declared /\ DeclaredRate' = DeclaredRate
  BY <1>1 DEF Sound, Declared, DeclaredRate
<1>4. CASE DeclaredRate = 16000
  BY <1>1, <1>2, <1>3, <1>4 DEF WavInv, KeepsTheTime
<1>5. CASE DeclaredRate # 16000
  BY <1>1, <1>2, <1>3, <1>5 DEF WavInv
<1>. QED
  BY <1>4, <1>5

\* A positive rate gives a length that keeps the time.
LEMMA LengthsFacts ==
  ASSUME NEW n \in Nat, NEW r \in Int, r > 0, r # 16000, NEW m \in Lengths(n, r)
  PROVE  m \in Nat /\ KeepsTheTime(n, r, m)
<1>1. PICK k \in Nat : k = n * 16000
  OBVIOUS
<1>2. PICK q \in Nat : q = k \div r
  BY <1>1
<1>3. m \in {q, q + 1}
  BY <1>1, <1>2 DEF Lengths
<1>4. m \in Nat
  BY <1>2, <1>3
<1>5. KeepsTheTime(n, r, m)
  BY <1>1, <1>2, <1>3 DEF KeepsTheTime
<1>. QED
  BY <1>4, <1>5

\* Resampling changes the number of samples as the rates say; a rate or a number
\* of 0 has no outcome that is promised.
LEMMA ResampleStep ==
  ASSUME WavInv, Resample \/ ResampleUndefined \/ ResampleNothing
  PROVE  WavInv'
<1>1. /\ wav = "resample" /\ Sound /\ file \in DOMAIN Files /\ Named(Content, seen) /\ FoundThem(Content, seen)
      /\ UNCHANGED <<file, at, seen>> /\ Content' = Content /\ Content.magic = "RIFF" /\ at \in Nat
      /\ frames = Declared /\ rate = DeclaredRate /\ rate # 16000 /\ frames \in Nat /\ rate \in Int
  BY DEF Resample, ResampleUndefined, ResampleNothing, WavInv, Content
<1>2. Sound' /\ Declared' = Declared /\ DeclaredRate' = DeclaredRate
  BY <1>1 DEF Sound, Declared, DeclaredRate
<1>3. CASE Resample
  <2>1. frames' \in Lengths(frames, rate) /\ rate' = 16000 /\ wav' = "ready"
    BY <1>3 DEF Resample
  <2>2. ASSUME rate < 0 PROVE frames' = 1
    BY <2>1, <2>2 DEF Lengths
  <2>3. ASSUME rate > 0 PROVE frames' \in Nat /\ KeepsTheTime(frames, rate, frames')
    BY <1>1, <2>1, <2>3, LengthsFacts
  <2>4. rate < 0 \/ rate > 0
    BY <1>1, <1>3 DEF Resample, Unsizable
  <2>5. frames' \in Nat /\ (DeclaredRate > 0 => KeepsTheTime(Declared, DeclaredRate, frames'))
    BY <1>1, <2>2, <2>3, <2>4
  <2>. QED
    BY <1>1, <1>2, <2>1, <2>5 DEF WavInv
<1>4. CASE ResampleUndefined
  <2>1. ~ (DeclaredRate > 0)
    BY <1>1, <1>4 DEF ResampleUndefined, Unsizable
  <2>. QED
    BY <1>1, <1>2, <1>4, <2>1 DEF ResampleUndefined, WavInv
<1>5. CASE ResampleNothing
  BY <1>1, <1>2, <1>5 DEF ResampleNothing, WavInv
<1>. QED
  BY <1>3, <1>4, <1>5

\* Nothing is being read before the run, and only closed files are opened.
Idle == phase \in {"arguments", "init"} => wav = "closed"

\* At first no file is open.
LEMMA ReaderInit ==
  ASSUME Init
  PROVE  WavInv /\ Idle
BY DEF Init, WavInit, WavInv, Idle

\* Every step of the program keeps the invariant of the reader.
LEMMA ReaderStep ==
  ASSUME WavInv, Idle, [Next]_vars
  PROVE  WavInv' /\ Idle'
<1>1. CASE Arguments \/ InitGoesOn \/ InitFails \/ InitAborts
  <2>1. UNCHANGED wavVars /\ phase' # "load"
    BY <1>1 DEF Arguments, InitGoesOn, InitFails, InitAborts, Return
  <2>2. phase \in {"arguments", "init"}
    BY <1>1 DEF Arguments, InitGoesOn, InitFails, InitAborts
  <2>. QED
    BY <2>1, <2>2, IdleStep DEF Idle, wavVars
<1>2. CASE InitEnds
  <2>1. Open /\ phase' = "load" /\ wav = "closed"
    BY <1>2 DEF InitEnds, Idle
  <2>. QED
    BY <2>1, OpenStep DEF Idle
<1>3. CASE Load
  <2>1. WavStep /\ phase' \in {"crashed", "load"}
    BY <1>3 DEF Load
  <2>2. WavInv'
    BY <2>1, EndOfFileStep, ReadStep, RefuseStep, ConvertStep, ResampleStep DEF WavStep
  <2>. QED
    BY <2>1, <2>2 DEF Idle
<1>4. CASE LoadEnds
  <2>1. Close /\ phase' \in {"run", "destroy"}
    BY <1>4 DEF LoadEnds, Return
  <2>. QED
    BY <2>1, CloseStep DEF Idle
<1>5. CASE \/ Push \/ PushFails \/ RunEnds \/ WriteTranscript \/ WriteTurns \/ WriteTokens \/ CannotWrite
           \/ Report \/ Destroy \/ Exit
  <2>1. UNCHANGED wavVars /\ phase' \notin {"arguments", "init"}
    BY <1>5 DEF Push, PushFails, RunEnds, WriteTranscript, WriteTurns, WriteTokens, CannotWrite,
                Report, Destroy, Exit, Return
  <2>. QED
    BY <2>1, IdleStep DEF Idle
<1>6. CASE Stop \/ UNCHANGED vars
  <2>1. UNCHANGED wavVars /\ phase' = phase
    BY <1>6 DEF Stop, vars
  <2>. QED
    BY <2>1, IdleStep DEF Idle, wavVars
<1>. QED
  BY <1>1, <1>2, <1>3, <1>4, <1>5, <1>6 DEF Next, Advance

\* The invariant of the reader, in every run of the program.
LEMMA ReaderInvariant == Spec => []WavInv
<1>1. Init => WavInv /\ Idle
  BY ReaderInit
<1>2. WavInv /\ Idle /\ [Next]_vars => WavInv' /\ Idle'
  BY ReaderStep
<1>. QED
  BY <1>1, <1>2, PTL DEF Spec

\* Whatever chunks a file has, odd and empty ones included, and wherever it
\* ends: a name is read only where a chunk begins (wav.h:60-75).
THEOREM NothingIsMisread == Spec => []NeverMisread
<1>1. WavInv => NeverMisread
  <2>. SUFFICES ASSUME WavInv, wav = "walk", ~ PastEnd
                PROVE  \E i \in DOMAIN Content.chunks : Starts(Content)[i] = at
    BY DEF NeverMisread
  <2>1. file \in DOMAIN Files /\ Walking /\ at \in Nat
    BY DEF WavInv
  <2>2. PICK f \in File : f = Content
    BY <2>1, ContentFacts
  <2>3. f.bytes \in Nat /\ f.bytes < Starts(f)[Len(f.chunks) + 1] + HeaderSize
    BY <2>1, <2>2, ContentFacts
  <2>4. PICK i \in 1 .. Len(f.chunks) + 1 : at = Starts(f)[i]
    BY <2>1, <2>2 DEF Walking
  <2>5. at + HeaderSize <= f.bytes
    BY <2>1, <2>2, <2>3 DEF PastEnd, HeaderSize
  <2>6. Len(f.chunks) \in Nat /\ DOMAIN f.chunks = 1 .. Len(f.chunks)
    BY StartsFacts
  <2>7. i # Len(f.chunks) + 1
    BY <2>1, <2>3, <2>4, <2>5 DEF HeaderSize
  <2>. QED
    BY <2>2, <2>4, <2>6, <2>7
<1>. QED
  BY <1>1, ReaderInvariant, PTL

\* A well-formed file of any size is never refused and gives the samples it
\* declares, and whatever is not refused was declared by the file.
THEOREM DeclaredDataIsRead == Spec => []ReadsTheDeclaredData
<1>1. WavInv => ReadsTheDeclaredData
  <2>. SUFFICES ASSUME WavInv, WavEnded
                PROVE  ReadsTheDeclaredData
    BY DEF ReadsTheDeclaredData
  <2>1. file \in DOMAIN Files /\ Named(Content, seen)
    BY DEF WavInv, WavEnded
  <2>2. ASSUME NEW fmt \in DOMAIN Content.chunks, NEW data \in DOMAIN Content.chunks,
               WellFormed(Content, fmt, data)
        PROVE  wav # "refused" /\ seen = [fmt |-> fmt, data |-> data]
    BY <2>2 DEF WavInv, WavEnded, Malformed, FoundThem
  <2>3. ASSUME wav # "refused"
        PROVE  /\ Content.magic = "RIFF" /\ Sound
               /\ wav = "ready" /\ DeclaredRate > 0 =>
                    rate = 16000 /\ KeepsTheTime(Declared, DeclaredRate, frames)
    BY <2>3 DEF WavInv, WavEnded
  <2>. DEFINE Gives(fmt, data) ==
                /\ Content.chunks[fmt].pcm16 /\ Content.chunks[fmt].channels > 0
                /\ LET n == FramesOf(Content.chunks[fmt], Content.chunks[data])
                       was == AsInt(Content.chunks[fmt].rate)
                   IN  /\ Starts(Content)[data] + HeaderSize + Block(Content.chunks[fmt]) * n <= Content.bytes
                       /\ wav = "ready" /\ was > 0 => rate = 16000 /\ KeepsTheTime(n, was, frames)
  <2>4. ASSUME wav # "refused"
        PROVE  \E fmt \in Indices(Content, "fmt"), data \in Indices(Content, "data") : Gives(fmt, data)
    <3>1. seen.fmt \in Indices(Content, "fmt") /\ seen.data \in Indices(Content, "data")
      BY <2>1, <2>3, <2>4, SoundFacts
    <3>2. Gives(seen.fmt, seen.data)
      <4>0. Sound
        BY <2>3, <2>4
      <4>1. Content.chunks[seen.fmt].pcm16 /\ Content.chunks[seen.fmt].channels > 0
        BY <4>0 DEF Sound
      <4>2. Starts(Content)[seen.data] + HeaderSize
              + Block(Content.chunks[seen.fmt]) * FramesOf(Content.chunks[seen.fmt], Content.chunks[seen.data])
              <= Content.bytes
        BY <4>0 DEF Sound
      <4>3. wav = "ready" /\ DeclaredRate > 0 =>
              rate = 16000 /\ KeepsTheTime(Declared, DeclaredRate, frames)
        BY <2>3, <2>4
      <4>. QED
        BY <4>1, <4>2, <4>3 DEF Declared, DeclaredRate
    <3>. HIDE DEF Gives
    <3>. QED
      BY <3>1, <3>2, Zenon
  <2>. HIDE DEF Gives
  <2>5. \A fmt, data \in DOMAIN Content.chunks :
          WellFormed(Content, fmt, data) => wav # "refused" /\ seen = [fmt |-> fmt, data |-> data]
    BY <2>2
  <2>6. wav # "refused" =>
          /\ Content.magic = "RIFF"
          /\ \E fmt \in Indices(Content, "fmt"), data \in Indices(Content, "data") : Gives(fmt, data)
    BY <2>3, <2>4
  <2>. QED
    BY <2>5, <2>6 DEF ReadsTheDeclaredData, Gives
<1>. QED
  BY <1>1, ReaderInvariant, PTL

-----------------------------------------------------------------------------
(* The steps of init, one after the other *)

\* What is acquired for good: all but what init itself gives back.
Lasting == Things \ {<<"crisp", "reader">>, <<"engine", "sopts">>}

\* What a configuration means, and what a callback uses, as functions of it.
MeantBy(s, x) ==
  IF x = "prefix" THEN IF s.bundle THEN "asr." ELSE "" ELSE IF s.native THEN "1" ELSE "0"

TargetOf(s, h) ==
  CASE h = "chunk"  -> GraphParts("xasr")
    [] h = "pre"    -> Parts("pre", {"weights"})
    [] h = "encode" -> IF s.backend = "ggml" THEN CrispParts \ Parts("crisp", {"reader", "graph"})
                       ELSE GraphParts("diar") \ Parts("diar", {"pool"})

\* NeverDangling of these things and callbacks.
Whole(s, things, given) ==
  /\ \A p \in Needs : p[1] \in things => p[2] \in things
  /\ \A h \in given : Holder(h) \in things => TargetOf(s, h) \subseteq things

\* What init has done: what is alive, hooked in, set and read since.
Point(things, given, set, read) == [alive |-> things, hooks |-> given, set |-> set, read |-> read]

\* Typed, and nothing dangles.
Fine(s, a) ==
  /\ a.alive \subseteq Things /\ a.hooks \subseteq {"chunk", "encode", "pre"}
  /\ Whole(s, a.alive, a.hooks)

\* What is lost when a step fails leaves nothing behind that the destructor does
\* not release, and only the parts of a graph leak.
FailsWell(s, a, drops, leaks) ==
  LET left == a.alive \ (drops \cup leaks)
  IN  /\ left \subseteq Lasting /\ Whole(s, left, a.hooks)
      /\ a.alive \cap leaks \subseteq GraphParts("xasr") \cup GraphParts("diar")

\* The step x leads from a to b; what it reads has been set.
Goes(s, a, x, b) ==
  /\ Fine(s, a) /\ Fine(s, b)
  /\ b.alive = CASE x.does = "create" -> a.alive \cup {x.what}
                 [] x.does = "free" -> a.alive \ {x.what}
                 [] OTHER -> a.alive
  /\ b.hooks = IF x.does = "hook" THEN a.hooks \cup {x.what[2]} ELSE a.hooks
  /\ b.set = IF x.does = "setenv" THEN a.set \cup {x.what[2]} ELSE a.set
  /\ b.read = IF x.does = "create" THEN a.read \cup ReadBy(x.what) ELSE a.read
  /\ x.does = "create" => ReadBy(x.what) \subseteq a.set
  /\ x.does \notin {"setenv", "free"} => FailsWell(s, a, x.drops, x.leaks)

\* The points the steps of a plan pass, from a to b.
Passes(s, p, a, b, f) ==
  f[1] = a /\ f[Len(p) + 1] = b /\ \A i \in 1 .. Len(p) : Goes(s, f[i], p[i], f[i + 1])

\* A sequence of steps leads from a to b.
Leads(s, p, a, b) == (\E R : p \in Seq(R)) /\ \E f : Passes(s, p, a, b, f)

\* No step.
LEMMA LeadsNowhere ==
  ASSUME NEW s, NEW a
  PROVE  Leads(s, <<>>, a, a)
<1>1. Passes(s, <<>>, a, a, <<a>>)
  BY DEF Passes
<1>2. <<>> \in Seq({})
  BY EmptySeq
<1>. QED
  BY <1>1, <1>2 DEF Leads

\* A few steps.
LEMMA ShortLeads ==
  ASSUME NEW s
  PROVE  /\ \A x, a, b : Goes(s, a, x, b) => Leads(s, <<x>>, a, b)
         /\ \A x, y, a, b, c : Goes(s, a, x, b) /\ Goes(s, b, y, c) => Leads(s, <<x, y>>, a, c)
<1>1. ASSUME NEW x, NEW a, NEW b, Goes(s, a, x, b)
      PROVE  Leads(s, <<x>>, a, b)
  <2>1. Passes(s, <<x>>, a, b, <<a, b>>)
    BY <1>1 DEF Passes
  <2>2. <<x>> \in Seq({x})
    OBVIOUS
  <2>. QED
    BY <2>1, <2>2 DEF Leads
<1>2. ASSUME NEW x, NEW y, NEW a, NEW b, NEW c, Goes(s, a, x, b), Goes(s, b, y, c)
      PROVE  Leads(s, <<x, y>>, a, c)
  <2>1. Passes(s, <<x, y>>, a, c, <<a, b, c>>)
    BY <1>2 DEF Passes
  <2>2. <<x, y>> \in Seq({x, y})
    OBVIOUS
  <2>. QED
    BY <2>1, <2>2 DEF Leads
<1>. QED
  BY <1>1, <1>2

\* Steps after steps.
LEMMA LeadsOn ==
  ASSUME NEW s, NEW p, NEW q, NEW a, NEW b, NEW c, Leads(s, p, a, b), Leads(s, q, b, c)
  PROVE  Leads(s, p \o q, a, c)
<1>1. PICK R, f : p \in Seq(R) /\ Passes(s, p, a, b, f)
  BY DEF Leads
<1>2. PICK S, g : q \in Seq(S) /\ Passes(s, q, b, c, g)
  BY DEF Leads
<1>3. p \in Seq(R \cup S) /\ q \in Seq(R \cup S)
  BY <1>1, <1>2, SeqMonotonic
<1>4. /\ p \o q \in Seq(R \cup S) /\ Len(p \o q) = Len(p) + Len(q) /\ Len(p) \in Nat /\ Len(q) \in Nat
      /\ \A i \in 1 .. Len(p) + Len(q) : (p \o q)[i] = IF i <= Len(p) THEN p[i] ELSE q[i - Len(p)]
  BY <1>3, ConcatProperties, LenProperties
<1>. DEFINE h == [i \in 1 .. Len(p) + Len(q) + 1 |-> IF i <= Len(p) THEN f[i] ELSE g[i - Len(p)]]
<1>5. f[Len(p) + 1] = g[1]
  BY <1>1, <1>2 DEF Passes
<1>6. h[1] = a
  <2>1. h[1] = IF 1 <= Len(p) THEN f[1] ELSE g[1 - Len(p)]
    BY <1>4
  <2>2. CASE Len(p) = 0
    BY <1>1, <1>5, <2>1, <2>2 DEF Passes
  <2>3. CASE Len(p) # 0
    BY <1>1, <1>4, <2>1, <2>3 DEF Passes
  <2>. QED
    BY <2>2, <2>3
<1>7. h[Len(p) + Len(q) + 1] = c
  <2>1. h[Len(p) + Len(q) + 1] = g[Len(q) + 1]
    BY <1>4
  <2>. QED
    BY <1>2, <2>1 DEF Passes
<1>8. ASSUME NEW i \in 1 .. Len(p) + Len(q)
      PROVE  Goes(s, h[i], (p \o q)[i], h[i + 1])
  <2>1. CASE i < Len(p)
    <3>1. h[i] = f[i] /\ h[i + 1] = f[i + 1] /\ (p \o q)[i] = p[i] /\ i \in 1 .. Len(p)
      BY <1>4, <2>1
    <3>. QED
      BY <1>1, <3>1 DEF Passes
  <2>2. CASE i = Len(p)
    <3>1. h[i] = f[i] /\ h[i + 1] = g[1] /\ (p \o q)[i] = p[i] /\ i \in 1 .. Len(p)
      BY <1>4, <2>2
    <3>2. g[1] = f[i + 1]
      BY <1>5, <2>2
    <3>. QED
      BY <1>1, <3>1, <3>2 DEF Passes
  <2>3. CASE i > Len(p)
    <3>1. PICK k \in 1 .. Len(q) : i = Len(p) + k
      <4>1. i - Len(p) \in 1 .. Len(q) /\ i = Len(p) + (i - Len(p))
        BY <1>4, <2>3
      <4>. QED
        BY <4>1
    <3>2. h[i] = g[k] /\ h[i + 1] = g[k + 1] /\ (p \o q)[i] = q[k]
      BY <1>4, <3>1
    <3>. QED
      BY <1>2, <3>2 DEF Passes
  <2>. QED
    BY <1>4, <2>1, <2>2, <2>3
<1>. HIDE DEF h
<1>9. Passes(s, p \o q, a, c, h)
  BY <1>4, <1>6, <1>7, <1>8 DEF Passes
<1>. QED
  BY <1>4, <1>9 DEF Leads

\* Longer plans.
LEMMA LongLeads ==
  ASSUME NEW s, NEW x, NEW y, NEW z, NEW a, NEW b, NEW c, NEW d, Goes(s, a, x, b), Goes(s, b, y, c), Goes(s, c, z, d)
  PROVE  /\ Leads(s, <<x, y, z>>, a, d)
         /\ \A u, e : Goes(s, d, u, e) => Leads(s, <<x, y, z, u>>, a, e)
         /\ \A u, v, e, f : Goes(s, d, u, e) /\ Goes(s, e, v, f) => Leads(s, <<x, y, z, u, v>>, a, f)
         /\ \A u, v, w, e, f, g :
              Goes(s, d, u, e) /\ Goes(s, e, v, f) /\ Goes(s, f, w, g) => Leads(s, <<x, y, z, u, v, w>>, a, g)
<1>1. Leads(s, <<x, y, z>>, a, d)
  <2>1. Passes(s, <<x, y, z>>, a, d, <<a, b, c, d>>)
    BY DEF Passes
  <2>2. <<x, y, z>> \in Seq({x, y, z})
    OBVIOUS
  <2>. QED
    BY <2>1, <2>2 DEF Leads
<1>2. ASSUME NEW u, NEW e, Goes(s, d, u, e)
      PROVE  Leads(s, <<x, y, z, u>>, a, e)
  <2>1. Passes(s, <<x, y, z, u>>, a, e, <<a, b, c, d, e>>)
    BY <1>2 DEF Passes
  <2>2. <<x, y, z, u>> \in Seq({x, y, z, u})
    OBVIOUS
  <2>. QED
    BY <2>1, <2>2 DEF Leads
<1>3. ASSUME NEW u, NEW v, NEW e, NEW f, Goes(s, d, u, e), Goes(s, e, v, f)
      PROVE  Leads(s, <<x, y, z, u, v>>, a, f)
  <2>1. Passes(s, <<x, y, z, u, v>>, a, f, <<a, b, c, d, e, f>>)
    BY <1>3 DEF Passes
  <2>2. <<x, y, z, u, v>> \in Seq({x, y, z, u, v})
    OBVIOUS
  <2>. QED
    BY <2>1, <2>2 DEF Leads
<1>4. ASSUME NEW u, NEW v, NEW w, NEW e, NEW f, NEW g, Goes(s, d, u, e), Goes(s, e, v, f), Goes(s, f, w, g)
      PROVE  Leads(s, <<x, y, z, u, v, w>>, a, g)
  <2>1. Passes(s, <<x, y, z, u, v, w>>, a, g, <<a, b, c, d, e, f, g>>)
    BY <1>4 DEF Passes
  <2>2. <<x, y, z, u, v, w>> \in Seq({x, y, z, u, v, w})
    OBVIOUS
  <2>. QED
    BY <2>1, <2>2 DEF Leads
<1>. QED
  BY <1>1, <1>2, <1>3, <1>4

\* Where steps lead nothing dangles, if there was a step.
LEMMA LeadsFine ==
  ASSUME NEW s, NEW p, NEW a, NEW b, Leads(s, p, a, b), Fine(s, a)
  PROVE  Fine(s, b)
<1>1. PICK R, f : p \in Seq(R) /\ Passes(s, p, a, b, f)
  BY DEF Leads
<1>2. Len(p) \in Nat
  BY <1>1, LenProperties
<1>3. CASE Len(p) = 0
  BY <1>1, <1>3 DEF Passes
<1>4. CASE Len(p) # 0
  <2>1. Goes(s, f[Len(p)], p[Len(p)], f[Len(p) + 1])
    BY <1>1, <1>2, <1>4 DEF Passes
  <2>. QED
    BY <1>1, <2>1 DEF Passes, Goes
<1>. QED
  BY <1>3, <1>4

\* What uses what: the parts of one owner only.
Under(o, x, y) ==
  \/ o = "engine" /\ \/ x = "asr_stream" /\ y = "asr_ctx"
                     \/ x = "session" /\ y = "model"
                     \/ x = "model" /\ y = "registry"
  \/ o = "crisp" /\ \/ x = "weights_buf" /\ y = "backend"
                    \/ x = "graph" /\ y \in {"backend", "weights_ctx", "weights_buf"}
  \/ o \in {"xasr", "diar"} /\ \/ x = "cm" /\ y \in {"env", "model", "opts"}
                               \/ x \in {"buffers", "pool"} /\ y \in {"env", "cm"}

\* Needs says who uses what.
LEMMA NeedsAre ==
  \A p : p \in Needs <=> \E o, x, y : Under(o, x, y) /\ p = <<<<o, x>>, <<o, y>>>>
BY DEF Needs, Uses, Parts, Under

\* Whole, said of the parts of each owner.
LEMMA WholeMeans ==
  ASSUME NEW s, NEW things, NEW given
  PROVE  Whole(s, things, given) <=>
           /\ \A o, x, y : Under(o, x, y) /\ <<o, x>> \in things => <<o, y>> \in things
           /\ \A h \in given : Holder(h) \in things => TargetOf(s, h) \subseteq things
<1>1. ASSUME \A p \in Needs : p[1] \in things => p[2] \in things,
             NEW o, NEW x, NEW y, Under(o, x, y), <<o, x>> \in things
      PROVE  <<o, y>> \in things
  <2>1. PICK p : p = <<<<o, x>>, <<o, y>>>>
    OBVIOUS
  <2>2. p \in Needs /\ p[1] = <<o, x>> /\ p[2] = <<o, y>>
    BY <1>1, <2>1, NeedsAre
  <2>. QED
    BY <1>1, <2>2
<1>2. ASSUME \A o, x, y : Under(o, x, y) /\ <<o, x>> \in things => <<o, y>> \in things,
             NEW p \in Needs, p[1] \in things
      PROVE  p[2] \in things
  <2>1. PICK o, x, y : Under(o, x, y) /\ p = <<<<o, x>>, <<o, y>>>>
    BY NeedsAre
  <2>. QED
    BY <1>2, <2>1
<1>. QED
  BY <1>1, <1>2 DEF Whole

\* What is lost together leaves nothing behind that uses it.
LEMMA Losing ==
  ASSUME NEW s, NEW things, NEW given, NEW lost, Whole(s, things, given),
         \A o, x, y : Under(o, x, y) /\ <<o, y>> \in lost => <<o, x>> \in lost,
         \A h \in given : TargetOf(s, h) \cap lost = {}
  PROVE  Whole(s, things \ lost, given)
BY WholeMeans

\* What is created needs only what there is.
LEMMA Creating ==
  ASSUME NEW s, NEW a, NEW o, NEW x, NEW drops, NEW leaks,
         Fine(s, a), FailsWell(s, a, drops, leaks), <<o, x>> \in Things,
         \A y : Under(o, x, y) => <<o, y>> \in a.alive,
         \A h \in a.hooks : Holder(h) # <<o, x>>,
         ReadBy(<<o, x>>) \subseteq a.set
  PROVE  Goes(s, a, Step("create", <<o, x>>, drops, leaks),
              Point(a.alive \cup {<<o, x>>}, a.hooks, a.set, a.read \cup ReadBy(<<o, x>>)))
<1>1. \A p, y : Under(p, x, y) /\ <<p, x>> = <<o, x>> => p = o
  OBVIOUS
<1>2. Whole(s, a.alive \cup {<<o, x>>}, a.hooks)
  <2>1. ASSUME NEW p, NEW u, NEW y, Under(p, u, y), <<p, u>> \in a.alive \cup {<<o, x>>}
        PROVE  <<p, y>> \in a.alive
    <3>1. CASE <<p, u>> \in a.alive
      BY <2>1, <3>1, WholeMeans DEF Fine
    <3>2. CASE <<p, u>> = <<o, x>>
      <4>1. p = o /\ u = x
        BY <3>2
      <4>. QED
        BY <2>1, <4>1
    <3>. QED
      BY <2>1, <3>1, <3>2
  <2>2. ASSUME NEW h \in a.hooks, Holder(h) \in a.alive \cup {<<o, x>>}
        PROVE  TargetOf(s, h) \subseteq a.alive
    BY <2>2, WholeMeans DEF Fine
  <2>. QED
    BY <2>1, <2>2, WholeMeans
<1>3. Fine(s, Point(a.alive \cup {<<o, x>>}, a.hooks, a.set, a.read \cup ReadBy(<<o, x>>)))
  BY <1>2 DEF Fine, Point
<1>. QED
  BY <1>3 DEF Goes, Point, Step

\* A check changes nothing.
LEMMA Checking ==
  ASSUME NEW s, NEW a, NEW o, NEW x, NEW drops, NEW leaks, Fine(s, a), FailsWell(s, a, drops, leaks)
  PROVE  Goes(s, a, Step("check", <<o, x>>, drops, leaks), a)
BY DEF Goes, Step

\* Setting a variable cannot fail.
LEMMA Setting ==
  ASSUME NEW s, NEW a, NEW x, Fine(s, a)
  PROVE  Goes(s, a, SetEnv(x), Point(a.alive, a.hooks, a.set \cup {x}, a.read))
BY DEF Goes, SetEnv, Step, Point, Fine

\* Nor can giving back what nothing uses.
LEMMA Freeing ==
  ASSUME NEW s, NEW a, NEW o, NEW x, Fine(s, a), Whole(s, a.alive \ {<<o, x>>}, a.hooks)
  PROVE  Goes(s, a, Free(o, x), Point(a.alive \ {<<o, x>>}, a.hooks, a.set, a.read))
BY DEF Goes, Free, Step, Point, Fine

\* A callback is given away when all it uses is there.
LEMMA Hooking ==
  ASSUME NEW s, NEW a, NEW h \in {"chunk", "encode", "pre"}, Fine(s, a), a.alive \subseteq Lasting,
         TargetOf(s, h) \subseteq a.alive
  PROVE  Goes(s, a, Hook(h), Point(a.alive, a.hooks \cup {h}, a.set, a.read))
<1>1. Whole(s, a.alive, a.hooks \cup {h})
  BY WholeMeans DEF Fine
<1>2. FailsWell(s, a, {}, {})
  BY DEF FailsWell, Fine
<1>. QED
  BY <1>1, <1>2 DEF Goes, Hook, Step, Point, Fine

\* What is read by what.
LEMMA ReadByFacts ==
  ASSUME NEW o, NEW x
  PROVE  /\ o # "engine" => ReadBy(<<o, x>>) = {}
         /\ x \notin {"asr_ctx", "session"} => ReadBy(<<o, x>>) = {}
         /\ ReadBy(<<"engine", "asr_ctx">>) = {"prefix"}
         /\ ReadBy(<<"engine", "session">>) = {"external"}
BY DEF ReadBy

\* Steps that leak these parts, or give them back.
LEMMA StepMarked ==
  ASSUME NEW does, NEW what, NEW parts, NEW a, a = Step(does, what, {}, {})
  PROVE  /\ [a EXCEPT !.drops = parts] = Step(does, what, parts, {})
         /\ [a EXCEPT !.leaks = parts] = Step(does, what, {}, parts)
BY DEF Step

\* The plans of the constructors, step by step: what each step gives back or leaks.
LEMMA GraphPlan ==
  ASSUME NEW D, NEW o, D = GraphParts(o)
  PROVE  MakeGraph(o)
           = <<Step("create", <<o, "env">>, {}, D), Step("create", <<o, "model">>, {}, D),
               Step("create", <<o, "opts">>, {}, D), Step("create", <<o, "cm">>, {}, D),
               Step("check", <<o, "signature">>, {}, D), Step("create", <<o, "buffers">>, {}, D)>>
<1>1. PICK a : a = Create(o, "env")
  OBVIOUS
<1>2. PICK b : b = Create(o, "model")
  OBVIOUS
<1>3. PICK c : c = Create(o, "opts")
  OBVIOUS
<1>4. PICK d : d = Create(o, "cm")
  OBVIOUS
<1>5. PICK e : e = Check(o, "signature")
  OBVIOUS
<1>6. PICK f : f = Create(o, "buffers")
  OBVIOUS
<1>7. PICK g : g = Leaking(<<a, b, c, d, e, f>>, D)
  OBVIOUS
<1>8. DOMAIN <<a, b, c, d, e, f>> = 1 .. 6
  OBVIOUS
<1>9. /\ g = [i \in 1 .. 6 |-> g[i]]
      /\ g[1] = [a EXCEPT !.leaks = D]
      /\ g[2] = [b EXCEPT !.leaks = D]
      /\ g[3] = [c EXCEPT !.leaks = D]
      /\ g[4] = [d EXCEPT !.leaks = D]
      /\ g[5] = [e EXCEPT !.leaks = D]
      /\ g[6] = [f EXCEPT !.leaks = D]
  BY <1>7, <1>8 DEF Leaking
<1>10. /\ [a EXCEPT !.leaks = D] = Step("create", <<o, "env">>, {}, D)
      /\ [b EXCEPT !.leaks = D] = Step("create", <<o, "model">>, {}, D)
      /\ [c EXCEPT !.leaks = D] = Step("create", <<o, "opts">>, {}, D)
      /\ [d EXCEPT !.leaks = D] = Step("create", <<o, "cm">>, {}, D)
      /\ [e EXCEPT !.leaks = D] = Step("check", <<o, "signature">>, {}, D)
      /\ [f EXCEPT !.leaks = D] = Step("create", <<o, "buffers">>, {}, D)
  BY <1>1, <1>2, <1>3, <1>4, <1>5, <1>6, StepMarked DEF Create, Check
<1>. QED
  BY <1>1, <1>2, <1>3, <1>4, <1>5, <1>6, <1>7, <1>9, <1>10 DEF MakeGraph

\* XasrLiteRT behind its graph.
LEMMA XasrPlan ==
  ASSUME NEW D
  PROVE  Dropping(<<Check("xasr", "geometry"), Create("xasr", "pool"), Check("xasr", "reset")>>, D)
           = <<Step("check", <<"xasr", "geometry">>, D, {}), Step("create", <<"xasr", "pool">>, D, {}),
               Step("check", <<"xasr", "reset">>, D, {})>>
<1>1. PICK a : a = Check("xasr", "geometry")
  OBVIOUS
<1>2. PICK b : b = Create("xasr", "pool")
  OBVIOUS
<1>3. PICK c : c = Check("xasr", "reset")
  OBVIOUS
<1>4. PICK g : g = Dropping(<<a, b, c>>, D)
  OBVIOUS
<1>5. DOMAIN <<a, b, c>> = 1 .. 3
  OBVIOUS
<1>6. /\ g = [i \in 1 .. 3 |-> g[i]]
      /\ g[1] = [a EXCEPT !.drops = D]
      /\ g[2] = [b EXCEPT !.drops = D]
      /\ g[3] = [c EXCEPT !.drops = D]
  BY <1>4, <1>5 DEF Dropping
<1>7. /\ [a EXCEPT !.drops = D] = Step("check", <<"xasr", "geometry">>, D, {})
      /\ [b EXCEPT !.drops = D] = Step("create", <<"xasr", "pool">>, D, {})
      /\ [c EXCEPT !.drops = D] = Step("check", <<"xasr", "reset">>, D, {})
  BY <1>1, <1>2, <1>3, StepMarked DEF Create, Check
<1>. QED
  BY <1>1, <1>2, <1>3, <1>4, <1>6, <1>7

\* The session behind its options.
LEMMA SessionPlan ==
  ASSUME NEW D
  PROVE  Dropping(<<Check("engine", "session_options"), Create("engine", "session")>>, D)
           = <<Step("check", <<"engine", "session_options">>, D, {}),
               Step("create", <<"engine", "session">>, D, {})>>
<1>1. PICK a : a = Check("engine", "session_options")
  OBVIOUS
<1>2. PICK b : b = Create("engine", "session")
  OBVIOUS
<1>3. PICK g : g = Dropping(<<a, b>>, D)
  OBVIOUS
<1>4. DOMAIN <<a, b>> = 1 .. 2
  OBVIOUS
<1>5. /\ g = [i \in 1 .. 2 |-> g[i]]
      /\ g[1] = [a EXCEPT !.drops = D]
      /\ g[2] = [b EXCEPT !.drops = D]
  BY <1>3, <1>4 DEF Dropping
<1>6. /\ [a EXCEPT !.drops = D] = Step("check", <<"engine", "session_options">>, D, {})
      /\ [b EXCEPT !.drops = D] = Step("create", <<"engine", "session">>, D, {})
  BY <1>1, <1>2, StepMarked DEF Create, Check
<1>. QED
  BY <1>1, <1>2, <1>3, <1>5, <1>6

\* DiarCrispASR before it gives its reader back.
LEMMA CrispPlan ==
  ASSUME NEW D
  PROVE  Dropping(<<Create("crisp", "backend"), Create("crisp", "reader"), Check("crisp", "tensors"),
                    Create("crisp", "weights_ctx"), Create("crisp", "weights_buf")>>, D)
           = <<Step("create", <<"crisp", "backend">>, D, {}),
               Step("create", <<"crisp", "reader">>, D, {}),
               Step("check", <<"crisp", "tensors">>, D, {}),
               Step("create", <<"crisp", "weights_ctx">>, D, {}),
               Step("create", <<"crisp", "weights_buf">>, D, {})>>
<1>1. PICK a : a = Create("crisp", "backend")
  OBVIOUS
<1>2. PICK b : b = Create("crisp", "reader")
  OBVIOUS
<1>3. PICK c : c = Check("crisp", "tensors")
  OBVIOUS
<1>4. PICK d : d = Create("crisp", "weights_ctx")
  OBVIOUS
<1>5. PICK e : e = Create("crisp", "weights_buf")
  OBVIOUS
<1>6. PICK g : g = Dropping(<<a, b, c, d, e>>, D)
  OBVIOUS
<1>7. DOMAIN <<a, b, c, d, e>> = 1 .. 5
  OBVIOUS
<1>8. /\ g = [i \in 1 .. 5 |-> g[i]]
      /\ g[1] = [a EXCEPT !.drops = D]
      /\ g[2] = [b EXCEPT !.drops = D]
      /\ g[3] = [c EXCEPT !.drops = D]
      /\ g[4] = [d EXCEPT !.drops = D]
      /\ g[5] = [e EXCEPT !.drops = D]
  BY <1>6, <1>7 DEF Dropping
<1>9. /\ [a EXCEPT !.drops = D] = Step("create", <<"crisp", "backend">>, D, {})
      /\ [b EXCEPT !.drops = D] = Step("create", <<"crisp", "reader">>, D, {})
      /\ [c EXCEPT !.drops = D] = Step("check", <<"crisp", "tensors">>, D, {})
      /\ [d EXCEPT !.drops = D] = Step("create", <<"crisp", "weights_ctx">>, D, {})
      /\ [e EXCEPT !.drops = D] = Step("create", <<"crisp", "weights_buf">>, D, {})
  BY <1>1, <1>2, <1>3, <1>4, <1>5, StepMarked DEF Create, Check
<1>. QED
  BY <1>1, <1>2, <1>3, <1>4, <1>5, <1>6, <1>8, <1>9

\* A point from which init may go on: all that is alive lasts, and nothing dangles.
Good(s, a) == Fine(s, a) /\ a.alive \subseteq Lasting

\* Behind a good point, what is lost with a failure is what was added.
LEMMA FailsWithin ==
  ASSUME NEW s, NEW G, NEW K, NEW S, NEW R, Good(s, Point(G, K, S, R)), NEW drops, NEW leaks,
         NEW X, X \subseteq drops \cup leaks, G \cap (drops \cup leaks) = {},
         leaks \subseteq GraphParts("xasr") \cup GraphParts("diar")
  PROVE  FailsWell(s, Point(G \cup X, K, S, R), drops, leaks)
<1>1. (G \cup X) \ (drops \cup leaks) = G
  OBVIOUS
<1>. QED
  BY <1>1 DEF FailsWell, Point, Good, Fine

\* A part of something half made is added to it.
LEMMA AddingPart ==
  ASSUME NEW s, NEW G, NEW K, NEW S, NEW R, Good(s, Point(G, K, S, R)), NEW drops, NEW leaks,
         NEW X, X \subseteq drops \cup leaks, G \cap (drops \cup leaks) = {},
         leaks \subseteq GraphParts("xasr") \cup GraphParts("diar"),
         Fine(s, Point(G \cup X, K, S, R)),
         NEW o, NEW x, <<o, x>> \in Things, ReadBy(<<o, x>>) = {},
         \A y : Under(o, x, y) => <<o, y>> \in G \cup X,
         \A h \in K : Holder(h) # <<o, x>>
  PROVE  Goes(s, Point(G \cup X, K, S, R), Step("create", <<o, x>>, drops, leaks),
              Point(G \cup (X \cup {<<o, x>>}), K, S, R))
<1>1. FailsWell(s, Point(G \cup X, K, S, R), drops, leaks)
  BY FailsWithin
<1>2. Goes(s, Point(G \cup X, K, S, R), Step("create", <<o, x>>, drops, leaks),
           Point((G \cup X) \cup {<<o, x>>}, K, S, R \cup ReadBy(<<o, x>>)))
  BY <1>1, Creating DEF Point
<1>3. (G \cup X) \cup {<<o, x>>} = G \cup (X \cup {<<o, x>>}) /\ R \cup ReadBy(<<o, x>>) = R
  OBVIOUS
<1>. QED
  BY <1>2, <1>3

\* What a graph holds when it is compiled.
Compiled(o) == GraphParts(o) \ Parts(o, {"pool"})

\* A graph holds all that its parts use, or leaks.
LEMMA GraphLeads ==
  ASSUME NEW s, NEW o \in {"xasr", "diar"}, NEW G, NEW K, NEW S, NEW R, Good(s, Point(G, K, S, R)),
         G \cap GraphParts(o) = {}
  PROVE  Leads(s, MakeGraph(o), Point(G, K, S, R), Point(G \cup Compiled(o), K, S, R))
<1>. DEFINE At(X) == Point(G \cup X, K, S, R)
            New(x) == Step("create", <<o, x>>, {}, GraphParts(o))
<1>1. ASSUME NEW X, X \subseteq GraphParts(o), Fine(s, At(X)),
             NEW x, x \in {"env", "model", "opts", "cm", "buffers"},
             \A y : Under(o, x, y) => <<o, y>> \in X
      PROVE  Goes(s, At(X), New(x), At(X \cup {<<o, x>>}))
  <2>1. <<o, x>> \in Things /\ ReadBy(<<o, x>>) = {}
    BY <1>1, ReadByFacts DEF Things, GraphParts
  <2>2. \A h \in K : Holder(h) # <<o, x>>
    BY DEF Holder
  <2>3. GraphParts(o) \subseteq GraphParts("xasr") \cup GraphParts("diar")
    OBVIOUS
  <2>4. /\ X \subseteq {} \cup GraphParts(o) /\ G \cap ({} \cup GraphParts(o)) = {}
        /\ \A y : Under(o, x, y) => <<o, y>> \in G \cup X
    BY <1>1
  <2>. QED
    BY <1>1, <2>1, <2>2, <2>3, <2>4, AddingPart, ZenonT(30)
<1>2. ASSUME NEW X, NEW x, NEW Y, Goes(s, At(X), New(x), At(Y))
      PROVE  Fine(s, At(Y))
  BY <1>2 DEF Goes
<1>. DEFINE X1 == {<<o, "env">>}
            X2 == X1 \cup {<<o, "model">>}
            X3 == X2 \cup {<<o, "opts">>}
            X4 == X3 \cup {<<o, "cm">>}
            X5 == X4 \cup {<<o, "buffers">>}
<1>3. /\ X1 \subseteq GraphParts(o) /\ X2 \subseteq GraphParts(o) /\ X3 \subseteq GraphParts(o)
      /\ X4 \subseteq GraphParts(o)
  BY DEF GraphParts
<1>4. /\ \A y : ~ Under(o, "env", y) /\ ~ Under(o, "model", y) /\ ~ Under(o, "opts", y)
      /\ \A y : Under(o, "cm", y) => <<o, y>> \in X3
      /\ \A y : Under(o, "buffers", y) => <<o, y>> \in X4
  BY DEF Under
<1>5. /\ X1 = {} \cup {<<o, "env">>} /\ X2 = X1 \cup {<<o, "model">>} /\ X3 = X2 \cup {<<o, "opts">>}
      /\ X4 = X3 \cup {<<o, "cm">>} /\ X5 = X4 \cup {<<o, "buffers">>} /\ X5 = Compiled(o)
      /\ G \cup {} = G
  BY DEF Compiled, GraphParts, Parts
<1>. HIDE DEF X1, X2, X3, X4, X5
<1>6. Fine(s, At({}))
  BY <1>5 DEF Good
<1>7. FailsWell(s, At(X4), {}, GraphParts(o))
  <2>1. GraphParts(o) \subseteq GraphParts("xasr") \cup GraphParts("diar")
    OBVIOUS
  <2>2. {} \cup GraphParts(o) = GraphParts(o)
    OBVIOUS
  <2>. QED
    BY <1>3, <2>1, <2>2, FailsWithin
<1>. HIDE DEF At, New
<1>8. Goes(s, At({}), New("env"), At(X1))
  BY <1>1, <1>4, <1>5, <1>6
<1>9. Goes(s, At(X1), New("model"), At(X2))
  BY <1>1, <1>2, <1>3, <1>4, <1>5, <1>8
<1>10. Goes(s, At(X2), New("opts"), At(X3))
  BY <1>1, <1>2, <1>3, <1>4, <1>5, <1>9
<1>11. Goes(s, At(X3), New("cm"), At(X4))
  BY <1>1, <1>2, <1>3, <1>4, <1>5, <1>10
<1>12. Goes(s, At(X4), Step("check", <<o, "signature">>, {}, GraphParts(o)), At(X4))
  BY <1>2, <1>7, <1>11, Checking
<1>13. Goes(s, At(X4), New("buffers"), At(X5))
  BY <1>1, <1>2, <1>3, <1>4, <1>5, <1>11
<1>14. MakeGraph(o) = <<New("env"), New("model"), New("opts"), New("cm"),
                        Step("check", <<o, "signature">>, {}, GraphParts(o)), New("buffers")>>
  BY GraphPlan DEF New
<1>15. Leads(s, MakeGraph(o), At({}), At(X5))
  BY <1>8, <1>9, <1>10, <1>11, <1>12, <1>13, <1>14, LongLeads
<1>. QED
  BY <1>5, <1>15 DEF At

\* The recognizer's, with its two sets of states.
LEMMA XasrLeads ==
  ASSUME NEW s, NEW G, NEW K, NEW S, NEW R, Good(s, Point(G, K, S, R)), G \cap GraphParts("xasr") = {}
  PROVE  Leads(s, MakeXasrLiteRT, Point(G, K, S, R), Point(G \cup GraphParts("xasr"), K, S, R))
<1>. DEFINE a == Point(G \cup Compiled("xasr"), K, S, R)
            b == Point(G \cup GraphParts("xasr"), K, S, R)
<1>1. Fine(s, a)
  <2>1. Leads(s, MakeGraph("xasr"), Point(G, K, S, R), a)
    BY GraphLeads
  <2>. HIDE DEF a
  <2>. QED
    BY <2>1, LeadsFine DEF Good
<1>2. FailsWell(s, a, GraphParts("xasr"), {}) /\ FailsWell(s, b, GraphParts("xasr"), {})
  BY FailsWithin DEF Compiled
<1>3. Goes(s, a, Step("create", <<"xasr", "pool">>, GraphParts("xasr"), {}), b)
  <2>1. /\ <<"xasr", "pool">> \in Things /\ ReadBy(<<"xasr", "pool">>) = {}
        /\ \A h \in K : Holder(h) # <<"xasr", "pool">>
    BY ReadByFacts DEF Things, GraphParts, Holder
  <2>2. \A y : Under("xasr", "pool", y) => <<"xasr", y>> \in Compiled("xasr")
    BY DEF Under, Compiled, GraphParts, Parts
  <2>3. Goes(s, a, Step("create", <<"xasr", "pool">>, GraphParts("xasr"), {}),
             Point(G \cup (Compiled("xasr") \cup {<<"xasr", "pool">>}), K, S, R))
    <3>1. /\ Compiled("xasr") \subseteq GraphParts("xasr") \cup {}
          /\ G \cap (GraphParts("xasr") \cup {}) = {}
          /\ {} \subseteq GraphParts("xasr") \cup GraphParts("diar")
          /\ \A y : Under("xasr", "pool", y) => <<"xasr", y>> \in G \cup Compiled("xasr")
      BY <2>2 DEF Compiled
    <3>. QED
      BY <1>1, <2>1, <3>1, AddingPart, ZenonT(30)
  <2>4. Compiled("xasr") \cup {<<"xasr", "pool">>} = GraphParts("xasr")
    BY DEF Compiled, GraphParts, Parts
  <2>. QED
    BY <2>3, <2>4
<1>4. Goes(s, a, Step("check", <<"xasr", "geometry">>, GraphParts("xasr"), {}), a)
  BY <1>1, <1>2, Checking
<1>5. Goes(s, b, Step("check", <<"xasr", "reset">>, GraphParts("xasr"), {}), b)
  BY <1>2, <1>3, Checking DEF Goes
<1>6. Leads(s, Dropping(<<Check("xasr", "geometry"), Create("xasr", "pool"), Check("xasr", "reset")>>,
                        GraphParts("xasr")), a, b)
  <2>. HIDE DEF a, b
  <2>. QED
    BY <1>3, <1>4, <1>5, XasrPlan, LongLeads
<1>. QED
  BY <1>6, GraphLeads, LeadsOn DEF MakeXasrLiteRT

\* The diarizer's.
LEMMA DiarLeads ==
  ASSUME NEW s, NEW G, NEW K, NEW S, NEW R, Good(s, Point(G, K, S, R)), G \cap GraphParts("diar") = {}
  PROVE  Leads(s, MakeDiarLiteRT, Point(G, K, S, R), Point(G \cup Compiled("diar"), K, S, R))
<1>. DEFINE a == Point(G \cup Compiled("diar"), K, S, R)
<1>1. Leads(s, MakeGraph("diar"), Point(G, K, S, R), a)
  BY GraphLeads
<1>2. FailsWell(s, a, GraphParts("diar"), {})
  BY FailsWithin DEF Compiled
<1>3. Goes(s, a, Step("check", <<"diar", "geometry">>, GraphParts("diar"), {}), a)
  <2>. HIDE DEF a
  <2>. QED
    BY <1>1, <1>2, Checking, LeadsFine DEF Good
<1>4. Leads(s, Dropping(<<Check("diar", "geometry")>>, GraphParts("diar")), a, a)
  <2>. HIDE DEF a
  <2>1. PICK c : c = Check("diar", "geometry")
    OBVIOUS
  <2>2. PICK D : D = GraphParts("diar")
    OBVIOUS
  <2>3. [c EXCEPT !.drops = D] = Step("check", <<"diar", "geometry">>, D, {})
    BY <2>1, StepMarked DEF Check
  <2>4. DOMAIN <<c>> = 1 .. 1 /\ <<c>>[1] = c
    OBVIOUS
  <2>5. Dropping(<<c>>, D) = <<[c EXCEPT !.drops = D]>>
    BY <2>4 DEF Dropping
  <2>. QED
    BY <1>3, <2>1, <2>2, <2>3, <2>5, ShortLeads
<1>. QED
  BY <1>1, <1>4, LeadsOn DEF MakeDiarLiteRT

\* The weights of the first layer.
LEMMA PreLeads ==
  ASSUME NEW s, NEW G, NEW K, NEW S, NEW R, Good(s, Point(G, K, S, R))
  PROVE  Leads(s, MakeDiarPreEncode, Point(G, K, S, R), Point(G \cup Parts("pre", {"weights"}), K, S, R))
<1>1. G \cup {} = G /\ {} \cup {<<"pre", "weights">>} = Parts("pre", {"weights"})
  BY DEF Parts
<1>2. /\ <<"pre", "weights">> \in Things /\ ReadBy(<<"pre", "weights">>) = {}
      /\ \A h \in K : Holder(h) # <<"pre", "weights">>
  BY ReadByFacts DEF Things, Parts, Holder
<1>3. \A y : ~ Under("pre", "weights", y)
  BY DEF Under
<1>4. Fine(s, Point(G \cup {}, K, S, R))
  BY <1>1 DEF Good
<1>5. Goes(s, Point(G \cup {}, K, S, R), Step("create", <<"pre", "weights">>, {}, {}),
           Point(G \cup ({} \cup {<<"pre", "weights">>}), K, S, R))
  <2>1. /\ {} \subseteq {} \cup {} /\ G \cap ({} \cup {}) = {}
        /\ {} \subseteq GraphParts("xasr") \cup GraphParts("diar")
        /\ \A y : Under("pre", "weights", y) => <<"pre", y>> \in G \cup {}
    BY <1>3
  <2>. QED
    BY <1>2, <1>4, <2>1, AddingPart, ZenonT(30)
<1>. QED
  BY <1>1, <1>5, ShortLeads DEF MakeDiarPreEncode, Create

\* At a good point nothing is lost with a step that fails.
LEMMA GoodFails ==
  ASSUME NEW s, NEW a, Good(s, a)
  PROVE  FailsWell(s, a, {}, {})
<1>1. a.alive \ ({} \cup {}) = a.alive /\ a.alive \cap {} = {}
  OBVIOUS
<1>. QED
  BY <1>1 DEF FailsWell, Good, Fine

\* From a good point to a good point.
LEMMA GoodSteps ==
  ASSUME NEW s, NEW G, NEW K, NEW S, NEW R, Good(s, Point(G, K, S, R))
  PROVE  /\ \A o, x : Goes(s, Point(G, K, S, R), Check(o, x), Point(G, K, S, R))
         /\ \A x : Goes(s, Point(G, K, S, R), SetEnv(x), Point(G, K, S \cup {x}, R))
         /\ \A h \in {"chunk", "encode", "pre"} :
              TargetOf(s, h) \subseteq G => Goes(s, Point(G, K, S, R), Hook(h), Point(G, K \cup {h}, S, R))
<1>. DEFINE a == Point(G, K, S, R)
<1>1. /\ Fine(s, a) /\ FailsWell(s, a, {}, {}) /\ G \subseteq Lasting
      /\ a.alive = G /\ a.hooks = K /\ a.set = S /\ a.read = R
  BY GoodFails DEF Good, Point
<1>. HIDE DEF a
<1>2. \A o, x : Goes(s, a, Check(o, x), a)
  BY <1>1, Checking DEF Check
<1>3. \A x : Goes(s, a, SetEnv(x), Point(G, K, S \cup {x}, R))
  BY <1>1, Setting
<1>4. \A h \in {"chunk", "encode", "pre"} :
        TargetOf(s, h) \subseteq G => Goes(s, a, Hook(h), Point(G, K \cup {h}, S, R))
  BY <1>1, Hooking
<1>. QED
  BY <1>2, <1>3, <1>4 DEF a

\* What is created for good leads to a good point.
LEMMA GoodCreates ==
  ASSUME NEW s, NEW G, NEW K, NEW S, NEW R, Good(s, Point(G, K, S, R)), NEW o, NEW x, <<o, x>> \in Lasting,
         \A y : Under(o, x, y) => <<o, y>> \in G, \A h \in K : Holder(h) # <<o, x>>,
         ReadBy(<<o, x>>) \subseteq S
  PROVE  LET b == Point(G \cup {<<o, x>>}, K, S, R \cup ReadBy(<<o, x>>))
         IN  Goes(s, Point(G, K, S, R), Create(o, x), b) /\ Good(s, b)
<1>. DEFINE a == Point(G, K, S, R)
            b == Point(G \cup {<<o, x>>}, K, S, R \cup ReadBy(<<o, x>>))
<1>1. /\ Fine(s, a) /\ FailsWell(s, a, {}, {}) /\ G \subseteq Lasting
      /\ a.alive = G /\ a.hooks = K /\ a.set = S /\ a.read = R
  BY GoodFails DEF Good, Point
<1>2. <<o, x>> \in Things
  BY DEF Lasting
<1>3. Goes(s, a, Create(o, x), b)
  <2>. HIDE DEF a
  <2>. QED
    BY <1>1, <1>2, Creating DEF Create
<1>4. Good(s, b)
  <2>1. Fine(s, b) /\ b.alive = G \cup {<<o, x>>}
    BY <1>3 DEF Goes, Point
  <2>. QED
    BY <1>1, <2>1 DEF Good
<1>. QED
  BY <1>3, <1>4

\* What leads to a place where all lasts leads to a good one.
LEMMA GoodAgain ==
  ASSUME NEW s, NEW p, NEW a, NEW b, Leads(s, p, a, b), Good(s, a), b.alive \subseteq Lasting
  PROVE  Good(s, b)
BY LeadsFine DEF Good

\* What the ggml encoder holds when it is loaded.
Loaded == Parts("crisp", {"backend", "weights_ctx", "weights_buf"})

\* A half-made DiarCrispASR is given back whole, the reader when it is done.
LEMMA CrispLeads ==
  ASSUME NEW s, NEW G, NEW K, NEW S, NEW R, Good(s, Point(G, K, S, R)), G \cap CrispParts = {}, K \subseteq {"chunk"}
  PROVE  Leads(s, MakeDiarCrispASR, Point(G, K, S, R), Point(G \cup Loaded, K, S, R))
<1>. DEFINE At(X) == Point(G \cup X, K, S, R)
            New(x) == Step("create", <<"crisp", x>>, CrispParts, {})
<1>1. ASSUME NEW X, X \subseteq CrispParts, Fine(s, At(X)),
             NEW x, x \in {"backend", "reader", "weights_ctx", "weights_buf"},
             \A y : Under("crisp", x, y) => <<"crisp", y>> \in X
      PROVE  Goes(s, At(X), New(x), At(X \cup {<<"crisp", x>>}))
  <2>1. <<"crisp", x>> \in Things /\ ReadBy(<<"crisp", x>>) = {}
    BY <1>1, ReadByFacts DEF Things, CrispParts
  <2>2. \A h \in K : Holder(h) # <<"crisp", x>>
    BY DEF Holder
  <2>3. /\ X \subseteq CrispParts \cup {} /\ G \cap (CrispParts \cup {}) = {}
        /\ {} \subseteq GraphParts("xasr") \cup GraphParts("diar")
        /\ \A y : Under("crisp", x, y) => <<"crisp", y>> \in G \cup X
    BY <1>1
  <2>. QED
    BY <1>1, <2>1, <2>2, <2>3, AddingPart, ZenonT(30)
<1>2. ASSUME NEW X, NEW x, NEW Y, Goes(s, At(X), New(x), At(Y))
      PROVE  Fine(s, At(Y))
  BY <1>2 DEF Goes
<1>. DEFINE X1 == {<<"crisp", "backend">>}
            X2 == X1 \cup {<<"crisp", "reader">>}
            X3 == X2 \cup {<<"crisp", "weights_ctx">>}
            X4 == X3 \cup {<<"crisp", "weights_buf">>}
<1>3. /\ X1 \subseteq CrispParts /\ X2 \subseteq CrispParts /\ X3 \subseteq CrispParts /\ X4 \subseteq CrispParts
  BY DEF CrispParts
<1>4. /\ \A y : ~ Under("crisp", "backend", y) /\ ~ Under("crisp", "reader", y) /\ ~ Under("crisp", "weights_ctx", y)
      /\ \A y : Under("crisp", "weights_buf", y) => <<"crisp", y>> \in X3
  BY DEF Under
<1>5. /\ X1 = {} \cup {<<"crisp", "backend">>} /\ X2 = X1 \cup {<<"crisp", "reader">>}
      /\ X3 = X2 \cup {<<"crisp", "weights_ctx">>} /\ X4 = X3 \cup {<<"crisp", "weights_buf">>}
      /\ X4 \ {<<"crisp", "reader">>} = Loaded
      /\ G \cup {} = G
  BY DEF Loaded, Parts
<1>6. <<"crisp", "reader">> \notin G
  BY DEF Good, Point, Lasting
<1>. HIDE DEF X1, X2, X3, X4
<1>7. Fine(s, At({}))
  BY <1>5 DEF Good
<1>8. FailsWell(s, At(X2), CrispParts, {})
  BY <1>3, FailsWithin
<1>9. ASSUME Fine(s, At(X4))
      PROVE  Goes(s, At(X4), Free("crisp", "reader"), Point(G \cup Loaded, K, S, R))
  <2>1. Whole(s, (G \cup X4) \ {<<"crisp", "reader">>}, K)
    <3>1. \A o, x, y : Under(o, x, y) => <<o, y>> # <<"crisp", "reader">>
      BY DEF Under
    <3>2. \A h \in K : TargetOf(s, h) \cap {<<"crisp", "reader">>} = {}
      BY DEF TargetOf, GraphParts
    <3>. QED
      BY <1>9, <3>1, <3>2, Losing DEF Fine, Point
  <2>2. (G \cup X4) \ {<<"crisp", "reader">>} = G \cup Loaded
    BY <1>5, <1>6
  <2>. QED
    BY <1>9, <2>1, <2>2, Freeing DEF Point
<1>. HIDE DEF At, New
<1>10. Goes(s, At({}), New("backend"), At(X1))
  BY <1>1, <1>4, <1>5, <1>7
<1>11. Goes(s, At(X1), New("reader"), At(X2))
  BY <1>1, <1>2, <1>3, <1>4, <1>5, <1>10
<1>12. Goes(s, At(X2), Step("check", <<"crisp", "tensors">>, CrispParts, {}), At(X2))
  BY <1>2, <1>8, <1>11, Checking
<1>13. Goes(s, At(X2), New("weights_ctx"), At(X3))
  BY <1>1, <1>2, <1>3, <1>4, <1>5, <1>11
<1>14. Goes(s, At(X3), New("weights_buf"), At(X4))
  BY <1>1, <1>2, <1>3, <1>4, <1>5, <1>13
<1>15. Goes(s, At(X4), Free("crisp", "reader"), Point(G \cup Loaded, K, S, R))
  BY <1>2, <1>9, <1>14
<1>16. Leads(s, Dropping(<<Create("crisp", "backend"), Create("crisp", "reader"), Check("crisp", "tensors"),
                           Create("crisp", "weights_ctx"), Create("crisp", "weights_buf")>>, CrispParts),
             At({}), At(X4))
  BY <1>10, <1>11, <1>12, <1>13, <1>14, CrispPlan, LongLeads DEF New
<1>17. Leads(s, <<Free("crisp", "reader")>>, At(X4), Point(G \cup Loaded, K, S, R))
  BY <1>15, ShortLeads
<1>18. At({}) = Point(G, K, S, R)
  BY <1>5 DEF At
<1>. QED
  BY <1>16, <1>17, <1>18, LeadsOn DEF MakeDiarCrispASR

\* The session reads whether it needs an encoder; its options are given back.
LEMMA SessionLeads ==
  ASSUME NEW s, NEW G, NEW K, NEW S, NEW R, Good(s, Point(G, K, S, R)), K \subseteq {"chunk"},
         <<"engine", "model">> \in G, "external" \in S
  PROVE  Leads(s, MakeSession, Point(G, K, S, R), Point(G \cup {<<"engine", "session">>}, K, S, R \cup {"external"}))
<1>. DEFINE opts == <<"engine", "sopts">>
            session == <<"engine", "session">>
            a == Point(G, K, S, R)
            b == Point(G \cup {opts}, K, S, R)
            c == Point((G \cup {opts}) \cup {session}, K, S, R \cup {"external"})
            d == Point(G \cup {session}, K, S, R \cup {"external"})
<1>1. opts \in Things /\ session \in Things /\ opts \notin G /\ opts # session /\ G \subseteq Lasting
  <2>1. opts \in Things /\ session \in Things
    BY DEF Things, Parts
  <2>2. opts # session
    OBVIOUS
  <2>3. G \subseteq Lasting /\ opts \notin G
    BY DEF Good, Point, Lasting
  <2>. QED
    BY <2>1, <2>2, <2>3
<1>2. /\ ReadBy(opts) = {} /\ ReadBy(session) = {"external"}
      /\ \A h \in K : Holder(h) # opts /\ Holder(h) # session
      /\ \A y : ~ Under("engine", "sopts", y)
      /\ \A y : Under("engine", "session", y) => y = "model"
  BY ReadByFacts DEF Holder, Under
<1>3. Goes(s, a, Create("engine", "sopts"), b)
  <2>1. a.alive = G /\ a.hooks = K /\ a.set = S /\ a.read = R /\ Fine(s, a) /\ FailsWell(s, a, {}, {})
    BY GoodFails DEF Point, Good
  <2>2. R \cup ReadBy(opts) = R /\ ReadBy(opts) \subseteq S
    BY <1>2
  <2>. HIDE DEF a
  <2>3. Goes(s, a, Step("create", <<"engine", "sopts">>, {}, {}), Point(G \cup {opts}, K, S, R \cup ReadBy(opts)))
    BY <1>1, <1>2, <2>1, <2>2, Creating
  <2>. QED
    BY <2>2, <2>3 DEF Create
<1>4. Fine(s, b) /\ FailsWell(s, b, {opts}, {})
  <2>1. /\ G \cap ({opts} \cup {}) = {} /\ {opts} \subseteq {opts} \cup {}
        /\ {} \subseteq GraphParts("xasr") \cup GraphParts("diar")
    BY <1>1
  <2>. QED
    BY <1>3, <2>1, FailsWithin DEF Goes
<1>5. Goes(s, b, Step("check", <<"engine", "session_options">>, {opts}, {}), b)
  <2>. HIDE DEF b
  <2>. QED
    BY <1>4, Checking
<1>6. Goes(s, b, Step("create", <<"engine", "session">>, {opts}, {}), c)
  <2>1. b.alive = G \cup {opts} /\ b.hooks = K /\ b.set = S /\ b.read = R
    BY DEF Point
  <2>2. ReadBy(session) \subseteq S
    BY <1>2
  <2>. HIDE DEF b
  <2>3. Goes(s, b, Step("create", <<"engine", "session">>, {opts}, {}),
             Point((G \cup {opts}) \cup {session}, K, S, R \cup ReadBy(session)))
    BY <1>1, <1>2, <1>4, <2>1, <2>2, Creating
  <2>. QED
    BY <1>2, <2>3
<1>7. Goes(s, c, Free("engine", "sopts"), d)
  <2>1. /\ Fine(s, c) /\ c.alive = (G \cup {opts}) \cup {session}
        /\ c.hooks = K /\ c.set = S /\ c.read = R \cup {"external"}
    BY <1>6 DEF Goes, Point
  <2>2. Whole(s, c.alive \ {opts}, K)
    <3>1. \A o, x, y : Under(o, x, y) => <<o, y>> # opts
      BY DEF Under
    <3>2. \A h \in K : TargetOf(s, h) \cap {opts} = {}
      BY DEF TargetOf, GraphParts
    <3>. QED
      BY <2>1, <3>1, <3>2, Losing, ZenonT(30) DEF Fine
  <2>3. c.alive \ {opts} = G \cup {session}
    BY <1>1, <2>1
  <2>. HIDE DEF c
  <2>. QED
    BY <2>1, <2>2, <2>3, Freeing
<1>. HIDE DEF a, b, c, d
<1>8. Leads(s, <<Create("engine", "sopts")>>, a, b)
  BY <1>3, ShortLeads
<1>9. Leads(s, Dropping(<<Check("engine", "session_options"), Create("engine", "session")>>, {opts}), b, c)
  BY <1>5, <1>6, SessionPlan, ShortLeads
<1>10. Leads(s, <<Free("engine", "sopts")>>, c, d)
  BY <1>7, ShortLeads
<1>11. Leads(s, MakeSession, a, d)
  BY <1>8, <1>9, <1>10, LeadsOn DEF MakeSession
<1>. QED
  BY <1>11 DEF a, d

\* The request is the last that an engine gets.
LEMMA RequestLeads ==
  ASSUME NEW s, NEW G, NEW K, NEW S, NEW R, Good(s, Point(G, K, S, R)), <<"engine", "request">> \notin G
  PROVE  Leads(s, MakeRequest, Point(G, K, S, R), Point(G \cup {<<"engine", "request">>}, K, S, R))
<1>. DEFINE request == <<"engine", "request">>
            a == Point(G, K, S, R)
            b == Point(G \cup {request}, K, S, R)
<1>1. Goes(s, a, Create("engine", "request"), b) /\ Good(s, b)
  <2>1. request \in Lasting /\ ReadBy(request) = {} /\ \A h \in K : Holder(h) # request
    <3>1. request \in Things
      BY DEF Things, Parts
    <3>2. request # <<"crisp", "reader">> /\ request # <<"engine", "sopts">>
      OBVIOUS
    <3>. QED
      BY <3>1, <3>2, ReadByFacts DEF Lasting, Holder
  <2>2. \A y : ~ Under("engine", "request", y)
    BY DEF Under
  <2>3. R \cup {} = R
    OBVIOUS
  <2>. QED
    BY <2>1, <2>2, <2>3, GoodCreates
<1>2. FailsWell(s, b, {request}, {})
  BY FailsWithin
<1>. HIDE DEF b
<1>3. Goes(s, b, Step("check", <<"engine", "request_options">>, {request}, {}), b)
  BY <1>1, <1>2, Checking DEF Good
<1>4. Leads(s, Dropping(<<Check("engine", "request_options")>>, {request}), b, b)
  <2>1. PICK c : c = Check("engine", "request_options")
    OBVIOUS
  <2>2. [c EXCEPT !.drops = {request}] = Step("check", <<"engine", "request_options">>, {request}, {})
    BY <2>1, StepMarked, ZenonT(30) DEF Check
  <2>3. DOMAIN <<c>> = 1 .. 1 /\ <<c>>[1] = c
    OBVIOUS
  <2>4. Dropping(<<c>>, {request}) = <<[c EXCEPT !.drops = {request}]>>
    BY <2>3, SMTT(30) DEF Dropping
  <2>. QED
    BY <1>3, <2>1, <2>2, <2>4, ShortLeads
<1>5. Goes(s, b, Check("engine", "stream_start"), b)
  BY <1>1, GoodSteps DEF b
<1>6. Leads(s, <<Create("engine", "request")>>, a, b) /\ Leads(s, <<Check("engine", "stream_start")>>, b, b)
  BY <1>1, <1>5, ShortLeads
<1>7. Leads(s, MakeRequest, a, b)
  BY <1>4, <1>6, LeadsOn DEF MakeRequest
<1>. QED
  BY <1>7 DEF b

\* What the recognizer's half has when it is complete.
AsrAlive(s) ==
  IF ~ s.asr THEN {}
  ELSE Parts("engine", {"asr_ctx", "asr_stream"}) \cup IF s.backend = "ggml" THEN {} ELSE GraphParts("xasr")
AsrHooks(s) == IF s.asr /\ s.backend # "ggml" THEN {"chunk"} ELSE {}
AsrReads(s) == IF s.asr THEN {"prefix"} ELSE {}

\* The start of init.
Start == Point({}, {}, {}, {})

\* There is nothing yet.
LEMMA StartIsGood == \A s : Good(s, Start)
<1>1. \A s : Whole(s, {}, {})
  BY WholeMeans
<1>. QED
  BY <1>1 DEF Good, Fine, Start, Point

\* The recognizer's half.
LEMMA AsrLeads ==
  ASSUME NEW s
  PROVE  Leads(s, AsrPlan(s), Start, Point(AsrAlive(s), AsrHooks(s), AsrReads(s), AsrReads(s)))
<1>. DEFINE ctx == <<"engine", "asr_ctx">>
            a == Start
            b == Point({}, {}, {"prefix"}, {})
            c == Point({ctx}, {}, {"prefix"}, {"prefix"})
<1>1. Good(s, a) /\ a = Point({}, {}, {}, {})
  BY StartIsGood DEF Start
<1>2. Goes(s, a, Check("engine", "xasr_model"), a)
  BY <1>1, GoodSteps
<1>3. Goes(s, a, SetEnv("prefix"), b) /\ Good(s, b)
  <2>1. {} \cup {"prefix"} = {"prefix"}
    OBVIOUS
  <2>2. Goes(s, Point({}, {}, {}, {}), SetEnv("prefix"), Point({}, {}, {} \cup {"prefix"}, {}))
    BY <1>1, GoodSteps
  <2>3. Goes(s, a, SetEnv("prefix"), b)
    BY <1>1, <2>1, <2>2
  <2>. QED
    BY <2>3 DEF Goes, Good, Point
<1>4. Goes(s, b, Create("engine", "asr_ctx"), c) /\ Good(s, c)
  <2>1. ctx \in Lasting
    <3>1. ctx \in Things
      BY DEF Things, Parts
    <3>2. ctx # <<"crisp", "reader">> /\ ctx # <<"engine", "sopts">>
      OBVIOUS
    <3>. QED
      BY <3>1, <3>2 DEF Lasting
  <2>2. \A y : ~ Under("engine", "asr_ctx", y)
    BY DEF Under
  <2>3. ReadBy(ctx) = {"prefix"} /\ {} \cup {"prefix"} = {"prefix"} /\ {} \cup {ctx} = {ctx}
    BY ReadByFacts
  <2>. QED
    BY <1>3, <2>1, <2>2, <2>3, GoodCreates
<1>5. Goes(s, c, Check("engine", "backend"), c) /\ Goes(s, c, Check("engine", "xasr_tflite"), c)
  BY <1>4, GoodSteps
<1>6. Leads(s, <<Check("engine", "xasr_model"), SetEnv("prefix"), Create("engine", "asr_ctx"),
                 Check("engine", "backend")>>, a, c)
  <2>. HIDE DEF a, b, c
  <2>. QED
    BY <1>2, <1>3, <1>4, <1>5, LongLeads
<1>. DEFINE G == {ctx} \cup GraphParts("xasr")
            d == Point(G, {}, {"prefix"}, {"prefix"})
            e == Point(G, {"chunk"}, {"prefix"}, {"prefix"})
<1>7. Leads(s, <<Check("engine", "xasr_tflite")>> \o MakeXasrLiteRT \o <<Hook("chunk")>>, c, e) /\ Good(s, e)
  <2>1. Leads(s, MakeXasrLiteRT, c, d) /\ Good(s, d)
    <3>1. {ctx} \cap GraphParts("xasr") = {} /\ GraphParts("xasr") \subseteq Lasting
      BY DEF GraphParts, Lasting, Things
    <3>2. Leads(s, MakeXasrLiteRT, c, d)
      BY <1>4, <3>1, XasrLeads
    <3>3. d.alive \subseteq Lasting
      BY <1>4, <3>1 DEF Good, Point
    <3>. HIDE DEF c, d
    <3>. QED
      BY <1>4, <3>2, <3>3, GoodAgain
  <2>2. Goes(s, d, Hook("chunk"), e) /\ Good(s, e)
    <3>1. TargetOf(s, "chunk") \subseteq G /\ {} \cup {"chunk"} = {"chunk"}
      BY DEF TargetOf
    <3>2. Goes(s, d, Hook("chunk"), e)
      <4>. HIDE DEF G
      <4>. QED
        BY <2>1, <3>1, GoodSteps
    <3>3. e.alive = d.alive
      BY DEF Point
    <3>. HIDE DEF d, e
    <3>. QED
      BY <2>1, <3>2, <3>3 DEF Goes, Good
  <2>. HIDE DEF c, d, e
  <2>3. Leads(s, <<Check("engine", "xasr_tflite")>>, c, c) /\ Leads(s, <<Hook("chunk")>>, d, e)
    BY <1>5, <2>2, ShortLeads
  <2>. QED
    BY <2>1, <2>2, <2>3, LeadsOn
<1>8. ASSUME NEW H, NEW K, Good(s, Point(H, K, {"prefix"}, {"prefix"})), ctx \in H
      PROVE  Leads(s, <<Create("engine", "asr_stream")>>, Point(H, K, {"prefix"}, {"prefix"}),
                   Point(H \cup {<<"engine", "asr_stream">>}, K, {"prefix"}, {"prefix"}))
  <2>1. <<"engine", "asr_stream">> \in Lasting
    <3>1. <<"engine", "asr_stream">> \in Things
      BY DEF Things, Parts
    <3>2. <<"engine", "asr_stream">> # <<"crisp", "reader">> /\ <<"engine", "asr_stream">> # <<"engine", "sopts">>
      OBVIOUS
    <3>. QED
      BY <3>1, <3>2 DEF Lasting
  <2>2. /\ \A y : Under("engine", "asr_stream", y) => y = "asr_ctx"
        /\ \A h \in K : Holder(h) # <<"engine", "asr_stream">>
    BY DEF Under, Holder
  <2>3. ReadBy(<<"engine", "asr_stream">>) = {} /\ {"prefix"} \cup {} = {"prefix"}
    BY ReadByFacts
  <2>4. Goes(s, Point(H, K, {"prefix"}, {"prefix"}), Create("engine", "asr_stream"),
             Point(H \cup {<<"engine", "asr_stream">>}, K, {"prefix"}, {"prefix"}))
    BY <1>8, <2>1, <2>2, <2>3, GoodCreates
  <2>. QED
    BY <2>4, ShortLeads
<1>. DEFINE start == <<Check("engine", "xasr_model"), SetEnv("prefix"), Create("engine", "asr_ctx"),
                       Check("engine", "backend")>>
            rt == <<Check("engine", "xasr_tflite")>> \o MakeXasrLiteRT \o <<Hook("chunk")>>
            last == <<Create("engine", "asr_stream")>>
<1>9. CASE ~ s.asr
  <2>1. AsrPlan(s) = <<>> /\ AsrAlive(s) = {} /\ AsrHooks(s) = {} /\ AsrReads(s) = {}
    BY <1>9 DEF AsrPlan, AsrAlive, AsrHooks, AsrReads
  <2>. QED
    BY <2>1, LeadsNowhere DEF Start
<1>10. CASE s.asr /\ s.backend = "ggml"
  <2>1. AsrPlan(s) = start \o <<>> \o last
    BY <1>10 DEF AsrPlan
  <2>2. AsrAlive(s) = {ctx} \cup {<<"engine", "asr_stream">>} /\ AsrHooks(s) = {} /\ AsrReads(s) = {"prefix"}
    BY <1>10 DEF AsrAlive, AsrHooks, AsrReads, Parts
  <2>3. Leads(s, last, c, Point(AsrAlive(s), AsrHooks(s), AsrReads(s), AsrReads(s)))
    BY <1>4, <1>8, <2>2
  <2>4. Leads(s, start, a, c) /\ Leads(s, <<>>, c, c)
    BY <1>6, LeadsNowhere
  <2>. HIDE DEF start, last, a, c
  <2>5. Leads(s, start \o <<>>, a, c)
    BY <2>4, LeadsOn
  <2>6. Leads(s, start \o <<>> \o last, a, Point(AsrAlive(s), AsrHooks(s), AsrReads(s), AsrReads(s)))
    BY <2>3, <2>5, LeadsOn
  <2>. QED
    BY <2>1, <2>6 DEF a
<1>11. CASE s.asr /\ s.backend # "ggml"
  <2>1. AsrPlan(s) = start \o rt \o last
    BY <1>11 DEF AsrPlan
  <2>2. AsrAlive(s) = G \cup {<<"engine", "asr_stream">>} /\ AsrHooks(s) = {"chunk"} /\ AsrReads(s) = {"prefix"}
    BY <1>11 DEF AsrAlive, AsrHooks, AsrReads, Parts
  <2>3. Leads(s, last, e, Point(AsrAlive(s), AsrHooks(s), AsrReads(s), AsrReads(s)))
    <3>1. ctx \in G
      OBVIOUS
    <3>. HIDE DEF G
    <3>. QED
      BY <1>7, <1>8, <2>2, <3>1
  <2>4. Leads(s, start, a, c) /\ Leads(s, rt, c, e)
    BY <1>6, <1>7
  <2>. HIDE DEF start, rt, last, a, c, e
  <2>5. Leads(s, start \o rt, a, e)
    BY <2>4, LeadsOn
  <2>6. Leads(s, start \o rt \o last, a, Point(AsrAlive(s), AsrHooks(s), AsrReads(s), AsrReads(s)))
    BY <2>3, <2>5, LeadsOn
  <2>. QED
    BY <2>1, <2>6 DEF a
<1>. QED
  BY <1>9, <1>10, <1>11

\* What the encoder that the session calls has, and what is hooked in.
EncoderAlive(s) ==
  IF ~ s.native THEN {}
  ELSE IF s.backend = "ggml" THEN Loaded
  ELSE Compiled("diar") \cup IF s.pre THEN Parts("pre", {"weights"}) ELSE {}
EncoderHooks(s) ==
  IF ~ s.native THEN {} ELSE {"encode"} \cup IF s.pre /\ s.backend # "ggml" THEN {"pre"} ELSE {}

\* An encoder is hooked in when it is complete.
LEMMA EncoderLeads ==
  ASSUME NEW s, NEW G, NEW K, NEW S, NEW R, Good(s, Point(G, K, S, R)), K \subseteq {"chunk"},
         G \cap CrispParts = {}, G \cap GraphParts("diar") = {}
  PROVE  LET b == Point(G \cup EncoderAlive(s), K \cup EncoderHooks(s), S, R)
         IN  Leads(s, MakeEncoder(s), Point(G, K, S, R), b) /\ Good(s, b)
<1>. DEFINE a == Point(G, K, S, R)
            pre == IF s.pre THEN MakeDiarPreEncode ELSE <<>>
            make == IF s.backend = "ggml" THEN MakeDiarCrispASR ELSE MakeDiarLiteRT \o pre
            hook == IF s.pre /\ s.backend # "ggml" THEN <<Hook("pre")>> ELSE <<>>
            c == Point(G \cup EncoderAlive(s), K, S, R)
            d == Point(G \cup EncoderAlive(s), K \cup {"encode"}, S, R)
            b == Point(G \cup EncoderAlive(s), K \cup EncoderHooks(s), S, R)
<1>1. CASE ~ s.native
  <2>1. MakeEncoder(s) = <<>> /\ G \cup EncoderAlive(s) = G /\ K \cup EncoderHooks(s) = K
    BY <1>1 DEF MakeEncoder, EncoderAlive, EncoderHooks
  <2>. QED
    BY <2>1, LeadsNowhere
<1>2. CASE s.native
  <2>1. Loaded \subseteq Lasting /\ Compiled("diar") \subseteq Lasting /\ Parts("pre", {"weights"}) \subseteq Lasting
    BY DEF Loaded, Compiled, GraphParts, Parts, Lasting, Things, CrispParts
  <2>2. Leads(s, make, a, c)
    <3>1. CASE s.backend = "ggml"
      <4>1. EncoderAlive(s) = Loaded
        BY <1>2, <3>1 DEF EncoderAlive
      <4>. QED
        BY <3>1, <4>1, CrispLeads
    <3>2. CASE s.backend # "ggml"
      <4>. DEFINE e == Point(G \cup Compiled("diar"), K, S, R)
      <4>1. Leads(s, MakeDiarLiteRT, a, e)
        BY DiarLeads
      <4>2. Good(s, e)
        <5>1. e.alive \subseteq Lasting
          BY <2>1 DEF Good, Point
        <5>. HIDE DEF a, e
        <5>. QED
          BY <4>1, <5>1, GoodAgain DEF a
      <4>3. Leads(s, pre, e, c)
        <5>1. CASE s.pre
          <6>1. G \cup EncoderAlive(s) = (G \cup Compiled("diar")) \cup Parts("pre", {"weights"})
            BY <1>2, <3>2, <5>1 DEF EncoderAlive
          <6>2. Leads(s, MakeDiarPreEncode, e,
                      Point((G \cup Compiled("diar")) \cup Parts("pre", {"weights"}), K, S, R))
            BY <4>2, PreLeads
          <6>. QED
            BY <5>1, <6>1, <6>2
        <5>2. CASE ~ s.pre
          <6>1. EncoderAlive(s) = Compiled("diar")
            BY <1>2, <3>2, <5>2 DEF EncoderAlive
          <6>. QED
            BY <5>2, <6>1, LeadsNowhere
        <5>. QED
          BY <5>1, <5>2
      <4>. HIDE DEF a, c, e, pre
      <4>4. Leads(s, MakeDiarLiteRT \o pre, a, c)
        BY <4>1, <4>3, LeadsOn
      <4>. QED
        BY <3>2, <4>4
    <3>. QED
      BY <3>1, <3>2
  <2>3. Good(s, c)
    <3>1. c.alive \subseteq Lasting
      BY <2>1 DEF Good, Point, EncoderAlive
    <3>. HIDE DEF c, make
    <3>. QED
      BY <2>2, <3>1, GoodAgain
  <2>4. TargetOf(s, "encode") \subseteq EncoderAlive(s)
    BY <1>2 DEF TargetOf, EncoderAlive, Loaded, Compiled, CrispParts, Parts
  <2>5. Leads(s, <<Hook("encode")>>, c, d) /\ Good(s, d)
    <3>1. Goes(s, c, Hook("encode"), d)
      <4>1. TargetOf(s, "encode") \subseteq G \cup EncoderAlive(s)
        BY <2>4
      <4>. QED
        BY <2>3, <4>1, GoodSteps
    <3>2. d.alive = c.alive
      BY DEF Point
    <3>. HIDE DEF c, d
    <3>. QED
      BY <2>3, <3>1, <3>2, ShortLeads DEF Goes, Good
  <2>6. Leads(s, hook, d, b) /\ Good(s, b)
    <3>1. CASE s.pre /\ s.backend # "ggml"
      <4>1. TargetOf(s, "pre") \subseteq G \cup EncoderAlive(s)
        BY <1>2, <3>1 DEF TargetOf, EncoderAlive
      <4>2. (K \cup {"encode"}) \cup {"pre"} = K \cup EncoderHooks(s)
        BY <1>2, <3>1 DEF EncoderHooks
      <4>3. Goes(s, d, Hook("pre"), Point(G \cup EncoderAlive(s), (K \cup {"encode"}) \cup {"pre"}, S, R))
        BY <2>5, <4>1, GoodSteps
      <4>4. Goes(s, d, Hook("pre"), b)
        BY <4>2, <4>3
      <4>5. b.alive = d.alive
        BY DEF Point
      <4>. HIDE DEF b, d
      <4>. QED
        BY <2>5, <3>1, <4>4, <4>5, ShortLeads DEF Goes, Good
    <3>2. CASE ~ (s.pre /\ s.backend # "ggml")
      <4>1. K \cup EncoderHooks(s) = K \cup {"encode"}
        BY <1>2, <3>2 DEF EncoderHooks
      <4>. QED
        BY <2>5, <3>2, <4>1, LeadsNowhere
    <3>. QED
      BY <3>1, <3>2
  <2>7. MakeEncoder(s) = make \o <<Hook("encode")>> \o hook
    BY <1>2 DEF MakeEncoder
  <2>. HIDE DEF a, b, c, d, make, hook
  <2>8. Leads(s, make \o <<Hook("encode")>>, a, d)
    BY <2>2, <2>5, LeadsOn
  <2>9. Leads(s, MakeEncoder(s), a, b)
    BY <2>6, <2>7, <2>8, LeadsOn
  <2>. QED
    BY <2>6, <2>9 DEF a, b
<1>. QED
  BY <1>1, <1>2

\* What the diarizer's half has when it is complete.
DiarAlive(s) ==
  IF ~ s.diar THEN {}
  ELSE Parts("engine", {"registry", "model", "session", "request"}) \cup EncoderAlive(s)
DiarHooks(s) == IF s.diar THEN EncoderHooks(s) ELSE {}
DiarReads(s) == IF s.diar THEN {"external"} ELSE {}

\* The diarizer's half, behind the recognizer's.
LEMMA DiarHalfLeads ==
  ASSUME NEW s, NEW G, NEW K, NEW S, NEW R, Good(s, Point(G, K, S, R)), K \subseteq {"chunk"},
         G \subseteq Parts("engine", {"asr_ctx", "asr_stream"}) \cup GraphParts("xasr")
  PROVE  LET b == Point(G \cup DiarAlive(s), K \cup DiarHooks(s), S \cup DiarReads(s), R \cup DiarReads(s))
         IN  Leads(s, DiarPlan(s), Point(G, K, S, R), b) /\ Good(s, b)
<1>. DEFINE b == Point(G \cup DiarAlive(s), K \cup DiarHooks(s), S \cup DiarReads(s), R \cup DiarReads(s))
<1>1. CASE ~ s.diar
  <2>1. DiarPlan(s) = <<>> /\ DiarAlive(s) = {} /\ DiarHooks(s) = {} /\ DiarReads(s) = {}
    BY <1>1 DEF DiarPlan, DiarAlive, DiarHooks, DiarReads
  <2>2. G \cup {} = G /\ K \cup {} = K /\ S \cup {} = S /\ R \cup {} = R
    OBVIOUS
  <2>. QED
    BY <2>1, <2>2, LeadsNowhere
<1>2. CASE s.diar
  <2>. DEFINE registry == <<"engine", "registry">>
              model == <<"engine", "model">>
              session == <<"engine", "session">>
              request == <<"engine", "request">>
              G1 == G \cup {registry}
              G2 == G1 \cup {model}
              G3 == G2 \cup {session}
              G4 == G3 \cup EncoderAlive(s)
              T == S \cup {"external"}
              Q == R \cup {"external"}
              L == K \cup EncoderHooks(s)
              a0 == Point(G, K, S, R)
              a1 == Point(G1, K, S, R)
              a2 == Point(G2, K, S, R)
              a3 == Point(G2, K, T, R)
              a4 == Point(G3, K, T, Q)
              a5 == Point(G4, L, T, Q)
              a6 == Point(G4 \cup {request}, L, T, Q)
  <2>1. registry \in Lasting /\ model \in Lasting /\ session \in Lasting
    <3>1. registry \in Things /\ model \in Things /\ session \in Things
      BY DEF Things, Parts
    <3>2. {registry, model, session} \cap {<<"crisp", "reader">>, <<"engine", "sopts">>} = {}
      OBVIOUS
    <3>. QED
      BY <3>1, <3>2 DEF Lasting
  <2>2. /\ ReadBy(registry) = {} /\ ReadBy(model) = {}
        /\ \A h \in K : Holder(h) # registry /\ Holder(h) # model
        /\ \A y : ~ Under("engine", "registry", y)
        /\ \A y : Under("engine", "model", y) => y = "registry"
        /\ R \cup {} = R
    BY ReadByFacts DEF Holder, Under
  <2>3. Goes(s, a0, Check("engine", "diar_model"), a0)
    BY GoodSteps
  <2>4. Goes(s, a0, Create("engine", "registry"), a1) /\ Good(s, a1)
    BY <2>1, <2>2, GoodCreates
  <2>5. Goes(s, a1, Create("engine", "model"), a2) /\ Good(s, a2)
    <3>1. registry \in G1
      OBVIOUS
    <3>. HIDE DEF G1
    <3>. QED
      BY <2>1, <2>2, <2>4, <3>1, GoodCreates, ZenonT(30)
  <2>6. Goes(s, a2, SetEnv("external"), a3) /\ Good(s, a3)
    <3>1. Goes(s, a2, SetEnv("external"), a3)
      <4>. HIDE DEF G2
      <4>. QED
        BY <2>5, GoodSteps
    <3>2. a3.alive = a2.alive
      BY DEF Point
    <3>. HIDE DEF a2, a3
    <3>. QED
      BY <2>5, <3>1, <3>2 DEF Goes, Good
  <2>7. Leads(s, MakeSession, a3, a4) /\ Good(s, a4)
    <3>1. model \in G2 /\ "external" \in T
      OBVIOUS
    <3>2. a4.alive \subseteq Lasting
      <4>1. a3.alive \subseteq Lasting /\ a3.alive = G2 /\ a4.alive = G2 \cup {session}
        BY <2>6 DEF Good, Point
      <4>. HIDE DEF a3, a4
      <4>. QED
        BY <2>1, <4>1
    <3>. HIDE DEF G2, T
    <3>3. Leads(s, MakeSession, a3, a4)
      BY <2>6, <3>1, SessionLeads
    <3>. HIDE DEF a3, a4
    <3>. QED
      BY <2>6, <3>2, <3>3, GoodAgain
  <2>8. Leads(s, MakeEncoder(s), a4, a5) /\ Good(s, a5)
    <3>1. G3 \cap CrispParts = {} /\ G3 \cap GraphParts("diar") = {}
      BY DEF CrispParts, GraphParts, Parts
    <3>. HIDE DEF G3, T, Q
    <3>. QED
      BY <2>7, <3>1, EncoderLeads
  <2>9. request \notin G4
    <3>1. request \notin EncoderAlive(s)
      BY DEF EncoderAlive, Loaded, Compiled, GraphParts, Parts
    <3>2. request \notin G /\ request # registry /\ request # model /\ request # session
      BY DEF GraphParts, Parts
    <3>. QED
      BY <3>1, <3>2
  <2>10. Leads(s, MakeRequest, a5, a6) /\ Good(s, a6)
    <3>1. request \in Lasting
      <4>1. request \in Things
        BY DEF Things, Parts
      <4>2. request # <<"crisp", "reader">> /\ request # <<"engine", "sopts">>
        OBVIOUS
      <4>. QED
        BY <4>1, <4>2 DEF Lasting
    <3>2. a6.alive \subseteq Lasting
      <4>1. a5.alive \subseteq Lasting /\ a5.alive = G4 /\ a6.alive = G4 \cup {request}
        BY <2>8 DEF Good, Point
      <4>. HIDE DEF a5, a6
      <4>. QED
        BY <3>1, <4>1
    <3>3. Leads(s, MakeRequest, a5, a6)
      <4>. HIDE DEF G4, L, T, Q
      <4>. QED
        BY <2>8, <2>9, RequestLeads
    <3>. HIDE DEF a5, a6
    <3>. QED
      BY <2>8, <3>2, <3>3, GoodAgain
  <2>11. a6 = b
    <3>1. DiarAlive(s) = {registry, model, session, request} \cup EncoderAlive(s)
      BY <1>2 DEF DiarAlive, Parts
    <3>2. DiarHooks(s) = EncoderHooks(s) /\ DiarReads(s) = {"external"}
      BY <1>2 DEF DiarHooks, DiarReads
    <3>3. G4 \cup {request} = G \cup ({registry, model, session, request} \cup EncoderAlive(s))
      OBVIOUS
    <3>. QED
      BY <3>1, <3>2, <3>3
  <2>12. DiarPlan(s) = <<Check("engine", "diar_model"), Create("engine", "registry"), Create("engine", "model"),
                         SetEnv("external")>> \o MakeSession \o MakeEncoder(s) \o MakeRequest
    BY <1>2 DEF DiarPlan
  <2>. DEFINE first == <<Check("engine", "diar_model"), Create("engine", "registry"), Create("engine", "model"),
                         SetEnv("external")>>
  <2>. HIDE DEF a0, a1, a2, a3, a4, a5, a6, b
  <2>13. Leads(s, first, a0, a3)
    BY <2>3, <2>4, <2>5, <2>6, LongLeads
  <2>. HIDE DEF first
  <2>14. Leads(s, first \o MakeSession, a0, a4)
    BY <2>7, <2>13, LeadsOn
  <2>15. Leads(s, first \o MakeSession \o MakeEncoder(s), a0, a5)
    BY <2>8, <2>14, LeadsOn
  <2>16. Leads(s, first \o MakeSession \o MakeEncoder(s) \o MakeRequest, a0, a6)
    BY <2>10, <2>15, LeadsOn
  <2>. QED
    BY <2>10, <2>11, <2>12, <2>16 DEF first, a0, b
<1>. QED
  BY <1>1, <1>2

\* Where init ends.
Complete(s) == Point(AsrAlive(s) \cup DiarAlive(s), AsrHooks(s) \cup DiarHooks(s),
                     AsrReads(s) \cup DiarReads(s), AsrReads(s) \cup DiarReads(s))

\* All of init.
LEMMA PlanLeads ==
  ASSUME NEW s \in Setups
  PROVE  Leads(s, Plan[s], Start, Complete(s)) /\ Good(s, Complete(s))
<1>. DEFINE a == Point(AsrAlive(s), AsrHooks(s), AsrReads(s), AsrReads(s))
<1>1. Leads(s, AsrPlan(s), Start, a)
  BY AsrLeads
<1>2. Good(s, a)
  <2>1. a.alive \subseteq Lasting
    BY DEF Point, AsrAlive, Lasting, Things, GraphParts, Parts
  <2>. HIDE DEF a
  <2>. QED
    BY <1>1, <2>1, StartIsGood, GoodAgain
<1>3. /\ AsrHooks(s) \subseteq {"chunk"}
      /\ AsrAlive(s) \subseteq Parts("engine", {"asr_ctx", "asr_stream"}) \cup GraphParts("xasr")
  BY DEF AsrHooks, AsrAlive
<1>4. Leads(s, DiarPlan(s), a, Complete(s)) /\ Good(s, Complete(s))
  BY <1>2, <1>3, DiarHalfLeads DEF Complete
<1>. HIDE DEF a
<1>. QED
  BY <1>1, <1>4, LeadsOn DEF Plan

-----------------------------------------------------------------------------
(* The destructor *)

\* What a list releases; users before what they use.
Held(p) == {p[i] : i \in 1 .. Len(p)}
Orderly(p) == \A j \in 1 .. Len(p) : \A n \in Needs : p[j] = n[2] => \E i \in 1 .. j - 1 : p[i] = n[1]

\* Names in such an order, for one owner.
Ranked(o, n) == \A j \in 1 .. Len(n) : \A x : Under(o, x, n[j]) => \E i \in 1 .. j - 1 : n[i] = x

\* One list behind another.
LEMMA OrderlyOn ==
  ASSUME NEW p \in Seq(Things), NEW q \in Seq(Things)
  PROVE  /\ p \o q \in Seq(Things) /\ Held(p \o q) = Held(p) \cup Held(q)
         /\ Orderly(p) /\ Orderly(q) => Orderly(p \o q)
<1>1. /\ p \o q \in Seq(Things) /\ Len(p \o q) = Len(p) + Len(q) /\ Len(p) \in Nat /\ Len(q) \in Nat
      /\ \A i \in 1 .. Len(p) + Len(q) : (p \o q)[i] = IF i <= Len(p) THEN p[i] ELSE q[i - Len(p)]
  BY ConcatProperties, LenProperties
<1>2. PICK r : r = p \o q
  OBVIOUS
<1>3. \A i \in 1 .. Len(p) : r[i] = p[i] /\ i \in 1 .. Len(r)
  BY <1>1, <1>2
<1>4. \A k \in 1 .. Len(q) : r[Len(p) + k] = q[k] /\ Len(p) + k \in 1 .. Len(r)
  BY <1>1, <1>2
<1>5. \A i \in 1 .. Len(r) : i \in 1 .. Len(p) \/ \E k \in 1 .. Len(q) : i = Len(p) + k
  <2>. TAKE i \in 1 .. Len(r)
  <2>1. CASE i <= Len(p)
    BY <1>1, <1>2, <2>1
  <2>2. CASE i > Len(p)
    <3>1. i - Len(p) \in 1 .. Len(q) /\ i = Len(p) + (i - Len(p))
      BY <1>1, <1>2, <2>2
    <3>. QED
      BY <3>1
  <2>. QED
    BY <1>1, <1>2, <2>1, <2>2
<1>6. Held(r) = Held(p) \cup Held(q)
  <2>1. ASSUME NEW x \in Held(r)
        PROVE  x \in Held(p) \cup Held(q)
    <3>1. PICK i \in 1 .. Len(r) : x = r[i]
      BY DEF Held
    <3>2. CASE i \in 1 .. Len(p)
      BY <1>3, <3>1, <3>2 DEF Held
    <3>3. CASE \E k \in 1 .. Len(q) : i = Len(p) + k
      BY <1>4, <3>1, <3>3 DEF Held
    <3>. QED
      BY <1>5, <3>2, <3>3
  <2>2. Held(p) \subseteq Held(r)
    BY <1>3 DEF Held
  <2>3. Held(q) \subseteq Held(r)
    <3>. SUFFICES ASSUME NEW k \in 1 .. Len(q) PROVE q[k] \in Held(r)
      BY DEF Held
    <3>1. q[k] = r[Len(p) + k] /\ Len(p) + k \in 1 .. Len(r)
      BY <1>4
    <3>. QED
      BY <3>1 DEF Held
  <2>. QED
    BY <2>1, <2>2, <2>3
<1>7. ASSUME Orderly(p), Orderly(q), NEW j \in 1 .. Len(r), NEW n \in Needs, r[j] = n[2]
      PROVE  \E i \in 1 .. j - 1 : r[i] = n[1]
  <2>1. CASE j \in 1 .. Len(p)
    <3>1. p[j] = n[2]
      BY <1>3, <1>7, <2>1
    <3>2. PICK i \in 1 .. j - 1 : p[i] = n[1]
      BY <1>7, <2>1, <3>1 DEF Orderly
    <3>3. i \in 1 .. Len(p)
      BY <1>1, <2>1
    <3>. QED
      BY <1>3, <3>2, <3>3
  <2>2. CASE \E k \in 1 .. Len(q) : j = Len(p) + k
    <3>1. PICK k \in 1 .. Len(q) : j = Len(p) + k
      BY <2>2
    <3>2. q[k] = n[2]
      BY <1>4, <1>7, <3>1
    <3>3. PICK i \in 1 .. k - 1 : q[i] = n[1]
      BY <1>7, <3>2 DEF Orderly
    <3>4. i \in 1 .. Len(q) /\ Len(p) + i \in 1 .. j - 1
      BY <1>1, <3>1
    <3>5. r[Len(p) + i] = n[1]
      BY <1>4, <3>3, <3>4
    <3>. QED
      BY <3>4, <3>5
  <2>. QED
    BY <1>5, <2>1, <2>2
<1>8. Orderly(p) /\ Orderly(q) => Orderly(r)
  BY <1>7 DEF Orderly
<1>. QED
  BY <1>1, <1>2, <1>6, <1>8

\* What is released of one owner.
LEMMA OfFacts ==
  ASSUME NEW o, NEW N, NEW n \in Seq(N), {o} \X N \subseteq Things,
         NEW W, \A t : t \in W <=> \E i \in 1 .. Len(n) : t = <<o, n[i]>>,
         Ranked(o, n)
  PROVE  Of(o, n) \in Seq(Things) /\ Orderly(Of(o, n)) /\ Held(Of(o, n)) = W
<1>1. Len(n) \in Nat /\ DOMAIN n = 1 .. Len(n) /\ \A i \in 1 .. Len(n) : n[i] \in N
  BY LenProperties, ElementOfSeq
<1>2. PICK r : r = Of(o, n)
  OBVIOUS
<1>3. r = [i \in 1 .. Len(n) |-> <<o, n[i]>>]
  BY <1>1, <1>2 DEF Of
<1>4. \A i \in 1 .. Len(n) : <<o, n[i]>> \in Things
  BY <1>1
<1>5. r \in [1 .. Len(n) -> Things]
  BY <1>3, <1>4
<1>6. r \in Seq(Things) /\ Len(r) = Len(n)
  <2>1. r \in Seq(Things)
    BY <1>1, <1>5, SeqDef
  <2>. QED
    BY <1>1, <1>5, <2>1, LenProperties
<1>7. Held(r) = W
  <2>1. Held(r) = {<<o, n[i]>> : i \in 1 .. Len(n)}
    BY <1>3, <1>6 DEF Held
  <2>. QED
    BY <2>1
<1>8. ASSUME NEW j \in 1 .. Len(r), NEW m \in Needs, r[j] = m[2]
      PROVE  \E i \in 1 .. j - 1 : r[i] = m[1]
  <2>1. PICK u, x, y : Under(u, x, y) /\ m = <<<<u, x>>, <<u, y>>>>
    BY NeedsAre
  <2>2. m[1] = <<u, x>> /\ m[2] = <<u, y>>
    BY <2>1
  <2>3. u = o /\ y = n[j]
    <3>1. <<u, y>> = <<o, n[j]>>
      BY <1>3, <1>6, <1>8, <2>2
    <3>. QED
      BY <3>1
  <2>4. PICK i \in 1 .. j - 1 : n[i] = x
    BY <1>6, <2>1, <2>3 DEF Ranked
  <2>5. i \in 1 .. Len(n)
    BY <1>1, <1>6
  <2>. QED
    BY <1>3, <2>2, <2>3, <2>4, <2>5
<1>9. Orderly(r)
  BY <1>8 DEF Orderly
<1>. QED
  BY <1>2, <1>6, <1>7, <1>9

\* A graph releases its buffers first.
LEMMA GraphReleaseFacts ==
  ASSUME NEW o \in {"xasr", "diar"}
  PROVE  GraphRelease(o) \in Seq(Things) /\ Orderly(GraphRelease(o)) /\ Held(GraphRelease(o)) = GraphParts(o)
<1>. DEFINE N == {"env", "model", "opts", "cm", "buffers", "pool"}
<1>1. PICK n : n = <<"buffers", "pool", "cm", "opts", "model", "env">>
  OBVIOUS
<1>2. n \in Seq(N) /\ Len(n) = 6
  BY <1>1
<1>3. /\ n[1] = "buffers" /\ n[2] = "pool" /\ n[3] = "cm" /\ n[4] = "opts" /\ n[5] = "model" /\ n[6] = "env"
      /\ 1 .. Len(n) = {1, 2, 3, 4, 5, 6}
  BY <1>1, <1>2
<1>4. ASSUME NEW j \in 1 .. Len(n), NEW x, Under(o, x, n[j])
      PROVE  \E i \in 1 .. j - 1 : n[i] = x
  <2>1. /\ n[j] \in {"env", "model", "opts", "cm"}
        /\ x \in {"cm", "buffers", "pool"} /\ (x = "cm" => n[j] # "cm")
    BY <1>4 DEF Under
  <2>2. j \in 3 .. 6 /\ (x = "cm" => j \in 4 .. 6)
    BY <1>3, <2>1
  <2>3. \E i \in {1, 2, 3} : n[i] = x /\ i < j
    BY <1>3, <2>1, <2>2
  <2>. QED
    BY <2>3
<1>5. {o} \X N \subseteq Things
  BY DEF Things, GraphParts
<1>6. \A t : t \in GraphParts(o) <=> \E i \in 1 .. Len(n) : t = <<o, n[i]>>
  BY <1>3, SMTT(30) DEF GraphParts
<1>7. Ranked(o, n)
  BY <1>4 DEF Ranked
<1>. HIDE DEF N
<1>8. Of(o, n) \in Seq(Things) /\ Orderly(Of(o, n)) /\ Held(Of(o, n)) = GraphParts(o)
  BY ONLY <1>2, <1>7, <1>5, <1>6, OfFacts
<1>. QED
  BY <1>1, <1>8 DEF GraphRelease

\* The body of the destructor: the stream before its context, the session before
\* the model.
LEMMA BodyReleaseFacts ==
  /\ BodyRelease \in Seq(Things) /\ Orderly(BodyRelease)
  /\ Held(BodyRelease) = Parts("engine", {"asr_stream", "asr_ctx", "request", "session", "model", "registry"})
<1>. DEFINE N == {"asr_stream", "asr_ctx", "request", "session", "model", "registry"}
<1>1. PICK n : n = <<"asr_stream", "asr_ctx", "request", "session", "model", "registry">>
  OBVIOUS
<1>2. n \in Seq(N) /\ Len(n) = 6
  BY <1>1
<1>3. /\ n[1] = "asr_stream" /\ n[2] = "asr_ctx" /\ n[3] = "request" /\ n[4] = "session" /\ n[5] = "model"
      /\ n[6] = "registry" /\ 1 .. Len(n) = {1, 2, 3, 4, 5, 6}
  BY <1>1, <1>2
<1>4. ASSUME NEW j \in 1 .. Len(n), NEW x, Under("engine", x, n[j])
      PROVE  \E i \in 1 .. j - 1 : n[i] = x
  <2>1. \/ x = "asr_stream" /\ n[j] = "asr_ctx"
        \/ x = "session" /\ n[j] = "model"
        \/ x = "model" /\ n[j] = "registry"
    BY <1>4 DEF Under
  <2>2. \/ x = n[1] /\ j = 2
        \/ x = n[4] /\ j = 5
        \/ x = n[5] /\ j = 6
    BY <1>3, <2>1
  <2>. QED
    BY <2>2
<1>5. {"engine"} \X N \subseteq Things
  BY DEF Things, Parts
<1>6. \A t : t \in Parts("engine", N) <=> \E i \in 1 .. Len(n) : t = <<"engine", n[i]>>
  BY <1>3 DEF Parts
<1>7. Ranked("engine", n)
  BY <1>4 DEF Ranked
<1>. HIDE DEF N
<1>8. Of("engine", n) \in Seq(Things) /\ Orderly(Of("engine", n)) /\ Held(Of("engine", n)) = Parts("engine", N)
  BY ONLY <1>2, <1>7, <1>5, <1>6, OfFacts
<1>. QED
  BY <1>1, <1>8 DEF BodyRelease, N

\* The ggml encoder: its graph before its weights.
LEMMA CrispReleaseFacts ==
  LET p == Of("crisp", <<"graph", "weights_buf", "weights_ctx", "backend">>)
  IN  p \in Seq(Things) /\ Orderly(p) /\ Held(p) = CrispParts \ {<<"crisp", "reader">>}
<1>. DEFINE N == {"graph", "weights_buf", "weights_ctx", "backend"}
<1>1. PICK n : n = <<"graph", "weights_buf", "weights_ctx", "backend">>
  OBVIOUS
<1>2. n \in Seq(N) /\ Len(n) = 4
  BY <1>1
<1>3. /\ n[1] = "graph" /\ n[2] = "weights_buf" /\ n[3] = "weights_ctx" /\ n[4] = "backend"
      /\ 1 .. Len(n) = {1, 2, 3, 4}
  BY <1>1, <1>2
<1>4. ASSUME NEW j \in 1 .. Len(n), NEW x, Under("crisp", x, n[j])
      PROVE  \E i \in 1 .. j - 1 : n[i] = x
  <2>1. \/ x = "weights_buf" /\ n[j] = "backend"
        \/ x = "graph" /\ n[j] # "graph"
    BY <1>4 DEF Under
  <2>2. \/ x = n[2] /\ j = 4
        \/ x = n[1] /\ j \in 2 .. 4
    BY <1>3, <2>1
  <2>. QED
    BY <2>2
<1>5. {"crisp"} \X N \subseteq Things
  BY DEF Things, CrispParts
<1>6. \A t : t \in CrispParts \ {<<"crisp", "reader">>} <=> \E i \in 1 .. Len(n) : t = <<"crisp", n[i]>>
  BY <1>3 DEF CrispParts
<1>7. Ranked("crisp", n)
  BY <1>4 DEF Ranked
<1>. HIDE DEF N
<1>8. /\ Of("crisp", n) \in Seq(Things) /\ Orderly(Of("crisp", n))
      /\ Held(Of("crisp", n)) = CrispParts \ {<<"crisp", "reader">>}
  BY ONLY <1>2, <1>7, <1>5, <1>6, OfFacts
<1>. QED
  BY <1>1, <1>8

\* The matrix alone.
LEMMA PreReleaseFacts ==
  LET p == Of("pre", <<"weights">>)
  IN  p \in Seq(Things) /\ Orderly(p) /\ Held(p) = Parts("pre", {"weights"})
<1>1. PICK n : n = <<"weights">>
  OBVIOUS
<1>2. n \in Seq({"weights"}) /\ Len(n) = 1 /\ n[1] = "weights" /\ 1 .. Len(n) = {1}
  BY <1>1
<1>3. {"pre"} \X {"weights"} \subseteq Things
  BY DEF Things, Parts
<1>4. Ranked("pre", n)
  BY DEF Under, Ranked
<1>5. \A t : t \in Parts("pre", {"weights"}) <=> \E i \in 1 .. Len(n) : t = <<"pre", n[i]>>
  BY <1>2 DEF Parts
<1>6. Of("pre", n) \in Seq(Things) /\ Orderly(Of("pre", n)) /\ Held(Of("pre", n)) = Parts("pre", {"weights"})
  BY <1>2, <1>3, <1>4, <1>5, OfFacts
<1>. QED
  BY <1>1, <1>6

\* All that lasts is released, users before what they use, and who was given a
\* callback before what the callback uses.
LEMMA ReleaseFacts ==
  /\ ReleaseOrder \in Seq(Things) /\ Orderly(ReleaseOrder) /\ Held(ReleaseOrder) = Lasting
  /\ \A s : \A h \in {"chunk", "encode", "pre"} : \A j \in 1 .. Len(ReleaseOrder) :
       ReleaseOrder[j] \in TargetOf(s, h) => \E i \in 1 .. j - 1 : ReleaseOrder[i] = Holder(h)
<1>1. PICK p, c : /\ p = Of("pre", <<"weights">>)
                  /\ c = Of("crisp", <<"graph", "weights_buf", "weights_ctx", "backend">>)
  OBVIOUS
<1>2. PICK x, d : x = GraphRelease("xasr") /\ d = GraphRelease("diar")
  OBVIOUS
<1>3. /\ p \in Seq(Things) /\ Orderly(p) /\ Held(p) = Parts("pre", {"weights"})
      /\ x \in Seq(Things) /\ Orderly(x) /\ Held(x) = GraphParts("xasr")
      /\ d \in Seq(Things) /\ Orderly(d) /\ Held(d) = GraphParts("diar")
      /\ c \in Seq(Things) /\ Orderly(c) /\ Held(c) = CrispParts \ {<<"crisp", "reader">>}
  BY <1>1, <1>2, PreReleaseFacts, GraphReleaseFacts, CrispReleaseFacts
<1>4. p \o x \in Seq(Things) /\ Orderly(p \o x) /\ Held(p \o x) = Held(p) \cup Held(x)
  BY <1>3, OrderlyOn
<1>5. p \o x \o d \in Seq(Things) /\ Orderly(p \o x \o d) /\ Held(p \o x \o d) = Held(p \o x) \cup Held(d)
  BY <1>3, <1>4, OrderlyOn
<1>6. /\ p \o x \o d \o c \in Seq(Things) /\ Orderly(p \o x \o d \o c)
      /\ Held(p \o x \o d \o c) = Held(p \o x \o d) \cup Held(c)
  BY <1>3, <1>5, OrderlyOn
<1>7. MemberRelease = p \o x \o d \o c
  BY <1>1, <1>2 DEF MemberRelease
<1>8. PICK b, m, r : b = BodyRelease /\ m = MemberRelease /\ r = ReleaseOrder
  OBVIOUS
<1>9. /\ b \in Seq(Things) /\ Orderly(b)
      /\ Held(b) = Parts("engine", {"asr_stream", "asr_ctx", "request", "session", "model", "registry"})
      /\ m \in Seq(Things) /\ Orderly(m)
      /\ Held(m) = Parts("pre", {"weights"}) \cup GraphParts("xasr") \cup GraphParts("diar")
                   \cup (CrispParts \ {<<"crisp", "reader">>})
      /\ r = b \o m
  BY <1>3, <1>4, <1>5, <1>6, <1>7, <1>8, BodyReleaseFacts DEF ReleaseOrder
<1>10. r \in Seq(Things) /\ Orderly(r) /\ Held(r) = Held(b) \cup Held(m)
  BY <1>9, OrderlyOn
<1>11. Held(r) = Lasting
  <2>1. \A o, y : <<o, y>> \in Lasting <=>
                   <<o, y>> \in Things /\ ~ (o = "crisp" /\ y = "reader") /\ ~ (o = "engine" /\ y = "sopts")
    BY DEF Lasting
  <2>2. \A t \in Things \cup Held(r) : \E o, y : t = <<o, y>>
    BY <1>9, <1>10 DEF Things, GraphParts, CrispParts, Parts
  <2>3. ASSUME NEW o, NEW y
        PROVE  <<o, y>> \in Held(r) <=> <<o, y>> \in Lasting
    <3>1. <<o, y>> \in Things <=>
            \/ o \in {"xasr", "diar"} /\ y \in {"env", "model", "opts", "cm", "buffers", "pool"}
            \/ o = "crisp" /\ y \in {"backend", "reader", "weights_ctx", "weights_buf", "graph"}
            \/ o = "pre" /\ y = "weights"
            \/ o = "engine" /\ y \in {"asr_ctx", "asr_stream", "registry", "model", "sopts", "session", "request"}
      BY DEF Things, GraphParts, CrispParts, Parts
    <3>2. <<o, y>> \in Held(b) <=>
            o = "engine" /\ y \in {"asr_stream", "asr_ctx", "request", "session", "model", "registry"}
      BY <1>9 DEF Parts
    <3>3. <<o, y>> \in Held(m) <=>
            \/ o \in {"xasr", "diar"} /\ y \in {"env", "model", "opts", "cm", "buffers", "pool"}
            \/ o = "crisp" /\ y \in {"backend", "weights_ctx", "weights_buf", "graph"}
            \/ o = "pre" /\ y = "weights"
      BY <1>9 DEF GraphParts, CrispParts, Parts
    <3>. QED
      BY <1>10, <2>1, <3>1, <3>2, <3>3
  <2>4. Lasting \subseteq Things
    BY DEF Lasting
  <2>. QED
    BY <2>2, <2>3, <2>4
<1>12. ASSUME NEW s, NEW h \in {"chunk", "encode", "pre"}, NEW j \in 1 .. Len(r), r[j] \in TargetOf(s, h)
       PROVE  \E i \in 1 .. j - 1 : r[i] = Holder(h)
  <2>1. /\ Len(r) = Len(b) + Len(m) /\ Len(b) \in Nat /\ Len(m) \in Nat
        /\ \A i \in 1 .. Len(b) + Len(m) : r[i] = IF i <= Len(b) THEN b[i] ELSE m[i - Len(b)]
    BY <1>9, ConcatProperties, LenProperties
  <2>2. Holder(h) \in Held(b)
    BY <1>9 DEF Holder, Parts
  <2>3. r[j] \notin Held(b)
    BY <1>9, <1>12 DEF TargetOf, GraphParts, CrispParts, Parts
  <2>4. j > Len(b)
    BY <2>1, <2>3 DEF Held
  <2>5. PICK i \in 1 .. Len(b) : b[i] = Holder(h)
    BY <2>2 DEF Held
  <2>6. i \in 1 .. j - 1 /\ r[i] = b[i]
    BY <2>1, <2>4
  <2>. QED
    BY <2>5, <2>6
<1>. QED
  BY <1>8, <1>10, <1>11, <1>12

-----------------------------------------------------------------------------
(* The engine from init to the exit *)

\* What is in the environment, and what was read of it, once these are set and read.
EnvOf(s, set) == [x \in {"prefix", "external"} |-> IF x \in set THEN MeantBy(s, x) ELSE "inherited"]
ReadOf(s, read) == [x \in {"prefix", "external"} |-> IF x \in read THEN MeantBy(s, x) ELSE "unread"]

\* The engine is at this point of init.
AtPoint(a) == alive = a.alive /\ hooks = a.hooks /\ env = EnvOf(cfg, a.set) /\ readEnv = ReadOf(cfg, a.read)

\* It is on the way to the end of init.
Underway == \E f : Passes(cfg, Plan[cfg], Start, Complete(cfg), f) /\ AtPoint(f[step])

\* init is done; the first window may have added a graph.
Made ==
  /\ Complete(cfg).alive \subseteq alive /\ alive \subseteq Lasting
  /\ hooks = Complete(cfg).hooks /\ readEnv = ReadOf(cfg, Complete(cfg).read)

\* Types, that nothing dangles, and what is left in each phase: before init what
\* the steps done so far have made, then all of it, then less and less.
EngineInv ==
  /\ cfg \in Setups /\ step \in 1 .. Len(Plan[cfg]) + 1
  /\ alive \subseteq Things /\ hooks \subseteq {"chunk", "encode", "pre"}
  /\ DOMAIN env = {"prefix", "external"} /\ DOMAIN readEnv = DOMAIN env
  /\ Whole(cfg, alive, hooks)
  /\ leaked \cap alive = {} /\ leaked \subseteq GraphParts("xasr") \cup GraphParts("diar")
  /\ leaked # {} => phase \in {"destroy", "exited"} /\ status = 1
  /\ phase = "arguments" => step = 1
  /\ phase \in {"arguments", "init"} => Underway
  /\ phase \in {"load", "run", "transcript", "turns", "tokens", "report"} => Made
  /\ phase = "destroy" => alive \subseteq Lasting
  /\ phase = "exited" => alive = {}

\* What was hooked in is what is used.
LEMMA TargetIs ==
  /\ \A h : Target(h) = TargetOf(cfg, h)
  /\ \A x : Meant(x) = MeantBy(cfg, x)
BY DEF Target, TargetOf, Meant, MeantBy

\* A plan and the points it passes.
LEMMA PassesFacts ==
  ASSUME NEW s \in Setups
  PROVE  /\ Len(Plan[s]) \in Nat
         /\ \E f : Passes(s, Plan[s], Start, Complete(s), f)
         /\ Fine(s, Start) /\ Good(s, Complete(s))
<1>1. Leads(s, Plan[s], Start, Complete(s)) /\ Good(s, Complete(s)) /\ Good(s, Start)
  BY PlanLeads, StartIsGood
<1>2. PICK R, f : Plan[s] \in Seq(R) /\ Passes(s, Plan[s], Start, Complete(s), f)
  BY <1>1 DEF Leads
<1>. QED
  BY <1>1, <1>2, LenProperties DEF Good

\* Before init nothing exists.
LEMMA EngineBegins ==
  ASSUME Init
  PROVE  EngineInv
<1>1. /\ cfg \in Setups /\ step = 1 /\ alive = {} /\ leaked = {} /\ hooks = {}
      /\ env = [x \in {"prefix", "external"} |-> "inherited"]
      /\ readEnv = [x \in {"prefix", "external"} |-> "unread"]
      /\ phase = "arguments"
  BY DEF Init, EngineInit
<1>2. Len(Plan[cfg]) \in Nat /\ 1 \in 1 .. Len(Plan[cfg]) + 1
  BY <1>1, PassesFacts
<1>3. PICK f : Passes(cfg, Plan[cfg], Start, Complete(cfg), f)
  BY <1>1, PassesFacts
<1>4. AtPoint(Start)
  BY <1>1 DEF AtPoint, Start, Point, EnvOf, ReadOf
<1>5. Underway
  BY <1>1, <1>3, <1>4 DEF Underway, Passes
<1>6. Whole(cfg, {}, {})
  BY WholeMeans
<1>. QED
  BY <1>1, <1>2, <1>5, <1>6 DEF EngineInv

\* A step of init leads to the next point.
LEMMA StepLeads ==
  ASSUME NEW a, NEW b, cfg \in Setups, Goes(cfg, a, Plan[cfg][step], b), AtPoint(a), StepDone
  PROVE  AtPoint(b)'
<1>1. PICK x : x = Plan[cfg][step]
  OBVIOUS
<1>2. /\ alive' = CASE x.does = "create" -> alive \cup {x.what}
                    [] x.does = "free" -> alive \ {x.what}
                    [] OTHER -> alive
      /\ hooks' = IF x.does = "hook" THEN hooks \cup {x.what[2]} ELSE hooks
      /\ env' = EnvAfter(x)
      /\ readEnv' = [y \in DOMAIN readEnv |-> IF x.does = "create" /\ y \in ReadBy(x.what)
                                              THEN env[y] ELSE readEnv[y]]
      /\ cfg' = cfg
  BY <1>1 DEF StepDone
<1>3. /\ b.alive = CASE x.does = "create" -> a.alive \cup {x.what}
                     [] x.does = "free" -> a.alive \ {x.what}
                     [] OTHER -> a.alive
      /\ b.hooks = IF x.does = "hook" THEN a.hooks \cup {x.what[2]} ELSE a.hooks
      /\ b.set = IF x.does = "setenv" THEN a.set \cup {x.what[2]} ELSE a.set
      /\ b.read = IF x.does = "create" THEN a.read \cup ReadBy(x.what) ELSE a.read
      /\ x.does = "create" => ReadBy(x.what) \subseteq a.set
  BY <1>1 DEF Goes
<1>4. alive' = b.alive /\ hooks' = b.hooks
  BY <1>2, <1>3 DEF AtPoint
<1>5. env' = EnvOf(cfg, b.set)
  <2>1. env = EnvOf(cfg, a.set)
    BY DEF AtPoint
  <2>2. CASE x.does = "setenv"
    <3>1. env' = [env EXCEPT ![x.what[2]] = MeantBy(cfg, x.what[2])]
      BY <1>2, <2>2, TargetIs DEF EnvAfter
    <3>2. b.set = a.set \cup {x.what[2]}
      BY <1>3, <2>2
    <3>. QED
      BY <2>1, <3>1, <3>2 DEF EnvOf
  <2>3. CASE x.does # "setenv"
    BY <1>2, <1>3, <2>1, <2>3 DEF EnvAfter
  <2>. QED
    BY <2>2, <2>3
<1>6. readEnv' = ReadOf(cfg, b.read)
  <2>1. env = EnvOf(cfg, a.set) /\ readEnv = ReadOf(cfg, a.read)
    BY DEF AtPoint
  <2>2. CASE x.does = "create"
    <3>1. \A y \in {"prefix", "external"} : y \in ReadBy(x.what) => env[y] = MeantBy(cfg, y)
      BY <1>3, <2>1, <2>2 DEF EnvOf
    <3>2. b.read = a.read \cup ReadBy(x.what)
      BY <1>3, <2>2
    <3>. QED
      BY <1>2, <2>1, <2>2, <3>1, <3>2 DEF ReadOf
  <2>3. CASE x.does # "create"
    <3>1. readEnv' = [y \in DOMAIN readEnv |-> readEnv[y]]
      BY <1>2, <2>3
    <3>2. b.read = a.read
      BY <1>3, <2>3
    <3>. QED
      BY <2>1, <3>1, <3>2 DEF ReadOf
  <2>. QED
    BY <2>2, <2>3
<1>. QED
  BY <1>2, <1>4, <1>5, <1>6 DEF AtPoint

\* init goes on.
LEMMA EngineGoesOn ==
  ASSUME EngineInv, InitGoesOn
  PROVE  EngineInv'
<1>1. /\ phase = "init" /\ phase' = "init" /\ StepDone /\ status' = status
      /\ cfg' = cfg /\ leaked' = leaked /\ leaked = {} /\ step' = step + 1 /\ step <= Len(Plan[cfg])
      /\ cfg \in Setups /\ step \in 1 .. Len(Plan[cfg]) + 1
  BY DEF EngineInv, InitGoesOn, StepDone, InInit
<1>2. Len(Plan[cfg]) \in Nat /\ step \in 1 .. Len(Plan[cfg]) /\ step + 1 \in 1 .. Len(Plan[cfg]) + 1
  BY <1>1, PassesFacts
<1>3. PICK f : Passes(cfg, Plan[cfg], Start, Complete(cfg), f) /\ AtPoint(f[step])
  BY <1>1 DEF EngineInv, Underway
<1>4. Goes(cfg, f[step], Plan[cfg][step], f[step + 1])
  BY <1>2, <1>3 DEF Passes
<1>5. PICK b : b = f[step + 1]
  OBVIOUS
<1>6. AtPoint(b)' /\ Fine(cfg, b)
  BY <1>1, <1>3, <1>4, <1>5, StepLeads DEF Goes
<1>7. /\ alive' = b.alive /\ hooks' = b.hooks /\ env' = EnvOf(cfg', b.set) /\ readEnv' = ReadOf(cfg', b.read)
      /\ f[step'] = b /\ Passes(cfg', Plan[cfg'], Start, Complete(cfg'), f)
  BY <1>1, <1>3, <1>5, <1>6 DEF AtPoint
<1>8. Underway'
  BY <1>7 DEF Underway, AtPoint
<1>9. /\ alive' \subseteq Things /\ hooks' \subseteq {"chunk", "encode", "pre"} /\ Whole(cfg', alive', hooks')
      /\ DOMAIN env' = {"prefix", "external"} /\ DOMAIN readEnv' = {"prefix", "external"}
  BY <1>1, <1>6, <1>7 DEF Fine, EnvOf, ReadOf
<1>. QED
  BY <1>1, <1>2, <1>8, <1>9 DEF EngineInv

\* init fails: what is left will be released.
LEMMA EngineFails ==
  ASSUME EngineInv, InitFails
  PROVE  EngineInv'
<1>1. /\ phase = "init" /\ phase' = "destroy" /\ StepFails /\ status' = 1
      /\ cfg' = cfg /\ leaked = {} /\ step' = step /\ step <= Len(Plan[cfg])
      /\ hooks' = hooks /\ env' = env /\ readEnv' = readEnv
      /\ cfg \in Setups /\ step \in 1 .. Len(Plan[cfg]) + 1
  BY DEF EngineInv, InitFails, StepFails, InInit, Return
<1>2. Len(Plan[cfg]) \in Nat /\ step \in 1 .. Len(Plan[cfg])
  BY <1>1, PassesFacts
<1>3. PICK f : Passes(cfg, Plan[cfg], Start, Complete(cfg), f) /\ AtPoint(f[step])
  BY <1>1 DEF EngineInv, Underway
<1>4. PICK a, x : a = f[step] /\ x = Plan[cfg][step]
  OBVIOUS
<1>5. MayFail(x) /\ leaked' = alive \cap x.leaks /\ alive' = alive \ (x.drops \cup x.leaks)
  BY <1>1, <1>4 DEF StepFails, GivenBack
<1>6. FailsWell(cfg, a, x.drops, x.leaks)
  <2>1. Goes(cfg, a, x, f[step + 1])
    BY <1>2, <1>3, <1>4 DEF Passes
  <2>. QED
    BY <1>5, <2>1 DEF Goes, MayFail
<1>7. alive = a.alive /\ hooks = a.hooks
  BY <1>3, <1>4 DEF AtPoint
<1>8. /\ alive' \subseteq Lasting /\ Whole(cfg', alive', hooks')
      /\ leaked' \subseteq GraphParts("xasr") \cup GraphParts("diar")
  BY <1>1, <1>5, <1>6, <1>7 DEF FailsWell
<1>9. leaked' \cap alive' = {} /\ alive' \subseteq Things
  BY <1>5, <1>8 DEF Lasting
<1>. QED
  BY <1>1, <1>8, <1>9 DEF EngineInv

\* init ends where all is made.
LEMMA EngineMade ==
  ASSUME EngineInv, phase = "init", ~ InInit
  PROVE  Made
<1>1. cfg \in Setups /\ step = Len(Plan[cfg]) + 1
  <2>1. cfg \in Setups /\ step \in 1 .. Len(Plan[cfg]) + 1 /\ ~ (step <= Len(Plan[cfg]))
    BY DEF EngineInv, InInit
  <2>2. Len(Plan[cfg]) \in Nat
    BY <2>1, PassesFacts
  <2>. QED
    BY <2>1, <2>2
<1>2. PICK f : Passes(cfg, Plan[cfg], Start, Complete(cfg), f) /\ AtPoint(f[step])
  BY DEF EngineInv, Underway
<1>3. AtPoint(Complete(cfg)) /\ Good(cfg, Complete(cfg))
  BY <1>1, <1>2, PassesFacts DEF Passes
<1>4. PICK a : a = Complete(cfg)
  OBVIOUS
<1>. QED
  BY <1>3, <1>4 DEF AtPoint, Made, Good

\* The first window's graph uses what the encoder has loaded.
LEMMA EngineCaches ==
  ASSUME EngineInv, Push
  PROVE  EngineInv'
<1>. DEFINE g == <<"crisp", "graph">>
<1>1. /\ phase = "run" /\ phase' = "run" /\ status' = status /\ leaked = {} /\ leaked' = {}
      /\ cfg' = cfg /\ step' = step /\ hooks' = hooks /\ env' = env /\ readEnv' = readEnv
      /\ cfg.diar /\ cfg.native /\ cfg.backend = "ggml" /\ alive' = alive \cup {g}
      /\ cfg \in Setups /\ Made
  BY DEF EngineInv, Push, CacheGraph
<1>2. g \in Lasting /\ g \in Things
  BY DEF Lasting, Things, CrispParts
<1>3. Loaded \subseteq alive
  <2>1. DiarAlive(cfg) \subseteq Complete(cfg).alive
    BY DEF Complete, Point
  <2>2. Loaded \subseteq DiarAlive(cfg)
    BY <1>1 DEF DiarAlive, EncoderAlive
  <2>. QED
    BY <1>1, <2>1, <2>2 DEF Made
<1>4. Whole(cfg, alive', hooks)
  <2>1. Whole(cfg, alive, hooks)
    BY DEF EngineInv
  <2>2. ASSUME NEW o, NEW x, NEW y, Under(o, x, y), <<o, x>> \in alive'
        PROVE  <<o, y>> \in alive'
    <3>1. CASE <<o, x>> \in alive
      BY <1>1, <2>1, <2>2, <3>1, WholeMeans
    <3>2. CASE <<o, x>> = g
      <4>1. o = "crisp" /\ x = "graph"
        BY <3>2
      <4>2. <<o, y>> \in Loaded
        BY <2>2, <4>1 DEF Under, Loaded, Parts
      <4>. QED
        BY <1>1, <1>3, <4>2
    <3>. QED
      BY <1>1, <2>2, <3>1, <3>2
  <2>3. ASSUME NEW h \in hooks, Holder(h) \in alive'
        PROVE  TargetOf(cfg, h) \subseteq alive'
    <3>1. Holder(h) # g
      BY DEF Holder
    <3>2. Holder(h) \in alive
      BY <1>1, <2>3, <3>1
    <3>. QED
      BY <1>1, <2>1, <3>2, WholeMeans
  <2>. QED
    BY <2>2, <2>3, WholeMeans
<1>5. alive' \subseteq Lasting /\ alive' \subseteq Things
  BY <1>1, <1>2 DEF Made, EngineInv
<1>6. Made'
  <2>1. Complete(cfg).alive \subseteq alive' /\ hooks' = Complete(cfg).hooks
        /\ readEnv' = ReadOf(cfg, Complete(cfg).read)
    BY <1>1 DEF Made
  <2>. QED
    BY <1>1, <1>5, <2>1 DEF Made
<1>. HIDE DEF g
<1>. QED
  BY <1>1, <1>4, <1>5, <1>6 DEF EngineInv

\* The destructor releases nothing that something alive still uses.
LEMMA EngineReleases ==
  ASSUME EngineInv, Destroy
  PROVE  EngineInv'
<1>1. /\ phase = "destroy" /\ phase' = "destroy" /\ status' = status /\ Release
      /\ cfg' = cfg /\ step' = step /\ hooks' = hooks /\ env' = env /\ readEnv' = readEnv /\ leaked' = leaked
  BY DEF Destroy, Release
<1>2. PICK r : r = ReleaseOrder
  OBVIOUS
<1>3. /\ r \in Seq(Things) /\ Orderly(r) /\ DOMAIN r = 1 .. Len(r)
      /\ \A s : \A h \in {"chunk", "encode", "pre"} : \A j \in 1 .. Len(r) :
           r[j] \in TargetOf(s, h) => \E i \in 1 .. j - 1 : r[i] = Holder(h)
  BY <1>2, ReleaseFacts, LenProperties
<1>4. PICK i \in 1 .. Len(r) : /\ \A j \in 1 .. i - 1 : r[j] \notin alive
                              /\ alive' = alive \ {r[i]}
  BY <1>1, <1>2, <1>3 DEF Release
<1>5. Whole(cfg, alive', hooks)
  <2>1. Whole(cfg, alive, hooks) /\ hooks \subseteq {"chunk", "encode", "pre"}
    BY DEF EngineInv
  <2>2. ASSUME NEW n \in Needs, n[1] \in alive'
        PROVE  n[2] \in alive'
    <3>1. n[1] \in alive /\ n[2] \in alive
      BY <1>4, <2>1, <2>2 DEF Whole
    <3>2. r[i] # n[2]
      BY <1>3, <1>4, <3>1 DEF Orderly
    <3>. QED
      BY <1>4, <3>1, <3>2
  <2>3. ASSUME NEW h \in hooks, Holder(h) \in alive'
        PROVE  TargetOf(cfg, h) \subseteq alive'
    <3>1. Holder(h) \in alive /\ TargetOf(cfg, h) \subseteq alive
      BY <1>4, <2>1, <2>3 DEF Whole
    <3>2. r[i] \notin TargetOf(cfg, h)
      BY <1>3, <1>4, <2>1, <3>1
    <3>. QED
      BY <1>4, <3>1, <3>2
  <2>. QED
    BY <2>2, <2>3 DEF Whole
<1>6. alive' \subseteq alive
  BY <1>4
<1>. QED
  BY <1>1, <1>5, <1>6 DEF EngineInv

\* When nothing of the list is left, nothing is left.
LEMMA EngineEnds ==
  ASSUME EngineInv, Exit
  PROVE  EngineInv'
<1>1. /\ phase = "destroy" /\ phase' = "exited" /\ Released /\ status' = status
      /\ cfg' = cfg /\ step' = step /\ hooks' = hooks /\ env' = env /\ readEnv' = readEnv
      /\ leaked' = leaked /\ alive' = alive
  BY DEF Exit, engineVars
<1>2. PICK r : r = ReleaseOrder
  OBVIOUS
<1>3. r \in Seq(Things) /\ DOMAIN r = 1 .. Len(r) /\ Held(r) = Lasting
  BY <1>2, ReleaseFacts, LenProperties
<1>4. \A i \in 1 .. Len(r) : r[i] \notin alive
  BY <1>1, <1>2, <1>3 DEF Released
<1>5. alive \subseteq Lasting
  BY <1>1 DEF EngineInv
<1>6. alive = {}
  BY <1>3, <1>4, <1>5 DEF Held
<1>. QED
  BY <1>1, <1>6 DEF EngineInv

\* The rest of the program leaves the engine alone.
LEMMA EngineStays ==
  ASSUME EngineInv, UNCHANGED engineVars,
         leaked # {} => phase' \in {"destroy", "exited"} /\ status' = 1,
         phase' = "arguments" => phase = "arguments",
         phase' = "init" => phase \in {"arguments", "init"},
         phase' \in {"load", "run", "transcript", "turns", "tokens", "report"} => Made,
         phase' = "destroy" => alive \subseteq Lasting,
         phase' = "exited" => alive = {}
  PROVE  EngineInv'
<1>1. /\ cfg' = cfg /\ step' = step /\ alive' = alive /\ leaked' = leaked
      /\ hooks' = hooks /\ env' = env /\ readEnv' = readEnv
  BY DEF engineVars
<1>2. phase' \in {"arguments", "init"} => Underway'
  BY <1>1 DEF EngineInv, Underway, AtPoint
<1>3. Made => Made'
  BY <1>1 DEF Made
<1>. QED
  BY <1>1, <1>2, <1>3 DEF EngineInv

\* Every step of the program keeps the engine so.
LEMMA EngineSteps ==
  ASSUME EngineInv, [Next]_vars
  PROVE  EngineInv'
<1>. DEFINE Busy == {"load", "run", "transcript", "turns", "tokens", "report"}
<1>1. CASE Arguments
  <2>1. UNCHANGED engineVars /\ phase = "arguments" /\ phase' \in {"exited", "init"} /\ leaked = {}
    BY <1>1 DEF Arguments, EngineInv
  <2>2. alive = {}
    <3>1. Underway /\ step = 1
      BY <2>1 DEF EngineInv
    <3>2. AtPoint(Start)
      BY <3>1 DEF Underway, Passes
    <3>. QED
      BY <3>2 DEF AtPoint, Start, Point
  <2>. QED
    BY <2>1, <2>2, EngineStays
<1>2. CASE InitAborts
  <2>1. UNCHANGED engineVars /\ phase' = "crashed" /\ leaked = {}
    BY <1>2 DEF InitAborts, ResetThrows, EngineInv
  <2>. QED
    BY <2>1, EngineStays
<1>3. CASE InitEnds
  <2>1. UNCHANGED engineVars /\ phase' = "load" /\ leaked = {} /\ Made
    BY <1>3, EngineMade DEF InitEnds, EngineInv
  <2>. QED
    BY <2>1, EngineStays
<1>4. CASE \/ Load \/ LoadEnds \/ PushFails \/ RunEnds \/ WriteTranscript
           \/ WriteTurns \/ WriteTokens \/ CannotWrite \/ Report
  <2>1. /\ UNCHANGED engineVars /\ phase \in Busy
        /\ phase' \in Busy \cup {"crashed", "destroy"}
    BY <1>4 DEF Load, LoadEnds, PushFails, RunEnds, WriteTranscript, WriteTurns, WriteTokens, CannotWrite,
                Report, Return
  <2>2. leaked = {} /\ Made
    BY <2>1 DEF EngineInv
  <2>3. alive \subseteq Lasting
    BY <2>2 DEF Made
  <2>. QED
    BY <2>1, <2>2, <2>3, EngineStays
<1>5. CASE Stop \/ UNCHANGED vars
  <2>1. UNCHANGED engineVars /\ phase' = phase /\ status' = status
    BY <1>5 DEF Stop, vars
  <2>. QED
    BY <2>1, EngineStays DEF EngineInv
<1>. QED
  BY <1>1, <1>2, <1>3, <1>4, <1>5, EngineGoesOn, EngineFails, EngineCaches, EngineReleases, EngineEnds
     DEF Next, Advance

\* The engine, always.
LEMMA EngineInvariant == Spec => []EngineInv
<1>1. Init => EngineInv
  BY EngineBegins
<1>2. EngineInv /\ [Next]_vars => EngineInv'
  BY EngineSteps
<1>. QED
  BY <1>1, <1>2, PTL DEF Spec

\* Whatever step of init failed, wherever the program is, and at every point of
\* the destructor: nothing is alive whose provider, or whose callback's object, is
\* gone.
THEOREM NothingDangles == Spec => []NeverDangling
<1>1. EngineInv => NeverDangling
  BY TargetIs DEF EngineInv, Whole, NeverDangling
<1>. QED
  BY <1>1, EngineInvariant, PTL

\* A run starts with both its streams, with what it means read by the libraries,
\* and with an encoder exactly when the session was loaded without one.
THEOREM RunIsReady == Spec => []ReadyToRun
<1>1. EngineInv => ReadyToRun
  <2>. SUFFICES ASSUME EngineInv, phase \in {"load", "run"}
                PROVE  /\ cfg.asr => <<"engine", "asr_stream">> \in alive /\ readEnv["prefix"] = Meant("prefix")
                       /\ cfg.diar => /\ {<<"engine", "session">>, <<"engine", "request">>} \subseteq alive
                                      /\ (readEnv["external"] = "1") <=> ("encode" \in hooks)
                                      /\ readEnv["external"] = Meant("external")
    BY DEF ReadyToRun
  <2>1. Made /\ cfg \in Setups
    BY DEF EngineInv
  <2>2. /\ Complete(cfg).alive = AsrAlive(cfg) \cup DiarAlive(cfg)
        /\ Complete(cfg).hooks = AsrHooks(cfg) \cup DiarHooks(cfg)
        /\ Complete(cfg).read = AsrReads(cfg) \cup DiarReads(cfg)
    BY DEF Complete, Point
  <2>3. /\ AsrAlive(cfg) \cup DiarAlive(cfg) \subseteq alive /\ hooks = AsrHooks(cfg) \cup DiarHooks(cfg)
        /\ readEnv = ReadOf(cfg, AsrReads(cfg) \cup DiarReads(cfg))
    BY <2>1, <2>2 DEF Made
  <2>4. ASSUME cfg.asr
        PROVE  <<"engine", "asr_stream">> \in alive /\ readEnv["prefix"] = Meant("prefix")
    <3>1. <<"engine", "asr_stream">> \in AsrAlive(cfg) /\ "prefix" \in AsrReads(cfg)
      BY <2>4 DEF AsrAlive, AsrReads, Parts
    <3>. QED
      BY <2>3, <3>1, TargetIs DEF ReadOf
  <2>5. ASSUME cfg.diar
        PROVE  /\ {<<"engine", "session">>, <<"engine", "request">>} \subseteq alive
               /\ (readEnv["external"] = "1") <=> ("encode" \in hooks)
               /\ readEnv["external"] = Meant("external")
    <3>1. {<<"engine", "session">>, <<"engine", "request">>} \subseteq DiarAlive(cfg) /\ "external" \in DiarReads(cfg)
      BY <2>5 DEF DiarAlive, DiarReads, Parts
    <3>2. readEnv["external"] = MeantBy(cfg, "external")
      BY <2>3, <3>1 DEF ReadOf
    <3>3. cfg.native <=> "encode" \in hooks
      BY <2>3, <2>5 DEF AsrHooks, DiarHooks, EncoderHooks
    <3>4. MeantBy(cfg, "external") = IF cfg.native THEN "1" ELSE "0"
      BY DEF MeantBy
    <3>. QED
      BY <2>3, <3>1, <3>2, <3>3, <3>4, TargetIs
  <2>. QED
    BY <2>4, <2>5
<1>. QED
  BY <1>1, EngineInvariant, PTL

\* However far init came, all that the engine owns is released at the exit, and
\* only the parts of a LiteRT graph whose constructor threw have leaked.
THEOREM NothingIsLeft == Spec => []NothingLeft
<1>1. EngineInv => NothingLeft
  BY DEF EngineInv, NothingLeft
<1>. QED
  BY <1>1, EngineInvariant, PTL

-----------------------------------------------------------------------------
(* The types of the program *)

\* What is printed, and where what is not printed goes.
OutputInv ==
  /\ wanted \in Outputs
  /\ stdout \in Seq({"usage", "transcript", "stats", "json"})
  /\ told \subseteq {"transcript", "turns", "tokens"} \X {"file", "stderr"}

\* At first nothing is printed.
LEMMA OutputInit ==
  ASSUME Init
  PROVE  OutputInv
BY DEF Init, OutputInv

\* Every step of the program keeps the types of its output.
LEMMA OutputStep ==
  ASSUME OutputInv, [Next]_vars
  PROVE  OutputInv'
<1>. DEFINE Words == {"usage", "transcript", "stats", "json"}
<1>1. CASE Arguments
  <2>1. <<>> \in Seq(Words) /\ <<"usage">> \in Seq(Words)
    OBVIOUS
  <2>. QED
    BY <1>1, <2>1 DEF Arguments, OutputInv
<1>2. CASE WriteTranscript
  <2>1. CASE Sink = "stdout"
    <3>1. stdout' = Append(stdout, "transcript") /\ UNCHANGED <<told, wanted>>
      BY <1>2, <2>1 DEF WriteTranscript
    <3>. QED
      BY <3>1 DEF OutputInv
  <2>2. CASE Sink # "stdout"
    <3>1. told' = told \cup {<<"transcript", Sink>>} /\ UNCHANGED <<stdout, wanted>>
      BY <1>2, <2>2 DEF WriteTranscript
    <3>2. Sink \in {"file", "stderr"}
      BY <2>2 DEF Sink
    <3>. QED
      BY <3>1, <3>2 DEF OutputInv
  <2>. QED
    BY <2>1, <2>2
<1>3. CASE WriteTurns
  BY <1>3 DEF WriteTurns, OutputInv
<1>4. CASE WriteTokens
  BY <1>4 DEF WriteTokens, OutputInv
<1>5. CASE Report
  <2>1. PICK w \in Words : stdout' = Append(stdout, w)
    BY <1>5 DEF Report
  <2>2. UNCHANGED <<told, wanted>>
    BY <1>5 DEF Report
  <2>. QED
    BY <2>1, <2>2 DEF OutputInv
<1>6. CASE \/ InitGoesOn \/ InitFails \/ InitAborts \/ InitEnds \/ Load \/ LoadEnds \/ Push \/ PushFails
           \/ RunEnds \/ CannotWrite \/ Destroy \/ Exit \/ Stop \/ UNCHANGED vars
  <2>1. UNCHANGED <<stdout, told, wanted>>
    BY <1>6 DEF InitGoesOn, InitFails, InitAborts, InitEnds, Load, LoadEnds, Push, PushFails, RunEnds,
                CannotWrite, Destroy, Exit, Stop, vars, output
  <2>. QED
    BY <2>1 DEF OutputInv
<1>. QED
  BY <1>1, <1>2, <1>3, <1>4, <1>5, <1>6 DEF Next, Advance

\* Types of all parts of the program, that what leaked is owned by nobody, and
\* that there is a status exactly when main has returned.
THEOREM MainTypeCorrect == Spec => []TypeOK
<1>1. Init => WavInv /\ Idle /\ EngineInv /\ OutputInv /\ Progress
  BY ReaderInit, EngineBegins, OutputInit, ProgressInit
<1>2. WavInv /\ Idle /\ EngineInv /\ OutputInv /\ Progress /\ [Next]_vars
        => (WavInv /\ Idle /\ EngineInv /\ OutputInv /\ Progress)'
  BY ReaderStep, EngineSteps, OutputStep, ProgressStep
<1>3. WavInv /\ EngineInv /\ OutputInv /\ Progress => TypeOK
  <2>. SUFFICES ASSUME WavInv, EngineInv, OutputInv, Progress
                PROVE  TypeOK
    OBVIOUS
  <2>1. WavTypeOK
    <3>1. CASE wav = "closed"
      BY <3>1 DEF WavInv, WavTypeOK
    <3>2. CASE wav # "closed"
      <4>1. file \in DOMAIN Files /\ Named(Content, seen)
        BY <3>2 DEF WavInv
      <4>2. file # NoFile /\ Content.magic \in Magic
        BY <4>1, ContentFacts DEF File
      <4>. QED
        BY <4>1, <4>2 DEF WavInv, WavTypeOK, Named, Indices
    <3>. QED
      BY <3>1, <3>2
  <2>2. status \in {Running, 0, 1, 2} /\ (phase \in {"destroy", "exited"} <=> status # Running)
    BY DEF Progress, Running
  <2>3. phase \in {"arguments", "init", "load", "run", "transcript", "turns", "tokens", "report",
                   "destroy", "exited", "crashed"}
    BY DEF Progress
  <2>. QED
    BY <2>1, <2>2, <2>3 DEF TypeOK, EngineInv, EngineTypeOK, OutputInv
<1>. QED
  BY <1>1, <1>2, <1>3, PTL DEF Spec
=============================================================================
