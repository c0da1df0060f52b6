----------------------------- MODULE WavReader -----------------------------
(***************************************************************************)
(* Wav::load and Wav::to_16k (src/src/wav.h): the walk over the chunks of  *)
(* a RIFF file, the checks on what it found, and the conversion to 16 kHz. *)
(* One action per iteration of the walk.  A file is the sequence of chunks *)
(* its writer wrote, and how many of their bytes are really there.         *)
(***************************************************************************)
EXTENDS Integers, Sequences

CONSTANTS
  Files,  \* what is in each file the reader may be given, by name
  NoFile,
  RateLimit  \* 2^31, scaled down: no int is larger

\* What a file starts with: it cannot be opened, or holds fewer than 4 bytes, or
\* other ones than "RIFF", or these.
Magic == {"absent", "short", "other", "RIFF"}

\* A chunk has a name and a size; pcm16, channels and rate are what the sixteen
\* bytes from its body on say if they are read as a format, even where the chunk is
\* shorter.  The one size whose rounding wraps around, 2^32 - 1, is left out.
Chunk == [id : {"fmt", "data", "other"}, size : Nat, pcm16 : BOOLEAN, channels : Nat,
          rate : 0 .. 2 * RateLimit - 1]

VARIABLES
  file,    \* the name of the file being read
  wav,     \* "closed", "walk", "check", "resample", "ready", "refused", "crashed"
  at,      \* the offset the next chunk name is read from
  seen,    \* the latest fmt and data chunk, as indices; 0 for none
  frames,  \* length of pcm
  rate     \* of pcm

wavVars == <<file, wav, at, seen, frames, rate>>

\* Scaled down with the files: "RIFF", size and "WAVE"; a name and a size.
FirstChunk == 12
HeaderSize == 8
FmtBytes == 16

\* Chunks are word-aligned.
Even(size) == size + (size % 2)

\* Where the chunks of a file begin, and where the one after the last would.
Starts(f) ==
  LET start[i \in 1 .. Len(f.chunks) + 1] ==
        IF i = 1 THEN FirstChunk ELSE start[i - 1] + HeaderSize + Even(f.chunks[i - 1].size)
  IN  start

\* Behind the last chunk there is no room for the name and size of another.
ASSUME FilesAssumption ==
  /\ RateLimit \in Nat
  /\ NoFile \notin DOMAIN Files
  /\ \A name \in DOMAIN Files :
       LET f == Files[name]
       IN  /\ f \in [magic : Magic, chunks : Seq(Chunk), bytes : Nat]
           /\ f.bytes < Starts(f)[Len(f.chunks) + 1] + HeaderSize

\* Nothing is being read.
WavInit ==
  /\ file = NoFile /\ wav = "closed"
  /\ at = 0 /\ seen = [fmt |-> 0, data |-> 0]
  /\ frames = 0 /\ rate = 0

\* Only a file that begins with "RIFF" is walked, from behind "WAVE".
Open ==
  /\ wav = "closed"
  /\ file' \in DOMAIN Files
  /\ wav' = IF Files[file'].magic = "RIFF" THEN "walk" ELSE "refused"
  /\ at' = FirstChunk
  /\ UNCHANGED <<seen, frames, rate>>

-----------------------------------------------------------------------------
(* The walk *)

Content == Files[file]

\* No name and size can be read any more.
PastEnd == at + HeaderSize > Content.bytes

\* Bug: the loop goes on although nothing was read.
EndOfFileUnnoticed ==
  /\ wav = "walk" /\ PastEnd
  /\ UNCHANGED wavVars

\* The walk ends with the file.
EndOfFile ==
  /\ wav = "walk" /\ PastEnd
  /\ wav' = "check"
  /\ UNCHANGED <<file, at, seen, frames, rate>>

\* Bug (the one the planted test fault brings back): the next offset is measured
\* behind what was read of the body.
FollowingPlanted(i) ==
  LET c == Content.chunks[i]
  IN  at + HeaderSize + (IF c.id = "fmt" THEN FmtBytes ELSE 0) + Even(c.size)

\* The offset behind the body of chunk i, which was read at at.
Following(i) == at + HeaderSize + Even(Content.chunks[i].size)

\* Bug: the data chunk ends the walk, as if the format always came first.
DoneAtData(i, found) == Content.chunks[i].size = 0 \/ found.data # 0

\* The walk ends at an empty chunk, or once there is a format and data.
Done(i, found) == Content.chunks[i].size = 0 \/ (found.fmt # 0 /\ found.data # 0)

\* A chunk is read where one begins; a later fmt or data replaces an earlier one.
ReadChunk(i) ==
  /\ wav = "walk" /\ ~ PastEnd
  /\ Starts(Content)[i] = at
  /\ LET c == Content.chunks[i]
         found == IF c.id = "other" THEN seen ELSE [seen EXCEPT ![c.id] = i]
     IN  IF c.id = "fmt" /\ at + HeaderSize + FmtBytes > Content.bytes
         THEN wav' = "refused" /\ UNCHANGED <<at, seen>>
         ELSE /\ seen' = found
              /\ at' = Following(i)
              /\ wav' = IF Done(i, found) THEN "check" ELSE "walk"
  /\ UNCHANGED <<file, frames, rate>>

-----------------------------------------------------------------------------
(* The samples *)

Block(c) == 2 * c.channels
FramesOf(fmt, data) == data.size \div Block(fmt)

\* Both chunks were found, the format is one the reader knows, and all of the
\* samples are there: an odd rest of the data is not asked for.
Sound ==
  /\ seen.fmt # 0 /\ seen.data # 0
  /\ LET fmt == Content.chunks[seen.fmt]
         data == Content.chunks[seen.data]
     IN  /\ fmt.pcm16 /\ fmt.channels > 0
         /\ Starts(Content)[seen.data] + HeaderSize + Block(fmt) * FramesOf(fmt, data) <= Content.bytes

Refuse ==
  /\ wav = "check" /\ ~ Sound
  /\ wav' = "refused"
  /\ UNCHANGED <<file, at, seen, frames, rate>>

\* (int)rate: the upper half of the unsigned rates is negative.
AsInt(n) == IF n < RateLimit THEN n ELSE n - 2 * RateLimit

Convert ==
  /\ wav = "check" /\ Sound
  /\ frames' = FramesOf(Content.chunks[seen.fmt], Content.chunks[seen.data])
  /\ rate' = AsInt(Content.chunks[seen.fmt].rate)
  /\ wav' = IF rate' = 16000 THEN "ready" ELSE "resample"
  /\ UNCHANGED <<file, at, seen>>

\* The number of samples is not a size: infinite, or -1 and less.
Unsizable == rate = 0 \/ (rate < 0 /\ frames * 16000 >= -rate)

\* The ratio of the rates, a double, times n, cut off to a whole number, and one.
\* Rounding loses a sample at most where the quotient is whole and the ratio is
\* not, and gains none: no quotient of 32-bit numbers is that close below another.
Lengths(n, r) ==
  IF r < 0 THEN {1}
  ELSE LET q == (n * 16000) \div r
       IN  {q + 1} \cup (IF (n * 16000) % r = 0 /\ 16000 % r # 0 THEN {q} ELSE {})

\* to_16k
Resample ==
  /\ wav = "resample" /\ frames > 0 /\ ~ Unsizable
  /\ frames' \in Lengths(frames, rate)
  /\ rate' = 16000
  /\ wav' = "ready"
  /\ UNCHANGED <<file, at, seen>>

\* The conversion to a size is undefined: too long to allocate, or, 1 added to the
\* largest size or to 0, none or one.
ResampleUndefined ==
  /\ wav = "resample" /\ frames > 0 /\ Unsizable
  /\ \/ wav' = "ready" /\ frames' \in {0, 1} /\ rate' = 16000
     \/ wav' = "crashed" /\ UNCHANGED <<frames, rate>>
  /\ UNCHANGED <<file, at, seen>>

\* One sample is asked for when there are none: the index of the last is -1.
ResampleNothing ==
  /\ wav = "resample" /\ frames = 0
  /\ wav' = "crashed"
  /\ UNCHANGED <<file, at, seen, frames, rate>>

WavStep ==
  \/ EndOfFile \/ (\E i \in DOMAIN Content.chunks : ReadChunk(i))
  \/ Refuse \/ Convert \/ Resample \/ ResampleUndefined \/ ResampleNothing

\* The file is closed and the locals are gone.
Close ==
  /\ file' = NoFile /\ wav' = "closed"
  /\ at' = 0 /\ seen' = [fmt |-> 0, data |-> 0]
  /\ frames' = 0 /\ rate' = 0

WavBusy == wav \in {"walk", "check", "resample"}
WavEnded == wav \in {"ready", "refused", "crashed"}

-----------------------------------------------------------------------------
(* Properties *)

WavTypeOK ==
  /\ wav \in {"closed", "walk", "check", "resample", "ready", "refused", "crashed"}
  /\ at \in Nat /\ frames \in Nat /\ rate \in Int
  /\ file = NoFile => seen = [fmt |-> 0, data |-> 0]
  /\ file # NoFile =>
       /\ Content.magic \in Magic
       /\ seen.fmt # 0 => Content.chunks[seen.fmt].id = "fmt"
       /\ seen.data # 0 => Content.chunks[seen.data].id = "data"

\* "Measuring after parsing a 16-byte fmt skips one chunk and lands mid-LIST":
\* a name is read only where a chunk begins, whatever sizes, odd ones and empty
\* ones the file has, so nothing inside a chunk is taken for another.
NeverMisread ==
  wav = "walk" => PastEnd \/ (\E i \in DOMAIN Content.chunks : Starts(Content)[i] = at)

\* A file as its writer means it: one format, one data chunk in any order among
\* others, none of them empty before the later of the two, and all data there.
Indices(f, id) == {i \in DOMAIN f.chunks : f.chunks[i].id = id}

WellFormed(f, fmt, data) ==
  /\ f.magic = "RIFF"
  /\ Indices(f, "fmt") = {fmt} /\ Indices(f, "data") = {data}
  /\ \A i \in DOMAIN f.chunks : i <= fmt \/ i <= data => f.chunks[i].size > 0
  /\ f.chunks[fmt].size >= FmtBytes /\ f.chunks[fmt].pcm16 /\ f.chunks[fmt].channels > 0
  /\ \A i \in {fmt, data} : Starts(f)[i] + HeaderSize + f.chunks[i].size <= f.bytes

\* m samples at 16 kHz take the time that n take at r, to one of them.
KeepsTheTime(n, r, m) ==
  LET q == (n * 16000) \div r IN IF r = 16000 THEN m = n ELSE m \in {q, q + 1}

\* "Fails loudly on anything else rather than guessing": a well-formed file is
\* never refused and gives the samples it declares, and what is not refused was
\* declared by the file.  Nothing is said of the length at a rate that is no
\* positive int.
ReadsTheDeclaredData ==
  WavEnded =>
    /\ \A fmt, data \in DOMAIN Content.chunks :
         WellFormed(Content, fmt, data) => wav # "refused" /\ seen = [fmt |-> fmt, data |-> data]
    /\ wav # "refused" =>
         /\ Content.magic = "RIFF"
         /\ \E fmt \in Indices(Content, "fmt"), data \in Indices(Content, "data") :
              /\ Content.chunks[fmt].pcm16 /\ Content.chunks[fmt].channels > 0
              /\ LET n == FramesOf(Content.chunks[fmt], Content.chunks[data])
                     was == AsInt(Content.chunks[fmt].rate)
                 IN  /\ Starts(Content)[data] + HeaderSize + Block(Content.chunks[fmt]) * n <= Content.bytes
                     /\ wav = "ready" /\ was > 0 => rate = 16000 /\ KeepsTheTime(n, was, frames)
=============================================================================
