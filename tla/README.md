# A verification model of nemo-x-asr-diarizer

The program runs two streaming models over one audio file: a diarizer (who
speaks when) and a recognizer (what is said), and publishes a transcript whose
lines carry speaker numbers. The models themselves are numerics; what can be
wrong without any number being wrong is the composition: which turn a character
belongs to, what happens when the two engines answer late, fail, or change their
minds. That composition is what is modelled here. Paths are relative to the
repository's root directory, which holds another `src/`.

## 1. Inventory

| Component | State | Operations | Interacts through |
|---|---|---|---|
| Turn list, `Fusion::update_turns` | `turns_` | one call per diarizer result | called by `Engine::run`; read by `covering` |
| Character timeline, `Fusion::push_delta`, `push_token` | `text_`, `spans_` | place the characters of a delta or token in audio time | written by the run loop or rebuilt from token times |
| Attribution, `covering`, `attribute_all`, `tag_sequence`, `Engine::attribute` | locals; `spk_id_` outlives a pass | one provisional or final pass | reads both; hands segments to a callback |
| Run loop, `Engine::run` | `off`, `asr_text_`, `charged_upto`, `turns_seen` | feed a piece to both engines, tail, final decode, final pass | C calls into the engines, which may fail |
| Life cycle, `Engine::init`, `~Engine` | a dozen handles, two hooks | acquire in order, release in order | hooks called by the diarizer library |
| Native diarizer encoder, `DiarCrispASR::encode` | a graph cached for one frame count | rebuild, feed, compute | called from a push through the hook |
| LiteRT wrappers, `LiteRtGraph`, `DiarLiteRT`, `XasrLiteRT` | buffers; two state sets and an index | run, chunk, reset | called from a push or an accept through hooks |
| Window output, `main` | windows of lines | group characters into words and words into windows | reads segments and the token table |
| WAV reader, `Wav::load`, `to_16k` | file position, format, data | walk the chunks, mix down, resample | called by the run |

The hard behaviours are not parallelism: the engines are called one after the
other on one thread. They are

* *order*: the diarizer restates, extends, relabels and re-segments turns; text
  comes out later than the audio it describes, in deltas that cut words;
* *staleness*: a provisional pass works on a timeline that lags the turns and
  shares the speaker numbers with the final one;
* *partial failure*: an accept that returns NULL, a push that fails, a final
  decode that fails, a token table that is missing or disagrees, a step of
  `init` that fails after ten others succeeded, a file that cannot be opened
  after others were written;
* *carried state*: encoder states swapped between two sets of buffers, a graph
  cached for one frame count, buffers that still hold the last window, speaker
  numbers and environment variables that an earlier pass or engine set;
* *boundaries*: a latency larger than the audio fed, empty intervals, ties,
  tolerances of zero, pieces that do not divide the audio.

Each component is correct when: the turn list keeps every turn it was told,
once, in order; every character has a place in the audio fed so far, in order;
attribution cuts the text and never rewrites it, keeps words whole, gives a word
spoken inside one speaker's turn to that speaker and numbers speakers by first
appearance; a run ends and publishes the recognizer's transcript, once, or fails
and publishes nothing; the recognizer's states are those of exactly the windows
it consumed; an encoder's answer depends on nothing but the call; the window
output prints the transcript with its words whole; the WAV reader gives the
samples the file declares or refuses it; nothing is used after its release,
nothing is left at the exit, and stdout holds what it is documented to hold.

`PROJECT.json` lists the components, the hazards at their lines, and which
property watches each.

## 2. Modules

| Module | Models | Role |
|---|---|---|
| `Turns` | the turn record, matching, refinement, sorting of `update_turns` | operators |
| `TurnTimeline` | `update_turns`, one action per loop iteration | state machine |
| `TurnTimelineProofs` | | theorems about `TurnTimeline` |
| `Attribution` | `append_placed`, `covering`, `tag_sequence`, the loop body of `Engine::attribute` | operators |
| `AttributionLoop` | one attribution pass, loop by loop, on any given input | state machine |
| `Transcript` | what a run promises its caller | abstract specification |
| `EngineRun` | `Engine::run` with `Engine::attribute`, composing the operators of `Turns` and `Attribution` | state machine, implements `Transcript` |
| `AttributionProofs`, `AttributionLoopProofs`, `EngineRunProofs` | | theorems about the two, and their lemmas |
| `CausalStream` | what a streaming encoder promises | abstract specification |
| `XasrStream` | `XasrLiteRT`, the pool of `LiteRtGraph`, the recognizer's loop and its frame counter | state machine, implements `CausalStream` |
| `PureEncoder` | what an encoder hook promises | abstract specification |
| `DiarEncoder` | the engine's trampolines, `DiarPreEncode`, `DiarCrispASR::encode`, `DiarLiteRT::encode` | state machine, implements `PureEncoder` |
| `StreamBackends` | the run loop as the caller of both | composition of `XasrStream` and `DiarEncoder` |
| `StreamBackendsProofs` | | theorems about the three |
| `WindowOutput` | `Engine::token_table` and the `--windows` output of `main` | state machine |
| `WavReader` | `Wav::load`, `Wav::to_16k` | state machine |
| `EngineLifecycle` | `Engine::init`, `Engine::~Engine`, constructors and destructors of what they own | state machine |
| `MainProgram` | `main` around both | composition of `EngineLifecycle` and `WavReader` |
| `MainProgramProofs` | | theorems about `MainProgram`, `EngineLifecycle` and `WavReader` |
| `WindowOutputProofs` | | theorems about `WindowOutput` |
| `SequenceFacts` | | lemmas about numbers, sequences and `FlattenSeq` that these share |
| `MCTurnTimeline`, `MCAttributionLoop`, `MCEngineRun`, `MCStreamBackends`, `MCWindowOutput`, `MCMainProgram` | | small instances for TLC |

### Turn list

`turns` is `turns_`; `pending` is what the loop over the snapshot has still to
visit; `told` remembers the whole snapshot, for the properties only. `BeginUpdate`
is the call, `RefineTurn` and `AppendTurn` the two branches of an iteration; the
iteration that empties `pending` also does the final `std::sort`. The sort is not
stable, so `SortedOf` is the set of all ordered permutations; that the starts are
distinct (property `Separated`) is what makes it deterministic. Labels are
numbered in string order, 0 for the empty one. The comment in the code speaks of
two diarizer frames; the code's tolerance is `rate_ / 100`, 10 ms, and `Tol` is
that number, any natural number in the proofs.

### Attribution

Text is a sequence of codepoints; `Letter` is the set `word_char` accepts.
`Placed` is `append_placed`, with the rounding of `llround` as integer
arithmetic. `Covering` is the verdict on an interval: the turn of largest
overlap, first among equals, else the turn that `Filling` finds under one of the
two gap policies. `Winner` is the vote over a word, with the order of the
`std::map` that breaks ties. `TakePiece` is the body of the loop in
`Engine::attribute`: an open segment, the closed ones, the speaker numbers and
the count of unattributed characters. `AttributionLoop` runs these bodies one at
a time over a text that was delivered in two deltas with any split.

### Run

`EngineRun` has one action per step of `Engine::run`. For each piece: the
diarizer's push (`PushDiar`), perhaps a provisional pass, and the recognizer's
accept (`Accept`, or `AcceptFails` when it returns NULL); `TakeText` is the
delta, the horizon and the placement that follow an accept. After the loop:
`PushTail`, `Finish`, and the final pass. `PushFails` ends the run.
`BeginPass`, `TagUnit`, `TakeNextPiece`, `EndPass` are a pass, provisional or
final. The two engines are external: the diarizer answers with any snapshot of a
given set, the recognizer has heard any longer prefix of what is spoken, and
notes any time inside the piece for the new tokens. `shown` is the turn list of
the last provisional pass, of which the code keeps only the size (`turns_seen`).

A set-up (`cfg`) says what the run does: where character times come from, gap
policy, provisional passes, one engine only, tail, final decode, what the
recognizer's token table is like, and which accepts may return NULL. `main`
refuses to skip both engines, and so does the assumption on `Setups`.

`Transcript` is the abstract view: a transcript that only grows while the run is
open, and then is published once as a list of lines that is the transcript, cut
at speaker changes, with numbers in order of first appearance; or the run fails.
`EngineRun` implements it (property `LayerOverTranscript`) with the recognizer's
text as the transcript and the closed segments of the final pass as the lines.

### Recognizer on LiteRT

What a buffer holds is the sequence of windows that went into it, so an encoding
*is* the history it was computed from, and a run that failed half way leaves
`Torn`. `Accept` is `xasr_stream_accept` with any number of new windows.
`WriteFeatures`, `RunGraph`, `ReadEncoding` are the three stages of
`XasrLiteRT::chunk`; each has its failure (`ChunkRefused`, the second disjunct of
`RunGraph`, `ReadFails`), all of which end the accept with NULL: `AcceptNull`
keeps the windows consumed and drops what they were encoded to (`lost`, a
history variable). `Greedy` is the decoder that counts frames (`times`,
`framePos`); `Reset` and `ResetAborts` are `XasrLiteRT::reset`, where an
exception leaves a C callback and ends the process. `fits` is the check of the
exported graph's geometry, decided when it is loaded. A reset may come between
any two accepts, because the callback is the recognizer's to call; the engine
causes one, when it opens the stream.

`CausalStream`, the abstract view: the answer to a window is that of all windows
since the last restart, each once and in order; a window that failed left no
trace. `XasrStream` implements it with `sets[cur]` as the history.

### Diarizer encoders

Tensors are functions from frames to the audio their values came from; `Network`
keeps apart what an output row depends on: the embeddings, the keys the mask lets
through, the length the position tables were made for, and what came from behind
the window. `Call` is audio.cpp calling the hook with any window, also with
wrongly sized vectors. On ggml: `DropGraph`, `BuildGraph` or `BuildFails` when
the cached graph has another frame count, else `KeepGraph`; `FeedGraph` on every
call; `ComputeGraph`. The result of `ggml_gallocr_alloc_graph` is not looked at,
so a graph that was never placed may be cached and the compute may fail or crash
(`placed`). On LiteRT: `WriteWindow` with zero padding, `WriteValid`,
`RunLiteRt`, and the first rows read back. Every exception ends in `Throw`,
status 1.

`PureEncoder`, the abstract view: the answer to a call is a function, `Meaning`,
of that call, or the call fails. `DiarEncoder` implements it on both backends.

`StreamBackends` composes the two under `Engine::run`: pushes ask the encoder,
accepts run chunks; a window without an answer ends the run in a push, and only
the decode in the final decode; a NULL accept ends nothing.

### Window output

A report is what the engine hands to `main`: segments and the recognizer's tokens
with the text decoded up to each. `DecodeToken` is an iteration of
`token_table`; `BeginGrouping` lays the characters out, from tokens or from
segments, with their times and numbers, and opens the windows; then one action
per branch of the loop over characters (`OwnUnit`, `StartUnit`, `Separator`,
`Extend`, `NextUnit`) and the flush (`EndOfText`). `buf` is `buf`, `buf_at` and
`buf_label`; `win` the windows with their lines. `WindowAssumption` says of the
characters that the classes `main` tells apart are disjoint, and of a report what
the engine makes of one: at most one token per encoder frame, segments that do
not overlap and do not end before they start.

### WAV reader

A file is the sequence of chunks its writer wrote and the number of bytes that
are really there. `ReadChunk` is an iteration of the walk: it needs a chunk to
begin at `at`, and property `NeverMisread` says that one does. `Sound` is every
check after the walk; `Convert` and `Resample` count samples.
`FilesAssumption` says that behind the last chunk there is no room for one more
name and size, else those bytes were a chunk of the file. A format chunk shorter
than 16 bytes is read past its end, into the chunk behind it: `Chunk` says what
those sixteen bytes are, wherever they come from.

The rate is unsigned in the file and an `int` in the program, so the upper half
of the rates is negative (`AsInt`, with `RateLimit` for 2^31, scaled down as TLC's
numbers are 32 bits wide). The length after resampling is computed with a double:
`Lengths` lets it lose one sample where the exact quotient is whole and the ratio
is not, the only place where rounding can tell; the model does not know in which
of these cases it does. Undefined behaviour is kept as its outcomes:
`ResampleNothing` (index -1) and `ResampleUndefined` (a rate of 0, or a negative
one with more than one sample's worth of audio).

### Life cycle and main

`Plan` is `Engine::init` as data: for each configuration the sequence of steps,
each with what it acquires, checks, frees, sets or hooks in, what is given back
when it fails, and what leaks: the constructor of `LiteRtGraph` holds its parts
in a plain pointer, so a throw on the way frees nothing. `StepDone` and
`StepFails` execute one step. `ReleaseOrder` is the destructor's body followed by
the members in reverse order of declaration; `Release` takes the next thing there
is. The environment variables are inherited until they are set, and `readEnv` is
what a library read when it was created. What uses what (`Needs`, `Target`) is
external: it states how the handles of ggml, LiteRT and the two libraries depend
on one another. The build is one with LiteRT; main always passes options to the
diarizer, so there always is a request.

`MainProgram` is `main`: `Arguments`, `init`, loading the file, a run that goes
through or fails, the four outputs in order with each file that may fail to open,
and the destructor. What happens inside the run is `EngineRun` and
`StreamBackends`; what `--windows` prints is `WindowOutput`.

## 3. Runs

| Run | Shows | Bounds |
|---|---|---|
| `turns` | the list stays separated, ordered between calls, complete for the latest snapshot; no step forgets a turn; a restatement touches its own entry only | starts 0, 1, 2, 4 with tolerance 1, so that starts chain; two ends, two labels and the empty one; snapshots of one or two turns, any number of calls |
| `turns_overlap` (violation) | two speakers that begin together are merged into one turn | same |
| `attribution` | layer, whole words, numbering, honest telemetry, own turn wins | five texts of three to five characters with words at each position, three horizons, up to three turns that abut, overlap or leave gaps, three gap policies |
| `attribution_tie`, `attribution_majority` (violations) | the two comments on the vote are not what the code does | same |
| `engine` | refinement of `Transcript`, termination, placement inside the audio fed, order of the timeline, fresh numbers | three pieces, the last one short; latency longer than a piece; three characters, one of them no letter; three diarizer answers, one empty, one that relabels the other's turn; eight set-ups |
| `engine_asr_failure` (violation) | a NULL accept repeats the transcript | two set-ups in which an accept before the last may fail: without token times, and with timing inferred although there are some |
| `engine_tokenless` (violation) | forced token timing without a table publishes nothing | two set-ups with token timing: no table, and one that does not reproduce the text |
| `engine_live` (violation) | turns that change without a new one are not shown | one set-up with provisional passes |
| `windows` | every character printed once, in order; the same text with token times and without; words whole; only what trails the first character of a unit moves, and only to an earlier window | three tokens of one or two characters of every class, frames with and without gaps, times before 0 and past the last window, speakers that disagree or that no segment has, and a decode that rewrites or shortens what it said |
| `backends` | refinement of `CausalStream` and of `PureEncoder`, carried states, accounts of windows and times, one graph at a time, nothing lost unless an accept returned NULL | two pieces, three windows, resets between any two accepts; windows of one to three frames where the exported graph takes two; two kinds of audio; both backends, with and without the pre-encoder; every call may fail |
| `process` | nothing dangling after any failure of `init` or at any point of the destructor, nothing left at the exit, libraries read what this run means, with `--json` stdout holds the JSON only, the walk reads what a file declares, the program ends | every setting that the engine looks at, four combinations of outputs, all files of up to three chunks, complete or a byte short |

The turn list of `turns` is bounded by the number of starts (at most three
separated ones fit), not by the number of calls, so the run covers call
sequences of any length over its snapshots. In `engine` a piece boundary, a
delta, a provisional pass, a failed accept and a relabelling can meet in every
order the loop allows. The set-ups of `engine` are ones that `Recovers` admits; others are
those of the runs `engine_asr_failure` and `engine_tokenless`, where the promise
fails. No run has a last accept that returns NULL: section 4 says what is proved of
it. A NULL accept before the last piece is kept in, together with a usable token
table, because the table repairs the text.

In `windows`, three tokens give a unit before, across and behind a window
boundary; the loop looks at one character, the buffer and its last character, so
longer texts meet no other case. In `backends`, three windows let the index of
the two state sets come back to where it was, over a failure at every stage; the
frame counts make a window shorter than, as long as and longer than the exported
graph, and a second call of the same length reuse the cached graph. Two pieces
give a NULL accept a successor to retry. In `process`, three chunks are enough to
put an odd, an empty or an unknown chunk before, between and behind the format
and the data, in both orders, and to repeat either; the format chunk of 18 bytes
is one the reader does not read to its end. What is left out of the files: the
one size whose rounding wraps around (2^32 - 1).

Deadlock is checked everywhere: the state machines that end have an explicit
action for it (`Done`, `Stop`).

**Fairness.** Only `Terminates` and `Exits` need it: `WF_vars(Next)` on the
sequential loop of the run, `WF_vars(Advance)` on the steps of `main`. It says
that the thread runs and that calls into the engines and the system return,
which the code takes for granted (it has no timeout). It does not choose between
outcomes: `Exits` also holds where everything fails. `Piece > 0` is assumed: with
`--piece-ms 0` the loop of the code does not advance.

## 4. Proofs

`TurnTimelineProofs` proves, for every set of labels, every tolerance, every set
of snapshots of any length:

* `TypeCorrect`, `TurnsSeparated`, `SnapshotIsRepresented`: invariants;
* `NothingIsForgotten`, `RestatementIsExact`: action properties.

They follow from one inductive invariant, `IInv`: the types, `Separated`, and
`LoopInv`, which relates `pending` to `told`. `SnapshotRepresented` alone is not
inductive: it speaks of the moment when the loop is over, so the invariant has
to say in the middle of the loop which turns are already represented, and that
an entry that represents one still does after a later turn of the same snapshot
is merged into it. That holds because a refinement keeps the start and never
shortens; the lemmas about `Restated`, `Append` and `SortedOf` state this once.
`RestatementIsExact` needs `Separated`: the first match of a start that is in
the list is the entry itself, because no other entry is near.

The proofs assume `TurnsAssumption` (labels are positive numbers, the tolerance
is natural) and `SnapshotsAssumption` (a snapshot is a non-empty sequence of
turns); both callers return early on an empty one.

**Induction** (`SequenceFacts`). The library's induction theorems take an operator
as a parameter, which the provers cannot instantiate; with a *set* of numbers in
its place they can. `InductionOnSet` (what holds 0 and with each number the next
holds all) comes from the well-foundedness of `<`, and with it what the recursive
function inside `FlattenSeq` computes for a list of any length: it goes on with
what is appended (`FlattenAppend`), splits where the list does (`FlattenConcat`),
and commutes with a function of each member (`FlattenMapped`). `Joined` is the
texts of a list of records put end to end and `End` where the n-th of them ends;
`MaxFacts` is about the largest of a bounded set. What the models say with
`FlattenSeq`, a sum of sizes or a maximum is proved through these.

**Attribution** (`AttributionProofs`, `AttributionLoopProofs`), for any text,
turns and gap policy: `NumbersAreInOrder`, `UnlabelledComesFirst`,
`NothingStaysUntagged`, `LoopTyped`, `TextIsKept`, `NoWordIsCut`,
`CountIsHonest`, `OwnTurnWins`, all invariants of run `attribution`. The lemmas of
`AttributionProofs` say what the operators do: a placement is in its interval, in
order and with a width (`PlacedFacts`); the verdict on audio that turns overlap is
a turn of largest overlap (`CoveringFacts`); a policy without bound always finds a
turn (`FillingFacts`); the vote goes to a verdict nobody outvotes (`WinnerFacts`).
`Numbering` compares a segment with all before it, which the loop does not look
at again: the invariant (`Numbered`, inside `Tidy` and `InLoop`) says that the
labels with a number are exactly those of the segments so far, each once, and
that the number of a label counts the labels in front of its first segment.
`NeverUntagged` needs to know what may come out of each loop before it is over:
`Given` is the labels a verdict can have, which leaves out the empty one exactly
where the policy promises (`Promised`), and the invariant carries it from
verdicts to pieces to segments.

The other five are about where text ends up, and rest on a second invariant,
`PInv`. `Cuts`: the pieces, put end to end, are the text before `at`, every piece
ends with a unit, and every unit so far lies in a piece whose label won the vote
over that unit. `Taken`: the segments, put end to end, are the pieces taken, every
segment ends with a piece, a labelled piece lies in a segment of its label, and
what is counted as unattributed is the length of the pieces without one. Neither
`WordsWhole` nor `SpokenInOwnTurn` is inductive without the two borders, as each
compares the ends of two lists that are cut by different loops.

**Run** (`EngineRunProofs`), for audio, pieces, latency, text, set-ups and
answers of any size: `PinnedBehindTheFeed`, `TimelineOrdered`, `NumbersAreFresh`,
the refinement `RunKeepsThePromise` with `PromiseKeptWithoutNull`,
`NothingIsRewritten`, `AttributionRewritesNothing` and `OnlyTheEndIsMissing`,
`RunTypeCorrect`, and of the list of turns `TurnsInOrder` and `TurnsAreKept`.
That the next delta is placed behind the last one follows from what is charged
only together with `Wide`: characters have a width, so the ones there start
before what is charged, or at it where the code widened an empty interval.
`NumberedAfresh` is the invariant of the final pass (`FinalPass`); that a
provisional pass used the same map before does not matter because the final one
starts over, and that step is what the proof has to find.

The refinement rests on a second invariant, `RInv`, which holds in every
configuration. `Texts` follows the text from the recognizer to the pass: what is
heard is a beginning of what is spoken, a failed accept empties the engine's copy of
it and the next one brings all of it back, and the deltas put one after the other are
that text where no accept fails, and a beginning of it where only the last one may.
`Passes` follows it through the final pass: the
segments, then the pieces, spell the text before the next character, whatever the
provisional passes did before. Two more facts make the published lines those of
`Transcript`: neighbouring segments have different labels (`Alternating`, which
`TakePiece` keeps), and a number is one given before or the next one
(`NumbersInOrder`, from `Numbered`). `StepImplements` then maps each step: an accept
to `Hear`, the end of the final pass to `Publish`, a failed push to `Fail`, all
others to a stutter.

The types rest on a third invariant, `TInv`: `Loop` (the turns), `Listens` (token
times are as many as the characters and within the audio), `Attributes` (each
character the pass sees has a verdict, so each piece has a label and each label
one number). A push merges a whole result into the list at once, with `FoldLeft`
over the snapshot. `LoopExists` shows that the function by which `FoldLeft` is
defined exists, for snapshots of any length, and `FoldFacts` goes along it: every
iteration keeps the turns so far (`Keeps`) and their distance (`Apart`), and so
does the sort. `TurnTimelineProofs` proves the same of the loop taken one turn at a
time; here it holds of the whole step that the run takes.

When the pass is given what was heard depends on the configuration and on the
accepts, and the theorems say exactly how:

* `AttributionRewritesNothing`, without any condition: what is published spells the
  text the final pass was given (`SpellsThePassText`).
* `RunKeepsThePromise`, `Spec /\ Recovers(cfg) => LayerOverTranscript`, whatever
  accept returns. `Recovers`: the timing can be had (`Timed`: token timing has its
  exact table), the last accept does not return NULL, and an earlier one may only
  where an exact table replaces the timeline. In this case the text that
  the pass is given is the one heard (`PassTextIs`).
* `PromiseKeptWithoutNull`, the same wherever the timing can be had, for a run in
  which no accept happens to return NULL (`[][AcceptFails => Accept]_vars`: a step
  that may be explained by a NULL may also be explained without).
* `OnlyTheEndIsMissing`: where no accept but the last may fail, or where token timing
  is forced, what is published is at least a beginning of what was heard.
* `NothingIsRewritten` is the text alone, under the conditions of the second and third.

What is left are configurations in which an earlier accept may return NULL and the
published text may be taken from the timeline. Run `engine_asr_failure` shows that
text is doubled there (divergence 4). That the conditions are not too strong: run
`engine_tokenless` violates `NeverRewritten` where the timing cannot be had
(divergence 5), and a last accept that returns NULL ends a run whose last text the
engine has never seen. `MCEngineRun` assumes `Recovers` of the set-ups of the passing
run, and its negation of those of the two violation runs and of one with a last
accept that may fail.

**Recognizer** (`StreamBackendsProofs`): `StatesAreCarried`, `WindowsAreAccounted`,
`TimesLag` and the refinement `ImplementsCausalStream`, for any number of windows
and any sequence of failures and resets. The invariant `IInv` says what is in the
sets and the encoding at each stage (`Stages`), that the encodings of this accept
are those that came last (`Waiting`), that what is decoded, waiting and lost is
the windows consumed (`Ledger`, `Counted`), and `TimesLagByTheLost`, which is
inductive with them only.

**Diarizer** (`StreamBackendsProofs`): `NeverTwoArenas` and the refinement
`ImplementsPureEncoder`, for any window lengths and any kinds of audio. `DInv`
says for each stage which tensors already hold what this call put there; nothing
is said of the others, which is the point: the answer does not depend on them.

**Composition** (`StreamBackendsProofs`): the run loop uses each backend as its
own specification allows, `Spec => AsrSpec` and `Spec => DiarSpec`
(`StreamIsUsedProperly`, `EncoderIsUsedProperly`), so every theorem above holds
of the composition without a second proof. `RunTypeCorrect` and
`NothingIsLostWithoutNull` are about the composition itself. The latter needs no
induction over the stream: what is decoded is increasing histories, its length is
the number of windows consumed as nothing is lost, and each time is its index, so
the k-th is the k-th window.

**WAV reader** (`MainProgramProofs`): `NothingIsMisread` and `DeclaredDataIsRead`,
for any files with any number of chunks of any size. That the reader is at a
header the file declares is an invariant of the walk only together with which
header (`Walking`: the place is that of the i-th chunk, format and data in hand
are the latest before it, and no chunk before it is empty). The chunk starts are
a recursive sum of sizes; `StartsStep` is all the proof needs of it. Behind the
walk `WavInv` says that a well-formed file had its format and data found
(`FoundThem`), what was checked of them (`Sound`), and that a file that is refused
has no well-formed pair of them (`Malformed`).

**Life cycle** (`MainProgramProofs`): `NothingDangles`, `RunIsReady`,
`NothingIsLeft`. `NeverDangling` is not inductive: a step of init that creates
keeps it only where what is used is there already, and a step that fails only
where what is given back or leaks is used by nothing that stays. Both depend on
the steps before. So init is followed point by point: `Goes` says how a step leads
from what is alive, hooked in, set and read to what is next, that nothing dangles
on either side (`Fine`), that a variable is set before it is read, and that the
failure of the step leaves only what the destructor releases (`FailsWell`).
`Leads` is a plan that does so throughout, and plans compose (`LeadsOn`). One
lemma per constructor (`GraphLeads`, `CrispLeads`, `SessionLeads` ...) is put
together to `PlanLeads`: init leads from nothing to `Complete`, whatever the
configuration says. It does not matter in it that the configurations are finitely
many: the lemmas are about a constructor behind any point at which it may be
called (`Good`). For the destructor `ReleaseFacts` shows that the release order
has each user before what it uses (`Orderly`), each callback's holder before the
callback's object, and everything that can be alive when init is over or has
failed. `EngineInv` joins both: on the way through init the state is at a point of
the plan (`Underway`), during the run it has what init made and perhaps the graph
of the first window (`Made`), then less and less. The types of the engine follow.

**Output** (`MainProgramProofs`): `StdoutHoldsOneThing`, for any configurations,
files and output options. The invariant `Progress` says for each phase what stdout
and the files hold. `MainTypeCorrect` is the types of the whole process.

**Window output** (`WindowOutputProofs`): `WindowTypeCorrect`, `NoCharacterLost`,
`WindowsPrintTheTranscript`, `NoWordIsCut`, `CharactersStayInPlace`, for any
characters, tokens, times, speakers and window lengths, all invariants of run
`windows`. The inductive invariant is `WindowInv`. Before the characters are laid
out, `Decoded` says that the table's texts make up the cumulative text so far.
`CharactersFacts` is the passage to the second half: the characters, from tokens
or from segments, spell the transcript, and their times never go back
(`InOrder`), because a frame lasts `FrameStep`, at most one token falls into it
and segments do not overlap. From then on `Laid` says what the windows hold when
the characters before the b-th are in them: what is printed is those characters,
each in its place, no word is cut, and *no window with lines is behind one that a
character to come may go to*. The last part is what makes the rest inductive: a
unit is added to its own window, in the order of the output it must come last
there, and that is so only as times do not go back (`AddToLines`, `AddUnit`).
`Grouping` says where b is: the open unit's first character, with a word's edge in
front of it (`AtEdge`), so that flushing the unit cuts no word.

Assumptions of the proofs, besides those above: `CharDurAssumption`,
`InputAssumption`, `EngineAssumption` (what is spoken is a sequence, pieces are
longer than 0, the two engines are not both skipped), `AsrAssumption` (`Torn` is
no encoding), `DiarAssumption` (windows are not empty; padding and junk are not
audio), `PiecesAssumption`, `SetupsAssumption`, `FilesAssumption`,
`OutputsAssumption`, `WindowAssumption`. TLC evaluates all of them.

Only model-checked: liveness (`Terminates`, `Exits`), which is beyond the proof
system together with `ENABLED`. Every safety invariant and action property of the
passing runs is a theorem.

## 5. Divergences between the code and its words

1. `turns_overlap`: the match looks at the start only, so another speaker's turn
   is not "a new interval" when it starts at the same time.
2. `attribution_tie`: a tie goes to the verdict that the map sorts first, also
   between a speaker and no label.
3. `attribution_majority`: votes are counted per speaker *and* kind of verdict,
   so a word can go to a minority speaker.
4. `engine_asr_failure`: after a NULL accept the text is published twice, unless
   an exact token table replaces the timeline.
5. `engine_tokenless`: `--timing tokens` without token times, or with a table that
   does not reproduce the text, publishes no text.
6. `engine_live`: the provisional passes follow the number of turns, not their
   content.

Met while modelling, in words of the repository that no run refutes formally:

* `main.cpp:222` says "Punctuation and spaces attach to the word they follow".
  The flush after the first punctuation mark ends the unit, so a blank or a
  second mark after it opens the next one (`Extend`, `StartUnit`) and can be
  printed in a later window and under the next speaker.
* `main.cpp:184` says that stdout holds one thing. Without `--json` and `--out`
  it holds the transcript and the statistics (`Report`).
* The JSON of the telemetry is printed without escaping, and the real-time factor
  of empty audio is a quotient by zero, printed as `inf` or `nan`. The model
  knows only that it is printed.
* `wav.h:64` says a size of 0 would make the walk spin; it would not, the header
  moves it on. Ending there refuses a file with an empty chunk in front of its
  data, which `WellFormed` therefore leaves out.
* A token table whose cumulative text is rewritten, not extended, prints other
  text than the segments; `SameTextEitherWay` says so in its condition
  (`Reproduces`).
* The name of the backend is checked in the recognizer's half of `init` only:
  with `--no-asr` an unknown name gives the LiteRT encoder (`MakeEncoder`).
* An accept that returns NULL after some of its chunks drops the encodings of
  those, and every later token time is early by them (`TimesLagByTheLost` says by
  how much).

## 6. Not modelled

* Model numerics, mel features, the values of samples and weights, and the
  types tensors are read as: no protocol to check. Where they matter, the model
  says what a value was computed from.
* The inside of the two libraries. Patches to them are modelled as far as the
  engine's callbacks and times depend on them (the recognizer's chunk loop and
  its frame counter); the others are performance, profiling and oracles.
* Tests, which were read for what they intend; benchmarks and parity tools,
  export, merge and build scripts, which are not part of the running system.
* Timing statistics, core affinity, pacing and prefaulting: they change no
  result. The formatting of lines, tables and JSON.
* Confidences, and the start and end times of segments: carried to the output,
  they decide no text and no speaker.
* Bytes: text is codepoints, so a codepoint split between two deltas is outside
  the model, as are the byte-wise checks of the token table's text.
* Whether ending the diarizer's session still looks at its request, which the
  destructor frees first (`engine.cpp:114`): the code only says that the request must
  live through the run, which `ReadyToRun` checks, so `Needs` has no such pair.
* What ggml does with a graph whose intermediates were never placed
  (`diar_crispasr.cpp:495`): it fails or crashes in the model; and window lengths
  outside `0 .. frames`, which the ggml encoder does not refuse: audio.cpp, which
  counts them, is trusted with them.
* `--piece-ms 0`: the loop of the code never advances then (`Piece > 0` is assumed).
* A final decode that fails without an error: the run goes on with the turns it
  has, in the code and in the model, and no document says anything of it.

## 7. Plan

Done: the turn list, attribution, the run and its transcript, both backends and
their composition, window output, WAV reader, life cycle and process, and the
proofs of section 4.

Next, in this order:

1. Times of segments and pieces, and with them the reports of `WindowOutput` as
   what `EngineRun` publishes, so that the two compose.
2. Text as bytes in `Placed` and `token_table`, for codepoints cut by a delta.
