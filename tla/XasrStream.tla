----------------------------- MODULE XasrStream -----------------------------
(***************************************************************************)
(* The recognizer's stream on LiteRT: XasrLiteRT with its two sets of      *)
(* state buffers (src/src/xasr_litert.cc over src/src/litert_graph.cc),    *)
(* called window by window by the loop the recognizer's patches add        *)
(* (crispasr-chunk-hook.patch), and the greedy decoder that counts frames  *)
(* (crispasr-token-times.patch).  Audio is counted in windows; what a      *)
(* buffer holds is the sequence of windows that went into it.              *)
(***************************************************************************)
EXTENDS Integers, Sequences, Functions, FiniteSets

CONSTANTS
  MaxWindows,  \* bound: windows of features the audio can make up
  Torn         \* what a failed run leaves in a buffer

ASSUME AsrAssumption == MaxWindows \in Nat /\ Torn \notin Seq(Nat)

VARIABLES
  fits,     \* the exported graph has the geometry the model asks for
  feat,     \* feat_h_: the window to encode
  sets,     \* states_[0] and states_[1]
  cur,      \* cur_: the set that is fed next
  enc,      \* enc_h_: the encoding the last run wrote
  asr,      \* "idle", inside an accept "next", "run" or "read"; "aborted"
  rows,     \* n_rows, as windows: features computed so far
  pos,      \* windows consumed
  encOut,   \* enc_out: encodings of this accept
  decoded,  \* encodings greedy_run has gone over
  times,    \* the frame position it counted for each of them
  framePos, \* frame_pos
  lost      \* (history) encodings of accepts that failed later

carried == <<feat, sets, cur, enc>>
spoken == <<decoded, times, framePos, lost>>
asrVars == <<fits, carried, asr, rows, pos, encOut, spoken>>

\* The encoding of a window is that of all windows up to it.
Upto(n) == [i \in 1 .. n |-> i]

\* The stream as xasr_stream_init leaves it: it resets what it starts with.
AsrInit ==
  /\ fits \in BOOLEAN
  /\ feat = 0 /\ enc = <<>>
  /\ sets = [s \in {0, 1} |-> <<>>] /\ cur = 0
  /\ asr = "idle" /\ rows = 0 /\ pos = 0 /\ encOut = <<>>
  /\ decoded = <<>> /\ times = <<>> /\ framePos = 0 /\ lost = {}

-----------------------------------------------------------------------------
(* An accept *)

\* External: the features of the samples are computed, enough for more windows
\* or for none.
Accept ==
  /\ asr = "idle"
  /\ asr' = "next"
  /\ rows' \in rows .. MaxWindows
  /\ encOut' = <<>>
  /\ UNCHANGED <<fits, carried, pos, spoken>>

\* A chunk that fails ends the accept with NULL: windows consumed before it stay
\* consumed, what they were encoded to is dropped.
AcceptNull ==
  /\ asr' = "idle"
  /\ lost' = lost \cup Range(encOut)
  /\ encOut' = <<>>
  /\ UNCHANGED <<fits, rows, pos, decoded, times, framePos, cur>>

\* XasrLiteRT::chunk: the geometry is checked and the window copied in.
WriteFeatures ==
  /\ asr = "next" /\ pos < rows /\ fits
  /\ feat' = pos + 1
  /\ asr' = "run"
  /\ UNCHANGED <<fits, sets, cur, enc, rows, pos, encOut, spoken>>

\* Another geometry, or a buffer that cannot be locked: nothing is written.
ChunkRefused ==
  /\ asr = "next" /\ pos < rows
  /\ AcceptNull
  /\ UNCHANGED <<feat, sets, enc>>

Encoded == Append(sets[cur], feat)

\* Bug: the states are read and written in one set.
RunGraphInPlace ==
  /\ asr = "run"
  /\ \/ /\ enc' = Encoded /\ sets' = [sets EXCEPT ![cur] = Encoded]
        /\ asr' = "read"
        /\ UNCHANGED <<fits, feat, cur, rows, pos, encOut, spoken>>
     \/ /\ enc' = Torn /\ sets' = [sets EXCEPT ![cur] = Torn]
        /\ AcceptNull
        /\ UNCHANGED feat

\* run_bound: from one set of states into the other and the encoding, or an
\* error in the middle of it.
RunGraph ==
  /\ asr = "run"
  /\ \/ /\ enc' = Encoded /\ sets' = [sets EXCEPT ![1 - cur] = Encoded]
        /\ asr' = "read"
        /\ UNCHANGED <<fits, feat, cur, rows, pos, encOut, spoken>>
     \/ /\ enc' = Torn /\ sets' = [sets EXCEPT ![1 - cur] = Torn]
        /\ AcceptNull
        /\ UNCHANGED feat

\* Bug: a window whose encoding cannot be read is passed over.
ReadFailsAdvanced ==
  /\ asr = "read"
  /\ asr' = "idle"
  /\ lost' = lost \cup Range(encOut)
  /\ encOut' = <<>>
  /\ pos' = pos + 1
  /\ UNCHANGED <<fits, feat, sets, enc, cur, rows, decoded, times, framePos>>

\* The encoding cannot be read: the set that was written is not the current one.
ReadFails ==
  /\ asr = "read"
  /\ AcceptNull
  /\ UNCHANGED <<feat, sets, enc>>

\* The sets change roles, and the recognizer moves on by a window.
ReadEncoding ==
  /\ asr = "read"
  /\ cur' = 1 - cur
  /\ encOut' = Append(encOut, enc)
  /\ pos' = pos + 1
  /\ asr' = "next"
  /\ UNCHANGED <<fits, feat, sets, enc, rows, spoken>>

\* Bug: the frame counter starts again with every call.
GreedyFromZero ==
  /\ asr = "next" /\ pos = rows
  /\ decoded' = decoded \o encOut
  /\ times' = times \o [i \in DOMAIN encOut |-> i - 1]
  /\ framePos' = Len(encOut)
  /\ asr' = "idle"
  /\ encOut' = <<>>
  /\ UNCHANGED <<fits, carried, rows, pos, lost>>

\* greedy_run over the encodings of the accept, once all of them are there.
Greedy ==
  /\ asr = "next" /\ pos = rows
  /\ decoded' = decoded \o encOut
  /\ times' = times \o [i \in DOMAIN encOut |-> framePos + i - 1]
  /\ framePos' = framePos + Len(encOut)
  /\ asr' = "idle"
  /\ encOut' = <<>>
  /\ UNCHANGED <<fits, carried, rows, pos, lost>>

-----------------------------------------------------------------------------
(* stream_reset *)

\* Bug: only the current set is zeroed, and the index is not.
ResetCurrentOnly ==
  /\ asr = "idle"
  /\ sets' = [sets EXCEPT ![0] = <<>>]
  /\ rows' = 0 /\ pos' = 0 /\ encOut' = <<>>
  /\ decoded' = <<>> /\ times' = <<>> /\ framePos' = 0 /\ lost' = {}
  /\ UNCHANGED <<fits, feat, cur, enc, asr>>

\* XasrLiteRT::reset zeroes both sets, greedy_init and the rest start over.
Reset ==
  /\ asr = "idle"
  /\ sets' = [s \in {0, 1} |-> <<>>] /\ cur' = 0
  /\ rows' = 0 /\ pos' = 0 /\ encOut' = <<>>
  /\ decoded' = <<>> /\ times' = <<>> /\ framePos' = 0 /\ lost' = {}
  /\ UNCHANGED <<fits, feat, enc, asr>>

\* A buffer that cannot be zeroed throws through the C callback: no handler.
ResetAborts ==
  /\ asr = "idle"
  /\ asr' = "aborted"
  /\ \E zeroed \in {{}, {0}} : sets' = [s \in {0, 1} |-> IF s \in zeroed THEN <<>> ELSE sets[s]]
  /\ UNCHANGED <<fits, feat, cur, enc, rows, pos, encOut, spoken>>

AsrStep ==
  \/ WriteFeatures \/ ChunkRefused \/ RunGraph
  \/ ReadFails \/ ReadEncoding \/ Greedy

AsrNext == Accept \/ AsrStep \/ Reset \/ ResetAborts

AsrSpec == AsrInit /\ [][AsrNext]_asrVars

-----------------------------------------------------------------------------
(* Properties *)

\* Types; the states are sets of buffers whatever happened to them.
AsrTypeOK ==
  /\ fits \in BOOLEAN /\ cur \in {0, 1}
  /\ feat \in Nat /\ enc \in Seq(Nat) \cup {Torn}
  /\ sets \in [{0, 1} -> Seq(Nat) \cup {Torn}]
  /\ asr \in {"idle", "next", "run", "read", "aborted"}
  /\ rows \in Nat /\ pos \in 0 .. rows
  /\ encOut \in Seq(Seq(Nat)) /\ decoded \in Seq(Seq(Nat))
  /\ times \in Seq(Nat) /\ framePos \in Nat
  /\ lost \in SUBSET Seq(Nat)

\* The states fed to the next window are those of exactly the windows consumed,
\* however many chunks failed in between and at which of their steps; and what
\* the recognizer was given are encodings of complete histories, never Torn.
CarriedState ==
  /\ asr # "aborted" => sets[cur] = Upto(pos)
  /\ \A e \in Range(encOut) \cup Range(decoded) \cup lost : e = Upto(Len(e)) /\ Len(e) \in 1 .. pos

\* Every window consumed is decoded once, in order, waits to be, or was dropped
\* by an accept that failed: none is decoded twice by the retry.
Accounted ==
  LET known == decoded \o encOut
  IN  /\ \A i, j \in DOMAIN known : i < j => Len(known[i]) < Len(known[j])
      /\ \A e \in lost : e \notin Range(known)
      /\ Cardinality(lost) + Len(known) = pos

\* "Frame k starts at k * 40 ms of audio" as far as nothing was dropped: a time
\* is early by exactly the windows lost before it.
TimesLagByTheLost ==
  \A i \in DOMAIN decoded :
    times[i] = Len(decoded[i]) - 1 - Cardinality({e \in lost : Len(e) < Len(decoded[i])})

\* XasrLiteRT with the loop that feeds it implements the causal stream.
Stream == INSTANCE CausalStream WITH
  history <- IF asr = "aborted" THEN Upto(pos) ELSE sets[cur],
  said <- Range(decoded) \cup Range(encOut) \cup lost

LayerOverStream == Stream!Spec
=============================================================================
