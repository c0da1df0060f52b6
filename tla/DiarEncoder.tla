----------------------------- MODULE DiarEncoder -----------------------------
(***************************************************************************)
(* The diarizer's encoder behind audio.cpp's hook: the trampoline of the   *)
(* engine (src/src/engine.cpp) into DiarCrispASR::encode, which keeps a    *)
(* graph for one frame count (src/src/diar_crispasr.cpp), or into          *)
(* DiarLiteRT::encode, which pads every window into the buffers of one     *)
(* exported graph (src/src/diar_litert.cc over src/src/litert_graph.cc).   *)
(* Numbers are modelled by where they come from: a tensor is a function    *)
(* from frames to the audio their embeddings were computed from.           *)
(***************************************************************************)
EXTENDS Integers, FiniteSets

CONSTANTS
  Audio,      \* what the frames of a window may be embeddings of
  Frames,     \* the window lengths audio.cpp may ask for
  MaxFrames,  \* kMaxFrames of the exported graph
  Backends,   \* subset of {"ggml", "litert"}
  Zero,       \* padding
  Junk,       \* undefined contents: a fresh buffer, a failed run
  Failed      \* status 1: no answer

ASSUME DiarAssumption ==
  /\ Frames \subseteq Nat \ {0} /\ MaxFrames \in Nat
  /\ Backends \subseteq {"ggml", "litert"}
  /\ Zero \notin Audio /\ Junk \notin Audio /\ Junk # Zero

\* A call: so many frames, of which the first valid are audio; fault: a vector
\* that has not the batch or the size the pre-encoder or encode asks for.  The ggml
\* encoder does not check valid, the LiteRT one does; that it lies within the window
\* is the caller's, audio.cpp, which counts the rows it passes.
Request == UNION {[of : Audio, frames : {f}, valid : 0 .. f, fault : {"none", "stacked", "embeddings"}] :
                    f \in Frames}

VARIABLES
  backend,    \* which encoder diar_encode_ calls
  pre,        \* diar_pre_encode_ is hooked in, too
  asked,      \* the call in progress, {} between calls
  diar,       \* where it is: "idle", "pre", "build", "feed", "valid", "run", "read", "crashed"
  graph,      \* ggml: the cached graph, {} for none
  building,   \* ggml: the graph under construction
  embBuf,     \* LiteRT: the embeddings buffer
  validBuf,   \* LiteRT: the valid_frames buffer
  outBuf,     \* the output tensor or buffer, as the run left it
  answer      \* what the hook returned last

tensors == <<graph, building, embBuf, validBuf, outBuf>>
hooks == <<backend, pre>>
diarVars == <<hooks, asked, diar, tensors, answer>>

DiarInit ==
  /\ backend \in Backends /\ pre \in {FALSE, backend = "litert"}
  /\ asked = {} /\ diar = "idle" /\ answer = Failed
  /\ graph = {} /\ building = {}
  /\ embBuf = [k \in 1 .. MaxFrames |-> Junk] /\ validBuf = Junk /\ outBuf = Junk

-----------------------------------------------------------------------------
(* The network: each output row depends on the embedding of its frame, on   *)
(* all frames the mask lets through, on the position tables, and near its   *)
(* end on what follows the window.                                          *)

Network(emb, keys, rope, beyond) == [rows |-> emb, keys |-> keys, rope |-> rope, beyond |-> beyond]

Embeddings(r) == [k \in 1 .. r.frames |-> r.of]

\* The answer to a call: a network as long as its window over its embeddings.
Meaning(r) == Network(Embeddings(r), [k \in 1 .. r.valid |-> r.of], r.frames, {})

-----------------------------------------------------------------------------
(* The trampoline *)

Entry == IF backend = "ggml" THEN "build" ELSE "feed"

\* audio.cpp calls for a window; what an earlier call was answered is its own.
Call ==
  /\ diar = "idle"
  /\ \E r \in Request : asked' = {r}
  /\ diar' = IF pre THEN "pre" ELSE Entry
  /\ answer' = Failed
  /\ UNCHANGED <<hooks, tensors>>

\* Any exception on the way is caught and becomes status 1.
Throw ==
  /\ answer' = Failed
  /\ asked' = {} /\ diar' = "idle"
  /\ UNCHANGED hooks

\* The output is copied for audio.cpp, or there is no memory for the copy.
Return(value) ==
  /\ answer' \in {value, Failed}
  /\ asked' = {} /\ diar' = "idle"
  /\ UNCHANGED <<hooks, tensors>>

\* DiarPreEncode::encode: every stacked row gives the embedding of its frame.
PreEncode ==
  /\ diar = "pre"
  /\ \E r \in asked : r.fault # "stacked"
  /\ diar' = Entry
  /\ UNCHANGED <<hooks, asked, tensors, answer>>

PreEncodeFails ==
  /\ diar = "pre"
  /\ Throw /\ UNCHANGED tensors

-----------------------------------------------------------------------------
(* DiarCrispASR::encode *)

\* There is no graph, or it is one for another frame count.
NeedsGraph(r) == \A g \in graph : g.frames # r.frames

\* The guards of both encoders; the exported graph has a longest window.
Rejected(r) ==
  \/ r.fault = "embeddings"
  \/ backend = "litert" /\ r.frames > MaxFrames

Reject ==
  /\ diar \in {"build", "feed"} /\ building = {}
  /\ \E r \in asked : Rejected(r)
  /\ Throw /\ UNCHANGED tensors

\* A graph before anything was fed to it.
Begun(r) == [frames |-> r.frames, in |-> [k \in 1 .. r.frames |-> Junk], masked |-> Junk, rope |-> Junk,
             placed |-> FALSE]

\* Bug: the old graph is kept until the new one takes its place.
DropGraphLate ==
  /\ diar = "build" /\ building = {}
  /\ \E r \in asked :
       /\ ~ Rejected(r) /\ NeedsGraph(r)
       /\ building' = {Begun(r)}
  /\ UNCHANGED <<hooks, asked, diar, graph, embBuf, validBuf, outBuf, answer>>

\* The old graph goes first, then the new one is begun.
DropGraph ==
  /\ diar = "build" /\ building = {}
  /\ \E r \in asked :
       /\ ~ Rejected(r) /\ NeedsGraph(r)
       /\ building' = {Begun(r)}
  /\ graph' = {}
  /\ UNCHANGED <<hooks, asked, diar, embBuf, validBuf, outBuf, answer>>

\* Bug: the graph that could not be finished is cached.
BuildFailsCached ==
  /\ diar = "build" /\ building # {}
  /\ building' = {}
  /\ Throw
  /\ graph' = building
  /\ UNCHANGED <<embBuf, validBuf, outBuf>>

\* A context or the buffer of the inputs cannot be allocated.
BuildFails ==
  /\ diar = "build" /\ building # {}
  /\ building' = {}
  /\ Throw
  /\ UNCHANGED <<graph, embBuf, validBuf, outBuf>>

\* The intermediates are placed (nobody looks whether that worked), the position
\* tables fed, and the graph becomes the cached one.
BuildGraph ==
  /\ diar = "build"
  /\ \E g \in building, placed \in BOOLEAN :
       graph' = {[g EXCEPT !.rope = g.frames, !.placed = placed]}
  /\ building' = {}
  /\ diar' = "feed"
  /\ UNCHANGED <<hooks, asked, embBuf, validBuf, outBuf, answer>>

KeepGraph ==
  /\ diar = "build" /\ building = {}
  /\ \E r \in asked : ~ Rejected(r) /\ ~ NeedsGraph(r)
  /\ diar' = "feed"
  /\ UNCHANGED <<hooks, asked, tensors, answer>>

\* Embeddings copied to the front of a buffer.
Written(r, buffer) == [k \in DOMAIN buffer |-> IF k <= r.frames THEN r.of ELSE buffer[k]]

\* Bug: the mask is fed to a new graph only.
FeedGraphOnce ==
  /\ diar = "feed" /\ backend = "ggml"
  /\ \E r \in asked, g \in graph :
       graph' = {[g EXCEPT !.in = Written(r, @),
                           !.masked = IF @ = Junk THEN (r.valid + 1) .. r.frames ELSE @]}
  /\ diar' = "run"
  /\ UNCHANGED <<hooks, asked, building, embBuf, validBuf, outBuf, answer>>

\* Every call feeds the embeddings and the mask of the keys past the valid ones.
FeedGraph ==
  /\ diar = "feed" /\ backend = "ggml"
  /\ \E r \in asked, g \in graph :
       graph' = {[g EXCEPT !.in = Written(r, @), !.masked = (r.valid + 1) .. r.frames]}
  /\ diar' = "run"
  /\ UNCHANGED <<hooks, asked, building, embBuf, validBuf, outBuf, answer>>

\* What the graph computes from the tensors it holds.
Computed(g) ==
  Network(g.in, [k \in (1 .. g.frames) \ g.masked |-> g.in[k]], g.rope, {})

\* The graph is computed, or it fails.  The intermediates of one that was never
\* placed have no memory (only the inputs and tables have), so there is nothing that
\* could be computed and read back: ggml fails, or crashes on the first of them.
ComputeGraph ==
  /\ diar = "run" /\ backend = "ggml"
  /\ \E g \in graph :
       \/ /\ g.placed
          /\ outBuf' = Computed(g)
          /\ diar' = "read"
          /\ UNCHANGED <<hooks, asked, answer>>
       \/ Throw /\ outBuf' = Junk
       \/ /\ ~ g.placed
          /\ diar' = "crashed"
          /\ outBuf' = Junk
          /\ UNCHANGED <<hooks, asked, answer>>
  /\ UNCHANGED <<graph, building, embBuf, validBuf>>

-----------------------------------------------------------------------------
(* DiarLiteRT::encode *)

Padded(r) == Written(r, [k \in 1 .. MaxFrames |-> Zero])

\* The window goes to the front of the buffer and zeros behind it.
WriteWindow ==
  /\ diar = "feed" /\ backend = "litert"
  /\ \E r \in asked : ~ Rejected(r) /\ embBuf' = Padded(r)
  /\ diar' = "valid"
  /\ UNCHANGED <<hooks, asked, graph, building, validBuf, outBuf, answer>>

\* valid_frames is written after it.
WriteValid ==
  /\ diar = "valid"
  /\ \E r \in asked : validBuf' = r.valid
  /\ diar' = "run"
  /\ UNCHANGED <<hooks, asked, graph, building, embBuf, outBuf, answer>>

\* Either buffer may refuse the lock, and the graph may fail.
LiteRtFails ==
  /\ backend = "litert" /\ diar \in {"feed", "valid", "run", "read"}
  /\ \E r \in asked : ~ Rejected(r)
  /\ Throw
  /\ outBuf' = IF diar = "run" THEN Junk ELSE outBuf
  /\ UNCHANGED <<graph, building, embBuf, validBuf>>

\* The exported graph runs over all of its frames.
RunLiteRt ==
  /\ backend = "litert" /\ diar = "run"
  /\ outBuf' = Network(embBuf, [k \in 1 .. validBuf |-> embBuf[k]], MaxFrames, {})
  /\ diar' = "read"
  /\ UNCHANGED <<hooks, asked, graph, building, embBuf, validBuf, answer>>

\* The rows of the window, and nothing of what the padding gave.
Kept(out, n) ==
  Network([k \in 1 .. n |-> out.rows[k]], out.keys, n,
          {out.rows[k] : k \in (n + 1) .. MaxFrames} \ {Zero})

ReadOutput ==
  /\ diar = "read"
  /\ \E r \in asked :
       Return(IF backend = "ggml" THEN outBuf ELSE Kept(outBuf, r.frames))

DiarStep ==
  \/ PreEncode \/ PreEncodeFails \/ Reject
  \/ DropGraph \/ BuildFails \/ BuildGraph \/ KeepGraph \/ FeedGraph \/ ComputeGraph
  \/ WriteWindow \/ WriteValid \/ LiteRtFails \/ RunLiteRt
  \/ ReadOutput

DiarNext == Call \/ DiarStep

DiarSpec == DiarInit /\ [][DiarNext]_diarVars

-----------------------------------------------------------------------------
(* Properties *)

\* Types; a cached graph is a finished one: its position tables were fed, for
\* the frame count it is cached under.
DiarTypeOK ==
  /\ backend \in Backends /\ pre \in BOOLEAN
  /\ diar \in {"idle", "pre", "build", "feed", "valid", "run", "read", "crashed"}
  /\ asked = {} \/ \E r \in Request : asked = {r}
  /\ asked = {} <=> diar = "idle"
  /\ \A g \in graph : g.rope = g.frames /\ DOMAIN g.in = 1 .. g.frames
  /\ DOMAIN embBuf = 1 .. MaxFrames

\* Two graphs are never alive at once: "free the OLD graph's buffer before
\* allocating the new one", or their arenas add up.
OneArena == Cardinality(graph) + Cardinality(building) <= 1

\* The answer to a call depends on that call alone: not on windows of another
\* length or validity before it, nor on calls that failed at any of their steps.
\* This holds for the graph cached per frame count and for the padded buffers.
Pure == INSTANCE PureEncoder WITH Requests <- Request

LayerOverEncoder == Pure!Spec
=============================================================================
