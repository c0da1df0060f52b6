-------------------------- MODULE EngineLifecycle --------------------------
(***************************************************************************)
(* Engine::init and Engine::~Engine (src/src/engine.cpp) with the          *)
(* constructors and destructors of what an engine owns: what is acquired   *)
(* in which order, what each failure gives back, what is hooked into what, *)
(* and what is released in which order.  Each thing acquired is a pair of  *)
(* its owner and its name there.  The build is one with LiteRT.            *)
(***************************************************************************)
EXTENDS Naturals, Sequences

\* asr, diar: the halves that are not skipped; backend, where what is not ggml is
\* LiteRT; native: an encoder of the engine's own; pre: --diar-pre-f32; bundle:
\* both models in one file, told apart by a prefix.
CONSTANT Setups  \* the configurations an engine may be given

ASSUME SetupsAssumption ==
  Setups \subseteq [asr : BOOLEAN, diar : BOOLEAN, backend : {"ggml", "litert", "unknown"},
                    native : BOOLEAN, pre : BOOLEAN, bundle : BOOLEAN]

VARIABLES
  cfg,      \* the configuration
  step,     \* the step of init to come
  alive,    \* what is allocated and owned
  leaked,   \* what is allocated and owned by nobody
  hooks,    \* callbacks given away: "chunk", "encode", "pre"
  env,      \* the two environment variables the libraries read
  readEnv   \* what they read

engineVars == <<cfg, step, alive, leaked, hooks, env, readEnv>>

-----------------------------------------------------------------------------
(* What is acquired *)

\* The parts of a LiteRtGraph; the pool is filled by XasrLiteRT.
GraphParts(o) == {o} \X {"env", "model", "opts", "cm", "buffers", "pool"}

\* DiarCrispASR holds its reader while it is constructed, its graph later.
CrispParts == {"crisp"} \X {"backend", "reader", "weights_ctx", "weights_buf", "graph"}

\* A step of init: what it does to what, and what is given back, or leaks, when
\* it fails.
Step(does, what, drops, leaks) == [does |-> does, what |-> what, drops |-> drops, leaks |-> leaks]
Check(o, x)  == Step("check", <<o, x>>, {}, {})
Create(o, x) == Step("create", <<o, x>>, {}, {})
Free(o, x)   == Step("free", <<o, x>>, {}, {})
SetEnv(x)    == Step("setenv", <<"env", x>>, {}, {})
Hook(x)      == Step("hook", <<"engine", x>>, {}, {})

\* Each step of a constructor whose failure gives back, or leaks, these.
Dropping(steps, parts) == [i \in DOMAIN steps |-> [steps[i] EXCEPT !.drops = parts]]
Leaking(steps, parts) == [i \in DOMAIN steps |-> [steps[i] EXCEPT !.leaks = parts]]

\* LiteRtGraph: its pointer is a plain one, a throw on the way runs no destructor.
MakeGraph(o) ==
  Leaking(<<Create(o, "env"), Create(o, "model"), Create(o, "opts"), Create(o, "cm"),
            Check(o, "signature"), Create(o, "buffers")>>, GraphParts(o))

\* XasrLiteRT checks the graph it owns, adds two sets of states, zeroes them.
MakeXasrLiteRT ==
  MakeGraph("xasr") \o
  Dropping(<<Check("xasr", "geometry"), Create("xasr", "pool"), Check("xasr", "reset")>>, GraphParts("xasr"))

MakeDiarLiteRT ==
  MakeGraph("diar") \o Dropping(<<Check("diar", "geometry")>>, GraphParts("diar"))

\* The matrix is read into a vector.
MakeDiarPreEncode == <<Create("pre", "weights")>>

MakeDiarCrispASR ==
  Dropping(<<Create("crisp", "backend"), Create("crisp", "reader"), Check("crisp", "tensors"),
             Create("crisp", "weights_ctx"), Create("crisp", "weights_buf")>>, CrispParts)
  \o <<Free("crisp", "reader")>>

\* The recognizer: its context reads the prefix; XasrLiteRT is hooked into it.
AsrPlan(s) ==
  IF ~ s.asr THEN <<>>
  ELSE <<Check("engine", "xasr_model"), SetEnv("prefix"), Create("engine", "asr_ctx"),
         Check("engine", "backend")>>
       \o (IF s.backend = "ggml" THEN <<>>
           ELSE <<Check("engine", "xasr_tflite")>> \o MakeXasrLiteRT \o <<Hook("chunk")>>)
       \o <<Create("engine", "asr_stream")>>

\* The session: made from options that are given back on every path.
MakeSession ==
  <<Create("engine", "sopts")>>
  \o Dropping(<<Check("engine", "session_options"), Create("engine", "session")>>, {<<"engine", "sopts">>})
  \o <<Free("engine", "sopts")>>

\* The encoder the session calls instead of its own; what is not ggml is LiteRT.
MakeEncoder(s) ==
  IF ~ s.native THEN <<>>
  ELSE (IF s.backend = "ggml" THEN MakeDiarCrispASR
        ELSE MakeDiarLiteRT \o (IF s.pre THEN MakeDiarPreEncode ELSE <<>>))
       \o <<Hook("encode")>>
       \o (IF s.pre /\ s.backend # "ggml" THEN <<Hook("pre")>> ELSE <<>>)

\* The request is the engine's once all its options are set; main always has
\* options, so there always is one.
MakeRequest ==
  <<Create("engine", "request")>>
  \o Dropping(<<Check("engine", "request_options")>>, {<<"engine", "request">>})
  \o <<Check("engine", "stream_start")>>

DiarPlan(s) ==
  IF ~ s.diar THEN <<>>
  ELSE <<Check("engine", "diar_model"), Create("engine", "registry"), Create("engine", "model"),
         SetEnv("external")>>
       \o MakeSession \o MakeEncoder(s) \o MakeRequest

-----------------------------------------------------------------------------
(* Engine::init *)

\* All of init, for each configuration.
Plan == [s \in Setups |-> AsrPlan(s) \o DiarPlan(s)]

EngineInit ==
  /\ cfg \in Setups
  /\ step = 1
  /\ alive = {} /\ leaked = {} /\ hooks = {}
  /\ env = [x \in {"prefix", "external"} |-> "inherited"]
  /\ readEnv = [x \in {"prefix", "external"} |-> "unread"]

\* What this run means the libraries to read, whatever it inherited.
Meant(x) ==
  IF x = "prefix" THEN IF cfg.bundle THEN "asr." ELSE ""
  ELSE IF cfg.native THEN "1" ELSE "0"

\* Which variable is read by what is created.
ReadBy(what) ==
  {x \in {"prefix", "external"} : what = <<"engine", IF x = "prefix" THEN "asr_ctx" ELSE "session">>}

\* Bug: the variable is only set when there is something to say.
EnvAfterIfAny(s) ==
  IF s.does = "setenv" /\ Meant(s.what[2]) \notin {"", "0"}
  THEN [env EXCEPT ![s.what[2]] = Meant(s.what[2])] ELSE env

\* Always set, to "" or "0" too, so that nothing inherited is read.
EnvAfter(s) ==
  IF s.does = "setenv" THEN [env EXCEPT ![s.what[2]] = Meant(s.what[2])] ELSE env

\* init has not returned.
InInit == step <= Len(Plan[cfg])

\* The step succeeds; a backend nobody knows is noticed by the recognizer's half.
StepDone ==
  /\ InInit
  /\ LET s == Plan[cfg][step]
     IN  /\ s.what = <<"engine", "backend">> => cfg.backend # "unknown"
         /\ alive' = CASE s.does = "create" -> alive \cup {s.what}
                       [] s.does = "free" -> alive \ {s.what}
                       [] OTHER -> alive
         /\ hooks' = IF s.does = "hook" THEN hooks \cup {s.what[2]} ELSE hooks
         /\ env' = EnvAfter(s)
         /\ readEnv' = [x \in DOMAIN readEnv |-> IF s.does = "create" /\ x \in ReadBy(s.what)
                                                 THEN env[x] ELSE readEnv[x]]
  /\ step' = step + 1
  /\ UNCHANGED <<cfg, leaked>>

\* Neither setenv, nor freeing, nor hooking the chunk encoder can fail, and a
\* backend fails only for being unknown.
MayFail(s) ==
  /\ s.does \notin {"setenv", "free"} /\ s.what # <<"engine", "chunk">>
  /\ s.what = <<"engine", "backend">> => cfg.backend = "unknown"

\* Bug: what cannot be created gives nothing back: a session, not its options.
GivenBackLess(s) == IF s.does = "create" THEN {} ELSE s.drops

\* What a failing step gives back.
GivenBack(s) == s.drops

\* Bug: what leaks is still pointed to, and will be released.
StepFailsStillOwned ==
  /\ InInit
  /\ LET s == Plan[cfg][step]
     IN  /\ MayFail(s)
         /\ leaked' = leaked \cup (alive \cap s.leaks)
         /\ alive' = alive \ GivenBack(s)
  /\ UNCHANGED <<cfg, step, hooks, env, readEnv>>

\* The step fails, and with it init; the half-made object gives back what it
\* holds, or leaks it.
StepFails ==
  /\ InInit
  /\ LET s == Plan[cfg][step]
     IN  /\ MayFail(s)
         /\ leaked' = leaked \cup (alive \cap s.leaks)
         /\ alive' = alive \ (GivenBack(s) \cup s.leaks)
  /\ UNCHANGED <<cfg, step, hooks, env, readEnv>>

\* Opening the stream resets it; an exception in the reset hook ends the process.
ResetThrows ==
  /\ InInit
  /\ Plan[cfg][step].what = <<"engine", "asr_stream">> /\ "chunk" \in hooks
  /\ UNCHANGED engineVars

\* The first window the diarizer asks the ggml encoder for builds its graph.
CacheGraph ==
  /\ cfg.diar /\ cfg.native /\ cfg.backend = "ggml"
  /\ <<"crisp", "graph">> \notin alive
  /\ alive' = alive \cup {<<"crisp", "graph">>}
  /\ UNCHANGED <<cfg, step, leaked, hooks, env, readEnv>>

-----------------------------------------------------------------------------
(* Engine::~Engine *)

Of(o, names) == [i \in DOMAIN names |-> <<o, names[i]>>]

\* LiteRtGraph::Impl::~Impl.
GraphRelease(o) == Of(o, <<"buffers", "pool", "cm", "opts", "model", "env">>)

\* What the destructor's body names.
BodyRelease == Of("engine", <<"asr_stream", "asr_ctx", "request", "session", "model", "registry">>)

\* The members, the last declared first; the graph before the weights it uses.
MemberRelease ==
  Of("pre", <<"weights">>) \o GraphRelease("xasr") \o GraphRelease("diar")
  \o Of("crisp", <<"graph", "weights_buf", "weights_ctx", "backend">>)

\* Bug: the encoders go before the session that calls them.
ReleaseMembersFirst == MemberRelease \o BodyRelease

\* The body runs before the members go.
ReleaseOrder == BodyRelease \o MemberRelease

\* The next thing there is.
Release ==
  \E i \in DOMAIN ReleaseOrder :
    /\ ReleaseOrder[i] \in alive
    /\ \A j \in 1 .. i - 1 : ReleaseOrder[j] \notin alive
    /\ alive' = alive \ {ReleaseOrder[i]}
    /\ UNCHANGED <<cfg, step, leaked, hooks, env, readEnv>>

Released == \A i \in DOMAIN ReleaseOrder : ReleaseOrder[i] \notin alive

-----------------------------------------------------------------------------
(* Properties *)

Parts(o, names) == {o} \X names

\* Pairs of something and what it uses as long as it lives.  The session reads the
\* request during the run only (ReadyToRun), and it is freed first; whether ending
\* a session looks at it is not known here.
Uses(users, used) == users \X used

Needs ==
  Uses(Parts("engine", {"asr_stream"}), Parts("engine", {"asr_ctx"}))
  \cup Uses(Parts("engine", {"session"}), Parts("engine", {"model"}))
  \cup Uses(Parts("engine", {"model"}), Parts("engine", {"registry"}))
  \cup Uses(Parts("crisp", {"weights_buf"}), Parts("crisp", {"backend"}))
  \cup Uses(Parts("crisp", {"graph"}), Parts("crisp", {"backend", "weights_ctx", "weights_buf"}))
  \cup UNION {Uses(Parts(o, {"cm"}), Parts(o, {"env", "model", "opts"}))
              \cup Uses(Parts(o, {"buffers", "pool"}), Parts(o, {"env", "cm"})) : o \in {"xasr", "diar"}}

\* Who was given a callback, and what the callback uses.
Holder(h) == <<"engine", IF h = "chunk" THEN "asr_ctx" ELSE "session">>

Target(h) ==
  CASE h = "chunk"  -> GraphParts("xasr")
    [] h = "pre"    -> Parts("pre", {"weights"})
    [] h = "encode" -> IF cfg.backend = "ggml" THEN CrispParts \ Parts("crisp", {"reader", "graph"})
                       ELSE GraphParts("diar") \ Parts("diar", {"pool"})

\* Everything that an engine can own.
Things ==
  GraphParts("xasr") \cup GraphParts("diar") \cup CrispParts \cup Parts("pre", {"weights"})
  \cup Parts("engine", {"asr_ctx", "asr_stream", "registry", "model", "sopts", "session", "request"})

EngineTypeOK ==
  /\ cfg \in Setups /\ step \in 1 .. Len(Plan[cfg]) + 1
  /\ alive \subseteq Things
  /\ leaked \cap alive = {}
  /\ hooks \subseteq {"chunk", "encode", "pre"}
  /\ DOMAIN env = {"prefix", "external"} /\ DOMAIN readEnv = DOMAIN env

\* Whatever step of init failed, and at every point of the destructor: nothing
\* is alive whose provider, or whose callback's object, is gone.
NeverDangling ==
  /\ \A p \in Needs : p[1] \in alive => p[2] \in alive
  /\ \A h \in hooks : Holder(h) \in alive => Target(h) \subseteq alive
=============================================================================
