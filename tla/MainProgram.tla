---------------------------- MODULE MainProgram ----------------------------
(***************************************************************************)
(* The program (main, src/src/main.cpp, around Engine::init, the loading   *)
(* of the audio in Engine::run, and Engine::~Engine): from the command     *)
(* line to the exit status, with what goes to which stream on the way.     *)
(* What the run does between loading and printing is EngineRun and         *)
(* StreamBackends; what is printed with --windows is WindowOutput.         *)
(***************************************************************************)
EXTENDS EngineLifecycle, WavReader

\* json: --json; out: --out; turns, tokens: --turns-out, --tokens-out.
CONSTANT Outputs  \* what may be asked for

ASSUME OutputsAssumption ==
  Outputs \subseteq [json : BOOLEAN, out : BOOLEAN, turns : BOOLEAN, tokens : BOOLEAN]

VARIABLES
  phase,   \* where the program is
  wanted,  \* the output asked for
  stdout,  \* what was printed there, in order
  told,    \* where everything else went: pairs of what and where
  status   \* the exit status, once main has returned

output == <<stdout, told>>
vars == <<engineVars, wavVars, phase, wanted, output, status>>

\* Before main returns there is no status.
Running == -1

Init ==
  /\ EngineInit /\ WavInit
  /\ phase = "arguments" /\ wanted \in Outputs
  /\ stdout = <<>> /\ told = {} /\ status = Running

\* What the process ends with.
Ended == phase \in {"exited", "crashed"}

\* main returns; what it has constructed is destroyed.
Return(code) == phase' = "destroy" /\ status' = code

-----------------------------------------------------------------------------
(* Before the run *)

\* An argument that is unknown or lacks its value, no audio, or nothing to run:
\* there is no engine yet, and the usage may go to stdout.
Arguments ==
  /\ phase = "arguments"
  /\ \/ phase' = "exited" /\ status' = 2 /\ stdout' \in {<<>>, <<"usage">>}
     \/ (cfg.asr \/ cfg.diar) /\ phase' = "init" /\ UNCHANGED <<status, stdout>>
  /\ UNCHANGED <<engineVars, wavVars, wanted, told>>

InitGoesOn ==
  /\ phase = "init"
  /\ StepDone
  /\ UNCHANGED <<wavVars, phase, wanted, output, status>>

InitFails ==
  /\ phase = "init"
  /\ StepFails
  /\ Return(1)
  /\ UNCHANGED <<wavVars, wanted, output>>

\* Nothing catches what the reset hook of the stream throws.
InitAborts ==
  /\ phase = "init"
  /\ ResetThrows
  /\ phase' = "crashed"
  /\ UNCHANGED <<wavVars, wanted, output, status>>

InitEnds ==
  /\ phase = "init" /\ ~ InInit
  /\ Open
  /\ phase' = "load"
  /\ UNCHANGED <<engineVars, wanted, output, status>>

-----------------------------------------------------------------------------
(* Engine::run *)

Load ==
  /\ phase = "load" /\ WavBusy
  /\ WavStep
  /\ phase' = IF wav' = "crashed" THEN "crashed" ELSE "load"
  /\ UNCHANGED <<engineVars, wanted, output, status>>

\* A file that is not the kind that is read is an error of the run.  The reader
\* is gone; what is done with the samples is EngineRun.
LoadEnds ==
  /\ phase = "load" /\ ~ WavBusy
  /\ IF wav = "ready" THEN phase' = "run" /\ UNCHANGED status ELSE Return(1)
  /\ Close
  /\ UNCHANGED <<engineVars, wanted, output>>

\* A push, of audio or of the silent tail, that completes a window calls the
\* encoder; so does the final decode.
Push ==
  /\ phase = "run"
  /\ CacheGraph
  /\ UNCHANGED <<wavVars, phase, wanted, output, status>>

\* A push fails, of audio or of the tail.
PushFails ==
  /\ phase = "run" /\ cfg.diar
  /\ Return(1)
  /\ UNCHANGED <<engineVars, wavVars, wanted, output>>

RunEnds ==
  /\ phase = "run"
  /\ phase' = "transcript"
  /\ UNCHANGED <<engineVars, wavVars, wanted, output, status>>

-----------------------------------------------------------------------------
(* The output *)

\* Bug: the transcript goes to stdout whenever there is no file for it.
SinkIgnoringJson == IF wanted.out THEN "file" ELSE "stdout"

\* "stdout holds ONE thing": with --json the transcript has to go elsewhere.
Sink == IF wanted.out THEN "file" ELSE IF wanted.json THEN "stderr" ELSE "stdout"

WriteTranscript ==
  /\ phase = "transcript"
  /\ IF Sink = "stdout" THEN stdout' = Append(stdout, "transcript") /\ UNCHANGED told
     ELSE told' = told \cup {<<"transcript", Sink>>} /\ UNCHANGED stdout
  /\ phase' = "turns"
  /\ UNCHANGED <<engineVars, wavVars, wanted, status>>

WriteTurns ==
  /\ phase = "turns"
  /\ told' = IF wanted.turns THEN told \cup {<<"turns", "file">>} ELSE told
  /\ phase' = "tokens"
  /\ UNCHANGED <<engineVars, wavVars, wanted, stdout, status>>

WriteTokens ==
  /\ phase = "tokens"
  /\ told' = IF wanted.tokens THEN told \cup {<<"tokens", "file">>} ELSE told
  /\ phase' = "report"
  /\ UNCHANGED <<engineVars, wavVars, wanted, stdout, status>>

\* A file cannot be opened: the run is over, what is written stays.
CannotWrite ==
  /\ \/ phase = "transcript" /\ wanted.out
     \/ phase = "turns" /\ wanted.turns
     \/ phase = "tokens" /\ wanted.tokens
  /\ Return(1)
  /\ UNCHANGED <<engineVars, wavVars, wanted, output>>

\* Telemetry as JSON, or the statistics for people.
Report ==
  /\ phase = "report"
  /\ stdout' = Append(stdout, IF wanted.json THEN "json" ELSE "stats")
  /\ Return(0)
  /\ UNCHANGED <<engineVars, wavVars, wanted, told>>

-----------------------------------------------------------------------------
(* The end *)

Destroy ==
  /\ phase = "destroy"
  /\ Release
  /\ UNCHANGED <<wavVars, phase, wanted, output, status>>

Exit ==
  /\ phase = "destroy" /\ Released
  /\ phase' = "exited"
  /\ UNCHANGED <<engineVars, wavVars, wanted, output, status>>

Stop == Ended /\ UNCHANGED vars

\* A step of the program itself, whatever the outcome.
Advance ==
  \/ Arguments \/ InitGoesOn \/ InitFails \/ InitAborts \/ InitEnds
  \/ Load \/ LoadEnds \/ Push \/ PushFails \/ RunEnds
  \/ WriteTranscript \/ WriteTurns \/ WriteTokens \/ CannotWrite \/ Report
  \/ Destroy \/ Exit

Next == Advance \/ Stop

Spec == Init /\ [][Next]_vars /\ WF_vars(Advance)

-----------------------------------------------------------------------------
(* Properties *)

\* Types of all parts; the status is known when the engine is being destroyed.
TypeOK ==
  /\ EngineTypeOK /\ WavTypeOK
  /\ phase \in {"arguments", "init", "load", "run", "transcript", "turns", "tokens", "report",
                "destroy", "exited", "crashed"}
  /\ wanted \in Outputs
  /\ stdout \in Seq({"usage", "transcript", "stats", "json"})
  /\ told \subseteq {"transcript", "turns", "tokens"} \X {"file", "stderr"}
  /\ status \in {Running, 0, 1, 2}
  /\ phase \in {"destroy", "exited"} <=> status # Running

\* A run starts only with everything it will use: each half that is not skipped
\* has its stream, the libraries have read what this run means, not what an
\* earlier one left behind, a session without encoder weights is one that has
\* been given an encoder, and the request outlives the run that reads it.
ReadyToRun ==
  phase \in {"load", "run"} =>
    /\ cfg.asr => <<"engine", "asr_stream">> \in alive /\ readEnv["prefix"] = Meant("prefix")
    /\ cfg.diar => /\ {<<"engine", "session">>, <<"engine", "request">>} \subseteq alive
                   /\ (readEnv["external"] = "1") <=> ("encode" \in hooks)
                   /\ readEnv["external"] = Meant("external")

\* However far init came, nothing is left at the exit; only a LiteRT graph whose
\* constructor threw has leaked, and then there was no run.
NothingLeft ==
  /\ phase = "exited" => alive = {}
  /\ leaked \subseteq GraphParts("xasr") \cup GraphParts("diar")
  /\ leaked # {} => phase \in {"destroy", "exited"} /\ status = 1

\* With --json, stdout holds the JSON and nothing else, or nothing when the run
\* failed (only a command line that is refused prints its usage there); and a run
\* that says it succeeded has put the transcript in exactly one place and written
\* every file asked for.
OneThingOnStdout ==
  /\ wanted.json /\ status # 2 => stdout \in {<<>>, <<"json">>}
  /\ status = 0 =>
       /\ wanted.json <=> stdout = <<"json">>
       /\ (stdout # <<>> /\ stdout[1] = "transcript") <=> told \cap ({"transcript"} \X {"file", "stderr"}) = {}
       /\ wanted.turns <=> <<"turns", "file">> \in told
       /\ wanted.tokens <=> <<"tokens", "file">> \in told

\* The program comes to an end: the walk always moves on, init and the
\* destructor are finite.
Exits == <>Ended
=============================================================================
