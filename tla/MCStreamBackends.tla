-------------------------- MODULE MCStreamBackends --------------------------
(***************************************************************************)
(* A small instance of StreamBackends: two kinds of audio to tell answers  *)
(* apart, windows of one to three frames of which the exported graph takes *)
(* two, so that a window is shorter, as long, or too long.                 *)
(***************************************************************************)
EXTENDS StreamBackends
MCAudio == {"a", "b"}
MCFrames == {1, 2, 3}
MCBackends == {"ggml", "litert"}
=============================================================================
