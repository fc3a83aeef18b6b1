---------------------------- MODULE MCJobRunner -----------------------------
(* Model-checking instance of JobRunner: one scene (four tasks, image and   *)
(* TTS of scene 0 run concurrently), the code's MaxAttempt of 3.            *)
EXTENDS JobRunnerLifecycle

CONSTANTS c1, c2

MCClients == {c1, c2}
MCOneClient == {c1}
=============================================================================
