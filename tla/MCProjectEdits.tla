--------------------------- MODULE MCProjectEdits ----------------------------
(* Two concurrent handlers on one project, two names, storyboards of up to *)
(* two scenes.                                                             *)
EXTENDS ProjectEdits

CONSTANTS c1, c2, n1, n2

MCCalls == {c1, c2}
MCNames == {n1, n2}
=============================================================================
