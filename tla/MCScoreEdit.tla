---------------------------- MODULE MCScoreEdit ----------------------------
(* Two layers of one row each, a stem that backs both rows, and lyrics.     *)
EXTENDS ScoreEdit

CONSTANTS k, s, stem, words

OpenedLanes == <<<<k>>, <<s>>>>
StemLanes == (stem :> <<s, k>>) @@ (words :> <<>>)
=============================================================================
