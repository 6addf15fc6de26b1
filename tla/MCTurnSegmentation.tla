------------------------- MODULE MCTurnSegmentation -------------------------
(***************************************************************************)
(* A small instance of TurnSegmentation: the defaults' proportions (pad    *)
(* shorter than the closing silence, the cap a few segments long) with a   *)
(* handful of samples standing for a second of audio.                      *)
(***************************************************************************)
EXTENDS TurnSegmentation, TLC

OddBuffers == {1, 3}
ShortAndLongHole == {1, 3}
ShortAndLongFlap == {1, 3}
=============================================================================
