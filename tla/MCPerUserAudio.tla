--------------------------- MODULE MCPerUserAudio ---------------------------
(* Instances of PerUserAudio for TLC. *)
EXTENDS PerUserAudio

CONSTANTS v, p, q

TwoPosts == {p, q}
=============================================================================
