--------------------------- MODULE MCMemoryGraph ---------------------------
(* Instances of MemoryGraph for TLC. *)
EXTENDS MemoryGraph, TLC

CONSTANTS call, mic, a, b

OneCall == {call}
CallAndMic == {call, mic}
NoSession == {}
OneMic == {mic}
TwoVoices == {a, b}
=============================================================================
