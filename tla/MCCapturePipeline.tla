------------------------- MODULE MCCapturePipeline -------------------------
(* Instances of CapturePipeline for TLC. *)
EXTENDS CapturePipeline, TLC

CONSTANTS app, mic

AppAndMic == {app, mic}
OneMic == {mic}
OneMixed == {app}
=============================================================================
