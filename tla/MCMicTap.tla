------------------------------ MODULE MCMicTap ------------------------------
(* Instances of MicTap for TLC. *)
EXTENDS MicTap

CONSTANTS headset, desk, p, q

OneDevice == {headset}
TwoDevices == {headset, desk}
OneRequest == {p}
TwoRequests == {p, q}
=============================================================================
