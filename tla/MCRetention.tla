---------------------------- MODULE MCRetention ----------------------------
(* Instance of Retention for TLC. *)
EXTENDS Retention, TLC

CONSTANTS said, mixed

SaidAndMixed == {said, mixed}
OnlyMixed == {mixed}
=============================================================================
