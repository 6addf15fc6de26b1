---------------------------- MODULE MCEventQueue ----------------------------
(* Instances of EventQueue for TLC.  The queue never looks at the session  *)
(* an event belongs to, so one is enough.                                  *)
EXTENDS EventQueue

CONSTANTS s1

OneSession == {s1}

(* A buffer within the budget of 3, and one that exceeds it alone. *)
SmallAndLarge == {1, 4}
=============================================================================
