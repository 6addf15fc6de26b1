---------------------------- MODULE MCCaptureTaps ----------------------------
(* Instances of CaptureTaps for TLC. *)
EXTENDS CaptureTaps, TLC

CONSTANTS n1, n2, n3, k1, k2, p1, p2, s1, s2, s3, c1

(* Two copies of one application, and another without a process id. *)
ThreeNodes == {n1, n2, n3}
TwoKeys == {k1, k2}
TwoCopies == n1 :> k1 @@ n2 :> k1 @@ n3 :> k2
TwoCopiesPid == n1 :> p1 @@ n2 :> p2 @@ n3 :> NoPid
ThreeSessions == {s1, s2, s3}

FirstAllowed == {k1}

OneClient == {c1}

(* Flaps off, or tolerated for one tick. *)
OnAndOff == {0, 1}

SessionSymmetry == Permutations(Sessions)
=============================================================================
