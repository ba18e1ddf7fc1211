---------------------------- MODULE MCCvLifecycle ----------------------------
(***************************************************************************)
(* Instances of CvLifecycle for TLC.                                       *)
(***************************************************************************)
EXTENDS CvLifecycle, TLC

CONSTANTS u0, r1, r2, r3, r4

OneUpload == {u0}

\* Requests that have not arrived are interchangeable, and so are sessions.
Symmetry == Permutations(Requests \ Seeded) \cup Permutations(Sessions)

=============================================================================
