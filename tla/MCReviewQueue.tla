---------------------------- MODULE MCReviewQueue ---------------------------
(* Instances of ReviewQueue for TLC.                                       *)
EXTENDS ReviewQueue

CONSTANTS p1, p2, w1

SharedId == [p \in {p1, p2} |-> w1]                 \* both run as worker w1
OneId == [p \in {p1} |-> w1]
=============================================================================
