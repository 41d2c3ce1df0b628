---------------------------- MODULE MCReviewReuse ----------------------------
(* An instance of ReviewReuse for TLC: one file with two contents, pushed     *)
(* under two commits.                                                         *)
EXTENDS ReviewReuse

CONSTANTS f1, c1, c2, p1, d1, h1, h2
=============================================================================
