---------------------------- MODULE MCModelUsage ----------------------------
(* Instance of ModelUsage for TLC: three calls, two of which may run at once. *)
EXTENDS ModelUsage, TLC

CONSTANTS c1, c2, c3
Interchangeable == Permutations({c1, c2, c3})
=============================================================================
