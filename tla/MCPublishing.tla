---------------------------- MODULE MCPublishing ----------------------------
(* Instances of Publishing for TLC: two findings, whose comments do not fit   *)
(* into one request.                                                          *)
EXTENDS Publishing, TLC

CONSTANTS f1, f2, a1, a2, q1, q2

TwoInOrder == <<f1, f2>>
BothInline == {f1, f2}
Interchangeable == Permutations({a1, a2}) \cup Permutations({q1, q2})
SizeOne == [f \in {f1, f2} |-> 1]
=============================================================================
