-------------------------- MODULE MCBatchPlanning --------------------------
(* Instance of BatchPlanning for TLC: two related units, one of which is cut  *)
(* into pieces; two hunks, the second of which begins inside a piece.         *)
EXTENDS BatchPlanning

Hunk(left, right) == [kind |-> "hunk", chars |-> 1, left |-> left, right |-> right]
Line(kind, chars) == [kind |-> kind, chars |-> chars]

TwoUnits == <<"a", "b">>
Patches == [u \in {"a", "b"} |->
              IF u = "a" THEN <<Hunk(4, 4), Line("right", 2), Line("context", 2), Line("left", 2),
                                Hunk(1, 9), Line("context", 1), Line("right", 2)>>
              ELSE <<Hunk(2, 2), Line("left", 1), Line("right", 1)>>]
OneGroup == [u \in {"a", "b"} |-> "g"]
OneRule == [u \in {"a", "b"} |-> {"rule"}]
RuleSize == [r \in {"rule"} |-> 1]
UnitSize == [u \in {"a", "b"} |-> 1]
=============================================================================
