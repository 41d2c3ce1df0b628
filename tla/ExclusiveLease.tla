--------------------------- MODULE ExclusiveLease ---------------------------
(***************************************************************************)
(* What the review queue promises its workers: an item has at most one     *)
(* holder, a holder leaves before the next one enters, and every entry     *)
(* takes a fresh token.  Whoever stopped holding an item never holds it    *)
(* again under its old token.                                              *)
(***************************************************************************)
EXTENDS Naturals

CONSTANTS Items, Holders, Nobody      \* Nobody is no holder

VARIABLES
    holder,     \* holder[i]: who may write to item i
    token       \* token[i]: how often item i was acquired

Init == /\ holder = [i \in Items |-> Nobody]
        /\ token = [i \in Items |-> 0]

Acquire(i, h) == /\ holder[i] = Nobody
                 /\ holder' = [holder EXCEPT ![i] = h]
                 /\ token' = [token EXCEPT ![i] = @ + 1]

\* Holders leave, or are removed, one or several at a time.
Release(S) == /\ \A i \in S : holder[i] # Nobody
              /\ holder' = [i \in Items |-> IF i \in S THEN Nobody
                                            ELSE holder[i]]
              /\ UNCHANGED token

Next == \/ \E i \in Items, h \in Holders : Acquire(i, h)
        \/ \E S \in SUBSET Items : S # {} /\ Release(S)

Spec == Init /\ [][Next]_<<holder, token>>
=============================================================================
