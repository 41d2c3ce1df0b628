-------------------------- MODULE MCAdministration --------------------------
(* Constants of Administration for TLC. *)
EXTENDS Administration, TLC

\* Three releases of the pack: empty, both files, and a new text of one file.
MCPacks == {[s \in {"a", "b"} |-> None], [s \in {"a", "b"} |-> 1],
            [s \in {"a", "b"} |-> IF s = "a" THEN 2 ELSE None]}

\* The first text of both files was shipped before.
MCPrevious == [s \in {"a", "b"} |-> {1}]

\* The sessions, and the values of a key, are interchangeable.
Interchangeable == Permutations(Logins) \cup Permutations(Values)
=============================================================================
