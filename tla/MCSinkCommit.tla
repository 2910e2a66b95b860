----------------------------- MODULE MCSinkCommit -----------------------------
(* An instance of SinkCommit: output 1 is written to files, with at most one *)
(* quarantined row; output 2 to a DuckDB database, with at most half of its  *)
(* rows quarantined.                                                         *)
EXTENDS SinkCommit, TLC

OneEach == [o \in Output |-> o]
Appending == [o \in Output |-> "Append"]
Symmetry == Permutations(Attempt)
Policies == [o \in Output |-> IF o = 1 THEN [allow |-> TRUE, max_count |-> 1, max_pct |-> 100]
                              ELSE [allow |-> TRUE, max_count |-> None, max_pct |-> 50]]
===============================================================================
