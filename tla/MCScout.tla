------------------------------ MODULE MCScout ------------------------------
(* Instances of Scout for TLC: paths, file identities and versions *)
(* are interchangeable.                                                     *)
EXTENDS Scout, TLC

Symmetric == Permutations(Paths) \cup Permutations(Uids) \cup Permutations(Versions)
=============================================================================
