------------------------------ MODULE MCDispatch ------------------------------
(* Small instances of Dispatch.  Lease tokens are interchangeable, and so   *)
(* are workers that may do the same things.                                 *)
EXTENDS Dispatch

TokenSymmetry == Permutations(Token)

LeaseSymmetry == TokenSymmetry \cup Permutations(Worker)
===============================================================================
