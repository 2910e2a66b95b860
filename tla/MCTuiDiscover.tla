--------------------------- MODULE MCTuiDiscover ---------------------------
(* Two workspaces with a known source each; a scan may add another to the  *)
(* first.                                                                  *)
EXTENDS TuiDiscover, TLC

CONSTANTS w1, w2, s1, s2, s3

MCHome == (s1 :> w1) @@ (s2 :> w1) @@ (s3 :> w2)
=============================================================================
