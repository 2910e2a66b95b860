--------------------------- MODULE MCMaterialize ---------------------------
(* Instances of Materialize for TLC.  The publications are a parser, a      *)
(* second source for the same version that changes the schema, and a        *)
(* version bump that publishes another output; the configurations name      *)
(* every output, or one and a default sink, or there is none.               *)
EXTENDS Materialize, TLC

Pub(v, c, outs) == [version |-> v, code |-> c, outs |-> outs]

MCRequests ==
    {Pub(1, "c", [a |-> "s"]), Pub(1, "d", [a |-> "t"]), Pub(2, "d", [b |-> "t"])}

MCTopics == {[a |-> "u", b |-> "v"], ("a" :> "u" @@ "*" :> "v")}

MCNoTopics == {<<>>}
=============================================================================
