---------------------------- MODULE MCPluginRun ----------------------------
(* Two outputs of up to two batches through a socket and pipes that hold   *)
(* less than one of them.                                                  *)
EXTENDS PluginRun
=============================================================================
