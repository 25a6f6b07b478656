----------------------------- MODULE MCPipeline -----------------------------
(***************************************************************************)
(* Instances of LivePipeline for TLC: a channel of two events, so that it  *)
(* is full after a burst, as 65536 events fill it in the program.          *)
(***************************************************************************)
EXTENDS LivePipeline
=============================================================================
