------------------------------- MODULE MCFlow -------------------------------
(***************************************************************************)
(* Instances of Flow for TLC.  Sequence numbers are modulo 2 * Half and    *)
(* every initial sequence number is tried, so that the flow wraps at every *)
(* offset.                                                                 *)
(***************************************************************************)
EXTENDS SeqFlow

MCEndpoint == {"a", "b"}
=============================================================================
