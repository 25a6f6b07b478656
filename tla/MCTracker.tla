----------------------------- MODULE MCTracker ------------------------------
(***************************************************************************)
(* Instances of Tracker for TLC.  Sequence numbers are modulo 8 (Half = 4) *)
(* and the reset threshold is 2, so that a backward distance of 3 opens a  *)
(* new instance, as one beyond 2^30 does in the program.                   *)
(***************************************************************************)
EXTENDS Commands

MCEndpoint == {"a", "b", "c"}

MCEndpointOrder == <<"a", "b", "c">>

\* A segment without its timestamp.
Seg(src, dst, flags, seq, len, ack) ==
    [src |-> src, dst |-> dst, seq |-> seq, ack |-> ack, payload_len |-> len,
     flags |-> flags, sack |-> <<>>]

\* Handshake, data, teardown, reset, and what reaches the corner cases: a SYN
\* with FIN, a simultaneous open, data that starts mid-stream, another pair.
LifecycleSegments ==
    {Seg("a", "b", {"SYN"}, 0, 0, 0),
     Seg("b", "a", {"SYN"}, 4, 0, 0),
     Seg("b", "a", {"SYN", "ACK"}, 4, 0, 1),
     Seg("a", "b", {"ACK"}, 1, 1, 5),
     Seg("a", "b", {"ACK"}, 6, 0, 5),
     Seg("a", "b", {"FIN", "ACK"}, 2, 0, 5),
     Seg("b", "a", {"FIN", "ACK"}, 5, 0, 3),
     Seg("a", "b", {"SYN", "FIN"}, 0, 0, 0),
     Seg("b", "a", {"RST"}, 5, 0, 0),
     Seg("c", "a", {"SYN"}, 0, 0, 0)}

\* Two pairs that share an endpoint, so that removing an instance of one
\* shifts the index of the other.
LiveSegments ==
    {Seg("a", "b", {"SYN"}, 0, 0, 0),
     Seg("a", "b", {"ACK"}, 1, 2, 5),
     [Seg("b", "a", {"ACK"}, 5, 0, 3) EXCEPT !.sack = <<4>>],
     Seg("a", "b", {"ACK"}, 6, 0, 5),
     Seg("a", "b", {"RST"}, 1, 0, 0),
     Seg("c", "b", {"SYN"}, 0, 0, 0)}

\* SeriesCollection::None and SeriesCollection::All.
NoIds == {}

AllIds == ConnId

\* RetentionPolicy::FailFast has no window.
FailFast == None
=============================================================================
