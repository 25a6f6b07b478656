------------------------------- MODULE MCApp --------------------------------
(***************************************************************************)
(* Instances of App for TLC: three endpoints, two pairs.                   *)
(***************************************************************************)
EXTENDS Screen

AppEndpoint == {"a", "b", "c"}

AppEndpointOrder == <<"a", "b", "c">>

Seg(src, dst, flags, seq, len, ack) ==
    [src |-> src, dst |-> dst, seq |-> seq, ack |-> ack, payload_len |-> len,
     flags |-> flags, sack |-> <<>>]

AppSegments ==
    {Seg("a", "b", {"SYN"}, 0, 0, 0),
     Seg("b", "a", {"SYN"}, 4, 0, 0),
     Seg("a", "b", {"RST"}, 1, 0, 0),
     Seg("c", "a", {"ACK"}, 1, 2, 0)}

\* For the graphs of the detail pane an answer to the data as well.
ReplaySegments == AppSegments \cup {Seg("a", "c", {"ACK"}, 5, 0, 3)}

\* A name for the responder of one connection.
AppHeard == {[ts |-> 0, ip |-> "b", name |-> "h"]}

\* The port of one responder is well known.
AppServices == [e \in {"a"} |-> "https"]

AppWord == {"b", "Established"}

\* 50 ms and more between two frames; at the lowest speed that is one unit of time.
AppDts == {10, 20}

NoIds == {}

FailFast == None
=============================================================================
