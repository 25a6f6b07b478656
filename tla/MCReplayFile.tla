---------------------------- MODULE MCReplayFile ----------------------------
(***************************************************************************)
(* Instances of FileCommands for TLC.  A second has four nanoseconds and   *)
(* two microseconds.  One IP more is named than the table holds.           *)
(***************************************************************************)
EXTENDS FileCommands

Pkt(etype, tags, proto, data) ==
    [etype |-> etype, tags |-> tags, proto |-> proto, data |-> data,
     fragment |-> FALSE, ext |-> FALSE, offload |-> FALSE, answers |-> <<>>]

Answer(ip, printable, len) ==
    [ip |-> ip, address |-> TRUE, owner |-> [printable |-> printable, len |-> len]]

\* An answer without an address, one with nothing printable, one that is too long.
BadAnswers ==
    <<[Answer("x", "h", 1) EXCEPT !.address = FALSE], Answer("x", "", 1), Answer("x", "h", 3)>>

MCPackets ==
    {Pkt("ip", 0, "tcp", 1),
     Pkt("ip", 1, "tcp", 1),
     [Pkt("ip", 0, "tcp", 1) EXCEPT !.offload = TRUE],
     [Pkt("ip", 0, "tcp", 1) EXCEPT !.fragment = TRUE],
     [Pkt("ip", 0, "tcp", 0) EXCEPT !.ext = TRUE],
     [Pkt("ip", 0, "dns", 1) EXCEPT !.answers = <<Answer("x", "h", 1), Answer("y", "h", 2)>>],
     [Pkt("ip", 0, "dns", 1) EXCEPT !.answers = <<Answer("z", "h", 1), Answer("x", "g", 1)>>],
     [Pkt("ip", 0, "dns", 1) EXCEPT !.answers = BadAnswers],
     Pkt("ip", 0, "udp", 0),
     Pkt("other", 0, "udp", 0)}

MCIp == {"x", "y", "z"}

\* Ethernet, SLL, SLL2, raw IP, null, and one that is not supported.
MCDlt == {1, 113, 276, 101, 0, 147}

\* Nanosecond, microsecond, second; finer than a nanosecond; unreadable.
MCTicksPerSec == {4, 2, 1, 8, 0}
=============================================================================
