-------------------------------- MODULE Flow --------------------------------
(***************************************************************************)
(* Metric derivation (module Metrics) driven by one TCP flow, seen at a    *)
(* tap: a sender that opens with a SYN, sends and re-sends data and never  *)
(* has half the sequence space outstanding, and a receiver that returns    *)
(* cumulative ACKs.  The peers are the environment; they know their        *)
(* unbounded stream positions (SYN is position 0), while the derivation    *)
(* under test sees only wrapped sequence numbers and timestamps.           *)
(*                                                                         *)
(* The properties compare what the derivation reports with the positions.  *)
(***************************************************************************)
EXTENDS Metrics

CONSTANTS
    MaxOutstanding,  \* the sender's window in sequence numbers
    MaxLen,          \* bound: payload of one segment
    MaxPos,          \* bound: stream positions
    MaxEvents,       \* bound: segments at the tap
    MaxTime,         \* bound: timestamps are 0 .. MaxTime
    Jitter           \* how far a timestamp may lie behind the latest one

ASSUME FlowAssumption ==
    /\ MaxOutstanding \in 1 .. Half - 1
    /\ {MaxLen, MaxPos, MaxEvents, MaxTime, Jitter} \subseteq Nat

VARIABLES
    m,       \* the MetricState under test
    nxt,     \* the sender's next position
    acked,   \* the highest position acknowledged at the tap
    wnxt,    \* the wrapped sequence number of nxt
    sends,   \* every transmission so far: [from, to, ts, new, soon], of new
             \* positions only, or soon after the one before
    last,    \* what the latest segment was and the MetricSample it yielded
    now      \* the latest timestamp

vars == <<m, nxt, acked, wnxt, sends, last, now>>

\* The sequence number on the wire of a position at most a window behind nxt.
wire(pos) == wrapping_sub(wnxt, nxt - pos)

NoSample == [kind |-> "none"]

Init ==
    /\ m = MetricStateNew
    /\ nxt = 0
    /\ acked = 0
    /\ wnxt \in TcpSeq
    /\ sends = <<>>
    /\ last = NoSample
    /\ now = 0

-----------------------------------------------------------------------------
\* The tap sees seg in direction dir: MetricState::observe runs.
Observe(seg, dir) ==
    /\ seg.ts + Jitter >= now
    /\ now' = later(now, seg.ts)
    /\ m' = metrics_after(m, seg, dir)

DataSeg(pos, len, flags, ts) ==
    [ts |-> ts, seq |-> wire(pos), ack |-> 0, payload_len |-> len, flags |-> flags, sack |-> <<>>]

AckSeg(pos, ts) ==
    [ts |-> ts, seq |-> 0, ack |-> wire(pos), payload_len |-> 0, flags |-> {"ACK"}, sack |-> <<>>]

\* So soon after the latest transmission a step back is taken for reordering on
\* the way to the tap (ADR-0007), whose bytes goodput counts (ADR-0014).
soon(ts) == sends # <<>> /\ saturating_sub(ts, Last(sends).ts) < ReorderWindow

\* A transmission of the positions from .. to - 1; new positions advance nxt.
Transmit(from, to, flags, ts) ==
    LET len == to - from - phantom(flags)
        seg == DataSeg(from, len, flags, ts)
        new == IF to > nxt THEN to - nxt ELSE 0
    IN  /\ Len(sends) < MaxEvents
        /\ Observe(seg, "o2r")
        /\ nxt' = nxt + new
        /\ wnxt' = wrapping_add(wnxt, new)
        /\ sends' = Append(sends, [from |-> from, to |-> to, ts |-> ts,
                                   new |-> from >= nxt, soon |-> soon(ts)])
        /\ last' = [kind |-> "send", from |-> from, to |-> to, known |-> nxt, ts |-> ts,
                    sample |-> metric_sample(m, seg, "o2r")]
        /\ UNCHANGED acked

\* The SYN, or its retry while nothing has been acknowledged.
SendSyn(ts) ==
    /\ nxt <= 1 /\ acked = 0
    /\ Transmit(0, 1, {"SYN"}, ts)

SendNew(len, ts) ==
    /\ nxt > 0
    /\ nxt + len <= MaxPos
    /\ nxt + len - acked <= MaxOutstanding
    /\ Transmit(nxt, nxt + len, {}, ts)

\* Unacknowledged data is sent again, from any boundary and of any length up to
\* one segment, possibly with new data behind it.
Resend(from, len, ts) ==
    /\ 1 <= from /\ acked <= from /\ from < nxt
    /\ from + len <= MaxPos
    /\ from + len - acked <= MaxOutstanding
    /\ Transmit(from, from + len, {}, ts)

\* A cumulative ACK, a duplicate one included.
Ack(pos, ts) ==
    /\ nxt > 0
    /\ pos > 0 /\ acked <= pos /\ pos <= nxt
    /\ LET seg == AckSeg(pos, ts)
       IN  /\ Observe(seg, "r2o")
           /\ last' = [kind |-> "ack", from |-> acked, to |-> pos, ts |-> ts,
                       sample |-> metric_sample(m, seg, "r2o")]
    /\ acked' = pos
    /\ UNCHANGED <<nxt, wnxt, sends>>

Next ==
    \/ \E t \in 0 .. MaxTime : SendSyn(t)
    \/ \E len \in 1 .. MaxLen, t \in 0 .. MaxTime : SendNew(len, t)
    \/ \E from \in 1 .. MaxPos, len \in 1 .. MaxLen, t \in 0 .. MaxTime : Resend(from, len, t)
    \/ \E pos \in 1 .. MaxPos, t \in 0 .. MaxTime : Ack(pos, t)

Spec == Init /\ [][Next]_vars

-----------------------------------------------------------------------------
(***************************************************************************)
(* The derivation's bytes-outstanding is the sender's: the wrapped         *)
(* snd_nxt - acked of MetricState::in_flight equals the distance of the    *)
(* positions, across every wrap of the sequence space and whatever was     *)
(* re-sent or acknowledged twice.                                          *)
(***************************************************************************)
InFlightExact == nxt > 0 => in_flight(m, "o2r") = nxt - acked

(***************************************************************************)
(* A segment is flagged as a retransmission or as out of order exactly     *)
(* when it carries data and starts behind data already sent: neither the   *)
(* wrap of the sequence space nor the SYN's phantom byte confuses it.      *)
(***************************************************************************)
ResendsFlagged ==
    last.kind = "send" =>
        ((last.sample.retransmit \/ last.sample.out_of_order)
            <=> (last.from > 0 /\ last.from < last.known))

\* Transmission k is the only one of its first and of its last position.
unambiguous(k) ==
    \A j \in DOMAIN sends \ {k} :
        sends[j].to <= sends[k].from \/ sends[k].to <= sends[j].from

\* The RTT of the latest ACK is timed from a transmission in K it newly covers.
TimedFrom(K) ==
    \E k \in K : /\ last.from < sends[k].to /\ sends[k].to <= last.to
                 /\ last.sample.rtt = saturating_sub(last.ts, sends[k].ts)

\* No data was sent again so soon that it was taken for reordering.
recognised == \A k \in DOMAIN sends : sends[k].soon => sends[k].new \/ sends[k].from = 0

(***************************************************************************)
(* Karn's rule for data: while every re-send so far was recognised as a    *)
(* retransmission, an RTT is only ever timed from a transmission that the  *)
(* ACK newly covers and that no other transmission overlaps, the SYN apart *)
(* (MetricState::observe step 4).                                          *)
(***************************************************************************)
DataRttUnambiguous ==
    last.kind = "ack" /\ last.sample.rtt # None /\ recognised =>
        TimedFrom({k \in DOMAIN sends : sends[k].from = 0 \/ unambiguous(k)})

(***************************************************************************)
(* ADR-0007's claim for data, re-sent soon or late: no RTT is ever         *)
(* paired against an ambiguous (retransmitted) send.  The ACKs of data,    *)
(* which start behind the SYN; a re-sent SYN is a matter of its own.       *)
(***************************************************************************)
RttNeverAmbiguous ==
    last.kind = "ack" /\ last.from > 0 /\ last.sample.rtt # None =>
        TimedFrom({k \in DOMAIN sends : unambiguous(k)})

\* The rate of the transmissions in K whose ts is in (t - window, t].
RateOf(K, t) ==
    scale_bps(MapThenSumSet(
        LAMBDA k : sends[k].to - sends[k].from - (IF sends[k].from = 0 THEN 1 ELSE 0),
        {k \in K : sends[k].ts + ThroughputWindow > t /\ sends[k].ts <= t}))

(***************************************************************************)
(* At the latest timestamp and at every later time - a segment's or a      *)
(* decay tick's - throughput_at is the rate of all bytes transmitted       *)
(* in the trailing window and goodput the rate of the segments that were   *)
(* not re-sends, or came soon enough to count as reordered: pruning the    *)
(* window by its maximum timestamp never loses a byte that still counts.   *)
(***************************************************************************)
ThroughputExact ==
    has_sent_data(m, "o2r") =>
        \A t \in now .. MaxTime + ThroughputWindow :
            throughput_at(m, "o2r", t) =
                [throughput |-> RateOf(DOMAIN sends, t),
                 goodput    |-> RateOf({k \in DOMAIN sends : sends[k].new \/ sends[k].soon}, t)]
=============================================================================
