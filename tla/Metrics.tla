------------------------------ MODULE Metrics -------------------------------
(***************************************************************************)
(* Metric derivation for one connection (tcpvisr-engine/src/metrics.rs):   *)
(* the per-direction state DirState, MetricState::observe, and the two     *)
(* pure reads in_flight and throughput_at.                                 *)
(*                                                                         *)
(* A MetricState is a function from Direction to DirState records.  u64    *)
(* saturation of bit rates is not modelled: with the fixed or validated    *)
(* windows of the program a rate never comes near 2^64.                    *)
(***************************************************************************)
EXTENDS ConnTrack, SequencesExt

CONSTANTS
    ThroughputWindow,  \* EngineConfig::throughput_window
    ReorderWindow,     \* EngineConfig::reorder_window
    BpsScale           \* 8 bits * 1e9 ns, the factor of scale_bps

ASSUME MetricsAssumption ==
    /\ ThroughputWindow \in Nat
    /\ ReorderWindow \in Nat
    /\ BpsScale \in Nat

(***************************************************************************)
(* The VecDeque idiom `while let Some(front) = dq.front() { if .. pop }':  *)
(* what is left of s when its front is popped while Test holds of it.      *)
(***************************************************************************)
PopFrontWhile(s, Test(_)) ==
    LET k == SelectInSeq(s, LAMBDA e : ~Test(e))
    IN  IF k = 0 THEN <<>> ELSE SubSeq(s, k, Len(s))

-----------------------------------------------------------------------------
\* An entry ages out once no window that ends at max_ts or later contains it.
ages_out_early(e, max_ts) == e.ts + ThroughputWindow <= max_ts + 1   \* variant: off by one

ages_out(e, max_ts) == e.ts + ThroughputWindow <= max_ts

\* One past the last sequence number a segment occupies; SYN and FIN occupy one.
phantom(f) == (IF "SYN" \in f THEN 1 ELSE 0) + (IF "FIN" \in f THEN 1 ELSE 0)

seq_end(seg) == wrapping_add(wrapping_add(seg.seq, seg.payload_len), phantom(seg.flags))

\* variant: compares the u32 values instead of their serial order
plain_max(current, candidate) ==
    IF current # None /\ current > candidate THEN current ELSE candidate

serial_max(current, candidate) ==
    IF current # None /\ serial_gt(current, candidate) THEN current ELSE candidate

serial_le(earlier, lat) == earlier = lat \/ serial_lt(earlier, lat)

DirStateNew == [snd_nxt |-> None, acked |-> None, frontier |-> None,
                last_data_ts |-> None, pending_rtt |-> <<>>,
                tput |-> <<>>, tput_max_ts |-> None]

MetricStateNew == [d \in Direction |-> DirStateNew]

-----------------------------------------------------------------------------
(***************************************************************************)
(* Bytes outstanding in direction d, clamped at 0; None before d has sent. *)
(***************************************************************************)
outstanding(acked, snd) == IF serial_le(acked, snd) THEN serial_diff(snd, acked) ELSE 0

in_flight(m, d) ==
    IF m[d].snd_nxt = None \/ m[d].acked = None THEN None
    ELSE outstanding(m[d].acked, m[d].snd_nxt)

(***************************************************************************)
(* The trailing throughput window of a direction.                          *)
(***************************************************************************)
pruned_window(tput, max_ts) == PopFrontWhile(tput, LAMBDA e : ages_out(e, max_ts))

window_push_and_evict(ds, seg, retransmit) ==
    LET data    == seg.payload_len > 0
        pushed  == IF data THEN Append(ds.tput, [ts |-> seg.ts, len |-> seg.payload_len,
                                                 retransmit |-> retransmit])
                   ELSE ds.tput
        max_ts  == IF ~data THEN ds.tput_max_ts
                   ELSE IF ds.tput_max_ts = None THEN seg.ts
                   ELSE later(ds.tput_max_ts, seg.ts)
    IN  [ds EXCEPT !.tput_max_ts = max_ts,
                   !.tput = IF ThroughputWindow = 0 \/ max_ts = None THEN pushed
                            ELSE pruned_window(pushed, max_ts)]

scale_bps(bytes) == (bytes * BpsScale) \div ThroughputWindow

\* The entries of the window (t - window, t], and the bytes of some entries.
in_window(tput, t) == {i \in DOMAIN tput : tput[i].ts + ThroughputWindow > t /\ tput[i].ts <= t}

bytes_of(tput, I) == MapThenSumSet(LAMBDA i : tput[i].len, I)

\* throughput_at answers Some only once direction d has sent data.
has_sent_data(m, d) == m[d].tput_max_ts # None

throughput_at(m, d, t) ==
    LET tput == m[d].tput
        W    == in_window(tput, t)
    IN  IF ThroughputWindow = 0 THEN [throughput |-> 0, goodput |-> 0]
        ELSE [throughput |-> scale_bps(bytes_of(tput, W)),
              goodput    |-> scale_bps(bytes_of(tput, {i \in W : ~tput[i].retransmit}))]

-----------------------------------------------------------------------------
(***************************************************************************)
(* MetricState::observe, step by step.  Every step reads the state before  *)
(* the segment, as the code does by copying what later steps overwrite.    *)
(***************************************************************************)

\* Step 0: does this ACK advance what the opposite direction has acknowledged?
ack_advances(m, seg, dir) ==
    LET o == m[dir_opposite(dir)]
    IN  /\ "ACK" \in seg.flags
        /\ o.snd_nxt # None
        /\ o.acked = None \/ serial_gt(seg.ack, o.acked)

\* Step 2: data behind the frontier is reordering within ReorderWindow, else a retransmit.
\* variant: compares the u32 values instead of their serial order
plainly_behind(ds, seg) ==
    seg.payload_len > 0 /\ ds.frontier # None /\ seg.seq < ds.frontier

behind_frontier(ds, seg) ==
    /\ seg.payload_len > 0
    /\ ds.frontier # None
    /\ serial_lt(seg.seq, ds.frontier)

within_reorder_window(ds, seg) ==
    ds.last_data_ts # None /\ saturating_sub(seg.ts, ds.last_data_ts) < ReorderWindow

is_retransmit(ds, seg) == behind_frontier(ds, seg) /\ ~within_reorder_window(ds, seg)

is_out_of_order(ds, seg) == behind_frontier(ds, seg) /\ within_reorder_window(ds, seg)

\* Step 4 for the sender: a retransmit clears the pending sends (Karn), any other
\* segment that occupies sequence space is registered.
registers(seg) == seg.payload_len > 0 \/ phantom(seg.flags) > 0

\* variant: a retransmit is only not registered
pending_kept(ds, seg) ==
    IF ~is_retransmit(ds, seg) /\ registers(seg)
    THEN Append(ds.pending_rtt, [end |-> seq_end(seg), ts |-> seg.ts])
    ELSE ds.pending_rtt

pending_after(ds, seg) ==
    IF is_retransmit(ds, seg) THEN <<>>
    ELSE IF registers(seg)
    THEN Append(ds.pending_rtt, [end |-> seq_end(seg), ts |-> seg.ts])
    ELSE ds.pending_rtt

\* Steps 1 to 5 for the sending direction.
sender_observes(ds, seg) ==
    LET data    == seg.payload_len > 0
        sent    == [ds EXCEPT
            !.acked        = IF @ = None THEN seg.seq ELSE @,
            !.snd_nxt      = serial_max(@, seq_end(seg)),
            !.frontier     = IF data THEN serial_max(@, seq_end(seg)) ELSE @,
            !.last_data_ts = IF data THEN seg.ts ELSE @,
            !.pending_rtt  = pending_after(ds, seg)]
    IN  window_push_and_evict(sent, seg, is_retransmit(ds, seg))

\* Steps 1 and 4 for the acknowledged direction: the sends an ACK covers are done.
uncovered(pending, ack) == PopFrontWhile(pending, LAMBDA e : serial_le(e.end, ack))

peer_acked(ds, seg) ==
    [ds EXCEPT !.acked       = seg.ack,
               !.pending_rtt = uncovered(@, seg.ack)]

\* The RTT that an advancing ACK yields: timed from the oldest send it covers.
rtt_of(ds, seg) ==
    IF ds.pending_rtt # <<>> /\ serial_le(Head(ds.pending_rtt).end, seg.ack)
    THEN saturating_sub(seg.ts, Head(ds.pending_rtt).ts)
    ELSE None

metrics_after(m, seg, dir) ==
    [d \in Direction |->
        IF d = dir THEN sender_observes(m[d], seg)
        ELSE IF ack_advances(m, seg, dir) THEN peer_acked(m[d], seg)
        ELSE m[d]]

\* The MetricSample of the segment.
metric_sample(m, seg, dir) ==
    LET after == metrics_after(m, seg, dir)
    IN  [t            |-> seg.ts,
         dir          |-> dir,
         in_flight    |-> in_flight(after, dir),
         throughput   |-> IF has_sent_data(after, dir)
                          THEN throughput_at(after, dir, seg.ts).throughput ELSE 0,
         rtt          |-> IF ack_advances(m, seg, dir)
                          THEN rtt_of(m[dir_opposite(dir)], seg) ELSE None,
         retransmit   |-> is_retransmit(m[dir], seg),
         out_of_order |-> is_out_of_order(m[dir], seg),
         sack         |-> seg.sack # <<>>]
=============================================================================
