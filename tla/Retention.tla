----------------------------- MODULE Retention ------------------------------
(***************************************************************************)
(* The samples the tracker retains per connection and the policy that      *)
(* bounds them (tcpvisr-engine tracker.rs, config.rs): admission, the      *)
(* Evict backstop, ageing, and the collectors that turn one segment or     *)
(* one tick into samples.                                                  *)
(*                                                                         *)
(* A slot is what these operations work on: the buffers of ONE connection  *)
(* with the tracker-wide sample count and overflow flag.  All the &mut     *)
(* self methods that take an index touch nothing else.                     *)
(***************************************************************************)
EXTENDS Metrics

CONSTANTS
    Window,      \* the window of RetentionPolicy::Evict; None is FailFast
    MaxSamples,  \* max_samples of either policy
    SeriesIds,   \* the ConnIds that SeriesCollection selects
    CollectState, CollectSeq, CollectInflight, CollectRtt, CollectThroughput

ASSUME RetentionAssumption ==
    /\ Window \in Nat \cup {None}
    /\ MaxSamples \in Nat
    /\ {CollectState, CollectSeq, CollectInflight,
        CollectRtt, CollectThroughput} \subseteq BOOLEAN

Evicts == Window # None

(***************************************************************************)
(* The six VecDeques of a ConnTrack, in the order pop_longest_front lists  *)
(* them, and the rest of its derivation state.                             *)
(***************************************************************************)
SeriesOrder == <<"states", "series", "seq", "inflight", "rtt", "throughput">>

SeriesName == {SeriesOrder[i] : i \in 1..6}

BufNew == [metrics |-> MetricStateNew,
           srtt    |-> [d \in Direction |-> None],
           unwrap  |-> [d \in Direction |-> [seq |-> None, rel |-> 0]],
           q       |-> [n \in SeriesName |-> <<>>]]

retained(buf) == Len(buf.q["states"]) + Len(buf.q["series"]) + Len(buf.q["seq"])
               + Len(buf.q["inflight"]) + Len(buf.q["rtt"]) + Len(buf.q["throughput"])

-----------------------------------------------------------------------------
(***************************************************************************)
(* Ageing: pop samples older than the horizon from the front, never below  *)
(* the minimum kept.  The last states sample is kept so that the connection stays  *)
(* resolvable at "now".                                                    *)
(***************************************************************************)
\* variant: a sample just older than the horizon stays
evict_front_late(dq, horizon, keep) ==
    LET k     == SelectInSeq(dq, LAMBDA e : e.t + 1 >= horizon)
        stale == IF k = 0 THEN Len(dq) ELSE k - 1
        spare == saturating_sub(Len(dq), keep)
        n     == IF stale <= spare THEN stale ELSE spare
    IN  SubSeq(dq, n + 1, Len(dq))

evict_front(dq, horizon, keep) ==
    LET k     == SelectInSeq(dq, LAMBDA e : e.t >= horizon)
        stale == IF k = 0 THEN Len(dq) ELSE k - 1
        spare == saturating_sub(Len(dq), keep)
        n     == IF stale <= spare THEN stale ELSE spare
    IN  SubSeq(dq, n + 1, Len(dq))

\* variant: states is aged like every other series
keep_none(n) == 0

keep_min(n) == IF n = "states" THEN 1 ELSE 0

age_buf(buf, horizon) ==
    [buf EXCEPT !.q = [n \in SeriesName |-> evict_front(buf.q[n], horizon, keep_min(n))]]

(***************************************************************************)
(* The Evict backstop: the longest series (the last of equals, as          *)
(* max_by_key picks) loses its front sample.                               *)
(***************************************************************************)
evictable(q, n) == saturating_sub(Len(q[n]), keep_min(n))

longest(q) == SeriesOrder[Max({i \in 1..6 : \A j \in 1..6 :
                  evictable(q, SeriesOrder[i]) >= evictable(q, SeriesOrder[j])})]

\* variant: the count is not decremented
evict_uncounted(s) ==
    IF evictable(s.buf.q, longest(s.buf.q)) = 0 THEN s
    ELSE [s EXCEPT !.buf.q[longest(s.buf.q)] = Tail(@)]

evict_oldest_global(s) ==
    IF evictable(s.buf.q, longest(s.buf.q)) = 0 THEN s
    ELSE [s EXCEPT !.buf.q[longest(s.buf.q)] = Tail(@),
                   !.collected = saturating_sub(@, 1)]

\* variant: one sample too many is admitted
admitted_at_limit(s) == s.collected <= MaxSamples \/ Evicts

\* admit returns true in exactly these slots.
admitted(s) == s.collected < MaxSamples \/ Evicts

admit(s) ==
    IF ~admitted(s) THEN [s EXCEPT !.overflowed = TRUE]
    ELSE LET room == IF s.collected >= MaxSamples THEN evict_oldest_global(s) ELSE s
         IN  [room EXCEPT !.collected = @ + 1]

\* record_sample, which its callers only reach while not overflowed.
record_sample(s, n, sample) ==
    IF admitted(s) THEN [admit(s) EXCEPT !.buf.q[n] = Append(@, sample)] ELSE admit(s)

\* record_state, record_seq, record_inflight, record_rtt, record_throughput.
record(s, n, sample) == IF s.overflowed THEN s ELSE record_sample(s, n, sample)

-----------------------------------------------------------------------------
(***************************************************************************)
(* SeqUnwrap: the unwrapped position of seq against a running frontier.    *)
(***************************************************************************)
unwrap_offset(u, seq) ==
    IF u.seq = None \/ seq = u.seq THEN u.rel
    ELSE IF serial_gt(seq, u.seq) THEN u.rel + serial_diff(seq, u.seq)
    ELSE u.rel - serial_diff(u.seq, seq)

\* variant: the frontier stays where the first segment put it
unwrap_anchored(u, seq) ==
    IF u.seq = None THEN [seq |-> seq, rel |-> unwrap_offset(u, seq)] ELSE u

unwrap_advance(u, seq) ==
    IF u.seq = None \/ serial_gt(seq, u.seq)
    THEN [seq |-> seq, rel |-> unwrap_offset(u, seq)] ELSE u

(***************************************************************************)
(* push_seq_points: a Data point in the segment's direction, then a Sack   *)
(* point in the opposite one per SACK block; then each is recorded.        *)
(***************************************************************************)
seq_point(acc, d, seq, rest) ==
    [unwrap |-> [acc.unwrap EXCEPT ![d] = unwrap_advance(@, seq)],
     points |-> Append(acc.points, [t |-> rest.t, dir |-> d,
                                    rel |-> unwrap_offset(acc.unwrap[d], seq),
                                    len |-> rest.len, kind |-> rest.kind])]

push_seq_points(unwrap, seg, dir, sample) ==
    LET none == [unwrap |-> unwrap, points |-> <<>>]
        kind == IF sample.retransmit THEN "retransmit"
                ELSE IF sample.out_of_order THEN "out_of_order" ELSE "data"
        data == IF seg.payload_len = 0 THEN none
                ELSE seq_point(none, dir, seg.seq,
                               [t |-> seg.ts, len |-> seg.payload_len, kind |-> kind])
    IN  FoldLeft(LAMBDA acc, left : seq_point(acc, dir_opposite(dir), left,
                                       [t |-> seg.ts, len |-> 0, kind |-> "sack"]),
                 data, seg.sack)

collect_seq_points(s, seg, dir, sample) ==
    IF s.overflowed \/ ~CollectSeq THEN s
    ELSE LET pts == push_seq_points(s.buf.unwrap, seg, dir, sample)
         IN  FoldLeft(LAMBDA acc, p : record(acc, "seq", p),
                      [s EXCEPT !.buf.unwrap = pts.unwrap], pts.points)

\* Both directions are sampled, at a segment's ts or at the live now of a tick.
collect_inflight_at(s, t) ==
    LET sample(acc, d) ==
            IF in_flight(acc.buf.metrics, d) = None THEN acc
            ELSE record(acc, "inflight", [t |-> t, dir |-> d,
                                          bytes |-> in_flight(acc.buf.metrics, d)])
    IN  IF s.overflowed \/ ~CollectInflight THEN s
        ELSE sample(sample(s, "o2r"), "r2o")

collect_throughput_at(s, t) ==
    LET sample(acc, d) ==
            IF ~has_sent_data(acc.buf.metrics, d) THEN acc
            ELSE record(acc, "throughput", [t |-> t, dir |-> d,
                                            rate |-> throughput_at(acc.buf.metrics, d, t)])
    IN  IF s.overflowed \/ ~CollectThroughput THEN s
        ELSE sample(sample(s, "o2r"), "r2o")

\* The RTT measures the acknowledged flow; srtt is its EWMA with alpha 1/8.
smoothed(prev, rtt) == IF prev = None THEN rtt ELSE (7 * prev + rtt) \div 8

collect_rtt_points(s, sample) ==
    IF s.overflowed \/ ~CollectRtt \/ sample.rtt = None THEN s
    ELSE LET d    == dir_opposite(sample.dir)
             srtt == smoothed(s.buf.srtt[d], sample.rtt)
         IN  record([s EXCEPT !.buf.srtt[d] = srtt], "rtt",
                    [t |-> sample.t, dir |-> d, rtt |-> sample.rtt, srtt |-> srtt])

should_collect(id) == id \in SeriesIds

(***************************************************************************)
(* Derive the metrics of a segment and record what the configuration       *)
(* collects; nothing is derived once the ceiling has tripped.              *)
(***************************************************************************)
derives(s, id) ==
    /\ ~s.overflowed
    /\ should_collect(id) \/ CollectSeq \/ CollectInflight \/ CollectRtt \/ CollectThroughput

derive_and_record(s, id, seg, dir) ==
    LET sample == metric_sample(s.buf.metrics, seg, dir)
        s1 == [s EXCEPT !.buf.metrics = metrics_after(@, seg, dir)]
        s2 == IF should_collect(id) THEN record_sample(s1, "series", sample) ELSE s1
        s3 == collect_seq_points(s2, seg, dir, sample)
        s4 == collect_inflight_at(s3, seg.ts)
        s5 == collect_rtt_points(s4, sample)
    IN  IF derives(s, id) THEN collect_throughput_at(s5, seg.ts) ELSE s

\* The StateSample of connection c at time t.
state_sample(c, t) == [t |-> t, state |-> c.state, bytes |-> c.bytes]

record_state(s, c, t) ==
    IF CollectState THEN record(s, "states", state_sample(c, t)) ELSE s
=============================================================================
