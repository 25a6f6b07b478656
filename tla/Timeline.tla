------------------------------ MODULE Timeline ------------------------------
(***************************************************************************)
(* The seekable timeline (tcpvisr-engine/src/timeline.rs), built from the  *)
(* tracked connections and their retained series by Tracker::snapshot      *)
(* (live, ending at now) and Tracker::into_timeline (replay), and its      *)
(* as-of-t queries.                                                        *)
(***************************************************************************)
EXTENDS Retention

\* slice::sort_by without ties: the k-th element has k - 1 others before it.
in_order(S, before(_, _)) ==
    [k \in 1 .. Cardinality(S) |-> CHOOSE x \in S : Cardinality({y \in S : before(y, x)}) = k - 1]

\* variant: capture order is taken for time order
unsorted(s) == s

\* The stable sort by t of a series.
sort_by_t(s) ==
    LET before(i, j) == s[i].t < s[j].t \/ (s[i].t = s[j].t /\ i < j)
        order        == in_order(DOMAIN s, before)
    IN  [k \in DOMAIN s |-> s[order[k]]]

\* slice::partition_point: the length of the prefix of s on which Test holds.
partition_point(s, Test(_)) ==
    Cardinality({i \in DOMAIN s : \A j \in 1 .. i : Test(s[j])})

(***************************************************************************)
(* with_seq_ending: an open connection extends to `end', a terminal one    *)
(* stops at its last_at.                                                   *)
(***************************************************************************)
effective_end(c, end) == IF c.state \in Terminal THEN c.last_at ELSE end

entry(c, buf, end) ==
    [conn          |-> c,
     samples       |-> sort_by_t(buf.q["states"]),
     detail        |-> [n \in SeriesName \ {"states", "series"} |-> sort_by_t(buf.q[n])],
     effective_end |-> effective_end(c, end)]

sample_times(bs) == UNION {{s.t : s \in ToSet(bs[i].q["states"])} : i \in DOMAIN bs}

with_seq_ending(cs, bs, end) ==
    [entries     |-> [i \in DOMAIN cs |-> entry(cs[i], bs[i], end)],
     start       |-> IF sample_times(bs) = {} THEN 0 ELSE Min(sample_times(bs)),
     end         |-> end,
     event_times |-> in_order(sample_times(bs), <)]

with_seq(cs, bs) ==
    with_seq_ending(cs, bs, IF cs = <<>> THEN 0 ELSE Max({cs[i].last_at : i \in DOMAIN cs}))

-----------------------------------------------------------------------------
active_indices(tl, t) ==
    {i \in DOMAIN tl.entries : /\ tl.entries[i].conn.opened_at <= t
                               /\ t <= tl.entries[i].effective_end}

active_at(tl, t) == {tl.entries[i].conn.id : i \in active_indices(tl, t)}

\* The number of samples of entry i that are not later than t.
seen_by(tl, i, t) == partition_point(tl.entries[i].samples, LAMBDA s : s.t <= t)

\* Each active connection that has a sample by t, with the last such sample.
resolve_at(tl, t) ==
    LET asof(i) == tl.entries[i].samples[seen_by(tl, i, t)]
    IN  {[id |-> tl.entries[i].conn.id, state |-> asof(i).state, bytes |-> asof(i).bytes] :
            i \in {j \in active_indices(tl, t) : seen_by(tl, j, t) > 0}}

\* variant: an event at t counts as after t
next_event_from(tl, t) ==
    LET k == partition_point(tl.event_times, LAMBDA x : x < t)
    IN  IF k < Len(tl.event_times) THEN tl.event_times[k + 1] ELSE None

next_event(tl, t) ==
    LET k == partition_point(tl.event_times, LAMBDA x : x <= t)
    IN  IF k < Len(tl.event_times) THEN tl.event_times[k + 1] ELSE None

prev_event(tl, t) ==
    LET k == partition_point(tl.event_times, LAMBDA x : x < t)
    IN  IF k > 0 THEN tl.event_times[k] ELSE None
=============================================================================
