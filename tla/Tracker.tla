------------------------------ MODULE Tracker -------------------------------
(***************************************************************************)
(* The connection tracker (tcpvisr-engine/src/tracker.rs): observe folds   *)
(* one Item - a segment or a live tick - into the set of tracked           *)
(* connection instances.  An action is one whole call of observe.          *)
(*                                                                         *)
(* A Vec<ConnTrack> is modelled by two sequences of equal length: conns    *)
(* has the lifecycle fields of each instance, bufs its derivation state    *)
(* and retained samples.  The maps live and next_instance are total        *)
(* functions: 0 in live (indices start at 1) and 0 in next_instance stand  *)
(* for an absent key.                                                      *)
(***************************************************************************)
EXTENDS Retention

CONSTANTS
    Segments,  \* the segments the capture may contain, all but their ts
    MaxTime,   \* bound: timestamps are 0 .. MaxTime
    MaxSegs,   \* bound: segments observed in a behaviour
    Jitter     \* how far behind `now' a timestamp may lie; 0 is ordered time

ASSUME TrackerAssumption ==
    /\ MaxTime \in Nat /\ MaxSegs \in Nat /\ Jitter \in Nat
    /\ \A g \in Segments : \A t \in 0 .. MaxTime : g @@ [ts |-> t] \in Segment

VARIABLES
    conns,          \* Tracker::conns, lifecycle fields
    bufs,           \* Tracker::conns, derivation state and retained samples
    live,           \* Tracker::live
    next_instance,  \* Tracker::next_instance
    collected,      \* Tracker::collected_samples
    overflowed,     \* Tracker::overflowed
    now,            \* Tracker::now
    segs,           \* segments observed so far (environment)
    clock           \* the wall clock at the last tick (environment)

tracker == <<conns, bufs, live, next_instance, collected, overflowed, now>>

vars == <<conns, bufs, live, next_instance, collected, overflowed, now, segs, clock>>

Time == 0 .. MaxTime

Init ==
    /\ conns = <<>>
    /\ bufs = <<>>
    /\ live = [p \in EndpointPair |-> 0]
    /\ next_instance = [p \in EndpointPair |-> 0]
    /\ collected = 0
    /\ overflowed = FALSE
    /\ now = 0
    /\ segs = 0
    /\ clock = 0

-----------------------------------------------------------------------------
(***************************************************************************)
(* The retained samples of all connections with the tracker-wide count.    *)
(***************************************************************************)
Store == [bufs |-> bufs, collected |-> collected, overflowed |-> overflowed]

slot(st, i) == [buf |-> st.bufs[i], collected |-> st.collected, overflowed |-> st.overflowed]

put(st, i, s) == [bufs       |-> [st.bufs EXCEPT ![i] = s.buf],
                  collected  |-> s.collected,
                  overflowed |-> s.overflowed]

\* evict_samples at time t: a no-op under FailFast.
horizon_at(t) == saturating_sub(t, Window)

recount(bs) == MapThenSumSet(LAMBDA i : retained(bs[i]), DOMAIN bs)

evict_samples(st, t) ==
    LET aged    == [i \in DOMAIN st.bufs |-> age_buf(st.bufs[i], horizon_at(t))]
        removed == recount(st.bufs) - recount(aged)
    IN  IF Evicts THEN [st EXCEPT !.bufs = aged, !.collected = saturating_sub(@, removed)]
        ELSE st

StoreBecomes(st) ==
    /\ bufs' = st.bufs
    /\ collected' = st.collected
    /\ overflowed' = st.overflowed

-----------------------------------------------------------------------------
(***************************************************************************)
(* observe(Item::Segment): observe_segment, then evict_samples.            *)
(***************************************************************************)
pair_of(seg) == {seg.src, seg.dst}

joins(seg) ==
    /\ live[pair_of(seg)] # 0
    /\ ~should_split(conns[live[pair_of(seg)]], seg)

\* The segment belongs to the live instance of its pair.
joined(c, seg) == apply_state(account(c, seg, direction_of(c, seg.src)), seg,
                              direction_of(c, seg.src))

JoinInstance(seg, t) ==
    LET i  == live[pair_of(seg)]
        c  == joined(conns[i], seg)
        s1 == record_state(slot(Store, i), c, seg.ts)
        s2 == derive_and_record(s1, c.id, seg, direction_of(c, seg.src))
    IN  /\ conns' = [conns EXCEPT ![i] = c]
        /\ StoreBecomes(evict_samples(put(Store, i, s2), t))
        /\ UNCHANGED <<live, next_instance>>

\* create_instance: the segment opens the next instance of its pair.
CreateInstance(seg, t) ==
    LET pair == pair_of(seg)
        c    == open_instance([pair |-> pair, instance |-> next_instance[pair]], seg)
        s0   == [buf |-> BufNew, collected |-> collected, overflowed |-> overflowed]
        s1   == derive_and_record(s0, c.id, seg, direction_of(c, seg.src))
        s2   == record_state(s1, c, seg.ts)
    IN  /\ conns' = Append(conns, c)
        /\ live' = [live EXCEPT ![pair] = Len(conns) + 1]
        /\ next_instance' = [next_instance EXCEPT ![pair] = @ + 1]
        /\ StoreBecomes(evict_samples([bufs       |-> Append(bufs, s2.buf),
                                       collected  |-> s2.collected,
                                       overflowed |-> s2.overflowed], t))

\* A captured segment carries a timestamp of the capture.
Arrives(seg) ==
    /\ segs < MaxSegs
    /\ seg.ts + Jitter >= now
    /\ segs' = segs + 1
    /\ now' = later(now, seg.ts)
    /\ UNCHANGED clock

ObserveJoin(seg) ==
    /\ Arrives(seg)
    /\ joins(seg)
    /\ JoinInstance(seg, later(now, seg.ts))

ObserveCreate(seg) ==
    /\ Arrives(seg)
    /\ ~joins(seg)
    /\ CreateInstance(seg, later(now, seg.ts))

-----------------------------------------------------------------------------
(***************************************************************************)
(* observe(Item::Tick): advance now, emit decay samples, age samples, and  *)
(* remove dead connections.  Inert under FailFast; replay emits no ticks.  *)
(***************************************************************************)

\* A decay sample per connection not idle, in index order, after the first n.
decay(s, t) == collect_inflight_at(collect_throughput_at(s, t), t)

emit_decay_samples(t) ==
    LET after[n \in 0 .. Len(conns)] ==
            IF n = 0 THEN Store
            ELSE IF idle_at(conns[n], t) THEN after[n - 1]
            ELSE put(after[n - 1], n, decay(slot(after[n - 1], n), t))
    IN  IF overflowed THEN Store ELSE after[Len(conns)]

\* Vec::retain: the elements of s at the indices I, in order.
nth(I, k) == CHOOSE i \in I : Cardinality({j \in I : j <= i}) = k

retain(s, I) == [k \in 1 .. Cardinality(I) |-> s[nth(I, k)]]

dead(c, t) ==
    /\ c.state \in Terminal \/ idle_at(c, t)
    /\ c.last_at < horizon_at(t)

\* variant: only terminal connections are ever removed
survivors_unless_closed(t) ==
    {i \in DOMAIN conns : ~(conns[i].state \in Terminal /\ conns[i].last_at < horizon_at(t))}

survivors(t) == {i \in DOMAIN conns : ~dead(conns[i], t)}

\* live after the rebuild: the last index of each pair, as later inserts overwrite.
indices_of(cs, pair) == {i \in DOMAIN cs : cs[i].id.pair = pair}

\* variant: the indices from before the removal
not_rebuilt(cs) == live

\* variant: the first index of a pair is kept
rebuilt_first(cs) == [p \in EndpointPair |-> IF indices_of(cs, p) = {} THEN 0
                                              ELSE Min(indices_of(cs, p))]

rebuilt(cs) == [p \in EndpointPair |-> IF indices_of(cs, p) = {} THEN 0
                                        ELSE Max(indices_of(cs, p))]

\* next_instance after the removal: forgotten for pairs with no survivor.
\* variant: forgotten for every pair that lost an instance
pruned_if_evicted(cs) ==
    [p \in EndpointPair |->
        IF Cardinality(indices_of(cs, p)) < Cardinality(indices_of(conns, p)) THEN 0
        ELSE next_instance[p]]

pruned(cs) ==
    [p \in EndpointPair |-> IF indices_of(cs, p) = {} THEN 0 ELSE next_instance[p]]

EvictDeadConnections(st, t) ==
    IF survivors(t) = DOMAIN conns
    THEN StoreBecomes(st) /\ UNCHANGED <<conns, live, next_instance>>
    ELSE LET kept == retain(conns, survivors(t))
             held == retain(st.bufs, survivors(t))
         IN  /\ conns' = kept
             /\ live' = rebuilt(kept)
             /\ next_instance' = pruned(kept)
             /\ StoreBecomes([st EXCEPT !.bufs = held, !.collected = recount(held)])

\* A read of the capture timed out at wall-clock time t.
TickArrives(t) ==
    /\ Evicts
    /\ t > clock
    /\ t + Jitter >= now
    /\ clock' = t

ObserveTick(t) ==
    /\ TickArrives(t)
    /\ now' = later(now, t)
    /\ LET at == later(now, t)
       IN  EvictDeadConnections(evict_samples(emit_decay_samples(at), at), at)
    /\ UNCHANGED segs

-----------------------------------------------------------------------------
Next ==
    \/ \E g \in Segments, t \in Time : ObserveJoin(g @@ [ts |-> t])
    \/ \E g \in Segments, t \in Time : ObserveCreate(g @@ [ts |-> t])
    \/ \E t \in Time : ObserveTick(t)

Spec == Init /\ [][Next]_vars

(***************************************************************************)
(* The capture loop turns every read timeout into a tick, so a link that   *)
(* falls quiet ticks again and again.  A step that changes clock is an     *)
(* ObserveTick, which TickArrives enables.                                 *)
(***************************************************************************)
FairSpec == Spec /\ WF_clock(\E t \in Time : TickArrives(t))

-----------------------------------------------------------------------------
(***************************************************************************)
(* Type invariant of the tracker (struct Tracker, tracker.rs): the maps    *)
(* and counters have their types, and the two halves of the connection     *)
(* vector have the same length.                                            *)
(***************************************************************************)
TypeOK ==
    /\ conns \in Seq(Conn)
    /\ Len(bufs) = Len(conns)
    /\ live \in [EndpointPair -> 0 .. Len(conns)]
    /\ next_instance \in [EndpointPair -> Nat]
    /\ collected \in Nat
    /\ overflowed \in BOOLEAN
    /\ now \in Nat
    /\ segs \in Nat
    /\ clock \in Nat

(***************************************************************************)
(* Instances of a pair are tracked in the order in which they were opened  *)
(* and next_instance is ahead of all of them, so no ConnId is ever given   *)
(* to two tracked connections - also after evict_dead_connections removed  *)
(* some instances of a pair and restarted the numbering of others.         *)
(***************************************************************************)
InstancesOrdered ==
    \A i \in DOMAIN conns :
        /\ conns[i].id.instance < next_instance[conns[i].id.pair]
        /\ \A j \in DOMAIN conns :
              i < j /\ conns[i].id.pair = conns[j].id.pair
              => conns[i].id.instance < conns[j].id.instance

(***************************************************************************)
(* live maps a pair to the newest instance tracked for it, and to nothing  *)
(* when none is: the indices survive the shift that Vec::retain causes in  *)
(* evict_dead_connections.                                                 *)
(***************************************************************************)
LiveIsNewest ==
    \A p \in EndpointPair :
        IF indices_of(conns, p) = {} THEN live[p] = 0
        ELSE live[p] \in indices_of(conns, p) /\ \A i \in indices_of(conns, p) : i <= live[p]

(***************************************************************************)
(* The state of an instance never moves backward along the lifecycle and   *)
(* never leaves Reset, whatever segments arrive in whatever order          *)
(* (apply_state; docs/milestones/m02-connection-state/spec.md, "State is   *)
(* monotonic").  An instance keeps its origin and its opening time.        *)
(***************************************************************************)
LifecycleMonotone ==
    [][\A i \in DOMAIN conns, j \in DOMAIN conns' :
          conns[i].id = conns'[j].id =>
              /\ rank(conns[i].state) <= rank(conns'[j].state)
              /\ conns[i].origin = conns'[j].origin
              /\ conns[i].opened_at = conns'[j].opened_at
              /\ conns[i].last_at <= conns'[j].last_at]_vars

(***************************************************************************)
(* Unless it was reset, an instance is Closed exactly when a FIN was seen  *)
(* in both directions - the FIN that opened it included (create_instance   *)
(* sets the flag itself, apply_state sets it later).                       *)
(***************************************************************************)
ClosedExactly ==
    \A i \in DOMAIN conns :
        conns[i].state # "Reset" =>
            (conns[i].state = "Closed" <=> \A d \in Direction : conns[i].fin[d])

(***************************************************************************)
(* Under FailFast every segment observed is attributed to exactly one      *)
(* instance, across joins and splits, overflow included.                   *)
(***************************************************************************)
EverySegmentAttributed ==
    ~Evicts => MapThenSumSet(LAMBDA i : conns[i].segments, DOMAIN conns) = segs

(***************************************************************************)
(* collected_samples is the number of samples retained: through admission, *)
(* the backstop, ageing (saturating decrements) and the recount after      *)
(* connections were removed.                                               *)
(***************************************************************************)
CollectedExact == collected = recount(bufs)

(***************************************************************************)
(* FailFast never retains more than max_samples, and reports overflow only *)
(* with the ceiling reached (into_metrics then names max_samples + 1);     *)
(* Evict never overflows, so a live view never sees SampleCeiling.         *)
(***************************************************************************)
CeilingHolds ==
    IF Evicts THEN ~overflowed
    ELSE collected <= MaxSamples /\ (overflowed => collected = MaxSamples)

(***************************************************************************)
(* Until the ceiling trips, the newest retained state sample of every      *)
(* connection is its current state and byte counts: neither ageing nor the *)
(* backstop ever drops it ("so the connection stays resolvable at now").   *)
(***************************************************************************)
CurrentStateRetained ==
    CollectState /\ ~overflowed =>
        \A i \in DOMAIN conns :
            LET states == bufs[i].q["states"]
            IN  /\ states # <<>>
                /\ Last(states).state = conns[i].state
                /\ Last(states).bytes = conns[i].bytes

(***************************************************************************)
(* No series holds a sample older than the horizon now - window, the one   *)
(* states sample that is always kept apart (evict_samples, on every        *)
(* segment and tick).  True when timestamps are ordered.                   *)
(***************************************************************************)
NoStaleSamples ==
    Evicts => \A i \in DOMAIN bufs, n \in SeriesName :
        \A k \in 1 .. Len(bufs[i].q[n]) - keep_min(n) :
            bufs[i].q[n][k].t >= horizon_at(now)

(***************************************************************************)
(* Whole-connection eviction: once the link is quiet, every connection     *)
(* that is terminal or idle past dead_after and older than the retention   *)
(* horizon is eventually gone for good (evict_dead_connections, on ticks). *)
(***************************************************************************)
EventuallyEvicted ==
    <>[](\A i \in DOMAIN conns : ~dead(conns[i], MaxTime))

(***************************************************************************)
(* Live: the live instance of a pair is never replaced by one opened       *)
(* before it, so that a reuse of the 4-tuple after an eviction starts a    *)
(* fresh instance (m11-live-capture.md).  This needs a retention window    *)
(* not shorter than dead_after; with a shorter one an older open instance  *)
(* outlives a newer terminal one and becomes live again.                   *)
(***************************************************************************)
LiveNeverRegresses ==
    [][\A p \in EndpointPair :
          live[p] # 0 /\ live'[p] # 0 =>
              conns[live[p]].id.instance <= conns'[live'[p]].id.instance]_vars

-----------------------------------------------------------------------------
(***************************************************************************)
(* What the documents say and the code does not do.                        *)
(***************************************************************************)

(***************************************************************************)
(* config.rs calls max_samples of Evict a hard memory backstop that evicts *)
(* the oldest: the retained samples never exceed it.                       *)
(***************************************************************************)
BackstopHolds == Evicts => collected <= MaxSamples
=============================================================================
