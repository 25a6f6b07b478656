------------------------------- MODULE Views --------------------------------
(***************************************************************************)
(* What the views of the program read from the tracker: the live snapshot  *)
(* that every frame takes, and the timeline a replay ends with.  The       *)
(* state machine is Tracker's; this module adds the two constructors and   *)
(* the properties of what they answer.                                     *)
(***************************************************************************)
EXTENDS Tracker, Timeline

CONSTANT EndpointOrder   \* the endpoints in the order of Ord for Endpoint

ASSUME ViewsAssumption == EndpointOrder \in Seq(Endpoint) /\ Endpoint = ToSet(EndpointOrder)

position(e) == CHOOSE i \in DOMAIN EndpointOrder : EndpointOrder[i] = e

\* Ord for EndpointPair: the lower endpoint, then the higher.
pair_lt(p, q) ==
    LET pos(s) == {position(e) : e \in s}
    IN  \/ Min(pos(p)) < Min(pos(q))
        \/ Min(pos(p)) = Min(pos(q)) /\ Max(pos(p)) < Max(pos(q))

id_lt(x, y) == pair_lt(x.pair, y.pair) \/ (x.pair = y.pair /\ x.instance < y.instance)

-----------------------------------------------------------------------------
\* Tracker::snapshot, taken between any two items.
snapshot == with_seq_ending(conns, bufs, now)

\* Tracker::into_timeline, which fails with SampleCeiling once overflowed.
into_timeline == with_seq(conns, bufs)

asof_of(c) == [id |-> c.id, state |-> c.state, bytes |-> c.bytes]

(***************************************************************************)
(* The as-of-t query of a replay against its definition: the state shown   *)
(* at t is that of the sample with the greatest (t, arrival) not after t,  *)
(* for exactly the connections that are open at t and have one.            *)
(***************************************************************************)
AsOf(i, t) ==
    LET s == bufs[i].q["states"]
        K == {k \in DOMAIN s : s[k].t <= t}
    IN  {s[k] : k \in {k \in K : \A j \in K : s[j].t < s[k].t \/ (s[j].t = s[k].t /\ j <= k)}}

ReplayResolvesAsOf ==
    ~overflowed => \A t \in Time :
        resolve_at(into_timeline, t) =
            UNION {{[id |-> conns[i].id, state |-> s.state, bytes |-> s.bytes] : s \in AsOf(i, t)} :
                     i \in {j \in DOMAIN conns : /\ conns[j].opened_at <= t
                                                 /\ conns[j].state \in Terminal
                                                      => t <= conns[j].last_at
                                                 /\ t <= into_timeline.end}}

(***************************************************************************)
(* Stepping by events (the transport's next/prev keys) misses none and     *)
(* turns back where it came from: next_event then prev_event returns to    *)
(* the event one stood on, inside the domain [start, end].                 *)
(***************************************************************************)
EventSteps ==
    LET tl == into_timeline
        E  == sample_times(bufs)
    IN  \A t \in Time :
            /\ IF next_event(tl, t) = None THEN \A e \in E : e <= t
               ELSE next_event(tl, t) \in E /\ \A e \in E : e > t => next_event(tl, t) <= e
            /\ t \in E /\ next_event(tl, t) # None => prev_event(tl, next_event(tl, t)) = t
            /\ t \in E => tl.start <= t /\ t <= tl.end
=============================================================================
