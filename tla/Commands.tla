------------------------------ MODULE Commands ------------------------------
(***************************************************************************)
(* The commands that list connections (tcp-visr/src/main.rs): `conns'      *)
(* prints one line for each, `metrics --conn N' dumps the series of the    *)
(* N-th.  metrics reads the file twice, once to find the connection and    *)
(* once to collect its samples only.  What the tracker is after the file   *)
(* was read, as far as it was written by then, is the state of Tracker.    *)
(***************************************************************************)
EXTENDS Views

\* The sort key (opened_at, pair, instance).
listed_before(x, y) ==
    x.opened_at < y.opened_at \/ (x.opened_at = y.opened_at /\ id_lt(x.id, y.id))

into_connections == in_order(ToSet(conns), listed_before)

\* The connections with their series, unless collecting ran into the ceiling.
\* Only the target's segments are sampled, and each of them once.
into_metrics(target) ==
    LET overflow == \E i \in DOMAIN conns : conns[i].id = target /\ conns[i].segments > MaxSamples
    IN  IF overflow THEN {} ELSE ToSet(conns)

-----------------------------------------------------------------------------
\* A line of `conns'.
line(c) == [origin |-> c.origin, responder |-> c.responder, state |-> c.state,
            inst |-> c.id.instance, bytes |-> c.bytes, segs |-> c.segments,
            dur |-> saturating_sub(c.last_at, c.opened_at), mid_stream |-> c.origin_inferred]

run_conns == [k \in DOMAIN into_connections |-> line(into_connections[k])]

\* metrics, pass 1: the id of connection n, if there is one.
pass1(n) == IF n + 1 \in DOMAIN into_connections THEN {into_connections[n + 1].id} ELSE {}

\* metrics, pass 2: the connection that is dumped, or why there is none.
dumped(target, found) ==
    [error |-> IF into_metrics(target) = {} THEN "SampleCeiling"
               ELSE IF found = {} THEN "vanished" ELSE "none",
     conns |-> {line(c) : c \in found}]

\* variant: the target is looked up by its index again
pass2_by_index(n, target) ==
    dumped(target, {into_connections[k] : k \in {n + 1} \cap DOMAIN into_connections})

pass2(n, target) == dumped(target, {c \in into_metrics(target) : c.id = target})

(***************************************************************************)
(* metrics dumps the connection that line N of conns shows, also when the  *)
(* capture is still being written and has grown between the two passes -   *)
(* by a segment that opens a connection before it in the list, splits it   *)
(* or resets it: the target never vanishes, keeps its origin and its       *)
(* instance number, and only gains segments (run_metrics resolves an id    *)
(* and not a position).                                                    *)
(***************************************************************************)
TargetFound ==
    [][\A n \in 0 .. Len(conns) - 1 : \A target \in pass1(n) :
          LET was == run_conns[n + 1]
              is  == pass2(n, target)'
          IN  /\ is.error # "vanished"
              /\ \A c \in is.conns :
                    /\ c.origin = was.origin /\ c.responder = was.responder
                    /\ c.inst = was.inst /\ c.mid_stream = was.mid_stream
                    /\ c.segs >= was.segs /\ c.dur >= was.dur]_vars
=============================================================================
