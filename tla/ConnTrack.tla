----------------------------- MODULE ConnTrack ------------------------------
(***************************************************************************)
(* The lifecycle part of one tracked connection instance: ConnTrack and    *)
(* ConnState of tcpvisr-engine (tracker.rs, state.rs, conn.rs), and the    *)
(* rule that decides whether a segment belongs to an instance or opens     *)
(* the next one (ADR-0006).                                                *)
(*                                                                         *)
(* The _o2r / _r2o pairs of fields are functions on Direction.  A segment  *)
(* is a record [src, dst, ts, seq, ack, payload_len, flags, sack], where   *)
(* flags is the set of flags that are set and sack the sequence of left    *)
(* edges of its SACK blocks.                                               *)
(***************************************************************************)
EXTENDS Serial, Sequences

CONSTANTS
    Endpoint,        \* (ip, port) endpoints
    DeadAfter,       \* EngineConfig::dead_after
    ResetThreshold   \* EngineConfig::reset_threshold

ASSUME ConnTrackAssumption ==
    /\ DeadAfter \in Nat
    /\ ResetThreshold \in Nat

TcpFlag == {"SYN", "ACK", "FIN", "RST"}

Direction == {"o2r", "r2o"}

ConnState ==
    {"SynSent", "SynReceived", "Established", "FinWait", "Closed", "Reset"}

Terminal == {"Closed", "Reset"}

Segment == [src : Endpoint, dst : Endpoint, ts : Nat,
            seq : TcpSeq, ack : TcpSeq, payload_len : Nat,
            flags : SUBSET TcpFlag, sack : Seq(TcpSeq)]

(***************************************************************************)
(* EndpointPair::new orders the two endpoints, so that both directions of  *)
(* a flow have the same key: the unordered pair.                           *)
(***************************************************************************)
EndpointPair == {{a, b} : a \in Endpoint, b \in Endpoint}

ConnId == [pair : EndpointPair, instance : Nat]

PerDirection(S) == [Direction -> S]

Conn == [id : ConnId, state : ConnState,
         origin : Endpoint, responder : Endpoint, origin_inferred : BOOLEAN,
         opened_at : Nat, last_at : Nat,
         bytes : PerDirection(Nat), segments : Nat,
         fin : PerDirection(BOOLEAN),
         base : PerDirection(TcpSeq \cup {None})]

dir_opposite(d) == IF d = "o2r" THEN "r2o" ELSE "o2r"

is_bare_syn(f) == "SYN" \in f /\ "ACK" \notin f

is_syn_ack(f) == "SYN" \in f /\ "ACK" \in f

-----------------------------------------------------------------------------
(***************************************************************************)
(* Lifecycle order.                                                        *)
(***************************************************************************)
rank(s) == CASE s = "SynSent"     -> 0
             [] s = "SynReceived" -> 1
             [] s = "Established" -> 2
             [] s = "FinWait"     -> 3
             [] s = "Closed"      -> 4
             [] s = "Reset"       -> 5

advance_to(s, to) == IF rank(to) > rank(s) THEN to ELSE s

-----------------------------------------------------------------------------
(***************************************************************************)
(* Attribution of a segment to an instance.                                *)
(***************************************************************************)
direction_of(c, src) == IF src = c.origin THEN "o2r" ELSE "r2o"

\* The more forward of the highest sequence number seen and seq.
advance_baseline(current, seq) ==
    IF current # None /\ serial_gt(current, seq) THEN current ELSE seq

\* variant: only segments with payload are counted
account_data_only(c, seg, dir) ==
    [c EXCEPT !.last_at    = later(@, seg.ts),
              !.segments   = IF seg.payload_len > 0 THEN @ + 1 ELSE @,
              !.bytes[dir] = @ + seg.payload_len,
              !.base[dir]  = advance_baseline(@, seg.seq)]

account(c, seg, dir) ==
    [c EXCEPT !.last_at    = later(@, seg.ts),
              !.segments   = @ + 1,
              !.bytes[dir] = @ + seg.payload_len,
              !.base[dir]  = advance_baseline(@, seg.seq)]

(***************************************************************************)
(* apply_state.  RST overrides every state; Reset absorbs the rest.        *)
(* Otherwise the second leg of the handshake, its completion, and a FIN    *)
(* are applied in this order to the same segment.                          *)
(***************************************************************************)
second_leg(s, seg, dir) ==
    /\ s = "SynSent"
    /\ \/ is_syn_ack(seg.flags)
       \/ is_bare_syn(seg.flags) /\ dir = "r2o"

\* variant: a SYN-ACK is applied whatever the state
apply_any_syn_ack(s, seg, dir) ==
    IF is_syn_ack(seg.flags) THEN "SynReceived" ELSE s

apply_handshake(s, seg, dir) ==
    LET s1 == IF second_leg(s, seg, dir) THEN advance_to(s, "SynReceived") ELSE s
    IN  IF s1 = "SynReceived" /\ ("ACK" \in seg.flags \/ seg.payload_len > 0)
        THEN advance_to(s1, "Established")
        ELSE s1

\* variant: one FIN closes
apply_first_fin(s, fin) ==
    IF \E d \in Direction : fin[d] THEN advance_to(s, "Closed") ELSE s

apply_fin(s, fin) ==
    IF \A d \in Direction : fin[d]
    THEN advance_to(s, "Closed")
    ELSE advance_to(s, "FinWait")

apply_state(c, seg, dir) ==
    IF "RST" \in seg.flags THEN [c EXCEPT !.state = "Reset"]
    ELSE IF c.state = "Reset" THEN c
    ELSE LET s   == apply_handshake(c.state, seg, dir)
             fin == [c.fin EXCEPT ![dir] = TRUE]
         IN  IF "FIN" \in seg.flags
             THEN [c EXCEPT !.fin = fin, !.state = apply_fin(s, fin)]
             ELSE [c EXCEPT !.state = s]

-----------------------------------------------------------------------------
(***************************************************************************)
(* Instance disambiguation.                                                *)
(***************************************************************************)
is_backward_reset(baseline, seq, threshold) ==
    serial_lt(seq, baseline) /\ serial_diff(baseline, seq) > threshold

idle_at(c, t) == saturating_sub(t, c.last_at) > DeadAfter

should_split(c, seg) ==
    IF is_bare_syn(seg.flags)
    THEN c.state \in Terminal \/ idle_at(c, seg.ts)
    ELSE LET base == c.base[direction_of(c, seg.src)]
         IN  /\ c.state = "Established"
             /\ base # None
             /\ is_backward_reset(base, seg.seq, ResetThreshold)

(***************************************************************************)
(* The instance that create_instance opens for its first segment: who the  *)
(* origin is, the state it starts in, and that segment accounted.          *)
(***************************************************************************)
initial_state(f) == IF is_bare_syn(f) THEN "SynSent"
                    ELSE IF is_syn_ack(f) THEN "SynReceived"
                    ELSE IF "RST" \in f THEN "Reset"
                    ELSE IF "FIN" \in f THEN "FinWait"
                    ELSE "Established"

open_instance(id, seg) ==
    LET from_server == is_syn_ack(seg.flags)
        fresh == [id              |-> id,
                  state           |-> initial_state(seg.flags),
                  origin          |-> IF from_server THEN seg.dst ELSE seg.src,
                  responder       |-> IF from_server THEN seg.src ELSE seg.dst,
                  origin_inferred |-> "SYN" \notin seg.flags,
                  opened_at       |-> seg.ts,
                  last_at         |-> seg.ts,
                  bytes           |-> [d \in Direction |-> 0],
                  segments        |-> 0,
                  fin             |-> [d \in Direction |-> FALSE],
                  base            |-> [d \in Direction |-> None]]
        dir   == direction_of(fresh, seg.src)
        first == account(fresh, seg, dir)
    IN  IF "FIN" \in seg.flags THEN [first EXCEPT !.fin[dir] = TRUE] ELSE first
=============================================================================
