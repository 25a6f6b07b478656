----------------------------- MODULE FlowProofs -----------------------------
(***************************************************************************)
(* Proofs about the metric derivation of one TCP flow (module Flow), for   *)
(* every size of the sequence space and every bound of the environment.    *)
(*                                                                         *)
(* InFlightExact is not inductive: it says nothing of the frontier that    *)
(* classifies re-sends, nor why the wrapped difference is a distance.      *)
(* FlowInv adds that the derivation's three sequence numbers are the wire  *)
(* images of the peers' positions, which lie within half a turn.           *)
(* SendsInv adds what is known of the transmissions and when the latest    *)
(* data was sent, KarnInv what the pending sends are, WindowOK what the    *)
(* throughput window holds.                                                *)
(*                                                                         *)
(* The last part is about the Time/Sequence points of a flow (module       *)
(* SeqFlow).  PointsOnStream is not inductive: it does not say which       *)
(* position the frontier of SeqUnwrap stands for.  OnFrontier adds that it *)
(* is one the sender has sent, at most a window behind the newest, so that *)
(* serial order decides on which side of it the next segment starts.       *)
(***************************************************************************)
EXTENDS SeqFlow, BasicLemmas, SequenceTheorems

(***************************************************************************)
(* Serial arithmetic.                                                      *)
(***************************************************************************)

\* Stepping back by k from a sequence number and measuring the way to it gives k.
LEMMA BackAndForth ==
    ASSUME NEW w \in TcpSeq, NEW k \in 0 .. Half - 1
    PROVE  /\ wrapping_sub(w, k) \in TcpSeq
           /\ wrapping_sub(w, wrapping_sub(w, k)) = k
BY HalfAssumption DEF TcpSeq, Modulus, wrapping_sub

\* The serial order of two numbers at most half a turn behind w is that of their
\* distances from w.
LEMMA SerialOrder ==
    ASSUME NEW w \in TcpSeq, NEW j \in 0 .. Half - 1, NEW k \in 0 .. Half - 1
    PROVE  /\ serial_lt(wrapping_sub(w, j), wrapping_sub(w, k)) <=> k < j
           /\ wrapping_sub(w, j) = wrapping_sub(w, k) <=> k = j
           /\ k <= j => serial_diff(wrapping_sub(w, k), wrapping_sub(w, j)) = j - k
BY HalfAssumption DEF TcpSeq, Modulus, wrapping_sub, serial_lt, serial_diff

\* Stepping w forward by k moves every number behind it k further behind.
LEMMA Forward ==
    ASSUME NEW w \in TcpSeq, NEW k \in 0 .. Half - 1, NEW j \in 0 .. Half - 1
    PROVE  /\ wrapping_add(w, k) \in TcpSeq
           /\ wrapping_sub(wrapping_add(w, k), j + k) = wrapping_sub(w, j)
BY HalfAssumption DEF TcpSeq, Modulus, wrapping_sub, wrapping_add

\* One past the end of a segment of len + ph numbers that starts j behind w.
LEMMA EndOf ==
    ASSUME NEW w \in TcpSeq, NEW j \in 0 .. Half - 1, NEW len \in Nat, NEW ph \in Nat,
           len + ph - j < Half
    PROVE  wrapping_add(wrapping_add(wrapping_sub(w, j), len), ph) =
               IF len + ph <= j THEN wrapping_sub(w, j - (len + ph))
               ELSE wrapping_add(w, len + ph - j)
BY HalfAssumption DEF TcpSeq, Modulus, wrapping_sub, wrapping_add

\* serial_max keeps w against a number behind it and yields to one ahead of it.
LEMMA SerialMax ==
    ASSUME NEW w \in TcpSeq, NEW k \in 0 .. Half - 1
    PROVE  /\ serial_max(w, wrapping_sub(w, k)) = w
           /\ serial_max(w, wrapping_add(w, k)) = wrapping_add(w, k)
           /\ serial_max(None, w) = w
           /\ w # None
BY HalfAssumption
   DEF TcpSeq, Modulus, wrapping_sub, wrapping_add, serial_max, serial_gt, serial_lt, None

\* Neither direction of the serial order holds of a number and itself, and not both
\* hold of two numbers (the strict order that is_retransmit and in_flight rely on).
THEOREM SerialStrict ==
    ASSUME NEW a \in TcpSeq, NEW b \in TcpSeq
    PROVE  /\ ~serial_lt(a, a)
           /\ ~(serial_lt(a, b) /\ serial_gt(a, b))
           /\ serial_lt(a, b) \/ serial_gt(a, b) \/ a = b \/ serial_diff(a, b) = Half
BY HalfAssumption DEF TcpSeq, Modulus, wrapping_sub, serial_lt, serial_gt, serial_diff

-----------------------------------------------------------------------------
(***************************************************************************)
(* The inductive invariant.                                                *)
(***************************************************************************)
PeersOK ==
    /\ nxt \in Nat
    /\ acked \in 0 .. nxt
    /\ nxt - acked <= MaxOutstanding
    /\ wnxt \in TcpSeq

\* The fields of DirState that the positions determine.
TracksPeers ==
    /\ {"snd_nxt", "acked", "frontier", "last_data_ts",
        "pending_rtt", "tput", "tput_max_ts"} = DOMAIN m["o2r"]
    /\ m["o2r"].snd_nxt  = IF nxt = 0  THEN None ELSE wnxt
    /\ m["o2r"].acked    = IF nxt = 0  THEN None ELSE wire(acked)
    /\ m["o2r"].frontier = IF nxt <= 1 THEN None ELSE wnxt

FlowInv == PeersOK /\ TracksPeers

\* Before the first segment the derivation has seen nothing of the sender.
LEMMA InitFlowInv == Init => FlowInv
BY FlowAssumption, HalfAssumption
   DEF Init, FlowInv, PeersOK, TracksPeers, MetricStateNew, DirStateNew, Direction

\* The throughput window shares no field with the rest of DirState.
LEMMA WindowFields ==
    ASSUME NEW ds, NEW seg, NEW retransmit
    PROVE  LET after == window_push_and_evict(ds, seg, retransmit)
           IN  /\ DOMAIN after = DOMAIN ds
               /\ after.acked = ds.acked
               /\ after.snd_nxt = ds.snd_nxt
               /\ after.frontier = ds.frontier
               /\ after.last_data_ts = ds.last_data_ts
               /\ after.pending_rtt = ds.pending_rtt
BY DEF window_push_and_evict

\* What observe leaves in the fields of the sending direction.
LEMMA SenderFields ==
    ASSUME NEW ds, NEW seg,
           {"snd_nxt", "acked", "frontier", "last_data_ts",
            "pending_rtt", "tput", "tput_max_ts"} = DOMAIN ds
    PROVE  LET after == sender_observes(ds, seg)
           IN  /\ DOMAIN after = DOMAIN ds
               /\ after.acked    = IF ds.acked = None THEN seg.seq ELSE ds.acked
               /\ after.snd_nxt  = serial_max(ds.snd_nxt, seq_end(seg))
               /\ after.frontier = IF seg.payload_len > 0
                                   THEN serial_max(ds.frontier, seq_end(seg))
                                   ELSE ds.frontier
               /\ after.last_data_ts = IF seg.payload_len > 0 THEN seg.ts ELSE ds.last_data_ts
               /\ after.pending_rtt  = pending_after(ds, seg)
<1> DEFINE sent == [ds EXCEPT
            !.acked        = IF @ = None THEN seg.seq ELSE @,
            !.snd_nxt      = serial_max(@, seq_end(seg)),
            !.frontier     = IF seg.payload_len > 0 THEN serial_max(@, seq_end(seg)) ELSE @,
            !.last_data_ts = IF seg.payload_len > 0 THEN seg.ts ELSE @,
            !.pending_rtt  = pending_after(ds, seg)]
<1>1. /\ DOMAIN sent = DOMAIN ds
      /\ sent.acked    = IF ds.acked = None THEN seg.seq ELSE ds.acked
      /\ sent.snd_nxt  = serial_max(ds.snd_nxt, seq_end(seg))
      /\ sent.frontier = IF seg.payload_len > 0
                         THEN serial_max(ds.frontier, seq_end(seg)) ELSE ds.frontier
      /\ sent.last_data_ts = IF seg.payload_len > 0 THEN seg.ts ELSE ds.last_data_ts
      /\ sent.pending_rtt  = pending_after(ds, seg)
  OBVIOUS
<1>2. sender_observes(ds, seg) = window_push_and_evict(sent, seg, is_retransmit(ds, seg))
  BY DEF sender_observes
<1> HIDE DEF sent
<1> QED BY <1>1, <1>2, WindowFields

\* What observe leaves in the fields of the acknowledged direction.
LEMMA ReceiverFields ==
    ASSUME NEW ds, NEW seg,
           {"snd_nxt", "acked", "frontier", "last_data_ts",
            "pending_rtt", "tput", "tput_max_ts"} = DOMAIN ds
    PROVE  LET after == peer_acked(ds, seg)
           IN  /\ DOMAIN after = DOMAIN ds
               /\ after.acked    = seg.ack
               /\ after.snd_nxt  = ds.snd_nxt
               /\ after.frontier = ds.frontier
               /\ after.last_data_ts = ds.last_data_ts
               /\ after.pending_rtt  = uncovered(ds.pending_rtt, seg.ack)
BY DEF peer_acked

\* Positions keep their wire images when the sender advances.
LEMMA WireStays ==
    ASSUME PeersOK, NEW new \in 0 .. Half - 1, NEW f \in Nat, f <= nxt, nxt - f < Half
    PROVE  wrapping_sub(wrapping_add(wnxt, new), (nxt + new) - f) = wire(f)
<1>1. nxt - f \in 0 .. Half - 1 /\ (nxt - f) + new = (nxt + new) - f
  BY HalfAssumption DEF PeersOK
<1>2. wrapping_sub(wrapping_add(wnxt, new), (nxt - f) + new) = wrapping_sub(wnxt, nxt - f)
  BY <1>1, Forward DEF PeersOK
<1> QED BY <1>1, <1>2 DEF wire

-----------------------------------------------------------------------------
(***************************************************************************)
(* Every step preserves it.                                                *)
(***************************************************************************)

\* A transmission within the sender's window: SendSyn, SendNew and Resend.
LEMMA TransmitKeepsInv ==
    ASSUME FlowInv,
           NEW from \in acked .. nxt, NEW to \in Nat, NEW flags, NEW ts,
           from < to, to - acked <= MaxOutstanding,
           \/ flags = {"SYN"} /\ from = 0 /\ to = 1 /\ nxt <= 1
           \/ flags = {} /\ 0 < from,
           Transmit(from, to, flags, ts)
    PROVE  FlowInv'
<1> DEFINE ph  == phantom(flags)
           len == to - from - ph
           seg == DataSeg(from, len, flags, ts)
           new == IF to > nxt THEN to - nxt ELSE 0
           ds  == m["o2r"]
           end == seq_end(seg)
<1>1. /\ ph \in Nat /\ len \in Nat
      /\ len > 0 <=> flags = {}
  BY DEF phantom, FlowInv, PeersOK
<1>2. /\ seg.seq = wrapping_sub(wnxt, nxt - from)
      /\ seg.payload_len = len /\ seg.flags = flags
  BY DEF DataSeg, wire
<1>3. /\ nxt - from \in 0 .. Half - 1
      /\ nxt - acked \in 0 .. Half - 1
      /\ new \in 0 .. Half - 1
      /\ len + ph = to - from
      /\ to <= nxt => nxt - to \in 0 .. Half - 1
  BY <1>1, FlowAssumption, HalfAssumption, SMTT(30) DEF FlowInv, PeersOK
<1>4. /\ end = wrapping_add(wrapping_add(wrapping_sub(wnxt, nxt - from), len), ph)
      /\ wnxt \in TcpSeq
  BY <1>2 DEF seq_end, FlowInv, PeersOK
<1>5. /\ nxt' = nxt + new /\ wnxt' = wrapping_add(wnxt, new) /\ acked' = acked
      /\ m'["o2r"] = sender_observes(ds, seg)
  BY DEF Transmit, Observe, metrics_after, Direction
<1>6. /\ DOMAIN m'["o2r"] = DOMAIN ds
      /\ m'["o2r"].acked    = IF ds.acked = None THEN seg.seq ELSE ds.acked
      /\ m'["o2r"].snd_nxt  = serial_max(ds.snd_nxt, end)
      /\ m'["o2r"].frontier = IF len > 0 THEN serial_max(ds.frontier, end) ELSE ds.frontier
  <2> HIDE DEF ds, seg
  <2>1. {"snd_nxt", "acked", "frontier", "last_data_ts",
         "pending_rtt", "tput", "tput_max_ts"} = DOMAIN ds
    BY DEF ds, FlowInv, TracksPeers
  <2> QED BY <1>2, <1>5, <2>1, SenderFields
<1> HIDE DEF ph, len, seg, end
<1>7. end = IF to <= nxt THEN wrapping_sub(wnxt, nxt - to) ELSE wrapping_add(wnxt, new)
  <2>1. len + ph - (nxt - from) < Half
    BY <1>1, <1>3, FlowAssumption, HalfAssumption DEF FlowInv, PeersOK
  <2>3. /\ len + ph <= nxt - from <=> to <= nxt
        /\ (nxt - from) - (len + ph) = nxt - to
        /\ len + ph - (nxt - from) = to - nxt
    BY <1>1, <1>3 DEF FlowInv, PeersOK
  <2>4. len + ph <= nxt - from => end = wrapping_sub(wnxt, (nxt - from) - (len + ph))
    BY <1>1, <1>3, <1>4, <2>1, EndOf
  <2>5. ~(len + ph <= nxt - from) => end = wrapping_add(wnxt, len + ph - (nxt - from))
    BY <1>1, <1>3, <1>4, <2>1, EndOf
  <2> QED BY <2>3, <2>4, <2>5 DEF FlowInv, PeersOK
<1>8. PeersOK'
  BY <1>3, <1>5, Forward DEF FlowInv, PeersOK
<1>9. \A k \in 0 .. Half - 1 : /\ serial_max(wnxt, wrapping_sub(wnxt, k)) = wnxt
                                /\ serial_max(wnxt, wrapping_add(wnxt, k)) = wrapping_add(wnxt, k)
  BY SerialMax DEF FlowInv, PeersOK
<1>10. /\ end \in TcpSeq
      /\ serial_max(wnxt, end) = wnxt'
      /\ serial_max(None, end) = end
  <2>1. end \in TcpSeq
    BY <1>3, <1>7, BackAndForth, Forward DEF FlowInv, PeersOK
  <2>2. wrapping_add(wnxt, 0) = wnxt
    BY HalfAssumption DEF FlowInv, PeersOK, wrapping_add, TcpSeq, Modulus
  <2> QED BY <1>3, <1>7, <1>5, <1>9, <2>1, <2>2, SerialMax DEF FlowInv, PeersOK
<1>11. nxt = 0 => end = wnxt' /\ from = 0 /\ to = 1
  BY <1>7, <1>5 DEF FlowInv, PeersOK
<1>12. m'["o2r"].snd_nxt = IF nxt' = 0 THEN None ELSE wnxt'
  BY <1>3, <1>5, <1>6, <1>10, <1>11 DEF FlowInv, PeersOK, TracksPeers
<1>13. m'["o2r"].acked = IF nxt' = 0 THEN None ELSE wrapping_sub(wnxt', nxt' - acked')
  <2>1. wrapping_sub(wnxt', nxt' - acked') = wrapping_sub(wnxt, nxt - acked)
    BY <1>3, <1>5, Forward DEF FlowInv, PeersOK
  <2>2. ds.acked = IF nxt = 0 THEN None ELSE wrapping_sub(wnxt, nxt - acked)
    BY DEF FlowInv, TracksPeers, wire
  <2>3. wrapping_sub(wnxt, nxt - acked) # None
    BY <1>3, BackAndForth DEF FlowInv, PeersOK, None, TcpSeq
  <2>4. nxt' # 0
    BY <1>3, <1>5 DEF FlowInv, PeersOK
  <2> QED BY <1>2, <1>6, <2>1, <2>2, <2>3, <2>4 DEF FlowInv, PeersOK
<1>14. m'["o2r"].frontier = IF nxt' <= 1 THEN None ELSE wnxt'
  <2>1. ds.frontier = IF nxt <= 1 THEN None ELSE wnxt
    BY DEF FlowInv, TracksPeers
  <2>2. CASE flags = {"SYN"}
    BY <1>1, <1>3, <1>5, <1>6, <2>1, <2>2 DEF FlowInv, PeersOK
  <2>3. CASE flags = {}
    <3>1. nxt' > 1
      BY <1>3, <1>5, <2>3 DEF FlowInv, PeersOK
    <3>2. nxt <= 1 => end = wnxt'
      BY <1>7, <1>5, <2>3 DEF FlowInv, PeersOK
    <3>3. m'["o2r"].frontier = serial_max(ds.frontier, end)
      BY <1>1, <1>6, <2>3
    <3> QED BY <1>8, <1>10, <2>1, <3>1, <3>2, <3>3 DEF FlowInv, PeersOK
  <2> QED BY <2>2, <2>3
<1> QED BY <1>6, <1>8, <1>12, <1>13, <1>14 DEF FlowInv, TracksPeers, wire

\* What a cumulative ACK does: it advances exactly when it covers a new position.
LEMMA AckEffect ==
    ASSUME FlowInv, NEW pos \in Nat, NEW ts, Ack(pos, ts)
    PROVE  LET seg == AckSeg(pos, ts)
               ds  == m["o2r"]
           IN  /\ acked <= pos /\ pos <= nxt /\ nxt > 0
               /\ acked' = pos /\ nxt' = nxt /\ wnxt' = wnxt /\ sends' = sends
               /\ seg.ack = wire(pos) /\ seg.ts = ts
               /\ acked < pos => m'["o2r"] = peer_acked(ds, seg)
               /\ ~(acked < pos) => acked = pos /\ m'["o2r"] = ds
               /\ last'.kind = "ack" /\ last'.from = acked /\ last'.to = pos /\ last'.ts = ts
               /\ last'.sample.rtt = IF acked < pos THEN rtt_of(ds, seg) ELSE None
<1> DEFINE seg == AckSeg(pos, ts)
           ds  == m["o2r"]
<1>1. /\ pos \in Nat /\ acked <= pos /\ pos <= nxt /\ nxt > 0
      /\ acked' = pos /\ nxt' = nxt /\ wnxt' = wnxt /\ sends' = sends
      /\ nxt - pos \in 0 .. Half - 1
      /\ nxt - acked \in 0 .. Half - 1
  BY FlowAssumption, HalfAssumption DEF Ack, FlowInv, PeersOK
<1>2. /\ "ACK" \in seg.flags
      /\ seg.ack = wrapping_sub(wnxt, nxt - pos) /\ seg.ts = ts
  BY DEF AckSeg, wire
<1>3. /\ m'["o2r"] = IF ack_advances(m, seg, "r2o") THEN peer_acked(ds, seg) ELSE ds
      /\ last'.kind = "ack" /\ last'.from = acked /\ last'.to = pos /\ last'.ts = ts
      /\ last'.sample = metric_sample(m, seg, "r2o")
  BY DEF Ack, Observe, metrics_after, Direction
<1> HIDE DEF seg
<1>4. ack_advances(m, seg, "r2o") <=> acked < pos
  <2>1. /\ ds.snd_nxt = wnxt /\ wnxt # None
        /\ ds.acked = wrapping_sub(wnxt, nxt - acked) /\ ds.acked # None
    BY <1>1, BackAndForth DEF FlowInv, PeersOK, TracksPeers, wire, None, TcpSeq
  <2>2. serial_gt(seg.ack, ds.acked) <=> acked < pos
    BY <1>1, <1>2, <2>1, SerialOrder DEF FlowInv, PeersOK, serial_gt
  <2> QED BY <1>2, <2>1, <2>2 DEF ack_advances, dir_opposite
<1>5. last'.sample.rtt = IF ack_advances(m, seg, "r2o") THEN rtt_of(ds, seg) ELSE None
  BY <1>3 DEF metric_sample, dir_opposite
<1>6. ~(acked < pos) => acked = pos
  BY <1>1 DEF FlowInv, PeersOK
<1> QED BY <1>1, <1>2, <1>3, <1>4, <1>5, <1>6 DEF seg, wire

\* A cumulative ACK keeps the derivation in step with the peers.
LEMMA AckKeepsInv ==
    ASSUME FlowInv, NEW pos \in Nat, NEW ts, Ack(pos, ts)
    PROVE  FlowInv'
<1> DEFINE seg == AckSeg(pos, ts)
           ds  == m["o2r"]
<1>1. /\ acked <= pos /\ pos <= nxt /\ nxt > 0
      /\ acked' = pos /\ nxt' = nxt /\ wnxt' = wnxt
      /\ seg.ack = wire(pos)
      /\ acked < pos => m'["o2r"] = peer_acked(ds, seg)
      /\ ~(acked < pos) => acked = pos /\ m'["o2r"] = ds
  BY AckEffect
<1> HIDE DEF seg
<1>2. PeersOK'
  BY <1>1, FlowAssumption DEF FlowInv, PeersOK
<1>3. CASE acked < pos
  <2> HIDE DEF ds
  <2>1. {"snd_nxt", "acked", "frontier", "last_data_ts",
         "pending_rtt", "tput", "tput_max_ts"} = DOMAIN ds
    BY DEF ds, FlowInv, TracksPeers
  <2>2. /\ DOMAIN m'["o2r"] = DOMAIN ds
        /\ m'["o2r"].acked = seg.ack
        /\ m'["o2r"].snd_nxt = ds.snd_nxt
        /\ m'["o2r"].frontier = ds.frontier
    BY <1>1, <1>3, <2>1, ReceiverFields
  <2> QED BY <1>1, <1>2, <2>1, <2>2 DEF ds, FlowInv, TracksPeers, wire
<1>4. CASE ~(acked < pos)
  BY <1>1, <1>2, <1>4 DEF FlowInv, TracksPeers, wire
<1> QED BY <1>3, <1>4

\* Every step of the flow keeps it.
LEMMA NextKeepsFlowInv ==
    ASSUME FlowInv, [Next]_vars
    PROVE  FlowInv'
<1>1. ASSUME NEW ts \in 0 .. MaxTime, SendSyn(ts) PROVE FlowInv'
  <2>1. 0 \in acked .. nxt /\ 1 - acked <= MaxOutstanding
    BY <1>1, FlowAssumption DEF SendSyn, FlowInv, PeersOK
  <2> QED BY <1>1, <2>1, TransmitKeepsInv DEF SendSyn
<1>2. ASSUME NEW len \in 1 .. MaxLen, NEW ts \in 0 .. MaxTime, SendNew(len, ts)
      PROVE  FlowInv'
  <2>1. /\ nxt \in acked .. nxt /\ nxt + len \in Nat /\ nxt < nxt + len /\ 0 < nxt
        /\ nxt + len - acked <= MaxOutstanding
    BY <1>2, FlowAssumption DEF SendNew, FlowInv, PeersOK
  <2>2. PICK from \in acked .. nxt, to \in Nat : from = nxt /\ to = nxt + len
    BY <2>1
  <2>3. Transmit(from, to, {}, ts)
    BY <1>2, <2>2 DEF SendNew
  <2>4. from < to /\ to - acked <= MaxOutstanding /\ 0 < from
    BY <2>1, <2>2 DEF FlowInv, PeersOK
  <2>5. FlowInv
    OBVIOUS
  <2> QED BY ONLY <2>1, <2>2, <2>3, <2>4, <2>5, TransmitKeepsInv, Zenon
<1>3. ASSUME NEW from \in 1 .. MaxPos, NEW len \in 1 .. MaxLen, NEW ts \in 0 .. MaxTime,
             Resend(from, len, ts)
      PROVE  FlowInv'
  <2>1. /\ from \in acked .. nxt /\ from + len \in Nat /\ from < from + len /\ 0 < from
        /\ from + len - acked <= MaxOutstanding
    BY <1>3, FlowAssumption DEF Resend, FlowInv, PeersOK
  <2>2. PICK to \in Nat : to = from + len
    BY <2>1
  <2>3. Transmit(from, to, {}, ts)
    BY <1>3, <2>2 DEF Resend
  <2>4. from < to /\ to - acked <= MaxOutstanding /\ 0 < from
    BY <2>1, <2>2 DEF FlowInv, PeersOK
  <2>5. FlowInv
    OBVIOUS
  <2> QED BY ONLY <2>1, <2>2, <2>3, <2>4, <2>5, TransmitKeepsInv, Zenon
<1>4. ASSUME NEW pos \in 1 .. MaxPos, NEW ts \in 0 .. MaxTime, Ack(pos, ts)
      PROVE  FlowInv'
  <2>1. pos \in Nat
    BY FlowAssumption
  <2> QED BY <1>4, <2>1, AckKeepsInv
<1>5. CASE UNCHANGED vars
  BY <1>5 DEF vars, FlowInv, PeersOK, TracksPeers, wire
<1> QED BY <1>1, <1>2, <1>3, <1>4, <1>5 DEF Next

(***************************************************************************)
(* The derivation tracks the peers: in every reachable state snd_nxt,      *)
(* acked and frontier are the wrapped images of the sender's positions.    *)
(***************************************************************************)
THEOREM FlowInvariant == Spec => []FlowInv
<1>1. FlowInv /\ [Next]_vars => FlowInv'
  BY NextKeepsFlowInv
<1> QED BY <1>1, InitFlowInv, PTL DEF Spec

(***************************************************************************)
(* For every sequence space, every initial sequence number and every       *)
(* window below half a turn, MetricState::in_flight of a flow's sending    *)
(* direction is the sender's own count of unacknowledged numbers.          *)
(***************************************************************************)
THEOREM InFlightIsExact == Spec => []InFlightExact
<1>1. FlowInv => InFlightExact
  <2> SUFFICES ASSUME FlowInv, nxt > 0 PROVE in_flight(m, "o2r") = nxt - acked
    BY DEF InFlightExact
  <2>1. nxt - acked \in 0 .. Half - 1 /\ 0 \in 0 .. Half - 1 /\ wnxt \in TcpSeq
    BY FlowAssumption, HalfAssumption DEF FlowInv, PeersOK
  <2>2. /\ m["o2r"].snd_nxt = wrapping_sub(wnxt, 0) /\ wnxt # None
        /\ m["o2r"].acked = wrapping_sub(wnxt, nxt - acked)
        /\ m["o2r"].acked # None /\ m["o2r"].snd_nxt # None
    BY <2>1, BackAndForth DEF FlowInv, PeersOK, TracksPeers, wire, None, TcpSeq, wrapping_sub
  <2>3. /\ serial_le(m["o2r"].acked, m["o2r"].snd_nxt)
        /\ serial_diff(m["o2r"].snd_nxt, m["o2r"].acked) = nxt - acked
    BY <2>1, <2>2, SerialOrder DEF serial_le, FlowInv, PeersOK
  <2> QED BY <2>2, <2>3 DEF in_flight, outstanding
<1> QED BY <1>1, FlowInvariant, PTL

-----------------------------------------------------------------------------
\* A segment starts behind the frontier exactly when it re-sends data.
LEMMA TransmitFlags ==
    ASSUME FlowInv,
           NEW from \in acked .. nxt, NEW to \in Nat, NEW flags, NEW ts,
           from < to,
           \/ flags = {"SYN"} /\ from = 0 /\ to = 1 /\ nxt <= 1
           \/ flags = {} /\ 0 < from,
           Transmit(from, to, flags, ts)
    PROVE  ResendsFlagged'
<1> DEFINE len == to - from - phantom(flags)
           seg == DataSeg(from, len, flags, ts)
           ds  == m["o2r"]
<1>1. /\ seg.seq = wrapping_sub(wnxt, nxt - from)
      /\ seg.payload_len = len
  BY DEF DataSeg, wire
<1>2. len > 0 <=> 0 < from
  BY DEF phantom, FlowInv, PeersOK
<1>3. /\ last'.kind = "send" /\ last'.from = from /\ last'.known = nxt
      /\ last'.sample = metric_sample(m, seg, "o2r")
  BY DEF Transmit
<1> HIDE DEF seg, len
<1>4. /\ last'.sample.retransmit = is_retransmit(ds, seg)
      /\ last'.sample.out_of_order = is_out_of_order(ds, seg)
  BY <1>3 DEF metric_sample
<1>5. (is_retransmit(ds, seg) \/ is_out_of_order(ds, seg)) <=> behind_frontier(ds, seg)
  BY DEF is_retransmit, is_out_of_order
<1>6. behind_frontier(ds, seg) <=> 0 < from /\ from < nxt
  <2>1. nxt - from \in 0 .. Half - 1 /\ 0 \in 0 .. Half - 1 /\ wnxt \in TcpSeq
    BY FlowAssumption, HalfAssumption DEF FlowInv, PeersOK
  <2>2. wrapping_sub(wnxt, 0) = wnxt /\ wnxt # None
    BY <2>1 DEF wrapping_sub, TcpSeq, None
  <2>3. serial_lt(seg.seq, wnxt) <=> from < nxt
    BY <1>1, <2>1, <2>2, SerialOrder DEF FlowInv, PeersOK
  <2>4. ds.frontier = IF nxt <= 1 THEN None ELSE wnxt
    BY DEF FlowInv, TracksPeers
  <2> QED BY <1>1, <1>2, <2>2, <2>3, <2>4 DEF behind_frontier, FlowInv, PeersOK
<1> QED BY <1>3, <1>4, <1>5, <1>6 DEF ResendsFlagged

(***************************************************************************)
(* The retransmit and out-of-order flags together mark exactly the         *)
(* segments that re-send data, for every sequence space and reorder        *)
(* window: the wrap and the SYN's phantom number never raise or hide one.  *)
(***************************************************************************)
THEOREM ResendsAreFlagged == Spec => []ResendsFlagged
<1>1. Init => ResendsFlagged
  BY DEF Init, NoSample, ResendsFlagged
<1>2. ASSUME FlowInv, ResendsFlagged, [Next]_vars PROVE ResendsFlagged'
  <2>1. ASSUME NEW ts \in 0 .. MaxTime, SendSyn(ts) PROVE ResendsFlagged'
    <3>1. 0 \in acked .. nxt
      BY <1>2, <2>1 DEF SendSyn, FlowInv, PeersOK
    <3> QED BY <1>2, <2>1, <3>1, TransmitFlags DEF SendSyn
  <2>2. ASSUME NEW len \in 1 .. MaxLen, NEW ts \in 0 .. MaxTime, SendNew(len, ts)
        PROVE  ResendsFlagged'
    <3>1. PICK from \in acked .. nxt, to \in Nat :
              from = nxt /\ to = nxt + len /\ from < to /\ 0 < from
      BY <1>2, <2>2, FlowAssumption DEF SendNew, FlowInv, PeersOK
    <3>2. Transmit(from, to, {}, ts)
      BY <2>2, <3>1 DEF SendNew
    <3>3. FlowInv
      BY <1>2
    <3> QED BY ONLY <3>1, <3>2, <3>3, TransmitFlags, Zenon
  <2>3. ASSUME NEW from \in 1 .. MaxPos, NEW len \in 1 .. MaxLen, NEW ts \in 0 .. MaxTime,
               Resend(from, len, ts)
        PROVE  ResendsFlagged'
    <3>1. PICK to \in Nat : to = from + len /\ from < to /\ 0 < from /\ from \in acked .. nxt
      BY <1>2, <2>3, FlowAssumption DEF Resend, FlowInv, PeersOK
    <3>2. Transmit(from, to, {}, ts)
      BY <2>3, <3>1 DEF Resend
    <3>3. FlowInv
      BY <1>2
    <3> QED BY ONLY <3>1, <3>2, <3>3, TransmitFlags, Zenon
  <2>4. ASSUME NEW pos \in 1 .. MaxPos, NEW ts \in 0 .. MaxTime, Ack(pos, ts)
        PROVE  ResendsFlagged'
    <3>1. last'.kind = "ack"
      BY <2>4 DEF Ack
    <3> QED BY <3>1 DEF ResendsFlagged
  <2>5. CASE UNCHANGED vars
    BY <1>2, <2>5 DEF vars, ResendsFlagged
  <2> QED BY <1>2, <2>1, <2>2, <2>3, <2>4, <2>5 DEF Next
<1> QED BY <1>1, <1>2, FlowInvariant, PTL DEF Spec

-----------------------------------------------------------------------------
(***************************************************************************)
(* Karn's rule.  What makes DataRttUnambiguous inductive is what the       *)
(* pending sends are: each was sent once, is not acknowledged yet, and     *)
(* they wait in the order of their ends.                                   *)
(***************************************************************************)
Pending == m["o2r"].pending_rtt

\* Once data was sent, the latest transmission is the latest data.
LatestOK == nxt > 1 => /\ Len(sends) > 0
                       /\ m["o2r"].last_data_ts = sends[Len(sends)].ts

SendsOK ==
    /\ LatestOK
    /\ sends \in Seq([from : Nat, to : Nat, ts : Nat, new : BOOLEAN, soon : BOOLEAN])
    /\ \A j \in 1 .. Len(sends) : sends[j].from < sends[j].to /\ sends[j].to <= nxt
    /\ m["o2r"].last_data_ts \in Nat \cup {None}

\* The pending entry e is transmission k, which an RTT may be timed from.
Times(e, k) ==
    /\ e.ts = sends[k].ts /\ e.end = wire(sends[k].to)
    /\ acked < sends[k].to
    /\ sends[k].from = 0 \/ unambiguous(k)

PendingOK ==
    /\ Pending \in Seq([end : TcpSeq, ts : Nat])
    /\ \A i \in 1 .. Len(Pending) : \E k \in 1 .. Len(sends) : Times(Pending[i], k)
    /\ \A i, j \in 1 .. Len(Pending) : i <= j =>
          \A p, q \in acked .. nxt :
             Pending[i].end = wire(p) /\ Pending[j].end = wire(q) => p <= q

SendsInv == FlowInv /\ SendsOK

KarnInv == SendsInv /\ PendingOK

\* Positions within the window have different wire images, in serial order.
LEMMA WireOrder ==
    ASSUME FlowInv, NEW p \in acked .. nxt, NEW q \in acked .. nxt
    PROVE  /\ wire(p) \in TcpSeq
           /\ wire(p) = wire(q) <=> p = q
           /\ serial_le(wire(p), wire(q)) <=> p <= q
<1>1. /\ nxt - p \in 0 .. Half - 1 /\ nxt - q \in 0 .. Half - 1 /\ wnxt \in TcpSeq
      /\ p \in Nat /\ q \in Nat /\ nxt \in Nat
  BY FlowAssumption, HalfAssumption DEF FlowInv, PeersOK
<1>2. /\ serial_lt(wire(p), wire(q)) <=> nxt - q < nxt - p
      /\ wire(p) = wire(q) <=> nxt - q = nxt - p
  BY <1>1, SerialOrder DEF wire
<1>3. wire(p) \in TcpSeq
  BY <1>1, BackAndForth DEF wire
<1> QED BY <1>1, <1>2, <1>3 DEF serial_le

\* The same of the state after a step.
LEMMA WireOrderNext ==
    ASSUME FlowInv', NEW p \in Nat, NEW q \in Nat,
           acked' <= p, p <= nxt', acked' <= q, q <= nxt'
    PROVE  /\ wire(p)' \in TcpSeq
           /\ wire(p)' = wire(q)' <=> p = q
           /\ serial_le(wire(p)', wire(q)') <=> p <= q
<1>1. /\ nxt' \in Nat /\ acked' \in Nat /\ nxt' - acked' <= MaxOutstanding
      /\ wnxt' \in TcpSeq
  BY DEF FlowInv, PeersOK
<1>2. PICK a \in Nat, b \in Nat, w \in TcpSeq : a = acked' /\ b = nxt' /\ w = wnxt'
  BY <1>1
<1>3. /\ b - a <= MaxOutstanding
      /\ a <= p /\ p <= b /\ a <= q /\ q <= b
  BY <1>1, <1>2
<1>4. /\ b - p \in 0 .. Half - 1 /\ b - q \in 0 .. Half - 1
      /\ b - q < b - p <=> p < q
      /\ b - q = b - p <=> p = q
      /\ p <= q <=> (p = q \/ p < q)
  BY ONLY <1>3, FlowAssumption, HalfAssumption
<1> DEFINE wp == wrapping_sub(w, b - p)
           wq == wrapping_sub(w, b - q)
<1>5. wire(p)' = wp /\ wire(q)' = wq
  BY <1>2 DEF wire
<1>6. /\ serial_lt(wp, wq) <=> b - q < b - p
      /\ wp = wq <=> b - q = b - p
  BY ONLY <1>4, SerialOrder, w \in TcpSeq
<1>7. wp \in TcpSeq
  BY ONLY <1>4, BackAndForth, w \in TcpSeq
<1> HIDE DEF wp, wq
<1>8. serial_le(wp, wq) <=> (wp = wq \/ serial_lt(wp, wq))
  BY DEF serial_le
<1> QED BY <1>4, <1>5, <1>6, <1>7, <1>8

\* What an ACK leaves pending: nothing, or all from the first send it does not cover.
LEMMA UncoveredIs ==
    ASSUME NEW T, NEW s \in Seq(T), NEW ack
    PROVE  \/ uncovered(s, ack) = <<>>
           \/ \E k \in 1 .. Len(s) : /\ uncovered(s, ack) = SubSeq(s, k, Len(s))
                                    /\ ~serial_le(s[k].end, ack)
<1> DEFINE I == {i \in 1 .. Len(s) : ~serial_le(s[i].end, ack)}
           k == IF I # {} THEN Min(I) ELSE 0
<1>1. uncovered(s, ack) = IF k = 0 THEN <<>> ELSE SubSeq(s, k, Len(s))
  BY Zenon DEF uncovered, PopFrontWhile, SelectInSeq
<1>2. CASE I = {}
  BY <1>1, <1>2
<1>3. CASE I # {}
  <2>1. I \subseteq Nat
    OBVIOUS
  <2>2. k \in I
    BY <1>3, <2>1, MinIsLeast
  <2>3. k \in 1 .. Len(s) /\ ~serial_le(s[k].end, ack)
    BY <2>2
  <2> HIDE DEF k
  <2>4. k # 0
    BY <2>3
  <2> QED BY <1>1, <2>3, <2>4
<1> QED BY <1>2, <1>3

\* What is known of a transmission, and of one that is timed.
LEMMA SendFacts ==
    ASSUME SendsInv, NEW k \in 1 .. Len(sends)
    PROVE  /\ sends[k].from \in Nat /\ sends[k].to \in Nat
           /\ sends[k].from < sends[k].to /\ sends[k].to <= nxt
           /\ k \in DOMAIN sends
           /\ \A e : Times(e, k) => sends[k].to \in acked .. nxt
<1> DEFINE R == [from : Nat, to : Nat, ts : Nat, new : BOOLEAN, soon : BOOLEAN]
<1>1. /\ sends \in Seq(R) /\ sends[k].from < sends[k].to /\ sends[k].to <= nxt
      /\ acked \in Nat /\ nxt \in Nat
  BY DEF SendsInv, SendsOK, FlowInv, PeersOK
<1>2. sends[k] \in R /\ k \in DOMAIN sends
  <2> HIDE DEF R
  <2> QED BY <1>1
<1>3. PICK f \in Nat, t \in Nat : sends[k].from = f /\ sends[k].to = t
  BY <1>2
<1>4. ASSUME NEW e, Times(e, k) PROVE t \in acked .. nxt
  <2>1. acked < t
    BY <1>3, <1>4 DEF Times
  <2>2. t <= nxt
    BY <1>1, <1>3
  <2> QED BY ONLY <1>1, <2>1, <2>2, t \in Nat
<1> QED BY <1>1, <1>2, <1>3, <1>4

\* Facts of a transmission that do not depend on the pending sends.
LEMMA TransmitSends ==
    ASSUME SendsInv, NEW from \in acked .. nxt, NEW to \in Nat, NEW flags, NEW ts \in Nat,
           from < to, to - acked <= MaxOutstanding,
           \/ flags = {"SYN"} /\ from = 0 /\ to = 1 /\ nxt <= 1
           \/ flags = {} /\ 0 < from,
           Transmit(from, to, flags, ts)
    PROVE  LET len == to - from - phantom(flags)
               seg == DataSeg(from, len, flags, ts)
           IN  /\ SendsOK'
               /\ Len(sends') = Len(sends) + 1
               /\ \A j \in 1 .. Len(sends) : sends'[j] = sends[j]
               /\ sends'[Len(sends) + 1].from = from /\ sends'[Len(sends) + 1].to = to
               /\ sends'[Len(sends) + 1].ts = ts
               /\ sends'[Len(sends) + 1].new = (from >= nxt)
               /\ sends'[Len(sends) + 1].soon = soon(ts)
               /\ m'["o2r"].last_data_ts =
                     IF seg.payload_len > 0 THEN ts ELSE m["o2r"].last_data_ts
               /\ m'["o2r"].pending_rtt = pending_after(m["o2r"], seg)
               /\ nxt <= nxt' /\ nxt' \in Nat /\ to <= nxt' /\ acked' = acked
               /\ nxt' \in {nxt, to}
               /\ \A p \in acked .. nxt : wire(p)' = wire(p)
<1> DEFINE len == to - from - phantom(flags)
           seg == DataSeg(from, len, flags, ts)
           ds  == m["o2r"]
           new == IF to > nxt THEN to - nxt ELSE 0
           rec == [from |-> from, to |-> to, ts |-> ts, new |-> from >= nxt, soon |-> soon(ts)]
           R   == [from : Nat, to : Nat, ts : Nat, new : BOOLEAN, soon : BOOLEAN]
<1>1. /\ nxt \in Nat /\ from \in Nat /\ acked \in Nat
      /\ new \in 0 .. Half - 1 /\ nxt + new \in {nxt, to} /\ nxt <= nxt + new
      /\ to <= nxt + new
  BY FlowAssumption, HalfAssumption DEF SendsInv, FlowInv, PeersOK
<1>2. /\ nxt' = nxt + new /\ wnxt' = wrapping_add(wnxt, new) /\ acked' = acked
      /\ m'["o2r"] = sender_observes(ds, seg)
      /\ sends' = Append(sends, rec)
  BY DEF Transmit, Observe, metrics_after, Direction
<1>3. /\ m'["o2r"].last_data_ts = IF seg.payload_len > 0 THEN seg.ts ELSE ds.last_data_ts
      /\ m'["o2r"].pending_rtt = pending_after(ds, seg)
  <2> HIDE DEF ds, seg
  <2>1. {"snd_nxt", "acked", "frontier", "last_data_ts",
         "pending_rtt", "tput", "tput_max_ts"} = DOMAIN ds
    BY DEF ds, SendsInv, FlowInv, TracksPeers
  <2> QED BY <1>2, <2>1, SenderFields
<1>4. rec \in R /\ sends \in Seq(R)
  <2>1. (from >= nxt) \in BOOLEAN /\ soon(ts) \in BOOLEAN
    BY <1>1 DEF soon
  <2> QED BY <1>1, <2>1 DEF SendsInv, SendsOK
<1>5. /\ sends' \in Seq(R) /\ Len(sends') = Len(sends) + 1 /\ Len(sends) \in Nat
      /\ \A j \in 1 .. Len(sends) : sends'[j] = sends[j]
      /\ sends'[Len(sends) + 1] = rec
  <2> HIDE DEF rec, R
  <2> QED BY <1>2, <1>4
<1>6. /\ sends'[Len(sends) + 1].from = from /\ sends'[Len(sends) + 1].to = to
      /\ sends'[Len(sends) + 1].ts = ts
      /\ sends'[Len(sends) + 1].new = (from >= nxt) /\ sends'[Len(sends) + 1].soon = soon(ts)
  BY <1>5
<1>10. LatestOK'
  <2>1. seg.payload_len = len /\ seg.ts = ts
    BY DEF DataSeg
  <2> HIDE DEF seg
  <2>2. CASE flags = {} /\ 0 < from
    <3>1. len > 0
      <4>1. phantom(flags) = 0
        BY <2>2 DEF phantom
      <4> QED BY <1>1, <4>1
    <3>2. m'["o2r"].last_data_ts = ts
      BY <1>3, <2>1, <3>1
    <3>3. Len(sends') > 0 /\ sends'[Len(sends')].ts = ts
      BY <1>5, <1>6
    <3> QED BY <3>2, <3>3 DEF LatestOK
  <2>3. CASE flags = {"SYN"} /\ from = 0 /\ to = 1 /\ nxt <= 1
    <3>1. ~(nxt' > 1)
      BY <1>1, <1>2, <2>3
    <3> QED BY <3>1 DEF LatestOK
  <2> QED BY <2>2, <2>3
<1>7. SendsOK'
  <2>1. m'["o2r"].last_data_ts \in Nat \cup {None}
    <3>1. seg.ts = ts
      BY DEF DataSeg
    <3> QED BY <1>3, <3>1 DEF SendsInv, SendsOK
  <2>2. ASSUME NEW j \in 1 .. Len(sends')
        PROVE  sends'[j].from < sends'[j].to /\ sends'[j].to <= nxt'
    <3>1. CASE j \in 1 .. Len(sends)
      <4>1. PICK f \in Nat, t \in Nat :
               sends[j].from = f /\ sends[j].to = t /\ f < t /\ t <= nxt
        BY <3>1, SendFacts
      <4>2. t <= nxt + new
        BY ONLY <1>1, <4>1
      <4> QED BY <1>2, <1>5, <3>1, <4>1, <4>2
    <3>2. CASE j = Len(sends) + 1
      BY <1>1, <1>2, <1>6, <3>2
    <3> QED BY <1>5, <3>1, <3>2
  <2> QED BY <1>5, <1>10, <2>1, <2>2 DEF SendsOK
<1>8. ASSUME NEW p \in acked .. nxt PROVE wire(p)' = wire(p)
  <2>1. p \in Nat /\ p <= nxt /\ nxt - p < Half
    BY <1>1, FlowAssumption, HalfAssumption DEF SendsInv, FlowInv, PeersOK
  <2>2. wrapping_sub(wrapping_add(wnxt, new), (nxt + new) - p) = wire(p)
    <3> HIDE DEF new
    <3> QED BY <1>1, <2>1, WireStays DEF SendsInv, FlowInv
  <2> QED BY <1>2, <2>2 DEF wire
<1>9. seg.ts = ts
  BY DEF DataSeg
<1> QED BY <1>1, <1>2, <1>3, <1>5, <1>6, <1>7, <1>8, <1>9

\* A retransmit is a segment that starts behind data already sent and does not come so soon
\* that it is taken for reordering.
LEMMA RetransmitExactly ==
    ASSUME SendsInv,
           NEW from \in acked .. nxt, NEW to \in Nat, NEW flags, NEW ts \in Nat, from < to,
           \/ flags = {"SYN"} /\ from = 0 /\ to = 1 /\ nxt <= 1
           \/ flags = {} /\ 0 < from,
           Transmit(from, to, flags, ts)
    PROVE  is_retransmit(m["o2r"], DataSeg(from, to - from - phantom(flags), flags, ts))
             <=> 0 < from /\ from < nxt /\ ~soon(ts)
<1>1. PICK seg : seg = DataSeg(from, to - from - phantom(flags), flags, ts)
  OBVIOUS
<1>2. ResendsFlagged'
  BY TransmitFlags DEF SendsInv
<1>3. /\ last'.kind = "send" /\ last'.from = from /\ last'.known = nxt
      /\ last'.sample = metric_sample(m, seg, "o2r")
  BY <1>1 DEF Transmit
<1>4. /\ last'.sample.retransmit = is_retransmit(m["o2r"], seg)
      /\ last'.sample.out_of_order = is_out_of_order(m["o2r"], seg)
  BY <1>3 DEF metric_sample
<1>5. (last'.sample.retransmit \/ last'.sample.out_of_order) <=> from > 0 /\ from < nxt
  BY <1>2, <1>3 DEF ResendsFlagged
<1>6. PICK f \in Nat, x \in Nat : f = from /\ x = nxt
  BY DEF SendsInv, FlowInv, PeersOK
<1>7. behind_frontier(m["o2r"], seg) <=> 0 < f /\ f < x
  <2>1. is_retransmit(m["o2r"], seg) \/ is_out_of_order(m["o2r"], seg)
           <=> behind_frontier(m["o2r"], seg)
    BY DEF is_retransmit, is_out_of_order
  <2> QED BY <1>4, <1>5, <1>6, <2>1
<1>8. ASSUME 0 < f, f < x PROVE within_reorder_window(m["o2r"], seg) <=> soon(ts)
  <2>1. seg.ts = ts
    BY <1>1 DEF DataSeg
  <2>2. nxt > 1
    BY <1>6, <1>8
  <2>3. PICK n \in Nat : n = Len(sends) /\ n > 0 /\ m["o2r"].last_data_ts = sends[n].ts
    BY <2>2 DEF LatestOK, SendsInv, SendsOK
  <2>4. sends[n].ts \in Nat
    <3>1. PICK R, ss : /\ R = [from : Nat, to : Nat, ts : Nat, new : BOOLEAN, soon : BOOLEAN]
                       /\ ss = sends
                       /\ ss \in Seq(R)
      BY DEF SendsInv, SendsOK
    <3>2. n \in 1 .. Len(ss)
      BY <2>3, <3>1
    <3>3. ss[n] \in R
      BY ONLY <3>1, <3>2, ElementOfSeq
    <3> QED BY <3>1, <3>3
  <2>5. sends # <<>> /\ Last(sends) = sends[n]
    BY <2>3 DEF Last
  <2>6. m["o2r"].last_data_ts # None
    BY <2>3, <2>4 DEF None
  <2> QED BY <2>1, <2>3, <2>5, <2>6 DEF within_reorder_window, soon
<1>9. is_retransmit(m["o2r"], seg) <=> 0 < f /\ f < x /\ ~soon(ts)
  BY <1>7, <1>8 DEF is_retransmit
<1> QED BY <1>1, <1>6, <1>9

\* Timed transmissions stay so when one behind all of them, or the SYN, is sent.
LEMMA TimesStays ==
    ASSUME KarnInv, SendsOK', acked' = acked, NEW e, NEW k \in 1 .. Len(sends), Times(e, k),
           Len(sends') = Len(sends) + 1,
           \A j \in 1 .. Len(sends) : sends'[j] = sends[j],
           \A p \in acked .. nxt : wire(p)' = wire(p),
           nxt <= 1 \/ nxt <= sends'[Len(sends) + 1].from
    PROVE  Times(e, k)'
<1> DEFINE new == sends'[Len(sends) + 1]
<1>1. /\ sends'[k] = sends[k] /\ Len(sends) \in Nat /\ k \in 1 .. Len(sends')
      /\ sends[k].to \in Nat /\ sends[k].from \in Nat /\ acked \in Nat /\ nxt \in Nat
      /\ sends[k].from < sends[k].to /\ sends[k].to <= nxt
      /\ new.from \in Nat
  <2> DEFINE R == [from : Nat, to : Nat, ts : Nat, new : BOOLEAN, soon : BOOLEAN]
  <2>1. sends \in Seq(R) /\ sends' \in Seq(R)
    BY DEF KarnInv, SendsInv, SendsOK
  <2>2. Len(sends) \in Nat /\ k \in 1 .. Len(sends') /\ Len(sends) + 1 \in 1 .. Len(sends')
    <3>1. Len(sends) \in Nat
      BY <2>1, LenProperties
    <3> QED BY <3>1
  <2>3. new \in R
    <3> HIDE DEF R
    <3> QED BY <2>1, <2>2, ElementOfSeq
  <2>4. new.from \in Nat
    BY <2>3
  <2>5. sends'[k] = sends[k] /\ acked \in Nat /\ nxt \in Nat
    BY DEF KarnInv, SendsInv, FlowInv, PeersOK
  <2> QED BY <2>2, <2>4, <2>5, SendFacts DEF KarnInv
<1>2. sends[k].to \in acked .. nxt
  BY <1>1 DEF Times
<1>3. e.ts = sends'[k].ts /\ e.end = wire(sends[k].to)' /\ acked < sends'[k].to
  BY <1>1, <1>2 DEF Times
<1>4. sends'[k].from = 0 \/ unambiguous(k)'
  <2>1. CASE sends[k].from = 0
    BY <1>1, <2>1
  <2>2. CASE unambiguous(k) /\ sends[k].from # 0
    <3>1. DOMAIN sends = 1 .. Len(sends) /\ DOMAIN sends' = 1 .. Len(sends')
      BY DEF KarnInv, SendsInv, SendsOK
    <3>2. nxt <= new.from
      BY <1>1, <2>2
    <3>3. \A j \in 1 .. Len(sends') : j \in 1 .. Len(sends) \/ j = Len(sends) + 1
      BY <1>1
    <3>4. sends[k].to <= new.from
      BY <1>1, <3>2
    <3> HIDE DEF new
    <3> QED BY <1>1, <2>2, <3>1, <3>3, <3>4 DEF unambiguous, new
  <2> QED BY <2>1, <2>2 DEF Times
<1> QED BY <1>1, <1>3, <1>4 DEF Times

\* One past the end of a segment is the wire image of its last position plus one.
LEMMA TransmitEnd ==
    ASSUME FlowInv, NEW from \in acked .. nxt, NEW to \in Nat, NEW flags, NEW ts,
           from < to, to - acked <= MaxOutstanding,
           \/ flags = {"SYN"} /\ from = 0 /\ to = 1
           \/ flags = {} /\ 0 < from,
           Transmit(from, to, flags, ts)
    PROVE  seq_end(DataSeg(from, to - from - phantom(flags), flags, ts)) = wire(to)'
<1> DEFINE ph  == phantom(flags)
           len == to - from - ph
           seg == DataSeg(from, len, flags, ts)
           new == IF to > nxt THEN to - nxt ELSE 0
           j   == nxt - from
<1>1. ph \in Nat /\ len \in Nat /\ len + ph = to - from
  BY DEF phantom, FlowInv, PeersOK
<1>2. /\ nxt \in Nat /\ from \in Nat /\ j \in 0 .. Half - 1 /\ len + ph - j < Half
      /\ new \in 0 .. Half - 1 /\ wnxt \in TcpSeq
      /\ to <= nxt => nxt - to \in 0 .. Half - 1
  BY <1>1, FlowAssumption, HalfAssumption DEF FlowInv, PeersOK
<1>21. nxt' = nxt + new /\ wnxt' = wrapping_add(wnxt, new)
  BY DEF Transmit
<1>3. seq_end(seg) = wrapping_add(wrapping_add(wrapping_sub(wnxt, j), len), ph)
  BY DEF seq_end, DataSeg, wire
<1> HIDE DEF ph, len, seg
<1>4. CASE to <= nxt
  <2>1. len + ph <= j /\ j - (len + ph) = nxt - to /\ new = 0
    BY <1>1, <1>2, <1>4
  <2>2. seq_end(seg) = wrapping_sub(wnxt, nxt - to)
    <3> HIDE DEF j
    <3> QED BY <1>1, <1>2, <1>3, <2>1, EndOf
  <2>3. wrapping_add(wnxt, 0) = wnxt /\ nxt' = nxt
    BY <1>2, <1>21, <2>1, HalfAssumption DEF wrapping_add, TcpSeq, Modulus
  <2> QED BY <1>2, <1>21, <2>1, <2>2, <2>3 DEF wire, seg, len, ph
<1>5. CASE ~(to <= nxt)
  <2>1. ~(len + ph <= j) /\ len + ph - j = new /\ nxt' = to
    BY <1>1, <1>2, <1>21, <1>5
  <2>2. seq_end(seg) = wnxt'
    <3> HIDE DEF j, new
    <3> QED BY <1>1, <1>2, <1>21, <1>3, <2>1, EndOf
  <2>3. wrapping_sub(wnxt', nxt' - to) = wnxt'
    <3>1. wnxt' \in TcpSeq
      <4> HIDE DEF new
      <4> QED BY <1>2, <1>21, Forward
    <3>2. nxt' - to = 0
      BY <2>1
    <3> QED BY <3>1, <3>2, HalfAssumption DEF wrapping_sub, TcpSeq, Modulus
  <2> QED BY <2>2, <2>3 DEF wire, seg, len, ph
<1> QED BY <1>4, <1>5

\* A segment that starts at the newest position, or the SYN, is registered.
LEMMA RegisterKeepsKarn ==
    ASSUME KarnInv, NEW from \in acked .. nxt, NEW to \in Nat, NEW flags, NEW ts \in Nat,
           from < to, to - acked <= MaxOutstanding,
           \/ flags = {"SYN"} /\ from = 0 /\ to = 1 /\ nxt <= 1
           \/ flags = {} /\ 0 < from /\ from = nxt,
           Transmit(from, to, flags, ts)
    PROVE  KarnInv'
<1> DEFINE len == to - from - phantom(flags)
           seg == DataSeg(from, len, flags, ts)
           ds  == m["o2r"]
           e   == [end |-> seq_end(seg), ts |-> ts]
           E   == [end : TcpSeq, ts : Nat]
<1>0. PICK n : n = Len(sends) + 1
  OBVIOUS
<1>1. FlowInv'
  BY TransmitKeepsInv DEF KarnInv, SendsInv
<1>2. /\ SendsOK'
      /\ Len(sends') = n
      /\ \A j \in 1 .. Len(sends) : sends'[j] = sends[j]
      /\ sends'[n].from = from /\ sends'[n].to = to /\ sends'[n].ts = ts
      /\ m'["o2r"].pending_rtt = pending_after(ds, seg)
      /\ nxt <= nxt' /\ nxt' \in Nat /\ to <= nxt' /\ acked' = acked
      /\ nxt' \in {nxt, to}
      /\ \A p \in acked .. nxt : wire(p)' = wire(p)
  BY <1>0, TransmitSends DEF KarnInv
<1>3. /\ nxt \in Nat /\ acked \in Nat /\ from \in Nat /\ nxt' = to /\ Len(sends) \in Nat
      /\ nxt <= to /\ acked < to
  <2>1. Len(sends) \in Nat
    BY LenProperties DEF KarnInv, SendsInv, SendsOK
  <2> QED BY <1>2, <2>1 DEF KarnInv, SendsInv, FlowInv, PeersOK
<1>4. seq_end(seg) = wire(to)' /\ wire(to)' \in TcpSeq
  <2>1. seq_end(seg) = wire(to)'
    BY TransmitEnd DEF KarnInv, SendsInv
  <2>2. to \in acked' .. nxt'
    BY <1>2, <1>3
  <2> QED BY <1>1, <2>1, <2>2, WireOrderNext
<1>5. Pending' = Append(Pending, e)
  <2>1. ~behind_frontier(ds, seg)
    <3>1. nxt - from \in 0 .. Half - 1 /\ 0 \in 0 .. Half - 1 /\ wnxt \in TcpSeq
      BY FlowAssumption, HalfAssumption DEF KarnInv, SendsInv, FlowInv, PeersOK
    <3>2. wrapping_sub(wnxt, 0) = wnxt
      BY <3>1 DEF wrapping_sub, TcpSeq
    <3>3. seg.seq = wrapping_sub(wnxt, nxt - from) /\ seg.payload_len = len
      BY DEF DataSeg, wire
    <3>4. CASE flags = {} /\ from = nxt
      <4>1. ds.frontier \in {None, wnxt} /\ nxt - from = 0
        BY <1>3, <3>4 DEF KarnInv, SendsInv, FlowInv, TracksPeers
      <4>2. ~serial_lt(wnxt, wnxt)
        BY <3>1, HalfAssumption DEF serial_lt, wrapping_sub, TcpSeq, Modulus
      <4> QED BY <3>2, <3>3, <4>1, <4>2 DEF behind_frontier
    <3>5. CASE flags = {"SYN"} /\ from = 0 /\ to = 1
      <4>1. len = 0
        BY <3>5 DEF phantom
      <4> QED BY <3>3, <4>1 DEF behind_frontier
    <3> QED BY <3>4, <3>5
  <2>2. registers(seg) /\ seg.ts = ts
    <3>1. seg.payload_len = len /\ seg.flags = flags /\ seg.ts = ts
      BY DEF DataSeg
    <3>2. len > 0 \/ phantom(flags) > 0
      BY <1>3 DEF phantom
    <3> HIDE DEF len, seg
    <3> QED BY <3>1, <3>2 DEF registers
  <2> HIDE DEF seg
  <2> QED BY <1>2, <2>1, <2>2 DEF Pending, pending_after, is_retransmit
<1> HIDE DEF len, seg, ds, e
<1>6. e \in E /\ e.end = wire(to)' /\ e.ts = ts
  BY <1>4 DEF e
<1>7. /\ Pending' \in Seq(E) /\ Len(Pending') = Len(Pending) + 1 /\ Len(Pending) \in Nat
      /\ \A i \in 1 .. Len(Pending) : Pending'[i] = Pending[i]
      /\ Pending'[Len(Pending) + 1] = e
  <2>1. Pending \in Seq(E)
    BY DEF KarnInv, SendsInv, PendingOK
  <2> HIDE DEF E
  <2> QED BY <1>5, <1>6, <2>1
<1>8. \A i \in 1 .. Len(Pending') : i \in 1 .. Len(Pending) \/ i = Len(Pending) + 1
  BY <1>7
<1>9. ASSUME NEW i \in 1 .. Len(Pending')
      PROVE  \E k \in 1 .. Len(sends') : Times(Pending[i], k)'
  <2>1. CASE i \in 1 .. Len(Pending)
    <3>1. PICK k \in 1 .. Len(sends) : Times(Pending[i], k)
      BY <2>1 DEF KarnInv, SendsInv, PendingOK
    <3>2. nxt <= 1 \/ nxt <= sends'[n].from
      BY <1>2, <1>3
    <3>3. Times(Pending[i], k)'
      <4>1. PICK x : x = Pending[i]
        OBVIOUS
      <4>2. Times(x, k)'
        BY <1>2, <3>1, <3>2, <4>1, TimesStays, <1>0
      <4> QED BY <1>7, <2>1, <4>1, <4>2 DEF Times
    <3>4. k \in 1 .. Len(sends')
      BY <1>0, <1>2, <1>3
    <3> QED BY <3>3, <3>4
  <2>2. CASE i = Len(Pending) + 1
    <3>1. DOMAIN sends' = 1 .. Len(sends') /\ n \in 1 .. Len(sends')
      BY <1>0, <1>2, <1>3 DEF SendsOK
    <3>2. from = 0 \/ unambiguous(n)'
      <4>1. CASE from = nxt
        <5>1. ASSUME NEW j \in 1 .. Len(sends') \ {n} PROVE sends'[j].to <= sends'[n].from
          <6>1. j \in 1 .. Len(sends)
            BY <1>0, <1>2, <1>3
          <6> QED BY <1>2, <4>1, <6>1 DEF KarnInv, SendsInv, SendsOK
        <5>2. \A j \in DOMAIN sends' \ {n} :
                 sends'[j].to <= sends'[n].from \/ sends'[n].to <= sends'[j].from
          BY <3>1, <5>1
        <5> QED BY <5>2 DEF unambiguous
      <4> QED BY <4>1
    <3>3. Times(Pending[i], n)'
      <4>1. Pending'[i] = e /\ e.ts = sends'[n].ts /\ e.end = wire(to)' /\ acked' < to
        BY <1>2, <1>3, <1>6, <1>7, <2>2
      <4> QED BY <1>2, <3>2, <4>1 DEF Times
    <3> QED BY <3>1, <3>3
  <2> QED BY <1>8, <2>1, <2>2
<1>10. ASSUME NEW i \in 1 .. Len(Pending'), NEW j \in 1 .. Len(Pending'), i <= j,
              NEW p \in acked' .. nxt', NEW q \in acked' .. nxt',
              Pending'[i].end = wire(p)', Pending'[j].end = wire(q)'
       PROVE  p <= q
  <2>0. /\ p \in Nat /\ acked' <= p /\ p <= nxt'
        /\ q \in Nat /\ acked' <= q /\ q <= nxt'
    <3>1. PICK x \in Nat, y \in Nat : x = acked' /\ y = nxt'
      BY <1>2, <1>3
    <3>2. p \in x .. y /\ q \in x .. y
      BY <1>10, <3>1
    <3>3. p \in Nat /\ x <= p /\ p <= y /\ q \in Nat /\ x <= q /\ q <= y
      BY ONLY <3>2, x \in Nat, y \in Nat
    <3> QED BY <3>1, <3>3
  <2>1. CASE j = Len(Pending) + 1
    <3>1. acked' <= to /\ to <= nxt'
      BY <1>2, <1>3
    <3>2. wire(q)' = wire(to)'
      BY <1>6, <1>7, <1>10, <2>1
    <3>3. q = to
      BY <1>1, <2>0, <3>1, <3>2, WireOrderNext
    <3> QED BY <1>3, <3>3
  <2>2. CASE j \in 1 .. Len(Pending)
    <3>1. i \in 1 .. Len(Pending)
      BY <1>7, <1>10, <2>2
    <3>2. PICK k \in 1 .. Len(sends) : Times(Pending[i], k)
      BY <3>1 DEF KarnInv, SendsInv, PendingOK
    <3>3. PICK l \in 1 .. Len(sends) : Times(Pending[j], l)
      BY <2>2 DEF KarnInv, SendsInv, PendingOK
    <3>4. sends[k].to \in acked .. nxt /\ sends[l].to \in acked .. nxt
      BY <3>2, <3>3, SendFacts DEF KarnInv
    <3>5. /\ Pending[i].end = wire(sends[k].to) /\ Pending[j].end = wire(sends[l].to)
          /\ sends[k].to <= sends[l].to
      BY <1>10, <2>2, <3>1, <3>2, <3>3, <3>4 DEF Times, KarnInv, SendsInv, PendingOK
    <3>6. PICK a \in acked .. nxt, b \in acked .. nxt :
             /\ a = sends[k].to /\ b = sends[l].to /\ a <= b
             /\ Pending[i].end = wire(a) /\ Pending[j].end = wire(b)
      BY <3>4, <3>5
    <3>7. wire(p)' = wire(a)' /\ wire(q)' = wire(b)'
      BY <1>2, <1>7, <1>10, <2>2, <3>1, <3>6
    <3>8. /\ a \in Nat /\ acked' <= a /\ a <= nxt'
          /\ b \in Nat /\ acked' <= b /\ b <= nxt'
      BY <1>2, <1>3, SMTT(30)
    <3>9. p = a /\ q = b
      BY <1>1, <2>0, <3>7, <3>8, WireOrderNext
    <3> QED BY <3>6, <3>9
  <2> QED BY <1>8, <2>1, <2>2
<1>11. PendingOK'
  BY <1>7, <1>9, <1>10 DEF PendingOK
<1> QED BY <1>1, <1>2, <1>11 DEF KarnInv, SendsInv

\* Without a reorder window a re-send of data leaves nothing to time.
LEMMA ResendKeepsKarn ==
    ASSUME KarnInv, recognised',
           NEW from \in acked .. nxt, NEW to \in Nat, NEW ts \in Nat,
           from < to, to - acked <= MaxOutstanding, 0 < from, from < nxt,
           Transmit(from, to, {}, ts)
    PROVE  KarnInv'
<1> DEFINE len == to - from - phantom({})
           seg == DataSeg(from, len, {}, ts)
           ds  == m["o2r"]
<1>1. FlowInv'
  BY TransmitKeepsInv DEF KarnInv, SendsInv
<1>2. SendsOK' /\ m'["o2r"].pending_rtt = pending_after(ds, seg)
  BY TransmitSends DEF KarnInv
<1>3. is_retransmit(ds, seg)
  <2>1. PICK n : n = Len(sends) + 1
    OBVIOUS
  <2>2. /\ n \in DOMAIN sends' /\ sends'[n].from = from
        /\ sends'[n].new = (from >= nxt) /\ sends'[n].soon = soon(ts)
    <3>1. /\ SendsOK' /\ Len(sends') = n /\ sends'[n].from = from
          /\ sends'[n].new = (from >= nxt) /\ sends'[n].soon = soon(ts)
      BY <2>1, TransmitSends DEF KarnInv
    <3>2. PICK T : sends' \in Seq(T) /\ sends \in Seq(T)
      BY <3>1 DEF SendsOK, KarnInv, SendsInv
    <3>3. n \in 1 .. Len(sends')
      BY <2>1, <3>1, <3>2
    <3> QED BY <3>1, <3>2, <3>3
  <2>3. ~(from >= nxt) /\ from # 0
    BY DEF KarnInv, SendsInv, FlowInv, PeersOK
  <2>4. ~soon(ts)
    BY <2>2, <2>3 DEF recognised
  <2> QED BY <2>4, RetransmitExactly DEF KarnInv
<1>4. Pending' = <<>>
  BY <1>2, <1>3 DEF Pending, pending_after
<1>5. PendingOK'
  BY <1>4 DEF PendingOK
<1> QED BY <1>1, <1>2, <1>5 DEF KarnInv, SendsInv

\* An ACK leaves only sends that it does not cover, in their order.
LEMMA AckKeepsKarn ==
    ASSUME KarnInv, NEW pos \in Nat, NEW ts, Ack(pos, ts)
    PROVE  KarnInv'
<1> DEFINE seg == AckSeg(pos, ts)
           ds  == m["o2r"]
           E   == [end : TcpSeq, ts : Nat]
<1>1. FlowInv /\ FlowInv' /\ Pending \in Seq(E)
  BY AckKeepsInv DEF KarnInv, SendsInv, PendingOK
<1>2. /\ acked <= pos /\ pos <= nxt
      /\ acked' = pos /\ nxt' = nxt /\ wnxt' = wnxt /\ sends' = sends
      /\ seg.ack = wire(pos)
      /\ acked < pos => m'["o2r"] = peer_acked(ds, seg)
      /\ ~(acked < pos) => acked = pos /\ m'["o2r"] = ds
  BY <1>1, AckEffect
<1>3. acked \in Nat /\ nxt \in Nat
  BY <1>1 DEF FlowInv, PeersOK
<1>4. \A p : wire(p)' = wire(p)
  BY <1>2 DEF wire
<1> HIDE DEF seg
<1>5. CASE ~(acked < pos)
  <2>1. Pending' = Pending /\ acked' = acked
    BY <1>2, <1>5 DEF Pending
  <2>2. SendsOK'
    BY <1>2, <1>5 DEF KarnInv, SendsInv, SendsOK, LatestOK
  <2>3. ASSUME NEW i \in 1 .. Len(Pending), NEW k \in 1 .. Len(sends), Times(Pending[i], k)
        PROVE  Times(Pending[i], k)'
    BY <1>2, <1>4, <2>1, <2>3 DEF Times, unambiguous
  <2>4. PendingOK'
    BY <1>2, <1>4, <2>1, <2>3, SMTT(30) DEF KarnInv, SendsInv, PendingOK
  <2> QED BY <1>1, <2>2, <2>4 DEF KarnInv, SendsInv
<1>6. CASE acked < pos
  <2>1. /\ m'["o2r"].last_data_ts = ds.last_data_ts
        /\ Pending' = uncovered(Pending, wire(pos))
    <3> HIDE DEF ds
    <3>1. {"snd_nxt", "acked", "frontier", "last_data_ts",
           "pending_rtt", "tput", "tput_max_ts"} = DOMAIN ds
      BY <1>1 DEF ds, FlowInv, TracksPeers
    <3>2. /\ m'["o2r"].last_data_ts = ds.last_data_ts
          /\ m'["o2r"].pending_rtt = uncovered(ds.pending_rtt, seg.ack)
      BY <1>2, <1>6, <3>1, ReceiverFields
    <3> QED BY <1>2, <3>2 DEF Pending, ds
  <2>2. SendsOK'
    BY <1>2, <2>1 DEF KarnInv, SendsInv, SendsOK, LatestOK
  <2>3. CASE Pending' = <<>>
    <3>1. PendingOK'
      BY <2>3 DEF PendingOK
    <3> QED BY <1>1, <2>2, <3>1 DEF KarnInv, SendsInv
  <2>4. ASSUME NEW k \in 1 .. Len(Pending), Pending' = SubSeq(Pending, k, Len(Pending)),
               ~serial_le(Pending[k].end, wire(pos))
        PROVE  PendingOK'
    <3>1. /\ Len(Pending) \in Nat /\ k \in Nat
          /\ Pending' \in Seq(E) /\ Len(Pending') = Len(Pending) - k + 1
          /\ \A i \in 1 .. Len(Pending') : Pending'[i] = Pending[k + i - 1]
      <4>1. Len(Pending) \in Nat
        BY <1>1, LenProperties
      <4> HIDE DEF E
      <4> QED BY <1>1, <2>4, <4>1, SubSeqProperties
    <3>2. ASSUME NEW i \in 1 .. Len(Pending')
          PROVE  k + i - 1 \in 1 .. Len(Pending) /\ k <= k + i - 1 /\ i \in Nat
      <4>1. PICK n \in Nat : n = Len(Pending)
        BY <3>1
      <4>2. Len(Pending') = n - k + 1 /\ k \in 1 .. n
        BY <3>1, <4>1, <2>4
      <4>3. i \in 1 .. n - k + 1
        BY <4>2
      <4>4. k + i - 1 \in 1 .. n /\ k <= k + i - 1 /\ i \in Nat
        BY ONLY <4>2, <4>3, n \in Nat, <3>1
      <4> QED BY <4>1, <4>4
    <3>3. ASSUME NEW i \in 1 .. Len(Pending)
          PROVE  \E l \in 1 .. Len(sends) :
                    Times(Pending[i], l) /\ sends[l].to \in acked .. nxt
      <4>1. PICK l \in 1 .. Len(sends) : Times(Pending[i], l)
        BY DEF KarnInv, SendsInv, PendingOK
      <4> QED BY <4>1, SendFacts DEF KarnInv
    <3>4. PICK z \in 1 .. Len(sends) : Times(Pending[k], z) /\ sends[z].to \in acked .. nxt
      BY <3>3
    <3>5. pos < sends[z].to
      <4>1. pos \in acked .. nxt
        BY <1>2, <1>3
      <4>2. serial_le(wire(sends[z].to), wire(pos)) <=> sends[z].to <= pos
        BY <1>1, <3>4, <4>1, WireOrder
      <4>3. Pending[k].end = wire(sends[z].to)
        BY <3>4 DEF Times
      <4> QED BY <1>3, <2>4, <3>4, <4>2, <4>3
    <3>6. ASSUME NEW i \in 1 .. Len(Pending')
          PROVE  \E l \in 1 .. Len(sends') : Times(Pending[i], l)'
      <4> DEFINE x == k + i - 1
      <4>1. x \in 1 .. Len(Pending) /\ k <= x /\ Pending'[i] = Pending[x]
        BY <3>1, <3>2
      <4> HIDE DEF x
      <4>2. PICK l \in 1 .. Len(sends) : Times(Pending[x], l) /\ sends[l].to \in acked .. nxt
        BY <3>3, <4>1
      <4>3. Pending[k].end = wire(sends[z].to) /\ Pending[x].end = wire(sends[l].to)
        BY <3>4, <4>2 DEF Times
      <4>4. sends[z].to <= sends[l].to
        BY <2>4, <3>4, <4>1, <4>2, <4>3 DEF KarnInv, SendsInv, PendingOK
      <4>5. pos < sends[l].to
        BY <1>3, <3>4, <3>5, <4>2, <4>4
      <4>6. Times(Pending[i], l)'
        BY <1>2, <1>4, <4>1, <4>2, <4>5 DEF Times, unambiguous
      <4> QED BY <1>2, <4>6
    <3>7. ASSUME NEW i \in 1 .. Len(Pending'), NEW j \in 1 .. Len(Pending'), i <= j,
                 NEW p \in acked' .. nxt', NEW q \in acked' .. nxt',
                 Pending'[i].end = wire(p)', Pending'[j].end = wire(q)'
          PROVE  p <= q
      <4> DEFINE x == k + i - 1
                 y == k + j - 1
      <4>1. x \in 1 .. Len(Pending) /\ y \in 1 .. Len(Pending) /\ x <= y
        <5>1. x \in 1 .. Len(Pending) /\ y \in 1 .. Len(Pending) /\ i \in Nat /\ j \in Nat
          BY <3>2
        <5>2. x <= y
          BY ONLY <3>7, <5>1, k \in 1 .. Len(Pending), <3>1
        <5> QED BY <5>1, <5>2
      <4>2. Pending'[i] = Pending[x] /\ Pending'[j] = Pending[y]
        BY <3>1
      <4>3. p \in acked .. nxt /\ q \in acked .. nxt
        BY <1>2, <1>3, <3>7
      <4> HIDE DEF x, y
      <4> QED BY <1>4, <3>7, <4>1, <4>2, <4>3 DEF KarnInv, SendsInv, PendingOK
    <3> QED BY <3>1, <3>6, <3>7 DEF PendingOK
  <2> QED BY <1>1, <2>1, <2>2, <2>3, <2>4, UncoveredIs DEF KarnInv, SendsInv
<1> QED BY <1>5, <1>6

\* The RTT an ACK yields is timed from the oldest pending send, which it covers.
LEMMA AckTimesCovered ==
    ASSUME KarnInv, NEW pos \in Nat, NEW ts, Ack(pos, ts)
    PROVE  DataRttUnambiguous'
<1> DEFINE seg == AckSeg(pos, ts)
           ds  == m["o2r"]
           E   == [end : TcpSeq, ts : Nat]
<1>1. FlowInv /\ Pending \in Seq(E)
  BY DEF KarnInv, SendsInv, PendingOK
<1>2. /\ acked <= pos /\ pos <= nxt
      /\ sends' = sends
      /\ seg.ack = wire(pos) /\ seg.ts = ts
      /\ last'.from = acked /\ last'.to = pos /\ last'.ts = ts
      /\ last'.sample.rtt = IF acked < pos THEN rtt_of(ds, seg) ELSE None
  BY <1>1, AckEffect
<1>3. acked \in Nat /\ nxt \in Nat
  BY <1>1 DEF FlowInv, PeersOK
<1> HIDE DEF seg, ds
<1> SUFFICES ASSUME last'.sample.rtt # None
             PROVE  \E k \in DOMAIN sends : /\ sends[k].from = 0 \/ unambiguous(k)
                                            /\ acked < sends[k].to /\ sends[k].to <= pos
                                            /\ last'.sample.rtt = saturating_sub(ts, sends[k].ts)
  BY <1>2 DEF DataRttUnambiguous, TimedFrom, unambiguous
<1>4. /\ Pending # <<>> /\ serial_le(Head(Pending).end, wire(pos))
      /\ last'.sample.rtt = saturating_sub(ts, Head(Pending).ts)
  BY <1>2 DEF rtt_of, Pending, ds
<1>5. Len(Pending) \in Nat /\ 1 \in 1 .. Len(Pending) /\ Head(Pending) = Pending[1]
  <2> HIDE DEF E
  <2> QED BY <1>1, <1>4
<1>6. PICK k \in 1 .. Len(sends) : Times(Pending[1], k)
  BY <1>5 DEF KarnInv, SendsInv, PendingOK
<1>7. k \in DOMAIN sends /\ sends[k].to \in acked .. nxt
  BY <1>6, SendFacts DEF KarnInv
<1>8. /\ acked < sends[k].to
      /\ sends[k].from = 0 \/ unambiguous(k)
      /\ Pending[1].ts = sends[k].ts /\ Pending[1].end = wire(sends[k].to)
  BY <1>6 DEF Times
<1>9. sends[k].to <= pos
  <2>1. sends[k].to \in acked .. nxt /\ pos \in acked .. nxt
    BY <1>2, <1>3, <1>7
  <2> QED BY <1>1, <1>4, <1>5, <1>8, <2>1, WireOrder
<1> QED BY <1>4, <1>5, <1>7, <1>8, <1>9

\* What is known of the transmissions is an invariant.
LEMMA SendsInvariant == Spec => []SendsInv
<1>1. Init => SendsOK
  <2> SUFFICES ASSUME Init PROVE SendsOK
    OBVIOUS
  <2>1. m["o2r"].last_data_ts = None /\ sends = <<>> /\ ~(nxt > 1)
    BY DEF Init, MetricStateNew, DirStateNew, Direction
  <2> QED BY <2>1 DEF SendsOK, LatestOK
<1>2. ASSUME SendsInv, [Next]_vars PROVE SendsOK'
  <2>1. ASSUME NEW ts \in 0 .. MaxTime, SendSyn(ts) PROVE SendsOK'
    <3>1. 0 \in acked .. nxt /\ 1 - acked <= MaxOutstanding /\ ts \in Nat /\ nxt <= 1
      BY <1>2, <2>1, FlowAssumption DEF SendSyn, SendsInv, FlowInv, PeersOK
    <3>2. Transmit(0, 1, {"SYN"}, ts)
      BY <2>1 DEF SendSyn
    <3> QED BY <1>2, <3>1, <3>2, TransmitSends
  <2>2. ASSUME NEW len \in 1 .. MaxLen, NEW ts \in 0 .. MaxTime, SendNew(len, ts)
        PROVE  SendsOK'
    <3>1. PICK from \in acked .. nxt, to \in Nat :
              /\ from = nxt /\ to = nxt + len /\ from < to /\ 0 < from
              /\ to - acked <= MaxOutstanding /\ ts \in Nat
      BY <1>2, <2>2, FlowAssumption DEF SendNew, SendsInv, FlowInv, PeersOK
    <3>2. Transmit(from, to, {}, ts)
      BY <2>2, <3>1 DEF SendNew
    <3>3. SendsInv
      BY <1>2
    <3> QED BY ONLY <3>1, <3>2, <3>3, TransmitSends, Zenon
  <2>3. ASSUME NEW from \in 1 .. MaxPos, NEW len \in 1 .. MaxLen, NEW ts \in 0 .. MaxTime,
               Resend(from, len, ts)
        PROVE  SendsOK'
    <3>1. PICK to \in Nat :
              /\ to = from + len /\ from < to /\ 0 < from /\ from \in acked .. nxt
              /\ to - acked <= MaxOutstanding /\ ts \in Nat
      BY <1>2, <2>3, FlowAssumption DEF Resend, SendsInv, FlowInv, PeersOK
    <3>2. Transmit(from, to, {}, ts)
      BY <2>3, <3>1 DEF Resend
    <3>3. SendsInv
      BY <1>2
    <3> QED BY ONLY <3>1, <3>2, <3>3, TransmitSends, Zenon
  <2>4. ASSUME NEW pos \in 1 .. MaxPos, NEW ts \in 0 .. MaxTime, Ack(pos, ts)
        PROVE  SendsOK'
    <3>1. pos \in Nat
      BY FlowAssumption
    <3>2. /\ sends' = sends /\ nxt' = nxt
          /\ m'["o2r"] = m["o2r"] \/ m'["o2r"] = peer_acked(m["o2r"], AckSeg(pos, ts))
      BY <1>2, <2>4, <3>1, AckEffect DEF SendsInv
    <3>3. {"snd_nxt", "acked", "frontier", "last_data_ts",
           "pending_rtt", "tput", "tput_max_ts"} = DOMAIN m["o2r"]
      BY <1>2 DEF SendsInv, FlowInv, TracksPeers
    <3>4. m'["o2r"].last_data_ts = m["o2r"].last_data_ts
      BY <3>2, <3>3 DEF peer_acked
    <3> QED BY <1>2, <3>2, <3>4 DEF SendsInv, SendsOK, LatestOK
  <2>5. CASE UNCHANGED vars
    BY <1>2, <2>5 DEF vars, SendsInv, SendsOK, LatestOK
  <2> QED BY <1>2, <2>1, <2>2, <2>3, <2>4, <2>5 DEF Next
<1> QED BY <1>1, <1>2, FlowInvariant, PTL DEF Spec, SendsInv

\* The pending sends are those that Karn's rule admits, and with them every RTT.
LEMMA KarnInvariant == Spec => []((recognised => PendingOK) /\ DataRttUnambiguous)
<1>1. Init => PendingOK /\ DataRttUnambiguous
  <2> SUFFICES ASSUME Init PROVE PendingOK /\ DataRttUnambiguous
    OBVIOUS
  <2>1. Pending = <<>>
    BY DEF Init, MetricStateNew, DirStateNew, Direction, Pending
  <2>2. DataRttUnambiguous
    BY DEF Init, NoSample, DataRttUnambiguous
  <2> QED BY <2>1, <2>2 DEF PendingOK
<1>2. ASSUME KarnInv, DataRttUnambiguous, recognised', [Next]_vars
      PROVE  PendingOK' /\ DataRttUnambiguous'
  <2>0. ASSUME NEW from, NEW to, NEW flags, NEW ts, Transmit(from, to, flags, ts)
        PROVE  DataRttUnambiguous'
    <3>1. last'.kind = "send"
      BY <2>0 DEF Transmit
    <3> QED BY <3>1 DEF DataRttUnambiguous
  <2>1. ASSUME NEW ts \in 0 .. MaxTime, SendSyn(ts) PROVE PendingOK' /\ DataRttUnambiguous'
    <3>1. 0 \in acked .. nxt /\ 1 - acked <= MaxOutstanding /\ ts \in Nat /\ nxt <= 1
      BY <1>2, <2>1, FlowAssumption DEF SendSyn, KarnInv, SendsInv, FlowInv, PeersOK
    <3>2. Transmit(0, 1, {"SYN"}, ts)
      BY <2>1 DEF SendSyn
    <3> QED BY <1>2, <2>0, <3>1, <3>2, RegisterKeepsKarn DEF KarnInv
  <2>2. ASSUME NEW len \in 1 .. MaxLen, NEW ts \in 0 .. MaxTime, SendNew(len, ts)
        PROVE  PendingOK' /\ DataRttUnambiguous'
    <3>1. PICK from \in acked .. nxt, to \in Nat :
              /\ from = nxt /\ to = nxt + len /\ from < to /\ 0 < from
              /\ to - acked <= MaxOutstanding /\ ts \in Nat
      BY <1>2, <2>2, FlowAssumption DEF SendNew, KarnInv, SendsInv, FlowInv, PeersOK
    <3>2. Transmit(from, to, {}, ts)
      BY <2>2, <3>1 DEF SendNew
    <3>3. KarnInv
      BY <1>2
    <3>4. KarnInv'
      BY ONLY <3>1, <3>2, <3>3, RegisterKeepsKarn, Zenon
    <3> QED BY <2>0, <3>2, <3>4 DEF KarnInv
  <2>3. ASSUME NEW from \in 1 .. MaxPos, NEW len \in 1 .. MaxLen, NEW ts \in 0 .. MaxTime,
               Resend(from, len, ts)
        PROVE  PendingOK' /\ DataRttUnambiguous'
    <3>1. PICK to \in Nat :
              /\ to = from + len /\ from < to /\ 0 < from /\ from \in acked .. nxt /\ from < nxt
              /\ to - acked <= MaxOutstanding /\ ts \in Nat
      BY <1>2, <2>3, FlowAssumption DEF Resend, KarnInv, SendsInv, FlowInv, PeersOK
    <3>2. Transmit(from, to, {}, ts)
      BY <2>3, <3>1 DEF Resend
    <3>3. KarnInv /\ recognised'
      BY <1>2
    <3>4. KarnInv'
      BY ONLY <3>1, <3>2, <3>3, ResendKeepsKarn, Zenon
    <3> QED BY <2>0, <3>2, <3>4 DEF KarnInv
  <2>4. ASSUME NEW pos \in 1 .. MaxPos, NEW ts \in 0 .. MaxTime, Ack(pos, ts)
        PROVE  PendingOK' /\ DataRttUnambiguous'
    <3>1. pos \in Nat
      BY FlowAssumption
    <3> QED BY <1>2, <2>4, <3>1, AckKeepsKarn, AckTimesCovered DEF KarnInv
  <2>5. CASE UNCHANGED vars
    <3>1. /\ m' = m /\ nxt' = nxt /\ acked' = acked /\ wnxt' = wnxt /\ sends' = sends
          /\ last' = last
      BY <2>5 DEF vars
    <3>3. Pending' = Pending /\ \A p : wire(p)' = wire(p)
      BY <3>1 DEF Pending, wire
    <3>4. \A k : unambiguous(k)' <=> unambiguous(k)
      BY <3>1 DEF unambiguous
    <3>5. ASSUME NEW i \in 1 .. Len(Pending), NEW k \in 1 .. Len(sends), Times(Pending[i], k)
          PROVE  Times(Pending[i], k)'
      BY <3>1, <3>3, <3>4, <3>5 DEF Times
    <3>6. PendingOK'
      <4>1. ASSUME NEW i \in 1 .. Len(Pending')
            PROVE  \E k \in 1 .. Len(sends') : Times(Pending[i], k)'
        BY <1>2, <3>1, <3>3, <3>5 DEF KarnInv, SendsInv, PendingOK
      <4>2. ASSUME NEW i \in 1 .. Len(Pending'), NEW j \in 1 .. Len(Pending'), i <= j,
                   NEW p \in acked' .. nxt', NEW q \in acked' .. nxt',
                   Pending'[i].end = wire(p)', Pending'[j].end = wire(q)'
            PROVE  p <= q
        BY <1>2, <3>1, <3>3, <4>2 DEF KarnInv, SendsInv, PendingOK
      <4>3. Pending' \in Seq([end : TcpSeq, ts : Nat])
        BY <1>2, <3>3 DEF KarnInv, SendsInv, PendingOK
      <4> QED BY <4>1, <4>2, <4>3 DEF PendingOK
    <3>7. DataRttUnambiguous'
      BY <1>2, <3>1 DEF DataRttUnambiguous, recognised, TimedFrom, unambiguous
    <3> QED BY <3>6, <3>7
  <2> QED BY <1>2, <2>1, <2>2, <2>3, <2>4, <2>5 DEF Next
<1>3. ASSUME SendsInv, [Next]_vars, recognised' PROVE recognised
  <2>1. ASSUME NEW from, NEW to, NEW flags, NEW ts, Transmit(from, to, flags, ts) PROVE recognised
    <3>1. PICK r : sends' = Append(sends, r)
      BY <2>1 DEF Transmit
    <3>2. PICK T : sends \in Seq(T)
      BY <1>3 DEF SendsInv, SendsOK
    <3>3. IsSeq(sends)
      BY <3>2 DEF IsSeq
    <3>4. /\ Len(sends) \in Nat /\ IsSeq(Append(sends, r))
          /\ Len(Append(sends, r)) = Len(sends) + 1
          /\ \A k \in 1 .. Len(sends) : Append(sends, r)[k] = sends[k]
      BY <3>3, SeqPush
    <3>5. DOMAIN sends = 1 .. Len(sends)
      BY <3>2
    <3>6. DOMAIN Append(sends, r) = 1 .. Len(sends) + 1
      <4>1. PICK T2 : Append(sends, r) \in Seq(T2)
        BY <3>4 DEF IsSeq
      <4> QED BY <3>4, <4>1
    <3>7. \A k \in DOMAIN sends : k \in DOMAIN sends' /\ sends'[k] = sends[k]
      BY <3>1, <3>4, <3>5, <3>6
    <3> QED BY <1>3, <3>7 DEF recognised
  <2>2. sends' = sends => recognised
    BY <1>3 DEF recognised
  <2>3. (\E pos \in 1 .. MaxPos, ts \in 0 .. MaxTime : Ack(pos, ts)) \/ UNCHANGED vars
           => sends' = sends
    BY DEF Ack, vars
  <2> QED BY <1>3, <2>1, <2>2, <2>3 DEF Next, SendSyn, SendNew, Resend
<1>5. ASSUME SendsInv, recognised => PendingOK, DataRttUnambiguous, [Next]_vars
      PROVE  (recognised => PendingOK)' /\ DataRttUnambiguous'
  <2>1. CASE recognised'
    BY <1>2, <1>3, <1>5, <2>1 DEF KarnInv
  <2>2. CASE ~recognised'
    BY <2>2 DEF DataRttUnambiguous
  <2> QED BY <2>1, <2>2
<1> QED BY <1>1, <1>5, SendsInvariant, PTL DEF Spec

(***************************************************************************)
(* Karn's rule for data, for every sequence space, every flow and every    *)
(* reorder window: until data is re-sent so soon that it is taken for      *)
(* reordering, an RTT sample is only ever timed from a transmission that   *)
(* the ACK newly covers and that overlaps no other, the SYN apart.         *)
(***************************************************************************)
THEOREM DataRttIsUnambiguous == Spec => []DataRttUnambiguous
BY KarnInvariant, PTL

-----------------------------------------------------------------------------
(***************************************************************************)
(* The throughput window.  It holds the latest data transmissions, in      *)
(* order; what it does not hold is a SYN, which carries nothing, or too    *)
(* old for every window that ends at the greatest timestamp or later.      *)
(***************************************************************************)
Tput == m["o2r"].tput

MaxTs == m["o2r"].tput_max_ts

\* Entry e of the window is the data transmission s.
Carries(e, s) == /\ e.ts = s.ts /\ e.len = s.to - s.from /\ s.from > 0
                 /\ e.retransmit <=> ~(s.new \/ s.soon)

Silent(s, max_ts) == s.from = 0 \/ (max_ts # None /\ s.ts + ThroughputWindow <= max_ts)

\* The window ws holds the transmissions of ss but the first off.
HoldsFrom(ws, ss, max_ts, off) ==
    /\ Len(ws) + off = Len(ss)
    /\ \A i \in 1 .. Len(ws) : Carries(ws[i], ss[off + i])
    /\ \A k \in 1 .. off : Silent(ss[k], max_ts)

WindowOK ==
    /\ now \in Nat /\ IsSeq(Tput)
    /\ MaxTs = None \/ (MaxTs \in Nat /\ MaxTs <= now)
    /\ \A k \in 1 .. Len(sends) : sends[k].from = 0 => sends[k].to = 1
    /\ \E off \in Nat : HoldsFrom(Tput, sends, MaxTs, off)

\* Pruning drops from the front what has aged out.
LEMMA PrunedIs ==
    ASSUME NEW s, IsSeq(s), NEW max_ts
    PROVE  \E c \in 0 .. Len(s) :
              /\ IsSeq(pruned_window(s, max_ts))
              /\ Len(pruned_window(s, max_ts)) = Len(s) - c
              /\ \A i \in 1 .. Len(s) - c : pruned_window(s, max_ts)[i] = s[c + i]
              /\ \A i \in 1 .. c : ages_out(s[i], max_ts)
<1> DEFINE I == {i \in 1 .. Len(s) : ~ages_out(s[i], max_ts)}
           k == IF I # {} THEN Min(I) ELSE 0
<1>0. PICK n \in Nat : n = Len(s)
  BY SeqPush
<1>1. pruned_window(s, max_ts) = IF k = 0 THEN <<>> ELSE SubSeq(s, k, Len(s))
  BY Zenon DEF pruned_window, PopFrontWhile, SelectInSeq
<1>2. CASE I = {}
  <2>1. pruned_window(s, max_ts) = <<>>
    BY <1>1, <1>2
  <2>2. IsSeq(<<>>) /\ Len(<<>>) = 0
    BY EmptySeq DEF IsSeq
  <2>3. \A i \in 1 .. n : ages_out(s[i], max_ts)
    BY <1>0, <1>2
  <2>4. n \in 0 .. n /\ n - n = 0 /\ \A i : i \notin 1 .. 0
    OBVIOUS
  <2> QED BY <1>0, <2>1, <2>2, <2>3, <2>4
<1>3. CASE I # {}
  <2>1. I \subseteq Nat
    BY <1>0
  <2>2. k \in I /\ \A i \in I : k <= i
    BY <1>3, <2>1, MinIsLeast
  <2>3. PICK c \in 0 .. n : k = c + 1 /\ c + 1 <= n
    <3>1. k \in 1 .. n
      BY <1>0, <2>2
    <3>2. k - 1 \in 0 .. n /\ k = (k - 1) + 1 /\ (k - 1) + 1 <= n
      BY <3>1
    <3> HIDE DEF k
    <3> QED BY <3>2
  <2>4. pruned_window(s, max_ts) = SubSeq(s, c + 1, Len(s))
    <3>1. k # 0 /\ k = c + 1
      BY <2>3
    <3> HIDE DEF k
    <3> QED BY <1>1, <3>1
  <2>5. \A i \in 1 .. c : ages_out(s[i], max_ts)
    <3> SUFFICES ASSUME NEW i \in 1 .. c, ~ages_out(s[i], max_ts) PROVE FALSE
      OBVIOUS
    <3>1. i \in 1 .. n /\ ~(c + 1 <= i)
      BY <2>3
    <3>2. i \in I
      BY <1>0, <3>1
    <3> QED BY <2>2, <2>3, <3>1, <3>2
  <2>6. c \in 0 .. Len(s)
    BY <1>0
  <2>7. /\ IsSeq(SubSeq(s, c + 1, Len(s))) /\ Len(SubSeq(s, c + 1, Len(s))) = Len(s) - c
        /\ \A i \in 1 .. Len(s) - c : SubSeq(s, c + 1, Len(s))[i] = s[c + i]
    BY <2>6, SeqDrop
  <2> QED BY <2>4, <2>5, <2>6, <2>7
<1> QED BY <1>2, <1>3

\* What observe leaves in the window of the sending direction.
LEMMA SenderWindow ==
    ASSUME NEW ds, NEW seg, NEW max_ts, NEW pushed, ThroughputWindow # 0,
           {"snd_nxt", "acked", "frontier", "last_data_ts",
            "pending_rtt", "tput", "tput_max_ts"} = DOMAIN ds,
           max_ts = IF ~(seg.payload_len > 0) THEN ds.tput_max_ts
                    ELSE IF ds.tput_max_ts = None THEN seg.ts
                    ELSE later(ds.tput_max_ts, seg.ts),
           pushed = IF seg.payload_len > 0
                    THEN Append(ds.tput, [ts |-> seg.ts, len |-> seg.payload_len,
                                          retransmit |-> is_retransmit(ds, seg)])
                    ELSE ds.tput
    PROVE  /\ sender_observes(ds, seg).tput_max_ts = max_ts
           /\ sender_observes(ds, seg).tput = IF max_ts = None THEN pushed
                                              ELSE pruned_window(pushed, max_ts)
<1> DEFINE sent == [ds EXCEPT
            !.acked        = IF @ = None THEN seg.seq ELSE @,
            !.snd_nxt      = serial_max(@, seq_end(seg)),
            !.frontier     = IF seg.payload_len > 0 THEN serial_max(@, seq_end(seg)) ELSE @,
            !.last_data_ts = IF seg.payload_len > 0 THEN seg.ts ELSE @,
            !.pending_rtt  = pending_after(ds, seg)]
<1>1. /\ DOMAIN sent = DOMAIN ds
      /\ sent.tput = ds.tput /\ sent.tput_max_ts = ds.tput_max_ts
  OBVIOUS
<1>2. sender_observes(ds, seg) = window_push_and_evict(sent, seg, is_retransmit(ds, seg))
  BY DEF sender_observes
<1> HIDE DEF sent
<1>3. PICK r : r = is_retransmit(ds, seg)
  OBVIOUS
<1>4. window_push_and_evict(sent, seg, r) =
        [sent EXCEPT !.tput_max_ts = max_ts,
                     !.tput = IF max_ts = None THEN pushed ELSE pruned_window(pushed, max_ts)]
  BY <1>1, <1>3 DEF window_push_and_evict
<1> QED BY <1>1, <1>2, <1>3, <1>4

LEMMA SilentStays ==
    ASSUME NEW s, s.ts \in Nat, NEW a, NEW b \in Nat, a = None \/ (a \in Nat /\ a <= b),
           Silent(s, a)
    PROVE  Silent(s, b)
BY MetricsAssumption DEF Silent, None

LEMMA PruneHolds ==
    ASSUME NEW ws, IsSeq(ws), NEW ss, NEW max_ts \in Nat, NEW off \in Nat,
           HoldsFrom(ws, ss, max_ts, off)
    PROVE  /\ IsSeq(pruned_window(ws, max_ts))
           /\ \E o \in Nat : HoldsFrom(pruned_window(ws, max_ts), ss, max_ts, o)
<1>1. PICK n \in Nat : n = Len(ws)
  BY SeqPush
<1>2. PICK r, c : /\ r = pruned_window(ws, max_ts) /\ c \in 0 .. n /\ IsSeq(r) /\ Len(r) = n - c
                  /\ \A i \in 1 .. n - c : r[i] = ws[c + i]
                  /\ \A i \in 1 .. c : ages_out(ws[i], max_ts)
  BY <1>1, PrunedIs
<1>3. PICK o \in Nat : o = off + c /\ c \in Nat
  BY <1>2
<1>4. Len(r) + o = Len(ss)
  <2>1. n + off = Len(ss)
    BY <1>1 DEF HoldsFrom
  <2>2. (n - c) + o = n + off
    BY <1>2, <1>3
  <2> QED BY <1>2, <2>1, <2>2
<1>5. ASSUME NEW i \in 1 .. n - c PROVE Carries(r[i], ss[o + i])
  <2>1. c + i \in 1 .. n /\ off + (c + i) = o + i
    BY <1>2, <1>3
  <2>2. Carries(ws[c + i], ss[off + (c + i)])
    BY <1>1, <2>1 DEF HoldsFrom
  <2> QED BY <1>2, <2>1, <2>2
<1>6. ASSUME NEW k \in 1 .. o PROVE Silent(ss[k], max_ts)
  <2>1. CASE k <= off
    <3>1. k \in 1 .. off
      BY <2>1
    <3> QED BY <3>1 DEF HoldsFrom
  <2>2. CASE ~(k <= off)
    <3>1. PICK j \in 1 .. c : k = off + j
      <4>1. k - off \in 1 .. c /\ k = off + (k - off)
        BY <1>3, <2>2
      <4> QED BY <4>1
    <3>2. j \in 1 .. n
      BY <1>2, <1>3
    <3>3. Carries(ws[j], ss[off + j]) /\ ages_out(ws[j], max_ts)
      BY <1>1, <1>2, <3>2 DEF HoldsFrom
    <3>4. max_ts # None
      BY DEF None
    <3> QED BY <3>1, <3>3, <3>4 DEF Silent, Carries, ages_out
  <2> QED BY <2>1, <2>2
<1>7. HoldsFrom(r, ss, max_ts, o)
  BY <1>2, <1>4, <1>5, <1>6 DEF HoldsFrom
<1> QED BY <1>2, <1>7

\* The window after data was sent, before it is pruned.
LEMMA PushHolds ==
    ASSUME NEW ws, IsSeq(ws), NEW ss, NEW n \in Nat, Len(ss) = n, NEW mx, NEW max_ts \in Nat,
           mx = None \/ (mx \in Nat /\ mx <= max_ts), NEW off \in Nat, HoldsFrom(ws, ss, mx, off),
           \A k \in 1 .. n : ss[k].ts \in Nat,
           NEW tt, Len(tt) = n + 1, \A k \in 1 .. n : tt[k] = ss[k],
           NEW e, Carries(e, tt[n + 1])
    PROVE  IsSeq(Append(ws, e)) /\ HoldsFrom(Append(ws, e), tt, max_ts, off)
<1>0. PICK w \in Nat : w = Len(ws)
  BY SeqPush
<1>1. PICK r : /\ w = Len(ws) /\ r = Append(ws, e) /\ IsSeq(r) /\ Len(r) = w + 1
               /\ r[w + 1] = e /\ \A i \in 1 .. w : r[i] = ws[i]
  <2>1. /\ IsSeq(Append(ws, e)) /\ Len(Append(ws, e)) = Len(ws) + 1
        /\ \A i \in 1 .. Len(ws) : Append(ws, e)[i] = ws[i]
        /\ Append(ws, e)[Len(ws) + 1] = e
    BY SeqPush
  <2> QED BY <1>0, <2>1
<1>2. w + off = n
  BY <1>1 DEF HoldsFrom
<1>3. (w + 1) + off = n + 1
  BY <1>2
<1>4. ASSUME NEW i \in 1 .. w + 1 PROVE Carries(r[i], tt[off + i])
  <2>1. CASE i = w + 1
    <3>1. off + i = n + 1
      BY <1>2, <2>1
    <3> QED BY <1>1, <2>1, <3>1
  <2>2. CASE i # w + 1
    <3>1. i \in 1 .. w /\ off + i \in 1 .. n
      BY <1>2, <2>2
    <3>2. Carries(ws[i], ss[off + i])
      BY <1>1, <3>1 DEF HoldsFrom
    <3> QED BY <1>1, <3>1, <3>2
  <2> QED BY <2>1, <2>2
<1>5. ASSUME NEW k \in 1 .. off PROVE Silent(tt[k], max_ts)
  <2>1. k \in 1 .. n
    BY <1>2
  <2>2. Silent(ss[k], mx)
    BY DEF HoldsFrom
  <2>3. PICK s : s = ss[k]
    OBVIOUS
  <2>4. s.ts \in Nat /\ Silent(s, mx)
    BY <2>1, <2>2, <2>3
  <2>5. Silent(s, max_ts)
    BY <2>4, SilentStays
  <2> QED BY <2>1, <2>3, <2>5
<1> QED BY <1>1, <1>3, <1>4, <1>5 DEF HoldsFrom

\* While only SYNs were sent the window is empty.
LEMMA SynHolds ==
    ASSUME NEW ws, IsSeq(ws), NEW ss, NEW n \in Nat, Len(ss) = n, NEW mx, NEW off \in Nat,
           HoldsFrom(ws, ss, mx, off),
           NEW tt, Len(tt) = n + 1, \A k \in 1 .. n : tt[k] = ss[k],
           \A k \in 1 .. n + 1 : tt[k].from = 0
    PROVE  HoldsFrom(ws, tt, mx, n + 1)
<1>1. PICK w \in Nat : w = Len(ws)
  BY SeqPush
<1>2. w + off = n
  BY <1>1 DEF HoldsFrom
<1>3. w = 0
  <2> SUFFICES ASSUME w # 0 PROVE FALSE
    OBVIOUS
  <2>1. w \in 1 .. w /\ off + w \in 1 .. n /\ off + w \in 1 .. n + 1
    BY <1>2
  <2>2. Carries(ws[w], ss[off + w])
    BY <1>1, <2>1 DEF HoldsFrom
  <2>3. ss[off + w].from = 0
    BY <2>1
  <2> QED BY <2>2, <2>3 DEF Carries
<1>4. 0 + (n + 1) = n + 1 /\ \A i : i \notin 1 .. 0
  OBVIOUS
<1> QED BY <1>1, <1>3, <1>4 DEF HoldsFrom, Silent

LEMMA TransmitKeepsWindow ==
    ASSUME SendsInv, WindowOK, ThroughputWindow # 0,
           NEW from \in acked .. nxt, NEW to \in Nat, NEW flags, NEW ts \in Nat,
           from < to, to - acked <= MaxOutstanding,
           \/ flags = {"SYN"} /\ from = 0 /\ to = 1 /\ nxt <= 1
           \/ flags = {} /\ 0 < from,
           Transmit(from, to, flags, ts)
    PROVE  WindowOK'
<1>0. PICK len : len = to - from - phantom(flags)
  OBVIOUS
<1>1. PICK seg : /\ len = to - from - phantom(flags) /\ seg = DataSeg(from, len, flags, ts)
                 /\ seg.payload_len = len /\ seg.ts = ts
  <2>1. /\ DataSeg(from, len, flags, ts).payload_len = len
        /\ DataSeg(from, len, flags, ts).ts = ts
    BY DEF DataSeg
  <2> QED BY <1>0, <2>1
<1>15. PICK ds, ws, mx, ss, tt :
        ds = m["o2r"] /\ ws = ds.tput /\ mx = ds.tput_max_ts /\ ss = sends /\ tt = sends'
  OBVIOUS
<1>2. PICK n, off, x, f, nw \in Nat :
        /\ ds = m["o2r"] /\ ws = ds.tput /\ mx = ds.tput_max_ts /\ ss = sends /\ n = Len(ss)
        /\ tt = sends' /\ HoldsFrom(ws, ss, mx, off) /\ x = nxt /\ f = from /\ nw = now
  <2>1. Len(sends) \in Nat /\ nxt \in Nat /\ from \in Nat /\ now \in Nat
    BY DEF SendsInv, SendsOK, FlowInv, PeersOK, WindowOK
  <2>2. PICK off \in Nat : HoldsFrom(m["o2r"].tput, sends, m["o2r"].tput_max_ts, off)
    BY DEF WindowOK, Tput, MaxTs
  <2> QED BY <1>15, <2>1, <2>2
<1>3. IsSeq(ws) /\ (mx = None \/ (mx \in Nat /\ mx <= nw))
  BY <1>2 DEF WindowOK, Tput, MaxTs
<1>4. /\ m'["o2r"] = sender_observes(ds, seg) /\ now' = later(nw, ts)
      /\ sends' = Append(sends, [from |-> from, to |-> to, ts |-> ts,
                                  new |-> from >= nxt, soon |-> soon(ts)])
  BY <1>1, <1>2 DEF Transmit, Observe, metrics_after, Direction
<1>5. /\ Len(tt) = n + 1 /\ \A j \in 1 .. n : tt[j] = ss[j]
      /\ tt[n + 1].from = f /\ tt[n + 1].to = to /\ tt[n + 1].ts = ts
  BY <1>2, TransmitSends
<1>6. tt[n + 1].new \/ tt[n + 1].soon <=> f >= x \/ soon(ts)
  <2>1. sends \in Seq([from : Nat, to : Nat, ts : Nat, new : BOOLEAN, soon : BOOLEAN])
    BY DEF SendsInv, SendsOK
  <2>2. tt[n + 1] = [from |-> from, to |-> to, ts |-> ts, new |-> from >= nxt, soon |-> soon(ts)]
    <3>1. PICK R, r : /\ R = [from : Nat, to : Nat, ts : Nat, new : BOOLEAN, soon : BOOLEAN]
                      /\ r = [from |-> from, to |-> to, ts |-> ts,
                               new |-> from >= nxt, soon |-> soon(ts)]
      OBVIOUS
    <3>2. ss \in Seq(R) /\ tt = Append(ss, r)
      BY <1>2, <1>4, <2>1, <3>1
    <3>3. tt[n + 1] = r
      BY ONLY <1>2, <3>2
    <3> QED BY <3>1, <3>3
  <2>3. tt[n + 1].new = (f >= x) /\ tt[n + 1].soon = soon(ts)
    BY <1>2, <2>2
  <2> QED BY <2>3
<1>7. \A k \in 1 .. n : ss[k].ts \in Nat /\ (ss[k].from = 0 => ss[k].to = 1)
  <2>1. sends \in Seq([from : Nat, to : Nat, ts : Nat, new : BOOLEAN, soon : BOOLEAN])
    BY DEF SendsInv, SendsOK
  <2>2. ASSUME NEW k \in 1 .. n PROVE ss[k].ts \in Nat
    <3>1. ss[k] \in [from : Nat, to : Nat, ts : Nat, new : BOOLEAN, soon : BOOLEAN]
      <4>1. PICK R : R = [from : Nat, to : Nat, ts : Nat, new : BOOLEAN, soon : BOOLEAN]
        OBVIOUS
      <4>2. ss \in Seq(R)
        BY <1>2, <2>1, <4>1
      <4>3. ss[k] \in R
        BY ONLY <1>2, <4>2, k \in 1 .. n
      <4> QED BY <4>1, <4>3
    <3> QED BY <3>1
  <2> QED BY <1>2, <2>2 DEF WindowOK
<1>8. PICK now2 \in Nat : now2 = now' /\ nw <= now2 /\ ts <= now2
  <2>1. later(nw, ts) \in Nat /\ nw <= later(nw, ts) /\ ts <= later(nw, ts)
    BY DEF later
  <2> QED BY <1>4, <2>1
<1>9. \A k \in 1 .. n + 1 : tt[k].from = 0 => tt[k].to = 1
  <2>1. f = 0 => to = 1
    BY <1>2
  <2>2. \A k \in 1 .. n + 1 : k = n + 1 \/ k \in 1 .. n
    OBVIOUS
  <2> QED BY <1>5, <1>7, <2>1, <2>2
<1>10. {"snd_nxt", "acked", "frontier", "last_data_ts",
        "pending_rtt", "tput", "tput_max_ts"} = DOMAIN ds
  BY <1>2 DEF SendsInv, FlowInv, TracksPeers
<1>11. ASSUME NEW ws2, NEW mx2, IsSeq(ws2),
              m'["o2r"].tput = ws2, m'["o2r"].tput_max_ts = mx2,
              mx2 = None \/ (mx2 \in Nat /\ mx2 <= now2),
              \E o \in Nat : HoldsFrom(ws2, tt, mx2, o)
       PROVE  WindowOK'
  <2>1. Tput' = ws2 /\ MaxTs' = mx2 /\ sends' = tt /\ now' = now2 /\ Len(sends') = n + 1
    BY <1>2, <1>5, <1>8, <1>11 DEF Tput, MaxTs
  <2>2. \A k \in 1 .. Len(sends') : sends'[k].from = 0 => sends'[k].to = 1
    BY <1>9, <2>1
  <2>3. \E o \in Nat : HoldsFrom(Tput', sends', MaxTs', o)
    BY <1>11, <2>1
  <2>4. now' \in Nat /\ IsSeq(Tput') /\ (MaxTs' = None \/ (MaxTs' \in Nat /\ MaxTs' <= now'))
    BY <1>11, <2>1
  <2> QED BY <2>2, <2>3, <2>4 DEF WindowOK, HoldsFrom, Silent, Carries
<1>12. ASSUME flags = {} /\ 0 < from PROVE WindowOK'
  <2>1. len = to - f /\ len > 0
    <3>1. phantom(flags) = 0
      BY <1>12 DEF phantom
    <3>2. f < to
      BY <1>2
    <3> QED BY <1>1, <1>2, <3>1, <3>2
  <2>2. PICK e : e = [ts |-> ts, len |-> len, retransmit |-> is_retransmit(ds, seg)]
    OBVIOUS
  <2>3. is_retransmit(ds, seg) <=> 0 < f /\ f < x /\ ~soon(ts)
    BY <1>1, <1>2, RetransmitExactly
  <2>4. Carries(e, tt[n + 1])
    <3>1. (0 < f /\ f < x /\ ~soon(ts)) <=> ~(f >= x \/ soon(ts))
      BY <1>2, <1>12
    <3>2. e.retransmit <=> ~(tt[n + 1].new \/ tt[n + 1].soon)
      BY <1>6, <2>2, <2>3, <3>1
    <3>3. f > 0
      BY <1>2, <1>12
    <3> QED BY <1>5, <2>1, <2>2, <3>2, <3>3 DEF Carries
  <2>5. PICK mx2 \in Nat : /\ mx2 = IF mx = None THEN ts ELSE later(mx, ts)
                           /\ mx2 <= now2 /\ (mx = None \/ (mx \in Nat /\ mx <= mx2)) /\ mx2 # None
    BY <1>3, <1>8 DEF later, None
  <2>6. PICK ws1 : ws1 = Append(ws, e) /\ IsSeq(ws1) /\ HoldsFrom(ws1, tt, mx2, off)
    <3>1. /\ \A k \in 1 .. n : ss[k].ts \in Nat
          /\ Len(tt) = n + 1 /\ \A k \in 1 .. n : tt[k] = ss[k]
      BY <1>5, <1>7
    <3>2. IsSeq(Append(ws, e)) /\ HoldsFrom(Append(ws, e), tt, mx2, off)
      <4>1. n \in Nat /\ off \in Nat /\ mx2 \in Nat /\ Len(ss) = n /\ HoldsFrom(ws, ss, mx, off)
        BY <1>2
      <4>2. (mx = None \/ (mx \in Nat /\ mx <= mx2)) /\ IsSeq(ws)
        BY <1>3, <2>5
      <4> QED BY ONLY <4>1, <4>2, <3>1, <2>4, PushHolds
    <3> QED BY <3>2
  <2>7. /\ sender_observes(ds, seg).tput_max_ts = mx2
        /\ sender_observes(ds, seg).tput = pruned_window(ws1, mx2)
    <3>1. mx2 = IF ~(seg.payload_len > 0) THEN ds.tput_max_ts
                ELSE IF ds.tput_max_ts = None THEN seg.ts
                ELSE later(ds.tput_max_ts, seg.ts)
      BY <1>1, <1>2, <2>1, <2>5
    <3>2. ws1 = IF seg.payload_len > 0
                THEN Append(ds.tput, [ts |-> seg.ts, len |-> seg.payload_len,
                                      retransmit |-> is_retransmit(ds, seg)])
                ELSE ds.tput
      BY <1>1, <1>2, <2>1, <2>2, <2>6
    <3> QED BY <1>10, <2>5, <3>1, <3>2, SenderWindow
  <2>8. /\ IsSeq(pruned_window(ws1, mx2))
        /\ \E o \in Nat : HoldsFrom(pruned_window(ws1, mx2), tt, mx2, o)
    BY <2>6, PruneHolds
  <2> QED BY <1>4, <1>11, <2>5, <2>7, <2>8
<1>13. ASSUME flags = {"SYN"} /\ from = 0 /\ to = 1 /\ nxt <= 1 PROVE WindowOK'
  <2>1. len = 0
    <3>1. phantom(flags) = 1
      BY <1>13 DEF phantom
    <3> QED BY <1>1, <1>13, <3>1
  <2>2. /\ sender_observes(ds, seg).tput_max_ts = mx
        /\ sender_observes(ds, seg).tput = IF mx = None THEN ws ELSE pruned_window(ws, mx)
    <3>1. mx = IF ~(seg.payload_len > 0) THEN ds.tput_max_ts
                ELSE IF ds.tput_max_ts = None THEN seg.ts
                ELSE later(ds.tput_max_ts, seg.ts)
      BY <1>1, <1>2, <2>1
    <3>2. ws = IF seg.payload_len > 0
                THEN Append(ds.tput, [ts |-> seg.ts, len |-> seg.payload_len,
                                      retransmit |-> is_retransmit(ds, seg)])
                ELSE ds.tput
      BY <1>1, <1>2, <2>1
    <3> QED BY <1>10, <3>1, <3>2, SenderWindow
  <2>3. ASSUME NEW k \in 1 .. n + 1 PROVE tt[k].from = 0
    <3>1. CASE k = n + 1
      BY <1>2, <1>5, <1>13, <3>1
    <3>2. CASE k # n + 1
      <4>1. k \in 1 .. n
        BY <3>2
      <4>2. PICK g \in Nat, h \in Nat : g = ss[k].from /\ h = ss[k].to /\ g < h /\ h <= x
        BY <1>2, <4>1, SendFacts
      <4>3. g = 0
        BY <1>2, <1>13, <4>2
      <4> QED BY <1>5, <4>1, <4>2, <4>3
    <3> QED BY <3>1, <3>2
  <2>4. HoldsFrom(ws, tt, mx, n + 1)
    BY <1>2, <1>3, <1>5, <2>3, SynHolds
  <2>5. mx = None \/ (mx \in Nat /\ mx <= now2)
    BY <1>3, <1>8
  <2>6. CASE mx = None
    <3>1. n + 1 \in Nat
      OBVIOUS
    <3> QED BY <1>3, <1>4, <1>11, <2>2, <2>4, <2>5, <2>6, <3>1
  <2>7. CASE mx \in Nat
    <3>1. n + 1 \in Nat /\ mx # None
      BY <2>7 DEF None
    <3>2. /\ IsSeq(pruned_window(ws, mx))
          /\ \E o \in Nat : HoldsFrom(pruned_window(ws, mx), tt, mx, o)
      BY <1>3, <2>4, <2>7, <3>1, PruneHolds
    <3> QED BY <1>4, <1>11, <2>2, <2>5, <3>1, <3>2
  <2> QED BY <2>5, <2>6, <2>7
<1> QED BY <1>12, <1>13

LEMMA AckKeepsWindow ==
    ASSUME SendsInv, WindowOK, NEW pos \in Nat, NEW ts \in Nat, Ack(pos, ts)
    PROVE  WindowOK'
<1>1. /\ sends' = sends
      /\ m'["o2r"] = m["o2r"] \/ m'["o2r"] = peer_acked(m["o2r"], AckSeg(pos, ts))
  BY AckEffect DEF SendsInv
<1>2. {"snd_nxt", "acked", "frontier", "last_data_ts",
       "pending_rtt", "tput", "tput_max_ts"} = DOMAIN m["o2r"]
  BY DEF SendsInv, FlowInv, TracksPeers
<1>3. Tput' = Tput /\ MaxTs' = MaxTs
  BY <1>1, <1>2 DEF Tput, MaxTs, peer_acked
<1>4. PICK nw, now2 \in Nat : nw = now /\ now2 = now' /\ nw <= now2
  <2>1. now' = later(now, ts) /\ now \in Nat
    BY DEF Ack, Observe, AckSeg, WindowOK
  <2>2. later(now, ts) \in Nat /\ now <= later(now, ts)
    BY <2>1 DEF later
  <2> QED BY <2>1, <2>2
<1>5. PICK mx : mx = MaxTs
  OBVIOUS
<1>6. mx = None \/ (mx \in Nat /\ mx <= now2)
  <2>1. mx = None \/ (mx \in Nat /\ mx <= nw)
    BY <1>4, <1>5 DEF WindowOK
  <2> QED BY <1>4, <2>1
<1>7. now' \in Nat /\ IsSeq(Tput') /\ (MaxTs' = None \/ (MaxTs' \in Nat /\ MaxTs' <= now'))
  BY <1>3, <1>4, <1>5, <1>6 DEF WindowOK
<1>8. /\ \A k \in 1 .. Len(sends') : sends'[k].from = 0 => sends'[k].to = 1
      /\ \E off \in Nat : HoldsFrom(Tput', sends', MaxTs', off)
  BY <1>1, <1>3 DEF WindowOK
<1> QED BY <1>7, <1>8 DEF WindowOK, HoldsFrom, Silent, Carries

\* The window holds the latest data transmissions, whatever happens.
LEMMA WindowInvariant ==
    ASSUME ThroughputWindow # 0
    PROVE  Spec => [](SendsInv /\ WindowOK)
<1>1. Init => WindowOK
  <2> SUFFICES ASSUME Init PROVE WindowOK
    OBVIOUS
  <2>1. Tput = <<>> /\ MaxTs = None /\ sends = <<>> /\ now = 0
    BY DEF Init, MetricStateNew, DirStateNew, Direction, Tput, MaxTs
  <2>2. IsSeq(<<>>) /\ Len(<<>>) = 0 /\ 0 + 0 = 0 /\ \A i : i \notin 1 .. 0
    BY EmptySeq DEF IsSeq
  <2>3. HoldsFrom(<<>>, <<>>, None, 0)
    BY <2>2 DEF HoldsFrom
  <2> QED BY <2>1, <2>2, <2>3 DEF WindowOK
<1>2. ASSUME SendsInv, WindowOK, [Next]_vars PROVE WindowOK'
  <2>1. ASSUME NEW ts \in 0 .. MaxTime, SendSyn(ts) PROVE WindowOK'
    <3>1. 0 \in acked .. nxt /\ 1 - acked <= MaxOutstanding /\ ts \in Nat /\ nxt <= 1
      BY <1>2, <2>1, FlowAssumption DEF SendSyn, SendsInv, FlowInv, PeersOK
    <3>2. Transmit(0, 1, {"SYN"}, ts)
      BY <2>1 DEF SendSyn
    <3> QED BY <1>2, <3>1, <3>2, TransmitKeepsWindow
  <2>2. ASSUME NEW len \in 1 .. MaxLen, NEW ts \in 0 .. MaxTime, SendNew(len, ts)
        PROVE  WindowOK'
    <3>1. PICK from \in acked .. nxt, to \in Nat :
              /\ from = nxt /\ to = nxt + len /\ from < to /\ 0 < from
              /\ to - acked <= MaxOutstanding /\ ts \in Nat
      BY <1>2, <2>2, FlowAssumption DEF SendNew, SendsInv, FlowInv, PeersOK
    <3>2. Transmit(from, to, {}, ts)
      BY <2>2, <3>1 DEF SendNew
    <3>3. SendsInv /\ WindowOK /\ ThroughputWindow # 0
      BY <1>2
    <3> QED BY ONLY <3>1, <3>2, <3>3, TransmitKeepsWindow, Zenon
  <2>3. ASSUME NEW from \in 1 .. MaxPos, NEW len \in 1 .. MaxLen, NEW ts \in 0 .. MaxTime,
               Resend(from, len, ts)
        PROVE  WindowOK'
    <3>1. PICK to \in Nat :
              /\ to = from + len /\ from < to /\ 0 < from /\ from \in acked .. nxt
              /\ to - acked <= MaxOutstanding /\ ts \in Nat
      BY <1>2, <2>3, FlowAssumption DEF Resend, SendsInv, FlowInv, PeersOK
    <3>2. Transmit(from, to, {}, ts)
      BY <2>3, <3>1 DEF Resend
    <3>3. SendsInv /\ WindowOK /\ ThroughputWindow # 0
      BY <1>2
    <3> QED BY ONLY <3>1, <3>2, <3>3, TransmitKeepsWindow, Zenon
  <2>4. ASSUME NEW pos \in 1 .. MaxPos, NEW ts \in 0 .. MaxTime, Ack(pos, ts)
        PROVE  WindowOK'
    <3>1. pos \in Nat /\ ts \in Nat
      BY FlowAssumption
    <3> QED BY <1>2, <2>4, <3>1, AckKeepsWindow
  <2>5. CASE UNCHANGED vars
    <3>1. Tput' = Tput /\ MaxTs' = MaxTs /\ sends' = sends /\ now' = now
      BY <2>5 DEF vars, Tput, MaxTs
    <3> QED BY <1>2, <3>1 DEF WindowOK, HoldsFrom, Silent, Carries
  <2> QED BY <1>2, <2>1, <2>2, <2>3, <2>4, <2>5 DEF Next
<1> QED BY <1>1, <1>2, SendsInvariant, PTL DEF Spec

-----------------------------------------------------------------------------
\* What the entries of the window, and the transmissions K, add up to.
Bytes(s) == s.to - s.from - (IF s.from = 0 THEN 1 ELSE 0)

sizes(ss, K) == [k \in K |-> Bytes(ss[k])]

sent_bytes(ss, K) == MapThenSumSet(
    LAMBDA k : ss[k].to - ss[k].from - (IF ss[k].from = 0 THEN 1 ELSE 0), K)

LEMMA BytesTotal ==
    ASSUME NEW ws, NEW D, IsFiniteSet(D), \A i \in D : ws[i].len \in Nat
    PROVE  TotalIs(bytes_of(ws, D), lens(ws, D), D)
<1>1. bytes_of(ws, D) = sum_len(ws, D)
  BY Zenon DEF bytes_of, sum_len
<1> QED BY <1>1, LensTotal

LEMMA SentTotal ==
    ASSUME NEW ss, NEW D, IsFiniteSet(D), \A k \in D : Bytes(ss[k]) \in Nat
    PROVE  TotalIs(sent_bytes(ss, D), sizes(ss, D), D)
<1> DEFINE F == sizes(ss, D)
           c(s) == CHOOSE x \in s : TRUE
           Rec(it) == it = [s \in SUBSET D |->
                               IF s = {} THEN 0
                               ELSE (ss[c(s)].to - ss[c(s)].from
                                       - (IF ss[c(s)].from = 0 THEN 1 ELSE 0))
                                    + it[s \ {c(s)}]]
           it == CHOOSE g : Rec(g)
<1>1. sent_bytes(ss, D) = it[D]
  BY Zenon DEF sent_bytes, MapThenSumSet, MapThenFoldSet
<1>2. F \in [D -> Nat]
  BY DEF sizes
<1>3. \A g : Rec(g) <=> Follows(g, F, D)
  <2> SUFFICES ASSUME NEW g PROVE Rec(g) <=> Follows(g, F, D)
    OBVIOUS
  <2>1. \A s \in SUBSET D : s # {} => c(s) \in D
    OBVIOUS
  <2>2. \A s \in SUBSET D : s # {} => Bytes(ss[c(s)]) = F[c(s)]
    BY <2>1 DEF sizes
  <2>3. [s \in SUBSET D |-> IF s = {} THEN 0 ELSE Bytes(ss[c(s)]) + g[s \ {c(s)}]]
      = [s \in SUBSET D |-> IF s = {} THEN 0 ELSE F[c(s)] + g[s \ {c(s)}]]
    <3> HIDE DEF F, c
    <3> QED BY <2>2
  <2>4. Rec(g) <=> g = [s \in SUBSET D |-> IF s = {} THEN 0 ELSE Bytes(ss[c(s)]) + g[s \ {c(s)}]]
    BY Zenon DEF Bytes
  <2> QED BY <2>3, <2>4 DEF Follows
<1>4. /\ \E g : Follows(g, F, D)
      /\ \A g : Follows(g, F, D) => TotalIs(g[D], F, D)
  <2> HIDE DEF F
  <2> QED BY <1>2, TotalChosen
<1>5. Follows(it, F, D)
  <2> HIDE DEF Rec, F
  <2>1. \E g : Rec(g)
    BY <1>3, <1>4
  <2>2. Rec(it)
    BY <2>1
  <2> QED BY <1>3, <2>2
<1> HIDE DEF it, F
<1>6. TotalIs(it[D], F, D)
  BY <1>4, <1>5
<1> QED BY <1>1, <1>6 DEF F

\* Entry or transmission e counts at time t.
Counts(e, t) == e.ts + ThroughputWindow > t /\ e.ts <= t

Counted(ws, I, t) == {i \in I : Counts(ws[i], t)}

WellSent(ss, n) ==
    \A k \in 1 .. n : /\ ss[k].from \in Nat /\ ss[k].to \in Nat /\ ss[k].from < ss[k].to
                      /\ ss[k].ts \in Nat /\ (ss[k].from = 0 => ss[k].to = 1)

\* The entries I of the window are the transmissions K.
Mirrors(I, w, K, off) == \A i \in 1 .. w : i \in I <=> off + i \in K

\* Over the entries I and the transmissions K that are theirs, window and flow agree.
LEMMA WindowAgrees ==
    ASSUME NEW ws, IsSeq(ws), NEW w \in Nat, w = Len(ws), NEW ss, NEW n \in Nat, n = Len(ss),
           NEW mx \in Nat, NEW off \in Nat, HoldsFrom(ws, ss, mx, off), NEW t \in Nat, mx <= t,
           WellSent(ss, n), NEW I \in SUBSET (1 .. w), NEW K \in SUBSET (1 .. n),
           Mirrors(I, w, K, off)
    PROVE  bytes_of(ws, Counted(ws, I, t)) = sent_bytes(ss, Counted(ss, K, t))
<1> USE DEF WellSent, Mirrors
<1> DEFINE E == {i \in I : Counts(ws[i], t)}
           D == {k \in K : Counts(ss[k], t)}
           G == lens(ws, E)
           F == sizes(ss, D)
           h == [i \in E |-> off + i]
<1>1. IsFiniteSet(E) /\ IsFiniteSet(D)
  <2>1. E \subseteq 1 .. w /\ D \subseteq 1 .. n
    OBVIOUS
  <2> QED BY <2>1, IndicesFinite, FS_Subset
<1>2. ASSUME NEW k \in 1 .. n
      PROVE  Bytes(ss[k]) \in Nat /\ (ss[k].from = 0 => Bytes(ss[k]) = 0)
                /\ (ss[k].from > 0 => Bytes(ss[k]) = ss[k].to - ss[k].from)
  <2>1. PICK a, b \in Nat : a = ss[k].from /\ b = ss[k].to /\ a < b /\ (a = 0 => b = 1)
    OBVIOUS
  <2>2. Bytes(ss[k]) = b - a - (IF a = 0 THEN 1 ELSE 0)
    BY <2>1 DEF Bytes
  <2> QED BY <2>1, <2>2, SMTT(30)
<1>3. w + off = n
  BY DEF HoldsFrom
<1>4. ASSUME NEW i \in 1 .. w
      PROVE  /\ off + i \in 1 .. n /\ Counts(ws[i], t) <=> Counts(ss[off + i], t)
             /\ ws[i].len = Bytes(ss[off + i]) /\ ws[i].len \in Nat
  <2>1. off + i \in 1 .. n
    BY <1>3
  <2>2. Carries(ws[i], ss[off + i])
    BY DEF HoldsFrom
  <2>3. ws[i].len = ss[off + i].to - ss[off + i].from /\ ss[off + i].from > 0
        /\ ws[i].ts = ss[off + i].ts
    BY <2>2 DEF Carries
  <2>4. Bytes(ss[off + i]) = ss[off + i].to - ss[off + i].from /\ Bytes(ss[off + i]) \in Nat
    BY <1>2, <2>1, <2>3
  <2>5. Counts(ws[i], t) <=> Counts(ss[off + i], t)
    BY <2>3 DEF Counts
  <2> QED BY <2>1, <2>3, <2>4, <2>5
<1>5. TotalIs(bytes_of(ws, E), G, E)
  <2>1. \A i \in E : ws[i].len \in Nat
    BY <1>4
  <2> HIDE DEF E
  <2> QED BY <1>1, <2>1, BytesTotal
<1>6. TotalIs(sent_bytes(ss, D), F, D)
  <2>1. \A k \in D : Bytes(ss[k]) \in Nat
    BY <1>2
  <2> HIDE DEF D
  <2> QED BY <1>1, <2>1, SentTotal
<1>7. h \in [E -> D]
  <2>1. ASSUME NEW i \in E PROVE off + i \in D
    <3>1. i \in I /\ i \in 1 .. w /\ Counts(ws[i], t)
      OBVIOUS
    <3>2. off + i \in K /\ Counts(ss[off + i], t)
      BY <1>4, <3>1
    <3> QED BY <3>2
  <2> HIDE DEF E, D
  <2> QED BY <2>1
<1>8. \A i, j \in E : h[i] = h[j] => i = j
  <2>1. \A i, j \in 1 .. w : off + i = off + j => i = j
    OBVIOUS
  <2>2. E \subseteq 1 .. w
    OBVIOUS
  <2> HIDE DEF E
  <2> QED BY <2>1, <2>2
<1>9. \A i \in E : G[i] = F[h[i]]
  <2> SUFFICES ASSUME NEW i \in E PROVE G[i] = F[h[i]]
    OBVIOUS
  <2>1. i \in 1 .. w
    OBVIOUS
  <2>2. h[i] = off + i /\ h[i] \in D
    <3>1. h[i] = off + i
      OBVIOUS
    <3> HIDE DEF h, E, D
    <3> QED BY <1>7, <3>1
  <2> HIDE DEF h, E, D
  <2>3. G[i] = ws[i].len /\ F[h[i]] = Bytes(ss[h[i]])
    BY <2>2 DEF lens, sizes
  <2> QED BY <1>4, <2>1, <2>2, <2>3
<1>10. ASSUME NEW y \in D PROVE F[y] = 0 \/ \E i \in E : y = h[i]
  <2>1. y \in K /\ y \in 1 .. n /\ Counts(ss[y], t)
    OBVIOUS
  <2>2. CASE y <= off
    <3>1. y \in 1 .. off
      BY <2>1, <2>2
    <3>2. Silent(ss[y], mx)
      BY <3>1 DEF HoldsFrom
    <3>3. PICK a \in Nat : a = ss[y].ts
      BY <2>1
    <3>4. ~(a + ThroughputWindow <= mx)
      <4>1. a + ThroughputWindow > t
        BY <2>1, <3>3 DEF Counts
      <4> QED BY <4>1, MetricsAssumption
    <3>5. ss[y].from = 0
      BY <3>2, <3>3, <3>4 DEF Silent
    <3>6. F[y] = Bytes(ss[y])
      <4> HIDE DEF D
      <4> QED BY DEF sizes
    <3> HIDE DEF F
    <3> QED BY <1>2, <2>1, <3>5, <3>6
  <2>3. CASE ~(y <= off)
    <3>1. PICK i \in 1 .. w : y = off + i
      <4>1. y - off \in 1 .. w /\ y = off + (y - off)
        BY <1>3, <2>1, <2>3
      <4> QED BY <4>1
    <3>2. i \in I /\ Counts(ws[i], t)
      BY <1>4, <2>1, <3>1
    <3>3. i \in E
      BY <3>2
    <3>4. h[i] = y
      <4> HIDE DEF E
      <4> QED BY <3>1, <3>3
    <3> HIDE DEF h, E
    <3> QED BY <3>3, <3>4
  <2> QED BY <2>1, <2>2, <2>3
<1>11. sent_bytes(ss, D) = bytes_of(ws, E)
  <2> HIDE DEF E, D, G, F, h
  <2> QED BY <1>1, <1>5, <1>6, <1>7, <1>8, <1>9, <1>10, TotalMoved
<1> QED BY <1>11 DEF Counted

(***************************************************************************)
(* Throughput and goodput are exact, for every flow, every throughput      *)
(* window and any jitter of the timestamps: what prune has evicted from    *)
(* the window counts at no time from the latest timestamp on.  For every   *)
(* reorder window: goodput counts a re-send that comes soon enough to be   *)
(* taken for reordering, and no other.  A throughput window of 0 switches  *)
(* the rates off.                                                          *)
(***************************************************************************)
THEOREM ThroughputIsExact ==
    ASSUME ThroughputWindow # 0
    PROVE  Spec => []ThroughputExact
<1>1. ASSUME SendsInv, WindowOK PROVE ThroughputExact
  <2> SUFFICES ASSUME has_sent_data(m, "o2r"), NEW t \in now .. MaxTime + ThroughputWindow
               PROVE  throughput_at(m, "o2r", t) =
                        [throughput |-> RateOf(DOMAIN sends, t),
                         goodput    |->
                             RateOf({k \in DOMAIN sends : sends[k].new \/ sends[k].soon}, t)]
    BY DEF ThroughputExact
  <2>1. PICK ws, mx, ss : ws = m["o2r"].tput /\ mx = m["o2r"].tput_max_ts /\ ss = sends
    OBVIOUS
  <2>2. PICK w, n, off, nw \in Nat :
          w = Len(ws) /\ n = Len(ss) /\ HoldsFrom(ws, ss, mx, off) /\ nw = now
    <3>1. Len(sends) \in Nat /\ now \in Nat /\ IsSeq(ws)
      BY <1>1, <2>1 DEF SendsInv, SendsOK, WindowOK, Tput
    <3>2. PICK off \in Nat : HoldsFrom(ws, ss, mx, off)
      BY <1>1, <2>1 DEF WindowOK, Tput, MaxTs
    <3>3. Len(ws) \in Nat
      BY <3>1, SeqPush
    <3> QED BY <2>1, <3>1, <3>2, <3>3
  <2>3. IsSeq(ws) /\ mx \in Nat /\ mx <= nw
    BY <1>1, <2>1, <2>2 DEF WindowOK, Tput, MaxTs, has_sent_data
  <2>4. t \in Nat /\ mx <= t
    <3>1. t \in Nat /\ nw <= t
      BY <2>2, FlowAssumption, MetricsAssumption
    <3> QED BY <2>3, <3>1
  <2>5. DOMAIN ws = 1 .. w /\ DOMAIN ss = 1 .. n
    <3>1. PICK T : ws \in Seq(T)
      BY <2>3 DEF IsSeq
    <3>2. PICK R : ss \in Seq(R)
      BY <1>1, <2>1 DEF SendsInv, SendsOK
    <3> QED BY <2>2, <3>1, <3>2
  <2>6. WellSent(ss, n)
    <3> SUFFICES ASSUME NEW k \in 1 .. n
                 PROVE  /\ ss[k].from \in Nat /\ ss[k].to \in Nat /\ ss[k].from < ss[k].to
                        /\ ss[k].ts \in Nat /\ (ss[k].from = 0 => ss[k].to = 1)
      BY DEF WellSent
    <3>1. ss[k].from \in Nat /\ ss[k].to \in Nat /\ ss[k].from < ss[k].to
      BY <1>1, <2>1, <2>2, SendFacts
    <3>2. ss[k] \in [from : Nat, to : Nat, ts : Nat, new : BOOLEAN, soon : BOOLEAN]
      <4>1. PICK R : R = [from : Nat, to : Nat, ts : Nat, new : BOOLEAN, soon : BOOLEAN]
        OBVIOUS
      <4>2. ss \in Seq(R)
        BY <1>1, <2>1, <4>1 DEF SendsInv, SendsOK
      <4>3. ss[k] \in R
        BY ONLY <2>2, <4>2, k \in 1 .. n
      <4> QED BY <4>1, <4>3
    <3>3. ss[k].from = 0 => ss[k].to = 1
      BY <1>1, <2>1, <2>2 DEF WindowOK
    <3> QED BY <3>1, <3>2, <3>3
  <2>7. ASSUME NEW I \in SUBSET (1 .. w), NEW K \in SUBSET (1 .. n),
               Mirrors(I, w, K, off)
        PROVE  bytes_of(ws, Counted(ws, I, t)) = sent_bytes(ss, Counted(ss, K, t))
    <3>1. w \in Nat /\ n \in Nat /\ off \in Nat /\ w = Len(ws) /\ n = Len(ss)
      BY <2>2
    <3>2. I \in SUBSET (1 .. w) /\ K \in SUBSET (1 .. n)
      OBVIOUS
    <3>3. HoldsFrom(ws, ss, mx, off) /\ mx \in Nat /\ IsSeq(ws) /\ t \in Nat /\ mx <= t
      BY <2>2, <2>3, <2>4
    <3> QED BY ONLY <2>6, <2>7, <3>1, <3>2, <3>3, WindowAgrees
  <2>8. w + off = n /\ \A i \in 1 .. w : off + i \in 1 .. n
    BY <2>2 DEF HoldsFrom
  <2>9. ASSUME NEW K
        PROVE  RateOf(K, t) = scale_bps(sent_bytes(ss, Counted(ss, K, t)))
    <3>1. RateOf(K, t) = scale_bps(sent_bytes(sends, Counted(sends, K, t)))
      BY Zenon DEF RateOf, sent_bytes, Counted, Counts
    <3> QED BY <2>1, <3>1
  <2>10. in_window(ws, t) = Counted(ws, 1 .. w, t)
    BY <2>5 DEF in_window, Counted, Counts
  <2>11. scale_bps(bytes_of(ws, in_window(ws, t))) = RateOf(DOMAIN sends, t)
    <3>1. bytes_of(ws, Counted(ws, 1 .. w, t))
            = sent_bytes(ss, Counted(ss, 1 .. n, t))
      <4>1. Mirrors(1 .. w, w, 1 .. n, off)
        BY <2>8 DEF Mirrors
      <4> QED BY <2>7, <4>1
    <3> QED BY <2>1, <2>5, <2>9, <2>10, <3>1
  <2>12. scale_bps(bytes_of(ws, {i \in in_window(ws, t) : ~ws[i].retransmit}))
            = RateOf({k \in DOMAIN sends : sends[k].new \/ sends[k].soon}, t)
    <3>1. PICK I, K : /\ I = {i \in 1 .. w : ~ws[i].retransmit}
                      /\ K = {k \in 1 .. n : ss[k].new \/ ss[k].soon}
      OBVIOUS
    <3>2. Mirrors(I, w, K, off)
      <4> SUFFICES ASSUME NEW i \in 1 .. w PROVE i \in I <=> off + i \in K
        BY DEF Mirrors
      <4>1. Carries(ws[i], ss[off + i])
        BY <2>2 DEF HoldsFrom
      <4>2. ~ws[i].retransmit <=> ss[off + i].new \/ ss[off + i].soon
        BY <4>1 DEF Carries
      <4> QED BY <2>8, <3>1, <4>2
    <3>3. bytes_of(ws, Counted(ws, I, t)) = sent_bytes(ss, Counted(ss, K, t))
      BY <2>7, <3>1, <3>2
    <3>4. {i \in in_window(ws, t) : ~ws[i].retransmit} = Counted(ws, I, t)
      BY <2>10, <3>1 DEF Counted
    <3>5. RateOf(K, t) = scale_bps(sent_bytes(ss, Counted(ss, K, t)))
      BY <2>9
    <3>6. K = {k \in DOMAIN sends : sends[k].new \/ sends[k].soon}
      BY <2>1, <2>5, <3>1
    <3> QED BY <3>3, <3>4, <3>5, <3>6
  <2> QED BY <2>1, <2>11, <2>12 DEF throughput_at
<1> QED BY <1>1, WindowInvariant, PTL

-----------------------------------------------------------------------------
(***************************************************************************)
(* What one segment does to the frontiers.                                 *)
(***************************************************************************)

\* A segment without SACK blocks moves only the frontier of its own direction.
LEMMA PointsOfData ==
    ASSUME NEW u, NEW seg, NEW dir, NEW sample, seg.sack = <<>>
    PROVE  LET after == push_seq_points(u, seg, dir, sample).unwrap
           IN  IF seg.payload_len = 0 THEN after = u
               ELSE /\ DOMAIN after = DOMAIN u
                    /\ dir \in DOMAIN u => after[dir] = unwrap_advance(u[dir], seg.seq)
<1> DEFINE kind == IF sample.retransmit THEN "retransmit"
                   ELSE IF sample.out_of_order THEN "out_of_order" ELSE "data"
           none == [unwrap |-> u, points |-> <<>>]
           data == IF seg.payload_len = 0 THEN none
                   ELSE seq_point(none, dir, seg.seq,
                                  [t |-> seg.ts, len |-> seg.payload_len, kind |-> kind])
           D == DOMAIN seg.sack
           Folds(g) == g = [s \in SUBSET D |->
                               IF s = {} THEN data
                               ELSE seq_point(g[s \ {Max(s)}], dir_opposite(dir),
                                              seg.sack[Max(s)],
                                              [t |-> seg.ts, len |-> 0, kind |-> "sack"])]
           fold == CHOOSE g : Folds(g)
           none_left == [s \in SUBSET D |-> data]
<1>1. push_seq_points(u, seg, dir, sample) = fold[D]
  BY Zenon DEF push_seq_points, FoldLeft, MapThenFoldSet
<1>2. data.unwrap = IF seg.payload_len = 0 THEN u
                    ELSE [u EXCEPT ![dir] = unwrap_advance(@, seg.seq)]
  BY DEF seq_point
<1>3. D = {}
  OBVIOUS
<1> HIDE DEF D, data
<1>4. Folds(none_left)
  BY <1>3
<1>5. Folds(fold)
  <2> HIDE DEF Folds, none_left
  <2> QED BY <1>4
<1>6. fold[D] = data
  <2> HIDE DEF fold
  <2> QED BY <1>3, <1>5
<1> QED BY <1>1, <1>2, <1>6

\* A SACK block without data moves only the frontier of the opposite direction.
LEMMA PointsOfSack ==
    ASSUME NEW u, NEW seg, NEW dir, NEW sample, NEW left,
           seg.sack = <<left>>, seg.payload_len = 0
    PROVE  LET after == push_seq_points(u, seg, dir, sample).unwrap
               d     == dir_opposite(dir)
           IN  /\ DOMAIN after = DOMAIN u
               /\ d \in DOMAIN u => after[d] = unwrap_advance(u[d], left)
<1> DEFINE kind == IF sample.retransmit THEN "retransmit"
                   ELSE IF sample.out_of_order THEN "out_of_order" ELSE "data"
           none == [unwrap |-> u, points |-> <<>>]
           data == IF seg.payload_len = 0 THEN none
                   ELSE seq_point(none, dir, seg.seq,
                                  [t |-> seg.ts, len |-> seg.payload_len, kind |-> kind])
           rest == [t |-> seg.ts, len |-> 0, kind |-> "sack"]
           D == DOMAIN seg.sack
           Folds(g) == g = [s \in SUBSET D |->
                               IF s = {} THEN data
                               ELSE seq_point(g[s \ {Max(s)}], dir_opposite(dir),
                                              seg.sack[Max(s)], rest)]
           fold == CHOOSE g : Folds(g)
           one == seq_point(none, dir_opposite(dir), left, rest)
           one_left == [s \in SUBSET D |-> IF s = {} THEN none ELSE one]
<1>1. push_seq_points(u, seg, dir, sample) = fold[D]
  BY Zenon DEF push_seq_points, FoldLeft, MapThenFoldSet
<1>2. one.unwrap = [u EXCEPT ![dir_opposite(dir)] = unwrap_advance(@, left)]
  BY DEF seq_point
<1>3. D = {1} /\ seg.sack[1] = left /\ data = none
  OBVIOUS
<1>4. Max({1}) = 1
  BY DEF Max
<1> HIDE DEF D, data, none, rest
<1>5. \A s \in SUBSET D : s # {} => s = {1} /\ s \ {Max(s)} = {}
  BY <1>3, <1>4
<1>6. Folds(one_left)
  <2>1. \A s \in SUBSET D : s # {} =>
           seq_point(one_left[s \ {Max(s)}], dir_opposite(dir), seg.sack[Max(s)], rest) = one
    BY <1>3, <1>4, <1>5
  <2>2. \A s \in SUBSET D :
           one_left[s] = IF s = {} THEN data
                         ELSE seq_point(one_left[s \ {Max(s)}], dir_opposite(dir),
                                        seg.sack[Max(s)], rest)
    BY <1>3, <2>1
  <2> QED BY <2>2
<1>7. Folds(fold)
  <2> HIDE DEF Folds, one_left
  <2> QED BY <1>6
<1>8. fold[D] = one
  <2> HIDE DEF fold
  <2>1. fold[{}] = none
    BY <1>3, <1>7
  <2>2. D \in SUBSET D /\ D # {} /\ Max(D) = 1 /\ D \ {1} = {}
    BY <1>3, <1>4
  <2>3. fold[D] = seq_point(fold[D \ {Max(D)}], dir_opposite(dir), seg.sack[Max(D)], rest)
    BY <1>7, <2>2
  <2> QED BY <1>3, <2>1, <2>2, <2>3
<1> QED BY <1>1, <1>2, <1>8

-----------------------------------------------------------------------------
(***************************************************************************)
(* SeqUnwrap against numbers at most half a turn behind w.                 *)
(***************************************************************************)

\* The offset of a number k behind w, when the frontier is j behind w.
LEMMA OffsetBehind ==
    ASSUME NEW w \in TcpSeq, NEW j \in 0 .. Half - 1, NEW k \in 0 .. Half - 1,
           NEW u, u.seq = wrapping_sub(w, j), u.rel \in Int
    PROVE  unwrap_offset(u, wrapping_sub(w, k)) = u.rel + (j - k)
<1> DEFINE a == wrapping_sub(w, j)
           b == wrapping_sub(w, k)
<1>1. a \in TcpSeq /\ a # None
  BY BackAndForth DEF TcpSeq, None
<1>2. /\ serial_lt(a, b) <=> k < j
      /\ a = b <=> k = j
      /\ k <= j => serial_diff(b, a) = j - k
      /\ j <= k => serial_diff(a, b) = k - j
  BY SerialOrder
<1>3. HalfAssumption /\ j \in Int /\ k \in Int
  BY HalfAssumption
<1> HIDE DEF a, b
<1>4. unwrap_offset(u, b) = IF b = a THEN u.rel
                            ELSE IF serial_lt(a, b) THEN u.rel + serial_diff(b, a)
                            ELSE u.rel - serial_diff(a, b)
  BY <1>1 DEF unwrap_offset, serial_gt, a
<1>5. unwrap_offset(u, b) = u.rel + (j - k)
  BY <1>2, <1>3, <1>4
<1> QED BY <1>5 DEF b

\* The frontier advances to it exactly when it is ahead.
LEMMA AdvanceBehind ==
    ASSUME NEW w \in TcpSeq, NEW j \in 0 .. Half - 1, NEW k \in 0 .. Half - 1,
           NEW u, u.seq = wrapping_sub(w, j), u.rel \in Int
    PROVE  LET v == unwrap_advance(u, wrapping_sub(w, k))
           IN  IF k < j THEN v.seq = wrapping_sub(w, k) /\ v.rel = u.rel + (j - k)
               ELSE v = u
<1>1. wrapping_sub(w, j) # None
  BY BackAndForth DEF TcpSeq, None
<1>2. serial_lt(wrapping_sub(w, j), wrapping_sub(w, k)) <=> k < j
  BY SerialOrder
<1>3. unwrap_offset(u, wrapping_sub(w, k)) = u.rel + (j - k)
  BY OffsetBehind
<1> QED BY <1>1, <1>2, <1>3 DEF unwrap_advance, serial_gt

-----------------------------------------------------------------------------
(***************************************************************************)
(* The inductive invariant.                                                *)
(***************************************************************************)

\* The frontier stands for position f.
StandsFor(u, f) == u.seq = wire(f) /\ u.rel = f - 1

OnFrontier ==
    /\ DOMAIN unwrap = Direction
    /\ \/ unwrap["o2r"].seq = None /\ unwrap["o2r"].rel = 0 /\ nxt <= 1
       \/ \E f \in 1 .. nxt : nxt - f <= MaxOutstanding /\ StandsFor(unwrap["o2r"], f)

SeqInv == FlowInv /\ OnFrontier

LEMMA InitSeqInv == SeqInit => SeqInv
<1> SUFFICES ASSUME SeqInit PROVE SeqInv
  OBVIOUS
<1>1. FlowInv
  BY InitFlowInv DEF SeqInit
<1>2. unwrap = [d \in Direction |-> [seq |-> None, rel |-> 0]] /\ nxt = 0
  BY DEF SeqInit, Init, BufNew
<1>3. OnFrontier
  BY <1>2 DEF OnFrontier, Direction
<1> QED BY <1>1, <1>3 DEF SeqInv

\* Data that starts at a position within the window: the frontier is the later of the two.
LEMMA DataKeepsFrontier ==
    ASSUME SeqInv, NEW from \in acked .. nxt, NEW to \in Nat, NEW ts,
           0 < from, from < to, to - acked <= MaxOutstanding,
           Transmit(from, to, {}, ts), Collect(DataSeg(from, to - from, {}, ts), "o2r")
    PROVE  OnFrontier'
<1> DEFINE u   == unwrap["o2r"]
           seg == DataSeg(from, to - from, {}, ts)
           new == IF to > nxt THEN to - nxt ELSE 0
<1>1. /\ nxt \in Nat /\ acked \in Nat /\ from \in Nat /\ from <= nxt /\ acked <= from
      /\ nxt - from \in 0 .. Half - 1 /\ new \in 0 .. Half - 1
      /\ nxt + new - from <= MaxOutstanding /\ wnxt \in TcpSeq
      /\ MaxOutstanding \in Nat /\ Half \in Nat /\ MaxOutstanding < Half
  BY FlowAssumption, HalfAssumption DEF SeqInv, FlowInv, PeersOK
<1>2. nxt' = nxt + new /\ wnxt' = wrapping_add(wnxt, new)
  BY DEF Transmit
<1>3. /\ DOMAIN unwrap' = Direction
      /\ unwrap'["o2r"] = unwrap_advance(u, wire(from))
  <2>1. seg.sack = <<>> /\ seg.payload_len # 0 /\ seg.seq = wire(from)
    BY <1>1 DEF DataSeg
  <2> HIDE DEF seg
  <2>2. unwrap' = push_seq_points(unwrap, seg, "o2r", last'.sample).unwrap
    BY DEF Collect, seg
  <2>3. DOMAIN unwrap = Direction /\ "o2r" \in Direction
    BY DEF SeqInv, OnFrontier, Direction
  <2> QED BY <2>1, <2>2, <2>3, PointsOfData
<1> HIDE DEF new
<1>4. ASSUME NEW g \in 1 .. nxt, nxt + new - g <= MaxOutstanding,
             unwrap'["o2r"].seq = wire(g), unwrap'["o2r"].rel = g - 1
      PROVE  OnFrontier'
  <2>1. g \in Nat /\ g <= nxt /\ nxt - g < Half /\ g \in 1 .. nxt' /\ nxt' - g <= MaxOutstanding
    BY <1>1, <1>2, <1>4
  <2>2. wrapping_sub(wnxt', nxt' - g) = wire(g)
    BY <1>1, <1>2, <2>1, WireStays DEF SeqInv, FlowInv
  <2>3. StandsFor(unwrap["o2r"], g)'
    BY <1>4, <2>2 DEF StandsFor, wire
  <2> QED BY <1>3, <2>1, <2>3 DEF OnFrontier
<1>5. CASE u.seq = None /\ u.rel = 0 /\ nxt <= 1
  <2>1. from = 1 /\ nxt = 1
    BY <1>1, <1>5
  <2>2. unwrap_advance(u, wire(from)) = [seq |-> wire(from), rel |-> 0]
    BY <1>5 DEF unwrap_advance, unwrap_offset
  <2> QED BY <1>1, <1>3, <1>4, <2>1, <2>2
<1>6. CASE \E f \in 1 .. nxt : nxt - f <= MaxOutstanding /\ StandsFor(u, f)
  <2>1. PICK f \in 1 .. nxt : nxt - f <= MaxOutstanding /\ StandsFor(u, f)
    BY <1>6
  <2>2. /\ nxt - f \in 0 .. Half - 1 /\ u.seq = wrapping_sub(wnxt, nxt - f) /\ u.rel \in Int
        /\ u.rel = f - 1 /\ wire(from) = wrapping_sub(wnxt, nxt - from)
    BY <1>1, <2>1 DEF StandsFor, wire
  <2>3. LET v == unwrap_advance(u, wire(from))
        IN  IF nxt - from < nxt - f
            THEN v.seq = wire(from) /\ v.rel = u.rel + ((nxt - f) - (nxt - from))
            ELSE v = u
    <3> HIDE DEF u
    <3> QED BY <1>1, <2>2, AdvanceBehind
  <2>4. CASE f < from
    <3>1. unwrap'["o2r"].seq = wire(from) /\ unwrap'["o2r"].rel = from - 1
      BY <1>1, <1>3, <2>2, <2>3, <2>4
    <3> QED BY <1>1, <1>4, <3>1
  <2>5. CASE ~(f < from)
    <3>1. unwrap'["o2r"] = u /\ nxt + new - f <= MaxOutstanding
      BY <1>1, <1>3, <2>1, <2>3, <2>5
    <3> QED BY <1>4, <2>1, <2>2, <3>1 DEF StandsFor
  <2> QED BY <2>4, <2>5
<1> QED BY <1>5, <1>6 DEF SeqInv, OnFrontier

\* A SYN carries no payload and adds no point.
LEMMA SynKeepsFrontier ==
    ASSUME SeqInv, NEW ts, SeqSyn(ts)
    PROVE  OnFrontier'
<1> DEFINE seg == DataSeg(0, 0, {"SYN"}, ts)
<1>1. unwrap' = unwrap
  <2>1. seg.sack = <<>> /\ seg.payload_len = 0
    BY DEF DataSeg
  <2> HIDE DEF seg
  <2>2. unwrap' = push_seq_points(unwrap, seg, "o2r", last'.sample).unwrap
    BY DEF SeqSyn, Collect, seg
  <2> QED BY <2>1, <2>2, PointsOfData
<1>2. /\ nxt \in {0, 1} /\ nxt' = 1
      /\ nxt = 1 => wnxt' = wnxt
  <2>1. /\ nxt' = nxt + (IF 1 > nxt THEN 1 - nxt ELSE 0) /\ nxt \in Nat /\ nxt <= 1
        /\ wnxt' = wrapping_add(wnxt, IF 1 > nxt THEN 1 - nxt ELSE 0) /\ wnxt \in TcpSeq
    BY DEF SeqSyn, SendSyn, Transmit, SeqInv, FlowInv, PeersOK
  <2>2. wrapping_add(wnxt, 0) = wnxt
    BY <2>1, HalfAssumption DEF wrapping_add, TcpSeq, Modulus
  <2> QED BY <2>1, <2>2
<1> QED BY <1>1, <1>2 DEF SeqInv, OnFrontier, StandsFor, wire

\* An ACK without SACK adds no point either; the sender stays where it is.
LEMMA AckKeepsFrontier ==
    ASSUME SeqInv, NEW pos, NEW ts, SeqAck(pos, ts)
    PROVE  OnFrontier'
<1> DEFINE seg == AckSeg(pos, ts)
<1>1. unwrap' = unwrap
  <2>1. seg.sack = <<>> /\ seg.payload_len = 0
    BY DEF AckSeg
  <2> HIDE DEF seg
  <2>2. unwrap' = push_seq_points(unwrap, seg, "r2o", last'.sample).unwrap
    BY DEF SeqAck, Collect, seg
  <2> QED BY <2>1, <2>2, PointsOfData
<1>2. nxt' = nxt /\ wnxt' = wnxt
  BY DEF SeqAck, Ack
<1> QED BY <1>1, <1>2 DEF SeqInv, OnFrontier, StandsFor, wire

\* A SACK edge less than half a turn behind the newest position may move the frontier.
LEMMA SackKeepsFrontier ==
    ASSUME SeqInv, NEW left \in 1 .. MaxPos, SeqSack(left)
    PROVE  OnFrontier'
<1> DEFINE u   == unwrap["o2r"]
           seg == [AckSeg(acked, now) EXCEPT !.sack = <<wire(left)>>]
<1>1. /\ nxt \in Nat /\ left \in Nat /\ 1 <= left /\ left < nxt
      /\ nxt - left \in 0 .. Half - 1 /\ wnxt \in TcpSeq
      /\ MaxOutstanding \in Nat /\ Half \in Nat /\ MaxOutstanding < Half
  BY FlowAssumption, HalfAssumption DEF SeqSack, SeqInv, FlowInv, PeersOK
<1>2. nxt' = nxt /\ wnxt' = wnxt
  BY DEF SeqSack, Ack
<1>3. /\ DOMAIN unwrap' = Direction
      /\ unwrap'["o2r"] = unwrap_advance(u, wire(left))
  <2>1. seg.sack = <<wire(left)>> /\ seg.payload_len = 0
    BY DEF AckSeg
  <2> HIDE DEF seg
  <2>2. unwrap' = push_seq_points(unwrap, seg, "r2o", last'.sample).unwrap
    BY DEF SeqSack, Collect, seg
  <2>3. DOMAIN unwrap = Direction /\ "o2r" \in Direction /\ dir_opposite("r2o") = "o2r"
    BY DEF SeqInv, OnFrontier, Direction, dir_opposite
  <2> QED BY <2>1, <2>2, <2>3, PointsOfSack
<1>4. PICK f \in 1 .. nxt : nxt - f <= MaxOutstanding /\ StandsFor(u, f)
  BY <1>1 DEF SeqInv, OnFrontier
<1>5. /\ nxt - f \in 0 .. Half - 1 /\ u.seq = wrapping_sub(wnxt, nxt - f) /\ u.rel \in Int
      /\ u.rel = f - 1 /\ wire(left) = wrapping_sub(wnxt, nxt - left)
  BY <1>1, <1>4 DEF StandsFor, wire
<1>6. LET v == unwrap_advance(u, wire(left))
      IN  IF nxt - left < nxt - f
          THEN v.seq = wire(left) /\ v.rel = u.rel + ((nxt - f) - (nxt - left))
          ELSE v = u
  <2> HIDE DEF u
  <2> QED BY <1>1, <1>5, AdvanceBehind
<1>7. CASE f < left
  <2>1. StandsFor(unwrap'["o2r"], left) /\ nxt - left <= MaxOutstanding
    BY <1>1, <1>3, <1>4, <1>5, <1>6, <1>7 DEF StandsFor
  <2>2. left \in 1 .. nxt
    BY <1>1
  <2> QED BY <1>2, <1>3, <2>1, <2>2 DEF OnFrontier, StandsFor, wire
<1>8. CASE ~(f < left)
  <2>1. unwrap'["o2r"] = u
    BY <1>1, <1>3, <1>4, <1>6, <1>8
  <2> QED BY <1>2, <1>3, <1>4, <2>1 DEF OnFrontier, StandsFor, wire
<1> QED BY <1>7, <1>8

LEMMA NextKeepsSeqInv ==
    ASSUME SeqInv, [SeqNext]_seq_vars
    PROVE  SeqInv'
<1>1. ASSUME NEW ts \in 0 .. MaxTime, SeqSyn(ts) PROVE SeqInv'
  BY <1>1, NextKeepsFlowInv, SynKeepsFrontier DEF SeqSyn, Next, SeqInv
<1>2. ASSUME NEW len \in 1 .. MaxLen, NEW ts \in 0 .. MaxTime, SeqNew(len, ts)
      PROVE  SeqInv'
  <2>1. PICK from \in acked .. nxt, to \in Nat :
            /\ from = nxt /\ to = nxt + len /\ from < to /\ 0 < from /\ to - from = len
            /\ to - acked <= MaxOutstanding
    BY <1>2, FlowAssumption DEF SeqNew, SendNew, SeqInv, FlowInv, PeersOK
  <2>2. Transmit(from, to, {}, ts) /\ Collect(DataSeg(from, to - from, {}, ts), "o2r")
    BY <1>2, <2>1 DEF SeqNew, SendNew
  <2>3. OnFrontier'
    BY <2>1, <2>2, DataKeepsFrontier
  <2>4. FlowInv'
    BY <1>2, NextKeepsFlowInv DEF SeqNew, Next, SeqInv
  <2> QED BY <2>3, <2>4 DEF SeqInv
<1>3. ASSUME NEW from \in 1 .. MaxPos, NEW len \in 1 .. MaxLen, NEW ts \in 0 .. MaxTime,
             SeqResend(from, len, ts)
      PROVE  SeqInv'
  <2>1. PICK to \in Nat :
            /\ to = from + len /\ from < to /\ 0 < from /\ to - from = len
            /\ from \in acked .. nxt /\ to - acked <= MaxOutstanding
    BY <1>3, FlowAssumption DEF SeqResend, Resend, SeqInv, FlowInv, PeersOK
  <2>2. Transmit(from, to, {}, ts) /\ Collect(DataSeg(from, to - from, {}, ts), "o2r")
    BY <1>3, <2>1 DEF SeqResend, Resend
  <2>3. OnFrontier'
    BY <2>1, <2>2, DataKeepsFrontier
  <2>4. FlowInv'
    BY <1>3, NextKeepsFlowInv DEF SeqResend, Next, SeqInv
  <2> QED BY <2>3, <2>4 DEF SeqInv
<1>4. ASSUME NEW pos \in 1 .. MaxPos, NEW ts \in 0 .. MaxTime, SeqAck(pos, ts)
      PROVE  SeqInv'
  BY <1>4, NextKeepsFlowInv, AckKeepsFrontier DEF SeqAck, Next, SeqInv
<1>5. ASSUME NEW left \in 1 .. MaxPos, SeqSack(left) PROVE SeqInv'
  <2>1. acked \in Nat /\ Ack(acked, now)
    BY <1>5 DEF SeqSack, SeqInv, FlowInv, PeersOK
  <2>2. FlowInv'
    BY <2>1, AckKeepsInv DEF SeqInv
  <2> QED BY <1>5, <2>2, SackKeepsFrontier DEF SeqInv
<1>6. CASE UNCHANGED seq_vars
  <2>1. UNCHANGED vars /\ unwrap' = unwrap
    BY <1>6 DEF seq_vars
  <2>2. FlowInv'
    BY <2>1, NextKeepsFlowInv DEF SeqInv
  <2> QED BY <2>1, <2>2 DEF vars, SeqInv, OnFrontier, StandsFor, wire
<1> QED BY <1>1, <1>2, <1>3, <1>4, <1>5, <1>6 DEF SeqNext

(***************************************************************************)
(* For every sequence space and every sender's window below half of it,    *)
(* SeqUnwrap plots data and SACK edges at their offset in the stream, over *)
(* any number of wraps, re-sends and SACK blocks.                          *)
(***************************************************************************)
THEOREM PointsAreOnStream == SeqSpec => []PointsOnStream
<1>1. SeqInv /\ [SeqNext]_seq_vars => SeqInv'
  BY NextKeepsSeqInv
<1>2. SeqInv => PointsOnStream
  <2> SUFFICES ASSUME SeqInv, unwrap["o2r"].seq # None,
                      NEW pos \in 1 .. nxt, nxt - pos < Half
               PROVE  unwrap_offset(unwrap["o2r"], wire(pos)) = pos - 1
    BY DEF PointsOnStream
  <2> DEFINE u == unwrap["o2r"]
  <2>1. PICK f \in 1 .. nxt : nxt - f <= MaxOutstanding /\ StandsFor(u, f)
    BY DEF SeqInv, OnFrontier
  <2>2. /\ nxt \in Nat /\ wnxt \in TcpSeq
        /\ nxt - f \in 0 .. Half - 1 /\ nxt - pos \in 0 .. Half - 1
    BY <2>1, FlowAssumption, HalfAssumption DEF SeqInv, FlowInv, PeersOK
  <2>3. /\ u.seq = wrapping_sub(wnxt, nxt - f) /\ u.rel = f - 1 /\ u.rel \in Int
        /\ wire(pos) = wrapping_sub(wnxt, nxt - pos)
    BY <2>1, <2>2 DEF StandsFor, wire
  <2> HIDE DEF u
  <2>4. unwrap_offset(u, wire(pos)) = u.rel + ((nxt - f) - (nxt - pos))
    BY <2>2, <2>3, OffsetBehind
  <2>5. unwrap_offset(u, wire(pos)) = pos - 1
    BY <2>2, <2>3, <2>4
  <2> QED BY <2>5 DEF u
<1> QED BY <1>1, <1>2, InitSeqInv, PTL DEF SeqSpec
=============================================================================
