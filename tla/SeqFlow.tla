------------------------------ MODULE SeqFlow -------------------------------
(***************************************************************************)
(* The Time/Sequence points of one TCP flow: every segment of Flow also    *)
(* runs ConnTrack::push_seq_points (module Retention), whose SeqUnwrap     *)
(* turns wrapped sequence numbers into offsets against a frontier that     *)
(* data segments and the left edges of SACK blocks both move.              *)
(*                                                                         *)
(* The receiver also sends duplicate ACKs with a SACK block.  Its left     *)
(* edge is any position sent less than half the sequence space ago: data   *)
(* received out of order, whether or not the tap saw a segment start       *)
(* there, or, in a D-SACK, data that is acknowledged already.              *)
(***************************************************************************)
EXTENDS Flow, Retention

VARIABLE unwrap   \* ConnTrack::unwrap, per direction

seq_vars == <<vars, unwrap>>

SeqInit ==
    /\ Init
    /\ unwrap = BufNew.unwrap

\* The segment that Flow's step has just shown to the tap adds its points.
Collect(seg, dir) == unwrap' = push_seq_points(unwrap, seg, dir, last'.sample).unwrap

SeqSyn(ts) ==
    /\ SendSyn(ts)
    /\ Collect(DataSeg(0, 0, {"SYN"}, ts), "o2r")

SeqNew(len, ts) ==
    /\ SendNew(len, ts)
    /\ Collect(DataSeg(nxt, len, {}, ts), "o2r")

SeqResend(from, len, ts) ==
    /\ Resend(from, len, ts)
    /\ Collect(DataSeg(from, len, {}, ts), "o2r")

SeqAck(pos, ts) ==
    /\ Ack(pos, ts)
    /\ Collect(AckSeg(pos, ts), "r2o")

\* A duplicate ACK with a SACK block (at the latest time: SeqUnwrap reads none).
SeqSack(left) ==
    /\ Ack(acked, now)
    /\ left < nxt /\ nxt - left < Half
    /\ Collect([AckSeg(acked, now) EXCEPT !.sack = <<wire(left)>>], "r2o")

SeqNext ==
    \/ \E t \in 0 .. MaxTime : SeqSyn(t)
    \/ \E len \in 1 .. MaxLen, t \in 0 .. MaxTime : SeqNew(len, t)
    \/ \E from \in 1 .. MaxPos, len \in 1 .. MaxLen, t \in 0 .. MaxTime : SeqResend(from, len, t)
    \/ \E pos \in 1 .. MaxPos, t \in 0 .. MaxTime : SeqAck(pos, t)
    \/ \E left \in 1 .. MaxPos : SeqSack(left)

SeqSpec == SeqInit /\ [][SeqNext]_seq_vars

-----------------------------------------------------------------------------
(***************************************************************************)
(* Wherever the next segment or SACK edge starts in the last half of the   *)
(* sequence space, its point will be plotted at its offset from the first  *)
(* payload byte (SeqUnwrap::offset): the unwrapping neither folds at a     *)
(* wrap nor is thrown off by re-sends behind its frontier or by the SACK   *)
(* edges that move it, so data and SACK marks share one axis.              *)
(***************************************************************************)
PointsOnStream ==
    unwrap["o2r"].seq # None =>
        \A pos \in 1 .. nxt :
            nxt - pos < Half => unwrap_offset(unwrap["o2r"], wire(pos)) = pos - 1
=============================================================================
