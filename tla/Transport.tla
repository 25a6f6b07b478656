----------------------------- MODULE Transport ------------------------------
(***************************************************************************)
(* The playback transport (tcpvisr-tui/src/transport.rs): cursor, speed    *)
(* and play state over the time domain [start, end], as operators on a     *)
(* Transport record.                                                       *)
(***************************************************************************)
EXTENDS Serial, Sequences

\* The speed ladder as exact <<numerator, denominator>> ratios.
RATIOS == <<<<1, 10>>, <<1, 2>>, <<1, 1>>, <<2, 1>>, <<5, 1>>, <<10, 1>>>>

DEFAULT_SPEED_IDX == 3

TransportRec == [start : Nat, end : Nat, cursor : Nat,
                 speed_idx : DOMAIN RATIOS, playing : BOOLEAN]

transport_new(start, end) ==
    [start |-> start, end |-> end, cursor |-> start,
     speed_idx |-> DEFAULT_SPEED_IDX, playing |-> FALSE]

\* Ord::clamp, which panics unless lo <= hi.
clamp(t, lo, hi) == IF t < lo THEN lo ELSE IF t > hi THEN hi ELSE t

set_cursor(tr, t) == [tr EXCEPT !.cursor = clamp(t, tr.start, tr.end)]

set_domain(tr, start, end) ==
    [tr EXCEPT !.start = start, !.end = end, !.cursor = clamp(@, start, end)]

\* Playing from the end starts over.
transport_toggle_play(tr) ==
    [tr EXCEPT !.playing = ~@,
               !.cursor  = IF ~tr.playing /\ @ >= tr.end THEN tr.start ELSE @]

transport_faster(tr) == [tr EXCEPT !.speed_idx = IF @ < Len(RATIOS) THEN @ + 1 ELSE @]

transport_slower(tr) == [tr EXCEPT !.speed_idx = IF @ > 1 THEN @ - 1 ELSE @]

\* About 2% of the span, at least 1.
seek_step(tr) == later(saturating_sub(tr.end, tr.start) \div 50, 1)

transport_seek(tr, forward) ==
    set_cursor(tr, IF forward THEN tr.cursor + seek_step(tr)
                   ELSE saturating_sub(tr.cursor, seek_step(tr)))

\* The cursor after dt at the chosen speed, not past the end.
advanced(tr, dt) ==
    clamp(tr.cursor + (dt * RATIOS[tr.speed_idx][1]) \div RATIOS[tr.speed_idx][2], 0, tr.end)

\* variant: playback does not stop at the end
transport_tick_on(tr, dt) == IF tr.playing THEN [tr EXCEPT !.cursor = advanced(tr, dt)] ELSE tr

transport_tick(tr, dt) ==
    IF ~tr.playing THEN tr
    ELSE [tr EXCEPT !.cursor  = advanced(tr, dt),
                    !.playing = advanced(tr, dt) < tr.end]
=============================================================================
