------------------------------- MODULE Render -------------------------------
(***************************************************************************)
(* The detail pane on the screen (tcpvisr-tui render.rs): where the marks  *)
(* of a graph, its legend and its labels end up, for every size of the     *)
(* terminal.  The connection that is drawn and the keys that change the    *)
(* view are the environment; module App drives them in the program.        *)
(*                                                                         *)
(* A text is the number of columns it takes.  The width of a formatted     *)
(* number depends on its decimal digits only, so the values of a scene are *)
(* in units of 10^exp and its times in units of 10^t_exp nanoseconds: rows *)
(* and columns are ratios and do not see the unit.                         *)
(***************************************************************************)
EXTENDS Plots

CONSTANTS
    GUTTER,    \* columns left of the plot, for the labels of the Y axis (8)
    Widths,    \* terminal sizes
    Heights,
    Times,     \* cursor positions
    Scenes     \* focused connections: [x, t_exp, exp] and the four series

ASSUME RenderAssumption ==
    /\ GUTTER \in Nat \ (0 .. 7) /\ GUTTER + MIN_W >= 16
    /\ Widths \subseteq Nat \ {0} /\ Heights \subseteq Nat \ {0}

Views == <<"seq", "inflight", "rtt", "throughput">>

VARIABLES
    term,     \* the terminal: [w, h]
    open,     \* App::detail_open
    view,     \* App::detail_view
    cursor,   \* Transport::cursor
    scene     \* App::focus, if there is one

vars == <<term, open, view, cursor, scene>>

-----------------------------------------------------------------------------
(***************************************************************************)
(* Widths of formatted numbers with d decimal digits, as d = 1 for zero.   *)
(***************************************************************************)
digits(v, exp) == IF v = 0 THEN 1 ELSE exp + 1 + Cardinality({k \in 1 .. 8 : v >= 10 ^ k})

(***************************************************************************)
(* The scenes that the labels are laid out for: timestamps are u64, which  *)
(* has 20 digits, and the values of the Y axes are below 10^13.            *)
(***************************************************************************)
axis_values(s) ==
    {max_rel(s.seq), axis_top(inflight_layers(s.inflight), 0),
     axis_top(rtt_layers(s.rtt), 0), axis_top(throughput_layers(s.throughput), 0)}

ASSUME SceneAssumption ==
    \A s \in Scenes :
        /\ s.exp \in Nat /\ s.t_exp \in Nat /\ s.x.from <= s.x.to
        /\ digits(s.x.to, s.t_exp) <= 20
        /\ \A v \in axis_values(s) : digits(v, s.exp) <= 13

\* The exponent of the largest of the units not above a number of d digits.
unit_of(d, exps) == Max({e \in exps : e < d})

\* "1.234s": the digits of whole seconds, and four columns; the s is the caller's.
fmt_seconds(d) == later(1, d - 9) + 4

\* variant: large offsets are printed in full
fmt_seq_raw(d) == d

\* Raw below 100 000, else "1.2G".
fmt_seq(d) == IF d <= 5 THEN d ELSE d - unit_of(d, {3, 6, 9, 12}) + 3

\* "1.234s", "1.234ms", "1.234us", else whole "ns".
fmt_rtt(d) ==
    LET e == unit_of(d, {0, 3, 6, 9})
    IN  CASE e = 0 -> d + 2
          [] e = 9 -> d - e + 4 + 1
          [] OTHER -> d - e + 4 + 2

rate_unit(d) == unit_of(d, {0, 3, 6, 9})

\* The unit is in the legend; both labels use the unit of the larger.
fmt_rate_scaled(d, unit) == IF unit = 0 THEN d ELSE later(1, d - unit) + 4

\* format!("{:>7}")
padded(n) == later(n, 7)

-----------------------------------------------------------------------------
(***************************************************************************)
(* Layout.  ratatui gives the footer one line when there are two, halves   *)
(* the rest and takes one cell on each side for a border.                  *)
(***************************************************************************)
main_height == IF term.h > 1 THEN term.h - 1 ELSE term.h

right_half == [x |-> term.w - term.w \div 2, y |-> 0, w |-> term.w \div 2, h |-> main_height]

inner == [x |-> right_half.x + 1,
          y |-> right_half.y + 1,
          w |-> saturating_sub(right_half.w, 2),
          h |-> saturating_sub(right_half.h, 2)]

\* variant: no line is set aside for the time labels
plot_over_labels == Area(inner.w - GUTTER, inner.h - 1)

\* The plot leaves the legend's line, the time labels' line and the gutter.
plot_area == Area(inner.w - GUTTER, inner.h - 2)

\* render_detail's own check and that of the projections.
graph_fits == inner.h >= 3 /\ inner.w > GUTTER /\ fits(plot_area)

\* What render_detail puts into the pane.
shows == CASE ~open         -> "list only"
           [] scene = {}    -> "no connection selected"
           [] ~graph_fits   -> "widen terminal"
           [] OTHER         -> "graph"

-----------------------------------------------------------------------------
(***************************************************************************)
(* Drawing primitives.                                                     *)
(***************************************************************************)

\* buf.set_string: n columns from (x, y), cut at the edge of the terminal only.
set_string(x, y, n) == {<<i, y>> : i \in x .. Min({x + n, term.w}) - 1}

\* draw_legend: the first line of the pane, cut to it.
draw_legend == set_string(inner.x, inner.y, inner.w)

\* draw_plot: where a cell of the plot is drawn; its rows count from the bottom.
draw_plot(c) == <<inner.x + GUTTER + c[1], inner.y + 1 + (plot_area.h - 1 - c[2])>>

\* The time labels: the start below the first column, the end right-aligned.
label_row == inner.y + inner.h - 1

start_label(s) ==
    set_string(inner.x + GUTTER, label_row, fmt_seconds(digits(s.x.from, s.t_exp)) + 1)

end_label(s) ==
    LET n == fmt_seconds(digits(s.x.to, s.t_exp)) + 1
    IN  set_string(saturating_sub(inner.x + inner.w, n), label_row, n)

\* The labels of a scene, with Y labels of the given widths.
axes(s, top, bottom) ==
    [y |-> set_string(inner.x, inner.y + 1, padded(top))
             \cup set_string(inner.x, inner.y + plot_area.h, padded(bottom)),
     x |-> start_label(s) \cup end_label(s)]

-----------------------------------------------------------------------------
(***************************************************************************)
(* The four graphs.  The labels are drawn last, over the marks.            *)
(***************************************************************************)
draw_axes(s) == axes(s, fmt_seq(digits(max_rel(s.seq), s.exp)), 1)

render_seq_body(s) ==
    [grid |-> seq_project(s.seq, s.x, cursor, plot_area), axes |-> draw_axes(s)]

draw_inflight_axes(s) ==
    axes(s, fmt_seq(digits(axis_top(inflight_layers(s.inflight), cursor), s.exp)), 1)

render_inflight_body(s) ==
    [grid |-> inflight_project(s.inflight, s.x, cursor, plot_area), axes |-> draw_inflight_axes(s)]

draw_rtt_axes(s) ==
    axes(s, fmt_rtt(digits(axis_top(rtt_layers(s.rtt), cursor), s.exp)), fmt_rtt(1))

render_rtt_body(s) ==
    [grid |-> rtt_project(s.rtt, s.x, cursor, plot_area), axes |-> draw_rtt_axes(s)]

draw_throughput_axes(s, d) ==
    axes(s, fmt_rate_scaled(d, rate_unit(d)), fmt_rate_scaled(1, rate_unit(d)))

render_throughput_body(s) ==
    [grid |-> throughput_project(s.throughput, s.x, cursor, plot_area),
     axes |-> draw_throughput_axes(s, digits(axis_top(throughput_layers(s.throughput), cursor), s.exp))]

body(s) == CASE view = "seq"        -> render_seq_body(s)
             [] view = "inflight"   -> render_inflight_body(s)
             [] view = "rtt"        -> render_rtt_body(s)
             [] view = "throughput" -> render_throughput_body(s)

-----------------------------------------------------------------------------
(***************************************************************************)
(* The environment.  Every frame is drawn from scratch, so a behaviour has *)
(* one focused connection: another one is another behaviour.               *)
(***************************************************************************)
Init ==
    /\ term \in [w : Widths, h : Heights]
    /\ scene \in {{}} \cup {{s} : s \in Scenes}
    /\ open = FALSE /\ view = Views[1]
    /\ cursor = 0

Resize(w, h) == term' = [w |-> w, h |-> h] /\ UNCHANGED <<open, view, cursor, scene>>

Toggle == open' = ~open /\ UNCHANGED <<term, view, cursor, scene>>

CycleView ==
    /\ view' = Views[((CHOOSE i \in DOMAIN Views : Views[i] = view) % Len(Views)) + 1]
    /\ UNCHANGED <<term, open, cursor, scene>>

MoveCursor(t) == cursor' = t /\ UNCHANGED <<term, open, view, scene>>

Next ==
    \/ \E w \in Widths, h \in Heights : Resize(w, h)
    \/ Toggle \/ CycleView
    \/ \E t \in Times : MoveCursor(t)

Spec == Init /\ [][Next]_vars

-----------------------------------------------------------------------------
Interior == (inner.x .. inner.x + inner.w - 1) \X (inner.y .. inner.y + inner.h - 1)

\* The graphs on the screen: none, or the one of the view.
drawn == IF shows = "graph" THEN {body(s) : s \in scene} ELSE {}

\* The marks that a label hides.
hidden(g) == {c \in marks(g.grid) : draw_plot(c) \in g.axes.y \cup g.axes.x}

(***************************************************************************)
(* At every size at which a graph is drawn its marks lie inside the border *)
(* of the pane, below the legend, above the time labels and right of the   *)
(* gutter (draw_plot and draw_axes each compute their coordinates from the *)
(* pane).  The end of the time axis is labelled inside the border for      *)
(* every timestamp of 64 bits, in the narrowest pane too, although only    *)
(* the terminal bounds what draw_axes writes.                              *)
(***************************************************************************)
GraphInside ==
    /\ \A g \in drawn : \A c \in marks(g.grid) :
            /\ draw_plot(c) \in Interior \ draw_legend
            /\ draw_plot(c)[1] >= inner.x + GUTTER
            /\ draw_plot(c)[2] < label_row
    /\ shows = "graph" => \A s \in scene : end_label(s) \subseteq Interior

(***************************************************************************)
(* The labels, drawn last, "never overwrite plot columns" (render.rs, at   *)
(* draw_inflight_axes and draw_axes), up to 10^12 bytes, bits per second   *)
(* and nanoseconds.  The exception is the RTT axis, whose label has nine   *)
(* columns for 100 us to 1 ms and for 100 ms to 1 s, and hides the top     *)
(* mark of the first column.                                               *)
(***************************************************************************)
LabelsClearOfPlot ==
    \A g \in drawn :
        hidden(g) \subseteq (IF view = "rtt" THEN {<<0, plot_area.h - 1>>} ELSE {})
=============================================================================
