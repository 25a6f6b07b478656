------------------------------- MODULE Detail -------------------------------
(***************************************************************************)
(* The detail pane: the selected connection (App::focus) drawn as one of   *)
(* four graphs (render.rs render_detail) at the app's cursor.  The state   *)
(* machine is App's; this module adds what the pane shows in a state and   *)
(* the properties of it.                                                   *)
(***************************************************************************)
EXTENDS App, Plots

CONSTANTS PlotW, PlotH   \* the size of the plot rectangle

ASSUME DetailAssumption == {PlotW, PlotH} \subseteq Nat \ {0}

\* The focused connection, if one is selected and known.
focus_entries(a) ==
    {a.timeline.entries[i] : i \in {j \in DOMAIN a.timeline.entries :
                                       a.timeline.entries[j].conn.id \in a.selected}}

focus_dir(c) == IF c.bytes["o2r"] >= c.bytes["r2o"] THEN "o2r" ELSE "r2o"

\* Timeline::x_span
x_span(e) == [from |-> e.conn.opened_at, to |-> e.effective_end]

\* The samples of a series in the focus direction.
focus_series(e, n) == {s \in ToSet(e.detail[n]) : s.dir = focus_dir(e.conn)}

\* The plot rectangle of the pane in this module's runs; module Render varies it.
Pane == Area(PlotW, PlotH)

\* The four graphs of an entry with the cursor at t.
seq_graph(e, t) == seq_project(focus_series(e, "seq"), x_span(e), t, Pane)

inflight_graph(e, t) == inflight_project(focus_series(e, "inflight"), x_span(e), t, Pane)

rtt_graph(e, t) == rtt_project(focus_series(e, "rtt"), x_span(e), t, Pane)

throughput_graph(e, t) == throughput_project(focus_series(e, "throughput"), x_span(e), t, Pane)

graphs(e, t) == {seq_graph(e, t), inflight_graph(e, t), rtt_graph(e, t), throughput_graph(e, t)}

-----------------------------------------------------------------------------
\* Enter and Tab reach each of the four graphs in any state: all are looked at.
PaneDrawn == Drawn /\ fits(Pane)

(***************************************************************************)
(* The pane never shows the future: no data mark of any graph lies right   *)
(* of the cursor line, also for samples outside the connection's span; and *)
(* the span is never inverted, on which Ord::clamp would panic.            *)
(***************************************************************************)
NothingAhead ==
    PaneDrawn => \A e \in focus_entries(app) :
        /\ x_span(e).from <= x_span(e).to
        /\ \A g \in graphs(e, app.transport.cursor) : \A m \in data_marks(g) :
              m[1] <= cursor_col(x_span(e), app.transport.cursor, Pane)

(***************************************************************************)
(* No re-send that the cursor has reached is hidden in the Time/Sequence   *)
(* graph: its cell shows it, or something at least as salient, whatever    *)
(* else was sent at that time and place.                                   *)
(***************************************************************************)
ResendsVisible ==
    PaneDrawn => \A e \in focus_entries(app) :
        LET S == focus_series(e, "seq")
            g == seq_graph(e, app.transport.cursor)
        IN  \A s \in revealed(S, app.transport.cursor) :
              LET shown == g[cell_of(s, S, x_span(e), Pane)]
              IN  shown \in DOMAIN salience /\ salience[shown] >= salience[s.kind]

\* No column of the graph h is lower than in g.
rises(g, h) == \A c \in Cols(Pane) : height(g, c) <= height(h, c)

(***************************************************************************)
(* Moving the cursor forward only adds to a graph: while the timeline and  *)
(* the selection stay, no column of the in-flight, RTT or throughput graph *)
(* becomes lower, because the axes do not depend on the cursor.            *)
(***************************************************************************)
RevealMonotone ==
    [][app'.timeline = app.timeline /\ app'.selected = app.selected
       /\ app'.transport.cursor > app.transport.cursor =>
          \A e \in focus_entries(app) :
              /\ rises(inflight_graph(e, app.transport.cursor), inflight_graph(e, app'.transport.cursor))
              /\ rises(rtt_graph(e, app.transport.cursor), rtt_graph(e, app'.transport.cursor))
              /\ rises(throughput_graph(e, app.transport.cursor), throughput_graph(e, app'.transport.cursor))]_appvars
=============================================================================
