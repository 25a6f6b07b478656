------------------------------- MODULE Plots --------------------------------
(***************************************************************************)
(* The graphs of the detail pane (tcpvisr-tui detail.rs, inflight.rs,      *)
(* rtt.rs, throughput.rs): a series of samples, projected onto a grid of   *)
(* cells.  Columns are time over the connection's span, rows grow upward.  *)
(* The last three graphs share one algorithm and differ in their layers.   *)
(*                                                                         *)
(* The order of the samples plays no part in what is drawn: a series is    *)
(* the set of its points.  A glyph is the name of what it stands for.      *)
(***************************************************************************)
EXTENDS Serial, Sequences, SequencesExt, FiniteSets

CONSTANTS
    MIN_W, MIN_H    \* the smallest rectangle that is plotted (8 and 3)

ASSUME PlotAssumption == {MIN_W, MIN_H} \subseteq Nat \ {0}

Blank == "blank"
Cursor == "cursor"

\* The rectangle that the terminal leaves for the plot.
Area(w, h) == [w |-> w, h |-> h]

Cols(area) == 0 .. area.w - 1
Rows(area) == 0 .. area.h - 1
Cells(area) == Cols(area) \X Rows(area)

\* project answers Some.
fits(area) == area.w >= MIN_W /\ area.h >= MIN_H

-----------------------------------------------------------------------------
(***************************************************************************)
(* Cells of a time and of a value; x is the span [from, to].               *)
(***************************************************************************)
col_of(t, x, area) ==
    LET span == saturating_sub(x.to, x.from)
    IN  IF span = 0 THEN 0
        ELSE Min({(saturating_sub(t, x.from) * (area.w - 1)) \div span, area.w - 1})

row_of(v, top, area) ==
    IF top <= 0 THEN 0 ELSE Min({(v * (area.h - 1)) \div top, area.h - 1})

\* variant: samples ahead of the cursor are drawn as well
all_revealed(points, cursor) == points

\* Only what the cursor has reached is drawn.
revealed(points, cursor) == {p \in points : p.t <= cursor}

\* Ord::clamp, which panics unless x.from <= x.to.
cursor_col(x, cursor, area) == col_of(later(x.from, Min({cursor, x.to})), x, area)

\* The cursor line fills the cells of its column that are still blank.
with_cursor(grid, x, cursor, area) ==
    [c \in Cells(area) |-> IF grid[c] = Blank /\ c[1] = cursor_col(x, cursor, area) THEN Cursor
                           ELSE grid[c]]

-----------------------------------------------------------------------------
(***************************************************************************)
(* In-flight, RTT and throughput.  A layer is a glyph and its points       *)
(* [t, v]; the axis is fixed by all points of all layers, drawn or not.    *)
(***************************************************************************)

\* variant: the axis follows what has been revealed so far
axis_top_revealed(layers, cursor) ==
    Max({0} \cup UNION {{p.v : p \in revealed(layers[k].points, cursor)} : k \in DOMAIN layers})

axis_top(layers, cursor) ==
    Max({0} \cup UNION {{p.v : p \in layers[k].points} : k \in DOMAIN layers})

\* The rows of the revealed points of a layer in column c.
rows_in(layer, c, x, cursor, top, area) ==
    {row_of(p.v, top, area) :
        p \in {q \in revealed(layer.points, cursor) : col_of(q.t, x, area) = c}}

\* Geom::place: the tallest revealed point of every column, over what was there.
place(grid, layer, x, cursor, top, area) ==
    LET peak == [c \in Cols(area) |-> Max({-1} \cup rows_in(layer, c, x, cursor, top, area))]
    IN  [c \in Cells(area) |-> IF c[2] = peak[c[1]] THEN layer.glyph ELSE grid[c]]

project(layers, x, cursor, area) ==
    LET top   == axis_top(layers, cursor)
        empty == [c \in Cells(area) |-> Blank]
    IN  with_cursor(FoldLeft(LAMBDA grid, l : place(grid, l, x, cursor, top, area), empty, layers),
                    x, cursor, area)

(***************************************************************************)
(* The layers of each graph in drawing order.  inflight.rs, rtt.rs and     *)
(* throughput.rs each have their own copy of Geom and project; they differ *)
(* in the series that are placed and the values that are read.  The kernel *)
(* overlays are empty in every call of render.rs and have no layer.        *)
(***************************************************************************)
inflight_layers(series) ==
    <<[glyph |-> "wire", points |-> {[t |-> s.t, v |-> s.bytes] : s \in series}]>>

inflight_project(series, x, cursor, area) == project(inflight_layers(series), x, cursor, area)

rtt_layers(series) ==
    <<[glyph |-> "raw", points |-> {[t |-> s.t, v |-> s.rtt] : s \in series}],
      [glyph |-> "smoothed", points |-> {[t |-> s.t, v |-> s.srtt] : s \in series}]>>

rtt_project(series, x, cursor, area) == project(rtt_layers(series), x, cursor, area)

throughput_layers(series) ==
    <<[glyph |-> "throughput", points |-> {[t |-> s.t, v |-> s.rate.throughput] : s \in series}],
      [glyph |-> "goodput", points |-> {[t |-> s.t, v |-> s.rate.goodput] : s \in series}]>>

throughput_project(series, x, cursor, area) == project(throughput_layers(series), x, cursor, area)

-----------------------------------------------------------------------------
(***************************************************************************)
(* Time/Sequence: every revealed point is drawn, the most salient one of a *)
(* cell wins.                                                              *)
(***************************************************************************)

salience == [data |-> 0, out_of_order |-> 1, sack |-> 2, retransmit |-> 3]

\* variant: salience is taken from the wrong end
least_salient(kinds) == CHOOSE k \in kinds : \A j \in kinds : salience[k] <= salience[j]

most_salient(kinds) == CHOOSE k \in kinds : \A j \in kinds : salience[j] <= salience[k]

rel_base(series) == IF series = {} THEN 0 ELSE Min({s.rel : s \in series})

max_rel(series) == Max({0} \cup {s.rel - rel_base(series) + s.len : s \in series})

cell_of(s, series, x, area) ==
    <<col_of(s.t, x, area), row_of(s.rel - rel_base(series), max_rel(series), area)>>

seq_project(series, x, cursor, area) ==
    LET at(c) == {s.kind : s \in {p \in revealed(series, cursor) : cell_of(p, series, x, area) = c}}
        drawn == [c \in Cells(area) |-> IF at(c) = {} THEN Blank ELSE most_salient(at(c))]
    IN  with_cursor(drawn, x, cursor, area)

-----------------------------------------------------------------------------
\* Mark: the cells that are drawn, without and with the cursor line.
data_marks(grid) == {c \in DOMAIN grid : grid[c] \notin {Blank, Cursor}}

marks(grid) == {c \in DOMAIN grid : grid[c] # Blank}

\* How high a column of a graph reaches.
height(grid, c) == Max({-1} \cup {m[2] : m \in {n \in data_marks(grid) : n[1] = c}})
=============================================================================
