---------------------------- MODULE RenderProofs ----------------------------
(***************************************************************************)
(* Proofs about Render: at every size of the terminal at which a graph is  *)
(* drawn, its marks and the label of the end of the time axis are inside   *)
(* the pane, and the labels hide no mark but the one that the RTT axis     *)
(* does.  Both are facts about a frame; the invariant only says which      *)
(* frames there are.                                                       *)
(***************************************************************************)
EXTENDS Render, BasicLemmas

\* The frames that there are.
RenderInv ==
    /\ term \in [w : Widths, h : Heights]
    /\ view \in {"seq", "inflight", "rtt", "throughput"}
    /\ scene \subseteq Scenes

-----------------------------------------------------------------------------
\* A number has at least one digit.
LEMMA DigitsPositive ==
    ASSUME NEW v, NEW exp \in Nat
    PROVE  digits(v, exp) \in Nat \ {0}
<1> DEFINE K == {k \in 1 .. 8 : v >= 10 ^ k}
<1>1. IsFiniteSet(K)
  <2>1. K \subseteq 1 .. 8
    BY Zenon
  <2>2. IsFiniteSet(1 .. 8)
    BY IndicesFinite
  <2> QED BY <2>1, <2>2, FS_Subset
<1>2. PICK n \in Nat : n = Cardinality(K)
  BY <1>1, FS_CardinalityType
<1>3. digits(v, exp) = IF v = 0 THEN 1 ELSE exp + 1 + n
  BY <1>2, Zenon DEF digits
<1> QED BY <1>3
-----------------------------------------------------------------------------
(***************************************************************************)
(* Layout.                                                                 *)
(***************************************************************************)

\* Where the inside of the pane and the plot are on the terminal, when a graph is drawn.
LaidOut(ix, iw, ih) ==
    /\ ix \in Nat /\ iw \in Nat /\ ih \in Nat
    /\ inner.x = ix /\ inner.y = 1 /\ inner.w = iw /\ inner.h = ih
    /\ plot_area.w = iw - GUTTER /\ plot_area.h = ih - 2
    /\ iw >= GUTTER + MIN_W /\ iw >= 16 /\ ih >= 3
    /\ ix + iw <= term.w

LEMMA Layout ==
    ASSUME RenderInv, shows = "graph"
    PROVE  /\ \E ix, iw, ih : LaidOut(ix, iw, ih)
           /\ term.w \in Nat
<1>1. PICK tw \in Nat, th \in Nat : tw = term.w /\ th = term.h
  BY RenderAssumption DEF RenderInv
<1>2. graph_fits
  BY DEF shows
<1>3. PICK half \in Nat : half = tw \div 2 /\ half + half <= tw
  OBVIOUS
<1>4. PICK mh \in Nat : mh = main_height
  BY <1>1 DEF main_height
<1>5. right_half = [x |-> tw - half, y |-> 0, w |-> half, h |-> mh]
  BY <1>1, <1>3, <1>4 DEF right_half
<1>6. PICK ix \in Nat, iw \in Nat, ih \in Nat :
         /\ ix = tw - half + 1
         /\ iw = (IF half >= 2 THEN half - 2 ELSE 0)
         /\ ih = (IF mh >= 2 THEN mh - 2 ELSE 0)
  BY <1>3
<1>7. inner.x = ix /\ inner.y = 1 /\ inner.w = iw /\ inner.h = ih
  BY <1>5, <1>6 DEF inner, saturating_sub
<1>8. plot_area.w = iw - GUTTER /\ plot_area.h = ih - 2
  BY <1>7 DEF plot_area, Area
<1>9. ih >= 3 /\ iw > GUTTER /\ iw - GUTTER >= MIN_W
  BY <1>2, <1>7, <1>8 DEF graph_fits, fits
<1>10. iw >= GUTTER + MIN_W /\ iw >= 16 /\ half >= 2 /\ ix + iw <= tw
  BY <1>3, <1>6, <1>9, RenderAssumption, PlotAssumption
<1>11. LaidOut(ix, iw, ih)
  BY <1>1, <1>7, <1>8, <1>9, <1>10 DEF LaidOut
<1> QED BY <1>1, <1>11

\* Every cell of a graph's grid is a cell of the plot.
LEMMA GridCells ==
    ASSUME RenderInv, NEW s, NEW c \in marks(body(s).grid)
    PROVE  c \in Cells(plot_area)
<1>1. ASSUME NEW grid, NEW x, NEW t, NEW area
      PROVE  DOMAIN with_cursor(grid, x, t, area) = Cells(area)
  BY DEF with_cursor
<1>2. DOMAIN body(s).grid = Cells(plot_area)
  <2>1. CASE view = "seq"
    BY <1>1, <2>1 DEF body, render_seq_body, seq_project
  <2>2. CASE view = "inflight"
    BY <1>1, <2>2 DEF body, render_inflight_body, inflight_project, project
  <2>3. CASE view = "rtt"
    BY <1>1, <2>3 DEF body, render_rtt_body, rtt_project, project
  <2>4. CASE view = "throughput"
    BY <1>1, <2>4 DEF body, render_throughput_body, throughput_project, project
  <2> QED BY <2>1, <2>2, <2>3, <2>4 DEF RenderInv
<1> QED BY <1>2 DEF marks

\* A cell of the plot on the screen.
LEMMA PlotCell ==
    ASSUME NEW ix, NEW iw, NEW ih, LaidOut(ix, iw, ih), NEW c \in Cells(plot_area)
    PROVE  \E i, j \in Nat :
              /\ c = <<i, j>> /\ i < iw - GUTTER /\ j < ih - 2
              /\ draw_plot(c) = <<ix + GUTTER + i, ih - 1 - j>>
<1>1. PICK i \in 0 .. iw - GUTTER - 1, j \in 0 .. ih - 2 - 1 : c = <<i, j>>
  BY DEF Cells, Cols, Rows, LaidOut
<1>2. i \in Nat /\ j \in Nat /\ i < iw - GUTTER /\ j < ih - 2
  BY RenderAssumption DEF LaidOut
<1>3. draw_plot(c) = <<ix + GUTTER + i, 1 + 1 + (ih - 2 - 1 - j)>>
  BY <1>1 DEF draw_plot, LaidOut
<1>4. 1 + 1 + (ih - 2 - 1 - j) = ih - 1 - j
  BY <1>2 DEF LaidOut
<1> QED BY <1>1, <1>2, <1>3, <1>4

\* A text lies in its row, from its first column on, inside the terminal.
LEMMA StringCells ==
    ASSUME NEW x \in Int, NEW y, NEW n \in Int, term.w \in Int, NEW p \in set_string(x, y, n)
    PROVE  \E i \in Int : p = <<i, y>> /\ x <= i /\ i < x + n
<1>1. PICK m : m = Min({x + n, term.w})
  OBVIOUS
<1>2. m \in Int /\ m <= x + n
  <2>1. PICK a \in Int, b \in Int : a = x + n /\ b = term.w
    OBVIOUS
  <2> QED BY <1>1, <2>1, MinOfTwo
<1>3. PICK i \in x .. m - 1 : p = <<i, y>>
  BY <1>1 DEF set_string
<1> QED BY <1>2, <1>3
(***************************************************************************)
(* Widths of the labels.                                                   *)
(***************************************************************************)
LEMMA Units ==
    ASSUME NEW d \in 1 .. 13
    PROVE  /\ unit_of(d, {0, 3, 6, 9}) = IF d <= 3 THEN 0 ELSE IF d <= 6 THEN 3 ELSE IF d <= 9 THEN 6 ELSE 9
           /\ d > 5 => unit_of(d, {3, 6, 9, 12}) = IF d <= 6 THEN 3 ELSE IF d <= 9 THEN 6
                                                   ELSE IF d <= 12 THEN 9 ELSE 12
<1> DEFINE A == {e \in {0, 3, 6, 9} : e < d}
           B == {e \in {3, 6, 9, 12} : e < d}
           a == IF d <= 3 THEN 0 ELSE IF d <= 6 THEN 3 ELSE IF d <= 9 THEN 6 ELSE 9
           b == IF d <= 6 THEN 3 ELSE IF d <= 9 THEN 6 ELSE IF d <= 12 THEN 9 ELSE 12
<1>1. A \subseteq Int /\ a \in A /\ \A e \in A : e <= a
  OBVIOUS
<1>2. Max(A) = a
  BY <1>1, MaxIs
<1>3. d > 5 => B \subseteq Int /\ b \in B /\ \A e \in B : e <= b
  OBVIOUS
<1>4. d > 5 => Max(B) = b
  BY <1>3, MaxIs
<1> QED BY <1>2, <1>4 DEF unit_of

\* Every label of the Y axis has at most eight columns, that of the RTT axis nine.
LEMMA LabelWidths ==
    ASSUME NEW d \in 1 .. 13
    PROVE  /\ padded(fmt_seq(d)) \in 0 .. 8 /\ padded(1) \in 0 .. 8
           /\ padded(fmt_rtt(d)) \in 0 .. 9 /\ padded(fmt_rtt(1)) \in 0 .. 8
           /\ padded(fmt_rate_scaled(d, rate_unit(d))) \in 0 .. 8
           /\ padded(fmt_rate_scaled(1, rate_unit(d))) \in 0 .. 8
<1>1. padded(fmt_seq(d)) \in 0 .. 8 /\ padded(1) \in 0 .. 8
  BY Units DEF fmt_seq, padded, later
<1>2. ASSUME NEW n \in 1 .. 13
      PROVE  fmt_rtt(n) = IF n <= 3 THEN n + 2 ELSE IF n <= 6 THEN n - 3 + 4 + 2
                          ELSE IF n <= 9 THEN n - 6 + 4 + 2 ELSE n - 9 + 4 + 1
  BY Units DEF fmt_rtt
<1>3. padded(fmt_rtt(d)) \in 0 .. 9 /\ padded(fmt_rtt(1)) \in 0 .. 8
  BY <1>2 DEF padded, later
<1>4. PICK u \in {0, 3, 6, 9} : u = rate_unit(d) /\ (u = 0 <=> d <= 3) /\ (u > 0 => d - u <= 4)
  BY Units DEF rate_unit
<1>5. /\ padded(fmt_rate_scaled(d, u)) \in 0 .. 8
      /\ padded(fmt_rate_scaled(1, u)) \in 0 .. 8
  BY <1>4 DEF fmt_rate_scaled, padded, later
<1> QED BY <1>1, <1>3, <1>4, <1>5
\* The labels of a graph, and how wide those of its Y axis can be.
Labelled(s, top, bottom) ==
    /\ body(s).axes = axes(s, top, bottom)
    /\ padded(top) \in 0 .. (IF view = "rtt" THEN 9 ELSE 8)
    /\ padded(bottom) \in 0 .. 8

LEMMA Labels ==
    ASSUME RenderInv, NEW s \in Scenes
    PROVE  \E top, bottom : Labelled(s, top, bottom)
<1>1. ASSUME NEW v \in axis_values(s) PROVE digits(v, s.exp) \in 1 .. 13
  BY DigitsPositive, SceneAssumption
<1>2. ASSUME NEW layers PROVE axis_top(layers, cursor) = axis_top(layers, 0)
  BY Zenon DEF axis_top
<1>3. CASE view = "seq"
  <2>1. PICK d \in 1 .. 13 : d = digits(max_rel(s.seq), s.exp)
    BY <1>1 DEF axis_values
  <2>2. body(s).axes = axes(s, fmt_seq(d), 1)
    BY <1>3, <2>1 DEF body, render_seq_body, draw_axes
  <2>3. Labelled(s, fmt_seq(d), 1)
    BY <1>3, <2>2, LabelWidths DEF Labelled
  <2> QED BY <2>3
<1>4. CASE view = "inflight"
  <2>1. PICK d \in 1 .. 13 : d = digits(axis_top(inflight_layers(s.inflight), cursor), s.exp)
    BY <1>1, <1>2 DEF axis_values
  <2>2. body(s).axes = axes(s, fmt_seq(d), 1)
    BY <1>4, <2>1 DEF body, render_inflight_body, draw_inflight_axes
  <2>3. Labelled(s, fmt_seq(d), 1)
    BY <1>4, <2>2, LabelWidths DEF Labelled
  <2> QED BY <2>3
<1>5. CASE view = "rtt"
  <2>1. PICK d \in 1 .. 13 : d = digits(axis_top(rtt_layers(s.rtt), cursor), s.exp)
    BY <1>1, <1>2 DEF axis_values
  <2>2. body(s).axes = axes(s, fmt_rtt(d), fmt_rtt(1))
    BY <1>5, <2>1 DEF body, render_rtt_body, draw_rtt_axes
  <2>3. Labelled(s, fmt_rtt(d), fmt_rtt(1))
    BY <1>5, <2>2, LabelWidths DEF Labelled
  <2> QED BY <2>3
<1>6. CASE view = "throughput"
  <2>1. PICK d \in 1 .. 13 : d = digits(axis_top(throughput_layers(s.throughput), cursor), s.exp)
    BY <1>1, <1>2 DEF axis_values
  <2>2. body(s).axes = axes(s, fmt_rate_scaled(d, rate_unit(d)), fmt_rate_scaled(1, rate_unit(d)))
    BY <1>6, <2>1 DEF body, render_throughput_body, draw_throughput_axes
  <2>3. Labelled(s, fmt_rate_scaled(d, rate_unit(d)), fmt_rate_scaled(1, rate_unit(d)))
    BY <1>6, <2>2, LabelWidths DEF Labelled
  <2> QED BY <2>3
<1> QED BY <1>3, <1>4, <1>5, <1>6 DEF RenderInv

\* The label of the end of the time axis starts in the pane and ends with it.
LEMMA EndLabel ==
    ASSUME NEW ix, NEW iw, NEW ih, LaidOut(ix, iw, ih), term.w \in Nat,
           NEW s \in Scenes, NEW p \in end_label(s)
    PROVE  p \in Interior
<1>1. PICK d \in 1 .. 20 : d = digits(s.x.to, s.t_exp)
  BY DigitsPositive, SceneAssumption
<1>2. PICK n \in 1 .. 16 : n = fmt_seconds(d) + 1
  BY DEF fmt_seconds, later
<1>3. ix \in Nat /\ iw \in Nat /\ ih \in Nat /\ n <= iw /\ ih >= 3
  BY <1>2 DEF LaidOut
<1>4. PICK x \in Nat : x = ix + iw - n /\ x >= ix
  BY <1>3
<1>5. saturating_sub(inner.x + inner.w, n) = x /\ label_row = ih
  <2>1. inner.x = ix /\ inner.w = iw /\ inner.y = 1 /\ inner.h = ih
    BY DEF LaidOut
  <2> QED BY <1>3, <1>4, <2>1 DEF saturating_sub, label_row
<1>6. p \in set_string(x, ih, n)
  BY <1>1, <1>2, <1>5 DEF end_label
<1>7. PICK i \in Int : p = <<i, ih>> /\ x <= i /\ i < x + n
  BY <1>3, <1>4, <1>6, StringCells
<1>8. i \in ix .. ix + iw - 1 /\ ih \in 1 .. 1 + ih - 1
  BY <1>3, <1>4, <1>7
<1> QED BY <1>7, <1>8 DEF Interior, LaidOut

\* A mark is right of the gutter, below the legend and above the time labels.
LEMMA MarkInside ==
    ASSUME RenderInv, shows = "graph", NEW s, NEW c \in marks(body(s).grid)
    PROVE  /\ draw_plot(c) \in Interior \ draw_legend
           /\ draw_plot(c)[1] >= inner.x + GUTTER
           /\ draw_plot(c)[2] < label_row
<1>1. PICK ix, iw, ih : LaidOut(ix, iw, ih)
  BY Layout
<1>2. PICK i \in Nat, j \in Nat : /\ c = <<i, j>> /\ i < iw - GUTTER /\ j < ih - 2
                                  /\ draw_plot(c) = <<ix + GUTTER + i, ih - 1 - j>>
  BY <1>1, GridCells, PlotCell
<1>3. PICK p \in Nat, q \in Nat : p = ix + GUTTER + i /\ q = ih - 1 - j
  BY <1>1, <1>2, RenderAssumption DEF LaidOut
<1>4. /\ ix \in Nat /\ iw \in Nat /\ ih \in Nat
      /\ p \in ix .. ix + iw - 1 /\ q \in 1 .. 1 + ih - 1 /\ q # 1
      /\ p >= ix + GUTTER /\ q < ih
  BY <1>1, <1>2, <1>3, RenderAssumption DEF LaidOut
<1>5. draw_plot(c) = <<p, q>> /\ inner.x = ix /\ inner.y = 1 /\ inner.w = iw /\ inner.h = ih
  BY <1>1, <1>2, <1>3 DEF LaidOut
<1>6. label_row = ih
  BY <1>4, <1>5 DEF label_row
<1>7. <<p, q>> \notin draw_legend
  BY <1>4, <1>5 DEF draw_legend, set_string
<1>8. <<p, q>> \in Interior
  BY <1>4, <1>5 DEF Interior
<1> QED BY <1>4, <1>5, <1>6, <1>7, <1>8
\* What a label of the Y axis can hide.
LEMMA HiddenMark ==
    ASSUME RenderInv, shows = "graph", NEW s \in Scenes, NEW c \in hidden(body(s))
    PROVE  view = "rtt" /\ c = <<0, plot_area.h - 1>>
<1>1. PICK ix, iw, ih : LaidOut(ix, iw, ih) /\ term.w \in Int
  BY Layout
<1>2. c \in marks(body(s).grid) /\ draw_plot(c) \in body(s).axes.y \cup body(s).axes.x
  BY DEF hidden
<1>3. PICK i \in Nat, j \in Nat : /\ c = <<i, j>> /\ i < iw - GUTTER /\ j < ih - 2
                                  /\ draw_plot(c) = <<ix + GUTTER + i, ih - 1 - j>>
  BY <1>1, <1>2, GridCells, PlotCell
<1>4. /\ ix \in Nat /\ iw \in Nat /\ ih \in Nat /\ GUTTER \in Nat /\ GUTTER >= 8
      /\ inner.x = ix /\ inner.y = 1 /\ plot_area.h = ih - 2 /\ label_row \in Int
      /\ 2 \in Int /\ 1 + plot_area.h \in Int /\ inner.x + GUTTER \in Int
  BY <1>1, RenderAssumption DEF LaidOut, label_row
<1>5. PICK top, bottom : Labelled(s, top, bottom)
  BY Labels
<1>6. draw_plot(c) \notin start_label(s) \cup end_label(s)
  <2>1. PICK p, q : draw_plot(c) = <<p, q>> /\ q < label_row
    BY <1>2, <1>3, MarkInside
  <2>2. q # label_row
    BY <1>3, <1>4, <2>1
  <2> QED BY <2>1, <2>2 DEF start_label, end_label, set_string
<1>7. draw_plot(c) \in set_string(ix, 2, padded(top)) \cup set_string(ix, 1 + plot_area.h, padded(bottom))
  BY <1>2, <1>4, <1>5, <1>6 DEF Labelled, axes
<1>8. draw_plot(c) \notin set_string(ix, 1 + plot_area.h, padded(bottom))
  <2> SUFFICES ASSUME draw_plot(c) \in set_string(ix, 1 + plot_area.h, padded(bottom)) PROVE FALSE
    OBVIOUS
  <2>1. PICK n \in 0 .. 8 : n = padded(bottom)
    BY <1>5 DEF Labelled
  <2>2. PICK k \in Int : draw_plot(c) = <<k, 1 + plot_area.h>> /\ ix <= k /\ k < ix + n
    BY <1>1, <1>4, <2>1, StringCells
  <2> QED BY <1>3, <1>4, <2>1, <2>2
<1>9. PICK n \in 0 .. (IF view = "rtt" THEN 9 ELSE 8) : n = padded(top)
  BY <1>5 DEF Labelled
<1>10. PICK k \in Int : draw_plot(c) = <<k, 2>> /\ ix <= k /\ k < ix + n
  <2>1. draw_plot(c) \in set_string(ix, 2, n) /\ n \in Int /\ ix \in Int
    BY <1>4, <1>7, <1>8, <1>9
  <2> QED BY <1>1, <2>1, StringCells
<1>11. ix + GUTTER + i = k /\ ih - 1 - j = 2
  BY <1>3, <1>10
<1>12. n > 8 /\ i = 0 /\ j = ih - 2 - 1
  BY <1>3, <1>4, <1>9, <1>10, <1>11
<1> QED BY <1>3, <1>4, <1>9, <1>12

-----------------------------------------------------------------------------
\* The frames that there are, in every reachable state.
LEMMA RenderInvariant == Spec => []RenderInv
<1>1. Init => RenderInv
  BY DEF Init, RenderInv, Views
<1>2. RenderInv /\ [Next]_vars => RenderInv'
  <2> SUFFICES ASSUME RenderInv, [Next]_vars PROVE RenderInv'
    OBVIOUS
  <2>1. ASSUME NEW w \in Widths, NEW h \in Heights, Resize(w, h) PROVE RenderInv'
    BY <2>1 DEF Resize, RenderInv
  <2>2. CASE Toggle
    BY <2>2 DEF Toggle, RenderInv
  <2>3. CASE CycleView
    <3>1. DOMAIN Views = 1 .. 4 /\ Len(Views) = 4
      BY DEF Views
    <3>2. PICK i \in 1 .. 4 : i = CHOOSE k \in DOMAIN Views : Views[k] = view
      <4>1. \E k \in DOMAIN Views : Views[k] = view
        BY DEF RenderInv, Views
      <4> QED BY <3>1, <4>1
    <3>3. (i % 4) + 1 \in 1 .. 4
      OBVIOUS
    <3>4. view' \in {"seq", "inflight", "rtt", "throughput"}
      BY <2>3, <3>1, <3>2, <3>3 DEF CycleView, Views
    <3> QED BY <2>3, <3>4 DEF CycleView, RenderInv
  <2>4. ASSUME NEW t \in Times, MoveCursor(t) PROVE RenderInv'
    BY <2>4 DEF MoveCursor, RenderInv
  <2>5. CASE UNCHANGED vars
    BY <2>5 DEF vars, RenderInv
  <2> QED BY <2>1, <2>2, <2>3, <2>4, <2>5 DEF Next
<1> QED BY <1>1, <1>2, PTL DEF Spec

(***************************************************************************)
(* At every size of the terminal at which render_detail draws a graph, all *)
(* of its marks are inside the border, below the legend, above the time    *)
(* labels and right of the gutter, and the label of the end of the time    *)
(* axis, which only the terminal bounds, is inside the border for every    *)
(* timestamp of 64 bits.                                                   *)
(***************************************************************************)
THEOREM GraphStaysInside == Spec => []GraphInside
<1>1. RenderInv => GraphInside
  <2> SUFFICES ASSUME RenderInv PROVE GraphInside
    OBVIOUS
  <2>1. ASSUME NEW g \in drawn, NEW c \in marks(g.grid)
        PROVE  /\ draw_plot(c) \in Interior \ draw_legend
               /\ draw_plot(c)[1] >= inner.x + GUTTER
               /\ draw_plot(c)[2] < label_row
    <3>1. shows = "graph" /\ \E s \in scene : g = body(s)
      BY <2>1 DEF drawn
    <3> QED BY <2>1, <3>1, MarkInside
  <2>2. ASSUME shows = "graph", NEW s \in scene PROVE end_label(s) \subseteq Interior
    <3>1. PICK ix, iw, ih : LaidOut(ix, iw, ih) /\ term.w \in Nat
      BY <2>2, Layout
    <3>2. s \in Scenes
      BY DEF RenderInv
    <3> QED BY <3>1, <3>2, EndLabel
  <2> QED BY <2>1, <2>2 DEF GraphInside
<1> QED BY <1>1, RenderInvariant, PTL

(***************************************************************************)
(* "Labels never overwrite plot columns", at every size of the terminal    *)
(* and for all values below 10^13, but for the top cell of the first       *)
(* column of the RTT graph, which the nine columns of "999.999us" reach.   *)
(***************************************************************************)
THEOREM LabelsAreClear == Spec => []LabelsClearOfPlot
<1>1. RenderInv => LabelsClearOfPlot
  <2> SUFFICES ASSUME RenderInv, NEW g \in drawn, NEW c \in hidden(g)
               PROVE  view = "rtt" /\ c = <<0, plot_area.h - 1>>
    BY DEF LabelsClearOfPlot
  <2>1. shows = "graph" /\ \E s \in scene : g = body(s)
    BY DEF drawn
  <2>2. PICK s \in Scenes : g = body(s)
    BY <2>1 DEF RenderInv
  <2> QED BY <2>1, <2>2, HiddenMark
<1> QED BY <1>1, RenderInvariant, PTL
=============================================================================
