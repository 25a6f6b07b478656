------------------------------ MODULE MCRender ------------------------------
(***************************************************************************)
(* An instance of Render for TLC, with the GUTTER, MIN_W and MIN_H of the  *)
(* program: the plot is drawn from 36 columns and 8 lines on.              *)
(***************************************************************************)
EXTENDS Render

\* One sample of every series: v is the larger value, u the smaller.
Sample(t, v, u, kind) ==
    [t |-> t, bytes |-> v, rtt |-> u, srtt |-> v, rate |-> [throughput |-> v, goodput |-> u],
     rel |-> v, len |-> u, kind |-> kind]

MCSamples ==
    {Sample(t, v, u, "data") : t \in {0, 1, 3}, v \in {1, 2}, u \in {0, 1}}
        \cup {Sample(1, 9, 5, "retransmit")}

Scene(samples, exp, x, t_exp) ==
    [seq |-> samples, inflight |-> samples, rtt |-> samples, throughput |-> samples,
     exp |-> exp, x |-> x, t_exp |-> t_exp]

\* Up to two samples, with values of 1 to 12 digits, on a short and on a long time axis.
MCScenes ==
    {Scene(samples, exp, [from |-> 0, to |-> 3], 9) :
        samples \in {S \in SUBSET MCSamples : Cardinality(S) <= 2}, exp \in {0, 5, 8, 11}}
    \cup
    {Scene({Sample(2, 1, 1, "sack")}, exp, x, 19) :
        exp \in 0 .. 11, x \in {[from |-> 0, to |-> 1], [from |-> 1, to |-> 1]}}
=============================================================================
