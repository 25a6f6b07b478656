--------------------------- MODULE RetentionProofs --------------------------
(***************************************************************************)
(* Proofs about the samples the tracker retains (modules Retention and     *)
(* Tracker): the count is exact, the ceiling holds, the current state of   *)
(* a connection is never dropped and stale samples are - for every policy, *)
(* window, ceiling and capture.                                            *)
(*                                                                         *)
(* The invariant also says that every retained sample has its type, which  *)
(* the graphs of the detail pane rest on (AppProofs).                      *)
(***************************************************************************)
EXTENDS TrackerProofs

\* The samples of a series are in U.
Within(s, U) == \A i \in 1 .. Len(s) : s[i] \in U

(***************************************************************************)
(* The types of the samples of the four graphs, and of the state that they *)
(* are derived from, as far as the samples depend on it.                   *)
(***************************************************************************)
DetailSeries == {"seq", "inflight", "rtt", "throughput"}

SeqSample == [t : Nat, dir : Direction, rel : Int, len : Nat,
              kind : {"data", "out_of_order", "sack", "retransmit"}]

InflightSample == [t : Nat, dir : Direction, bytes : Nat]

RttSample == [t : Nat, dir : Direction, rtt : Nat, srtt : Nat]

Rate == [throughput : Nat, goodput : Nat]

ThroughputSample == [t : Nat, dir : Direction, rate : Rate]

Sample(n) == CASE n = "seq"        -> SeqSample
               [] n = "inflight"   -> InflightSample
               [] n = "rtt"        -> RttSample
               [] n = "throughput" -> ThroughputSample

Pending == [end : Nat, ts : Nat]

WindowEntry == [ts : Nat, len : Nat, retransmit : BOOLEAN]

DirState == [snd_nxt : Nat \cup {None}, acked : TcpSeq \cup {None}, frontier : Nat \cup {None},
             last_data_ts : Nat \cup {None}, pending_rtt : Seq(Pending),
             tput : Seq(WindowEntry), tput_max_ts : Nat \cup {None}]

Unwrap == [seq : TcpSeq \cup {None}, rel : Int]

Typed(b) ==
    /\ b.metrics \in [Direction -> DirState]
    /\ b.srtt \in [Direction -> Nat \cup {None}]
    /\ b.unwrap \in [Direction -> Unwrap]
    /\ \A n \in DetailSeries : Within(b.q[n], Sample(n))

(***************************************************************************)
(* What is promised of a slot.                                             *)
(***************************************************************************)
BufShape(b) ==
    /\ DOMAIN b = {"metrics", "srtt", "unwrap", "q"}
    /\ DOMAIN b.q = SeriesName
    /\ \A n \in SeriesName : IsSeq(b.q[n])
    /\ Typed(b)

Ceiling(count, over) ==
    IF Evicts THEN ~over ELSE count <= MaxSamples /\ (over => count = MaxSamples)

\* A slot of a tracker whose other connections retain `rest' samples.
SlotOK(s, rest) ==
    /\ DOMAIN s = {"buf", "collected", "overflowed"}
    /\ BufShape(s.buf)
    /\ s.collected = rest + retained(s.buf)
    /\ s.overflowed \in BOOLEAN
    /\ Ceiling(s.collected, s.overflowed)

\* The samples of a series are in time order, none after T.
SortedUpto(s, T) ==
    \A i \in 1 .. Len(s) : /\ s[i].t \in Nat /\ s[i].t <= T
                            /\ \A j \in i .. Len(s) : s[i].t <= s[j].t

\* What no collector undoes: overflow, the time order, and the newest state sample.
OrderKept(s, r, T) ==
    /\ s.overflowed => r.overflowed
    /\ \A n \in SeriesName : SortedUpto(s.buf.q[n], T) => SortedUpto(r.buf.q[n], T)

StateKept(s, r) ==
    LET a == s.buf.q["states"]
        b == r.buf.q["states"]
    IN  /\ Len(a) > 0 => Len(b) > 0 /\ Last(b) = Last(a)
        /\ \A U : Within(a, U) => Within(b, U)

Kept(s, r, T) == OrderKept(s, r, T) /\ StateKept(s, r)

LEMMA KeptTransitive ==
    ASSUME NEW T, NEW a, NEW b, NEW c, Kept(a, b, T), Kept(b, c, T)
    PROVE  Kept(a, c, T)
BY DEF Kept, OrderKept, StateKept

\* The six series by name.
LEMMA SixSeries ==
    SeriesName = {"states", "series", "seq", "inflight", "rtt", "throughput"}
<1>1. 1 .. 6 = {1, 2, 3, 4, 5, 6}
  OBVIOUS
<1>2. /\ SeriesOrder[1] = "states" /\ SeriesOrder[2] = "series" /\ SeriesOrder[3] = "seq"
      /\ SeriesOrder[4] = "inflight" /\ SeriesOrder[5] = "rtt" /\ SeriesOrder[6] = "throughput"
  BY DEF SeriesOrder
<1> QED BY <1>1, <1>2 DEF SeriesName

\* The count of a connection's samples, and how it follows one series.
LEMMA RetainedCount ==
    ASSUME NEW b, BufShape(b)
    PROVE  /\ retained(b) \in Nat
           /\ \A n \in SeriesName : Len(b.q[n]) \in Nat /\ Len(b.q[n]) <= retained(b)
           /\ \A c, n : BufShape(c) /\ n \in SeriesName
                        /\ (\A o \in SeriesName \ {n} : Len(c.q[o]) = Len(b.q[o])) =>
                 retained(c) = retained(b) - Len(b.q[n]) + Len(c.q[n])
<1>1. ASSUME NEW d, BufShape(d), NEW n \in SeriesName PROVE Len(d.q[n]) \in Nat
  BY <1>1, LenProperties DEF BufShape, IsSeq
<1>2. ASSUME NEW d, BufShape(d)
      PROVE  /\ Len(d.q["states"]) \in Nat /\ Len(d.q["series"]) \in Nat /\ Len(d.q["seq"]) \in Nat
             /\ Len(d.q["inflight"]) \in Nat /\ Len(d.q["rtt"]) \in Nat
             /\ Len(d.q["throughput"]) \in Nat
  BY <1>1, <1>2, SixSeries
<1>3. PICK u, v, w, x, y, z \in Nat :
         /\ u = Len(b.q["states"]) /\ v = Len(b.q["series"]) /\ w = Len(b.q["seq"])
         /\ x = Len(b.q["inflight"]) /\ y = Len(b.q["rtt"]) /\ z = Len(b.q["throughput"])
         /\ retained(b) = u + v + w + x + y + z
  BY <1>2 DEF retained
<1>4. ASSUME NEW n \in SeriesName
      PROVE  \E k \in Nat : k = Len(b.q[n]) /\ k <= u + v + w + x + y + z
  <2>1. n \in {"states", "series", "seq", "inflight", "rtt", "throughput"}
    BY SixSeries
  <2>2. PICK k \in {u, v, w, x, y, z} : Len(b.q[n]) = k
    BY <1>3, <2>1
  <2>3. k \in Nat /\ k <= u + v + w + x + y + z
    BY ONLY k \in {u, v, w, x, y, z}, u \in Nat, v \in Nat, w \in Nat, x \in Nat, y \in Nat, z \in Nat
  <2> QED BY <2>2, <2>3
<1>5. ASSUME NEW c, NEW n \in SeriesName, BufShape(c),
             \A o \in SeriesName \ {n} : Len(c.q[o]) = Len(b.q[o])
      PROVE  retained(c) = retained(b) - Len(b.q[n]) + Len(c.q[n])
  <2>1. /\ n = "states" \/ Len(c.q["states"]) = Len(b.q["states"])
        /\ n = "series" \/ Len(c.q["series"]) = Len(b.q["series"])
        /\ n = "seq" \/ Len(c.q["seq"]) = Len(b.q["seq"])
        /\ n = "inflight" \/ Len(c.q["inflight"]) = Len(b.q["inflight"])
        /\ n = "rtt" \/ Len(c.q["rtt"]) = Len(b.q["rtt"])
        /\ n = "throughput" \/ Len(c.q["throughput"]) = Len(b.q["throughput"])
    BY <1>5, SixSeries
  <2>2. n \in {"states", "series", "seq", "inflight", "rtt", "throughput"}
    BY SixSeries
  <2>3. PICK f, g, h, i, j, k \in Nat :
           /\ f = Len(c.q["states"]) /\ g = Len(c.q["series"]) /\ h = Len(c.q["seq"])
           /\ i = Len(c.q["inflight"]) /\ j = Len(c.q["rtt"]) /\ k = Len(c.q["throughput"])
           /\ retained(c) = f + g + h + i + j + k
    BY <1>2, <1>5 DEF retained
  <2> DEFINE after  == f + g + h + i + j + k
             before == u + v + w + x + y + z
  <2>4. /\ n = "states" \/ f = u
        /\ n = "series" \/ g = v
        /\ n = "seq" \/ h = w
        /\ n = "inflight" \/ i = x
        /\ n = "rtt" \/ j = y
        /\ n = "throughput" \/ k = z
    BY <1>3, <2>1, <2>3
  <2>5. /\ n = "states" => after = before - u + f
        /\ n = "series" => after = before - v + g
        /\ n = "seq" => after = before - w + h
        /\ n = "inflight" => after = before - x + i
        /\ n = "rtt" => after = before - y + j
        /\ n = "throughput" => after = before - z + k
    BY <2>4
  <2> HIDE DEF after, before
  <2>6. retained(c) = after /\ retained(b) = before
    BY <1>3, <2>3 DEF after, before
  <2> QED BY <1>3, <2>2, <2>3, <2>5, <2>6
<1>6. retained(b) \in Nat
  <2>1. u + v + w + x + y + z \in Nat
    OBVIOUS
  <2> QED BY <1>3, <2>1
<1>7. \A n \in SeriesName : Len(b.q[n]) \in Nat /\ Len(b.q[n]) <= retained(b)
  BY <1>3, <1>4
<1> QED BY <1>5, <1>6, <1>7, Zenon

-----------------------------------------------------------------------------
(***************************************************************************)
(* The Evict backstop and admission.                                       *)
(***************************************************************************)

\* Time order survives a push at the latest time and a pop.
LEMMA SortedPush ==
    ASSUME NEW s, IsSeq(s), NEW T \in Nat, SortedUpto(s, T), NEW e, e.t = T
    PROVE  SortedUpto(Append(s, e), T)
<1> DEFINE r == Append(s, e)
<1>1. /\ Len(s) \in Nat /\ Len(r) = Len(s) + 1
      /\ \A i \in 1 .. Len(s) : r[i] = s[i]
      /\ r[Len(s) + 1] = e
  BY SeqPush
<1> HIDE DEF r
<1>2. ASSUME NEW i \in 1 .. Len(s) + 1 PROVE r[i].t \in Nat /\ r[i].t <= T
  BY <1>1 DEF SortedUpto
<1>3. ASSUME NEW i \in 1 .. Len(s) + 1, NEW j \in i .. Len(s) + 1 PROVE r[i].t <= r[j].t
  <2>1. CASE j = Len(s) + 1
    BY <1>1, <1>2, <2>1
  <2>2. CASE j # Len(s) + 1
    <3>1. i \in 1 .. Len(s) /\ j \in i .. Len(s) /\ j \in 1 .. Len(s)
      BY <1>1, <2>2
    <3> QED BY <1>1, <3>1 DEF SortedUpto
  <2> QED BY <2>1, <2>2
<1>4. SortedUpto(r, T)
  BY <1>1, <1>2, <1>3 DEF SortedUpto
<1> QED BY <1>4 DEF r

LEMMA SortedDrop ==
    ASSUME NEW s, IsSeq(s), NEW T, SortedUpto(s, T), NEW k \in 0 .. Len(s), NEW r,
           Len(r) = Len(s) - k,
           \A i \in 1 .. Len(s) - k : r[i] = s[k + i]
    PROVE  SortedUpto(r, T)
<1>1. Len(s) \in Nat
  BY SeqDrop
<1>2. ASSUME NEW i \in 1 .. Len(s) - k PROVE r[i].t \in Nat /\ r[i].t <= T
  <2>1. k + i \in 1 .. Len(s) /\ r[i] = s[k + i]
    BY <1>1
  <2> QED BY <2>1 DEF SortedUpto
<1>3. ASSUME NEW i \in 1 .. Len(s) - k, NEW j \in i .. Len(s) - k PROVE r[i].t <= r[j].t
  <2>1. /\ k + i \in 1 .. Len(s) /\ k + j \in k + i .. Len(s) /\ j \in 1 .. Len(s) - k
    BY <1>1
  <2>2. s[k + i].t <= s[k + j].t
    BY <2>1 DEF SortedUpto
  <2> QED BY <2>1, <2>2
<1> QED BY <1>2, <1>3 DEF SortedUpto

\* So does a type.
LEMMA WithinPush ==
    ASSUME NEW s, IsSeq(s), NEW U, Within(s, U), NEW e \in U
    PROVE  Within(Append(s, e), U)
<1>1. PICK n \in Nat : n = Len(s)
  BY SeqPush
<1>2. PICK r : /\ r = Append(s, e) /\ Len(r) = n + 1
               /\ \A i \in 1 .. n : r[i] = s[i]
               /\ r[n + 1] = e
  <2>1. /\ Len(Append(s, e)) = Len(s) + 1
        /\ \A i \in 1 .. Len(s) : Append(s, e)[i] = s[i]
        /\ Append(s, e)[Len(s) + 1] = e
    BY SeqPush
  <2> QED BY <1>1, <2>1
<1>3. ASSUME NEW i \in 1 .. n + 1 PROVE r[i] \in U
  <2>1. CASE i \in 1 .. n
    BY <1>1, <1>2, <2>1 DEF Within
  <2>2. CASE i = n + 1
    BY <1>2, <2>2
  <2> QED BY <2>1, <2>2
<1>4. Within(r, U)
  BY <1>2, <1>3 DEF Within
<1> QED BY <1>2, <1>4

LEMMA WithinDrop ==
    ASSUME NEW s, IsSeq(s), NEW U, Within(s, U), NEW k \in 0 .. Len(s), NEW r,
           Len(r) = Len(s) - k,
           \A i \in 1 .. Len(s) - k : r[i] = s[k + i]
    PROVE  Within(r, U)
<1>1. Len(s) \in Nat
  BY SeqDrop
<1>2. ASSUME NEW i \in 1 .. Len(s) - k PROVE r[i] \in U
  <2>1. k + i \in 1 .. Len(s) /\ r[i] = s[k + i]
    BY <1>1
  <2> QED BY <2>1 DEF Within
<1> QED BY <1>2 DEF Within

\* pop_longest_front picks one of the six.
LEMMA LongestNamed ==
    ASSUME NEW q, \A n \in SeriesName : Len(q[n]) \in Nat
    PROVE  longest(q) \in SeriesName
<1> DEFINE e(i) == evictable(q, SeriesOrder[i])
           A    == {i \in 1 .. 6 : \A j \in 1 .. 6 : e(i) >= e(j)}
<1>1. \A i \in 1 .. 6 : e(i) \in Nat
  <2> SUFFICES ASSUME NEW i \in 1 .. 6 PROVE e(i) \in Nat
    OBVIOUS
  <2>1. SeriesOrder[i] \in SeriesName
    BY DEF SeriesName
  <2>2. keep_min(SeriesOrder[i]) \in {0, 1}
    BY DEF keep_min
  <2>3. Len(q[SeriesOrder[i]]) \in Nat
    BY <2>1
  <2> QED BY <2>2, <2>3 DEF evictable, saturating_sub
<1>2. A # {}
  <2>1. PICK e1 \in Nat, e2 \in Nat, e3 \in Nat, e4 \in Nat, e5 \in Nat, e6 \in Nat :
           e1 = e(1) /\ e2 = e(2) /\ e3 = e(3) /\ e4 = e(4) /\ e5 = e(5) /\ e6 = e(6)
    <3> HIDE DEF e
    <3>1. e(1) \in Nat /\ e(2) \in Nat /\ e(3) \in Nat /\ e(4) \in Nat /\ e(5) \in Nat /\ e(6) \in Nat
      BY <1>1
    <3> QED BY <3>1, Zenon
  <2> HIDE DEF e
  <2>2. \A j \in 1 .. 6 : e(j) \in {e1, e2, e3, e4, e5, e6}
    BY <2>1, SMTT(30)
  <2>3. PICK m \in {e1, e2, e3, e4, e5, e6} :
           m >= e1 /\ m >= e2 /\ m >= e3 /\ m >= e4 /\ m >= e5 /\ m >= e6
    OBVIOUS
  <2>4. \A j \in 1 .. 6 : m >= e(j)
    BY <2>2, <2>3
  <2>5. PICK i \in 1 .. 6 : e(i) = m
    BY <2>1, <2>3
  <2> QED BY <2>4, <2>5
<1>3. Max(A) \in 1 .. 6
  <2>1. A \subseteq 1 .. 6
    OBVIOUS
  <2> HIDE DEF A
  <2> QED BY <1>2, <2>1, GreatestIndex
<1>4. longest(q) = SeriesOrder[Max(A)]
  BY DEF longest
<1> QED BY <1>3, <1>4 DEF SeriesName

\* r is the slot s with one series and the count replaced.
SeriesReplaced(s, r, n, x, c) ==
    /\ DOMAIN r = DOMAIN s /\ DOMAIN r.buf = DOMAIN s.buf /\ DOMAIN r.buf.q = DOMAIN s.buf.q
    /\ r.collected = c /\ r.overflowed = s.overflowed
    /\ r.buf.metrics = s.buf.metrics /\ r.buf.srtt = s.buf.srtt /\ r.buf.unwrap = s.buf.unwrap
    /\ r.buf.q[n] = x
    /\ \A o \in SeriesName \ {n} : r.buf.q[o] = s.buf.q[o]

LEMMA ReplaceTyped ==
    ASSUME NEW s, NEW r, NEW n \in SeriesName, NEW x, NEW c, SeriesReplaced(s, r, n, x, c),
           Typed(s.buf), n \in DetailSeries => Within(x, Sample(n))
    PROVE  Typed(r.buf)
<1>1. \A o \in DetailSeries : o \in SeriesName
  BY SixSeries DEF DetailSeries
<1>2. ASSUME NEW o \in DetailSeries PROVE Within(r.buf.q[o], Sample(o))
  BY <1>1 DEF SeriesReplaced, Typed
<1> QED BY <1>2 DEF SeriesReplaced, Typed

LEMMA ReplaceSeries ==
    ASSUME NEW s, DOMAIN s = {"buf", "collected", "overflowed"}, BufShape(s.buf),
           NEW n \in SeriesName, NEW x, IsSeq(x), NEW c, NEW r, SeriesReplaced(s, r, n, x, c),
           n \in DetailSeries => Within(x, Sample(n))
    PROVE  /\ DOMAIN r = {"buf", "collected", "overflowed"}
           /\ BufShape(r.buf)
           /\ retained(r.buf) = retained(s.buf) - Len(s.buf.q[n]) + Len(x)
<1>1. DOMAIN r = {"buf", "collected", "overflowed"}
  BY DEF SeriesReplaced
<1>2. BufShape(r.buf)
  <2>1. Typed(r.buf)
    BY ReplaceTyped DEF BufShape
  <2> QED BY <2>1 DEF BufShape, SeriesReplaced
<1>3. retained(r.buf) = retained(s.buf) - Len(s.buf.q[n]) + Len(r.buf.q[n])
  <2>1. \A o \in SeriesName \ {n} : Len(r.buf.q[o]) = Len(s.buf.q[o])
    BY DEF SeriesReplaced
  <2> QED BY <1>2, <2>1, RetainedCount, ZenonT(40)
<1> QED BY <1>1, <1>2, <1>3 DEF SeriesReplaced

\* The backstop takes one counted sample, or none; never the newest state sample.
LEMMA EvictOldest ==
    ASSUME NEW s, DOMAIN s = {"buf", "collected", "overflowed"}, BufShape(s.buf),
           NEW rest \in Nat, s.collected = rest + retained(s.buf), NEW T
    PROVE  LET r == evict_oldest_global(s)
           IN  /\ DOMAIN r = {"buf", "collected", "overflowed"}
               /\ BufShape(r.buf)
               /\ r.collected = rest + retained(r.buf)
               /\ r.overflowed = s.overflowed
               /\ Kept(s, r, T)
<1> DEFINE q == s.buf.q
           n == longest(q)
           c == saturating_sub(s.collected, 1)
           r == [s EXCEPT !.buf.q[n] = Tail(q[n]), !.collected = c]
<1>1. CASE evictable(q, n) = 0
  <2>1. evict_oldest_global(s) = s
    BY <1>1 DEF evict_oldest_global
  <2> QED BY <2>1 DEF Kept, OrderKept, StateKept
<1>2. CASE evictable(q, n) # 0
  <2>1. evict_oldest_global(s) = r
    BY <1>2 DEF evict_oldest_global
  <2>2. /\ retained(s.buf) \in Nat
        /\ \A o \in SeriesName : Len(q[o]) \in Nat /\ Len(q[o]) <= retained(s.buf) /\ IsSeq(q[o])
    BY RetainedCount DEF BufShape
  <2>3. n \in SeriesName
    BY <2>2, LongestNamed
  <2> HIDE DEF n
  <2>4. Len(q[n]) > keep_min(n) /\ Len(q[n]) > 0
    <3>1. keep_min(n) \in {0, 1}
      BY DEF keep_min
    <3>2. Len(q[n]) \in Nat
      BY <2>2, <2>3
    <3> QED BY <1>2, <3>1, <3>2 DEF evictable, saturating_sub
  <2>5. /\ IsSeq(Tail(q[n])) /\ Len(Tail(q[n])) = Len(q[n]) - 1
        /\ \A i \in 1 .. Len(q[n]) - 1 : Tail(q[n])[i] = q[n][i + 1]
    BY <2>2, <2>3, <2>4, SeqPop
  <2> HIDE DEF c
  <2>6. /\ DOMAIN r = {"buf", "collected", "overflowed"}
        /\ BufShape(r.buf)
        /\ r.collected = c /\ r.overflowed = s.overflowed
        /\ r.buf.q[n] = Tail(q[n])
        /\ \A o \in SeriesName \ {n} : r.buf.q[o] = q[o]
        /\ retained(r.buf) = retained(s.buf) - Len(q[n]) + Len(Tail(q[n]))
    <3>1. SeriesReplaced(s, r, n, Tail(q[n]), c)
      BY <2>3 DEF BufShape, SeriesReplaced
    <3> HIDE DEF r
    <3>3. ASSUME n \in DetailSeries PROVE Within(Tail(q[n]), Sample(n))
      <4>1. 1 \in 0 .. Len(q[n]) /\ \A i \in 1 .. Len(q[n]) - 1 : Tail(q[n])[i] = q[n][1 + i]
        BY <2>2, <2>3, <2>4, <2>5
      <4>2. IsSeq(q[n]) /\ Within(q[n], Sample(n)) /\ Len(Tail(q[n])) = Len(q[n]) - 1
        BY <2>2, <2>3, <2>5, <3>3 DEF BufShape, Typed
      <4> QED BY <4>1, <4>2, WithinDrop, Zenon
    <3>2. /\ DOMAIN r = {"buf", "collected", "overflowed"}
          /\ BufShape(r.buf)
          /\ retained(r.buf) = retained(s.buf) - Len(q[n]) + Len(Tail(q[n]))
      <4> HIDE DEF q
      <4>1. PICK x : x = Tail(q[n])
        OBVIOUS
      <4>2. /\ IsSeq(x) /\ SeriesReplaced(s, r, n, x, c)
            /\ n \in DetailSeries => Within(x, Sample(n))
        BY <2>5, <3>1, <3>3, <4>1
      <4>3. /\ DOMAIN r = {"buf", "collected", "overflowed"}
            /\ BufShape(r.buf)
            /\ retained(r.buf) = retained(s.buf) - Len(s.buf.q[n]) + Len(x)
        BY ONLY <2>3, <4>2, ReplaceSeries, DOMAIN s = {"buf", "collected", "overflowed"},
                BufShape(s.buf), Zenon
      <4> QED BY <4>1, <4>3 DEF q
    <3> QED BY <3>1, <3>2 DEF SeriesReplaced
  <2> HIDE DEF r
  <2>7. r.collected = rest + retained(r.buf)
    <3>1. PICK k \in Nat, l \in Nat : k = retained(s.buf) /\ l = Len(q[n])
      BY <2>2, <2>3
    <3>2. l > 0 /\ l <= k /\ retained(r.buf) = k - l + (l - 1) /\ s.collected = rest + k
      BY <2>2, <2>3, <2>4, <2>5, <2>6, <3>1
    <3>3. c = (rest + k) - 1
      BY <3>2 DEF c, saturating_sub
    <3> QED BY <2>6, <3>2, <3>3
  <2>8. ASSUME NEW o \in SeriesName, SortedUpto(q[o], T) PROVE SortedUpto(r.buf.q[o], T)
    <3>1. CASE o = n
      <4>1. 1 \in 0 .. Len(q[n]) /\ \A i \in 1 .. Len(q[n]) - 1 : Tail(q[n])[i] = q[n][1 + i]
        BY <2>2, <2>3, <2>4, <2>5
      <4>2. IsSeq(q[n]) /\ SortedUpto(q[n], T) /\ Len(Tail(q[n])) = Len(q[n]) - 1
        BY <2>2, <2>3, <2>5, <2>8, <3>1
      <4>3. SortedUpto(Tail(q[n]), T)
        BY <4>1, <4>2, SortedDrop, Zenon
      <4> QED BY <2>6, <3>1, <4>3
    <3>2. CASE o # n
      BY <2>6, <2>8, <3>2
    <3> QED BY <3>1, <3>2
  <2>9. StateKept(s, r)
    <3>1. "states" \in SeriesName
      BY SixSeries
    <3>2. CASE n = "states"
      <4>1. Len(q[n]) > 1
        BY <2>4, <3>2 DEF keep_min
      <4>2. /\ Len(Tail(q[n])) > 0
            /\ Tail(q[n])[Len(q[n]) - 1] = q[n][Len(q[n])]
        <5>1. PICK l \in Nat : l = Len(q[n])
          BY <2>2, <2>3
        <5>2. l - 1 \in 1 .. l - 1 /\ (l - 1) + 1 = l /\ l - 1 > 0
          BY <4>1, <5>1
        <5> QED BY <2>5, <5>1, <5>2
      <4>3. \A U : Within(q[n], U) => Within(Tail(q[n]), U)
        BY <2>2, <2>3, <2>5 DEF Within
      <4> QED BY <2>5, <2>6, <3>2, <4>2, <4>3 DEF StateKept, Last
    <3>3. CASE n # "states"
      BY <2>6, <3>1, <3>3 DEF StateKept
    <3> QED BY <3>2, <3>3
  <2>10. Kept(s, r, T)
    BY <2>6, <2>8, <2>9 DEF Kept, OrderKept
  <2> QED BY <2>1, <2>6, <2>7, <2>10
<1> QED BY <1>1, <1>2

\* admit and push_back: what recording one sample does to a slot.
LEMMA RecordKeeps ==
    ASSUME NEW s, NEW rest \in Nat, SlotOK(s, rest), NEW n \in SeriesName, NEW sample,
           NEW T \in Nat, n \in DetailSeries => sample \in Sample(n)
    PROVE  LET r == record(s, n, sample)
           IN  /\ SlotOK(r, rest)
               /\ sample.t = T => OrderKept(s, r, T)
               /\ n # "states" => StateKept(s, r)
               /\ n = "states" /\ ~r.overflowed =>
                     Len(r.buf.q[n]) > 0 /\ Last(r.buf.q[n]) = sample
               /\ n = "states" => \A U :
                     sample \in U /\ Within(s.buf.q[n], U) => Within(r.buf.q[n], U)
               /\ s.overflowed => r.overflowed
<1>1. /\ DOMAIN s = {"buf", "collected", "overflowed"} /\ BufShape(s.buf)
      /\ s.collected = rest + retained(s.buf) /\ s.overflowed \in BOOLEAN
      /\ Ceiling(s.collected, s.overflowed)
  BY DEF SlotOK
<1>2. retained(s.buf) \in Nat /\ s.collected \in Nat
  BY <1>1, RetainedCount
<1>3. CASE s.overflowed
  <2>1. record(s, n, sample) = s
    BY <1>3 DEF record
  <2> QED BY <1>3, <2>1 DEF OrderKept, StateKept
<1>4. CASE ~s.overflowed /\ ~admitted(s)
  <2> DEFINE r == [s EXCEPT !.overflowed = TRUE]
  <2>1. record(s, n, sample) = r
    BY <1>4 DEF record, record_sample, admit
  <2>2. /\ DOMAIN r = {"buf", "collected", "overflowed"}
        /\ r.buf = s.buf /\ r.collected = s.collected /\ r.overflowed = TRUE
    BY <1>1
  <2> HIDE DEF r
  <2>3. ~Evicts /\ s.collected = MaxSamples
    BY <1>1, <1>2, <1>4, RetentionAssumption DEF admitted, Ceiling
  <2>4. SlotOK(r, rest)
    BY <1>1, <1>2, <2>2, <2>3 DEF SlotOK, Ceiling
  <2> QED BY <2>1, <2>2, <2>4 DEF OrderKept, StateKept
<1>5. CASE ~s.overflowed /\ admitted(s)
  <2> DEFINE room == IF s.collected >= MaxSamples THEN evict_oldest_global(s) ELSE s
             one  == [room EXCEPT !.collected = @ + 1]
             x    == Append(room.buf.q[n], sample)
             r    == [one EXCEPT !.buf.q[n] = Append(@, sample)]
  <2>1. record(s, n, sample) = r
    BY <1>5 DEF record, record_sample, admit
  <2>2. /\ DOMAIN room = {"buf", "collected", "overflowed"} /\ BufShape(room.buf)
        /\ room.collected = rest + retained(room.buf)
        /\ room.overflowed = s.overflowed
        /\ Kept(s, room, T)
        /\ s.collected < MaxSamples => room = s
    <3>1. CASE s.collected >= MaxSamples
      <4>1. room = evict_oldest_global(s) /\ ~(s.collected < MaxSamples)
        BY <1>2, <3>1, RetentionAssumption
      <4> QED BY <1>1, <4>1, EvictOldest
    <3>2. CASE ~(s.collected >= MaxSamples)
      BY <1>1, <3>2 DEF Kept, OrderKept, StateKept
    <3> QED BY <3>1, <3>2
  <2> HIDE DEF room
  <2>3. IsSeq(room.buf.q[n]) /\ retained(room.buf) \in Nat
    BY <2>2, RetainedCount DEF BufShape
  <2>4. /\ IsSeq(x) /\ Len(room.buf.q[n]) \in Nat /\ Len(x) = Len(room.buf.q[n]) + 1
        /\ Last(x) = sample
    BY <2>3, SeqPush
  <2>5. SeriesReplaced(room, r, n, x, room.collected + 1)
    <3>1. /\ DOMAIN one = {"buf", "collected", "overflowed"}
          /\ one.buf = room.buf /\ one.collected = room.collected + 1
          /\ one.overflowed = room.overflowed
      BY <2>2
    <3> HIDE DEF one
    <3> QED BY <2>2, <3>1 DEF BufShape, SeriesReplaced
  <2> HIDE DEF r, x
  <2>6. /\ DOMAIN r = {"buf", "collected", "overflowed"} /\ BufShape(r.buf)
        /\ retained(r.buf) = retained(room.buf) - Len(room.buf.q[n]) + Len(x)
    <3>1. PICK c : c = room.collected + 1
      OBVIOUS
    <3>4. ASSUME n \in DetailSeries PROVE Within(x, Sample(n))
      <4>1. Within(room.buf.q[n], Sample(n))
        BY <2>2, <3>4 DEF BufShape, Typed
      <4> QED BY <2>3, <3>4, <4>1, WithinPush DEF x
    <3>2. /\ IsSeq(x) /\ SeriesReplaced(room, r, n, x, c)
          /\ n \in DetailSeries => Within(x, Sample(n))
      BY <2>4, <2>5, <3>1, <3>4
    <3>3. DOMAIN room = {"buf", "collected", "overflowed"} /\ BufShape(room.buf)
      BY <2>2
    <3> QED BY ONLY <3>2, <3>3, ReplaceSeries, n \in SeriesName, Zenon
  <2>7. /\ r.collected = room.collected + 1 /\ r.overflowed = s.overflowed
        /\ r.buf.q[n] = x /\ \A o \in SeriesName \ {n} : r.buf.q[o] = room.buf.q[o]
    BY <2>2, <2>5 DEF SeriesReplaced
  <2>8. r.collected = rest + retained(r.buf)
    <3>1. PICK k \in Nat, l \in Nat : k = retained(room.buf) /\ l = Len(room.buf.q[n])
      BY <2>3, <2>4
    <3>2. retained(r.buf) = k - l + (l + 1) /\ r.collected = rest + k + 1
      BY <2>2, <2>4, <2>6, <2>7, <3>1
    <3> QED BY <3>2
  <2>9. Ceiling(r.collected, r.overflowed)
    <3>1. CASE Evicts
      BY <1>5, <2>7, <3>1 DEF Ceiling
    <3>2. CASE ~Evicts
      <4>1. s.collected < MaxSamples
        BY <1>5, <3>2 DEF admitted
      <4>2. r.collected = s.collected + 1
        BY <2>2, <2>7, <4>1
      <4> QED BY <1>2, <1>5, <2>7, <3>2, <4>1, <4>2, RetentionAssumption DEF Ceiling
    <3> QED BY <3>1, <3>2
  <2>10. SlotOK(r, rest)
    BY <1>1, <2>6, <2>7, <2>8, <2>9 DEF SlotOK
  <2>11. ASSUME sample.t = T PROVE OrderKept(s, r, T)
    <3>1. ASSUME NEW o \in SeriesName, SortedUpto(s.buf.q[o], T)
          PROVE  SortedUpto(r.buf.q[o], T)
      <4>1. SortedUpto(room.buf.q[o], T)
        BY <2>2, <3>1 DEF Kept, OrderKept
      <4>2. CASE o = n
        <5>1. SortedUpto(x, T)
          BY <2>3, <2>11, <4>1, <4>2, SortedPush DEF x
        <5> QED BY <2>7, <4>2, <5>1
      <4>3. CASE o # n
        BY <2>7, <4>1, <4>3
      <4> QED BY <4>2, <4>3
    <3> QED BY <1>5, <3>1 DEF OrderKept
  <2>12. ASSUME n # "states" PROVE StateKept(s, r)
    <3>1. "states" \in SeriesName
      BY SixSeries
    <3>2. r.buf.q["states"] = room.buf.q["states"]
      BY <2>7, <2>12, <3>1
    <3> QED BY <2>2, <3>2 DEF Kept, StateKept
  <2>13. Len(r.buf.q[n]) > 0 /\ Last(r.buf.q[n]) = sample
    BY <2>4, <2>7
  <2>14. ASSUME n = "states", NEW U, sample \in U, Within(s.buf.q[n], U)
         PROVE  Within(r.buf.q[n], U)
    <3>1. Within(room.buf.q[n], U)
      BY <2>2, <2>14 DEF Kept, StateKept
    <3>2. Within(x, U)
      BY <2>3, <2>14, <3>1, WithinPush DEF x
    <3> QED BY <2>7, <3>2
  <2> QED BY <1>5, <2>1, <2>10, <2>11, <2>12, <2>13, <2>14
<1> QED BY <1>1, <1>3, <1>4, <1>5

\* A collector that records outside the states series keeps all that is promised.
LEMMA RecordOther ==
    ASSUME NEW s, NEW rest \in Nat, SlotOK(s, rest), NEW n \in SeriesName, n # "states",
           NEW sample, sample.t \in Nat, n \in DetailSeries => sample \in Sample(n)
    PROVE  /\ SlotOK(record(s, n, sample), rest)
           /\ Kept(s, record(s, n, sample), sample.t)
<1> DEFINE r == record(s, n, sample)
<1>1. PICK T \in Nat : T = sample.t
  OBVIOUS
<1>2. /\ SlotOK(r, rest) /\ (sample.t = T => OrderKept(s, r, T)) /\ StateKept(s, r)
  BY RecordKeeps
<1> QED BY <1>1, <1>2 DEF Kept

-----------------------------------------------------------------------------
(***************************************************************************)
(* Folds.  FoldLeft works on the subsets of the domain; it amounts to one  *)
(* step per element, in order.                                             *)
(***************************************************************************)

\* The samples pts, recorded in order.
record_all(s, pts) == FoldLeft(LAMBDA acc, p : record(acc, "seq", p), s, pts)

LEMMA RecordInTurn ==
    ASSUME NEW base, NEW pts, IsSeq(pts)
    PROVE  \E acc : /\ acc[0] = base
                    /\ acc[Len(pts)] = record_all(base, pts)
                    /\ \A k \in 0 .. Len(pts) - 1 : acc[k + 1] = record(acc[k], "seq", pts[k + 1])
<1> DEFINE Body(g, s) == IF s = {} THEN base ELSE record(g[s \ {Max(s)}], "seq", pts[Max(s)])
           Folds(g, k) == g = [s \in SUBSET (1 .. k) |-> Body(g, s)]
           S == {k \in Nat : \E g : Folds(g, k)}
<1>0. PICK n \in Nat : n = Len(pts) /\ DOMAIN pts = 1 .. n
  BY LenProperties DEF IsSeq
<1>1. 0 \in S
  <2> DEFINE g == [s \in SUBSET (1 .. 0) |-> base]
  <2>1. \A s \in SUBSET (1 .. 0) : s = {}
    OBVIOUS
  <2>2. Folds(g, 0)
    BY <2>1
  <2> QED BY <2>2
<1>2. ASSUME NEW k \in Nat, k \in S PROVE k + 1 \in S
  <2>1. PICK g : Folds(g, k)
    BY <1>2
  <2> DEFINE h == [s \in SUBSET (1 .. k + 1) |->
                      IF k + 1 \in s THEN record(g[s \ {k + 1}], "seq", pts[k + 1]) ELSE g[s]]
  <2>2. ASSUME NEW s \in SUBSET (1 .. k + 1) PROVE h[s] = Body(h, s)
    <3>1. CASE k + 1 \in s
      <4>1. Max(s) = k + 1
        BY <3>1, LastIndex
      <4>2. s \ {k + 1} \in SUBSET (1 .. k + 1) /\ k + 1 \notin s \ {k + 1}
        OBVIOUS
      <4>3. h[s \ {k + 1}] = g[s \ {k + 1}]
        BY <4>2
      <4>4. h[s] = record(g[s \ {k + 1}], "seq", pts[k + 1])
        BY <3>1
      <4> HIDE DEF h
      <4> QED BY <3>1, <4>1, <4>3, <4>4
    <3>2. CASE k + 1 \notin s
      <4>1. s \in SUBSET (1 .. k)
        BY <3>2
      <4>2. h[s] = g[s] /\ g[s] = Body(g, s)
        BY <2>1, <3>2, <4>1
      <4>3. CASE s = {}
        BY <4>2, <4>3
      <4>4. CASE s # {}
        <5>1. s \ {Max(s)} \in SUBSET (1 .. k + 1) /\ k + 1 \notin s \ {Max(s)}
          BY <3>2
        <5>2. h[s \ {Max(s)}] = g[s \ {Max(s)}]
          BY <5>1
        <5> HIDE DEF h
        <5> QED BY <4>2, <4>4, <5>2
      <4> QED BY <4>3, <4>4
    <3> QED BY <3>1, <3>2
  <2>3. Folds(h, k + 1)
    <3>1. DOMAIN h = SUBSET (1 .. k + 1) /\ h = [s \in DOMAIN h |-> h[s]]
      OBVIOUS
    <3> HIDE DEF h, Body
    <3> QED BY <2>2, <3>1
  <2> HIDE DEF h, Folds
  <2> QED BY <2>3
<1>3. PICK fold : Folds(fold, n) /\ fold[1 .. n] = record_all(base, pts)
  <2>1. n \in S
    <3> HIDE DEF S
    <3> QED BY <1>1, <1>2, SetInduction
  <2> DEFINE fold == CHOOSE g : Folds(g, n)
  <2>2. record_all(base, pts) = fold[1 .. n]
    BY <1>0, Zenon DEF record_all, FoldLeft, MapThenFoldSet
  <2> HIDE DEF Folds
  <2>3. Folds(fold, n)
    BY <2>1
  <2> QED BY <2>2, <2>3
<1> DEFINE acc == [k \in 0 .. n |-> fold[1 .. k]]
<1>4. acc[0] = base
  <2>1. 1 .. 0 = {} /\ {} \in SUBSET (1 .. n) /\ 0 \in 0 .. n
    OBVIOUS
  <2> QED BY <1>3, <2>1
<1>5. ASSUME NEW k \in 0 .. n - 1 PROVE acc[k + 1] = record(acc[k], "seq", pts[k + 1])
  <2>1. /\ 1 .. k + 1 \in SUBSET (1 .. n) /\ 1 .. k + 1 # {} /\ k + 1 \in Nat
        /\ (1 .. k + 1) \ {k + 1} = 1 .. k /\ k \in 0 .. n /\ k + 1 \in 0 .. n
        /\ k + 1 \in 1 .. k + 1
    BY <1>0, NextPrefix
  <2>2. Max(1 .. k + 1) = k + 1
    BY <2>1, LastIndex
  <2>3. fold[1 .. k + 1] = Body(fold, 1 .. k + 1)
    BY <1>3, <2>1
  <2>4. fold[1 .. k + 1] = record(fold[1 .. k], "seq", pts[k + 1])
    BY <2>1, <2>2, <2>3
  <2> QED BY <2>1, <2>4
<1>6. acc[n] = record_all(base, pts)
  <2>1. n \in 0 .. n
    OBVIOUS
  <2> QED BY <1>3, <2>1
<1> QED BY <1>0, <1>4, <1>5, <1>6

\* The Sack points of the blocks whose left edges are pts, appended in order.
sack_points(base, d, pts, rest) == FoldLeft(LAMBDA acc, left : seq_point(acc, d, left, rest), base, pts)

LEMMA SackInTurn ==
    ASSUME NEW base, NEW pts, NEW d, NEW rest, IsSeq(pts)
    PROVE  \E acc : /\ acc[0] = base
                    /\ acc[Len(pts)] = sack_points(base, d, pts, rest)
                    /\ \A k \in 0 .. Len(pts) - 1 : acc[k + 1] = seq_point(acc[k], d, pts[k + 1], rest)
<1> DEFINE Body(g, s) == IF s = {} THEN base ELSE seq_point(g[s \ {Max(s)}], d, pts[Max(s)], rest)
           Folds(g, k) == g = [s \in SUBSET (1 .. k) |-> Body(g, s)]
           S == {k \in Nat : \E g : Folds(g, k)}
<1>0. PICK n \in Nat : n = Len(pts) /\ DOMAIN pts = 1 .. n
  BY LenProperties DEF IsSeq
<1>1. 0 \in S
  <2> DEFINE g == [s \in SUBSET (1 .. 0) |-> base]
  <2>1. \A s \in SUBSET (1 .. 0) : s = {}
    OBVIOUS
  <2>2. Folds(g, 0)
    BY <2>1
  <2> QED BY <2>2
<1>2. ASSUME NEW k \in Nat, k \in S PROVE k + 1 \in S
  <2>1. PICK g : Folds(g, k)
    BY <1>2
  <2> DEFINE h == [s \in SUBSET (1 .. k + 1) |->
                      IF k + 1 \in s THEN seq_point(g[s \ {k + 1}], d, pts[k + 1], rest) ELSE g[s]]
  <2>2. ASSUME NEW s \in SUBSET (1 .. k + 1) PROVE h[s] = Body(h, s)
    <3>1. CASE k + 1 \in s
      <4>1. Max(s) = k + 1
        BY <3>1, LastIndex
      <4>2. s \ {k + 1} \in SUBSET (1 .. k + 1) /\ k + 1 \notin s \ {k + 1}
        OBVIOUS
      <4>3. h[s \ {k + 1}] = g[s \ {k + 1}]
        BY <4>2
      <4>4. h[s] = seq_point(g[s \ {k + 1}], d, pts[k + 1], rest)
        BY <3>1
      <4> HIDE DEF h
      <4> QED BY <3>1, <4>1, <4>3, <4>4
    <3>2. CASE k + 1 \notin s
      <4>1. s \in SUBSET (1 .. k)
        BY <3>2
      <4>2. h[s] = g[s] /\ g[s] = Body(g, s)
        BY <2>1, <3>2, <4>1
      <4>3. CASE s = {}
        BY <4>2, <4>3
      <4>4. CASE s # {}
        <5>1. s \ {Max(s)} \in SUBSET (1 .. k + 1) /\ k + 1 \notin s \ {Max(s)}
          BY <3>2
        <5>2. h[s \ {Max(s)}] = g[s \ {Max(s)}]
          BY <5>1
        <5> HIDE DEF h
        <5> QED BY <4>2, <4>4, <5>2
      <4> QED BY <4>3, <4>4
    <3> QED BY <3>1, <3>2
  <2>3. Folds(h, k + 1)
    <3>1. DOMAIN h = SUBSET (1 .. k + 1) /\ h = [s \in DOMAIN h |-> h[s]]
      OBVIOUS
    <3> HIDE DEF h, Body
    <3> QED BY <2>2, <3>1
  <2> HIDE DEF h, Folds
  <2> QED BY <2>3
<1>3. PICK fold : Folds(fold, n) /\ fold[1 .. n] = sack_points(base, d, pts, rest)
  <2>1. n \in S
    <3> HIDE DEF S
    <3> QED BY <1>1, <1>2, SetInduction
  <2> DEFINE fold == CHOOSE g : Folds(g, n)
  <2>2. sack_points(base, d, pts, rest) = fold[1 .. n]
    BY <1>0, Zenon DEF sack_points, FoldLeft, MapThenFoldSet
  <2> HIDE DEF Folds
  <2>3. Folds(fold, n)
    BY <2>1
  <2> QED BY <2>2, <2>3
<1> DEFINE acc == [k \in 0 .. n |-> fold[1 .. k]]
<1>4. acc[0] = base
  <2>1. 1 .. 0 = {} /\ {} \in SUBSET (1 .. n) /\ 0 \in 0 .. n
    OBVIOUS
  <2> QED BY <1>3, <2>1
<1>5. ASSUME NEW k \in 0 .. n - 1 PROVE acc[k + 1] = seq_point(acc[k], d, pts[k + 1], rest)
  <2>1. /\ 1 .. k + 1 \in SUBSET (1 .. n) /\ 1 .. k + 1 # {} /\ k + 1 \in Nat
        /\ (1 .. k + 1) \ {k + 1} = 1 .. k /\ k \in 0 .. n /\ k + 1 \in 0 .. n
        /\ k + 1 \in 1 .. k + 1
    BY <1>0, NextPrefix
  <2>2. Max(1 .. k + 1) = k + 1
    BY <2>1, LastIndex
  <2>3. fold[1 .. k + 1] = Body(fold, 1 .. k + 1)
    BY <1>3, <2>1
  <2>4. fold[1 .. k + 1] = seq_point(fold[1 .. k], d, pts[k + 1], rest)
    BY <2>1, <2>2, <2>3
  <2> QED BY <2>1, <2>4
<1>6. acc[n] = sack_points(base, d, pts, rest)
  <2>1. n \in 0 .. n
    OBVIOUS
  <2> QED BY <1>3, <2>1
<1> QED BY <1>0, <1>4, <1>5, <1>6

-----------------------------------------------------------------------------
(***************************************************************************)
(* What observe derives has its type.                                      *)
(***************************************************************************)

\* The front of a queue is popped; what is left was in it.
LEMMA UncoveredTyped ==
    ASSUME NEW U, NEW s \in Seq(U), NEW ack
    PROVE  uncovered(s, ack) \in Seq(U)
<1> DEFINE I == {i \in 1 .. Len(s) : ~serial_le(s[i].end, ack)}
           k == IF I # {} THEN Min(I) ELSE 0
<1>1. uncovered(s, ack) = IF k = 0 THEN <<>> ELSE SubSeq(s, k, Len(s))
  BY Zenon DEF uncovered, PopFrontWhile, SelectInSeq
<1>2. CASE I = {}
  BY <1>1, <1>2
<1>3. CASE I # {}
  <2>1. I \subseteq Nat
    OBVIOUS
  <2>2. k \in 1 .. Len(s)
    BY <1>3, <2>1, MinIsLeast
  <2> HIDE DEF k
  <2> QED BY <1>1, <2>2, SubSeqProperties
<1> QED BY <1>2, <1>3

LEMMA PrunedTyped ==
    ASSUME NEW U, NEW s \in Seq(U), NEW max_ts
    PROVE  pruned_window(s, max_ts) \in Seq(U)
<1> DEFINE I == {i \in 1 .. Len(s) : ~ages_out(s[i], max_ts)}
           k == IF I # {} THEN Min(I) ELSE 0
<1>1. pruned_window(s, max_ts) = IF k = 0 THEN <<>> ELSE SubSeq(s, k, Len(s))
  BY Zenon DEF pruned_window, PopFrontWhile, SelectInSeq
<1>2. CASE I = {}
  BY <1>1, <1>2
<1>3. CASE I # {}
  <2>1. I \subseteq Nat
    OBVIOUS
  <2>2. k \in 1 .. Len(s)
    BY <1>3, <2>1, MinIsLeast
  <2> HIDE DEF k
  <2> QED BY <1>1, <2>2, SubSeqProperties
<1> QED BY <1>2, <1>3

\* A segment's fields, and the number after its last.
LEMMA SegmentFields ==
    ASSUME NEW seg \in Segment
    PROVE  /\ seg.ts \in Nat /\ seg.seq \in TcpSeq /\ seg.ack \in TcpSeq /\ seg.payload_len \in Nat
           /\ seg.sack \in Seq(TcpSeq)
           /\ seq_end(seg) \in Nat
<1>1. /\ seg.ts \in Nat /\ seg.seq \in TcpSeq /\ seg.ack \in TcpSeq /\ seg.payload_len \in Nat
      /\ seg.sack \in Seq(TcpSeq)
  BY DEF Segment
<1>2. \A a, b \in Nat : wrapping_add(a, b) \in Nat
  BY HalfAssumption DEF wrapping_add, Modulus
<1>3. seg.seq \in Nat
  BY <1>1, HalfAssumption DEF TcpSeq
<1>4. phantom(seg.flags) \in Nat
  BY DEF phantom
<1>5. wrapping_add(seg.seq, seg.payload_len) \in Nat
  BY <1>1, <1>2, <1>3
<1> QED BY <1>1, <1>2, <1>4, <1>5 DEF seq_end

\* window_push_and_evict
LEMMA WindowTyped ==
    ASSUME NEW ds \in DirState, NEW seg \in Segment, NEW r \in BOOLEAN
    PROVE  window_push_and_evict(ds, seg, r) \in DirState
<1> DEFINE data    == seg.payload_len > 0
           e       == [ts |-> seg.ts, len |-> seg.payload_len, retransmit |-> r]
           pushed  == IF data THEN Append(ds.tput, e) ELSE ds.tput
           max_ts  == IF ~data THEN ds.tput_max_ts
                      ELSE IF ds.tput_max_ts = None THEN seg.ts
                      ELSE later(ds.tput_max_ts, seg.ts)
           left    == IF ThroughputWindow = 0 \/ max_ts = None THEN pushed
                      ELSE pruned_window(pushed, max_ts)
<1>1. window_push_and_evict(ds, seg, r) = [ds EXCEPT !.tput_max_ts = max_ts, !.tput = left]
  BY Zenon DEF window_push_and_evict
<1>2. seg.ts \in Nat /\ seg.payload_len \in Nat
  BY SegmentFields
<1>3. e \in WindowEntry
  BY <1>2 DEF WindowEntry
<1>4. ds.tput \in Seq(WindowEntry) /\ ds.tput_max_ts \in Nat \cup {None}
  BY DEF DirState
<1> HIDE DEF e
<1>5. pushed \in Seq(WindowEntry)
  BY <1>3, <1>4, AppendProperties
<1>6. max_ts \in Nat \cup {None}
  BY <1>2, <1>4 DEF later, None
<1> HIDE DEF pushed, max_ts
<1>7. left \in Seq(WindowEntry)
  BY <1>5, PrunedTyped
<1> HIDE DEF left
<1> QED BY <1>1, <1>6, <1>7 DEF DirState

LEMMA SerialMaxNat ==
    ASSUME NEW a \in Nat \cup {None}, NEW b \in Nat
    PROVE  serial_max(a, b) \in Nat
BY DEF serial_max

\* Steps 1 to 5 for the sending direction.
LEMMA SenderTyped ==
    ASSUME NEW ds \in DirState, NEW seg \in Segment
    PROVE  sender_observes(ds, seg) \in DirState
<1> DEFINE data == seg.payload_len > 0
           a == IF ds.acked = None THEN seg.seq ELSE ds.acked
           s == serial_max(ds.snd_nxt, seq_end(seg))
           f == IF data THEN serial_max(ds.frontier, seq_end(seg)) ELSE ds.frontier
           l == IF data THEN seg.ts ELSE ds.last_data_ts
           p == pending_after(ds, seg)
           sent == [ds EXCEPT !.acked = a, !.snd_nxt = s, !.frontier = f,
                              !.last_data_ts = l, !.pending_rtt = p]
<1>1. sender_observes(ds, seg) = window_push_and_evict(sent, seg, is_retransmit(ds, seg))
  BY Zenon DEF sender_observes
<1>2. is_retransmit(ds, seg) \in BOOLEAN
  BY Zenon DEF is_retransmit
<1>3. /\ ds.acked \in TcpSeq \cup {None} /\ ds.snd_nxt \in Nat \cup {None}
      /\ ds.frontier \in Nat \cup {None} /\ ds.last_data_ts \in Nat \cup {None}
      /\ ds.pending_rtt \in Seq(Pending)
  BY DEF DirState
<1>4. a \in TcpSeq \cup {None} /\ l \in Nat \cup {None}
  BY <1>3, SegmentFields
<1>5. s \in Nat /\ f \in Nat \cup {None}
  BY <1>3, SegmentFields, SerialMaxNat
<1>6. p \in Seq(Pending)
  <2>1. [end |-> seq_end(seg), ts |-> seg.ts] \in Pending
    BY SegmentFields DEF Pending
  <2> QED BY <1>3, <2>1, AppendProperties DEF pending_after
<1> HIDE DEF a, s, f, l, p
<1>7. sent \in DirState
  BY <1>4, <1>5, <1>6 DEF DirState
<1> HIDE DEF sent
<1> QED BY <1>1, <1>2, <1>7, WindowTyped

\* Steps 1 and 4 for the acknowledged direction.
LEMMA PeerTyped ==
    ASSUME NEW ds \in DirState, NEW seg \in Segment
    PROVE  peer_acked(ds, seg) \in DirState
<1>1. seg.ack \in TcpSeq
  BY SegmentFields
<1>2. uncovered(ds.pending_rtt, seg.ack) \in Seq(Pending)
  <2>1. ds.pending_rtt \in Seq(Pending)
    BY DEF DirState
  <2> QED BY <2>1, UncoveredTyped
<1>3. PICK p \in Seq(Pending) : p = uncovered(ds.pending_rtt, seg.ack)
  BY <1>2
<1>4. peer_acked(ds, seg) = [ds EXCEPT !.acked = seg.ack, !.pending_rtt = p]
  BY <1>3, Zenon DEF peer_acked
<1> QED BY <1>1, <1>4 DEF DirState

\* MetricState::observe
LEMMA MetricsTyped ==
    ASSUME NEW m \in [Direction -> DirState], NEW seg \in Segment, NEW dir
    PROVE  metrics_after(m, seg, dir) \in [Direction -> DirState]
<1>1. ASSUME NEW d \in Direction
      PROVE  /\ sender_observes(m[d], seg) \in DirState
             /\ peer_acked(m[d], seg) \in DirState
             /\ m[d] \in DirState
  BY SenderTyped, PeerTyped
<1> QED BY <1>1 DEF metrics_after

LEMMA InFlightTyped ==
    ASSUME NEW m \in [Direction -> DirState], NEW d \in Direction
    PROVE  in_flight(m, d) \in Nat \cup {None}
<1>1. m[d].snd_nxt \in Nat \cup {None} /\ m[d].acked \in TcpSeq \cup {None}
  BY DEF DirState
<1>2. ASSUME NEW a \in TcpSeq, NEW s \in Nat PROVE outstanding(a, s) \in Nat
  BY HalfAssumption DEF outstanding, serial_diff, wrapping_sub, TcpSeq, Modulus
<1> QED BY <1>1, <1>2 DEF in_flight

\* The bytes of any entries of a window.
LEMMA BytesNat ==
    ASSUME NEW ws \in Seq(WindowEntry), NEW D, D \subseteq DOMAIN ws
    PROVE  bytes_of(ws, D) \in Nat
<1>1. IsFiniteSet(D)
  <2>1. DOMAIN ws = 1 .. Len(ws) /\ Len(ws) \in Nat
    BY LenProperties
  <2>2. IsFiniteSet(1 .. Len(ws))
    BY <2>1, FS_Interval
  <2> QED BY <2>1, <2>2, FS_Subset
<1>2. \A i \in D : ws[i].len \in Nat
  <2>1. \A i \in D : ws[i] \in WindowEntry
    BY ElementOfSeq, LenProperties
  <2> QED BY <2>1 DEF WindowEntry
<1>3. TotalIs(sum_len(ws, D), lens(ws, D), D)
  BY <1>1, <1>2, LensTotal
<1>4. bytes_of(ws, D) = sum_len(ws, D)
  BY Zenon DEF bytes_of, sum_len
<1> QED BY <1>3, <1>4, TotalNat

LEMMA RatesTyped ==
    ASSUME NEW m \in [Direction -> DirState], NEW d \in Direction, NEW t
    PROVE  throughput_at(m, d, t) \in Rate
<1> DEFINE ws == m[d].tput
           W  == in_window(ws, t)
           G  == {i \in W : ~ws[i].retransmit}
<1>1. ws \in Seq(WindowEntry)
  BY DEF DirState
<1>2. W \subseteq DOMAIN ws /\ G \subseteq DOMAIN ws
  BY DEF in_window
<1>3. throughput_at(m, d, t) = IF ThroughputWindow = 0 THEN [throughput |-> 0, goodput |-> 0]
                               ELSE [throughput |-> scale_bps(bytes_of(ws, W)),
                                     goodput    |-> scale_bps(bytes_of(ws, G))]
  BY Zenon DEF throughput_at
<1> HIDE DEF ws, W, G
<1>4. bytes_of(ws, W) \in Nat /\ bytes_of(ws, G) \in Nat
  BY <1>1, <1>2, BytesNat
<1>5. ASSUME ThroughputWindow # 0, NEW b \in Nat PROVE scale_bps(b) \in Nat
  <2>1. PICK w \in Nat \ {0}, c \in Nat : w = ThroughputWindow /\ c = BpsScale
    BY <1>5, MetricsAssumption
  <2>2. PICK x \in Nat : x = b * c
    OBVIOUS
  <2>3. x \div w \in Nat
    OBVIOUS
  <2> QED BY <2>1, <2>2, <2>3 DEF scale_bps
<1> QED BY <1>3, <1>4, <1>5 DEF Rate

\* The RTT of a sample.
LEMMA RttTyped ==
    ASSUME NEW m \in [Direction -> DirState], NEW seg \in Segment, NEW dir
    PROVE  metric_sample(m, seg, dir).rtt \in Nat \cup {None}
<1> DEFINE o == dir_opposite(dir)
<1>1. o \in Direction
  BY DEF dir_opposite, Direction
<1>2. PICK p \in Seq(Pending) : p = m[o].pending_rtt
  BY <1>1 DEF DirState
<1>3. rtt_of(m[o], seg) \in Nat \cup {None}
  <2>1. CASE p = <<>>
    BY <1>2, <2>1 DEF rtt_of
  <2>2. CASE p # <<>>
    <3>1. Head(p) \in Pending
      BY <2>2, HeadTailProperties
    <3>2. Head(p).ts \in Nat /\ seg.ts \in Nat
      BY <3>1, SegmentFields DEF Pending
    <3>3. saturating_sub(seg.ts, Head(p).ts) \in Nat
      BY <3>2 DEF saturating_sub
    <3> QED BY <1>2, <3>3 DEF rtt_of
  <2> QED BY <2>1, <2>2
<1>4. metric_sample(m, seg, dir).rtt =
         IF ack_advances(m, seg, dir) THEN rtt_of(m[dir_opposite(dir)], seg) ELSE None
  BY DEF metric_sample
<1> QED BY <1>3, <1>4

-----------------------------------------------------------------------------
(***************************************************************************)
(* The collectors.                                                         *)
(***************************************************************************)

\* SeqUnwrap
LEMMA UnwrapTyped ==
    ASSUME NEW u \in Unwrap, NEW seq \in TcpSeq
    PROVE  unwrap_offset(u, seq) \in Int /\ unwrap_advance(u, seq) \in Unwrap
<1>1. u.seq \in TcpSeq \cup {None} /\ u.rel \in Int
  BY DEF Unwrap
<1>2. \A a, b \in TcpSeq : serial_diff(a, b) \in Int
  BY HalfAssumption DEF serial_diff, wrapping_sub, TcpSeq, Modulus
<1>3. unwrap_offset(u, seq) \in Int
  <2>1. CASE u.seq = None
    BY <1>1, <2>1 DEF unwrap_offset
  <2>2. CASE u.seq \in TcpSeq
    <3>1. PICK d \in Int, e \in Int : d = serial_diff(seq, u.seq) /\ e = serial_diff(u.seq, seq)
      BY <1>2, <2>2
    <3> QED BY <1>1, <3>1 DEF unwrap_offset
  <2> QED BY <1>1, <2>1, <2>2
<1> QED BY <1>3 DEF unwrap_advance, Unwrap

\* The points and frontiers of push_seq_points at time T.
PointsOK(a, T) ==
    /\ IsSeq(a.points) /\ \A i \in 1 .. Len(a.points) : a.points[i].t = T
    /\ a.unwrap \in [Direction -> Unwrap] /\ Within(a.points, SeqSample)

PointRest == [t : Nat, len : Nat, kind : {"data", "out_of_order", "sack", "retransmit"}]

LEMMA SeqPointTyped ==
    ASSUME NEW a, NEW T, PointsOK(a, T), NEW d \in Direction, NEW seq \in TcpSeq,
           NEW rest \in PointRest, rest.t = T
    PROVE  PointsOK(seq_point(a, d, seq, rest), T)
<1> DEFINE r == seq_point(a, d, seq, rest)
           e == [t |-> rest.t, dir |-> d, rel |-> unwrap_offset(a.unwrap[d], seq),
                 len |-> rest.len, kind |-> rest.kind]
<1>1. /\ r.unwrap = [a.unwrap EXCEPT ![d] = unwrap_advance(@, seq)]
      /\ r.points = Append(a.points, e)
  BY DEF seq_point
<1>2. e.t = T
  OBVIOUS
<1> HIDE DEF r
<1>3. PICK p : p = a.points /\ IsSeq(p) /\ \A i \in 1 .. Len(p) : p[i].t = T
  BY DEF PointsOK
<1>4. IsSeq(r.points) /\ \A i \in 1 .. Len(r.points) : r.points[i].t = T
  <2> HIDE DEF e
  <2>1. PICK n \in Nat : n = Len(p)
    BY <1>3, SeqPush
  <2>2. PICK z : z = e
    OBVIOUS
  <2>3. /\ IsSeq(Append(p, z)) /\ Len(Append(p, z)) = Len(p) + 1
        /\ \A i \in 1 .. Len(p) : Append(p, z)[i] = p[i]
        /\ Append(p, z)[Len(p) + 1] = z
    BY <1>3, SeqPush
  <2>4. PICK w : w = Append(p, z)
    OBVIOUS
  <2>5. /\ IsSeq(w) /\ Len(w) = n + 1
        /\ \A i \in 1 .. n : w[i] = p[i]
        /\ w[n + 1] = z
    BY <2>1, <2>3, <2>4
  <2>6. \A i \in 1 .. n + 1 : w[i].t = T
    BY <1>2, <1>3, <2>1, <2>2, <2>5
  <2> QED BY <1>1, <1>3, <2>2, <2>4, <2>5, <2>6
<1>5. r.unwrap \in [Direction -> Unwrap] /\ Within(r.points, SeqSample)
  <2>1. a.unwrap \in [Direction -> Unwrap] /\ a.unwrap[d] \in Unwrap /\ Within(p, SeqSample)
    BY <1>3 DEF PointsOK
  <2>2. PICK o \in Int, w \in Unwrap : /\ o = unwrap_offset(a.unwrap[d], seq)
                                       /\ w = unwrap_advance(a.unwrap[d], seq)
    BY <2>1, UnwrapTyped
  <2>3. e \in SeqSample
    BY <2>2 DEF SeqSample, PointRest
  <2> HIDE DEF e
  <2>4. Within(Append(p, e), SeqSample)
    BY <1>3, <2>1, <2>3, WithinPush
  <2>5. r.unwrap \in [Direction -> Unwrap]
    BY <1>1, <2>1, <2>2
  <2> QED BY <1>1, <1>3, <2>4, <2>5
<1> QED BY <1>4, <1>5 DEF r, PointsOK

\* Every point that a segment yields carries the segment's timestamp.
LEMMA PointsInTime ==
    ASSUME NEW u \in [Direction -> Unwrap], NEW seg \in Segment, NEW dir \in Direction, NEW sample
    PROVE  PointsOK(push_seq_points(u, seg, dir, sample), seg.ts)
<1> DEFINE none == [unwrap |-> u, points |-> <<>>]
           kind == IF sample.retransmit THEN "retransmit"
                   ELSE IF sample.out_of_order THEN "out_of_order" ELSE "data"
           drest == [t |-> seg.ts, len |-> seg.payload_len, kind |-> kind]
           data == IF seg.payload_len = 0 THEN none ELSE seq_point(none, dir, seg.seq, drest)
           rest == [t |-> seg.ts, len |-> 0, kind |-> "sack"]
           d    == dir_opposite(dir)
           OK(a) == PointsOK(a, seg.ts)
<1>1. push_seq_points(u, seg, dir, sample) = sack_points(data, d, seg.sack, rest)
  BY Zenon DEF push_seq_points, sack_points
<1>2. /\ seg.ts \in Nat /\ seg.seq \in TcpSeq /\ seg.payload_len \in Nat
      /\ seg.sack \in Seq(TcpSeq)
  BY SegmentFields
<1>3. drest \in PointRest /\ rest \in PointRest /\ drest.t = seg.ts /\ rest.t = seg.ts
  BY <1>2 DEF PointRest
<1>4. OK(none)
  <2>1. IsSeq(<<>>) /\ Len(<<>>) = 0
    BY DEF IsSeq
  <2> QED BY <2>1 DEF PointsOK, Within
<1>5. d \in Direction
  BY DEF dir_opposite, Direction
<1> HIDE DEF drest, rest, none, d
<1>6. OK(data)
  BY <1>2, <1>3, <1>4, SeqPointTyped
<1> HIDE DEF data
<1>7. IsSeq(seg.sack)
  BY <1>2 DEF IsSeq
<1>8. PICK n \in Nat : n = Len(seg.sack) /\ \A k \in 1 .. n : seg.sack[k] \in TcpSeq
  BY <1>2, LenProperties, ElementOfSeq
<1>9. PICK acc : /\ acc[0] = data
                 /\ acc[Len(seg.sack)] = sack_points(data, d, seg.sack, rest)
                 /\ \A k \in 0 .. Len(seg.sack) - 1 :
                       acc[k + 1] = seq_point(acc[k], d, seg.sack[k + 1], rest)
  <2>1. PICK base, pts, e, r : base = data /\ pts = seg.sack /\ e = d /\ r = rest
    OBVIOUS
  <2>2. IsSeq(pts)
    BY <1>7, <2>1
  <2>3. \E acc : /\ acc[0] = base
                 /\ acc[Len(pts)] = sack_points(base, e, pts, r)
                 /\ \A k \in 0 .. Len(pts) - 1 : acc[k + 1] = seq_point(acc[k], e, pts[k + 1], r)
    BY <2>2, SackInTurn
  <2> QED BY <2>1, <2>3
<1> DEFINE S == {k \in Nat : k <= n => OK(acc[k])}
<1>10. 0 \in S
  BY <1>6, <1>9
<1>11. ASSUME NEW k \in Nat, k \in S PROVE k + 1 \in S
  <2> SUFFICES ASSUME k + 1 <= n PROVE OK(acc[k + 1])
    OBVIOUS
  <2>1. k \in 0 .. n - 1 /\ k <= n /\ k + 1 \in 1 .. n
    OBVIOUS
  <2>2. acc[k + 1] = seq_point(acc[k], d, seg.sack[k + 1], rest) /\ seg.sack[k + 1] \in TcpSeq
    BY <1>8, <1>9, <2>1
  <2>3. OK(acc[k])
    BY <1>11, <2>1
  <2> QED BY <1>3, <1>5, <2>2, <2>3, SeqPointTyped
<1> HIDE DEF S
<1>12. n \in S
  BY <1>10, <1>11, SetInduction
<1>13. OK(push_seq_points(u, seg, dir, sample))
  BY <1>1, <1>8, <1>9, <1>12 DEF S
<1> QED BY <1>13

\* What a collector promises of the slot r it makes of s, at time T.
Collects(s, r, rest, T) == SlotOK(r, rest) /\ Kept(s, r, T)

LEMMA CollectsTransitive ==
    ASSUME NEW a, NEW b, NEW c, NEW rest, NEW T, Collects(a, b, rest, T), Collects(b, c, rest, T)
    PROVE  Collects(a, c, rest, T)
BY KeptTransitive DEF Collects

\* The derivation state is no concern of the samples.
SameSamples(s, r) ==
    /\ DOMAIN r = DOMAIN s /\ DOMAIN r.buf = DOMAIN s.buf /\ r.buf.q = s.buf.q
    /\ r.collected = s.collected /\ r.overflowed = s.overflowed

LEMMA SameSamplesCollects ==
    ASSUME NEW s, NEW rest, SlotOK(s, rest), NEW r, SameSamples(s, r), Typed(r.buf), NEW T
    PROVE  Collects(s, r, rest, T)
<1>1. BufShape(r.buf) /\ retained(r.buf) = retained(s.buf)
  BY DEF SlotOK, SameSamples, BufShape, retained
<1>2. SlotOK(r, rest)
  BY <1>1 DEF SlotOK, SameSamples
<1>3. Kept(s, r, T)
  BY DEF SameSamples, Kept, OrderKept, StateKept
<1> QED BY <1>2, <1>3 DEF Collects

LEMMA SlotCollects ==
    ASSUME NEW s, NEW rest, SlotOK(s, rest), NEW T
    PROVE  Collects(s, s, rest, T)
BY SameSamplesCollects DEF SameSamples, SlotOK, BufShape

LEMMA RecordCollects ==
    ASSUME NEW s, NEW rest \in Nat, SlotOK(s, rest), NEW n \in SeriesName, n # "states",
           NEW sample, NEW T \in Nat, sample.t = T, n \in DetailSeries => sample \in Sample(n)
    PROVE  Collects(s, record(s, n, sample), rest, T)
<1>1. sample.t \in Nat
  OBVIOUS
<1>2. SlotOK(record(s, n, sample), rest) /\ Kept(s, record(s, n, sample), sample.t)
  BY <1>1, RecordOther
<1> QED BY <1>2 DEF Collects

\* collect_seq_points
LEMMA SeqCollects ==
    ASSUME NEW s, NEW rest \in Nat, SlotOK(s, rest), NEW seg \in Segment,
           NEW dir \in Direction, NEW sample
    PROVE  Collects(s, collect_seq_points(s, seg, dir, sample), rest, seg.ts)
<1> DEFINE r   == collect_seq_points(s, seg, dir, sample)
           out == push_seq_points(s.buf.unwrap, seg, dir, sample)
           s0  == [s EXCEPT !.buf.unwrap = out.unwrap]
           pts == out.points
<1>1. PICK T \in Nat : T = seg.ts
  BY DEF Segment
<1>2. CASE s.overflowed \/ ~CollectSeq
  <2>1. r = s
    BY <1>2 DEF collect_seq_points
  <2> QED BY <2>1, SlotCollects
<1>3. CASE ~(s.overflowed \/ ~CollectSeq)
  <2>1. r = record_all(s0, pts)
    BY <1>3, Zenon DEF collect_seq_points, record_all
  <2>2. /\ IsSeq(pts) /\ \A i \in 1 .. Len(pts) : pts[i].t = seg.ts
        /\ out.unwrap \in [Direction -> Unwrap] /\ Within(pts, SeqSample)
    <3>1. s.buf.unwrap \in [Direction -> Unwrap]
      BY DEF SlotOK, BufShape, Typed
    <3>2. PointsOK(out, seg.ts)
      BY <3>1, PointsInTime
    <3> QED BY <3>2 DEF PointsOK
  <2>3. /\ SameSamples(s, s0) /\ s0.buf.unwrap = out.unwrap
        /\ s0.buf.metrics = s.buf.metrics /\ s0.buf.srtt = s.buf.srtt
    BY DEF SameSamples, SlotOK, BufShape
  <2> HIDE DEF s0, pts, r, out
  <2>11. Typed(s0.buf)
    BY <2>2, <2>3 DEF Typed, SameSamples, SlotOK, BufShape
  <2>4. Collects(s, s0, rest, T)
    BY <2>3, <2>11, SameSamplesCollects
  <2>5. PICK n \in Nat : n = Len(pts)
    BY <2>2, SeqPush
  <2>6. PICK acc : /\ acc[0] = s0
                   /\ acc[Len(pts)] = record_all(s0, pts)
                   /\ \A k \in 0 .. Len(pts) - 1 : acc[k + 1] = record(acc[k], "seq", pts[k + 1])
    BY <2>2, RecordInTurn
  <2> DEFINE S == {k \in Nat : k <= n => Collects(s, acc[k], rest, T)}
  <2>7. 0 \in S
    BY <2>4, <2>6
  <2>8. ASSUME NEW k \in Nat, k \in S PROVE k + 1 \in S
    <3> SUFFICES ASSUME k + 1 <= n PROVE Collects(s, acc[k + 1], rest, T)
      OBVIOUS
    <3>1. k \in 0 .. n - 1 /\ k <= n /\ k + 1 \in 1 .. n
      OBVIOUS
    <3>2. acc[k + 1] = record(acc[k], "seq", pts[k + 1]) /\ pts[k + 1].t = T
      BY <1>1, <2>2, <2>5, <2>6, <3>1
    <3>3. Collects(s, acc[k], rest, T) /\ SlotOK(acc[k], rest)
      BY <2>8, <3>1 DEF Collects
    <3>4. "seq" \in SeriesName /\ pts[k + 1] \in Sample("seq")
      BY <2>2, <2>5, <3>1, SixSeries DEF Within, Sample
    <3>5. Collects(acc[k], acc[k + 1], rest, T)
      BY <3>2, <3>3, <3>4, RecordCollects
    <3> QED BY <3>3, <3>5, CollectsTransitive
  <2> HIDE DEF S
  <2>9. n \in S
    BY <2>7, <2>8, SetInduction
  <2>10. Collects(s, acc[n], rest, T)
    BY <2>9 DEF S
  <2> QED BY <1>1, <2>1, <2>5, <2>6, <2>10 DEF r
<1> QED BY <1>2, <1>3

\* collect_inflight_at and collect_throughput_at
LEMMA InflightCollects ==
    ASSUME NEW s, NEW rest \in Nat, SlotOK(s, rest), NEW T \in Nat
    PROVE  Collects(s, collect_inflight_at(s, T), rest, T)
<1> DEFINE sample(acc, d) ==
              IF in_flight(acc.buf.metrics, d) = None THEN acc
              ELSE record(acc, "inflight", [t |-> T, dir |-> d,
                                            bytes |-> in_flight(acc.buf.metrics, d)])
<1>1. ASSUME NEW a, SlotOK(a, rest), NEW d \in Direction PROVE Collects(a, sample(a, d), rest, T)
  <2>1. CASE in_flight(a.buf.metrics, d) = None
    BY <1>1, <2>1, SlotCollects
  <2>2. CASE in_flight(a.buf.metrics, d) # None
    <3>0. in_flight(a.buf.metrics, d) \in Nat
      BY <1>1, <2>2, InFlightTyped DEF SlotOK, BufShape, Typed
    <3>1. PICK e \in Sample("inflight") : e.t = T /\ sample(a, d) = record(a, "inflight", e)
      <4> DEFINE e == [t |-> T, dir |-> d, bytes |-> in_flight(a.buf.metrics, d)]
      <4>1. e \in Sample("inflight")
        BY <3>0 DEF Sample, InflightSample
      <4> QED BY <2>2, <4>1
    <3>2. "inflight" \in SeriesName
      BY SixSeries
    <3> QED BY <1>1, <3>1, <3>2, RecordCollects
  <2> QED BY <2>1, <2>2
<1>2. CASE s.overflowed \/ ~CollectInflight
  <2>1. collect_inflight_at(s, T) = s
    BY <1>2 DEF collect_inflight_at
  <2> QED BY <2>1, SlotCollects
<1>3. CASE ~(s.overflowed \/ ~CollectInflight)
  <2>1. collect_inflight_at(s, T) = sample(sample(s, "o2r"), "r2o")
    BY <1>3, Zenon DEF collect_inflight_at
  <2> HIDE DEF sample
  <2>2. Collects(s, sample(s, "o2r"), rest, T)
    BY <1>1 DEF Direction
  <2>3. SlotOK(sample(s, "o2r"), rest)
    BY <2>2 DEF Collects
  <2>4. Collects(sample(s, "o2r"), sample(sample(s, "o2r"), "r2o"), rest, T)
    BY <1>1, <2>3 DEF Direction
  <2> QED BY <2>1, <2>2, <2>4, CollectsTransitive
<1> QED BY <1>2, <1>3

LEMMA ThroughputCollects ==
    ASSUME NEW s, NEW rest \in Nat, SlotOK(s, rest), NEW T \in Nat
    PROVE  Collects(s, collect_throughput_at(s, T), rest, T)
<1> DEFINE sample(acc, d) ==
              IF ~has_sent_data(acc.buf.metrics, d) THEN acc
              ELSE record(acc, "throughput", [t |-> T, dir |-> d,
                                              rate |-> throughput_at(acc.buf.metrics, d, T)])
<1>1. ASSUME NEW a, SlotOK(a, rest), NEW d \in Direction PROVE Collects(a, sample(a, d), rest, T)
  <2>1. CASE ~has_sent_data(a.buf.metrics, d)
    BY <1>1, <2>1, SlotCollects
  <2>2. CASE has_sent_data(a.buf.metrics, d)
    <3>0. throughput_at(a.buf.metrics, d, T) \in Rate
      BY <1>1, RatesTyped DEF SlotOK, BufShape, Typed
    <3>1. PICK e \in Sample("throughput") : e.t = T /\ sample(a, d) = record(a, "throughput", e)
      <4> DEFINE e == [t |-> T, dir |-> d, rate |-> throughput_at(a.buf.metrics, d, T)]
      <4>1. e \in Sample("throughput")
        BY <3>0 DEF Sample, ThroughputSample
      <4> QED BY <2>2, <4>1
    <3>2. "throughput" \in SeriesName
      BY SixSeries
    <3> QED BY <1>1, <3>1, <3>2, RecordCollects
  <2> QED BY <2>1, <2>2
<1>2. CASE s.overflowed \/ ~CollectThroughput
  <2>1. collect_throughput_at(s, T) = s
    BY <1>2 DEF collect_throughput_at
  <2> QED BY <2>1, SlotCollects
<1>3. CASE ~(s.overflowed \/ ~CollectThroughput)
  <2>1. collect_throughput_at(s, T) = sample(sample(s, "o2r"), "r2o")
    BY <1>3, Zenon DEF collect_throughput_at
  <2> HIDE DEF sample
  <2>2. Collects(s, sample(s, "o2r"), rest, T)
    BY <1>1 DEF Direction
  <2>3. SlotOK(sample(s, "o2r"), rest)
    BY <2>2 DEF Collects
  <2>4. Collects(sample(s, "o2r"), sample(sample(s, "o2r"), "r2o"), rest, T)
    BY <1>1, <2>3 DEF Direction
  <2> QED BY <2>1, <2>2, <2>4, CollectsTransitive
<1> QED BY <1>2, <1>3

\* A decay sample is an inflight sample after a throughput sample.
LEMMA DecayCollects ==
    ASSUME NEW s, NEW rest \in Nat, SlotOK(s, rest), NEW T \in Nat
    PROVE  Collects(s, decay(s, T), rest, T)
<1>1. Collects(s, collect_throughput_at(s, T), rest, T)
  BY ThroughputCollects
<1>2. SlotOK(collect_throughput_at(s, T), rest)
  BY <1>1 DEF Collects
<1>3. Collects(collect_throughput_at(s, T), decay(s, T), rest, T)
  BY <1>2, InflightCollects DEF decay
<1> QED BY <1>1, <1>3, CollectsTransitive

\* collect_rtt_points
LEMMA RttCollects ==
    ASSUME NEW s, NEW rest \in Nat, SlotOK(s, rest), NEW sample, NEW T \in Nat, sample.t = T,
           sample.rtt \in Nat \cup {None}
    PROVE  Collects(s, collect_rtt_points(s, sample), rest, T)
<1> DEFINE d    == dir_opposite(sample.dir)
           srtt == smoothed(s.buf.srtt[d], sample.rtt)
           s0   == [s EXCEPT !.buf.srtt[d] = srtt]
           e    == [t |-> sample.t, dir |-> d, rtt |-> sample.rtt, srtt |-> srtt]
<1>1. CASE s.overflowed \/ ~CollectRtt \/ sample.rtt = None
  <2>1. collect_rtt_points(s, sample) = s
    BY <1>1 DEF collect_rtt_points
  <2> QED BY <2>1, SlotCollects
<1>2. CASE ~(s.overflowed \/ ~CollectRtt \/ sample.rtt = None)
  <2>1. collect_rtt_points(s, sample) = record(s0, "rtt", e)
    BY <1>2, Zenon DEF collect_rtt_points
  <2>0. d \in Direction /\ s.buf.srtt \in [Direction -> Nat \cup {None}]
    BY DEF dir_opposite, Direction, SlotOK, BufShape, Typed
  <2>7. srtt \in Nat /\ sample.rtt \in Nat
    <3>1. PICK p \in Nat \cup {None}, v \in Nat : p = s.buf.srtt[d] /\ v = sample.rtt
      BY <1>2, <2>0
    <3>2. smoothed(p, v) \in Nat
      BY DEF smoothed
    <3> QED BY <3>1, <3>2
  <2> HIDE DEF srtt, d
  <2>2. e.t = T /\ e \in Sample("rtt")
    BY <2>0, <2>7 DEF Sample, RttSample
  <2>3. /\ SameSamples(s, s0) /\ s0.buf.srtt = [s.buf.srtt EXCEPT ![d] = srtt]
        /\ s0.buf.metrics = s.buf.metrics /\ s0.buf.unwrap = s.buf.unwrap
    BY DEF SameSamples, SlotOK, BufShape
  <2> HIDE DEF s0, e
  <2>8. Typed(s0.buf)
    <3>1. s0.buf.srtt \in [Direction -> Nat \cup {None}]
      BY <2>0, <2>3, <2>7
    <3> QED BY <2>3, <3>1 DEF Typed, SameSamples, SlotOK, BufShape
  <2>4. Collects(s, s0, rest, T)
    BY <2>3, <2>8, SameSamplesCollects
  <2>5. SlotOK(s0, rest) /\ "rtt" \in SeriesName
    BY <2>4, SixSeries DEF Collects
  <2>6. Collects(s0, record(s0, "rtt", e), rest, T)
    BY <2>2, <2>5, RecordCollects
  <2> QED BY <2>1, <2>4, <2>6, CollectsTransitive
<1> QED BY <1>1, <1>2

\* derive_and_record
LEMMA DeriveCollects ==
    ASSUME NEW s, NEW rest \in Nat, SlotOK(s, rest), NEW id, NEW seg \in Segment,
           NEW dir \in Direction
    PROVE  Collects(s, derive_and_record(s, id, seg, dir), rest, seg.ts)
<1> DEFINE sample == metric_sample(s.buf.metrics, seg, dir)
           s1 == [s EXCEPT !.buf.metrics = metrics_after(@, seg, dir)]
           s2 == IF should_collect(id) THEN record_sample(s1, "series", sample) ELSE s1
           s3 == collect_seq_points(s2, seg, dir, sample)
           s4 == collect_inflight_at(s3, seg.ts)
           s5 == collect_rtt_points(s4, sample)
           s6 == collect_throughput_at(s5, seg.ts)
<1>1. PICK T \in Nat : T = seg.ts
  BY DEF Segment
<1>2. CASE ~derives(s, id)
  <2>1. derive_and_record(s, id, seg, dir) = s
    BY <1>2, Zenon DEF derive_and_record
  <2> QED BY <2>1, SlotCollects
<1>3. CASE derives(s, id)
  <2>0. derive_and_record(s, id, seg, dir) = s6
    BY <1>3, Zenon DEF derive_and_record
  <2>1. SameSamples(s, s1) /\ sample.t = T
    BY <1>1 DEF SameSamples, SlotOK, BufShape, metric_sample
  <2>10. s.buf.metrics \in [Direction -> DirState]
    BY DEF SlotOK, BufShape, Typed
  <2>11. sample.rtt \in Nat \cup {None}
    BY <2>10, RttTyped
  <2>12. /\ s1.buf.metrics = metrics_after(s.buf.metrics, seg, dir)
         /\ s1.buf.srtt = s.buf.srtt /\ s1.buf.unwrap = s.buf.unwrap
    BY DEF SlotOK, BufShape
  <2> HIDE DEF sample, s1
  <2>13. Typed(s1.buf)
    <3>1. s1.buf.metrics \in [Direction -> DirState]
      BY <2>10, <2>12, MetricsTyped
    <3> QED BY <2>1, <2>12, <3>1 DEF Typed, SameSamples, SlotOK, BufShape
  <2>2. Collects(s, s1, rest, T)
    BY <2>1, <2>13, SameSamplesCollects
  <2>3. Collects(s1, s2, rest, T)
    <3>1. SlotOK(s1, rest) /\ ~s1.overflowed
      BY <1>3, <2>1, <2>2 DEF Collects, SameSamples, derives
    <3>2. CASE should_collect(id)
      <4>1. s2 = record(s1, "series", sample)
        BY <3>1, <3>2 DEF record
      <4>2. "series" \in SeriesName /\ "series" \notin DetailSeries
        BY SixSeries DEF DetailSeries
      <4> QED BY <2>1, <3>1, <4>1, <4>2, RecordCollects
    <3>3. CASE ~should_collect(id)
      BY <3>1, <3>3, SlotCollects
    <3> QED BY <3>2, <3>3
  <2> HIDE DEF s2
  <2>4. Collects(s2, s3, rest, T)
    BY <1>1, <2>3, SeqCollects DEF Collects
  <2> HIDE DEF s3
  <2>5. Collects(s3, s4, rest, T)
    BY <1>1, <2>4, InflightCollects DEF Collects
  <2> HIDE DEF s4
  <2>6. Collects(s4, s5, rest, T)
    <3>1. SlotOK(s4, rest)
      BY <2>5 DEF Collects
    <3> QED BY <2>1, <2>11, <3>1, RttCollects
  <2> HIDE DEF s5
  <2>7. Collects(s5, s6, rest, T)
    BY <1>1, <2>6, ThroughputCollects DEF Collects
  <2> HIDE DEF s6
  <2>8. Collects(s, s3, rest, T)
    BY <2>2, <2>3, <2>4, CollectsTransitive
  <2>9. Collects(s, s5, rest, T)
    BY <2>8, <2>5, <2>6, CollectsTransitive
  <2> QED BY <1>1, <2>0, <2>9, <2>7, CollectsTransitive
<1> QED BY <1>2, <1>3

\* The state sample of c is the newest of its series.
ShowsState(b, c) ==
    LET states == b.q["states"]
    IN  /\ Len(states) > 0
        /\ Last(states).state = c.state /\ Last(states).bytes = c.bytes

\* The state samples of a connection were taken by the time it was last seen.
StateSample(T) == [t : 0 .. T, state : ConnState, bytes : PerDirection(Nat)]

TimedAs(b, c) == Within(b.q["states"], StateSample(c.last_at))

\* record_state
LEMMA StateRecorded ==
    ASSUME NEW s, NEW rest \in Nat, SlotOK(s, rest), NEW c, NEW T \in Nat
    PROVE  LET r == record_state(s, c, T)
           IN  /\ SlotOK(r, rest) /\ OrderKept(s, r, T)
               /\ CollectState /\ ~r.overflowed => ShowsState(r.buf, c)
               /\ \A U : state_sample(c, T) \in U /\ Within(s.buf.q["states"], U)
                         => Within(r.buf.q["states"], U)
<1>1. CASE CollectState
  <2>1. PICK e : e = state_sample(c, T)
    OBVIOUS
  <2>2. e.t = T /\ e.state = c.state /\ e.bytes = c.bytes
    BY <2>1 DEF state_sample
  <2>3. /\ record_state(s, c, T) = record(s, "states", e)
        /\ "states" \in SeriesName /\ "states" \notin DetailSeries
    BY <1>1, <2>1, SixSeries DEF record_state, DetailSeries
  <2> DEFINE r == record(s, "states", e)
  <2>4. /\ SlotOK(r, rest)
        /\ e.t = T => OrderKept(s, r, T)
        /\ ~r.overflowed => Len(r.buf.q["states"]) > 0 /\ Last(r.buf.q["states"]) = e
        /\ \A U : e \in U /\ Within(s.buf.q["states"], U) => Within(r.buf.q["states"], U)
    BY <2>3, RecordKeeps
  <2> HIDE DEF r
  <2>5. ~r.overflowed => ShowsState(r.buf, c)
    BY <2>2, <2>4 DEF ShowsState
  <2>6. record_state(s, c, T) = r
    BY <2>3 DEF r
  <2> QED BY <2>1, <2>2, <2>4, <2>5, <2>6
<1>2. CASE ~CollectState
  <2>1. record_state(s, c, T) = s
    BY <1>2 DEF record_state
  <2>2. OrderKept(s, s, T)
    BY DEF OrderKept
  <2> QED BY <1>2, <2>1, <2>2
<1> QED BY <1>1, <1>2

-----------------------------------------------------------------------------
(***************************************************************************)
(* Counting the samples of all connections.                                *)
(***************************************************************************)
Bufs(bs, n) ==
    /\ IsSeq(bs) /\ Len(bs) = n /\ DOMAIN bs = 1 .. n
    /\ \A i \in 1 .. n : BufShape(bs[i])

counts(bs, n) == [i \in 1 .. n |-> retained(bs[i])]

LEMMA RecountTotal ==
    ASSUME NEW n \in Nat, NEW bs, Bufs(bs, n)
    PROVE  TotalIs(recount(bs), counts(bs, n), 1 .. n)
<1> DEFINE F == counts(bs, n)
           c(s) == CHOOSE x \in s : TRUE
           Rec(it) == it = [s \in SUBSET (1 .. n) |->
                               IF s = {} THEN 0 ELSE retained(bs[c(s)]) + it[s \ {c(s)}]]
           it == CHOOSE g : Rec(g)
<1>1. recount(bs) = it[1 .. n]
  <2>1. DOMAIN bs = 1 .. n
    BY DEF Bufs
  <2> QED BY <2>1, Zenon DEF recount, MapThenSumSet, MapThenFoldSet
<1>2. F \in [1 .. n -> Nat]
  BY RetainedCount DEF Bufs, counts
<1>3. \A g : Rec(g) <=> Follows(g, F, 1 .. n)
  <2> SUFFICES ASSUME NEW g PROVE Rec(g) <=> Follows(g, F, 1 .. n)
    OBVIOUS
  <2>1. \A s \in SUBSET (1 .. n) : s # {} => c(s) \in 1 .. n
    OBVIOUS
  <2>2. \A s \in SUBSET (1 .. n) : s # {} => retained(bs[c(s)]) = F[c(s)]
    BY <2>1 DEF counts
  <2>3. [s \in SUBSET (1 .. n) |-> IF s = {} THEN 0 ELSE retained(bs[c(s)]) + g[s \ {c(s)}]]
      = [s \in SUBSET (1 .. n) |-> IF s = {} THEN 0 ELSE F[c(s)] + g[s \ {c(s)}]]
    <3> HIDE DEF F, c
    <3> QED BY <2>2
  <2> QED BY <2>3 DEF Follows
<1>4. /\ \E g : Follows(g, F, 1 .. n)
      /\ \A g : Follows(g, F, 1 .. n) => TotalIs(g[1 .. n], F, 1 .. n)
  <2> HIDE DEF F
  <2> QED BY <1>2, IndicesFinite, TotalChosen
<1>5. Follows(it, F, 1 .. n)
  <2> HIDE DEF Rec, F
  <2>1. \E g : Rec(g)
    BY <1>3, <1>4
  <2>2. Rec(it)
    BY <2>1
  <2> QED BY <1>3, <2>2
<1> HIDE DEF it, F
<1>6. TotalIs(it[1 .. n], F, 1 .. n)
  BY <1>4, <1>5
<1> QED BY <1>1, <1>6 DEF F

LEMMA RecountNat ==
    ASSUME NEW n \in Nat, NEW bs, Bufs(bs, n)
    PROVE  recount(bs) \in Nat /\ (n = 0 => recount(bs) = 0)
BY RecountTotal, TotalNat

\* The samples of all connections but one.
LEMMA RecountReplace ==
    ASSUME NEW n \in Nat, NEW bs, Bufs(bs, n), NEW i \in 1 .. n
    PROVE  \E rest \in Nat :
              /\ recount(bs) = rest + retained(bs[i])
              /\ \A cs : Bufs(cs, n) /\ (\A j \in 1 .. n : j # i => cs[j] = bs[j])
                         => recount(cs) = rest + retained(cs[i])
<1>1. TotalIs(recount(bs), counts(bs, n), 1 .. n)
  BY RecountTotal
<1>2. counts(bs, n)[i] = retained(bs[i]) /\ retained(bs[i]) \in Nat
  BY RetainedCount DEF counts, Bufs
<1>3. PICK rest \in Nat :
         /\ recount(bs) = counts(bs, n)[i] + rest
         /\ \A G, b : TotalIs(b, G, 1 .. n) /\ (\A j \in 1 .. n : j # i => G[j] = counts(bs, n)[j])
                      => b = G[i] + rest
  BY <1>1, <1>2, IndicesFinite, TotalReplace
<1>4. ASSUME NEW cs, Bufs(cs, n), \A j \in 1 .. n : j # i => cs[j] = bs[j]
      PROVE  recount(cs) = rest + retained(cs[i])
  <2>1. TotalIs(recount(cs), counts(cs, n), 1 .. n)
    BY <1>4, RecountTotal
  <2>2. \A j \in 1 .. n : j # i => counts(cs, n)[j] = counts(bs, n)[j]
    BY <1>4 DEF counts
  <2>3. recount(cs) = counts(cs, n)[i] + rest
    BY <1>3, <2>1, <2>2
  <2>4. counts(cs, n)[i] = retained(cs[i]) /\ retained(cs[i]) \in Nat
    BY <1>4, RetainedCount DEF counts, Bufs
  <2> QED BY <2>3, <2>4
<1>5. recount(bs) = rest + retained(bs[i])
  BY <1>2, <1>3
<1> QED BY <1>4, <1>5

\* One connection more.
LEMMA RecountAppend ==
    ASSUME NEW n \in Nat, NEW bs, Bufs(bs, n), NEW cs, Bufs(cs, n + 1),
           \A j \in 1 .. n : cs[j] = bs[j]
    PROVE  recount(cs) = recount(bs) + retained(cs[n + 1])
<1>1. TotalIs(recount(bs), counts(bs, n), 1 .. n) /\ recount(bs) \in Nat
  BY RecountTotal, RecountNat
<1>2. TotalIs(recount(cs), counts(cs, n + 1), 1 .. n + 1)
  BY RecountTotal
<1>3. \A j \in 1 .. n : counts(cs, n + 1)[j] = counts(bs, n)[j]
  BY DEF counts
<1>4. counts(cs, n + 1)[n + 1] = retained(cs[n + 1]) /\ retained(cs[n + 1]) \in Nat
  BY RetainedCount DEF counts, Bufs
<1>5. recount(cs) = counts(cs, n + 1)[n + 1] + recount(bs)
  BY <1>1, <1>2, <1>3, TotalAppend
<1> QED BY <1>1, <1>4, <1>5

-----------------------------------------------------------------------------
(***************************************************************************)
(* Ageing.                                                                 *)
(***************************************************************************)

\* evict_front drops a prefix, leaves what must be kept, and nothing stale besides.
LEMMA EvictFront ==
    ASSUME NEW dq, IsSeq(dq), NEW h \in Nat, NEW keep \in {0, 1}, NEW T
    PROVE  LET r == evict_front(dq, h, keep)
           IN  \E k \in 0 .. Len(dq) :
                  /\ r = SubSeq(dq, k + 1, Len(dq))
                  /\ keep = 1 /\ Len(dq) > 0 => k < Len(dq)
                  /\ SortedUpto(dq, T) => \A i \in k + 1 .. Len(dq) - keep : dq[i].t >= h
<1> DEFINE I     == {i \in 1 .. Len(dq) : dq[i].t >= h}
           k0    == IF I # {} THEN Min(I) ELSE 0
           stale == IF k0 = 0 THEN Len(dq) ELSE k0 - 1
           spare == saturating_sub(Len(dq), keep)
           k     == IF stale <= spare THEN stale ELSE spare
<1>1. evict_front(dq, h, keep) = SubSeq(dq, k + 1, Len(dq))
  BY Zenon DEF evict_front, SelectInSeq
<1>2. PICK n \in Nat : n = Len(dq)
  BY SeqPush
<1>3. I # {} => k0 \in 1 .. n /\ dq[k0].t >= h
  <2>1. I \subseteq Nat /\ I \subseteq 1 .. n
    BY <1>2
  <2>2. I # {} => Min(I) \in I
    <3> HIDE DEF I
    <3> QED BY <2>1, MinIsLeast
  <2>3. I # {} => k0 = Min(I)
    OBVIOUS
  <2>4. \A i \in I : i \in 1 .. n /\ dq[i].t >= h
    BY <1>2
  <2> HIDE DEF I, k0
  <2> QED BY <2>2, <2>3, <2>4
<1>4. I = {} => k0 = 0
  OBVIOUS
<1> HIDE DEF k0, I
<1>5. /\ spare \in 0 .. n /\ (keep = 1 /\ n > 0 => spare < n)
      /\ n - keep <= spare
  BY <1>2 DEF saturating_sub
<1>6. stale \in 0 .. n
  BY <1>2, <1>3, <1>4
<1> HIDE DEF spare
<1>7. k \in 0 .. n /\ (keep = 1 /\ n > 0 => k < n)
  <2> HIDE DEF stale
  <2> QED BY <1>5, <1>6
<1>8. ASSUME SortedUpto(dq, T), NEW i \in k + 1 .. n - keep PROVE dq[i].t >= h
  <2>1. CASE ~(stale <= spare)
    <3>1. k = spare
      BY <2>1
    <3> HIDE DEF k
    <3> QED BY <1>5, <1>7, <1>8, <3>1
  <2>2. CASE stale <= spare
    <3>1. k = stale
      BY <2>2
    <3>2. CASE I = {}
      <4>1. k = n
        BY <1>2, <1>4, <3>1, <3>2
      <4> HIDE DEF k
      <4> QED BY <1>8, <4>1
    <3>3. CASE I # {}
      <4>1. k = k0 - 1 /\ k0 \in 1 .. n
        BY <1>3, <3>1, <3>3
      <4> HIDE DEF k
      <4>2. i \in k0 .. n /\ k0 \in 1 .. Len(dq) /\ i \in 1 .. Len(dq) /\ i \in k0 .. Len(dq)
        BY <1>2, <1>8, <4>1
      <4>3. dq[k0].t <= dq[i].t /\ dq[k0].t \in Nat /\ dq[i].t \in Nat
        BY <1>8, <4>2 DEF SortedUpto
      <4> QED BY <1>3, <3>3, <4>3
    <3> QED BY <3>2, <3>3
  <2> QED BY <2>1, <2>2
<1> HIDE DEF k
<1> QED BY <1>1, <1>2, <1>7, <1>8

\* No sample but the last states sample is older than the horizon.
Fresh(b, h) ==
    \A n \in SeriesName : \A i \in 1 .. Len(b.q[n]) - keep_min(n) : b.q[n][i].t >= h

\* age_buf
LEMMA AgeBuf ==
    ASSUME NEW b, BufShape(b), NEW h \in Nat, NEW T
    PROVE  LET a == age_buf(b, h)
           IN  /\ BufShape(a)
               /\ \A n \in SeriesName : SortedUpto(b.q[n], T) => SortedUpto(a.q[n], T)
               /\ Len(b.q["states"]) > 0 =>
                     Len(a.q["states"]) > 0 /\ Last(a.q["states"]) = Last(b.q["states"])
               /\ \A U : Within(b.q["states"], U) => Within(a.q["states"], U)
               /\ (\A n \in SeriesName : SortedUpto(b.q[n], T)) => Fresh(a, h)
<1> DEFINE a == age_buf(b, h)
<1>1. /\ DOMAIN a = DOMAIN b /\ DOMAIN a.q = SeriesName
      /\ \A n \in SeriesName : a.q[n] = evict_front(b.q[n], h, keep_min(n))
  BY DEF age_buf, BufShape
<1> HIDE DEF a
<1>2. ASSUME NEW n \in SeriesName
      PROVE  \E k \in 0 .. Len(b.q[n]) :
                /\ a.q[n] = SubSeq(b.q[n], k + 1, Len(b.q[n]))
                /\ keep_min(n) = 1 /\ Len(b.q[n]) > 0 => k < Len(b.q[n])
                /\ SortedUpto(b.q[n], T) =>
                      \A i \in k + 1 .. Len(b.q[n]) - keep_min(n) : b.q[n][i].t >= h
                /\ IsSeq(a.q[n]) /\ Len(b.q[n]) \in Nat /\ Len(a.q[n]) = Len(b.q[n]) - k
                /\ \A i \in 1 .. Len(b.q[n]) - k : a.q[n][i] = b.q[n][k + i]
  <2>1. IsSeq(b.q[n]) /\ keep_min(n) \in {0, 1}
    BY DEF BufShape, keep_min
  <2>2. PICK dq : dq = b.q[n]
    OBVIOUS
  <2>3. PICK keep \in {0, 1} : keep = keep_min(n)
    BY <2>1
  <2>4. PICK k \in 0 .. Len(dq) :
                  /\ evict_front(dq, h, keep) = SubSeq(dq, k + 1, Len(dq))
                  /\ keep = 1 /\ Len(dq) > 0 => k < Len(dq)
                  /\ SortedUpto(dq, T) => \A i \in k + 1 .. Len(dq) - keep : dq[i].t >= h
    BY <2>1, <2>2, EvictFront
  <2>5. /\ IsSeq(SubSeq(dq, k + 1, Len(dq))) /\ Len(dq) \in Nat
        /\ Len(SubSeq(dq, k + 1, Len(dq))) = Len(dq) - k
        /\ \A i \in 1 .. Len(dq) - k : SubSeq(dq, k + 1, Len(dq))[i] = dq[k + i]
    BY <2>1, <2>2, SeqDrop
  <2>6. a.q[n] = SubSeq(dq, k + 1, Len(dq))
    BY <1>1, <2>2, <2>3, <2>4
  <2> QED BY <2>2, <2>3, <2>4, <2>5, <2>6
<1>9. Typed(a)
  <2>1. a.metrics = b.metrics /\ a.srtt = b.srtt /\ a.unwrap = b.unwrap
    BY DEF a, age_buf, BufShape
  <2>2. ASSUME NEW n \in DetailSeries PROVE Within(a.q[n], Sample(n))
    <3>1. n \in SeriesName
      BY SixSeries DEF DetailSeries
    <3>2. PICK s : s = b.q[n]
      OBVIOUS
    <3>3. PICK k \in 0 .. Len(s) : /\ Len(a.q[n]) = Len(s) - k
                                   /\ \A i \in 1 .. Len(s) - k : a.q[n][i] = s[k + i]
      BY <1>2, <3>1, <3>2
    <3>4. IsSeq(s) /\ Within(s, Sample(n))
      BY <3>1, <3>2 DEF BufShape, Typed
    <3> QED BY <3>3, <3>4, WithinDrop
  <2> QED BY <2>1, <2>2 DEF BufShape, Typed
<1>3. BufShape(a)
  BY <1>1, <1>2, <1>9 DEF BufShape
<1>4. ASSUME NEW n \in SeriesName, SortedUpto(b.q[n], T) PROVE SortedUpto(a.q[n], T)
  <2>1. PICK s : s = b.q[n]
    OBVIOUS
  <2>2. PICK k \in 0 .. Len(s) : /\ Len(a.q[n]) = Len(s) - k
                                 /\ \A i \in 1 .. Len(s) - k : a.q[n][i] = s[k + i]
    BY <1>2, <2>1
  <2>3. IsSeq(s) /\ SortedUpto(s, T)
    BY <1>4, <2>1 DEF BufShape
  <2> QED BY <2>2, <2>3, SortedDrop
<1>5. ASSUME Len(b.q["states"]) > 0
      PROVE  Len(a.q["states"]) > 0 /\ Last(a.q["states"]) = Last(b.q["states"])
  <2>1. "states" \in SeriesName /\ keep_min("states") = 1
    BY SixSeries DEF keep_min
  <2>2. PICK s : s = b.q["states"]
    OBVIOUS
  <2>3. PICK k \in 0 .. Len(s) :
           /\ k < Len(s) /\ Len(s) \in Nat /\ Len(a.q["states"]) = Len(s) - k
           /\ \A i \in 1 .. Len(s) - k : a.q["states"][i] = s[k + i]
    BY <1>2, <1>5, <2>1, <2>2
  <2>4. Len(s) - k \in 1 .. Len(s) - k /\ k + (Len(s) - k) = Len(s)
    BY <2>3
  <2>5. a.q["states"][Len(s) - k] = s[Len(s)]
    BY <2>3, <2>4
  <2> QED BY <2>2, <2>3, <2>4, <2>5 DEF Last
<1>6. ASSUME \A n \in SeriesName : SortedUpto(b.q[n], T),
             NEW n \in SeriesName, NEW i \in 1 .. Len(a.q[n]) - keep_min(n)
      PROVE  a.q[n][i].t >= h
  <2>1. PICK s : s = b.q[n]
    OBVIOUS
  <2>2. PICK keep \in {0, 1} : keep = keep_min(n)
    BY DEF keep_min
  <2>3. PICK k \in 0 .. Len(s) :
           /\ \A j \in k + 1 .. Len(s) - keep : s[j].t >= h
           /\ Len(s) \in Nat /\ Len(a.q[n]) = Len(s) - k
           /\ \A j \in 1 .. Len(s) - k : a.q[n][j] = s[k + j]
    BY <1>2, <1>6, <2>1, <2>2
  <2>4. PICK l \in Nat : l = Len(s)
    BY <2>3
  <2>5. i \in 1 .. (l - k) - keep
    BY <1>6, <2>2, <2>3, <2>4
  <2>6. i \in 1 .. l - k /\ k + i \in k + 1 .. l - keep
    BY <2>4, <2>5
  <2> QED BY <2>3, <2>4, <2>6
<1>7. (\A n \in SeriesName : SortedUpto(b.q[n], T)) => Fresh(a, h)
  BY <1>6 DEF Fresh
<1>8. ASSUME NEW U, Within(b.q["states"], U) PROVE Within(a.q["states"], U)
  <2>1. "states" \in SeriesName
    BY SixSeries
  <2>2. PICK s : s = b.q["states"]
    OBVIOUS
  <2>3. PICK k \in 0 .. Len(s) :
           /\ Len(s) \in Nat /\ Len(a.q["states"]) = Len(s) - k
           /\ \A i \in 1 .. Len(s) - k : a.q["states"][i] = s[k + i]
    BY <1>2, <2>1, <2>2
  <2>4. ASSUME NEW i \in 1 .. Len(s) - k PROVE k + i \in 1 .. Len(s)
    BY <2>3
  <2> QED BY <1>8, <2>2, <2>3, <2>4 DEF Within
<1> QED BY <1>3, <1>4, <1>5, <1>7, <1>8 DEF a

-----------------------------------------------------------------------------
(***************************************************************************)
(* The samples of all connections.                                         *)
(***************************************************************************)
StoreOK(st, n) ==
    /\ DOMAIN st = {"bufs", "collected", "overflowed"}
    /\ Bufs(st.bufs, n)
    /\ st.collected = recount(st.bufs)
    /\ st.overflowed \in BOOLEAN
    /\ Ceiling(st.collected, st.overflowed)

\* What becomes of the samples of one connection.
BufKept(a, b, T) ==
    /\ \A n \in SeriesName : SortedUpto(a.q[n], T) => SortedUpto(b.q[n], T)
    /\ Len(a.q["states"]) > 0 =>
          Len(b.q["states"]) > 0 /\ Last(b.q["states"]) = Last(a.q["states"])
    /\ \A U : Within(a.q["states"], U) => Within(b.q["states"], U)

LEMMA BufKeptTransitive ==
    ASSUME NEW T, NEW a, NEW b, NEW c, BufKept(a, b, T), BufKept(b, c, T)
    PROVE  BufKept(a, c, T)
BY DEF BufKept

LEMMA CollectsBuf ==
    ASSUME NEW s, NEW r, NEW rest, NEW T, Collects(s, r, rest, T)
    PROVE  BufKept(s.buf, r.buf, T) /\ (s.overflowed => r.overflowed)
BY DEF Collects, Kept, OrderKept, StateKept, BufKept

\* A kept state sample still shows the state.
LEMMA ShownKept ==
    ASSUME NEW a, NEW b, NEW T, BufKept(a, b, T), NEW c, ShowsState(a, c)
    PROVE  ShowsState(b, c)
BY DEF BufKept, ShowsState

LEMMA TimedKept ==
    ASSUME NEW a, NEW b, NEW T, BufKept(a, b, T), NEW c, TimedAs(a, c)
    PROVE  TimedAs(b, c)
BY DEF BufKept, TimedAs

\* slot and put: one connection's samples taken out and put back.
LEMMA SlotOfStore ==
    ASSUME NEW n \in Nat, NEW st, StoreOK(st, n), NEW i \in 1 .. n
    PROVE  \E rest \in Nat :
              /\ SlotOK(slot(st, i), rest)
              /\ \A s : SlotOK(s, rest) =>
                    /\ StoreOK(put(st, i, s), n)
                    /\ put(st, i, s).bufs[i] = s.buf
                    /\ put(st, i, s).overflowed = s.overflowed
                    /\ \A j \in 1 .. n : j # i => put(st, i, s).bufs[j] = st.bufs[j]
<1>0. Bufs(st.bufs, n)
  BY DEF StoreOK
<1>1. PICK rest \in Nat :
         /\ recount(st.bufs) = rest + retained(st.bufs[i])
         /\ \A cs : Bufs(cs, n) /\ (\A j \in 1 .. n : j # i => cs[j] = st.bufs[j])
                    => recount(cs) = rest + retained(cs[i])
  BY <1>0, RecountReplace
<1>2. SlotOK(slot(st, i), rest)
  <2>1. slot(st, i) = [buf |-> st.bufs[i], collected |-> st.collected, overflowed |-> st.overflowed]
    BY DEF slot
  <2>2. BufShape(st.bufs[i])
    BY <1>0 DEF Bufs
  <2> QED BY <1>1, <2>1, <2>2 DEF SlotOK, StoreOK
<1>3. ASSUME NEW s, SlotOK(s, rest)
      PROVE  /\ StoreOK(put(st, i, s), n)
             /\ put(st, i, s).bufs[i] = s.buf
             /\ put(st, i, s).overflowed = s.overflowed
             /\ \A j \in 1 .. n : j # i => put(st, i, s).bufs[j] = st.bufs[j]
  <2> DEFINE bs == st.bufs
             cs == [bs EXCEPT ![i] = s.buf]
             r  == put(st, i, s)
  <2>1. /\ DOMAIN r = {"bufs", "collected", "overflowed"}
        /\ r.bufs = cs /\ r.collected = s.collected /\ r.overflowed = s.overflowed
    BY DEF put
  <2>2. PICK U : bs \in Seq(U)
    BY <1>0 DEF Bufs, IsSeq
  <2>3. Len(bs) = n /\ DOMAIN bs = 1 .. n
    BY <1>0 DEF Bufs
  <2> HIDE DEF bs
  <2>4. bs \in Seq(U \cup {s.buf}) /\ s.buf \in U \cup {s.buf} /\ i \in 1 .. Len(bs)
    BY <2>2, <2>3
  <2>5. cs \in Seq(U \cup {s.buf}) /\ Len(cs) = n /\ DOMAIN cs = 1 .. n
    BY <2>3, <2>4
  <2>6. cs[i] = s.buf /\ \A j \in 1 .. n : j # i => cs[j] = bs[j]
    BY <2>3
  <2> HIDE DEF cs, r
  <2>7. Bufs(cs, n)
    <3>1. \A j \in 1 .. n : BufShape(cs[j])
      BY <1>0, <1>3, <2>6 DEF Bufs, SlotOK, bs
    <3> QED BY <2>5, <3>1 DEF Bufs, IsSeq
  <2>8. recount(cs) = rest + retained(cs[i])
    BY <1>1, <2>6, <2>7 DEF bs
  <2>9. StoreOK(r, n)
    BY <1>3, <2>1, <2>6, <2>7, <2>8 DEF StoreOK, SlotOK
  <2> QED BY <2>1, <2>6, <2>9 DEF r, bs
<1> QED BY <1>2, <1>3

\* The horizon of a time.
LEMMA HorizonNat ==
    ASSUME Evicts, NEW t \in Nat
    PROVE  horizon_at(t) \in Nat
BY RetentionAssumption DEF Evicts, horizon_at, saturating_sub

\* evict_samples
LEMMA EvictSamples ==
    ASSUME NEW n \in Nat, NEW st, StoreOK(st, n), NEW t \in Nat, NEW T
    PROVE  LET r == evict_samples(st, t)
           IN  /\ StoreOK(r, n)
               /\ r.overflowed = st.overflowed
               /\ \A i \in 1 .. n : BufKept(st.bufs[i], r.bufs[i], T)
               /\ Evicts => \A i \in 1 .. n :
                     (\A m \in SeriesName : SortedUpto(st.bufs[i].q[m], T))
                     => Fresh(r.bufs[i], horizon_at(t))
<1> DEFINE bs   == st.bufs
           h    == horizon_at(t)
           aged == [i \in DOMAIN bs |-> age_buf(bs[i], h)]
           r    == evict_samples(st, t)
<1>1. CASE ~Evicts
  <2>1. r = st
    BY <1>1 DEF evict_samples
  <2> HIDE DEF r
  <2> QED BY <1>1, <2>1 DEF BufKept, r
<1>2. CASE Evicts
  <2>1. h \in Nat
    BY <1>2, HorizonNat
  <2>2. Bufs(bs, n) /\ st.collected = recount(bs)
    BY DEF StoreOK
  <2>3. /\ DOMAIN r = {"bufs", "collected", "overflowed"}
        /\ r.bufs = aged /\ r.overflowed = st.overflowed
        /\ r.collected = saturating_sub(st.collected, recount(bs) - recount(aged))
    BY <1>2 DEF evict_samples, StoreOK
  <2> HIDE DEF bs, h
  <2>4. DOMAIN aged = 1 .. n /\ \A i \in 1 .. n : aged[i] = age_buf(bs[i], h)
    BY <2>2 DEF Bufs
  <2>5. IsSeq(aged) /\ Len(aged) = n
    <3>1. aged \in [1 .. n -> {age_buf(bs[i], h) : i \in 1 .. n}]
      BY <2>2 DEF Bufs
    <3>2. aged \in Seq({age_buf(bs[i], h) : i \in 1 .. n})
      BY <3>1
    <3>3. PICK l \in Nat : l = Len(aged) /\ 1 .. l = 1 .. n
      BY <2>4, <3>2, LenProperties
    <3>4. l = n
      BY ONLY <3>3, l \in Nat, n \in Nat
    <3> QED BY <3>2, <3>3, <3>4 DEF IsSeq
  <2> HIDE DEF aged, r
  <2>6. ASSUME NEW i \in 1 .. n
        PROVE  /\ BufShape(aged[i]) /\ BufKept(bs[i], aged[i], T)
               /\ (\A m \in SeriesName : SortedUpto(bs[i].q[m], T)) => Fresh(aged[i], h)
    <3>1. BufShape(bs[i])
      BY <2>2 DEF Bufs
    <3>2. PICK b : b = bs[i] /\ BufShape(b)
      BY <3>1
    <3>3. /\ BufShape(age_buf(b, h)) /\ BufKept(b, age_buf(b, h), T)
          /\ (\A m \in SeriesName : SortedUpto(b.q[m], T)) => Fresh(age_buf(b, h), h)
      BY <2>1, <3>2, AgeBuf DEF BufKept
    <3> QED BY <2>4, <3>2, <3>3
  <2>7. Bufs(aged, n)
    BY <2>4, <2>5, <2>6 DEF Bufs
  <2>8. r.collected = recount(aged)
    <3>1. PICK a \in Nat, b \in Nat : a = recount(bs) /\ b = recount(aged)
      BY <2>2, <2>7, RecountNat
    <3>2. saturating_sub(a, a - b) = b
      BY DEF saturating_sub
    <3> QED BY <2>2, <2>3, <3>1, <3>2
  <2>9. Ceiling(r.collected, r.overflowed)
    BY <1>2, <2>3 DEF StoreOK, Ceiling
  <2>10. StoreOK(r, n)
    BY <2>3, <2>7, <2>8, <2>9 DEF StoreOK
  <2> QED BY <2>3, <2>6, <2>10 DEF r, bs, h
<1> QED BY <1>1, <1>2

(***************************************************************************)
(* emit_decay_samples: one connection after the other.                     *)
(***************************************************************************)
DecayStep(g, cs, st, t, k) ==
    IF k = 0 THEN st
    ELSE IF idle_at(cs[k], t) THEN g[k - 1]
    ELSE put(g[k - 1], k, decay(slot(g[k - 1], k), t))

Decays(g, cs, st, t, n) == g = [k \in 0 .. n |-> DecayStep(g, cs, st, t, k)]

LEMMA DecayInTurn ==
    ASSUME NEW cs, NEW st, NEW t, NEW n \in Nat
    PROVE  \E g : Decays(g, cs, st, t, n)
<1> DEFINE S == {k \in Nat : \E g : Decays(g, cs, st, t, k)}
<1>1. 0 \in S
  <2> DEFINE g == [k \in 0 .. 0 |-> st]
  <2>1. \A k \in 0 .. 0 : k = 0 /\ DecayStep(g, cs, st, t, k) = st
    BY DEF DecayStep
  <2>2. Decays(g, cs, st, t, 0)
    BY <2>1 DEF Decays
  <2> QED BY <2>2
<1>2. ASSUME NEW m \in Nat, m \in S PROVE m + 1 \in S
  <2>1. PICK g : Decays(g, cs, st, t, m)
    BY <1>2
  <2> DEFINE h == [k \in 0 .. m + 1 |->
                      IF k = m + 1 THEN DecayStep(g, cs, st, t, k) ELSE g[k]]
  <2>2. ASSUME NEW k \in 0 .. m PROVE h[k] = g[k] /\ g[k] = DecayStep(g, cs, st, t, k)
    <3>1. k \in 0 .. m + 1 /\ k # m + 1
      OBVIOUS
    <3>2. g[k] = DecayStep(g, cs, st, t, k)
      BY <2>1 DEF Decays
    <3> QED BY <3>1, <3>2
  <2>3. ASSUME NEW k \in 0 .. m + 1 PROVE h[k] = DecayStep(h, cs, st, t, k)
    <3>1. h[k] = DecayStep(g, cs, st, t, k)
      <4>1. CASE k = m + 1
        BY <4>1
      <4>2. CASE k # m + 1
        <5>1. k \in 0 .. m
          BY <4>2
        <5> QED BY <2>2, <5>1
      <4> QED BY <4>1, <4>2
    <3>2. k # 0 => h[k - 1] = g[k - 1]
      <4>1. k # 0 => k - 1 \in 0 .. m
        OBVIOUS
      <4> QED BY <2>2, <4>1
    <3> HIDE DEF h
    <3> QED BY <3>1, <3>2 DEF DecayStep
  <2>4. h = [k \in 0 .. m + 1 |-> h[k]]
    OBVIOUS
  <2> HIDE DEF h
  <2>5. Decays(h, cs, st, t, m + 1)
    BY <2>3, <2>4 DEF Decays
  <2> QED BY <2>5
<1> HIDE DEF S
<1>3. n \in S
  BY <1>1, <1>2, SetInduction
<1> QED BY <1>3 DEF S

LEMMA DecayKeeps ==
    ASSUME NEW n \in Nat, NEW cs, NEW st, StoreOK(st, n), NEW t \in Nat,
           NEW g, Decays(g, cs, st, t, n)
    PROVE  /\ StoreOK(g[n], n)
           /\ st.overflowed => g[n].overflowed
           /\ \A i \in 1 .. n : BufKept(st.bufs[i], g[n].bufs[i], t)
<1> DEFINE OK(r) == /\ StoreOK(r, n)
                    /\ st.overflowed => r.overflowed
                    /\ \A i \in 1 .. n : BufKept(st.bufs[i], r.bufs[i], t)
           S == {k \in Nat : k <= n => OK(g[k])}
<1>0. \A k \in 0 .. n : g[k] = DecayStep(g, cs, st, t, k)
  BY DEF Decays
<1>1. 0 \in S
  <2>1. g[0] = st
    BY <1>0 DEF DecayStep
  <2> QED BY <2>1 DEF BufKept
<1>2. ASSUME NEW k \in Nat, k \in S PROVE k + 1 \in S
  <2> SUFFICES ASSUME k + 1 <= n PROVE OK(g[k + 1])
    OBVIOUS
  <2>1. OK(g[k]) /\ k + 1 \in 1 .. n /\ k + 1 # 0 /\ (k + 1) - 1 = k /\ k + 1 \in 0 .. n
    BY <1>2
  <2>2. PICK a : a = g[k]
    OBVIOUS
  <2>3. g[k + 1] = IF idle_at(cs[k + 1], t) THEN a
                   ELSE put(a, k + 1, decay(slot(a, k + 1), t))
    BY <1>0, <2>1, <2>2 DEF DecayStep
  <2>4. CASE idle_at(cs[k + 1], t)
    BY <2>1, <2>2, <2>3, <2>4
  <2>5. CASE ~idle_at(cs[k + 1], t)
    <3>1. PICK j \in 1 .. n : j = k + 1
      BY <2>1
    <3>2. StoreOK(a, n) /\ (st.overflowed => a.overflowed)
          /\ \A i \in 1 .. n : BufKept(st.bufs[i], a.bufs[i], t)
      BY <2>1, <2>2
    <3>3. PICK rest \in Nat :
              /\ SlotOK(slot(a, j), rest)
              /\ \A s : SlotOK(s, rest) =>
                    /\ StoreOK(put(a, j, s), n)
                    /\ put(a, j, s).bufs[j] = s.buf
                    /\ put(a, j, s).overflowed = s.overflowed
                    /\ \A i \in 1 .. n : i # j => put(a, j, s).bufs[i] = a.bufs[i]
      BY <3>2, SlotOfStore
    <3>4. PICK s, r : s = slot(a, j) /\ r = decay(s, t)
      OBVIOUS
    <3>5. Collects(s, r, rest, t)
      BY <3>3, <3>4, DecayCollects
    <3>6. SlotOK(r, rest) /\ BufKept(s.buf, r.buf, t) /\ (s.overflowed => r.overflowed)
      BY <3>5, CollectsBuf DEF Collects
    <3>7. s.buf = a.bufs[j] /\ s.overflowed = a.overflowed
      BY <3>4 DEF slot
    <3>8. PICK b : b = put(a, j, r)
      OBVIOUS
    <3>9. /\ StoreOK(b, n) /\ b.bufs[j] = r.buf /\ b.overflowed = r.overflowed
          /\ \A i \in 1 .. n : i # j => b.bufs[i] = a.bufs[i]
      BY <3>3, <3>6, <3>8
    <3>10. ASSUME NEW i \in 1 .. n PROVE BufKept(st.bufs[i], b.bufs[i], t)
      <4>1. CASE i = j
        <5>1. BufKept(st.bufs[j], s.buf, t) /\ BufKept(s.buf, b.bufs[j], t)
          BY <3>2, <3>6, <3>7, <3>9
        <5> QED BY <4>1, <5>1, BufKeptTransitive
      <4>2. CASE i # j
        BY <3>2, <3>9, <4>2
      <4> QED BY <4>1, <4>2
    <3>11. g[k + 1] = b
      BY <2>3, <2>5, <3>1, <3>4, <3>8
    <3> QED BY <3>2, <3>6, <3>7, <3>9, <3>10, <3>11
  <2> QED BY <2>4, <2>5
<1> HIDE DEF S
<1>3. n \in S
  BY <1>1, <1>2, SetInduction
<1> QED BY <1>3 DEF S

LEMMA EmitDecay ==
    ASSUME NEW n \in Nat, n = Len(conns), StoreOK(Store, n), NEW t \in Nat
    PROVE  LET r == emit_decay_samples(t)
           IN  /\ StoreOK(r, n)
               /\ overflowed => r.overflowed
               /\ \A i \in 1 .. n : BufKept(bufs[i], r.bufs[i], t)
<1> DEFINE r == emit_decay_samples(t)
           g == CHOOSE f : Decays(f, conns, Store, t, n)
<1>1. Store.bufs = bufs /\ Store.overflowed = overflowed
  BY DEF Store
<1>2. CASE overflowed
  <2>1. r = Store
    BY <1>2, Zenon DEF emit_decay_samples
  <2> HIDE DEF r
  <2>2. \A i \in 1 .. n : BufKept(bufs[i], bufs[i], t)
    BY DEF BufKept
  <2> QED BY <1>1, <2>1, <2>2 DEF r
<1>3. CASE ~overflowed
  <2>1. r = g[n]
    BY <1>3, Zenon DEF emit_decay_samples, Decays, DecayStep
  <2>2. Decays(g, conns, Store, t, n)
    BY DecayInTurn
  <2> HIDE DEF g, r
  <2>3. PICK st, cs, f : st = Store /\ cs = conns /\ f = g
    OBVIOUS
  <2>4. StoreOK(st, n) /\ Decays(f, cs, st, t, n)
    BY <2>2, <2>3
  <2>5. /\ StoreOK(f[n], n)
        /\ st.overflowed => f[n].overflowed
        /\ \A i \in 1 .. n : BufKept(st.bufs[i], f[n].bufs[i], t)
    BY <2>4, DecayKeeps
  <2> QED BY <1>1, <2>1, <2>3, <2>5 DEF r
<1> QED BY <1>2, <1>3

-----------------------------------------------------------------------------
(***************************************************************************)
(* The inductive invariant.                                                *)
(***************************************************************************)
AllTimed(bs, cs, n) == \A i \in 1 .. n : TimedAs(bs[i], cs[i])

SamplesOK ==
    /\ StoreOK(Store, Len(conns))
    /\ CollectState /\ ~overflowed => \A i \in 1 .. Len(conns) : ShowsState(bufs[i], conns[i])
    /\ AllTimed(bufs, conns, Len(conns))

RetentionInv == now \in Nat /\ segs \in Nat /\ clock \in Nat /\ SamplesOK

\* Needs ordered timestamps: every series is in time order, and none is stale.
InOrder(bs, n, T) == \A i \in 1 .. n : \A m \in SeriesName : SortedUpto(bs[i].q[m], T)

AllFresh(bs, n, h) == Evicts => \A i \in 1 .. n : Fresh(bs[i], h)

\* Store takes the value st.
LEMMA StoreTakes ==
    ASSUME NEW st, NEW n, StoreOK(st, n), StoreBecomes(st)
    PROVE  StoreOK(Store', n) /\ bufs' = st.bufs /\ overflowed' = st.overflowed
<1>1. bufs' = st.bufs /\ collected' = st.collected /\ overflowed' = st.overflowed
  BY DEF StoreBecomes
<1>2. /\ DOMAIN Store' = {"bufs", "collected", "overflowed"}
      /\ Store'.bufs = bufs' /\ Store'.collected = collected' /\ Store'.overflowed = overflowed'
  BY DEF Store
<1>3. StoreOK(Store', n)
  BY <1>1, <1>2 DEF StoreOK
<1> QED BY <1>1, <1>3

\* The samples of r after ageing, which every action ends with.
LEMMA AgedStore ==
    ASSUME NEW n \in Nat, NEW cs, NEW st, StoreOK(st, n), NEW t \in Nat,
           CollectState /\ ~st.overflowed => \A i \in 1 .. n : ShowsState(st.bufs[i], cs[i]),
           AllTimed(st.bufs, cs, n), NEW T
    PROVE  LET r == evict_samples(st, t)
           IN  /\ StoreOK(r, n)
               /\ CollectState /\ ~r.overflowed => \A i \in 1 .. n : ShowsState(r.bufs[i], cs[i])
               /\ AllTimed(r.bufs, cs, n)
               /\ InOrder(st.bufs, n, T) =>
                     InOrder(r.bufs, n, T) /\ AllFresh(r.bufs, n, horizon_at(t))
<1>1. PICK r : r = evict_samples(st, t)
  OBVIOUS
<1>2. /\ StoreOK(r, n)
      /\ r.overflowed = st.overflowed
      /\ \A i \in 1 .. n : BufKept(st.bufs[i], r.bufs[i], T)
      /\ Evicts => \A i \in 1 .. n :
            (\A m \in SeriesName : SortedUpto(st.bufs[i].q[m], T)) => Fresh(r.bufs[i], horizon_at(t))
  BY <1>1, EvictSamples
<1>3. CollectState /\ ~r.overflowed => \A i \in 1 .. n : ShowsState(r.bufs[i], cs[i])
  BY <1>2, ShownKept
<1>4. ASSUME InOrder(st.bufs, n, T)
      PROVE  InOrder(r.bufs, n, T) /\ AllFresh(r.bufs, n, horizon_at(t))
  BY <1>2, <1>4 DEF InOrder, AllFresh, BufKept
<1>5. AllTimed(r.bufs, cs, n)
  BY <1>2, TimedKept DEF AllTimed
<1> QED BY <1>1, <1>2, <1>3, <1>4, <1>5

\* A join records the state, derives, and ages.
LEMMA JoinKeepsSamples ==
    ASSUME LifecycleInv, SamplesOK, NEW seg \in Segment, NEW t \in Nat,
           joins(seg), JoinInstance(seg, t)
    PROVE  /\ SamplesOK'
           /\ InOrder(bufs, Len(conns), seg.ts) =>
                 /\ InOrder(bufs', Len(conns'), seg.ts)
                 /\ AllFresh(bufs', Len(conns'), horizon_at(t))
<1> DEFINE i  == live[pair_of(seg)]
           c  == joined(conns[i], seg)
           s  == slot(Store, i)
           s1 == record_state(s, c, seg.ts)
           s2 == derive_and_record(s1, c.id, seg, direction_of(c, seg.src))
           st == put(Store, i, s2)
<1>1. PICK n \in Nat, T \in Nat : n = Len(conns) /\ T = seg.ts
  BY ByIndex DEF LifecycleInv, Segment
<1>2. i \in 1 .. n
  <2>1. pair_of(seg) \in EndpointPair
    BY DEF pair_of, EndpointPair, Segment
  <2> QED BY <1>1, <2>1, ByIndex DEF LifecycleInv, ConnTypes, joins
<1>3. conns' = [conns EXCEPT ![i] = c] /\ StoreBecomes(evict_samples(st, t))
  BY DEF JoinInstance
<1>4. conns \in Seq(Conn) /\ DOMAIN conns = 1 .. n
  BY <1>1, ByIndex DEF LifecycleInv, ConnTypes
<1> HIDE DEF i, c
<1>0. c \in Conn /\ conns[i].last_at <= c.last_at /\ T <= c.last_at /\ conns[i].last_at \in Nat
  <2>1. PICK d \in Conn : d = conns[i] /\ ClosedOnBoth(d)
    BY <1>1, <1>2, ByIndex DEF LifecycleInv
  <2>2. joined(d, seg) \in Conn /\ d.last_at <= joined(d, seg).last_at
        /\ joined(d, seg).last_at = later(d.last_at, seg.ts)
    BY <2>1, JoinedFields
  <2> QED BY <1>1, <2>1, <2>2 DEF c, Conn, later
<1>5. /\ Len(conns') = n /\ conns'[i] = c
      /\ \A j \in 1 .. n : j # i => conns'[j] = conns[j]
  BY <1>1, <1>2, <1>3, <1>4
<1>6. PICK a : a = Store
  OBVIOUS
<1>7. StoreOK(a, n) /\ a.bufs = bufs /\ a.overflowed = overflowed
  BY <1>1, <1>6 DEF SamplesOK, Store
<1>8. PICK rest \in Nat :
              /\ SlotOK(slot(a, i), rest)
              /\ \A r : SlotOK(r, rest) =>
                    /\ StoreOK(put(a, i, r), n)
                    /\ put(a, i, r).bufs[i] = r.buf
                    /\ put(a, i, r).overflowed = r.overflowed
                    /\ \A j \in 1 .. n : j # i => put(a, i, r).bufs[j] = a.bufs[j]
  BY <1>2, <1>7, SlotOfStore
<1>9. SlotOK(s, rest) /\ s.buf = bufs[i] /\ s.overflowed = overflowed
  BY <1>6, <1>7, <1>8 DEF slot
<1> HIDE DEF s
<1>10. /\ SlotOK(s1, rest) /\ OrderKept(s, s1, T)
       /\ CollectState /\ ~s1.overflowed => ShowsState(s1.buf, c)
       /\ \A U : state_sample(c, T) \in U /\ Within(s.buf.q["states"], U)
                 => Within(s1.buf.q["states"], U)
  BY <1>1, <1>9, StateRecorded
<1> HIDE DEF s1
<1>11. Collects(s1, s2, rest, T)
  <2>1. direction_of(c, seg.src) \in Direction
    BY DEF direction_of, Direction
  <2> QED BY <1>1, <1>10, <2>1, DeriveCollects
<1>12. SlotOK(s2, rest) /\ BufKept(s1.buf, s2.buf, T) /\ (s1.overflowed => s2.overflowed)
  BY <1>11, CollectsBuf DEF Collects
<1> HIDE DEF s2
<1>13. CollectState /\ ~s2.overflowed => ShowsState(s2.buf, c)
  BY <1>10, <1>12, ShownKept
<1>14. /\ StoreOK(st, n) /\ st.bufs[i] = s2.buf /\ st.overflowed = s2.overflowed
       /\ \A j \in 1 .. n : j # i => st.bufs[j] = bufs[j]
  BY <1>6, <1>7, <1>8, <1>12
<1>15. overflowed => st.overflowed
  BY <1>9, <1>10, <1>12, <1>14 DEF OrderKept
<1> HIDE DEF st
<1>16. PICK cs : cs = conns'
  OBVIOUS
<1>17. CollectState /\ ~st.overflowed => \A j \in 1 .. n : ShowsState(st.bufs[j], cs[j])
  <2> SUFFICES ASSUME CollectState, ~st.overflowed, NEW j \in 1 .. n
               PROVE  ShowsState(st.bufs[j], cs[j])
    OBVIOUS
  <2>1. CASE j = i
    BY <1>5, <1>13, <1>14, <1>16, <2>1
  <2>2. CASE j # i
    <3>1. ShowsState(bufs[j], conns[j])
      BY <1>1, <1>15 DEF SamplesOK
    <3> QED BY <1>5, <1>14, <1>16, <2>2, <3>1
  <2> QED BY <2>1, <2>2
<1>18. ASSUME InOrder(bufs, n, T) PROVE InOrder(st.bufs, n, T)
  <2> SUFFICES ASSUME NEW j \in 1 .. n, NEW m \in SeriesName PROVE SortedUpto(st.bufs[j].q[m], T)
    BY DEF InOrder
  <2>0. SortedUpto(bufs[j].q[m], T)
    BY <1>18 DEF InOrder
  <2>1. CASE j = i
    BY <1>9, <1>10, <1>12, <1>14, <2>0, <2>1 DEF OrderKept, BufKept
  <2>2. CASE j # i
    BY <1>14, <2>0, <2>2
  <2> QED BY <2>1, <2>2
<1>23. AllTimed(st.bufs, cs, n)
  <2> SUFFICES ASSUME NEW j \in 1 .. n PROVE TimedAs(st.bufs[j], cs[j])
    BY DEF AllTimed
  <2>1. TimedAs(bufs[j], conns[j])
    BY <1>1 DEF SamplesOK, AllTimed
  <2>2. CASE j = i
    <3>0. c.last_at \in Nat
      BY <1>0 DEF Conn
    <3>1. /\ state_sample(c, T) \in StateSample(c.last_at)
          /\ StateSample(conns[i].last_at) \subseteq StateSample(c.last_at)
      <4>1. T \in 0 .. c.last_at /\ 0 .. conns[i].last_at \subseteq 0 .. c.last_at
        BY <1>0, <3>0
      <4>2. c.state \in ConnState /\ c.bytes \in PerDirection(Nat)
        BY <1>0 DEF Conn
      <4> QED BY <4>1, <4>2 DEF state_sample, StateSample
    <3>2. Within(s.buf.q["states"], StateSample(c.last_at))
      BY <1>9, <2>1, <2>2, <3>1 DEF TimedAs, Within
    <3>3. TimedAs(s1.buf, c)
      BY <1>10, <3>1, <3>2 DEF TimedAs
    <3>4. TimedAs(s2.buf, c)
      BY <1>12, <3>3, TimedKept
    <3> QED BY <1>5, <1>14, <1>16, <2>2, <3>4
  <2>3. CASE j # i
    BY <1>5, <1>14, <1>16, <2>1, <2>3
  <2> QED BY <2>2, <2>3
<1>19. PICK r : r = evict_samples(st, t)
  OBVIOUS
<1>20. /\ StoreOK(r, n)
       /\ CollectState /\ ~r.overflowed => \A j \in 1 .. n : ShowsState(r.bufs[j], cs[j])
       /\ AllTimed(r.bufs, cs, n)
       /\ InOrder(st.bufs, n, T) => InOrder(r.bufs, n, T) /\ AllFresh(r.bufs, n, horizon_at(t))
  BY <1>14, <1>17, <1>19, <1>23, AgedStore
<1>21. StoreOK(Store', n) /\ bufs' = r.bufs /\ overflowed' = r.overflowed
  BY <1>3, <1>19, <1>20, StoreTakes
<1>22. SamplesOK'
  BY <1>5, <1>16, <1>20, <1>21 DEF SamplesOK
<1> QED BY <1>1, <1>5, <1>18, <1>20, <1>21, <1>22

\* A new instance starts without samples; it derives, records its state, and all age.
LEMMA CreateKeepsSamples ==
    ASSUME LifecycleInv, SamplesOK, NEW seg \in Segment, NEW t \in Nat, CreateInstance(seg, t)
    PROVE  /\ SamplesOK'
           /\ InOrder(bufs, Len(conns), seg.ts) =>
                 /\ InOrder(bufs', Len(conns'), seg.ts)
                 /\ AllFresh(bufs', Len(conns'), horizon_at(t))
<1> DEFINE pair == pair_of(seg)
           c    == open_instance([pair |-> pair, instance |-> next_instance[pair]], seg)
           s0   == [buf |-> BufNew, collected |-> collected, overflowed |-> overflowed]
           s1   == derive_and_record(s0, c.id, seg, direction_of(c, seg.src))
           s2   == record_state(s1, c, seg.ts)
           st   == [bufs |-> Append(bufs, s2.buf), collected |-> s2.collected,
                    overflowed |-> s2.overflowed]
<1>1. PICK n \in Nat, T \in Nat : n = Len(conns) /\ T = seg.ts
  BY ByIndex DEF LifecycleInv, Segment
<1>2. conns' = Append(conns, c) /\ StoreBecomes(evict_samples(st, t))
  BY DEF CreateInstance
<1>3. conns \in Seq(Conn)
  BY DEF LifecycleInv, ConnTypes
<1>25. c.last_at = T /\ c \in Conn
  <2>1. pair \in EndpointPair
    BY DEF pair_of, EndpointPair, Segment
  <2>2. [pair |-> pair, instance |-> next_instance[pair]] \in ConnId
    BY <2>1 DEF ConnId, LifecycleInv, ConnTypes
  <2> HIDE DEF pair
  <2> QED BY <1>1, <2>2, OpenedFields
<1> HIDE DEF c
<1>4. /\ Len(conns') = n + 1 /\ conns'[n + 1] = c
      /\ \A j \in 1 .. n : conns'[j] = conns[j]
  <2>1. PICK cs : cs = conns
    OBVIOUS
  <2>2. IsSeq(cs)
    BY <1>3, <2>1 DEF IsSeq
  <2>3. /\ Len(Append(cs, c)) = Len(cs) + 1
        /\ \A j \in 1 .. Len(cs) : Append(cs, c)[j] = cs[j]
        /\ Append(cs, c)[Len(cs) + 1] = c
    BY <2>2, SeqPush
  <2> QED BY <1>1, <1>2, <2>1, <2>3
<1>5. /\ Bufs(bufs, n) /\ collected = recount(bufs) /\ overflowed \in BOOLEAN
      /\ Ceiling(collected, overflowed) /\ collected \in Nat
  BY <1>1, RecountNat DEF SamplesOK, StoreOK, Store
<1>6. PICK rest \in Nat : rest = collected
  BY <1>5
<1>7. BufShape(BufNew) /\ retained(BufNew) = 0 /\ \A m \in SeriesName : BufNew.q[m] = <<>>
  <2>1. \A m \in SeriesName : BufNew.q[m] = <<>>
    BY DEF BufNew
  <2>2. /\ "states" \in SeriesName /\ "series" \in SeriesName /\ "seq" \in SeriesName
        /\ "inflight" \in SeriesName /\ "rtt" \in SeriesName /\ "throughput" \in SeriesName
    BY SixSeries
  <2>3. IsSeq(<<>>)
    BY DEF IsSeq
  <2>4. /\ DOMAIN BufNew = {"metrics", "srtt", "unwrap", "q"} /\ DOMAIN BufNew.q = SeriesName
    BY DEF BufNew
  <2>5. Len(<<>>) = 0
    OBVIOUS
  <2>9. Typed(BufNew)
    <3>1. DirStateNew \in DirState
      BY EmptySeq DEF DirStateNew, DirState
    <3>2. /\ BufNew.metrics \in [Direction -> DirState]
          /\ BufNew.srtt \in [Direction -> Nat \cup {None}]
          /\ BufNew.unwrap \in [Direction -> Unwrap]
      BY <3>1 DEF BufNew, MetricStateNew, Unwrap
    <3>3. \A m \in DetailSeries : Within(BufNew.q[m], Sample(m))
      BY <2>1, <2>2, <2>5 DEF DetailSeries, Within
    <3> HIDE DEF BufNew
    <3> QED BY <3>2, <3>3 DEF Typed
  <2>6. BufShape(BufNew)
    BY <2>1, <2>3, <2>4, <2>9 DEF BufShape
  <2>7. /\ BufNew.q["states"] = <<>> /\ BufNew.q["series"] = <<>> /\ BufNew.q["seq"] = <<>>
        /\ BufNew.q["inflight"] = <<>> /\ BufNew.q["rtt"] = <<>>
        /\ BufNew.q["throughput"] = <<>>
    BY <2>1, <2>2
  <2> HIDE DEF BufNew
  <2>8. retained(BufNew) = 0
    BY <2>5, <2>7 DEF retained
  <2> QED BY <2>1, <2>6, <2>8
<1>8. SlotOK(s0, rest) /\ s0.buf = BufNew /\ s0.overflowed = overflowed
  BY <1>5, <1>6, <1>7 DEF SlotOK
<1> HIDE DEF s0
<1>9. Collects(s0, s1, rest, T)
  <2>1. direction_of(c, seg.src) \in Direction
    BY DEF direction_of, Direction
  <2> QED BY <1>1, <1>8, <2>1, DeriveCollects
<1>10. SlotOK(s1, rest) /\ BufKept(s0.buf, s1.buf, T) /\ (s0.overflowed => s1.overflowed)
  BY <1>9, CollectsBuf DEF Collects
<1> HIDE DEF s1
<1>11. /\ SlotOK(s2, rest) /\ OrderKept(s1, s2, T)
       /\ CollectState /\ ~s2.overflowed => ShowsState(s2.buf, c)
       /\ \A U : state_sample(c, T) \in U /\ Within(s1.buf.q["states"], U)
                 => Within(s2.buf.q["states"], U)
  BY <1>1, <1>10, StateRecorded
<1> HIDE DEF s2
<1>12. PICK bs, b : bs = bufs /\ b = s2.buf
  OBVIOUS
<1>13. /\ st.bufs = Append(bs, b) /\ st.collected = s2.collected /\ st.overflowed = s2.overflowed
       /\ DOMAIN st = {"bufs", "collected", "overflowed"}
  BY <1>12
<1> HIDE DEF st
<1>14. /\ IsSeq(st.bufs) /\ Len(st.bufs) = n + 1 /\ DOMAIN st.bufs = 1 .. n + 1
       /\ st.bufs[n + 1] = b /\ \A j \in 1 .. n : st.bufs[j] = bs[j]
  <2>1. IsSeq(bs) /\ Len(bs) = n
    BY <1>5, <1>12 DEF Bufs
  <2>2. PICK e : e = Append(bs, b)
    OBVIOUS
  <2>3. /\ IsSeq(e) /\ Len(e) = n + 1 /\ e[n + 1] = b /\ \A j \in 1 .. n : e[j] = bs[j]
    BY <2>1, <2>2, SeqPush
  <2>4. DOMAIN e = 1 .. n + 1
    BY <2>3, LenProperties DEF IsSeq
  <2> QED BY <1>13, <2>2, <2>3, <2>4
<1>15. Bufs(st.bufs, n + 1)
  <2>1. \A j \in 1 .. n : BufShape(bs[j])
    BY <1>5, <1>12 DEF Bufs
  <2>2. BufShape(b)
    BY <1>11, <1>12 DEF SlotOK
  <2>3. \A j \in 1 .. n + 1 : BufShape(st.bufs[j])
    BY <1>14, <2>1, <2>2
  <2> QED BY <1>14, <2>3 DEF Bufs
<1>16. StoreOK(st, n + 1)
  <2>1. Bufs(bs, n)
    BY <1>5, <1>12
  <2>2. recount(st.bufs) = recount(bs) + retained(st.bufs[n + 1])
    BY <1>14, <1>15, <2>1, RecountAppend
  <2>3. st.collected = recount(st.bufs)
    BY <1>5, <1>6, <1>11, <1>12, <1>13, <1>14, <2>2 DEF SlotOK
  <2> QED BY <1>11, <1>13, <1>15, <2>3 DEF StoreOK, SlotOK
<1>17. overflowed => st.overflowed
  BY <1>8, <1>10, <1>11, <1>13 DEF OrderKept
<1>18. PICK cs : cs = conns'
  OBVIOUS
<1>19. CollectState /\ ~st.overflowed => \A j \in 1 .. n + 1 : ShowsState(st.bufs[j], cs[j])
  <2> SUFFICES ASSUME CollectState, ~st.overflowed, NEW j \in 1 .. n + 1
               PROVE  ShowsState(st.bufs[j], cs[j])
    OBVIOUS
  <2>1. CASE j = n + 1
    BY <1>4, <1>11, <1>12, <1>13, <1>14, <1>18, <2>1
  <2>2. CASE j # n + 1
    <3>1. j \in 1 .. n
      BY <2>2
    <3>2. ShowsState(bufs[j], conns[j])
      BY <1>1, <1>17, <3>1 DEF SamplesOK
    <3> QED BY <1>4, <1>12, <1>14, <1>18, <3>1, <3>2
  <2> QED BY <2>1, <2>2
<1>20. ASSUME InOrder(bufs, n, T) PROVE InOrder(st.bufs, n + 1, T)
  <2> SUFFICES ASSUME NEW j \in 1 .. n + 1, NEW m \in SeriesName
               PROVE  SortedUpto(st.bufs[j].q[m], T)
    BY DEF InOrder
  <2>1. CASE j = n + 1
    <3>1. SortedUpto(BufNew.q[m], T)
      BY <1>7 DEF SortedUpto
    <3> QED BY <1>8, <1>10, <1>11, <1>12, <1>14, <2>1, <3>1 DEF OrderKept, BufKept
  <2>2. CASE j # n + 1
    <3>1. j \in 1 .. n
      BY <2>2
    <3> QED BY <1>12, <1>14, <1>20, <3>1 DEF InOrder
  <2> QED BY <2>1, <2>2
<1>26. AllTimed(st.bufs, cs, n + 1)
  <2> SUFFICES ASSUME NEW j \in 1 .. n + 1 PROVE TimedAs(st.bufs[j], cs[j])
    BY DEF AllTimed
  <2>1. CASE j = n + 1
    <3>1. TimedAs(s0.buf, c)
      <4>1. Len(<<>>) = 0 /\ s0.buf.q["states"] = <<>>
        BY <1>7, <1>8, SixSeries
      <4> QED BY <4>1 DEF TimedAs, Within
    <3>2. TimedAs(s1.buf, c)
      BY <1>10, <3>1, TimedKept
    <3>3. state_sample(c, T) \in StateSample(c.last_at)
      BY <1>25 DEF state_sample, StateSample, Conn
    <3>4. TimedAs(s2.buf, c)
      BY <1>11, <3>2, <3>3 DEF TimedAs
    <3> QED BY <1>4, <1>12, <1>14, <1>18, <2>1, <3>4
  <2>2. CASE j # n + 1
    <3>1. j \in 1 .. n
      BY <2>2
    <3>2. TimedAs(bufs[j], conns[j])
      BY <1>1, <3>1 DEF SamplesOK, AllTimed
    <3> QED BY <1>4, <1>12, <1>14, <1>18, <3>1, <3>2
  <2> QED BY <2>1, <2>2
<1>21. PICK k \in Nat : k = n + 1
  OBVIOUS
<1>0. PICK r : r = evict_samples(st, t)
  OBVIOUS
<1>22. /\ StoreOK(r, k)
       /\ CollectState /\ ~r.overflowed => \A j \in 1 .. k : ShowsState(r.bufs[j], cs[j])
       /\ AllTimed(r.bufs, cs, k)
       /\ InOrder(st.bufs, k, T) => InOrder(r.bufs, k, T) /\ AllFresh(r.bufs, k, horizon_at(t))
  BY <1>16, <1>19, <1>21, <1>26, <1>0, AgedStore
<1>23. StoreOK(Store', k) /\ bufs' = r.bufs /\ overflowed' = r.overflowed
  BY <1>2, <1>0, <1>22, StoreTakes
<1>24. SamplesOK'
  BY <1>4, <1>18, <1>21, <1>22, <1>23 DEF SamplesOK
<1> QED BY <1>1, <1>4, <1>20, <1>21, <1>22, <1>23, <1>24

\* A tick emits decay samples, ages, and removes dead connections with their samples.
LEMMA TickKeepsSamples ==
    ASSUME LifecycleInv, SamplesOK, now \in Nat, NEW t \in Nat, ObserveTick(t)
    PROVE  /\ SamplesOK'
           /\ InOrder(bufs, Len(conns), later(now, t)) =>
                 /\ InOrder(bufs', Len(conns'), later(now, t))
                 /\ AllFresh(bufs', Len(conns'), horizon_at(later(now, t)))
<1> DEFINE I == survivors(later(now, t))
<1>1. PICK n \in Nat, T \in Nat : n = Len(conns) /\ T = later(now, t)
  BY ByIndex DEF LifecycleInv, later
<1>2. PICK e : e = emit_decay_samples(T)
  OBVIOUS
<1>3. /\ StoreOK(e, n) /\ (overflowed => e.overflowed)
      /\ \A i \in 1 .. n : BufKept(bufs[i], e.bufs[i], T)
  BY <1>1, <1>2, EmitDecay DEF SamplesOK
<1>4. PICK cs : cs = conns
  OBVIOUS
<1>5. CollectState /\ ~e.overflowed => \A i \in 1 .. n : ShowsState(e.bufs[i], cs[i])
  BY <1>1, <1>3, <1>4, ShownKept DEF SamplesOK
<1>12. AllTimed(e.bufs, cs, n)
  BY <1>1, <1>3, <1>4, TimedKept DEF SamplesOK, AllTimed
<1>6. InOrder(bufs, n, T) => InOrder(e.bufs, n, T)
  BY <1>3 DEF InOrder, BufKept
<1>7. PICK r : r = evict_samples(e, T)
  OBVIOUS
<1>8. /\ StoreOK(r, n)
      /\ CollectState /\ ~r.overflowed => \A i \in 1 .. n : ShowsState(r.bufs[i], cs[i])
      /\ AllTimed(r.bufs, cs, n)
      /\ InOrder(e.bufs, n, T) => InOrder(r.bufs, n, T) /\ AllFresh(r.bufs, n, horizon_at(T))
  BY <1>3, <1>5, <1>7, <1>12, AgedStore
<1>9. Evicts /\ EvictDeadConnections(r, T)
  BY <1>1, <1>2, <1>7 DEF ObserveTick, TickArrives
<1>10. CASE I = DOMAIN conns
  <2>1. StoreBecomes(r) /\ conns' = conns
    BY <1>1, <1>9, <1>10 DEF EvictDeadConnections
  <2>2. StoreOK(Store', n) /\ bufs' = r.bufs /\ overflowed' = r.overflowed
    BY <1>8, <2>1, StoreTakes
  <2>3. SamplesOK'
    BY <1>1, <1>4, <1>8, <2>1, <2>2 DEF SamplesOK
  <2> QED BY <1>1, <1>6, <1>8, <2>1, <2>2, <2>3
<1>11. CASE I # DOMAIN conns
  <2> DEFINE held == retain(r.bufs, I)
             st   == [r EXCEPT !.bufs = held, !.collected = recount(held)]
  <2>1. /\ conns' = retain(conns, I) /\ live' = rebuilt(retain(conns, I))
        /\ next_instance' = pruned(retain(conns, I)) /\ StoreBecomes(st)
    BY <1>1, <1>9, <1>11 DEF EvictDeadConnections
  <2>2. I \in SUBSET DOMAIN conns
    BY DEF survivors
  <2> HIDE DEF I
  <2>3. Compacts(I)
    BY <2>1 DEF Compacts
  <2>4. ConnTypes
    BY DEF LifecycleInv
  <2>5. PICK k \in Nat : k = Cardinality(I)
    BY <2>2, <2>3, <2>4, Compacted
  <2>6. /\ Len(conns') = k
        /\ \A j \in 1 .. k : nth(I, j) \in 1 .. n /\ conns'[j] = conns[nth(I, j)]
    BY <1>1, <2>2, <2>3, <2>4, <2>5, Compacted, ByIndex
  <2>7. held = [j \in 1 .. k |-> r.bufs[nth(I, j)]]
    BY <2>5 DEF retain
  <2>8. DOMAIN held = 1 .. k /\ \A j \in 1 .. k : held[j] = r.bufs[nth(I, j)]
    BY <2>7
  <2>9. IsSeq(held) /\ Len(held) = k
    <3>1. held \in [1 .. k -> {r.bufs[nth(I, j)] : j \in 1 .. k}]
      BY <2>7
    <3> HIDE DEF held
    <3>2. held \in Seq({r.bufs[nth(I, j)] : j \in 1 .. k})
      BY <3>1
    <3>3. PICK l \in Nat : l = Len(held) /\ 1 .. l = 1 .. k
      BY <2>8, <3>2, LenProperties
    <3>4. l = k
      BY ONLY <3>3, l \in Nat, k \in Nat
    <3> QED BY <3>2, <3>3, <3>4 DEF IsSeq
  <2> HIDE DEF held
  <2>10. Bufs(held, k)
    <3>1. \A j \in 1 .. n : BufShape(r.bufs[j])
      BY <1>8 DEF StoreOK, Bufs
    <3>2. \A j \in 1 .. k : BufShape(held[j])
      BY <2>6, <2>8, <3>1
    <3> QED BY <2>8, <2>9, <3>2 DEF Bufs
  <2>11. /\ DOMAIN st = {"bufs", "collected", "overflowed"} /\ st.bufs = held
         /\ st.collected = recount(held) /\ st.overflowed = r.overflowed
    BY <1>8 DEF StoreOK
  <2> HIDE DEF st
  <2>12. StoreOK(st, k)
    BY <1>8, <1>9, <2>10, <2>11 DEF StoreOK, Ceiling
  <2>13. StoreOK(Store', k) /\ bufs' = held /\ overflowed' = r.overflowed
    BY <2>1, <2>11, <2>12, StoreTakes
  <2>14. ASSUME CollectState, ~overflowed', NEW j \in 1 .. k
         PROVE  ShowsState(bufs'[j], conns'[j])
    <3>1. nth(I, j) \in 1 .. n
      BY <2>6
    <3>2. ShowsState(r.bufs[nth(I, j)], cs[nth(I, j)])
      BY <1>8, <2>13, <2>14, <3>1
    <3> QED BY <1>4, <2>6, <2>8, <2>13, <3>2
  <2>17. ASSUME NEW j \in 1 .. k PROVE TimedAs(bufs'[j], conns'[j])
    BY <1>4, <1>8, <2>6, <2>8, <2>13 DEF AllTimed
  <2>15. SamplesOK'
    BY <2>6, <2>13, <2>14, <2>17 DEF SamplesOK, AllTimed
  <2>16. ASSUME InOrder(r.bufs, n, T), AllFresh(r.bufs, n, horizon_at(T))
         PROVE  InOrder(bufs', k, T) /\ AllFresh(bufs', k, horizon_at(T))
    BY <2>6, <2>8, <2>13, <2>16 DEF InOrder, AllFresh
  <2> QED BY <1>1, <1>6, <1>8, <2>6, <2>15, <2>16
<1> QED BY <1>10, <1>11

(***************************************************************************)
(* The inductive invariant holds of every reachable state, under both      *)
(* policies, whatever is collected, with timestamps in any order.          *)
(***************************************************************************)
THEOREM RetentionInvariant == Spec => []RetentionInv
<1>1. Init => RetentionInv
  <2> SUFFICES ASSUME Init PROVE RetentionInv
    OBVIOUS
  <2>1. conns = <<>> /\ bufs = <<>> /\ collected = 0 /\ ~overflowed /\ overflowed \in BOOLEAN
    BY DEF Init
  <2>2. IsSeq(<<>>) /\ Len(<<>>) = 0 /\ DOMAIN <<>> = 1 .. 0
    BY DEF IsSeq
  <2>3. Bufs(<<>>, 0)
    BY <2>2 DEF Bufs
  <2>4. recount(<<>>) = 0
    BY <2>3, RecountNat
  <2>5. Ceiling(0, overflowed)
    BY <2>1, RetentionAssumption DEF Ceiling
  <2>6. StoreOK(Store, 0)
    BY <2>1, <2>3, <2>4, <2>5 DEF StoreOK, Store
  <2>7. SamplesOK
    BY <2>1, <2>2, <2>6 DEF SamplesOK, AllTimed
  <2> QED BY <2>7 DEF Init, RetentionInv
<1>2. ASSUME LifecycleInv, RetentionInv, [Next]_vars PROVE RetentionInv'
  <2>1. now \in Nat /\ segs \in Nat /\ clock \in Nat /\ SamplesOK
    BY <1>2 DEF RetentionInv
  <2>2. ASSUME NEW g \in Segments, NEW t \in Time, ObserveJoin(g @@ [ts |-> t])
        PROVE  RetentionInv'
    <3>1. PICK seg \in Segment : ObserveJoin(seg)
      BY <2>2, CapturedSegment
    <3>2. PICK at \in Nat : at = later(now, seg.ts)
      BY <2>1 DEF later, Segment
    <3>3. SamplesOK'
      BY <1>2, <2>1, <3>1, <3>2, JoinKeepsSamples DEF ObserveJoin
    <3> QED BY <2>1, <3>1, <3>2, <3>3 DEF RetentionInv, ObserveJoin, Arrives
  <2>3. ASSUME NEW g \in Segments, NEW t \in Time, ObserveCreate(g @@ [ts |-> t])
        PROVE  RetentionInv'
    <3>1. PICK seg \in Segment : ObserveCreate(seg)
      BY <2>3, CapturedSegment
    <3>2. PICK at \in Nat : at = later(now, seg.ts)
      BY <2>1 DEF later, Segment
    <3>3. SamplesOK'
      BY <1>2, <2>1, <3>1, <3>2, CreateKeepsSamples DEF ObserveCreate
    <3> QED BY <2>1, <3>1, <3>2, <3>3 DEF RetentionInv, ObserveCreate, Arrives
  <2>4. ASSUME NEW t \in Time, ObserveTick(t) PROVE RetentionInv'
    <3>1. t \in Nat
      BY TrackerAssumption DEF Time
    <3>2. SamplesOK'
      BY <1>2, <2>1, <2>4, <3>1, TickKeepsSamples
    <3> QED BY <2>1, <2>4, <3>1, <3>2 DEF RetentionInv, ObserveTick, TickArrives, later
  <2>5. CASE UNCHANGED vars
    <3>1. /\ conns' = conns /\ bufs' = bufs /\ collected' = collected /\ overflowed' = overflowed
          /\ now' = now /\ segs' = segs /\ clock' = clock
      BY <2>5 DEF vars
    <3>2. Store' = Store
      BY <3>1 DEF Store
    <3>3. SamplesOK'
      BY <2>1, <3>1, <3>2 DEF SamplesOK
    <3> QED BY <2>1, <3>1, <3>3 DEF RetentionInv
  <2> QED BY <1>2, <2>2, <2>3, <2>4, <2>5 DEF Next
<1> QED BY <1>1, <1>2, LifecycleInvariant, PTL DEF Spec

(***************************************************************************)
(* Type correctness of the tracker: the sample vector stays as long as the *)
(* connection vector through joins, creations and compactions.             *)
(***************************************************************************)
THEOREM TrackerTypes == Spec => []TypeOK
<1>1. LifecycleInv /\ RetentionInv => TypeOK
  <2> SUFFICES ASSUME LifecycleInv, RetentionInv PROVE TypeOK
    OBVIOUS
  <2>1. Bufs(bufs, Len(conns)) /\ collected = recount(bufs) /\ overflowed \in BOOLEAN
    BY DEF RetentionInv, SamplesOK, StoreOK, Store
  <2>2. PICK n \in Nat : n = Len(conns)
    BY ByIndex DEF LifecycleInv
  <2>3. collected \in Nat /\ Len(bufs) = Len(conns)
    BY <2>1, <2>2, RecountNat DEF Bufs
  <2> QED BY <2>1, <2>3 DEF TypeOK, LifecycleInv, ConnTypes, RetentionInv
<1> QED BY <1>1, LifecycleInvariant, RetentionInvariant, PTL

(***************************************************************************)
(* The tracker-wide count is the number of samples in the queues, so       *)
(* admission decides on the true number, for every interleaving of         *)
(* segments and ticks, every policy and every choice of collectors.        *)
(***************************************************************************)
THEOREM CountIsExact == Spec => []CollectedExact
<1>1. RetentionInv => CollectedExact
  BY DEF RetentionInv, SamplesOK, StoreOK, Store, CollectedExact
<1> QED BY <1>1, RetentionInvariant, PTL

(***************************************************************************)
(* FailFast never retains more than max_samples and reports overflow only  *)
(* at the ceiling; Evict never overflows.                                  *)
(***************************************************************************)
THEOREM CeilingIsHeld == Spec => []CeilingHolds
<1>1. RetentionInv => CeilingHolds
  BY DEF RetentionInv, SamplesOK, StoreOK, Store, Ceiling, CeilingHolds
<1> QED BY <1>1, RetentionInvariant, PTL

(***************************************************************************)
(* Until the ceiling trips the newest state sample of a connection is its  *)
(* current state: the backstop and ageing drop any sample but that one.    *)
(***************************************************************************)
THEOREM CurrentStateStays == Spec => []CurrentStateRetained
<1>1. LifecycleInv /\ RetentionInv => CurrentStateRetained
  <2> SUFFICES ASSUME LifecycleInv, RetentionInv, CollectState, ~overflowed,
                      NEW i \in DOMAIN conns
               PROVE  LET states == bufs[i].q["states"]
                      IN  /\ states # <<>>
                          /\ Last(states).state = conns[i].state
                          /\ Last(states).bytes = conns[i].bytes
    BY DEF CurrentStateRetained
  <2>1. ShowsState(bufs[i], conns[i])
    BY ByIndex DEF LifecycleInv, RetentionInv, SamplesOK
  <2>2. Len(<<>>) = 0
    OBVIOUS
  <2> QED BY <2>1, <2>2 DEF ShowsState
<1> QED BY <1>1, LifecycleInvariant, RetentionInvariant, PTL

-----------------------------------------------------------------------------
(***************************************************************************)
(* With ordered timestamps.                                                *)
(***************************************************************************)
OrderedInv ==
    /\ InOrder(bufs, Len(conns), now)
    /\ AllFresh(bufs, Len(conns), horizon_at(now))

\* A series in order up to T is in order up to a later time.
LEMMA LaterOrder ==
    ASSUME NEW bs, NEW n, NEW T \in Nat, InOrder(bs, n, T), NEW U \in Nat, T <= U
    PROVE  InOrder(bs, n, U)
<1>1. ASSUME NEW s, SortedUpto(s, T) PROVE SortedUpto(s, U)
  BY <1>1 DEF SortedUpto
<1> QED BY <1>1 DEF InOrder

\* With ordered timestamps every series is in time order, and fresh.
LEMMA OrderedInvariant ==
    ASSUME Jitter = 0
    PROVE  Spec => []OrderedInv
<1>1. Init => OrderedInv
  <2> SUFFICES ASSUME Init PROVE OrderedInv
    OBVIOUS
  <2>1. Len(conns) = 0
    BY DEF Init
  <2> QED BY <2>1 DEF OrderedInv, InOrder, AllFresh
<1>2. ASSUME LifecycleInv, RetentionInv, OrderedInv, [Next]_vars PROVE OrderedInv'
  <2>1. now \in Nat /\ SamplesOK /\ InOrder(bufs, Len(conns), now)
    BY <1>2 DEF RetentionInv, OrderedInv
  <2>2. ASSUME NEW g \in Segments, NEW t \in Time, ObserveJoin(g @@ [ts |-> t])
        PROVE  OrderedInv'
    <3>1. PICK seg \in Segment : ObserveJoin(seg)
      BY <2>2, CapturedSegment
    <3>2. PICK T \in Nat : T = seg.ts
      BY DEF Segment
    <3>3. T >= now /\ now' = T /\ later(now, seg.ts) = T
      BY <2>1, <3>1, <3>2 DEF ObserveJoin, Arrives, later
    <3>4. InOrder(bufs, Len(conns), T)
      BY <2>1, <3>3, LaterOrder
    <3>5. JoinInstance(seg, T) /\ joins(seg)
      BY <3>1, <3>3 DEF ObserveJoin
    <3>6. InOrder(bufs', Len(conns'), T) /\ AllFresh(bufs', Len(conns'), horizon_at(T))
      BY <1>2, <2>1, <3>2, <3>4, <3>5, JoinKeepsSamples
    <3> QED BY <3>3, <3>6 DEF OrderedInv
  <2>3. ASSUME NEW g \in Segments, NEW t \in Time, ObserveCreate(g @@ [ts |-> t])
        PROVE  OrderedInv'
    <3>1. PICK seg \in Segment : ObserveCreate(seg)
      BY <2>3, CapturedSegment
    <3>2. PICK T \in Nat : T = seg.ts
      BY DEF Segment
    <3>3. T >= now /\ now' = T /\ later(now, seg.ts) = T
      BY <2>1, <3>1, <3>2 DEF ObserveCreate, Arrives, later
    <3>4. InOrder(bufs, Len(conns), T)
      BY <2>1, <3>3, LaterOrder
    <3>5. CreateInstance(seg, T)
      BY <3>1, <3>3 DEF ObserveCreate
    <3>6. InOrder(bufs', Len(conns'), T) /\ AllFresh(bufs', Len(conns'), horizon_at(T))
      BY <1>2, <2>1, <3>2, <3>4, <3>5, CreateKeepsSamples
    <3> QED BY <3>3, <3>6 DEF OrderedInv
  <2>4. ASSUME NEW t \in Time, ObserveTick(t) PROVE OrderedInv'
    <3>1. t \in Nat
      BY TrackerAssumption DEF Time
    <3>2. PICK T \in Nat : T = later(now, t) /\ now <= T
      BY <2>1, <3>1 DEF later
    <3>3. now' = T
      BY <2>4, <3>2 DEF ObserveTick
    <3>4. InOrder(bufs, Len(conns), T)
      BY <2>1, <3>2, LaterOrder
    <3>5. InOrder(bufs', Len(conns'), T) /\ AllFresh(bufs', Len(conns'), horizon_at(T))
      BY <1>2, <2>1, <2>4, <3>1, <3>2, <3>4, TickKeepsSamples
    <3> QED BY <3>3, <3>5 DEF OrderedInv
  <2>5. CASE UNCHANGED vars
    <3>1. conns' = conns /\ bufs' = bufs /\ now' = now
      BY <2>5 DEF vars
    <3> QED BY <1>2, <3>1 DEF OrderedInv
  <2> QED BY <1>2, <2>2, <2>3, <2>4, <2>5 DEF Next
<1> QED BY <1>1, <1>2, LifecycleInvariant, RetentionInvariant, PTL DEF Spec

(***************************************************************************)
(* With ordered timestamps no series holds a sample older than the horizon *)
(* (the one states sample apart) after any segment or tick: evict_front,   *)
(* which stops at the first fresh sample, misses none because every series *)
(* is in time order - segments and decay samples alike are stamped with    *)
(* the tracker's now.                                                      *)
(***************************************************************************)
THEOREM NothingIsStale ==
    ASSUME Jitter = 0
    PROVE  Spec => []NoStaleSamples
<1>1. RetentionInv /\ LifecycleInv /\ OrderedInv => NoStaleSamples
  <2> SUFFICES ASSUME RetentionInv, LifecycleInv, OrderedInv, Evicts,
                      NEW i \in DOMAIN bufs, NEW n \in SeriesName,
                      NEW k \in 1 .. Len(bufs[i].q[n]) - keep_min(n)
               PROVE  bufs[i].q[n][k].t >= horizon_at(now)
    BY DEF NoStaleSamples
  <2>1. i \in 1 .. Len(conns)
    BY DEF RetentionInv, SamplesOK, StoreOK, Store, Bufs
  <2>2. Fresh(bufs[i], horizon_at(now))
    BY <2>1 DEF OrderedInv, AllFresh
  <2> QED BY <2>2 DEF Fresh
<1> QED BY <1>1, LifecycleInvariant, RetentionInvariant, OrderedInvariant, PTL

-----------------------------------------------------------------------------
(***************************************************************************)
(* The span of a connection.                                               *)
(***************************************************************************)
Spans(c, T) == c.opened_at <= c.last_at /\ c.last_at <= T

SpanInv == \A i \in 1 .. Len(conns) : Spans(conns[i], now)

LEMMA SpanExtends ==
    ASSUME NEW c \in Conn, NEW T \in Nat, Spans(c, T), NEW U \in Nat, T <= U
    PROVE  Spans(c, U)
BY DEF Spans, Conn

\* No connection was opened after it was last seen, or last seen after now.
LEMMA SpanInvariant == Spec => []SpanInv
<1>1. Init => SpanInv
  BY DEF Init, SpanInv
<1>2. ASSUME LifecycleInv, RetentionInv, SpanInv, [Next]_vars PROVE SpanInv'
  <2>0. /\ now \in Nat /\ DOMAIN conns = 1 .. Len(conns) /\ Len(conns) \in Nat
        /\ conns \in Seq(Conn) /\ \A j \in 1 .. Len(conns) : conns[j] \in Conn
    BY <1>2, ByIndex DEF LifecycleInv, ConnTypes, RetentionInv
  <2>1. ASSUME NEW U \in Nat, now <= U, NEW j \in 1 .. Len(conns) PROVE Spans(conns[j], U)
    BY <1>2, <2>0, <2>1, SpanExtends DEF SpanInv
  <2>2. ASSUME NEW g \in Segments, NEW t \in Time, ObserveJoin(g @@ [ts |-> t])
        PROVE  SpanInv'
    <3>1. PICK seg \in Segment : ObserveJoin(seg)
      BY <2>2, CapturedSegment
    <3> DEFINE k == live[pair_of(seg)]
               c == joined(conns[k], seg)
    <3>2. PICK T \in Nat, U \in Nat : T = seg.ts /\ U = later(now, T) /\ now <= U /\ T <= U
      BY <2>0 DEF Segment, later
    <3>3. conns' = [conns EXCEPT ![k] = c] /\ now' = U /\ joins(seg)
      BY <3>1, <3>2 DEF ObserveJoin, JoinInstance, Arrives
    <3>4. k \in 1 .. Len(conns)
      <4>1. pair_of(seg) \in EndpointPair
        BY DEF pair_of, EndpointPair, Segment
      <4> QED BY <1>2, <3>3, <4>1 DEF joins, LifecycleInv, ConnTypes
    <3>5. Spans(c, U)
      <4>1. PICK d \in Conn : d = conns[k] /\ ClosedOnBoth(d)
        BY <1>2, <3>4, ByIndex DEF LifecycleInv
      <4>2. c.opened_at = d.opened_at /\ c.last_at = later(d.last_at, T)
        BY <3>2, <4>1, JoinedFields
      <4>3. Spans(d, U) /\ d.opened_at \in Nat /\ d.last_at \in Nat
        BY <2>1, <3>2, <3>4, <4>1 DEF Conn
      <4> HIDE DEF c
      <4> QED BY <3>2, <4>2, <4>3 DEF Spans, later
    <3> HIDE DEF k, c
    <3>6. Len(conns') = Len(conns) /\ \A j \in 1 .. Len(conns) : conns'[j] = IF j = k THEN c ELSE conns[j]
      BY <2>0, <3>3
    <3>7. \A j \in 1 .. Len(conns) : Spans(conns[j], U)
      BY <2>1, <3>2
    <3> QED BY <3>3, <3>5, <3>6, <3>7 DEF SpanInv
  <2>3. ASSUME NEW g \in Segments, NEW t \in Time, ObserveCreate(g @@ [ts |-> t])
        PROVE  SpanInv'
    <3>1. PICK seg \in Segment : ObserveCreate(seg)
      BY <2>3, CapturedSegment
    <3> DEFINE pair == pair_of(seg)
               id == [pair |-> pair, instance |-> next_instance[pair]]
               c  == open_instance(id, seg)
    <3>2. PICK T \in Nat, U \in Nat : T = seg.ts /\ U = later(now, T) /\ now <= U /\ T <= U
      BY <2>0 DEF Segment, later
    <3>3. conns' = Append(conns, c) /\ now' = U
      BY <3>1, <3>2 DEF ObserveCreate, CreateInstance, Arrives
    <3>4. id \in ConnId
      BY <1>2 DEF pair_of, EndpointPair, Segment, ConnId, LifecycleInv, ConnTypes
    <3> HIDE DEF id
    <3>5. c.opened_at = T /\ c.last_at = T
      BY <3>2, <3>4, OpenedFields
    <3> HIDE DEF c
    <3>6. Spans(c, U)
      BY <3>2, <3>5 DEF Spans
    <3>7. PICK cs : cs = conns
      OBVIOUS
    <3>8. /\ Len(Append(cs, c)) = Len(cs) + 1
          /\ \A j \in 1 .. Len(cs) : Append(cs, c)[j] = cs[j]
          /\ Append(cs, c)[Len(cs) + 1] = c
      <4>1. IsSeq(cs)
        BY <2>0, <3>7 DEF IsSeq
      <4> QED BY <4>1, SeqPush
    <3>9. \A j \in 1 .. Len(cs) : Spans(cs[j], U)
      BY <2>1, <3>2, <3>7
    <3>10. PICK e : e = Append(cs, c)
      OBVIOUS
    <3>11. \A j \in 1 .. Len(e) : Spans(e[j], U)
      BY <2>0, <3>6, <3>7, <3>8, <3>9, <3>10
    <3> QED BY <3>3, <3>7, <3>10, <3>11 DEF SpanInv
  <2>4. ASSUME NEW t \in Time, ObserveTick(t) PROVE SpanInv'
    <3>1. PICK U \in Nat : U = later(now, t) /\ now <= U
      BY <2>0, TrackerAssumption DEF Time, later
    <3>2. now' = U
      BY <2>4, <3>1 DEF ObserveTick
    <3>3. conns' = conns \/ \E I \in SUBSET DOMAIN conns : Compacts(I)
      BY <2>4, TickCompacts
    <3>4. CASE conns' = conns
      BY <2>1, <3>1, <3>2, <3>4 DEF SpanInv
    <3>5. ASSUME NEW I \in SUBSET DOMAIN conns, Compacts(I) PROVE SpanInv'
      <4>1. \A j \in 1 .. Len(conns') : \E i \in 1 .. Len(conns) : conns'[j] = conns[i]
        BY <1>2, <2>0, <3>5, Compacted DEF LifecycleInv
      <4> QED BY <2>1, <3>1, <3>2, <4>1 DEF SpanInv
    <3> QED BY <3>3, <3>4, <3>5
  <2>5. CASE UNCHANGED vars
    BY <1>2, <2>5 DEF SpanInv, vars
  <2> QED BY <1>2, <2>2, <2>3, <2>4, <2>5 DEF Next
<1> QED BY <1>1, <1>2, LifecycleInvariant, RetentionInvariant, PTL DEF Spec
=============================================================================
