----------------------------- MODULE AppProofs ------------------------------
(***************************************************************************)
(* Proofs about what is read from the tracker's state (modules Timeline,   *)
(* Views and Commands), timestamps in any order, and about the interactive *)
(* app (modules App, Screen), for every capture and configuration, any     *)
(* sequence of keys and any number of frames.                              *)
(*                                                                         *)
(* SelectionShown is not inductive: the selection is only reconciled where *)
(* the rows may have changed, and moving it relies on the order of the     *)
(* rows.  AppInv adds that the timeline held is one a tracker can have     *)
(* answered with, so that display order is total; that at most one         *)
(* connection is selected; and, live, where the cursor can be.             *)
(*                                                                         *)
(* The graphs of the detail pane rest on a second invariant, Draws: the    *)
(* series held have typed samples, no span is inverted, and the transport  *)
(* has its type.  The rest are facts about one frame.                      *)
(***************************************************************************)
EXTENDS Screen, Commands, RetentionProofs

(***************************************************************************)
(* Sorting and searching.                                                  *)
(***************************************************************************)
less(S) == {p \in S \X S : p[1] < p[2]}

LEMMA IntOrders ==
    ASSUME NEW S, S \subseteq Int
    PROVE  Orders(less(S), S) /\ \A x, y \in S : <<x, y>> \in less(S) <=> x < y
<1>1. \A x, y \in S : <<x, y>> \in less(S) <=> x < y
  BY DEF less
<1>2. \A x \in S : x \in Int
  OBVIOUS
<1>3. \A x \in S : <<x, x>> \notin less(S)
  BY <1>1, <1>2
<1>4. ASSUME NEW x \in S, NEW y \in S, NEW z \in S,
             <<x, y>> \in less(S), <<y, z>> \in less(S)
      PROVE  <<x, z>> \in less(S)
  BY <1>1, <1>2, <1>4
<1>5. ASSUME NEW x \in S, NEW y \in S
      PROVE  x = y \/ <<x, y>> \in less(S) \/ <<y, x>> \in less(S)
  <2>1. x \in Int /\ y \in Int
    BY <1>2
  <2>2. x = y \/ x < y \/ y < x
    BY <2>1
  <2> QED BY <1>1, <2>2
<1> QED BY <1>1, <1>3, <1>4, <1>5 DEF Orders

\* sort and dedup of a finite set of times.
Ascends(s, n, S) ==
    /\ n \in Nat /\ s \in [1 .. n -> S]
    /\ \A x \in S : \E k \in 1 .. n : s[k] = x
    /\ \A i, j \in 1 .. n : i < j <=> s[i] < s[j]

LEMMA SortedTimes ==
    ASSUME NEW S, S \subseteq Int, IsFiniteSet(S)
    PROVE  Ascends(in_order(S, <), Cardinality(S), S)
<1> DEFINE R == less(S)
           at(k)  == CHOOSE x \in S : Cardinality({y \in S : y < x}) = k - 1
           ranked(k) == CHOOSE x \in S : Cardinality(below(R, S, x)) = k - 1
           s == [k \in 1 .. Cardinality(S) |-> ranked(k)]
<1>1. Orders(R, S) /\ \A x, y \in S : <<x, y>> \in R <=> x < y
  BY IntOrders
<1>2. Enumerates(s, S, R)
  BY <1>1, SortedByRank
<1>3. \A x \in S : below(R, S, x) = {y \in S : y < x}
  BY <1>1 DEF below
<1>4. ASSUME NEW k \in 1 .. Cardinality(S)
      PROVE  at(k) = ranked(k)
  <2>1. \A x \in S : Cardinality({y \in S : y < x}) = k - 1 <=> Cardinality(below(R, S, x)) = k - 1
    BY <1>3
  <2> HIDE DEF R
  <2> QED BY <2>1
<1>5. in_order(S, <) = s
  <2>1. in_order(S, <) = [k \in 1 .. Cardinality(S) |-> at(k)]
    BY Zenon DEF in_order
  <2> HIDE DEF at, ranked
  <2> QED BY <1>4, <2>1
<1>6. Cardinality(S) \in Nat
  BY FS_CardinalityType
<1> HIDE DEF s, R
<1>7. \A i \in 1 .. Cardinality(S) : s[i] \in S
  BY <1>2 DEF Enumerates
<1>8. Ascends(s, Cardinality(S), S)
  BY <1>1, <1>2, <1>6, <1>7 DEF Ascends, Enumerates
<1> QED BY <1>5, <1>8

\* Max and Min of a finite set of numbers.
LEMMA MaxIsGreatest ==
    ASSUME NEW S, S \subseteq Int, S # {}, IsFiniteSet(S)
    PROVE  /\ Max(S) \in S /\ \A y \in S : y <= Max(S)
           /\ Min(S) \in S /\ \A y \in S : Min(S) <= y
<1> DEFINE s == in_order(S, <)
           n == Cardinality(S)
<1>1. Ascends(s, n, S)
  BY SortedTimes
<1> HIDE DEF s, n
<1>2. PICK x \in S : TRUE
  OBVIOUS
<1>3. n \in Nat /\ n \in 1 .. n
  BY <1>1, <1>2 DEF Ascends
<1>4. s[n] \in S
  BY <1>1, <1>3 DEF Ascends
<1>5. s[1] \in S /\ 1 \in 1 .. n
  BY <1>1, <1>3 DEF Ascends
<1>6. ASSUME NEW y \in S PROVE s[1] <= y
  <2>1. PICK k \in 1 .. n : s[k] = y
    BY <1>1 DEF Ascends
  <2>2. k = 1 \/ 1 < k
    BY <1>3
  <2>3. s[k] = s[1] \/ s[1] < s[k]
    BY <1>1, <1>5, <2>2 DEF Ascends
  <2>4. y \in Int /\ s[1] \in Int
    BY <1>5
  <2> QED BY <2>1, <2>3, <2>4
<1>7. ASSUME NEW y \in S PROVE s[n] >= y
  <2>1. PICK k \in 1 .. n : s[k] = y
    BY <1>1 DEF Ascends
  <2>2. k = n \/ k < n
    BY <1>3
  <2>3. s[k] = s[n] \/ s[k] < s[n]
    BY <1>1, <1>3, <2>2 DEF Ascends
  <2>4. y \in Int /\ s[n] \in Int
    BY <1>4
  <2> QED BY <2>1, <2>3, <2>4
<1> QED
  <2>1. \E m \in S : \A y \in S : m >= y
    BY <1>4, <1>7
  <2>2. Max(S) \in S /\ \A y \in S : Max(S) >= y
    BY <2>1 DEF Max
  <2>3. \E m \in S : \A y \in S : m <= y
    BY <1>5, <1>6
  <2>4. Min(S) \in S /\ \A y \in S : Min(S) <= y
    BY <2>3 DEF Min
  <2> QED BY <2>2, <2>4

\* slice::partition_point: a test that fails from some position on holds of a prefix.
LEMMA PrefixLength ==
    ASSUME NEW n \in Nat, NEW K \in SUBSET (1 .. n), \A i \in K : \A j \in 1 .. i : j \in K
    PROVE  Cardinality(K) \in 0 .. n /\ K = 1 .. Cardinality(K)
<1>1. CASE K = {}
  <2>1. Cardinality(K) = 0
    BY <1>1, FS_EmptySet
  <2> QED BY <1>1, <2>1
<1>2. CASE K # {}
  <2>1. Max(K) \in K /\ \A i \in K : i <= Max(K)
    BY <1>2, GreatestIndex
  <2>2. PICK m \in 1 .. n : m = Max(K)
    BY <2>1
  <2>3. K = 1 .. m
    <3>1. ASSUME NEW i \in K PROVE i \in 1 .. m
      BY <2>1, <2>2
    <3>2. ASSUME NEW i \in 1 .. m PROVE i \in K
      BY <2>1, <2>2
    <3> QED BY <3>1, <3>2
  <2>4. Cardinality(1 .. m) = m
    BY FS_Interval
  <2> QED BY <2>3, <2>4
<1> QED BY <1>1, <1>2

\* The two searches of next_event and prev_event.
LEMMA SearchTimes ==
    ASSUME NEW S, S \subseteq Nat, NEW n, NEW s, Ascends(s, n, S), NEW t \in Nat
    PROVE  /\ partition_point(s, LAMBDA x : x <= t) \in 0 .. n
           /\ \A i \in 1 .. n : i <= partition_point(s, LAMBDA x : x <= t) <=> s[i] <= t
           /\ partition_point(s, LAMBDA x : x < t) \in 0 .. n
           /\ \A i \in 1 .. n : i <= partition_point(s, LAMBDA x : x < t) <=> s[i] < t
<1>1. n \in Nat /\ DOMAIN s = 1 .. n /\ \A i \in 1 .. n : s[i] \in Nat
  BY DEF Ascends
<1>2. \A i, j \in 1 .. n : i <= j => s[i] <= s[j]
  BY <1>1 DEF Ascends
<1> DEFINE K == {i \in 1 .. n : s[i] <= t}
           L == {i \in 1 .. n : s[i] < t}
<1>3. {i \in DOMAIN s : \A j \in 1 .. i : s[j] <= t} = K
  <2>1. ASSUME NEW i \in 1 .. n PROVE (\A j \in 1 .. i : s[j] <= t) <=> s[i] <= t
    BY <1>1, <1>2
  <2> QED BY <1>1, <2>1
<1>4. {i \in DOMAIN s : \A j \in 1 .. i : s[j] < t} = L
  <2>1. ASSUME NEW i \in 1 .. n PROVE (\A j \in 1 .. i : s[j] < t) <=> s[i] < t
    BY <1>1, <1>2
  <2> QED BY <1>1, <2>1
<1>5. /\ K \in SUBSET (1 .. n) /\ \A i \in K : \A j \in 1 .. i : j \in K
      /\ L \in SUBSET (1 .. n) /\ \A i \in L : \A j \in 1 .. i : j \in L
  BY <1>1, <1>2
<1>6. /\ partition_point(s, LAMBDA x : x <= t) = Cardinality(K)
      /\ partition_point(s, LAMBDA x : x < t) = Cardinality(L)
  BY <1>3, <1>4 DEF partition_point
<1>7. /\ Cardinality(K) \in 0 .. n /\ K = 1 .. Cardinality(K)
      /\ Cardinality(L) \in 0 .. n /\ L = 1 .. Cardinality(L)
  <2> HIDE DEF K, L
  <2> QED BY <1>1, <1>5, PrefixLength
<1>8. PICK k \in 0 .. n, l \in 0 .. n : k = Cardinality(K) /\ l = Cardinality(L)
  BY <1>7
<1>9. \A i \in 1 .. n : (i <= k <=> s[i] <= t) /\ (i <= l <=> s[i] < t)
  <2> SUFFICES ASSUME NEW i \in 1 .. n PROVE (i <= k <=> s[i] <= t) /\ (i <= l <=> s[i] < t)
    OBVIOUS
  <2>1. (i \in K <=> i \in 1 .. k) /\ (i \in L <=> i \in 1 .. l)
    BY <1>7, <1>8
  <2>2. (i \in K <=> s[i] <= t) /\ (i \in L <=> s[i] < t)
    OBVIOUS
  <2>3. (i <= k <=> i \in 1 .. k) /\ (i <= l <=> i \in 1 .. l)
    BY <1>1
  <2> QED BY <2>1, <2>2, <2>3
<1> QED BY <1>6, <1>8, <1>9

-----------------------------------------------------------------------------
(***************************************************************************)
(* The timeline of a replay.                                               *)
(***************************************************************************)
LEMMA ReplayTimes ==
    ASSUME LifecycleInv, RetentionInv
    PROVE  LET tl == into_timeline
               E  == sample_times(bufs)
           IN  /\ tl.end \in Nat /\ E \subseteq 0 .. tl.end /\ IsFiniteSet(E)
               /\ tl.event_times = in_order(E, <)
               /\ E # {} => tl.start = Min(E)
               /\ \A i \in DOMAIN conns : conns[i].last_at \in Nat /\ conns[i].last_at <= tl.end
<1> DEFINE tl == into_timeline
           E  == sample_times(bufs)
           L  == {conns[i].last_at : i \in DOMAIN conns}
<1>1. PICK n \in Nat : n = Len(conns) /\ DOMAIN conns = 1 .. n
  BY ByIndex DEF LifecycleInv
<1>2. DOMAIN bufs = 1 .. n /\ \A i \in 1 .. n : BufShape(bufs[i]) /\ TimedAs(bufs[i], conns[i])
  BY <1>1 DEF RetentionInv, SamplesOK, StoreOK, Store, Bufs, AllTimed
<1>3. \A i \in 1 .. n : conns[i].last_at \in Nat
  BY <1>1, ByIndex DEF LifecycleInv, Conn
<1>4. L \subseteq Nat /\ IsFiniteSet(L)
  <2>1. L = {conns[i].last_at : i \in 1 .. n}
    BY <1>1
  <2>2. L \subseteq Nat
    BY <1>3, <2>1
  <2>3. PICK f : f = [i \in 1 .. n |-> conns[i].last_at]
    OBVIOUS
  <2>4. f \in Surjection(1 .. n, L)
    BY <2>1, <2>3 DEF Surjection
  <2>5. IsFiniteSet(L)
    BY <2>4, IndicesFinite, FS_Surjection
  <2> QED BY <2>2, <2>5
<1>5. /\ tl.end = IF conns = <<>> THEN 0 ELSE Max(L)
      /\ tl.event_times = in_order(E, <)
      /\ tl.start = IF E = {} THEN 0 ELSE Min(E)
  BY Zenon DEF into_timeline, with_seq, with_seq_ending
<1>6. n # 0 <=> conns # <<>>
  BY <1>1, ByIndex DEF LifecycleInv, ConnTypes
<1> HIDE DEF tl, L
<1>7. tl.end \in Nat /\ \A i \in 1 .. n : conns[i].last_at <= tl.end
  <2>1. CASE n = 0
    <3>1. tl.end = 0 /\ 0 \in Nat
      BY <1>5, <1>6, <2>1
    <3>2. 1 .. n = {}
      BY <2>1
    <3> QED BY <3>1, <3>2
  <2>2. CASE n # 0
    <3>1. \A i \in 1 .. n : conns[i].last_at \in L
      BY <1>1 DEF L
    <3>2. 1 \in 1 .. n
      BY <2>2
    <3>3. L # {} /\ L \subseteq Int
      BY <1>4, <3>1, <3>2
    <3>4. Max(L) \in L /\ \A y \in L : y <= Max(L)
      BY <1>4, <3>3, MaxIsGreatest
    <3> QED BY <1>4, <1>5, <1>6, <2>2, <3>1, <3>4
  <2> QED BY <2>1, <2>2
<1>8. ASSUME NEW e \in E PROVE e \in 0 .. tl.end
  <2>1. PICK i \in 1 .. n : \E s \in ToSet(bufs[i].q["states"]) : e = s.t
    BY <1>2, <1>8 DEF sample_times
  <2>2. PICK k \in DOMAIN bufs[i].q["states"] : e = bufs[i].q["states"][k].t
    BY <2>1 DEF ToSet
  <2>3. PICK q : q = bufs[i].q["states"]
    OBVIOUS
  <2>4. IsSeq(q) /\ Within(q, StateSample(conns[i].last_at))
    BY <1>2, <2>3, SixSeries DEF BufShape, TimedAs
  <2>5. k \in 1 .. Len(q)
    BY <2>2, <2>3, <2>4, LenProperties DEF IsSeq
  <2>6. e \in 0 .. conns[i].last_at
    BY <2>2, <2>3, <2>4, <2>5 DEF Within, StateSample
  <2> QED BY <1>3, <1>7, <2>6
<1> HIDE DEF E
<1>9. IsFiniteSet(E) /\ E \subseteq 0 .. tl.end
  <2>1. E \subseteq 0 .. tl.end
    BY <1>8
  <2>2. IsFiniteSet(0 .. tl.end)
    <3>1. PICK m \in Int : m = tl.end
      BY <1>7
    <3>2. 0 \in Int
      OBVIOUS
    <3>3. IsFiniteSet(0 .. m)
      BY ONLY <3>2, m \in Int, FS_Interval
    <3> QED BY <3>1, <3>3
  <2> QED BY <2>1, <2>2, FS_Subset
<1> QED BY <1>1, <1>3, <1>5, <1>7, <1>9 DEF tl, E

(***************************************************************************)
(* EventSteps: Timeline::next_event and prev_event, which the event keys   *)
(* of the transport use, miss no event and undo each other, and no event   *)
(* is outside of the domain the transport clamps to.                       *)
(***************************************************************************)
THEOREM EventStepsMissNone == Spec => []EventSteps
<1>1. ASSUME LifecycleInv, RetentionInv PROVE EventSteps
  <2> DEFINE T == into_timeline
             E == sample_times(bufs)
  <2>1. /\ T.end \in Nat /\ E \subseteq 0 .. T.end /\ IsFiniteSet(E)
        /\ T.event_times = in_order(E, <)
        /\ E # {} => T.start = Min(E)
    BY <1>1, ReplayTimes
  <2> SUFFICES ASSUME NEW t \in Time
               PROVE  /\ IF next_event(T, t) = None THEN \A e \in E : e <= t
                         ELSE next_event(T, t) \in E /\ \A e \in E : e > t => next_event(T, t) <= e
                      /\ t \in E /\ next_event(T, t) # None => prev_event(T, next_event(T, t)) = t
                      /\ t \in E => T.start <= t /\ t <= T.end
    BY Zenon DEF EventSteps
  <2> HIDE DEF E, T
  <2>2. t \in Nat /\ E \subseteq Nat
    <3>1. t \in Nat
      BY TrackerAssumption DEF Time
    <3>2. PICK m \in Nat : m = T.end /\ E \subseteq 0 .. m
      BY <2>1
    <3>3. E \subseteq Nat
      BY <3>2
    <3> QED BY <3>1, <3>3
  <2>3. PICK s : s = T.event_times
    OBVIOUS
  <2>4. PICK n \in Nat : Ascends(s, n, E)
    <3>1. E \subseteq Int
      BY <2>2
    <3>2. Ascends(in_order(E, <), Cardinality(E), E)
      BY <2>1, <3>1, SortedTimes
    <3>3. Cardinality(E) \in Nat
      BY <2>1, FS_CardinalityType
    <3> QED BY <2>1, <2>3, <3>2, <3>3
  <2>5. Len(s) = n /\ (\A i \in 1 .. n : s[i] \in E) /\ \A e \in E : \E i \in 1 .. n : s[i] = e
    <3>1. s \in [1 .. n -> E]
      BY <2>4 DEF Ascends
    <3>2. s \in Seq(E) /\ DOMAIN s = 1 .. n
      BY <3>1
    <3>3. PICK l \in Nat : l = Len(s) /\ 1 .. l = 1 .. n
      BY <3>2, LenProperties
    <3>4. l = n
      BY ONLY <3>3, l \in Nat, n \in Nat
    <3> QED BY <2>4, <3>1, <3>3, <3>4 DEF Ascends
  <2>6. \A i, j \in 1 .. n : (i < j <=> s[i] < s[j]) /\ (i <= j <=> s[i] <= s[j])
    <3>1. \A i \in 1 .. n : s[i] \in Nat
      BY <2>2, <2>5
    <3> QED BY <2>4, <3>1 DEF Ascends
  <2>7. PICK k \in 0 .. n : /\ k = partition_point(s, LAMBDA x : x <= t)
                            /\ \A i \in 1 .. n : i <= k <=> s[i] <= t
    BY <2>2, <2>4, SearchTimes
  <2>11. \A i \in 1 .. n : (i <= k <=> s[i] <= t) /\ s[i] \in Nat
    BY <2>2, <2>5, <2>7
  <2>12. t \in E => T.start <= t /\ t <= T.end
    <3>1. PICK m \in Nat : m = T.end /\ E \subseteq 0 .. m
      BY <2>1
    <3>2. t \in E => t <= m
      BY <3>1
    <3>3. t \in E => Min(E) <= t /\ T.start = Min(E)
      BY <2>1, <2>2, MinIsLeast
    <3> QED BY <3>1, <3>2, <3>3
  <2>8. next_event(T, t) = IF k < n THEN s[k + 1] ELSE None
    BY <2>3, <2>5, <2>7 DEF next_event
  <2>9. CASE ~(k < n)
    <3>1. next_event(T, t) = None
      BY <2>8, <2>9
    <3>2. ASSUME NEW e \in E PROVE e <= t
      <4>1. PICK i \in 1 .. n : s[i] = e
        BY <2>5
      <4>2. i <= k
        BY <2>9
      <4> QED BY <2>11, <4>1, <4>2
    <3> QED BY <2>12, <3>1, <3>2
  <2>10. CASE k < n
    <3>1. k + 1 \in 1 .. n
      BY <2>10
    <3>2. PICK e \in E : e = s[k + 1]
      BY <2>5, <3>1
    <3>3. next_event(T, t) = e /\ e \in Nat /\ e # None
      BY <2>2, <2>8, <2>10, <3>2 DEF None
    <3>4. ASSUME NEW o \in E, o > t PROVE e <= o
      <4>1. PICK i \in 1 .. n : s[i] = o
        BY <2>5
      <4>2. ~(i <= k)
        BY <2>2, <2>11, <3>4, <4>1
      <4>3. k + 1 <= i
        BY <4>2
      <4> QED BY <2>6, <3>1, <3>2, <4>1, <4>3
    <3>5. ASSUME t \in E PROVE prev_event(T, e) = t
      <4>1. PICK i \in 1 .. n : s[i] = t
        BY <2>5, <3>5
      <4>2. i <= k
        BY <2>2, <2>11, <4>1
      <4>3. k > 0 /\ k \in 1 .. n
        BY <4>2
      <4>4. PICK l \in 0 .. n : /\ l = partition_point(s, LAMBDA x : x < e)
                                /\ \A j \in 1 .. n : j <= l <=> s[j] < e
        BY <2>2, <2>4, <3>3, SearchTimes
      <4>5. \A j \in 1 .. n : j <= l <=> j < k + 1
        BY <2>6, <3>1, <3>2, <4>4
      <4>6. l = k
        BY <3>1, <4>3, <4>5
      <4>7. prev_event(T, e) = s[k]
        BY <2>3, <4>3, <4>4, <4>6 DEF prev_event
      <4>8. s[k] <= t /\ s[i] <= s[k] /\ s[k] \in Nat
        BY <2>6, <2>11, <4>2, <4>3
      <4> QED BY <2>2, <4>1, <4>7, <4>8
    <3> QED BY <2>12, <3>3, <3>4, <3>5
  <2> QED BY <2>9, <2>10
<1> QED BY <1>1, LifecycleInvariant, RetentionInvariant, PTL

-----------------------------------------------------------------------------
(***************************************************************************)
(* The as-of-t query.                                                      *)
(***************************************************************************)
\* The order of a stable sort by t.
stably(s) == {p \in (DOMAIN s) \X (DOMAIN s) :
                 s[p[1]].t < s[p[2]].t \/ (s[p[1]].t = s[p[2]].t /\ p[1] < p[2])}

TimesIn(s, n) == /\ n \in Nat /\ DOMAIN s = 1 .. n
                 /\ \A i \in 1 .. n : s[i].t \in Nat

LEMMA StablyOrders ==
    ASSUME NEW n, NEW s, TimesIn(s, n)
    PROVE  /\ Orders(stably(s), 1 .. n)
           /\ \A i, j \in 1 .. n : <<i, j>> \in stably(s) <=>
                 s[i].t < s[j].t \/ (s[i].t = s[j].t /\ i < j)
<1> DEFINE R == stably(s)
<1>1. \A i, j \in 1 .. n : <<i, j>> \in R <=> s[i].t < s[j].t \/ (s[i].t = s[j].t /\ i < j)
  BY DEF stably, TimesIn
<1> HIDE DEF R
<1>2. PICK T \in [1 .. n -> Nat] : \A i \in 1 .. n : T[i] = s[i].t
  <2>1. [i \in 1 .. n |-> s[i].t] \in [1 .. n -> Nat]
    BY DEF TimesIn
  <2> QED BY <2>1
<1>3. \A i, j \in 1 .. n : <<i, j>> \in R <=> T[i] < T[j] \/ (T[i] = T[j] /\ i < j)
  BY <1>1, <1>2
<1>4. \A i \in 1 .. n : T[i] \in Nat /\ i \in Nat
  BY <1>2 DEF TimesIn
<1>5. ASSUME NEW i \in 1 .. n PROVE <<i, i>> \notin R
  BY <1>3, <1>4
<1>6. ASSUME NEW i \in 1 .. n, NEW j \in 1 .. n, NEW k \in 1 .. n, <<i, j>> \in R, <<j, k>> \in R
      PROVE  <<i, k>> \in R
  BY <1>3, <1>4, <1>6
<1>7. ASSUME NEW i \in 1 .. n, NEW j \in 1 .. n PROVE i = j \/ <<i, j>> \in R \/ <<j, i>> \in R
  BY <1>3, <1>4
<1>8. Orders(R, 1 .. n)
  BY <1>5, <1>6, <1>7 DEF Orders
<1> QED BY <1>1, <1>8 DEF R

\* sort_by_t is the series read in that order.
LEMMA SortedSeries ==
    ASSUME NEW n, NEW s, TimesIn(s, n)
    PROVE  \E p \in [1 .. n -> 1 .. n] :
              /\ sort_by_t(s) = [k \in 1 .. n |-> s[p[k]]]
              /\ \A i \in 1 .. n : \E k \in 1 .. n : p[k] = i
              /\ \A k, l \in 1 .. n : k < l <=> <<p[k], p[l]>> \in stably(s)
<1> DEFINE R == stably(s)
           D == DOMAIN s
           at(k)     == CHOOSE i \in D : Cardinality({j \in D :
                            s[j].t < s[i].t \/ (s[j].t = s[i].t /\ j < i)}) = k - 1
           ranked(k) == CHOOSE i \in D : Cardinality(below(R, D, i)) = k - 1
           p == [k \in 1 .. Cardinality(D) |-> ranked(k)]
<1>1. n \in Nat /\ D = 1 .. n /\ IsFiniteSet(D) /\ Cardinality(D) = n
  <2>1. n \in Nat /\ D = 1 .. n
    BY DEF TimesIn
  <2>2. 1 \in Int /\ n \in Int
    BY <2>1
  <2>3. IsFiniteSet(1 .. n) /\ Cardinality(1 .. n) = IF 1 > n THEN 0 ELSE n - 1 + 1
    BY ONLY <2>2, FS_Interval
  <2>4. (IF 1 > n THEN 0 ELSE n - 1 + 1) = n
    BY <2>1
  <2> QED BY <2>1, <2>3, <2>4
<1>2. /\ Orders(R, D)
      /\ \A i, j \in D : <<i, j>> \in R <=> s[i].t < s[j].t \/ (s[i].t = s[j].t /\ i < j)
  BY <1>1, StablyOrders
<1>3. sort_by_t(s) = [k \in D |-> s[[l \in 1 .. Cardinality(D) |-> at(l)][k]]]
  BY Zenon DEF sort_by_t, in_order
<1> HIDE DEF R, D
<1>4. Enumerates(p, D, R)
  BY <1>1, <1>2, SortedByRank
<1>5. \A i \in D : below(R, D, i) = {j \in D : s[j].t < s[i].t \/ (s[j].t = s[i].t /\ j < i)}
  BY <1>2 DEF below
<1>6. ASSUME NEW k \in 1 .. Cardinality(D) PROVE at(k) = ranked(k)
  <2>1. \A i \in D : Cardinality({j \in D : s[j].t < s[i].t \/ (s[j].t = s[i].t /\ j < i)}) = k - 1
                       <=> Cardinality(below(R, D, i)) = k - 1
    BY <1>5
  <2> QED BY <2>1
<1>7. [l \in 1 .. Cardinality(D) |-> at(l)] = p
  <2> HIDE DEF at, ranked
  <2> QED BY <1>6
<1> HIDE DEF at, p
<1>8. sort_by_t(s) = [k \in 1 .. n |-> s[p[k]]]
  BY <1>1, <1>3, <1>7
<1>9. /\ p \in [1 .. n -> 1 .. n]
      /\ \A i \in 1 .. n : \E k \in 1 .. n : p[k] = i
      /\ \A k, l \in 1 .. n : k < l <=> <<p[k], p[l]>> \in R
  BY <1>1, <1>4 DEF Enumerates
<1> QED BY <1>8, <1>9 DEF R

\* The sample of s in force at t: the last, in capture order, of the latest not after t.
latest(s, t) ==
    LET K == {k \in DOMAIN s : s[k].t <= t}
    IN  {s[k] : k \in {k \in K : \A j \in K : s[j].t < s[k].t \/ (s[j].t = s[k].t /\ j <= k)}}

LEMMA SearchSeries ==
    ASSUME NEW n, NEW s, TimesIn(s, n), NEW t \in Nat
    PROVE  LET b == sort_by_t(s)
               k == partition_point(b, LAMBDA e : e.t <= t)
           IN  k \in Nat /\ latest(s, t) = IF k > 0 THEN {b[k]} ELSE {}
<1> DEFINE b == sort_by_t(s)
           P == {k \in 1 .. n : b[k].t <= t}
           J == {i \in 1 .. n : s[i].t <= t}
<1>1. n \in Nat /\ DOMAIN s = 1 .. n /\ \A i \in 1 .. n : s[i].t \in Nat
  BY DEF TimesIn
<1>2. PICK p \in [1 .. n -> 1 .. n] :
              /\ b = [k \in 1 .. n |-> s[p[k]]]
              /\ \A i \in 1 .. n : \E k \in 1 .. n : p[k] = i
              /\ \A k, l \in 1 .. n : k < l <=> <<p[k], p[l]>> \in stably(s)
  BY SortedSeries
<1>3. \A k, l \in 1 .. n : k < l <=> s[p[k]].t < s[p[l]].t \/ (s[p[k]].t = s[p[l]].t /\ p[k] < p[l])
  BY <1>2, StablyOrders
<1> HIDE DEF b
<1>4. DOMAIN b = 1 .. n /\ \A k \in 1 .. n : b[k] = s[p[k]] /\ b[k].t \in Nat
  BY <1>1, <1>2
<1>5. \A k, l \in 1 .. n : k <= l => b[k].t <= b[l].t
  <2> SUFFICES ASSUME NEW k \in 1 .. n, NEW l \in 1 .. n, k <= l PROVE b[k].t <= b[l].t
    OBVIOUS
  <2>1. k = l \/ k < l
    BY <1>1
  <2>2. CASE k = l
    BY <1>4, <2>2
  <2>3. CASE k < l
    BY <1>3, <1>4, <2>3
  <2> QED BY <2>1, <2>2, <2>3
<1>6. {k \in DOMAIN b : \A j \in 1 .. k : b[j].t <= t} = P
  <2>1. ASSUME NEW k \in 1 .. n PROVE (\A j \in 1 .. k : b[j].t <= t) <=> b[k].t <= t
    <3>1. k \in 1 .. k /\ \A j \in 1 .. k : j \in 1 .. n /\ j <= k
      BY <1>1
    <3>2. ASSUME b[k].t <= t, NEW j \in 1 .. k PROVE b[j].t <= t
      <4>1. b[j].t <= b[k].t /\ b[j].t \in Nat /\ b[k].t \in Nat
        BY <1>4, <1>5, <3>1
      <4> QED BY <3>2, <4>1
    <3> QED BY <3>1, <3>2
  <2> QED BY <1>4, <2>1
<1>7. partition_point(b, LAMBDA e : e.t <= t) = Cardinality(P)
  BY <1>6 DEF partition_point
<1>8. Cardinality(P) \in 0 .. n /\ P = 1 .. Cardinality(P)
  <2>1. P \in SUBSET (1 .. n)
    OBVIOUS
  <2>2. ASSUME NEW i \in P, NEW j \in 1 .. i PROVE j \in P
    <3>1. i \in 1 .. n /\ j \in 1 .. n /\ j <= i /\ b[i].t <= t
      BY <1>1
    <3>2. b[j].t <= b[i].t /\ b[j].t \in Nat /\ b[i].t \in Nat
      BY <1>4, <1>5, <3>1
    <3> QED BY <3>1, <3>2
  <2> HIDE DEF P
  <2> QED BY <1>1, <2>1, <2>2, PrefixLength
<1>9. PICK m \in 0 .. n : m = Cardinality(P) /\ P = 1 .. m
  BY <1>8
<1>10. \A l \in 1 .. n : s[p[l]].t <= t <=> l <= m
  <2> SUFFICES ASSUME NEW l \in 1 .. n PROVE s[p[l]].t <= t <=> l <= m
    OBVIOUS
  <2>1. l \in P <=> s[p[l]].t <= t
    BY <1>4
  <2>2. l \in P <=> l <= m
    <3>1. l \in 1 .. m <=> l <= m
      BY <1>1
    <3> HIDE DEF P
    <3> QED BY <1>9, <3>1
  <2> QED BY <2>1, <2>2
<1> HIDE DEF P
<1> DEFINE last(i) == \A j \in J : s[j].t < s[i].t \/ (s[j].t = s[i].t /\ j <= i)
<1>11. latest(s, t) = {s[i] : i \in {k \in J : last(k)}}
  BY <1>1, Zenon DEF latest
<1>12. ASSUME m = 0 PROVE latest(s, t) = {}
  <2>1. J = {}
    <3> SUFFICES ASSUME NEW i \in 1 .. n, s[i].t <= t PROVE FALSE
      OBVIOUS
    <3>1. PICK l \in 1 .. n : p[l] = i
      BY <1>2
    <3> QED BY <1>10, <1>12, <3>1
  <2>2. latest(s, t) = {}
    BY <1>11, <2>1
  <2> QED BY <1>12, <2>2
<1>13. ASSUME m > 0 PROVE latest(s, t) = {b[m]}
  <2>1. m \in 1 .. n /\ p[m] \in 1 .. n
    BY <1>2, <1>13
  <2>2. p[m] \in J
    BY <1>10, <2>1
  <2>3. ASSUME NEW j \in J PROVE j = p[m] \/ s[j].t < s[p[m]].t \/ (s[j].t = s[p[m]].t /\ j < p[m])
    <3>1. PICK l \in 1 .. n : p[l] = j
      BY <1>2
    <3>2. l <= m
      BY <1>10, <3>1
    <3>3. l = m \/ l < m
      BY <2>1, <3>2
    <3> QED BY <1>3, <2>1, <3>1, <3>3
  <2>4. last(p[m])
    <3>1. p[m] <= p[m]
      BY <2>1
    <3>2. \A j \in J : j \in Int /\ p[m] \in Int
      BY <2>1
    <3> QED BY <2>3, <3>1, <3>2
  <2>5. ASSUME NEW k \in J, last(k) PROVE k = p[m]
    <3>1. s[p[m]].t < s[k].t \/ (s[p[m]].t = s[k].t /\ p[m] <= k)
      BY <2>2, <2>5
    <3>2. k = p[m] \/ s[k].t < s[p[m]].t \/ (s[k].t = s[p[m]].t /\ k < p[m])
      BY <2>3
    <3>3. PICK x \in Nat, y \in Nat : x = s[k].t /\ y = s[p[m]].t
      BY <1>1, <2>1
    <3>4. k \in Int /\ p[m] \in Int
      BY <2>1
    <3> QED BY <3>1, <3>2, <3>3, <3>4
  <2>6. {k \in J : last(k)} = {p[m]}
    <3> HIDE DEF last, J
    <3> QED BY <2>2, <2>4, <2>5
  <2>7. latest(s, t) = {s[i] : i \in {p[m]}}
    <3> HIDE DEF last, J
    <3> QED BY <1>11, <2>6
  <2>8. latest(s, t) = {b[m]}
    BY <1>4, <2>1, <2>7
  <2> QED BY <1>13, <2>8
<1>14. m \in Nat /\ latest(s, t) = IF m > 0 THEN {b[m]} ELSE {}
  BY <1>1, <1>12, <1>13
<1>15. m = partition_point(b, LAMBDA e : e.t <= t)
  BY <1>7, <1>9
<1> QED BY <1>14, <1>15, Zenon DEF b

\* One connection of a replay's timeline.
LEMMA ReplayEntry ==
    ASSUME LifecycleInv, RetentionInv, NEW i \in DOMAIN conns, NEW t \in Nat
    PROVE  /\ DOMAIN into_timeline.entries = DOMAIN conns
           /\ into_timeline.entries[i].conn = conns[i]
           /\ seen_by(into_timeline, i, t) \in Nat
           /\ AsOf(i, t) = IF seen_by(into_timeline, i, t) > 0
                           THEN {into_timeline.entries[i].samples[seen_by(into_timeline, i, t)]}
                           ELSE {}
           /\ i \in active_indices(into_timeline, t) <=>
                 /\ conns[i].opened_at <= t
                 /\ conns[i].state \in Terminal => t <= conns[i].last_at
                 /\ t <= into_timeline.end
<1> DEFINE s == bufs[i].q["states"]
<1>1. PICK T : T = into_timeline
  OBVIOUS
<1>2. /\ DOMAIN T.entries = DOMAIN conns
      /\ T.entries[i] = entry(conns[i], bufs[i], T.end)
  <2>1. PICK e : T = with_seq_ending(conns, bufs, e)
    BY <1>1, Zenon DEF into_timeline, with_seq
  <2>2. /\ T.end = e /\ T.entries = [j \in DOMAIN conns |-> entry(conns[j], bufs[j], e)]
    BY <2>1 DEF with_seq_ending
  <2> HIDE DEF s
  <2> QED BY <2>2
<1>3. /\ T.entries[i].conn = conns[i] /\ T.entries[i].samples = sort_by_t(s)
      /\ T.entries[i].effective_end = IF conns[i].state \in Terminal THEN conns[i].last_at ELSE T.end
  BY <1>2 DEF entry, effective_end
<1>4. PICK n : TimesIn(s, n)
  <2>1. i \in 1 .. Len(conns)
    BY ByIndex DEF LifecycleInv
  <2>2. BufShape(bufs[i]) /\ TimedAs(bufs[i], conns[i])
    BY <2>1 DEF RetentionInv, SamplesOK, StoreOK, Store, Bufs, AllTimed
  <2>3. IsSeq(s) /\ Within(s, StateSample(conns[i].last_at))
    BY <2>2, SixSeries DEF BufShape, TimedAs
  <2> HIDE DEF s
  <2>4. Len(s) \in Nat /\ DOMAIN s = 1 .. Len(s)
    BY <2>3, LenProperties DEF IsSeq
  <2>5. \A k \in 1 .. Len(s) : s[k].t \in Nat
    BY <2>3 DEF Within, StateSample
  <2> QED BY <2>4, <2>5 DEF TimesIn
<1>5. PICK b : b = sort_by_t(s)
  OBVIOUS
<1>6. PICK k \in Nat : /\ k = partition_point(b, LAMBDA e : e.t <= t)
                       /\ latest(s, t) = IF k > 0 THEN {b[k]} ELSE {}
  BY <1>4, <1>5, SearchSeries
<1>7. seen_by(T, i, t) = k
  BY <1>3, <1>5, <1>6 DEF seen_by
<1>8. AsOf(i, t) = latest(s, t)
  BY Zenon DEF AsOf, latest
<1> HIDE DEF s
<1>9. AsOf(i, t) = IF k > 0 THEN {T.entries[i].samples[k]} ELSE {}
  BY <1>3, <1>5, <1>6, <1>8
<1>10. PICK end \in Nat, last \in Nat : end = T.end /\ last = conns[i].last_at /\ last <= end
  BY <1>1, ReplayTimes
<1>11. i \in active_indices(T, t) <=>
          /\ conns[i].opened_at <= t
          /\ t <= IF conns[i].state \in Terminal THEN last ELSE end
  BY <1>2, <1>3, <1>10 DEF active_indices
<1>12. t <= (IF conns[i].state \in Terminal THEN last ELSE end) <=>
          (conns[i].state \in Terminal => t <= last) /\ t <= end
  BY <1>10
<1> QED BY <1>1, <1>2, <1>3, <1>7, <1>9, <1>10, <1>11, <1>12

(***************************************************************************)
(* ReplayResolvesAsOf: Timeline::resolve_at answers, at every t, with the  *)
(* last sample in capture order of the latest ones not after t, for        *)
(* exactly the connections open at t - also when segments were captured    *)
(* out of time order, so that the series had to be sorted.                 *)
(***************************************************************************)
THEOREM ReplayIsResolvedAsOf == Spec => []ReplayResolvesAsOf
<1>1. ASSUME LifecycleInv, RetentionInv PROVE ReplayResolvesAsOf
  <2> DEFINE shown(i, e) == [id |-> conns[i].id, state |-> e.state, bytes |-> e.bytes]
             open(t) == {j \in DOMAIN conns : /\ conns[j].opened_at <= t
                                              /\ conns[j].state \in Terminal => t <= conns[j].last_at
                                              /\ t <= into_timeline.end}
  <2> SUFFICES ASSUME NEW t \in Time
               PROVE  resolve_at(into_timeline, t) =
                        UNION {{shown(i, e) : e \in AsOf(i, t)} : i \in open(t)}
    BY Zenon DEF ReplayResolvesAsOf
  <2>1. t \in Nat
    BY TrackerAssumption DEF Time
  <2>2. PICK T : T = into_timeline
    OBVIOUS
  <2>3. active_indices(T, t) = open(t)
    <3>1. ASSUME NEW i \in DOMAIN conns
          PROVE  i \in active_indices(T, t) <=>
                     /\ conns[i].opened_at <= t
                     /\ conns[i].state \in Terminal => t <= conns[i].last_at
                     /\ t <= into_timeline.end
      BY <1>1, <2>1, <2>2, ReplayEntry
    <3>2. ASSUME NEW i \in active_indices(T, t) PROVE i \in DOMAIN conns
      <4>1. i \in DOMAIN T.entries
        BY DEF active_indices
      <4>2. DOMAIN T.entries = DOMAIN conns
        BY <2>2, Zenon DEF into_timeline, with_seq, with_seq_ending
      <4> QED BY <4>1, <4>2
    <3> QED BY <3>1, <3>2
  <2>4. \A i \in open(t) : i \in DOMAIN conns
    OBVIOUS
  <2> HIDE DEF open
  <2> DEFINE k(i)    == seen_by(T, i, t)
             asof(i) == T.entries[i].samples[k(i)]
  <2>5. resolve_at(T, t) = {shown(i, asof(i)) : i \in {j \in open(t) : k(j) > 0}}
    <3>1. resolve_at(T, t) =
            {[id |-> T.entries[i].conn.id, state |-> asof(i).state, bytes |-> asof(i).bytes] :
                i \in {j \in active_indices(T, t) : k(j) > 0}}
      BY Zenon DEF resolve_at
    <3>2. \A i \in open(t) : T.entries[i].conn = conns[i]
      BY <1>1, <2>1, <2>2, <2>4, ReplayEntry
    <3> HIDE DEF asof, k
    <3> QED BY <2>3, <3>1, <3>2
  <2>6. \A i \in open(t) : AsOf(i, t) = IF k(i) > 0 THEN {asof(i)} ELSE {}
    BY <1>1, <2>1, <2>2, <2>4, ReplayEntry
  <2> HIDE DEF shown, asof, k
  <2>7. \A x : x \in resolve_at(T, t) <=> \E i \in open(t) : k(i) > 0 /\ x = shown(i, asof(i))
    BY <2>5
  <2>8. \A i \in open(t) : \A x :
           x \in {shown(i, e) : e \in AsOf(i, t)} <=> k(i) > 0 /\ x = shown(i, asof(i))
    BY <2>6
  <2>9. resolve_at(T, t) = UNION {{shown(i, e) : e \in AsOf(i, t)} : i \in open(t)}
    BY <2>7, <2>8
  <2> QED BY <2>2, <2>9
<1> QED BY <1>1, LifecycleInvariant, RetentionInvariant, PTL

-----------------------------------------------------------------------------
(***************************************************************************)
(* The list of connections.                                                *)
(***************************************************************************)
LEMMA PositionsDiffer ==
    ASSUME NEW e \in Endpoint, NEW f \in Endpoint
    PROVE  position(e) \in Nat /\ (position(e) = position(f) => e = f)
<1>1. \A x \in Endpoint : \E i \in DOMAIN EndpointOrder : EndpointOrder[i] = x
  BY ViewsAssumption DEF ToSet
<1>2. \A x \in Endpoint : position(x) \in DOMAIN EndpointOrder /\ EndpointOrder[position(x)] = x
  BY <1>1 DEF position
<1>3. \A i \in DOMAIN EndpointOrder : i \in Nat
  BY ViewsAssumption, LenProperties
<1> QED BY <1>2, <1>3

low(p) == Min({position(e) : e \in p})

high(p) == Max({position(e) : e \in p})

\* A pair is known by the positions of its lower and its higher endpoint.
LEMMA PairsDiffer ==
    ASSUME NEW p \in EndpointPair, NEW q \in EndpointPair
    PROVE  /\ low(p) \in Nat /\ high(p) \in Nat
           /\ low(p) = low(q) /\ high(p) = high(q) => p = q
<1>1. ASSUME NEW r \in EndpointPair
      PROVE  \E a \in r, b \in r : /\ a \in Endpoint /\ b \in Endpoint /\ r = {a, b}
                                   /\ low(r) = position(a) /\ high(r) = position(b)
  <2>1. PICK a \in Endpoint, b \in Endpoint : r = {a, b}
    BY DEF EndpointPair
  <2>2. PICK x \in Nat, y \in Nat : x = position(a) /\ y = position(b)
    BY PositionsDiffer
  <2>3. {position(e) : e \in r} = {x, y}
    BY <2>1, <2>2
  <2>4. low(r) = Min({x, y}) /\ high(r) = Max({x, y})
    BY <2>3 DEF low, high
  <2>5. CASE x <= y
    <3>1. Min({x, y}) = x /\ Max({x, y}) = y
      BY <2>5 DEF Min, Max
    <3> QED BY <2>1, <2>2, <2>4, <3>1
  <2>6. CASE ~(x <= y)
    <3>1. Min({x, y}) = y /\ Max({x, y}) = x
      BY <2>6 DEF Min, Max
    <3>2. r = {b, a}
      BY <2>1
    <3> QED BY <2>1, <2>2, <2>4, <3>1, <3>2
  <2> QED BY <2>5, <2>6
<1>2. PICK a \in p, b \in p : /\ a \in Endpoint /\ b \in Endpoint /\ p = {a, b}
                              /\ low(p) = position(a) /\ high(p) = position(b)
  BY <1>1
<1>3. PICK c \in q, d \in q : /\ c \in Endpoint /\ d \in Endpoint /\ q = {c, d}
                              /\ low(q) = position(c) /\ high(q) = position(d)
  BY <1>1
<1>4. low(p) \in Nat /\ high(p) \in Nat
  BY <1>2, PositionsDiffer
<1>5. low(p) = low(q) /\ high(p) = high(q) => a = c /\ b = d
  BY <1>2, <1>3, PositionsDiffer
<1> QED BY <1>2, <1>3, <1>4, <1>5

listed(S) == {p \in S \X S : listed_before(p[1], p[2])}

\* The sort key is a strict total order of connections whose ids differ.
LEMMA ListOrders ==
    ASSUME NEW S, S \subseteq Conn, \A x, y \in S : x.id = y.id => x = y
    PROVE  /\ Orders(listed(S), S)
           /\ \A x, y \in S : <<x, y>> \in listed(S) <=> listed_before(x, y)
<1> DEFINE R == listed(S)
<1>1. \A x, y \in S : <<x, y>> \in R <=> listed_before(x, y)
  BY DEF listed
<1> HIDE DEF R
<1>2. \A x \in S : /\ x.opened_at \in Nat /\ x.id \in ConnId
                   /\ x.id.pair \in EndpointPair /\ x.id.instance \in Nat
                   /\ low(x.id.pair) \in Nat /\ high(x.id.pair) \in Nat
  <2>1. \A x \in S : /\ x.opened_at \in Nat /\ x.id \in ConnId
                     /\ x.id.pair \in EndpointPair /\ x.id.instance \in Nat
    BY DEF Conn, ConnId
  <2> QED BY <2>1, PairsDiffer
<1> DEFINE o == [x \in S |-> x.opened_at]
           l == [x \in S |-> low(x.id.pair)]
           h == [x \in S |-> high(x.id.pair)]
           i == [x \in S |-> x.id.instance]
           lt(x, y) == \/ o[x] < o[y]
                       \/ o[x] = o[y] /\ l[x] < l[y]
                       \/ o[x] = o[y] /\ l[x] = l[y] /\ h[x] < h[y]
                       \/ o[x] = o[y] /\ l[x] = l[y] /\ h[x] = h[y] /\ i[x] < i[y]
<1>3. \A x \in S : o[x] \in Nat /\ l[x] \in Nat /\ h[x] \in Nat /\ i[x] \in Nat
  BY <1>2
<1>4. ASSUME NEW x \in S, NEW y \in S
      PROVE  /\ <<x, y>> \in R <=> lt(x, y)
             /\ o[x] = o[y] /\ l[x] = l[y] /\ h[x] = h[y] /\ i[x] = i[y] => x = y
  <2>1. x.id.pair = y.id.pair <=> l[x] = l[y] /\ h[x] = h[y]
    BY <1>2, PairsDiffer
  <2>2. pair_lt(x.id.pair, y.id.pair) <=> l[x] < l[y] \/ (l[x] = l[y] /\ h[x] < h[y])
    BY DEF pair_lt, low, high
  <2>3. listed_before(x, y) <=>
           o[x] < o[y] \/ (o[x] = o[y] /\ (pair_lt(x.id.pair, y.id.pair)
                                           \/ (x.id.pair = y.id.pair /\ i[x] < i[y])))
    BY DEF listed_before, id_lt
  <2>4. x.id.pair = y.id.pair /\ i[x] = i[y] => x = y
    <3>1. x.id = [pair |-> x.id.pair, instance |-> x.id.instance]
          /\ y.id = [pair |-> y.id.pair, instance |-> y.id.instance]
      BY <1>2 DEF ConnId
    <3> QED BY <3>1
  <2> HIDE DEF o, l, h, i
  <2> QED BY <1>1, <2>1, <2>2, <2>3, <2>4
<1> HIDE DEF o, l, h, i
<1>5. ASSUME NEW x \in S PROVE <<x, x>> \notin R
  BY <1>3, <1>4
<1>6. ASSUME NEW x \in S, NEW y \in S, NEW z \in S, <<x, y>> \in R, <<y, z>> \in R
      PROVE  <<x, z>> \in R
  <2>1. lt(x, y) /\ lt(y, z)
    BY <1>4, <1>6
  <2>2. lt(x, z)
    BY <1>3, <2>1
  <2> QED BY <1>4, <2>2
<1>7. ASSUME NEW x \in S, NEW y \in S PROVE x = y \/ <<x, y>> \in R \/ <<y, x>> \in R
  <2>1. lt(x, y) \/ lt(y, x) \/ (o[x] = o[y] /\ l[x] = l[y] /\ h[x] = h[y] /\ i[x] = i[y])
    BY <1>3
  <2> HIDE DEF lt
  <2> QED BY <1>4, <2>1
<1>8. Orders(R, S)
  BY <1>5, <1>6, <1>7 DEF Orders
<1> QED BY <1>1, <1>8 DEF R

IdsDiffer == \A i, j \in DOMAIN conns : conns[i].id = conns[j].id => i = j

\* Every line of the list is a tracked connection.
LEMMA ListedConns ==
    ASSUME LifecycleInv
    PROVE  /\ \A k \in DOMAIN into_connections : into_connections[k] \in ToSet(conns)
           /\ IdsDiffer
<1> DEFINE S == ToSet(conns)
           R == listed(S)
           at(k)     == CHOOSE x \in S : Cardinality({y \in S : listed_before(y, x)}) = k - 1
           ranked(k) == CHOOSE x \in S : Cardinality(below(R, S, x)) = k - 1
           s == [k \in 1 .. Cardinality(S) |-> ranked(k)]
<1>1. PICK n \in Nat : n = Len(conns) /\ DOMAIN conns = 1 .. n
  BY ByIndex DEF LifecycleInv
<1>2. \A i, j \in DOMAIN conns : conns[i].id = conns[j].id => i = j
  BY ByIndex DEF LifecycleInv, InstancesOrdered
<1>3. S = {conns[i] : i \in 1 .. n}
  BY <1>1 DEF ToSet
<1>4. S \subseteq Conn
  BY <1>1, <1>3, ByIndex DEF LifecycleInv
<1>5. \A x, y \in S : x.id = y.id => x = y
  BY <1>1, <1>2, <1>3
<1>6. IsFiniteSet(S)
  <2>1. PICK f : f = [i \in 1 .. n |-> conns[i]]
    OBVIOUS
  <2>2. f \in Surjection(1 .. n, S)
    BY <1>3, <2>1 DEF Surjection
  <2> HIDE DEF S
  <2> QED BY <2>2, IndicesFinite, FS_Surjection
<1>7. into_connections = [k \in 1 .. Cardinality(S) |-> at(k)]
  BY Zenon DEF into_connections, in_order
<1> HIDE DEF S
<1>8. Orders(R, S) /\ \A x, y \in S : <<x, y>> \in R <=> listed_before(x, y)
  BY <1>4, <1>5, ListOrders
<1> HIDE DEF R
<1>9. Enumerates(s, S, R)
  BY <1>6, <1>8, SortedByRank
<1>10. \A x \in S : below(R, S, x) = {y \in S : listed_before(y, x)}
  BY <1>8 DEF below
<1>11. ASSUME NEW k \in 1 .. Cardinality(S) PROVE at(k) = ranked(k)
  <2>1. \A x \in S : Cardinality({y \in S : listed_before(y, x)}) = k - 1
                       <=> Cardinality(below(R, S, x)) = k - 1
    BY <1>10
  <2> QED BY <2>1
<1> HIDE DEF at, ranked
<1>12. into_connections = s
  BY <1>7, <1>11
<1> HIDE DEF s
<1>13. \A k \in DOMAIN into_connections : into_connections[k] \in S
  BY <1>9, <1>12 DEF Enumerates
<1> QED BY <1>2, <1>13 DEF S, IdsDiffer

\* What the capture as read again says of a connection of the first pass.
Continues(c, d) ==
    /\ d.id = c.id /\ d.origin = c.origin /\ d.responder = c.responder
    /\ d.origin_inferred = c.origin_inferred /\ d.opened_at = c.opened_at
    /\ c.segments <= d.segments /\ c.last_at <= d.last_at

LEMMA CaptureGrows ==
    ASSUME ~Evicts, LifecycleInv, Next, NEW i \in DOMAIN conns
    PROVE  i \in DOMAIN conns' /\ Continues(conns[i], conns'[i])
<1>0. /\ DOMAIN conns = 1 .. Len(conns) /\ Len(conns) \in Nat /\ conns \in Seq(Conn)
      /\ \A j \in DOMAIN conns : conns[j] \in Conn /\ ClosedOnBoth(conns[j])
  BY ByIndex DEF LifecycleInv, ConnTypes
<1>1. \A c \in Conn : Continues(c, c)
  BY DEF Continues, Conn
<1>2. ASSUME NEW g \in Segments, NEW t \in Time, ObserveJoin(g @@ [ts |-> t])
      PROVE  i \in DOMAIN conns' /\ Continues(conns[i], conns'[i])
  <2>1. PICK seg \in Segment : ObserveJoin(seg)
    BY <1>2, CapturedSegment
  <2> DEFINE k == live[pair_of(seg)]
             c == joined(conns[k], seg)
  <2>2. conns' = [conns EXCEPT ![k] = c] /\ joins(seg)
    BY <2>1 DEF ObserveJoin, JoinInstance
  <2>3. k \in DOMAIN conns
    <3>1. pair_of(seg) \in EndpointPair
      BY DEF pair_of, EndpointPair, Segment
    <3> QED BY <1>0, <2>2, <3>1 DEF joins, LifecycleInv, ConnTypes
  <2>4. Continues(conns[k], c)
    <3>1. PICK d \in Conn : d = conns[k] /\ ClosedOnBoth(d)
      BY <1>0, <2>3
    <3>2. /\ c.id = d.id /\ c.segments = d.segments + 1 /\ d.last_at <= c.last_at
          /\ c.origin = d.origin /\ c.opened_at = d.opened_at
          /\ c.responder = d.responder /\ c.origin_inferred = d.origin_inferred
      BY <3>1, JoinedFields
    <3>3. d.segments \in Nat
      BY DEF Conn
    <3> HIDE DEF c, k
    <3> QED BY <3>1, <3>2, <3>3 DEF Continues
  <2> HIDE DEF c, k
  <2> QED BY <1>0, <1>1, <2>2, <2>3, <2>4
<1>3. ASSUME NEW g \in Segments, NEW t \in Time, ObserveCreate(g @@ [ts |-> t])
      PROVE  i \in DOMAIN conns' /\ Continues(conns[i], conns'[i])
  <2>1. PICK c : conns' = Append(conns, c)
    BY <1>3 DEF ObserveCreate, CreateInstance
  <2>2. i \in DOMAIN conns' /\ conns'[i] = conns[i]
    <3>1. PICK cs : cs = conns
      OBVIOUS
    <3>2. PICK e : e = Append(cs, c)
      OBVIOUS
    <3>3. /\ IsSeq(e) /\ Len(cs) \in Nat /\ Len(e) = Len(cs) + 1
          /\ \A j \in 1 .. Len(cs) : e[j] = cs[j]
      <4>1. IsSeq(cs)
        BY <1>0, <3>1 DEF IsSeq
      <4> QED BY <3>2, <4>1, SeqPush
    <3>4. DOMAIN e = 1 .. Len(cs) + 1
      BY <3>3, LenProperties DEF IsSeq
    <3>5. i \in 1 .. Len(cs)
      BY <1>0, <3>1
    <3>6. i \in DOMAIN e /\ e[i] = cs[i]
      BY <3>3, <3>4, <3>5
    <3> QED BY <2>1, <3>1, <3>2, <3>6
  <2> QED BY <1>0, <1>1, <2>2
<1>4. ASSUME NEW t \in Time, ObserveTick(t) PROVE FALSE
  BY <1>4 DEF ObserveTick, TickArrives
<1> QED BY <1>2, <1>3, <1>4 DEF Next

(***************************************************************************)
(* TargetFound: run_metrics, which resolves the line number to an id and   *)
(* reads the file again, dumps the connection that line shows, however     *)
(* the capture has grown.  Both commands read with FailFast.               *)
(***************************************************************************)
THEOREM TargetIsFound ==
    ASSUME ~Evicts
    PROVE  Spec => TargetFound
<1> DEFINE Dumped ==
              \A n \in 0 .. Len(conns) - 1 : \A target \in pass1(n) :
                  LET was == run_conns[n + 1]
                      is  == pass2(n, target)'
                  IN  /\ is.error # "vanished"
                      /\ \A c \in is.conns :
                            /\ c.origin = was.origin /\ c.responder = was.responder
                            /\ c.inst = was.inst /\ c.mid_stream = was.mid_stream
                            /\ c.segs >= was.segs /\ c.dur >= was.dur
<1>1. LifecycleInv => IdsDiffer
  BY ListedConns
<1>2. ASSUME LifecycleInv, LifecycleInv', IdsDiffer', [Next]_vars PROVE [Dumped]_vars
  <2> SUFFICES ASSUME Next, NEW n \in 0 .. Len(conns) - 1, NEW target \in pass1(n)
               PROVE  LET was == run_conns[n + 1]
                          is  == pass2(n, target)'
                      IN  /\ is.error # "vanished"
                          /\ \A c \in is.conns :
                                /\ c.origin = was.origin /\ c.responder = was.responder
                                /\ c.inst = was.inst /\ c.mid_stream = was.mid_stream
                                /\ c.segs >= was.segs /\ c.dur >= was.dur
    BY <1>2
  <2>1. n + 1 \in DOMAIN into_connections /\ target = into_connections[n + 1].id
    BY DEF pass1
  <2>2. PICK i \in DOMAIN conns : into_connections[n + 1] = conns[i]
    BY <1>2, <2>1, ListedConns DEF ToSet
  <2>3. PICK c, d : c = conns[i] /\ d = conns'[i]
    OBVIOUS
  <2>4. c \in Conn /\ d \in Conn /\ i \in DOMAIN conns' /\ Continues(c, d)
    <3>1. i \in DOMAIN conns' /\ Continues(conns[i], conns'[i])
      BY <1>2, CaptureGrows
    <3>2. conns \in Seq(Conn) /\ conns' \in Seq(Conn)
      BY <1>2 DEF LifecycleInv, ConnTypes
    <3> QED BY <2>3, <3>1, <3>2
  <2>5. run_conns[n + 1] = line(c) /\ target = d.id
    BY <2>1, <2>2, <2>3, <2>4 DEF run_conns, Continues
  <2> DEFINE found == {e \in into_metrics(target)' : e.id = target}
  <2>6. into_metrics(target)' = {} \/ into_metrics(target)' = {conns'[j] : j \in DOMAIN conns'}
    BY DEF into_metrics, ToSet
  <2>7. into_metrics(target)' # {} => found = {d}
    BY <1>2, <2>3, <2>4, <2>5, <2>6 DEF IdsDiffer
  <2>8. /\ pass2(n, target)'.error = IF into_metrics(target)' = {} THEN "SampleCeiling"
                                     ELSE IF found = {} THEN "vanished" ELSE "none"
        /\ pass2(n, target)'.conns = {line(e) : e \in found}
    BY DEF pass2, dumped
  <2>9. pass2(n, target)'.error # "vanished"
    BY <2>7, <2>8
  <2>10. pass2(n, target)'.conns \subseteq {line(d)}
    BY <2>7, <2>8
  <2>11. /\ line(d).origin = line(c).origin /\ line(d).responder = line(c).responder
         /\ line(d).inst = line(c).inst /\ line(d).mid_stream = line(c).mid_stream
    BY <2>4 DEF line, Continues
  <2>12. line(d).segs >= line(c).segs /\ line(d).dur >= line(c).dur
    <3>1. /\ c.opened_at \in Nat /\ c.last_at \in Nat /\ d.last_at \in Nat
          /\ c.segments \in Nat /\ d.segments \in Nat
          /\ d.opened_at = c.opened_at /\ c.segments <= d.segments /\ c.last_at <= d.last_at
      BY <2>4 DEF Conn, Continues
    <3>2. saturating_sub(d.last_at, d.opened_at) >= saturating_sub(c.last_at, c.opened_at)
      BY <3>1 DEF saturating_sub
    <3> QED BY <3>1, <3>2 DEF line
  <2> QED BY <2>5, <2>9, <2>10, <2>11, <2>12
<1> QED BY <1>1, <1>2, LifecycleInvariant, PTL DEF Spec, TargetFound

-----------------------------------------------------------------------------
(***************************************************************************)
(* The tracker's steps are those of the composed machine.                  *)
(***************************************************************************)
LEMMA AppStep == [AppNext]_appvars => [Next]_vars
<1> SUFFICES ASSUME [AppNext]_appvars PROVE [Next]_vars
  OBVIOUS
<1>1. CASE Feed
  BY <1>1 DEF Feed
<1>2. CASE Keys
  <2>1. \A m, a : Press(m, a) => UNCHANGED vars
    BY DEF Press
  <2> QED BY <1>2, <2>1 DEF Keys, KeySort, KeyDir, KeySpace, KeyEnter, KeyEsc, KeyTab, KeySlash,
              KeyMove, KeySeek, KeySpeed, KeyStep, FilterType, FilterBackspace, FilterConfirm,
              FilterCancel
<1>3. CASE Quit \/ Done \/ NoKey \/ StartReplay \/ Retarget
  BY <1>3 DEF Quit, Done, NoKey, StartReplay, Retarget, appvars
<1>4. ASSUME NEW obs, HearName(obs) PROVE UNCHANGED vars
  BY <1>4 DEF HearName
<1>5. ASSUME NEW dt, ReplayTick(dt) PROVE UNCHANGED vars
  BY <1>5 DEF ReplayTick
<1>6. CASE UNCHANGED appvars
  BY <1>6 DEF appvars
<1> QED BY <1>1, <1>2, <1>3, <1>4, <1>5, <1>6 DEF AppNext

\* What is proved of the tracker holds of the tracker inside the program.
LEMMA AppTracks == AppSpec => Spec
<1>1. AppInit => Init
  BY DEF AppInit
<1> QED BY <1>1, AppStep, PTL DEF AppSpec, Spec

-----------------------------------------------------------------------------
(***************************************************************************)
(* The order of the rows.                                                  *)
(***************************************************************************)
LEMMA IdOrders ==
    ASSUME NEW x \in ConnId, NEW y \in ConnId, NEW z \in ConnId
    PROVE  /\ ~id_lt(x, x)
           /\ id_lt(x, y) /\ id_lt(y, z) => id_lt(x, z)
           /\ x = y \/ id_lt(x, y) \/ id_lt(y, x)
<1>1. \A c \in ConnId : /\ c.pair \in EndpointPair /\ c.instance \in Nat
                        /\ low(c.pair) \in Nat /\ high(c.pair) \in Nat
  <2>1. \A c \in ConnId : c.pair \in EndpointPair /\ c.instance \in Nat
    BY DEF ConnId
  <2> QED BY <2>1, PairsDiffer
<1> DEFINE l == [c \in ConnId |-> low(c.pair)]
           h == [c \in ConnId |-> high(c.pair)]
           n == [c \in ConnId |-> c.instance]
           lt(c, d) == \/ l[c] < l[d]
                       \/ l[c] = l[d] /\ h[c] < h[d]
                       \/ l[c] = l[d] /\ h[c] = h[d] /\ n[c] < n[d]
<1>2. \A c \in ConnId : l[c] \in Nat /\ h[c] \in Nat /\ n[c] \in Nat
  BY <1>1
<1>3. ASSUME NEW c \in ConnId, NEW d \in ConnId
      PROVE  /\ id_lt(c, d) <=> lt(c, d)
             /\ l[c] = l[d] /\ h[c] = h[d] /\ n[c] = n[d] => c = d
  <2>1. c.pair = d.pair <=> l[c] = l[d] /\ h[c] = h[d]
    BY <1>1, PairsDiffer
  <2>2. pair_lt(c.pair, d.pair) <=> l[c] < l[d] \/ (l[c] = l[d] /\ h[c] < h[d])
    BY DEF pair_lt, low, high
  <2>3. id_lt(c, d) <=> pair_lt(c.pair, d.pair) \/ (c.pair = d.pair /\ n[c] < n[d])
    BY DEF id_lt
  <2>4. c.pair = d.pair /\ n[c] = n[d] => c = d
    <3>1. /\ c = [pair |-> c.pair, instance |-> c.instance]
          /\ d = [pair |-> d.pair, instance |-> d.instance]
      BY DEF ConnId
    <3> QED BY <3>1
  <2> HIDE DEF l, h, n
  <2> QED BY <2>1, <2>2, <2>3, <2>4
<1> HIDE DEF l, h, n
<1>4. ~lt(x, x) /\ (lt(x, y) /\ lt(y, z) => lt(x, z))
  BY <1>2
<1>5. lt(x, y) \/ lt(y, x) \/ (l[x] = l[y] /\ h[x] = h[y] /\ n[x] = n[y])
  BY <1>2
<1> HIDE DEF lt
<1> QED BY <1>3, <1>4, <1>5

\* s lists S, every element once.
Lists(s, S) ==
    \E n \in Nat : /\ n = Cardinality(S) /\ s \in [1 .. n -> S]
                   /\ \A x \in S : \E k \in 1 .. n : s[k] = x
                   /\ \A i, j \in 1 .. n : s[i] = s[j] => i = j

\* The samples of a timeline's entry.
Sampled(s) ==
    \E n \in Nat : /\ DOMAIN s = 1 .. n
                   /\ \A k \in 1 .. n : s[k].state \in ConnState /\ s[k].bytes \in PerDirection(Nat)

\* A timeline that a tracker can have answered with.
Entries(es, n) ==
    /\ n \in Nat /\ DOMAIN es = 1 .. n
    /\ \A i \in 1 .. n : es[i].conn \in Conn /\ Sampled(es[i].samples)
    /\ \A i, j \in 1 .. n : es[i].conn.id = es[j].conn.id => i = j

Times(s) == \E n \in Nat : s \in [1 .. n -> Nat] /\ Len(s) = n

TimelineOK(tl) == (\E n : Entries(tl.entries, n)) /\ Times(tl.event_times)

MetasOK(a) == /\ DOMAIN a.metas = ids_of(a.timeline)
              /\ \A id \in DOMAIN a.metas : a.metas[id].peer \in Endpoint

FieldNames == {"peer", "state", "bytes_up", "bytes_down"}

\* A prefix is not longer than the sequence.
LEMMA PointIn ==
    ASSUME NEW n \in Nat, NEW K, K \subseteq 1 .. n
    PROVE  Cardinality(K) \in 0 .. n
<1>1. IsFiniteSet(1 .. n) /\ Cardinality(1 .. n) = n
  <2>1. /\ IsFiniteSet(1 .. n)
        /\ Cardinality(1 .. n) = IF 1 > n THEN 0 ELSE n - 1 + 1
    BY FS_Interval
  <2> QED BY <2>1
<1>2. IsFiniteSet(K) /\ Cardinality(K) <= n
  BY <1>1, FS_Subset
<1>3. Cardinality(K) \in Nat
  BY <1>2, FS_CardinalityType
<1> QED BY <1>2, <1>3

\* What the rows of an app are.
LEMMA RowTypes ==
    ASSUME NEW a, NEW n, Entries(a.timeline.entries, n), MetasOK(a), a.sort_field \in FieldNames
    PROVE  /\ IsFiniteSet(rows(a))
           /\ \A r \in rows(a) : /\ r.id \in ConnId /\ sort_key(a, r) \in Nat
                                 /\ r.id \in ids_of(a.timeline)
           /\ \A q, r \in rows(a) : q.id = r.id => q = r
<1> DEFINE es == a.timeline.entries
           t  == a.transport.cursor
           k(i) == seen_by(a.timeline, i, t)
           row(i) == [id |-> es[i].conn.id, state |-> es[i].samples[k(i)].state,
                      bytes |-> es[i].samples[k(i)].bytes]
           I == {j \in active_indices(a.timeline, t) : k(j) > 0}
<1>1. resolve_at(a.timeline, t) = {row(i) : i \in I}
  BY Zenon DEF resolve_at
<1>2. I \subseteq 1 .. n
  BY DEF active_indices, Entries
<1>3. ASSUME NEW i \in 1 .. n, k(i) > 0
      PROVE  /\ es[i].samples[k(i)].state \in ConnState
             /\ es[i].samples[k(i)].bytes \in PerDirection(Nat)
  <2>1. PICK s : s = es[i].samples
    OBVIOUS
  <2>2. PICK m \in Nat : /\ DOMAIN s = 1 .. m
                         /\ \A j \in 1 .. m : s[j].state \in ConnState /\ s[j].bytes \in PerDirection(Nat)
    BY <2>1 DEF Entries, Sampled
  <2>3. PICK K : K = {j \in DOMAIN s : \A l \in 1 .. j : s[l].t <= t} /\ k(i) = Cardinality(K)
    BY <2>1 DEF seen_by, partition_point
  <2>4. Cardinality(K) \in 0 .. m
    BY <2>2, <2>3, PointIn
  <2>5. k(i) \in 1 .. m
    <3> HIDE DEF k
    <3> QED BY <1>3, <2>3, <2>4
  <2> HIDE DEF k
  <2> QED BY <2>1, <2>2, <2>5
<1>4. \A i \in 1 .. n : es[i].conn.id \in ConnId /\ es[i].conn.id \in ids_of(a.timeline)
  BY DEF Entries, Conn, ids_of
<1>5. \A i, j \in 1 .. n : es[i].conn.id = es[j].conn.id => i = j
  BY DEF Entries
<1> HIDE DEF k
<1>6. IsFiniteSet({row(i) : i \in I})
  <2>1. IsFiniteSet(I)
    <3> HIDE DEF I
    <3> QED BY <1>2, IndicesFinite, FS_Subset DEF Entries
  <2> HIDE DEF I, row
  <2>2. PICK f : f = [i \in I |-> row(i)]
    OBVIOUS
  <2>3. f \in Surjection(I, {row(i) : i \in I})
    BY <2>2 DEF Surjection
  <2> QED BY <2>1, <2>3, FS_Surjection
<1>7. rows(a) \subseteq {row(i) : i \in I}
  <2> HIDE DEF row, I
  <2> QED BY <1>1 DEF rows
<1>8. IsFiniteSet(rows(a))
  <2> HIDE DEF row, I
  <2> QED BY <1>6, <1>7, FS_Subset
<1>9. ASSUME NEW r \in rows(a)
      PROVE  \E i \in 1 .. n : /\ k(i) > 0 /\ r = row(i)
  BY <1>2, <1>7
<1>10. ASSUME NEW r \in rows(a)
       PROVE  /\ r.id \in ConnId /\ r.id \in ids_of(a.timeline)
              /\ sort_key(a, r) \in Nat
  <2>1. PICK i \in 1 .. n : k(i) > 0 /\ r = row(i)
    BY <1>9
  <2>2. /\ r.id = es[i].conn.id /\ r.state \in ConnState /\ r.bytes \in PerDirection(Nat)
    BY <1>3, <2>1
  <2>3. r.id \in ConnId /\ r.id \in ids_of(a.timeline) /\ a.metas[r.id].peer \in Endpoint
    BY <1>4, <2>2 DEF MetasOK
  <2>4. /\ position(a.metas[r.id].peer) \in Nat /\ rank(r.state) \in Nat
        /\ r.bytes["o2r"] \in Nat /\ r.bytes["r2o"] \in Nat
    <3>1. position(a.metas[r.id].peer) \in Nat
      BY <2>3, PositionsDiffer
    <3>2. rank(r.state) \in Nat
      BY <2>2 DEF rank, ConnState
    <3>3. r.bytes["o2r"] \in Nat /\ r.bytes["r2o"] \in Nat
      BY <2>2 DEF PerDirection, Direction
    <3> QED BY <3>1, <3>2, <3>3
  <2>5. sort_key(a, r) \in Nat
    BY <2>4 DEF sort_key, FieldNames
  <2> QED BY <2>3, <2>5
<1>11. ASSUME NEW q \in rows(a), NEW r \in rows(a), q.id = r.id PROVE q = r
  <2>1. PICK i \in 1 .. n : q = row(i)
    BY <1>9
  <2>2. PICK j \in 1 .. n : r = row(j)
    BY <1>9
  <2>3. q.id = es[i].conn.id /\ r.id = es[j].conn.id
    BY <2>1, <2>2
  <2>4. i = j
    BY <1>5, <1>11, <2>3
  <2> QED BY <2>1, <2>2, <2>4
<1> QED BY <1>8, <1>10, <1>11

displayed(a) == {p \in rows(a) \X rows(a) : order(a, p[1], p[2])}

\* Display order is a strict total order of the rows, in every sort field and direction.
LEMMA RowOrders ==
    ASSUME NEW a, NEW n, Entries(a.timeline.entries, n), MetasOK(a), a.sort_field \in FieldNames
    PROVE  /\ Orders(displayed(a), rows(a))
           /\ \A x, y \in rows(a) : <<x, y>> \in displayed(a) <=> order(a, x, y)
<1> DEFINE S == rows(a)
           R == displayed(a)
           k == [x \in S |-> sort_key(a, x)]
           lt(x, y) == IF k[x] = k[y] THEN id_lt(x.id, y.id)
                       ELSE IF a.sort_dir = "desc" THEN k[x] > k[y] ELSE k[x] < k[y]
<1>1. \A x, y \in S : <<x, y>> \in R <=> order(a, x, y)
  BY DEF displayed
<1>2. \A x \in S : x.id \in ConnId /\ k[x] \in Nat
  BY RowTypes
<1>3. \A x, y \in S : x.id = y.id => x = y
  BY RowTypes
<1>4. \A x, y \in S : order(a, x, y) <=> lt(x, y)
  BY DEF order
<1> HIDE DEF S, R, k
<1>5. ASSUME NEW x \in S PROVE ~lt(x, x)
  BY <1>2, IdOrders
<1>6. ASSUME NEW x \in S, NEW y \in S, NEW z \in S, lt(x, y), lt(y, z) PROVE lt(x, z)
  <2>1. x.id \in ConnId /\ y.id \in ConnId /\ z.id \in ConnId
    BY <1>2
  <2>2. id_lt(x.id, y.id) /\ id_lt(y.id, z.id) => id_lt(x.id, z.id)
    BY <2>1, IdOrders
  <2>3. k[x] \in Nat /\ k[y] \in Nat /\ k[z] \in Nat
    BY <1>2
  <2> QED BY <1>6, <2>2, <2>3
<1>7. ASSUME NEW x \in S, NEW y \in S PROVE x = y \/ lt(x, y) \/ lt(y, x)
  <2>1. x.id \in ConnId /\ y.id \in ConnId
    BY <1>2
  <2>2. x.id = y.id \/ id_lt(x.id, y.id) \/ id_lt(y.id, x.id)
    BY <2>1, IdOrders
  <2>3. k[x] \in Nat /\ k[y] \in Nat
    BY <1>2
  <2> QED BY <1>3, <2>2, <2>3
<1> HIDE DEF lt
<1>8. Orders(R, S)
  BY <1>1, <1>4, <1>5, <1>6, <1>7 DEF Orders
<1> QED BY <1>1, <1>8 DEF S, R

\* The table lists every row once.
LEMMA VisibleLists ==
    ASSUME NEW a, TimelineOK(a.timeline), MetasOK(a), a.sort_field \in FieldNames
    PROVE  Lists(visible(a), rows(a)) /\ IsFiniteSet(rows(a))
<1> DEFINE S == rows(a)
           R == displayed(a)
           at(k)     == CHOOSE x \in S : Cardinality({y \in S : order(a, y, x)}) = k - 1
           ranked(k) == CHOOSE x \in S : Cardinality(below(R, S, x)) = k - 1
           s == [k \in 1 .. Cardinality(S) |-> ranked(k)]
<1>1. PICK n : Entries(a.timeline.entries, n)
  BY DEF TimelineOK
<1>2. IsFiniteSet(S) /\ Cardinality(S) \in Nat
  BY <1>1, RowTypes, FS_CardinalityType
<1>3. visible(a) = [k \in 1 .. Cardinality(S) |-> at(k)]
  BY Zenon DEF visible, in_order
<1> HIDE DEF S
<1>4. Orders(R, S) /\ \A x, y \in S : <<x, y>> \in R <=> order(a, x, y)
  BY <1>1, RowOrders DEF S
<1> HIDE DEF R
<1>5. Enumerates(s, S, R)
  BY <1>2, <1>4, SortedByRank
<1>6. \A x \in S : below(R, S, x) = {y \in S : order(a, y, x)}
  BY <1>4 DEF below
<1>7. ASSUME NEW k \in 1 .. Cardinality(S) PROVE at(k) = ranked(k)
  <2>1. \A x \in S : Cardinality({y \in S : order(a, y, x)}) = k - 1
                       <=> Cardinality(below(R, S, x)) = k - 1
    BY <1>6
  <2> QED BY <2>1
<1> HIDE DEF at, ranked
<1>8. visible(a) = s
  BY <1>3, <1>7
<1> HIDE DEF s
<1>9. PICK m \in Nat : m = Cardinality(S)
  BY <1>2
<1>10. \A i, j \in 1 .. m : s[i] = s[j] => i = j
  <2> SUFFICES ASSUME NEW i \in 1 .. m, NEW j \in 1 .. m, s[i] = s[j], i # j PROVE FALSE
    OBVIOUS
  <2>1. i < j \/ j < i
    OBVIOUS
  <2>2. <<s[i], s[j]>> \in R \/ <<s[j], s[i]>> \in R
    BY <1>5, <1>9, <2>1 DEF Enumerates
  <2>3. s[i] \in S /\ s[j] \in S
    BY <1>5, <1>9 DEF Enumerates
  <2> QED BY <1>4, <2>2, <2>3 DEF Orders
<1>11. Lists(s, S)
  BY <1>5, <1>9, <1>10 DEF Lists, Enumerates
<1> QED BY <1>2, <1>8, <1>11 DEF S

-----------------------------------------------------------------------------
(***************************************************************************)
(* What the operations on the app keep.                                    *)
(***************************************************************************)
AppFields == {"timeline", "transport", "metas", "sort_field", "sort_dir", "mode", "query",
              "selected", "detail_open", "detail_view", "follow", "names"}

TransFields == {"start", "end", "cursor", "speed_idx", "playing"}

AtMostOne(S) == \A x, y \in S : x = y

Shape(a) ==
    /\ DOMAIN a = AppFields /\ DOMAIN a.transport = TransFields
    /\ TimelineOK(a.timeline) /\ MetasOK(a)
    /\ a.sort_field \in FieldNames
    /\ AtMostOne(a.selected)

\* SelectionShown without its guard.
Shown(a) == /\ a.selected \subseteq {r.id : r \in rows(a)}
            /\ a.selected = {} => rows(a) = {}

\* Live: the cursor is inside the domain, which does not go beyond T.
Ranged(tr, T) ==
    /\ {tr.start, tr.end, tr.cursor} \subseteq Nat
    /\ tr.start <= tr.cursor /\ tr.cursor <= tr.end /\ tr.end <= T

\* b differs from a in nothing that the rows, the selection or the cursor depend on.
Untouched(a, b) ==
    /\ DOMAIN b = DOMAIN a /\ DOMAIN b.transport = DOMAIN a.transport
    /\ b.timeline = a.timeline /\ b.metas = a.metas /\ b.query = a.query
    /\ b.selected = a.selected
    /\ b.transport.start = a.transport.start /\ b.transport.end = a.transport.end
    /\ b.transport.cursor = a.transport.cursor
    /\ a.sort_field \in FieldNames => b.sort_field \in FieldNames

LEMMA SameRows ==
    ASSUME NEW a, NEW b, b.timeline = a.timeline, b.metas = a.metas, b.query = a.query,
           b.transport.cursor = a.transport.cursor
    PROVE  rows(b) = rows(a)
BY DEF rows

LEMMA UntouchedKeeps ==
    ASSUME NEW a, NEW b, Untouched(a, b), Shape(a)
    PROVE  /\ Shape(b) /\ (Shown(a) => Shown(b))
           /\ \A T : Ranged(a.transport, T) => Ranged(b.transport, T)
<1>1. Shape(b)
  BY DEF Shape, Untouched, MetasOK
<1>2. rows(b) = rows(a) /\ b.selected = a.selected
  BY SameRows DEF Untouched
<1>3. Shown(a) => Shown(b)
  BY <1>2 DEF Shown
<1>4. \A T : Ranged(a.transport, T) => Ranged(b.transport, T)
  BY DEF Ranged, Untouched
<1> QED BY <1>1, <1>3, <1>4

\* The ids at a position of the table.
LEMMA IdAt ==
    ASSUME NEW s, NEW S, Lists(s, S), NEW k \in Int
    PROVE  /\ AtMostOne(id_at(s, k)) /\ id_at(s, k) \subseteq {r.id : r \in S}
           /\ Len(s) \in Nat /\ (S # {} => Len(s) > 0)
           /\ k \in 1 .. Len(s) => id_at(s, k) # {}
           /\ k \notin 1 .. Len(s) => id_at(s, k) = {}
           /\ DOMAIN s = 1 .. Len(s)
<1>1. PICK n \in Nat : /\ s \in [1 .. n -> S] /\ \A x \in S : \E j \in 1 .. n : s[j] = x
  BY DEF Lists
<1>2. s \in Seq(S) /\ Len(s) = n /\ DOMAIN s = 1 .. n
  BY <1>1
<1>3. S # {} => n > 0
  BY <1>1
<1>4. CASE k \in 1 .. n
  <2>1. id_at(s, k) = {s[k].id} /\ s[k] \in S
    BY <1>1, <1>2, <1>4 DEF id_at
  <2> QED BY <1>2, <1>3, <1>4, <2>1 DEF AtMostOne
<1>5. CASE k \notin 1 .. n
  <2>1. id_at(s, k) = {}
    BY <1>2, <1>5 DEF id_at
  <2> QED BY <1>2, <1>3, <1>5, <2>1 DEF AtMostOne
<1> QED BY <1>4, <1>5

\* The app with another selection.
LEMMA Selecting ==
    ASSUME NEW a, Shape(a), NEW sel, AtMostOne(sel)
    PROVE  LET b == [a EXCEPT !.selected = sel]
           IN  /\ Shape(b) /\ rows(b) = rows(a) /\ b.selected = sel
               /\ DOMAIN b = DOMAIN a /\ b.transport = a.transport /\ b.timeline = a.timeline
               /\ b.metas = a.metas /\ b.query = a.query /\ b.follow = a.follow
<1> DEFINE b == [a EXCEPT !.selected = sel]
<1>1. /\ DOMAIN b = DOMAIN a /\ b.selected = sel /\ b.transport = a.transport
      /\ b.timeline = a.timeline /\ b.metas = a.metas /\ b.query = a.query
      /\ b.sort_field = a.sort_field /\ b.follow = a.follow
  BY DEF Shape, AppFields
<1> HIDE DEF b
<1>2. rows(b) = rows(a)
  BY <1>1, SameRows
<1>3. Shape(b)
  BY <1>1 DEF Shape, MetasOK
<1> QED BY <1>1, <1>2, <1>3 DEF b

\* reconcile_selection
LEMMA ReconcileShows ==
    ASSUME NEW a, Shape(a)
    PROVE  LET b == reconcile_selection(a)
           IN  /\ Shape(b) /\ Shown(b) /\ rows(b) = rows(a)
               /\ b.transport = a.transport /\ b.timeline = a.timeline /\ b.metas = a.metas
               /\ b.query = a.query /\ b.follow = a.follow
<1>1. CASE \E r \in rows(a) : r.id \in a.selected
  <2>1. reconcile_selection(a) = a
    BY <1>1 DEF reconcile_selection
  <2>2. Shown(a)
    BY <1>1 DEF Shown, Shape, AtMostOne
  <2> QED BY <2>1, <2>2
<1>2. CASE ~\E r \in rows(a) : r.id \in a.selected
  <2>1. PICK sel : sel = id_at(visible(a), 1)
    OBVIOUS
  <2>2. PICK b : b = [a EXCEPT !.selected = sel]
    OBVIOUS
  <2>3. reconcile_selection(a) = b
    BY <1>2, <2>1, <2>2 DEF reconcile_selection
  <2>4. Lists(visible(a), rows(a))
    BY VisibleLists DEF Shape
  <2>5. /\ AtMostOne(sel) /\ sel \subseteq {r.id : r \in rows(a)}
        /\ sel = {} => rows(a) = {}
    BY <2>1, <2>4, IdAt
  <2>6. /\ Shape(b) /\ rows(b) = rows(a) /\ b.selected = sel
        /\ b.transport = a.transport /\ b.timeline = a.timeline
        /\ b.metas = a.metas /\ b.query = a.query /\ b.follow = a.follow
    BY <2>2, <2>5, Selecting
  <2>7. Shown(b)
    BY <2>5, <2>6 DEF Shown
  <2> QED BY <2>3, <2>6, <2>7
<1> QED BY <1>1, <1>2

\* move_by
LEMMA MoveShows ==
    ASSUME NEW a, Shape(a), NEW step
    PROVE  LET b == move_by(a, step)
           IN  /\ Shape(b) /\ Shown(b) /\ b.transport = a.transport
<1> DEFINE rs  == visible(a)
           at  == {k \in DOMAIN rs : rs[k].id \in a.selected}
           cur == IF at = {} THEN 1 ELSE Min(at)
           nxt == IF step = "up" THEN later(cur - 1, 1) ELSE Min({cur + 1, Len(rs)})
<1>1. move_by(a, step) = [a EXCEPT !.selected = id_at(rs, nxt)]
  BY DEF move_by
<1>2. Lists(rs, rows(a))
  BY VisibleLists DEF Shape
<1> HIDE DEF rs
<1>3. PICK n \in Nat : n = Len(rs) /\ DOMAIN rs = 1 .. n /\ (rows(a) # {} => n > 0)
  <2>1. 1 \in Int
    OBVIOUS
  <2> QED BY <1>2, <2>1, IdAt
<1>4. cur \in Nat /\ cur >= 1 /\ (n > 0 => cur <= n)
  <2>1. CASE at = {}
    BY <2>1
  <2>2. CASE at # {}
    <3>1. at \subseteq 1 .. n /\ at \subseteq Nat
      BY <1>3
    <3> HIDE DEF at
    <3>2. Min(at) \in at
      BY <2>2, <3>1, MinIsLeast
    <3>3. cur = Min(at)
      BY <2>2
    <3>4. cur \in 1 .. n
      BY <3>1, <3>2, <3>3
    <3> HIDE DEF cur
    <3> QED BY <3>4
  <2> QED BY <2>1, <2>2
<1> HIDE DEF cur
<1>5. nxt \in Int /\ (n > 0 => nxt \in 1 .. n)
  <2>1. CASE step = "up"
    <3>1. nxt = later(cur - 1, 1)
      BY <2>1
    <3> QED BY <1>4, <3>1 DEF later
  <2>2. CASE step # "up"
    <3>1. PICK m \in Nat : m = cur + 1
      BY <1>4
    <3>2. nxt = Min({m, n})
      BY <1>3, <2>2, <3>1
    <3>3. Min({m, n}) = IF m <= n THEN m ELSE n
      <4>1. CASE m <= n
        BY <4>1 DEF Min
      <4>2. CASE ~(m <= n)
        BY <4>2 DEF Min
      <4> QED BY <4>1, <4>2
    <3> HIDE DEF nxt
    <3> QED BY <1>4, <3>1, <3>2, <3>3
  <2> QED BY <2>1, <2>2
<1> HIDE DEF nxt
<1>6. PICK sel : sel = id_at(rs, nxt)
  OBVIOUS
<1>7. /\ AtMostOne(sel) /\ sel \subseteq {r.id : r \in rows(a)}
      /\ n > 0 => sel # {}
  BY <1>2, <1>3, <1>5, <1>6, IdAt
<1>8. PICK b : b = [a EXCEPT !.selected = sel]
  OBVIOUS
<1>9. Shape(b) /\ rows(b) = rows(a) /\ b.selected = sel /\ b.transport = a.transport
  BY <1>7, <1>8, Selecting
<1>10. Shown(b)
  BY <1>3, <1>7, <1>9 DEF Shown
<1> QED BY <1>1, <1>6, <1>8, <1>9, <1>10

-----------------------------------------------------------------------------
(***************************************************************************)
(* The timelines the tracker answers with.                                 *)
(***************************************************************************)

\* A tracked connection's state samples, sorted.
LEMMA SortedStates ==
    ASSUME LifecycleInv, RetentionInv, NEW i \in DOMAIN conns
    PROVE  /\ TimesIn(bufs[i].q["states"], Len(bufs[i].q["states"]))
           /\ Within(bufs[i].q["states"], StateSample(conns[i].last_at))
           /\ Sampled(sort_by_t(bufs[i].q["states"]))
<1>1. PICK s : s = bufs[i].q["states"]
  OBVIOUS
<1>2. IsSeq(s) /\ Within(s, StateSample(conns[i].last_at))
  <2>1. i \in 1 .. Len(conns)
    BY ByIndex DEF LifecycleInv
  <2>2. BufShape(bufs[i]) /\ TimedAs(bufs[i], conns[i])
    BY <2>1 DEF RetentionInv, SamplesOK, StoreOK, Store, Bufs, AllTimed
  <2> QED BY <1>1, <2>2, SixSeries DEF BufShape, TimedAs
<1>3. PICK n \in Nat : n = Len(s) /\ DOMAIN s = 1 .. n
  BY <1>2, LenProperties DEF IsSeq
<1>4. \A k \in 1 .. n : /\ s[k].t \in Nat /\ s[k].state \in ConnState
                        /\ s[k].bytes \in PerDirection(Nat)
  BY <1>2, <1>3 DEF Within, StateSample
<1>5. TimesIn(s, n)
  BY <1>3, <1>4 DEF TimesIn
<1>6. PICK p \in [1 .. n -> 1 .. n] :
              /\ sort_by_t(s) = [k \in 1 .. n |-> s[p[k]]]
              /\ \A j \in 1 .. n : \E k \in 1 .. n : p[k] = j
              /\ \A k, l \in 1 .. n : k < l <=> <<p[k], p[l]>> \in stably(s)
  BY <1>5, SortedSeries
<1>7. Sampled(sort_by_t(s))
  <2>1. PICK b : b = sort_by_t(s)
    OBVIOUS
  <2>2. DOMAIN b = 1 .. n /\ \A k \in 1 .. n : p[k] \in 1 .. n /\ b[k] = s[p[k]]
    BY <1>6, <2>1
  <2>3. \A k \in 1 .. n : b[k].state \in ConnState /\ b[k].bytes \in PerDirection(Nat)
    BY <1>4, <2>2
  <2> QED BY <2>1, <2>2, <2>3 DEF Sampled
<1> QED BY <1>1, <1>2, <1>3, <1>5, <1>7

LEMMA TimelineAnswers ==
    ASSUME LifecycleInv, RetentionInv, NEW e
    PROVE  LET tl == with_seq_ending(conns, bufs, e)
           IN  /\ TimelineOK(tl) /\ tl.end = e
               /\ DOMAIN tl.entries = DOMAIN conns
               /\ \A i \in DOMAIN conns : tl.entries[i] = entry(conns[i], bufs[i], e)
<1>1. PICK tl : tl = with_seq_ending(conns, bufs, e)
  OBVIOUS
<1>2. /\ tl.end = e /\ tl.entries = [i \in DOMAIN conns |-> entry(conns[i], bufs[i], e)]
      /\ tl.event_times = in_order(sample_times(bufs), <)
  BY <1>1, Zenon DEF with_seq_ending
<1>3. PICK n \in Nat : n = Len(conns) /\ DOMAIN conns = 1 .. n
  BY ByIndex DEF LifecycleInv
<1>4. Entries(tl.entries, n)
  <2>1. ASSUME NEW i \in 1 .. n
        PROVE  tl.entries[i].conn = conns[i] /\ conns[i] \in Conn /\ Sampled(tl.entries[i].samples)
    <3>1. tl.entries[i] = entry(conns[i], bufs[i], e)
      BY <1>2, <1>3
    <3>2. tl.entries[i].conn = conns[i] /\ tl.entries[i].samples = sort_by_t(bufs[i].q["states"])
      BY <3>1 DEF entry
    <3>3. Sampled(sort_by_t(bufs[i].q["states"]))
      BY <1>3, SortedStates
    <3> QED BY <1>3, <3>2, <3>3, ByIndex DEF LifecycleInv
  <2>2. \A i, j \in 1 .. n : conns[i].id = conns[j].id => i = j
    BY <1>3, ListedConns DEF IdsDiffer
  <2>3. DOMAIN tl.entries = 1 .. n
    BY <1>2, <1>3
  <2> QED BY <2>1, <2>2, <2>3 DEF Entries
<1>5. Times(tl.event_times)
  <2>0. PICK E, end : /\ E = sample_times(bufs) /\ end = into_timeline.end
                      /\ end \in Nat /\ E \subseteq 0 .. end /\ IsFiniteSet(E)
    BY ReplayTimes
  <2>1. E = sample_times(bufs) /\ E \subseteq Nat /\ E \subseteq Int /\ IsFiniteSet(E)
    BY <2>0
  <2>2. PICK m \in Nat : \E s \in [1 .. m -> E] : s = tl.event_times
    BY <1>2, <2>1, SortedTimes DEF Ascends
  <2>4. PICK s \in [1 .. m -> E] : s = tl.event_times
    BY <2>2
  <2>3. s \in [1 .. m -> Nat] /\ Len(s) = m
    BY <2>1, <2>4
  <2> QED BY <2>3, <2>4 DEF Times
<1> QED BY <1>1, <1>2, <1>4, <1>5 DEF TimelineOK

LEMMA ConnOf ==
    ASSUME NEW tl, NEW n, Entries(tl.entries, n), NEW id \in ids_of(tl)
    PROVE  /\ conn_of(tl, id) \in Conn /\ conn_of(tl, id).id = id
           /\ \A i \in 1 .. n : tl.entries[i].conn.id = id => conn_of(tl, id) = tl.entries[i].conn
<1> DEFINE j == CHOOSE i \in DOMAIN tl.entries : tl.entries[i].conn.id = id
<1>1. j \in 1 .. n /\ tl.entries[j].conn.id = id
  BY DEF ids_of, Entries
<1>2. conn_of(tl, id) = tl.entries[j].conn
  BY DEF conn_of
<1> HIDE DEF j
<1> QED BY <1>1, <1>2 DEF Entries

\* meta_for shows the responder.
LEMMA MetaPeer ==
    ASSUME NEW c, NEW names
    PROVE  meta_for(c, names).peer = c.responder
BY Zenon DEF meta_for

\* App::new
LEMMA NewApp ==
    ASSUME NEW tl, TimelineOK(tl), NEW names
    PROVE  LET a == app_new(tl, names)
           IN  /\ Shape(a) /\ Shown(a)
               /\ a.timeline = tl /\ a.transport = transport_new(tl.start, tl.end)
               /\ a.follow = is_live
               /\ \A id \in DOMAIN a.metas : a.metas[id].peer = conn_of(tl, id).responder
<1> DEFINE metas == [id \in ids_of(tl) |-> meta_for(conn_of(tl, id), names)]
           a == [timeline    |-> tl,
              transport   |-> transport_new(tl.start, tl.end),
              metas       |-> metas,
              sort_field  |-> "peer",
              sort_dir    |-> "asc",
              mode        |-> "nav",
              query       |-> <<>>,
              selected    |-> {},
              detail_open |-> FALSE,
              detail_view |-> 1,
              follow      |-> is_live,
              names       |-> names]
<1>1. app_new(tl, names) = [a EXCEPT !.selected = id_at(visible(a), 1)]
  BY Zenon DEF app_new
<1>2. DOMAIN metas = ids_of(tl) /\ \A id \in ids_of(tl) : metas[id].peer = conn_of(tl, id).responder
  BY MetaPeer
<1> HIDE DEF metas
<1>3. /\ DOMAIN a = AppFields /\ a.timeline = tl /\ a.metas = metas
      /\ a.sort_field = "peer" /\ a.selected = {} /\ a.follow = is_live
      /\ a.transport = transport_new(tl.start, tl.end)
  BY DEF AppFields
<1> HIDE DEF a
<1>4. DOMAIN a.transport = TransFields
  <2>1. DOMAIN transport_new(tl.start, tl.end) = TransFields
    BY DEF transport_new, TransFields
  <2> QED BY <1>3, <2>1
<1>5. MetasOK(a)
  <2>1. PICK n : Entries(tl.entries, n)
    BY DEF TimelineOK
  <2>2. \A id \in ids_of(tl) : metas[id].peer \in Endpoint
    BY <1>2, <2>1, ConnOf DEF Conn
  <2> QED BY <1>2, <1>3, <2>2 DEF MetasOK
<1>6. Shape(a)
  BY <1>3, <1>4, <1>5 DEF Shape, AtMostOne, FieldNames
<1>7. PICK b : b = app_new(tl, names)
  OBVIOUS
<1>8. b = reconcile_selection(a)
  <2>1. ~\E r \in rows(a) : r.id \in a.selected
    BY <1>3
  <2> QED BY <1>1, <1>7, <2>1 DEF reconcile_selection
<1>9. /\ Shape(b) /\ Shown(b) /\ b.transport = a.transport /\ b.timeline = tl
      /\ b.metas = metas /\ b.follow = is_live
  BY <1>3, <1>6, <1>8, ReconcileShows
<1> QED BY <1>2, <1>3, <1>7, <1>9

\* The transport after set_domain and the pinning of the cursor.
LEMMA DomainMoves ==
    ASSUME NEW a, DOMAIN a.transport = TransFields, NEW h \in Nat, NEW T \in Nat, h <= T
    PROVE  LET tr == pinned(a, set_domain(a.transport, h, T), T)
           IN  /\ DOMAIN tr = TransFields /\ tr.end = T /\ tr.start = h
               /\ a.follow => tr.cursor = T
               /\ ~a.follow => tr.cursor = clamp(a.transport.cursor, h, T)
               /\ a.transport.cursor \in Nat => Ranged(tr, T)
<1>1. PICK d : d = set_domain(a.transport, h, T)
  OBVIOUS
<1>2. DOMAIN d = TransFields /\ d.start = h /\ d.end = T /\ d.cursor = clamp(a.transport.cursor, h, T)
  BY <1>1 DEF set_domain, TransFields
<1>3. PICK tr : tr = pinned(a, d, T)
  OBVIOUS
<1>4. CASE a.follow
  <2>1. tr = [d EXCEPT !.cursor = clamp(T, h, T)]
    BY <1>2, <1>3, <1>4 DEF pinned, set_cursor
  <2>2. clamp(T, h, T) = T
    BY DEF clamp
  <2>3. DOMAIN tr = TransFields /\ tr.end = T /\ tr.start = h /\ tr.cursor = T
    BY <1>2, <2>1, <2>2 DEF TransFields
  <2>4. Ranged(tr, T)
    BY <2>3 DEF Ranged
  <2> QED BY <1>1, <1>3, <1>4, <2>3, <2>4
<1>5. CASE ~a.follow
  <2>1. tr = d
    BY <1>3, <1>5 DEF pinned
  <2>2. a.transport.cursor \in Nat => Ranged(d, T)
    BY <1>2 DEF clamp, Ranged
  <2> QED BY <1>1, <1>2, <1>3, <1>5, <2>1, <2>2
<1> QED BY <1>4, <1>5

\* App::retarget
LEMMA Retargeted ==
    ASSUME NEW a, Shape(a), NEW tl, TimelineOK(tl), NEW h \in Nat, NEW T \in Nat, h <= T
    PROVE  LET b == retarget(a, tl, h, T)
           IN  /\ Shape(b) /\ Shown(b)
               /\ b.timeline = tl /\ b.query = a.query /\ b.follow = a.follow
               /\ b.transport = pinned(a, set_domain(a.transport, h, T), T)
<1>1. PICK tr : tr = pinned(a, set_domain(a.transport, h, T), T)
  OBVIOUS
<1>2. DOMAIN tr = TransFields
  BY <1>1, DomainMoves DEF Shape
<1>3. PICK m : m = metas_for(a, tl)
  OBVIOUS
<1>4. DOMAIN m = ids_of(tl) /\ \A id \in ids_of(tl) : m[id].peer \in Endpoint
  <2>1. DOMAIN m = ids_of(tl)
    BY <1>3 DEF metas_for
  <2>2. ASSUME NEW id \in ids_of(tl) PROVE m[id].peer \in Endpoint
    <3>1. PICK n : Entries(tl.entries, n)
      BY DEF TimelineOK
    <3>2. conn_of(tl, id).responder \in Endpoint
      BY <3>1, ConnOf DEF Conn
    <3>3. m[id] = IF id \in DOMAIN a.metas THEN a.metas[id] ELSE meta_for(conn_of(tl, id), a.names)
      BY <1>3 DEF metas_for
    <3>4. id \in DOMAIN a.metas => a.metas[id].peer \in Endpoint
      BY DEF Shape, MetasOK
    <3>5. meta_for(conn_of(tl, id), a.names).peer = conn_of(tl, id).responder
      BY MetaPeer
    <3> QED BY <3>2, <3>3, <3>4, <3>5
  <2> QED BY <2>1, <2>2
<1>5. PICK c : c = [a EXCEPT !.timeline = tl, !.metas = m, !.transport = tr]
  OBVIOUS
<1>6. retarget(a, tl, h, T) = reconcile_selection(c)
  BY <1>1, <1>3, <1>5 DEF retarget
<1>7. /\ DOMAIN c = AppFields /\ c.timeline = tl /\ c.metas = m /\ c.transport = tr
      /\ c.sort_field = a.sort_field /\ c.selected = a.selected /\ c.query = a.query
      /\ c.follow = a.follow
  BY <1>5 DEF Shape, AppFields
<1>8. Shape(c)
  BY <1>2, <1>4, <1>7 DEF Shape, MetasOK
<1>9. PICK b : b = reconcile_selection(c)
  OBVIOUS
<1>10. /\ Shape(b) /\ Shown(b) /\ b.timeline = tl /\ b.transport = tr
       /\ b.query = a.query /\ b.follow = a.follow
  BY <1>7, <1>8, <1>9, ReconcileShows
<1> QED BY <1>1, <1>6, <1>9, <1>10

-----------------------------------------------------------------------------
(***************************************************************************)
(* What a key does.                                                        *)
(***************************************************************************)

\* What holds of the app after a key, with the tracker's now at T.
KeptBy(b, T) ==
    /\ Shape(b)
    /\ ~is_live => Shown(b)
    /\ is_live => Ranged(b.transport, T)

LEMMA CursorSet ==
    ASSUME NEW tr, DOMAIN tr = TransFields, NEW t
    PROVE  /\ DOMAIN set_cursor(tr, t) = TransFields
           /\ \A T : t \in Int /\ Ranged(tr, T) => Ranged(set_cursor(tr, t), T)
<1>1. PICK u : u = set_cursor(tr, t)
  OBVIOUS
<1>2. /\ DOMAIN u = TransFields /\ u.start = tr.start /\ u.end = tr.end
      /\ u.cursor = clamp(t, tr.start, tr.end)
  BY <1>1 DEF set_cursor, TransFields
<1>3. ASSUME NEW T, t \in Int, Ranged(tr, T) PROVE Ranged(u, T)
  <2>1. PICK lo \in Nat, hi \in Nat : lo = tr.start /\ hi = tr.end /\ lo <= hi /\ hi <= T
    BY <1>3 DEF Ranged
  <2>2. PICK c : c = clamp(t, lo, hi)
    OBVIOUS
  <2>3. c \in Nat /\ lo <= c /\ c <= hi
    BY <1>3, <2>1, <2>2 DEF clamp
  <2> QED BY <1>2, <2>1, <2>2, <2>3 DEF Ranged
<1> QED BY <1>1, <1>2, <1>3

\* The cursor moved and the selection reconciled.
LEMMA Moved ==
    ASSUME NEW a, Shape(a), NEW tr, DOMAIN tr = TransFields, NEW T, is_live => Ranged(tr, T)
    PROVE  KeptBy(reconcile_selection([a EXCEPT !.transport = tr]), T)
<1>1. PICK b : b = [a EXCEPT !.transport = tr]
  OBVIOUS
<1>2. /\ DOMAIN b = AppFields /\ b.transport = tr /\ b.timeline = a.timeline /\ b.metas = a.metas
      /\ b.sort_field = a.sort_field /\ b.selected = a.selected
  BY <1>1 DEF Shape, AppFields
<1>3. Shape(b)
  BY <1>2 DEF Shape, MetasOK
<1>4. Shape(reconcile_selection(b)) /\ Shown(reconcile_selection(b))
      /\ reconcile_selection(b).transport = tr
  BY <1>2, <1>3, ReconcileShows
<1> QED BY <1>1, <1>4 DEF KeptBy

\* Event times are times.
LEMMA EventsAreTimes ==
    ASSUME NEW tl, TimelineOK(tl), NEW t
    PROVE  next_event(tl, t) \in Int /\ prev_event(tl, t) \in Int
<1>1. PICK s : s = tl.event_times
  OBVIOUS
<1>2. PICK n \in Nat : s \in [1 .. n -> Nat] /\ Len(s) = n
  BY <1>1 DEF TimelineOK, Times
<1>3. PICK K : K = {i \in DOMAIN s : \A j \in 1 .. i : s[j] <= t}
  OBVIOUS
<1>4. PICK L : L = {i \in DOMAIN s : \A j \in 1 .. i : s[j] < t}
  OBVIOUS
<1>5. partition_point(s, LAMBDA x : x <= t) = Cardinality(K)
  BY <1>3 DEF partition_point
<1>6. partition_point(s, LAMBDA x : x < t) = Cardinality(L)
  BY <1>4 DEF partition_point
<1>7. PICK k \in 0 .. n : k = Cardinality(K)
  BY <1>2, <1>3, PointIn
<1>8. PICK l \in 0 .. n : l = Cardinality(L)
  BY <1>2, <1>4, PointIn
<1>9. next_event(tl, t) = IF k < n THEN s[k + 1] ELSE None
  BY <1>1, <1>2, <1>5, <1>7 DEF next_event
<1>10. prev_event(tl, t) = IF l > 0 THEN s[l] ELSE None
  BY <1>1, <1>6, <1>8 DEF prev_event
<1>11. (k < n => s[k + 1] \in Nat) /\ (l > 0 => s[l] \in Nat)
  BY <1>2
<1> QED BY <1>9, <1>10, <1>11 DEF None

\* freeze_if_live
LEMMA Frozen ==
    ASSUME NEW a, Shape(a)
    PROVE  Untouched(a, freeze_if_live(a))
<1>1. Untouched(a, a)
  BY DEF Untouched
<1>2. Untouched(a, [a EXCEPT !.follow = FALSE])
  BY DEF Untouched, Shape, AppFields
<1> QED BY <1>1, <1>2 DEF freeze_if_live

\* The sort fields in turn.
LEMMA NextField ==
    ASSUME NEW f \in FieldNames
    PROVE  next_field(f) \in FieldNames
<1>1. /\ SortFields[1] = "peer" /\ SortFields[2] = "state" /\ SortFields[3] = "bytes_up"
      /\ SortFields[4] = "bytes_down" /\ DOMAIN SortFields = 1 .. 4 /\ Len(SortFields) = 4
  BY DEF SortFields
<1>2. PICK i \in 1 .. 4 : next_field(f) = SortFields[(i % 4) + 1]
  <2> DEFINE i == CHOOSE i \in DOMAIN SortFields : SortFields[i] = f
  <2>1. \E j \in DOMAIN SortFields : SortFields[j] = f
    BY <1>1 DEF FieldNames
  <2>2. i \in 1 .. 4
    BY <1>1, <2>1
  <2>3. next_field(f) = SortFields[(i % Len(SortFields)) + 1]
    BY DEF next_field
  <2> QED BY <1>1, <2>2, <2>3
<1>3. (i % 4) + 1 \in 1 .. 4
  OBVIOUS
<1>4. \A j \in 1 .. 4 : j = 1 \/ j = 2 \/ j = 3 \/ j = 4
  OBVIOUS
<1>5. PICK j \in 1 .. 4 : j = (i % 4) + 1
  BY <1>3
<1> QED BY <1>1, <1>2, <1>4, <1>5 DEF FieldNames

\* Keys that change neither the rows nor the selection nor the cursor.
LEMMA QuietKeys ==
    ASSUME NEW a, Shape(a), NEW v
    PROVE  /\ Untouched(a, cycle_sort(a)) /\ Untouched(a, toggle_dir(a))
           /\ Untouched(a, [a EXCEPT !.transport = transport_faster(@)])
           /\ Untouched(a, [a EXCEPT !.transport = transport_slower(@)])
           /\ Untouched(a, open_detail(a))
           /\ Untouched(a, [a EXCEPT !.detail_open = FALSE])
           /\ Untouched(a, [a EXCEPT !.detail_view = (@ % 4) + 1])
           /\ Untouched(a, [a EXCEPT !.mode = v])
           /\ Untouched(a, [a EXCEPT !.names = v])
<1>1. DOMAIN a = AppFields /\ DOMAIN a.transport = TransFields /\ a.sort_field \in FieldNames
  BY DEF Shape
<1>2. Untouched(a, cycle_sort(a))
  <2>1. next_field(a.sort_field) \in FieldNames
    BY <1>1, NextField
  <2> QED BY <1>1, <2>1 DEF Untouched, AppFields, cycle_sort
<1>3. Untouched(a, toggle_dir(a))
  BY <1>1 DEF Untouched, AppFields, toggle_dir
<1>4. ASSUME NEW tr, NEW x, tr = [a.transport EXCEPT !.speed_idx = x]
      PROVE  Untouched(a, [a EXCEPT !.transport = tr])
  <2>1. /\ DOMAIN tr = TransFields /\ tr.start = a.transport.start /\ tr.end = a.transport.end
        /\ tr.cursor = a.transport.cursor
    BY <1>1, <1>4 DEF TransFields
  <2> QED BY <1>1, <2>1 DEF Untouched, AppFields
<1>5. Untouched(a, [a EXCEPT !.transport = transport_faster(@)])
  BY <1>4 DEF transport_faster
<1>6. Untouched(a, [a EXCEPT !.transport = transport_slower(@)])
  BY <1>4 DEF transport_slower
<1>7. Untouched(a, [a EXCEPT !.detail_open = TRUE]) /\ Untouched(a, a)
  BY <1>1 DEF Untouched, AppFields
<1>8. Untouched(a, open_detail(a))
  BY <1>7 DEF open_detail
<1>9. Untouched(a, [a EXCEPT !.detail_open = FALSE])
  BY <1>1 DEF Untouched, AppFields
<1>10. Untouched(a, [a EXCEPT !.detail_view = (@ % 4) + 1])
  BY <1>1 DEF Untouched, AppFields
<1>11. Untouched(a, [a EXCEPT !.mode = v])
  BY <1>1 DEF Untouched, AppFields
<1>12. Untouched(a, [a EXCEPT !.names = v])
  BY <1>1 DEF Untouched, AppFields
<1> QED BY <1>2, <1>3, <1>5, <1>6, <1>8, <1>9, <1>10, <1>11, <1>12

LEMMA SpaceKeeps ==
    ASSUME NEW a, NEW T, Shape(a), is_live => Ranged(a.transport, T)
    PROVE  KeptBy(IF is_live THEN toggle_follow(a) ELSE toggle_play(a), T)
<1>0. DOMAIN a.transport = TransFields
  BY DEF Shape
<1>1. CASE is_live
  <2>1. PICK tr : tr = IF a.follow THEN a.transport ELSE set_cursor(a.transport, a.transport.end)
    OBVIOUS
  <2>2. DOMAIN tr = TransFields /\ Ranged(tr, T)
    <3>1. Ranged(a.transport, T) /\ a.transport.end \in Int
      BY <1>1 DEF Ranged
    <3> QED BY <1>0, <2>1, <3>1, CursorSet
  <2>3. PICK b : b = toggle_follow(a)
    OBVIOUS
  <2>4. b = [a EXCEPT !.follow = ~@, !.transport = tr]
    BY <2>1, <2>3 DEF toggle_follow
  <2>5. /\ DOMAIN b = AppFields /\ b.transport = tr /\ b.timeline = a.timeline
        /\ b.metas = a.metas /\ b.sort_field = a.sort_field /\ b.selected = a.selected
    BY <2>4 DEF Shape, AppFields
  <2>6. Shape(b)
    BY <2>2, <2>5 DEF Shape, MetasOK
  <2> QED BY <1>1, <2>2, <2>3, <2>5, <2>6 DEF KeptBy
<1>2. CASE ~is_live
  <2>1. PICK tr : tr = transport_toggle_play(a.transport)
    OBVIOUS
  <2>2. DOMAIN tr = TransFields
    BY <1>0, <2>1 DEF transport_toggle_play
  <2>3. toggle_play(a) = reconcile_selection([a EXCEPT !.transport = tr])
    BY <2>1 DEF toggle_play
  <2> QED BY <1>2, <2>2, <2>3, Moved
<1> QED BY <1>1, <1>2

LEMMA SeekKeeps ==
    ASSUME NEW a, NEW T, Shape(a), is_live => Ranged(a.transport, T), NEW forward
    PROVE  KeptBy(seek(a, forward), T)
<1>1. PICK tr, t : /\ tr = set_cursor(a.transport, t)
                   /\ t = IF forward THEN a.transport.cursor + seek_step(a.transport)
                          ELSE saturating_sub(a.transport.cursor, seek_step(a.transport))
  OBVIOUS
<1>2. seek(a, forward) = reconcile_selection([a EXCEPT !.transport = tr])
  BY <1>1 DEF seek, transport_seek
<1>3. DOMAIN a.transport = TransFields
  BY DEF Shape
<1>4. ASSUME is_live PROVE t \in Int
  <2>1. PICK s \in Nat, e \in Nat, c \in Nat :
           s = a.transport.start /\ e = a.transport.end /\ c = a.transport.cursor
    BY <1>4 DEF Ranged
  <2>2. PICK d \in Nat : d = saturating_sub(e, s) \div 50
    <3>1. saturating_sub(e, s) \in Nat
      BY DEF saturating_sub
    <3> QED BY <3>1
  <2>3. PICK step \in Nat : step = seek_step(a.transport)
    BY <2>1, <2>2 DEF seek_step, later
  <2> QED BY <1>1, <2>1, <2>3 DEF saturating_sub
<1>5. DOMAIN tr = TransFields /\ (is_live => Ranged(tr, T))
  BY <1>1, <1>3, <1>4, CursorSet
<1> QED BY <1>2, <1>5, Moved

LEMMA StepKeeps ==
    ASSUME NEW a, NEW T, Shape(a), Shown(a), is_live => Ranged(a.transport, T), NEW t \in Int
    PROVE  KeptBy(step_to(a, t), T)
<1>1. CASE t = None
  BY <1>1 DEF step_to, KeptBy
<1>2. CASE t # None
  <2>1. PICK tr : tr = set_cursor(a.transport, t)
    OBVIOUS
  <2>2. step_to(a, t) = reconcile_selection([a EXCEPT !.transport = tr])
    BY <1>2, <2>1 DEF step_to
  <2>3. DOMAIN tr = TransFields /\ (is_live => Ranged(tr, T))
    BY <2>1, CursorSet DEF Shape
  <2> QED BY <2>2, <2>3, Moved
<1> QED BY <1>1, <1>2

LEMMA FilterKeeps ==
    ASSUME NEW a, NEW T, Shape(a), is_live => Ranged(a.transport, T), NEW query
    PROVE  KeptBy(edit_filter(a, query), T)
<1>1. PICK b : b = [a EXCEPT !.query = query]
  OBVIOUS
<1>2. /\ DOMAIN b = AppFields /\ b.transport = a.transport /\ b.timeline = a.timeline
      /\ b.metas = a.metas /\ b.sort_field = a.sort_field /\ b.selected = a.selected
  BY <1>1 DEF Shape, AppFields
<1>3. Shape(b)
  BY <1>2 DEF Shape, MetasOK
<1>4. PICK c : c = reconcile_selection(b)
  OBVIOUS
<1>5. Shape(c) /\ Shown(c) /\ c.transport = a.transport
  BY <1>2, <1>3, <1>4, ReconcileShows
<1>6. edit_filter(a, query) = c
  BY <1>1, <1>4 DEF edit_filter
<1> QED BY <1>5, <1>6 DEF KeptBy

\* App::tick, in a replay.
LEMMA TickKeeps ==
    ASSUME NEW a, ~is_live, Shape(a), Shown(a), NEW dt
    PROVE  Shape(tick(a, dt)) /\ Shown(tick(a, dt))
<1>1. PICK tr : tr = transport_tick(a.transport, dt)
  OBVIOUS
<1>2. DOMAIN a.transport = TransFields /\ DOMAIN a = AppFields
  BY DEF Shape
<1>3. /\ DOMAIN tr = TransFields /\ tr.start = a.transport.start /\ tr.end = a.transport.end
  BY <1>1, <1>2 DEF transport_tick, TransFields
<1>4. PICK b : b = [a EXCEPT !.transport = tr]
  OBVIOUS
<1>5. b.transport = tr
  BY <1>2, <1>4 DEF AppFields
<1>6. tick(a, dt) = IF tr.cursor # a.transport.cursor THEN reconcile_selection(b) ELSE b
  BY <1>1, <1>4, <1>5 DEF tick
<1>7. CASE tr.cursor # a.transport.cursor
  <2>1. KeptBy(reconcile_selection(b), 0)
    BY <1>3, <1>4, Moved
  <2> QED BY <1>6, <1>7, <2>1 DEF KeptBy
<1>8. CASE tr.cursor = a.transport.cursor
  <2>1. Untouched(a, b)
    BY <1>2, <1>3, <1>4, <1>5, <1>8 DEF Untouched, AppFields
  <2> QED BY <1>6, <1>8, <2>1, UntouchedKeeps
<1> QED BY <1>7, <1>8

-----------------------------------------------------------------------------
(***************************************************************************)
(* The inductive invariant of the program.                                 *)
(***************************************************************************)
AppInv ==
    /\ Shape(app)
    /\ phase \in {"feed", "input", "play", "done"}
    /\ phase \in {"input", "play"} => Shown(app)
    /\ phase = "play" => ~is_live
    /\ is_live => Ranged(app.transport, now)

\* Every key ends the input phase and leaves an app that is kept.
LEMMA KeysKeep ==
    ASSUME AppInv, Keys
    PROVE  AppInv'
<1>1. Shape(app) /\ phase = "input" /\ Shown(app) /\ (is_live => Ranged(app.transport, now))
  <2>1. \A m, a : Press(m, a) => phase = "input"
    BY DEF Press
  <2>2. phase = "input"
    BY <2>1 DEF Keys, KeySort, KeyDir, KeySpace, KeyEnter, KeyEsc, KeyTab, KeySlash,
              KeyMove, KeySeek, KeySpeed, KeyStep, FilterType, FilterBackspace, FilterConfirm,
              FilterCancel
  <2> QED BY <2>2 DEF AppInv
<1>2. ASSUME NEW m, NEW b, Press(m, b), KeptBy(b, now) PROVE AppInv'
  <2>1. app' = b /\ phase' = (IF is_live THEN "feed" ELSE "play") /\ now' = now
    BY <1>2 DEF Press, vars
  <2> QED BY <1>2, <2>1 DEF AppInv, KeptBy, is_live
<1>3. ASSUME NEW m, NEW b, Press(m, b), Untouched(app, b) PROVE AppInv'
  <2>1. KeptBy(b, now)
    BY <1>1, <1>3, UntouchedKeeps DEF KeptBy
  <2> QED BY <1>2, <1>3, <2>1
<1>4. CASE KeySort \/ KeyDir \/ KeyEnter \/ KeyEsc \/ KeyTab \/ KeySlash \/ FilterConfirm
  BY <1>1, <1>3, <1>4, QuietKeys DEF KeySort, KeyDir, KeyEnter, KeyEsc, KeyTab, KeySlash, FilterConfirm
<1>5. CASE KeySpace
  BY <1>1, <1>2, <1>5, SpaceKeeps DEF KeySpace
<1>6. ASSUME NEW step, KeyMove(step) PROVE AppInv'
  <2>1. KeptBy(move_by(app, step), now)
    BY <1>1, MoveShows DEF KeptBy
  <2> QED BY <1>2, <1>6, <2>1 DEF KeyMove
<1>7. PICK a : a = freeze_if_live(app)
  OBVIOUS
<1>8. Shape(a) /\ Shown(a) /\ (is_live => Ranged(a.transport, now))
  BY <1>1, <1>7, Frozen, UntouchedKeeps
<1>9. ASSUME NEW up, KeySpeed(up) PROVE AppInv'
  <2>1. \/ Press("nav", [app EXCEPT !.transport = transport_faster(@)])
        \/ Press("nav", [app EXCEPT !.transport = transport_slower(@)])
    BY <1>9 DEF KeySpeed
  <2> QED BY <1>1, <1>3, <2>1, QuietKeys
<1>10. ASSUME NEW forward, KeySeek(forward) PROVE AppInv'
  <2>1. KeptBy(seek(a, forward), now)
    BY <1>8, SeekKeeps
  <2> QED BY <1>2, <1>7, <1>10, <2>1 DEF KeySeek
<1>11. ASSUME NEW forward, KeyStep(forward) PROVE AppInv'
  <2>1. PICK t : /\ t = IF forward THEN next_event(a.timeline, a.transport.cursor)
                        ELSE prev_event(a.timeline, a.transport.cursor)
                 /\ Press("nav", step_to(a, t))
    BY <1>7, <1>11 DEF KeyStep
  <2>2. t \in Int
    BY <1>8, <2>1, EventsAreTimes DEF Shape
  <2>3. KeptBy(step_to(a, t), now)
    BY <1>8, <2>2, StepKeeps
  <2> QED BY <1>2, <2>1, <2>3
<1>12. ASSUME NEW w, FilterType(w) PROVE AppInv'
  BY <1>1, <1>2, <1>12, FilterKeeps DEF FilterType
<1>13. CASE FilterBackspace
  BY <1>1, <1>2, <1>13, FilterKeeps DEF FilterBackspace
<1>14. CASE FilterCancel
  <2>1. PICK b : b = [app EXCEPT !.mode = "nav"]
    OBVIOUS
  <2>2. Shape(b) /\ (is_live => Ranged(b.transport, now))
    BY <1>1, <2>1, QuietKeys, UntouchedKeeps
  <2>3. KeptBy(edit_filter(b, <<>>), now)
    BY <2>2, FilterKeeps
  <2> QED BY <1>2, <1>14, <2>1, <2>3 DEF FilterCancel
<1> QED BY <1>4, <1>5, <1>6, <1>9, <1>10, <1>11, <1>12, <1>13, <1>14 DEF Keys

LEMMA NowGrows ==
    ASSUME RetentionInv, [Next]_vars
    PROVE  now \in Nat /\ now' \in Nat /\ now <= now'
<1>1. now \in Nat
  BY DEF RetentionInv
<1>2. ASSUME NEW g \in Segments, NEW t \in Time,
             ObserveJoin(g @@ [ts |-> t]) \/ ObserveCreate(g @@ [ts |-> t])
      PROVE  now' \in Nat /\ now <= now'
  <2>1. PICK seg \in Segment : Arrives(seg)
    BY <1>2, CapturedSegment DEF ObserveJoin, ObserveCreate
  <2> QED BY <1>1, <2>1 DEF Arrives, later, Segment
<1>3. ASSUME NEW t \in Time, ObserveTick(t) PROVE now' \in Nat /\ now <= now'
  BY <1>1, <1>3, TrackerAssumption DEF ObserveTick, later, Time
<1>4. CASE UNCHANGED vars
  BY <1>1, <1>4 DEF vars
<1> QED BY <1>1, <1>2, <1>3, <1>4 DEF Next

\* The horizon is not after now.
LEMMA HorizonBehind ==
    ASSUME is_live, NEW T \in Nat
    PROVE  horizon_at(T) \in Nat /\ horizon_at(T) <= T
BY RetentionAssumption DEF is_live, Evicts, horizon_at, saturating_sub

\* The app the program starts with.
LEMMA InitAppInv ==
    ASSUME AppInit, LifecycleInv, RetentionInv
    PROVE  AppInv
<1>1. conns = <<>> /\ bufs = <<>> /\ now = 0
  BY DEF AppInit, Init
<1>2. PICK tl : tl = with_seq(<<>>, <<>>)
  OBVIOUS
<1>3. tl = with_seq_ending(conns, bufs, 0)
  BY <1>1, <1>2, Zenon DEF with_seq
<1>4. TimelineOK(tl) /\ tl.end = 0
  BY <1>3, TimelineAnswers
<1>5. tl.start = 0
  <2>1. sample_times(bufs) = {}
    BY <1>1 DEF sample_times
  <2> QED BY <1>3, <2>1 DEF with_seq_ending
<1>6. app = app_new(tl, NameTableNew)
  BY <1>2 DEF AppInit
<1>7. Shape(app) /\ Shown(app) /\ app.transport = transport_new(0, 0)
  BY <1>4, <1>5, <1>6, NewApp
<1>8. Ranged(app.transport, now)
  BY <1>1, <1>7 DEF transport_new, Ranged
<1>9. phase = IF is_live THEN "input" ELSE "feed"
  BY DEF AppInit
<1> QED BY <1>7, <1>8, <1>9 DEF AppInv

\* A retarget, when live.
LEMMA RetargetKeeps ==
    ASSUME AppInv, LifecycleInv, RetentionInv, Retarget
    PROVE  /\ AppInv' /\ is_live
           /\ app'.timeline = snapshot /\ app'.query = app.query /\ app'.follow = app.follow
           /\ app'.transport.end = now
           /\ app.follow => app'.transport.cursor = now
           /\ ~app.follow =>
                 app'.transport.cursor = clamp(app.transport.cursor, horizon_at(now), now)
<1>1. /\ is_live /\ phase' = "input" /\ now' = now
      /\ app' = retarget(app, snapshot, horizon_at(now), now)
  BY DEF Retarget, vars
<1>2. PICK T \in Nat, h \in Nat : T = now /\ h = horizon_at(now) /\ h <= T
  BY <1>1, HorizonBehind DEF RetentionInv
<1>3. PICK tl : tl = snapshot /\ TimelineOK(tl)
  BY TimelineAnswers DEF snapshot
<1>4. Shape(app) /\ Ranged(app.transport, T)
  BY <1>1, <1>2 DEF AppInv
<1>5. PICK tr : tr = pinned(app, set_domain(app.transport, h, T), T)
  OBVIOUS
<1>6. PICK b : b = retarget(app, tl, h, T)
  OBVIOUS
<1>7. /\ Shape(b) /\ Shown(b) /\ b.timeline = tl /\ b.query = app.query
      /\ b.follow = app.follow /\ b.transport = tr
  BY <1>2, <1>3, <1>4, <1>5, <1>6, Retargeted
<1>8. /\ tr.end = T /\ (app.follow => tr.cursor = T)
      /\ ~app.follow => tr.cursor = clamp(app.transport.cursor, h, T)
      /\ Ranged(tr, T)
  <2>1. DOMAIN app.transport = TransFields
    BY <1>4 DEF Shape
  <2>2. app.transport.cursor \in Nat
    BY <1>4 DEF Ranged
  <2> QED BY <1>2, <1>5, <2>1, <2>2, DomainMoves
<1>9. app' = b
  BY <1>1, <1>2, <1>3, <1>6
<1>10. AppInv'
  BY <1>1, <1>2, <1>7, <1>8, <1>9 DEF AppInv, is_live
<1> QED BY <1>1, <1>2, <1>3, <1>7, <1>8, <1>9, <1>10

LEMMA StartKeeps ==
    ASSUME AppInv, LifecycleInv, RetentionInv, StartReplay
    PROVE  /\ AppInv' /\ ~is_live
           /\ app'.timeline = into_timeline
           /\ app'.transport = transport_new(into_timeline.start, into_timeline.end)
           /\ \A id \in DOMAIN app'.metas : app'.metas[id].peer = conn_of(into_timeline, id).responder
<1>1. ~is_live /\ phase' = "input" /\ app' = app_new(into_timeline, app.names)
  BY DEF StartReplay
<1>2. PICK tl : tl = into_timeline /\ TimelineOK(tl)
  <2>1. PICK e : into_timeline = with_seq_ending(conns, bufs, e)
    BY Zenon DEF into_timeline, with_seq
  <2> QED BY <2>1, TimelineAnswers
<1>3. PICK b : b = app_new(tl, app.names)
  OBVIOUS
<1>4. /\ Shape(b) /\ Shown(b) /\ b.timeline = tl /\ b.transport = transport_new(tl.start, tl.end)
      /\ \A id \in DOMAIN b.metas : b.metas[id].peer = conn_of(tl, id).responder
  BY <1>2, <1>3, NewApp
<1>5. app' = b
  BY <1>1, <1>2, <1>3
<1>6. AppInv'
  BY <1>1, <1>4, <1>5 DEF AppInv, is_live
<1> QED BY <1>1, <1>2, <1>4, <1>5, <1>6

(***************************************************************************)
(* The inductive invariant holds of every reachable state of the program,  *)
(* live and in a replay, for any sequence of keys, frames and items.       *)
(***************************************************************************)
THEOREM AppInvariant == AppSpec => []AppInv
<1>1. AppInit /\ LifecycleInv /\ RetentionInv => AppInv
  BY InitAppInv
<1>2. ASSUME AppInv, LifecycleInv, RetentionInv, [AppNext]_appvars PROVE AppInv'
  <2>1. CASE Feed
    <3>1. app' = app /\ phase' = "feed" /\ phase = "feed"
      BY <2>1 DEF Feed
    <3>2. now \in Nat /\ now' \in Nat /\ now <= now'
      BY <1>2, AppStep, NowGrows
    <3>3. is_live => Ranged(app.transport, now')
      BY <1>2, <3>2 DEF AppInv, Ranged
    <3> QED BY <1>2, <3>1, <3>3 DEF AppInv, is_live
  <2>2. CASE Keys
    BY <1>2, <2>2, KeysKeep
  <2>3. CASE Quit \/ Done \/ NoKey
    <3>1. /\ app' = app /\ now' = now
          /\ phase' \in {"done", IF is_live THEN "feed" ELSE "play"}
          /\ (phase' = "play" => phase = "input")
      BY <2>3 DEF Quit, Done, NoKey, appvars, vars
    <3> QED BY <1>2, <3>1 DEF AppInv, is_live
  <2>4. CASE StartReplay
    BY <1>2, <2>4, StartKeeps
  <2>5. CASE Retarget
    BY <1>2, <2>5, RetargetKeeps
  <2>6. ASSUME NEW obs, HearName(obs) PROVE AppInv'
    <3>1. PICK v : app' = [app EXCEPT !.names = v]
      BY <2>6 DEF HearName
    <3>2. now' = now /\ phase' = "feed"
      BY <2>6 DEF HearName, vars
    <3>3. Shape(app') /\ (is_live => Ranged(app'.transport, now))
      BY <1>2, <3>1, QuietKeys, UntouchedKeeps DEF AppInv
    <3> QED BY <3>2, <3>3 DEF AppInv, is_live
  <2>7. ASSUME NEW dt, ReplayTick(dt) PROVE AppInv'
    <3>1. app' = tick(app, dt) /\ phase' = "input" /\ ~is_live
      BY <1>2, <2>7 DEF ReplayTick, AppInv
    <3>2. Shape(app) /\ Shown(app)
      BY <1>2, <2>7 DEF ReplayTick, AppInv
    <3>3. Shape(app') /\ Shown(app')
      BY <3>1, <3>2, TickKeeps
    <3> QED BY <3>1, <3>3 DEF AppInv, is_live
  <2>8. CASE UNCHANGED appvars
    <3>1. app' = app /\ phase' = phase /\ now' = now
      BY <2>8 DEF appvars, vars
    <3> QED BY <1>2, <3>1 DEF AppInv, is_live
  <2> QED BY <1>2, <2>1, <2>2, <2>3, <2>4, <2>5, <2>6, <2>7, <2>8 DEF AppNext
<1> QED BY <1>1, <1>2, AppTracks, LifecycleInvariant, RetentionInvariant, PTL DEF AppSpec

(***************************************************************************)
(* SelectionShown: whatever was pressed, captured or evicted, a frame      *)
(* highlights a row exactly when it has one.                               *)
(***************************************************************************)
THEOREM SelectionIsShown == AppSpec => []SelectionShown
<1>1. AppInv => SelectionShown
  BY DEF AppInv, Shown, SelectionShown, Drawn
<1> QED BY <1>1, AppInvariant, PTL

(***************************************************************************)
(* FrozenCursorStays: retarget moves a frozen cursor to the retention      *)
(* horizon if that has passed it, and otherwise not at all; the cursor     *)
(* is never beyond the end of the new domain.                              *)
(***************************************************************************)
THEOREM FrozenCursorIsKept == AppSpec => FrozenCursorStays
<1> DEFINE Stays == phase = "feed" /\ phase' = "input" /\ is_live /\ ~app.follow =>
                       app'.transport.cursor = later(app.transport.cursor, horizon_at(now))
<1>1. ASSUME AppInv, LifecycleInv, RetentionInv, [AppNext]_appvars PROVE Stays
  <2> SUFFICES ASSUME phase = "feed", phase' = "input", is_live, ~app.follow
               PROVE  app'.transport.cursor = later(app.transport.cursor, horizon_at(now))
    OBVIOUS
  <2>1. Retarget
    <3>1. \A m, a : ~Press(m, a)
      BY DEF Press
    <3>2. ~Keys
      BY <3>1 DEF Keys, KeySort, KeyDir, KeySpace, KeyEnter, KeyEsc, KeyTab, KeySlash,
              KeyMove, KeySeek, KeySpeed, KeyStep, FilterType, FilterBackspace, FilterConfirm,
              FilterCancel
    <3>3. ~Feed /\ ~Quit /\ ~Done /\ ~NoKey /\ ~StartReplay /\ ~UNCHANGED appvars
      BY DEF Feed, Quit, Done, NoKey, StartReplay, appvars
    <3>4. \A obs : ~HearName(obs)
      BY DEF HearName
    <3>5. \A dt : ~ReplayTick(dt)
      BY DEF ReplayTick
    <3> QED BY <1>1, <3>2, <3>3, <3>4, <3>5 DEF AppNext
  <2>2. app'.transport.cursor = clamp(app.transport.cursor, horizon_at(now), now)
    BY <1>1, <2>1, RetargetKeeps
  <2>3. PICK T \in Nat, h \in Nat : T = now /\ h = horizon_at(now) /\ h <= T
    BY <1>1, HorizonBehind DEF RetentionInv
  <2>4. PICK c \in Nat : c = app.transport.cursor /\ c <= T
    <3>1. Ranged(app.transport, T)
      BY <1>1, <2>3 DEF AppInv
    <3> QED BY <3>1, <2>3 DEF Ranged
  <2>5. clamp(c, h, T) = later(c, h)
    BY <2>3, <2>4 DEF clamp, later
  <2> QED BY <2>2, <2>3, <2>4, <2>5
<1>2. AppSpec => [][Stays]_appvars
  BY <1>1, AppInvariant, AppTracks, LifecycleInvariant, RetentionInvariant, PTL DEF AppSpec
<1> QED BY <1>2 DEF FrozenCursorStays

-----------------------------------------------------------------------------
(***************************************************************************)
(* Following: what a frame drawn at the tracker's now shows.               *)
(***************************************************************************)

\* In a series in time order the sample in force at its end is the last one.
LEMMA NewestInForce ==
    ASSUME NEW n \in Nat, n > 0, NEW s, TimesIn(s, n), NEW T \in Nat,
           \A k \in 1 .. n : s[k].t <= T /\ \A j \in k .. n : s[k].t <= s[j].t
    PROVE  latest(s, T) = {s[n]}
<1> DEFINE K == {k \in DOMAIN s : s[k].t <= T}
           L == {k \in K : \A j \in K : s[j].t < s[k].t \/ (s[j].t = s[k].t /\ j <= k)}
<1>1. latest(s, T) = {s[k] : k \in L}
  BY Zenon DEF latest
<1>2. K = 1 .. n
  BY DEF TimesIn
<1>3. ASSUME NEW k \in L PROVE k = n
  <2>1. k \in 1 .. n /\ n \in 1 .. n
    BY <1>2
  <2>2. s[n].t < s[k].t \/ (s[n].t = s[k].t /\ n <= k)
    BY <1>2, <1>3, <2>1
  <2>3. s[k].t <= s[n].t /\ s[k].t \in Nat /\ s[n].t \in Nat
    BY <2>1 DEF TimesIn
  <2> QED BY <2>1, <2>2, <2>3
<1>4. n \in L
  <2>1. ASSUME NEW j \in 1 .. n PROVE s[j].t < s[n].t \/ (s[j].t = s[n].t /\ j <= n)
    <3>1. s[j].t <= s[n].t /\ s[j].t \in Nat /\ s[n].t \in Nat
      BY DEF TimesIn
    <3> QED BY <3>1
  <2> QED BY <1>2, <2>1
<1> HIDE DEF L
<1> QED BY <1>1, <1>3, <1>4

\* An open connection is resolved at now in its current state.
LEMMA OpenIsResolved ==
    ASSUME is_live, CollectState, LifecycleInv, RetentionInv, OrderedInv, SpanInv,
           NEW i \in DOMAIN conns, conns[i].state \notin Terminal
    PROVE  /\ asof_of(conns[i]) \in resolve_at(snapshot, now)
           /\ conns[i].id \in ids_of(snapshot)
<1>1. i \in 1 .. Len(conns)
  BY ByIndex DEF LifecycleInv
<1>2. PICK T \in Nat : T = now
  BY DEF RetentionInv
<1>3. PICK tl : tl = snapshot
  OBVIOUS
<1>4. DOMAIN tl.entries = DOMAIN conns /\ tl.entries[i] = entry(conns[i], bufs[i], T)
  BY <1>2, <1>3, TimelineAnswers DEF snapshot
<1>5. PICK s : s = bufs[i].q["states"]
  OBVIOUS
<1>6. /\ tl.entries[i].conn = conns[i] /\ tl.entries[i].samples = sort_by_t(s)
      /\ tl.entries[i].effective_end = T
  BY <1>4, <1>5 DEF entry, effective_end
<1>7. PICK n \in Nat : n = Len(s) /\ TimesIn(s, n)
  <2>1. TimesIn(s, Len(s))
    BY <1>5, SortedStates
  <2> QED BY <2>1 DEF TimesIn
<1>8. ~overflowed
  BY DEF RetentionInv, SamplesOK, StoreOK, Store, Ceiling, is_live
<1>9. n > 0 /\ s[n].state = conns[i].state /\ s[n].bytes = conns[i].bytes
  <2>1. ShowsState(bufs[i], conns[i])
    BY <1>1, <1>8 DEF RetentionInv, SamplesOK
  <2>2. Len(s) > 0 /\ Last(s).state = conns[i].state /\ Last(s).bytes = conns[i].bytes
    BY <1>5, <2>1 DEF ShowsState
  <2> QED BY <1>7, <2>2 DEF Last
<1>10. \A k \in 1 .. n : s[k].t <= T /\ \A j \in k .. n : s[k].t <= s[j].t
  <2>1. SortedUpto(s, T)
    BY <1>1, <1>2, <1>5, SixSeries DEF OrderedInv, InOrder
  <2> QED BY <1>7, <2>1 DEF SortedUpto
<1>11. latest(s, T) = {s[n]}
  BY <1>7, <1>9, <1>10, NewestInForce
<1>12. PICK b : b = sort_by_t(s)
  OBVIOUS
<1>13. PICK k \in Nat : /\ k = partition_point(b, LAMBDA e : e.t <= T)
                        /\ latest(s, T) = IF k > 0 THEN {b[k]} ELSE {}
  BY <1>7, <1>12, SearchSeries
<1>14. k > 0 /\ b[k] = s[n]
  BY <1>11, <1>13
<1>15. seen_by(tl, i, T) = k
  BY <1>6, <1>12, <1>13 DEF seen_by
<1>16. i \in active_indices(tl, T)
  <2>1. conns[i].opened_at <= T
    <3>1. PICK o \in Nat, l \in Nat : o = conns[i].opened_at /\ l = conns[i].last_at
      BY <1>1, ByIndex DEF LifecycleInv, Conn
    <3> QED BY <1>1, <1>2, <3>1 DEF SpanInv, Spans
  <2> QED BY <1>4, <1>6, <2>1 DEF active_indices
<1> DEFINE row(j) == [id |-> tl.entries[j].conn.id,
                      state |-> tl.entries[j].samples[seen_by(tl, j, T)].state,
                      bytes |-> tl.entries[j].samples[seen_by(tl, j, T)].bytes]
           I == {j \in active_indices(tl, T) : seen_by(tl, j, T) > 0}
<1>17. resolve_at(tl, T) = {row(j) : j \in I}
  BY Zenon DEF resolve_at
<1>18. i \in I
  BY <1>14, <1>15, <1>16
<1>19. row(i) = asof_of(conns[i])
  BY <1>6, <1>9, <1>12, <1>14, <1>15 DEF asof_of
<1> HIDE DEF row, I
<1>20. asof_of(conns[i]) \in resolve_at(tl, T)
  BY <1>17, <1>18, <1>19
<1>21. conns[i].id \in ids_of(tl)
  BY <1>4, <1>6 DEF ids_of
<1> QED BY <1>2, <1>3, <1>20, <1>21

\* Without a filter every resolved connection that has a meta is a row.
LEMMA Unfiltered ==
    ASSUME NEW a, a.query = <<>>, NEW r \in resolve_at(a.timeline, a.transport.cursor),
           r.id \in DOMAIN a.metas
    PROVE  r \in rows(a)
<1>1. ASSUME NEW h PROVE is_subsequence(<<>>, h)
  <2>1. DOMAIN <<>> = {}
    OBVIOUS
  <2>2. PICK f : f = [x \in {} |-> 0]
    OBVIOUS
  <2>3. f \in [DOMAIN <<>> -> DOMAIN h]
    BY <2>1, <2>2
  <2> QED BY <2>1, <2>3 DEF is_subsequence
<1> QED BY <1>1 DEF rows

(***************************************************************************)
(* FollowShowsNow, of a capture whose timestamps are in order: what the    *)
(* drain folded in is what the next frame shows, for every connection that *)
(* is open, at any number of connections and samples and under the         *)
(* backstop.                                                               *)
(***************************************************************************)
THEOREM FollowIsCurrent ==
    ASSUME Jitter = 0, CollectState
    PROVE  AppSpec => []FollowShowsNow
<1>1. AppInit /\ AppInv => FollowShowsNow
  <2> SUFFICES ASSUME AppInit, AppInv, is_live PROVE FollowShowsNow
    BY DEF FollowShowsNow
  <2>1. conns = <<>> /\ now = 0
    BY DEF AppInit, Init
  <2>2. app.transport.cursor = app.transport.end
    <3>1. PICK c \in Nat, e \in Nat, s \in Nat :
             c = app.transport.cursor /\ e = app.transport.end /\ s <= c /\ c <= e /\ e <= 0
      BY <2>1 DEF AppInv, Ranged
    <3> QED BY <3>1
  <2>3. DOMAIN conns = {}
    BY <2>1
  <2> QED BY <2>2, <2>3 DEF FollowShowsNow
<1>2. ASSUME AppInv, LifecycleInv, RetentionInv, OrderedInv, SpanInv, FollowShowsNow,
             [AppNext]_appvars
      PROVE  FollowShowsNow'
  <2> SUFFICES ASSUME is_live, phase' = "input" PROVE FollowShowsNow'
    BY DEF FollowShowsNow, Drawn, is_live
  <2>1. CASE Retarget
    <3>1. /\ AppInv' /\ app'.timeline = snapshot /\ app'.query = app.query
          /\ app'.follow = app.follow /\ app'.transport.end = now
          /\ app.follow => app'.transport.cursor = now
      BY <1>2, <2>1, RetargetKeeps
    <3>2. conns' = conns
      BY <2>1 DEF Retarget, vars
    <3>3. MetasOK(app')
      BY <3>1 DEF AppInv, Shape
    <3>4. ASSUME app.follow, app.query = <<>>, NEW i \in DOMAIN conns,
                 conns[i].state \notin Terminal
          PROVE  asof_of(conns[i]) \in rows(app')
      <4>1. PICK a : a = app'
        OBVIOUS
      <4>2. PICK r : r = asof_of(conns[i])
        OBVIOUS
      <4>3. r.id = conns[i].id
        BY <4>2 DEF asof_of
      <4>4. r \in resolve_at(a.timeline, a.transport.cursor)
        BY <1>2, <3>1, <3>4, <4>1, <4>2, OpenIsResolved
      <4>5. r.id \in DOMAIN a.metas
        BY <1>2, <3>1, <3>3, <3>4, <4>1, <4>3, OpenIsResolved DEF MetasOK
      <4> QED BY <3>1, <3>4, <4>1, <4>2, <4>4, <4>5, Unfiltered
    <3>5. \A i \in DOMAIN conns' : asof_of(conns[i]) = asof_of(conns[i])'
      BY <3>2 DEF asof_of
    <3> QED BY <3>1, <3>2, <3>4 DEF FollowShowsNow, Drawn, rows
  <2>2. CASE UNCHANGED appvars
    <3>1. app' = app /\ phase' = phase /\ conns' = conns
      BY <2>2 DEF appvars, vars
    <3> QED BY <1>2, <3>1 DEF FollowShowsNow, Drawn, is_live
  <2>3. CASE Keys
    <3>1. \A m, a : Press(m, a) => phase' = "feed"
      BY DEF Press
    <3> QED BY <2>3, <3>1 DEF Keys, KeySort, KeyDir, KeySpace, KeyEnter, KeyEsc, KeyTab, KeySlash,
              KeyMove, KeySeek, KeySpeed, KeyStep, FilterType, FilterBackspace, FilterConfirm,
              FilterCancel
  <2>4. ~Feed /\ ~Quit /\ ~Done /\ ~NoKey /\ ~StartReplay
    BY DEF Feed, Quit, Done, NoKey, StartReplay, appvars
  <2>5. \A obs : ~HearName(obs)
    BY DEF HearName
  <2>6. \A dt : ~ReplayTick(dt)
    BY <1>2 DEF ReplayTick, AppInv
  <2> QED BY <1>2, <2>1, <2>2, <2>3, <2>4, <2>5, <2>6 DEF AppNext
<1>3. Spec => []OrderedInv
  BY OrderedInvariant
<1> QED BY <1>1, <1>2, <1>3, AppInvariant, AppTracks, LifecycleInvariant, RetentionInvariant,
           SpanInvariant, PTL DEF AppSpec

-----------------------------------------------------------------------------
(***************************************************************************)
(* A replay: the timeline and the metas stay those the file ended with.    *)
(***************************************************************************)
SameCapture(a, b) == DOMAIN b = DOMAIN a /\ b.timeline = a.timeline /\ b.metas = a.metas

LEMMA OtherFields ==
    ASSUME NEW a, DOMAIN a = AppFields, NEW v
    PROVE  /\ SameCapture(a, [a EXCEPT !.transport = v]) /\ SameCapture(a, [a EXCEPT !.query = v])
           /\ SameCapture(a, [a EXCEPT !.selected = v]) /\ SameCapture(a, [a EXCEPT !.mode = v])
           /\ SameCapture(a, reconcile_selection(a)) /\ SameCapture(a, a)
<1>1. /\ SameCapture(a, [a EXCEPT !.transport = v]) /\ SameCapture(a, [a EXCEPT !.query = v])
      /\ SameCapture(a, [a EXCEPT !.mode = v]) /\ SameCapture(a, a)
  BY DEF SameCapture, AppFields
<1>2. \A w : SameCapture(a, [a EXCEPT !.selected = w])
  BY DEF SameCapture, AppFields
<1>3. SameCapture(a, reconcile_selection(a))
  BY <1>1, <1>2 DEF reconcile_selection
<1> QED BY <1>1, <1>2, <1>3

\* Reconciled after another field was set.
LEMMA SetAndReconciled ==
    ASSUME NEW a, DOMAIN a = AppFields, NEW v
    PROVE  /\ SameCapture(a, reconcile_selection([a EXCEPT !.transport = v]))
           /\ SameCapture(a, reconcile_selection([a EXCEPT !.query = v]))
<1>1. ASSUME NEW b, SameCapture(a, b) PROVE SameCapture(a, reconcile_selection(b))
  <2>1. DOMAIN b = AppFields
    BY <1>1 DEF SameCapture
  <2>2. SameCapture(b, reconcile_selection(b))
    BY <2>1, OtherFields
  <2> QED BY <1>1, <2>2 DEF SameCapture
<1> QED BY <1>1, OtherFields

\* No key and no tick of a replay changes what was captured.
LEMMA KeysKeepCapture ==
    ASSUME AppInv, ~is_live, Keys
    PROVE  SameCapture(app, app') /\ phase' = "play" /\ UNCHANGED vars
<1>1. Shape(app) /\ DOMAIN app = AppFields
  BY DEF AppInv, Shape
<1>2. ASSUME NEW m, NEW b, Press(m, b), SameCapture(app, b)
      PROVE  SameCapture(app, app') /\ phase' = "play" /\ UNCHANGED vars
  BY <1>2 DEF Press
<1>3. ASSUME NEW b, Untouched(app, b) PROVE SameCapture(app, b)
  BY <1>3 DEF Untouched, SameCapture
<1>4. CASE KeySort \/ KeyDir \/ KeyEnter \/ KeyEsc \/ KeyTab \/ KeySlash \/ FilterConfirm
  BY <1>1, <1>2, <1>3, <1>4, QuietKeys
     DEF KeySort, KeyDir, KeyEnter, KeyEsc, KeyTab, KeySlash, FilterConfirm
<1>5. CASE KeySpace
  <2>1. SameCapture(app, toggle_play(app))
    BY <1>1, SetAndReconciled DEF toggle_play
  <2> QED BY <1>2, <1>5, <2>1 DEF KeySpace
<1>6. ASSUME NEW step, KeyMove(step) PROVE SameCapture(app, app') /\ phase' = "play" /\ UNCHANGED vars
  <2>1. PICK sel : move_by(app, step) = [app EXCEPT !.selected = sel]
    BY DEF move_by
  <2>2. SameCapture(app, move_by(app, step))
    BY <1>1, <2>1, OtherFields, ZenonT(40)
  <2> QED BY <1>2, <1>6, <2>2 DEF KeyMove
<1>7. freeze_if_live(app) = app
  BY DEF freeze_if_live
<1>8. ASSUME NEW up, KeySpeed(up) PROVE SameCapture(app, app') /\ phase' = "play" /\ UNCHANGED vars
  <2>1. PICK tr : Press("nav", [app EXCEPT !.transport = tr])
    BY <1>8 DEF KeySpeed
  <2> QED BY <1>1, <1>2, <2>1, OtherFields
<1>9. ASSUME NEW forward, KeySeek(forward)
      PROVE  SameCapture(app, app') /\ phase' = "play" /\ UNCHANGED vars
  <2>1. SameCapture(app, seek(app, forward))
    BY <1>1, SetAndReconciled DEF seek
  <2> QED BY <1>2, <1>7, <1>9, <2>1 DEF KeySeek
<1>10. ASSUME NEW forward, KeyStep(forward)
       PROVE  SameCapture(app, app') /\ phase' = "play" /\ UNCHANGED vars
  <2>1. PICK t : Press("nav", step_to(app, t))
    BY <1>7, <1>10 DEF KeyStep
  <2>2. SameCapture(app, step_to(app, t))
    BY <1>1, SetAndReconciled, OtherFields DEF step_to
  <2> QED BY <1>2, <2>1, <2>2
<1>11. ASSUME NEW q PROVE SameCapture(app, edit_filter(app, q))
  BY <1>1, SetAndReconciled DEF edit_filter
<1>12. ASSUME NEW w, FilterType(w) PROVE SameCapture(app, app') /\ phase' = "play" /\ UNCHANGED vars
  BY <1>2, <1>11, <1>12 DEF FilterType
<1>13. CASE FilterBackspace
  BY <1>2, <1>11, <1>13 DEF FilterBackspace
<1>14. CASE FilterCancel
  <2>1. PICK b : b = [app EXCEPT !.mode = "nav"]
    OBVIOUS
  <2>2. SameCapture(app, b)
    BY <1>1, <2>1, OtherFields
  <2>3. DOMAIN b = AppFields
    BY <1>1, <2>2 DEF SameCapture
  <2>4. SameCapture(b, edit_filter(b, <<>>))
    BY <2>3, SetAndReconciled DEF edit_filter
  <2>5. SameCapture(app, edit_filter(b, <<>>))
    BY <2>2, <2>4 DEF SameCapture
  <2> QED BY <1>2, <1>14, <2>1, <2>5 DEF FilterCancel
<1> QED BY <1>4, <1>5, <1>6, <1>8, <1>9, <1>10, <1>12, <1>13, <1>14 DEF Keys

\* After a tick playback goes on only with something left to play.
LEMMA TickStops ==
    ASSUME NEW a, Shape(a), NEW dt
    PROVE  LET b == tick(a, dt)
           IN  SameCapture(a, b) /\ (b.transport.playing => b.transport.cursor < b.transport.end)
<1>1. PICK tr : tr = transport_tick(a.transport, dt)
  OBVIOUS
<1>2. DOMAIN a = AppFields /\ DOMAIN a.transport = TransFields
  BY DEF Shape
<1>3. tr.playing => tr.cursor < tr.end
  BY <1>1, <1>2 DEF transport_tick, TransFields
<1>4. PICK b : b = [a EXCEPT !.transport = tr]
  OBVIOUS
<1>5. SameCapture(a, b) /\ b.transport = tr /\ DOMAIN b = AppFields
  BY <1>2, <1>4 DEF SameCapture, AppFields
<1>6. \/ tick(a, dt) = b
      \/ tick(a, dt) = reconcile_selection(b)
  BY <1>1, <1>4 DEF tick
<1>7. SameCapture(b, reconcile_selection(b)) /\ reconcile_selection(b).transport = tr
  <2>1. SameCapture(b, reconcile_selection(b))
    BY <1>5, OtherFields
  <2>2. \A v : [b EXCEPT !.selected = v].transport = tr
    BY <1>5 DEF AppFields
  <2> QED BY <1>5, <2>1, <2>2 DEF reconcile_selection
<1> QED BY <1>3, <1>5, <1>6, <1>7 DEF SameCapture

PeersOf(a) == \A id \in DOMAIN a.metas : a.metas[id].peer = conn_of(a.timeline, id).responder

\* From the end of the file on the app shows the capture.
ReplayInv ==
    phase # "feed" =>
        /\ app.timeline = into_timeline /\ PeersOf(app)
        /\ phase = "input" /\ app.transport.playing => app.transport.cursor < app.transport.end

LEMMA ReplayInvariant ==
    ASSUME ~Evicts
    PROVE  AppSpec => []ReplayInv
<1>0. ~is_live
  BY DEF is_live
<1>1. AppInit => ReplayInv
  BY <1>0 DEF AppInit, ReplayInv
<1>2. ASSUME AppInv, LifecycleInv, RetentionInv, ReplayInv, [AppNext]_appvars PROVE ReplayInv'
  <2>0. ASSUME SameCapture(app, app'), UNCHANGED vars, phase # "feed",
               phase' = "input" => (app'.transport.playing => app'.transport.cursor < app'.transport.end)
        PROVE  ReplayInv'
    <3>1. into_timeline' = into_timeline
      <4>1. conns' = conns /\ bufs' = bufs
        BY <2>0 DEF vars
      <4> QED BY <4>1 DEF into_timeline
    <3>2. app'.timeline = into_timeline /\ PeersOf(app')
      BY <1>2, <2>0 DEF ReplayInv, PeersOf, SameCapture
    <3> QED BY <2>0, <3>1, <3>2 DEF ReplayInv
  <2>1. CASE Feed
    BY <2>1 DEF Feed, ReplayInv
  <2>2. CASE Keys
    <3>1. phase # "feed"
      <4>1. \A m, a : Press(m, a) => phase = "input"
        BY DEF Press
      <4> QED BY <2>2, <4>1 DEF Keys, KeySort, KeyDir, KeySpace, KeyEnter, KeyEsc, KeyTab, KeySlash,
              KeyMove, KeySeek, KeySpeed, KeyStep, FilterType, FilterBackspace, FilterConfirm,
              FilterCancel
    <3>2. SameCapture(app, app') /\ phase' = "play" /\ UNCHANGED vars
      BY <1>0, <1>2, <2>2, KeysKeepCapture
    <3> QED BY <2>0, <3>1, <3>2
  <2>3. CASE Quit \/ Done \/ NoKey
    <3>1. app' = app /\ UNCHANGED vars /\ phase # "feed" /\ phase' # "input"
      BY <1>0, <2>3 DEF Quit, Done, NoKey, appvars
    <3>2. SameCapture(app, app')
      BY <3>1 DEF SameCapture
    <3> QED BY <2>0, <3>1, <3>2
  <2>4. CASE StartReplay
    <3>1. /\ app'.timeline = into_timeline
          /\ app'.transport = transport_new(into_timeline.start, into_timeline.end)
          /\ \A id \in DOMAIN app'.metas : app'.metas[id].peer = conn_of(into_timeline, id).responder
      BY <1>2, <2>4, StartKeeps
    <3>2. ~app'.transport.playing
      BY <3>1 DEF transport_new
    <3>3. into_timeline' = into_timeline
      <4>1. conns' = conns /\ bufs' = bufs
        BY <2>4 DEF StartReplay, vars
      <4> QED BY <4>1 DEF into_timeline
    <3> QED BY <3>1, <3>2, <3>3 DEF ReplayInv, PeersOf
  <2>5. ~Retarget
    BY <1>0 DEF Retarget
  <2>6. ASSUME NEW obs, HearName(obs) PROVE ReplayInv'
    BY <2>6 DEF HearName, ReplayInv
  <2>7. ASSUME NEW dt, ReplayTick(dt) PROVE ReplayInv'
    <3>1. app' = tick(app, dt) /\ phase = "play" /\ UNCHANGED vars
      BY <2>7 DEF ReplayTick
    <3>2. Shape(app)
      BY <1>2 DEF AppInv
    <3>3. /\ SameCapture(app, app')
          /\ app'.transport.playing => app'.transport.cursor < app'.transport.end
      BY <3>1, <3>2, TickStops
    <3> QED BY <2>0, <3>1, <3>3
  <2>8. CASE UNCHANGED appvars
    <3>1. app' = app /\ phase' = phase /\ conns' = conns /\ bufs' = bufs
      BY <2>8 DEF appvars, vars
    <3>2. into_timeline' = into_timeline
      BY <3>1 DEF into_timeline
    <3> QED BY <1>2, <3>1, <3>2 DEF ReplayInv, PeersOf
  <2> QED BY <1>2, <2>1, <2>2, <2>3, <2>4, <2>5, <2>6, <2>7, <2>8 DEF AppNext
<1> QED BY <1>1, <1>2, AppInvariant, AppTracks, LifecycleInvariant, RetentionInvariant, PTL DEF AppSpec

\* A table and the selection in it.
Highlights(rs, sel) == {k \in DOMAIN rs : rs[k].id \in sel}

LEMMA OneHighlighted ==
    ASSUME NEW a, Shape(a), Shown(a), rows(a) # {}
    PROVE  Cardinality(Highlights(visible(a), a.selected)) = 1
<1>1. PICK s : s = visible(a)
  OBVIOUS
<1>2. Lists(s, rows(a))
  BY <1>1, VisibleLists DEF Shape
<1>3. PICK n \in Nat : /\ s \in [1 .. n -> rows(a)]
                       /\ \A x \in rows(a) : \E k \in 1 .. n : s[k] = x
                       /\ \A i, j \in 1 .. n : s[i] = s[j] => i = j
  BY <1>2 DEF Lists
<1>4. PICK r \in rows(a) : r.id \in a.selected
  BY DEF Shown
<1>5. PICK k \in 1 .. n : s[k] = r
  BY <1>3
<1>6. ASSUME NEW j \in 1 .. n, s[j].id \in a.selected PROVE j = k
  <2>1. s[j].id = s[k].id
    BY <1>4, <1>5, <1>6 DEF Shape, AtMostOne
  <2>2. PICK m : Entries(a.timeline.entries, m)
    BY DEF Shape, TimelineOK
  <2>3. s[j] = s[k]
    <3>1. s[j] \in rows(a) /\ s[k] \in rows(a)
      BY <1>3
    <3> QED BY <2>1, <2>2, <3>1, RowTypes DEF Shape
  <2> QED BY <1>3, <2>3
<1>7. Highlights(s, a.selected) = {k}
  BY <1>3, <1>4, <1>5, <1>6 DEF Highlights
<1> QED BY <1>1, <1>7, FS_Singleton

\* The detail pane's title is the label of a highlighted row.
LEMMA TitleIsHighlighted ==
    ASSUME NEW a, Shape(a), Shown(a), PeersOf(a), NEW d \in detail_title(a)
    PROVE  \E k \in Highlights(visible(a), a.selected) :
              /\ table_row(a, visible(a)[k]).id = d.id
              /\ table_row(a, visible(a)[k]).peer = d.peer
<1>1. PICK i \in DOMAIN a.timeline.entries :
         /\ a.timeline.entries[i].conn.id \in a.selected
         /\ d = [id |-> a.timeline.entries[i].conn.id, origin |-> a.timeline.entries[i].conn.origin,
                 peer |-> peer_label(a.timeline.entries[i].conn.responder,
                                     a.metas[a.timeline.entries[i].conn.id].host)]
  BY DEF detail_title, focus_entries
<1>2. PICK id, c : c = a.timeline.entries[i].conn /\ id = c.id
  OBVIOUS
<1>3. d.id = id /\ d.peer = peer_label(c.responder, a.metas[id].host) /\ id \in a.selected
  BY <1>1, <1>2
<1>4. PICK r \in rows(a) : r.id = id
  BY <1>3 DEF Shown
<1>5. PICK s : s = visible(a)
  OBVIOUS
<1>6. PICK n \in Nat : /\ s \in [1 .. n -> rows(a)]
                       /\ \A x \in rows(a) : \E k \in 1 .. n : s[k] = x
  <2>1. Lists(s, rows(a))
    BY <1>5, VisibleLists DEF Shape
  <2> QED BY <2>1 DEF Lists
<1>7. PICK k \in 1 .. n : s[k] = r
  BY <1>6
<1>8. k \in Highlights(s, a.selected)
  BY <1>3, <1>4, <1>6, <1>7 DEF Highlights
<1>9. a.metas[id].peer = c.responder
  <2>1. PICK m : Entries(a.timeline.entries, m)
    BY DEF Shape, TimelineOK
  <2>2. id \in ids_of(a.timeline) /\ i \in 1 .. m
    BY <1>1, <1>2, <2>1 DEF ids_of, Entries
  <2>3. conn_of(a.timeline, id) = c
    BY <1>2, <2>1, <2>2, ConnOf
  <2> QED BY <2>2, <2>3 DEF PeersOf, Shape, MetasOK
<1>10. table_row(a, r).id = id /\ table_row(a, r).peer = peer_label(a.metas[id].peer, a.metas[id].host)
  BY <1>4 DEF table_row
<1> QED BY <1>3, <1>5, <1>7, <1>8, <1>9, <1>10

\* An app without rows has an empty table, and the converse.
LEMMA TableEmpty ==
    ASSUME NEW a, Shape(a)
    PROVE  visible(a) = <<>> <=> rows(a) = {}
<1>1. PICK s : s = visible(a)
  OBVIOUS
<1>2. PICK n \in Nat : /\ n = Cardinality(rows(a)) /\ s \in [1 .. n -> rows(a)]
                       /\ \A x \in rows(a) : \E k \in 1 .. n : s[k] = x
  <2>1. Lists(s, rows(a))
    BY <1>1, VisibleLists DEF Shape
  <2> QED BY <2>1 DEF Lists
<1>3. DOMAIN s = 1 .. n
  BY <1>2
<1>4. ASSUME rows(a) = {} PROVE s = <<>>
  <2>1. n = 0
    BY <1>2, <1>4, FS_EmptySet
  <2> QED BY <1>2, <2>1
<1>5. ASSUME s = <<>> PROVE rows(a) = {}
  <2>1. 1 .. n = {}
    BY <1>3, <1>5
  <2> QED BY <1>2, <2>1
<1> QED BY <1>1, <1>4, <1>5

(***************************************************************************)
(* PanesAgree, of a replay: the parts of every frame agree, for every      *)
(* capture and any sequence of keys and ticks.  Live, the peer of a row    *)
(* can be that of an evicted connection (MetasCurrent).                    *)
(***************************************************************************)
THEOREM FramesAgree ==
    ASSUME ~Evicts
    PROVE  AppSpec => []PanesAgree
<1>1. ASSUME AppInv, ReplayInv, LifecycleInv, RetentionInv, Drawn PROVE PanesAgree
  <2>0. ~is_live /\ phase = "input"
    BY <1>1 DEF is_live, Drawn
  <2>1. /\ Shape(app) /\ Shown(app) /\ app.timeline = into_timeline /\ PeersOf(app)
        /\ app.transport.playing => app.transport.cursor < app.transport.end
    BY <1>1, <2>0 DEF AppInv, ReplayInv
  <2>2. PICK rs : rs = visible(app)
    OBVIOUS
  <2>3. PICK main, detail : main = main_pane(app) /\ detail = detail_pane(app)
    OBVIOUS
  <2>4. /\ main.message = CASE rs # <<>>             -> "none"
                            [] is_capture_empty(app) -> "no connections in capture"
                            [] OTHER                 -> "no connections active"
        /\ main.table = [k \in DOMAIN rs |-> table_row(app, rs[k])]
        /\ main.at = Highlights(rs, app.selected)
    BY <2>2, <2>3 DEF main_pane, Highlights
  <2>5. rs = <<>> <=> rows(app) = {}
    BY <2>1, <2>2, TableEmpty
  <2>6. rs = <<>> <=> main.table = <<>>
    <3>1. Lists(rs, rows(app))
      BY <2>1, <2>2, VisibleLists DEF Shape
    <3>2. PICK n \in Nat : n = Cardinality(rows(app)) /\ rs \in [1 .. n -> rows(app)]
      BY <3>1 DEF Lists
    <3>3. DOMAIN rs = 1 .. n /\ DOMAIN main.table = 1 .. n
      BY <2>4, <3>2
    <3>4. n = 0 => rs = <<>> /\ main.table = <<>>
      <4> SUFFICES ASSUME n = 0 PROVE rs = <<>> /\ main.table = <<>>
        OBVIOUS
      <4>1. rs = <<>>
        BY <3>2
      <4>2. DOMAIN rs = {}
        BY <3>3
      <4>3. main.table \in [{} -> {}]
        BY <2>4, <4>2
      <4> QED BY <4>1, <4>3
    <3>5. n # 0 => rs # <<>> /\ main.table # <<>>
      BY <3>3
    <3> QED BY <3>4, <3>5
  <2>7. \A d \in detail.about : \E k \in main.at :
           main.table[k].id = d.id /\ main.table[k].peer = d.peer
    <3> SUFFICES ASSUME NEW d \in detail.about
                 PROVE  \E k \in main.at : main.table[k].id = d.id /\ main.table[k].peer = d.peer
      OBVIOUS
    <3>1. d \in detail_title(app)
      BY <2>3 DEF detail_pane
    <3>2. PICK k \in Highlights(rs, app.selected) :
              table_row(app, rs[k]).id = d.id /\ table_row(app, rs[k]).peer = d.peer
      BY <2>1, <2>2, <3>1, TitleIsHighlighted
    <3>3. k \in DOMAIN rs /\ k \in main.at
      BY <2>4 DEF Highlights
    <3>4. main.table[k] = table_row(app, rs[k])
      BY <2>4, <3>3
    <3> QED BY <3>2, <3>3, <3>4
  <2>8. detail.message = "no connection selected" => main.table = <<>>
    <3> SUFFICES ASSUME detail.message = "no connection selected" PROVE main.table = <<>>
      OBVIOUS
    <3>1. focus_entries(app) = {}
      BY <2>3 DEF detail_pane
    <3>2. ASSUME NEW id \in app.selected PROVE FALSE
      <4>1. PICK r \in rows(app) : r.id = id
        BY <2>1 DEF Shown
      <4>2. PICK m : Entries(app.timeline.entries, m)
        BY <2>1 DEF Shape, TimelineOK
      <4>3. id \in ids_of(app.timeline)
        BY <2>1, <4>1, <4>2, RowTypes DEF Shape
      <4>4. PICK i \in DOMAIN app.timeline.entries : app.timeline.entries[i].conn.id = id
        BY <4>3 DEF ids_of
      <4>5. app.timeline.entries[i] \in focus_entries(app)
        BY <4>4 DEF focus_entries
      <4> QED BY <3>1, <4>5
    <3>3. rows(app) = {}
      BY <2>1, <3>2 DEF Shown
    <3> QED BY <2>5, <2>6, <3>3
  <2>9. main.table # <<>> => Cardinality(main.at) = 1
    BY <2>1, <2>2, <2>4, <2>5, <2>6, OneHighlighted
  <2>10. main.message = "no connections in capture" <=> conns = <<>>
    <3>1. PICK e : into_timeline = with_seq_ending(conns, bufs, e)
      BY Zenon DEF into_timeline, with_seq
    <3>2. DOMAIN app.timeline.entries = DOMAIN conns
      BY <1>1, <2>1, <3>1, TimelineAnswers
    <3>3. is_capture_empty(app) <=> DOMAIN conns = {}
      BY <2>1, <3>2 DEF is_capture_empty, Shape, MetasOK, ids_of
    <3>4. DOMAIN conns = {} <=> conns = <<>>
      <4>1. conns \in Seq(Conn)
        BY <1>1 DEF LifecycleInv, ConnTypes
      <4>2. PICK n \in Nat : n = Len(conns) /\ DOMAIN conns = 1 .. n
        BY <4>1, LenProperties
      <4>3. DOMAIN conns = {} => n = 0
        BY <4>2
      <4>4. n = 0 <=> conns = <<>>
        BY <4>1, <4>2, EmptySeq
      <4> QED BY <4>2, <4>3, <4>4
    <3>5. DOMAIN conns = {} => rows(app) = {}
      <4> SUFFICES ASSUME DOMAIN conns = {}, NEW r \in rows(app) PROVE FALSE
        OBVIOUS
      <4>1. PICK m : Entries(app.timeline.entries, m)
        BY <2>1 DEF Shape, TimelineOK
      <4>2. r.id \in ids_of(app.timeline)
        BY <2>1, <4>1, RowTypes DEF Shape
      <4> QED BY <3>2, <4>2 DEF ids_of
    <3> QED BY <2>4, <2>5, <3>3, <3>4, <3>5
  <2>11. transport_status(app).state = "playing" =>
            transport_status(app).t < transport_status(app).end
    BY <2>0, <2>1 DEF transport_status
  <2> QED BY <2>3, <2>7, <2>8, <2>9, <2>10, <2>11 DEF PanesAgree
<1>2. AppInv /\ ReplayInv /\ LifecycleInv /\ RetentionInv => PanesAgree
  BY <1>1 DEF PanesAgree
<1> QED BY <1>2, ReplayInvariant, AppInvariant, AppTracks, LifecycleInvariant, RetentionInvariant, PTL

-----------------------------------------------------------------------------
(***************************************************************************)
(* The graphs of the detail pane: where a sample is drawn.                 *)
(***************************************************************************)
Span(x) == x.from \in Nat /\ x.to \in Nat /\ x.from <= x.to

PlotArea(area) == area.w \in Nat \ {0} /\ area.h \in Nat \ {0}

\* The fraction n of d, on an axis of w cells, and that it grows with n.
LEMMA Scaled ==
    ASSUME NEW n \in Nat, NEW w \in Nat, NEW d \in Nat \ {0}
    PROVE  /\ (n * w) \div d \in Nat
           /\ Min({(n * w) \div d, w}) \in 0 .. w
           /\ n = d => Min({(n * w) \div d, w}) = w
           /\ \A m \in Nat : n <= m => Min({(n * w) \div d, w}) <= Min({(m * w) \div d, w})
<1>1. ASSUME NEW m \in Nat PROVE (m * w) \div d \in Nat
  <2>1. PICK p \in Nat : p = m * w
    OBVIOUS
  <2> QED BY <2>1
<1>2. ASSUME NEW m \in Nat
      PROVE  \E k \in Nat : /\ k = Min({(m * w) \div d, w}) /\ k <= w
                            /\ k = (m * w) \div d \/ k = w
                            /\ k <= (m * w) \div d
  <2>1. PICK q \in Nat : q = (m * w) \div d
    BY <1>1
  <2>2. PICK k : k = Min({q, w}) /\ k \in Int /\ k <= q /\ k <= w /\ k \in {q, w}
    BY MinOfTwo
  <2> QED BY <2>1, <2>2
<1>3. ASSUME NEW m \in Nat, n <= m PROVE (n * w) \div d <= (m * w) \div d
  <2>1. PICK p \in Nat, q \in Nat : p = n * w /\ q = m * w /\ p <= q
    <3>1. n * w <= m * w
      BY <1>3
    <3> QED BY <3>1
  <2>2. p <= q
    BY <2>1
  <2>3. p \div d <= q \div d
    BY <2>2
  <2> QED BY <2>1, <2>3
<1>4. ASSUME n = d PROVE (n * w) \div d = w
  BY <1>4
<1>5. PICK i \in Nat : /\ i = Min({(n * w) \div d, w}) /\ i <= w /\ (i = (n * w) \div d \/ i = w)
                       /\ i <= (n * w) \div d
  BY <1>2
<1>6. ASSUME NEW m \in Nat, n <= m PROVE i <= Min({(m * w) \div d, w})
  <2>1. PICK j \in Nat : /\ j = Min({(m * w) \div d, w}) /\ j <= w /\ (j = (m * w) \div d \/ j = w)
    BY <1>2
  <2>2. PICK p \in Nat, q \in Nat : p = (n * w) \div d /\ q = (m * w) \div d /\ p <= q
    BY <1>1, <1>3, <1>6
  <2>3. i <= j
    BY <1>5, <2>1, <2>2
  <2> QED BY <2>1, <2>3
<1>7. i \in 0 .. w /\ (n = d => i = w)
  BY <1>4, <1>5
<1> QED BY <1>1, <1>5, <1>6, <1>7

\* The column of a time, which grows with it.
LEMMA Columns ==
    ASSUME NEW x, Span(x), NEW area, PlotArea(area), NEW t \in Nat
    PROVE  /\ col_of(t, x, area) \in Cols(area)
           /\ \A u \in Nat : t <= u => col_of(t, x, area) <= col_of(u, x, area)
           /\ col_of(t, x, area) <= col_of(x.to, x, area)
<1>1. PICK a \in Nat, b \in Nat, w \in Nat : a = x.from /\ b = x.to /\ w = area.w - 1 /\ a <= b
  <2>1. PICK v \in Nat \ {0} : v = area.w
    BY DEF PlotArea
  <2>2. v - 1 \in Nat
    OBVIOUS
  <2> QED BY <2>1, <2>2 DEF Span
<1>2. PICK d \in Nat : d = b - a
  BY <1>1
<1>3. \A u \in Nat : saturating_sub(u, a) \in Nat
  BY DEF saturating_sub
<1>4. saturating_sub(b, a) = d
  BY <1>1, <1>2 DEF saturating_sub
<1>5. \A u : col_of(u, x, area) =
                 IF d = 0 THEN 0 ELSE Min({(saturating_sub(u, a) * w) \div d, w})
  BY <1>1, <1>4, Zenon DEF col_of
<1>6. Cols(area) = 0 .. w
  BY <1>1 DEF Cols
<1>7. CASE d = 0
  BY <1>1, <1>5, <1>6, <1>7
<1>8. CASE d # 0
  <2> DEFINE s(u) == saturating_sub(u, a)
             k(u) == Min({(s(u) * w) \div d, w})
  <2>1. \A u \in Nat : s(u) \in Nat
    BY <1>3
  <2>2. \A u \in Nat : t <= u => s(t) <= s(u)
    BY DEF saturating_sub
  <2>3. s(b) = d
    BY <1>4
  <2> HIDE DEF s
  <2>4. k(t) \in 0 .. w /\ \A m \in Nat : s(t) <= m => k(t) <= Min({(m * w) \div d, w})
    BY <1>8, <2>1, Scaled
  <2>5. ASSUME NEW u \in Nat, t <= u PROVE k(t) <= k(u)
    <3>1. s(u) \in Nat /\ s(t) <= s(u)
      BY <2>1, <2>2, <2>5
    <3> QED BY <2>4, <3>1
  <2>6. k(b) = w
    BY <1>8, <2>3, Scaled
  <2>7. \A u \in Nat : col_of(u, x, area) = k(u)
    BY <1>5, <1>8 DEF s
  <2> HIDE DEF k
  <2>8. k(t) <= w
    BY <2>4
  <2> QED BY <1>1, <1>6, <2>4, <2>5, <2>6, <2>7, <2>8
<1> QED BY <1>7, <1>8

\* No time that the cursor has reached is right of the cursor line.
LEMMA CursorLine ==
    ASSUME NEW x, Span(x), NEW area, PlotArea(area), NEW t \in Nat, NEW c \in Nat, t <= c
    PROVE  col_of(t, x, area) <= cursor_col(x, c, area)
<1>1. PICK a \in Nat, b \in Nat : a = x.from /\ b = x.to /\ a <= b
  BY DEF Span
<1>2. PICK m : m = Min({c, b}) /\ m \in Int /\ m <= c /\ m <= b /\ m \in {c, b}
  BY MinOfTwo
<1>3. PICK k \in Nat : k = later(a, m)
  BY <1>2 DEF later
<1>4. cursor_col(x, c, area) = col_of(k, x, area)
  BY <1>1, <1>2, <1>3 DEF cursor_col
<1>5. t <= k \/ k = b
  BY <1>1, <1>2, <1>3 DEF later
<1> QED BY <1>1, <1>4, <1>5, Columns

\* The row of a value.
LEMMA RowsIn ==
    ASSUME NEW v \in Nat, NEW top \in Int, NEW area, PlotArea(area)
    PROVE  row_of(v, top, area) \in Rows(area)
<1>1. PICK h \in Nat : h = area.h - 1
  <2>1. PICK g \in Nat \ {0} : g = area.h
    BY DEF PlotArea
  <2>2. g - 1 \in Nat
    OBVIOUS
  <2> QED BY <2>1, <2>2
<1>2. row_of(v, top, area) = IF top <= 0 THEN 0 ELSE Min({(v * h) \div top, h})
  BY <1>1 DEF row_of
<1>3. top > 0 => Min({(v * h) \div top, h}) \in 0 .. h
  <2> SUFFICES ASSUME top > 0 PROVE Min({(v * h) \div top, h}) \in 0 .. h
    OBVIOUS
  <2>1. top \in Nat \ {0}
    OBVIOUS
  <2> QED BY <2>1, Scaled
<1>4. Rows(area) = 0 .. h
  BY <1>1 DEF Rows
<1> QED BY <1>2, <1>3, <1>4

-----------------------------------------------------------------------------
(***************************************************************************)
(* The in-flight, RTT and throughput graphs: what their layers mark.       *)
(***************************************************************************)
placed(base, layers, x, t, top, area) ==
    FoldLeft(LAMBDA grid, l : place(grid, l, x, t, top, area), base, layers)

LEMMA PlacedInTurn ==
    ASSUME NEW base, NEW layers, NEW x, NEW t, NEW top, NEW area, IsSeq(layers)
    PROVE  \E acc : /\ acc[0] = base
                    /\ acc[Len(layers)] = placed(base, layers, x, t, top, area)
                    /\ \A k \in 0 .. Len(layers) - 1 : acc[k + 1] = place(acc[k], layers[k + 1], x, t, top, area)
<1> DEFINE Body(g, s) == IF s = {} THEN base ELSE place(g[s \ {Max(s)}], layers[Max(s)], x, t, top, area)
           Folds(g, k) == g = [s \in SUBSET (1 .. k) |-> Body(g, s)]
           S == {k \in Nat : \E g : Folds(g, k)}
<1>0. PICK n \in Nat : n = Len(layers) /\ DOMAIN layers = 1 .. n
  BY LenProperties DEF IsSeq
<1>1. 0 \in S
  <2> DEFINE g == [s \in SUBSET (1 .. 0) |-> base]
  <2>1. \A s \in SUBSET (1 .. 0) : s = {}
    OBVIOUS
  <2>2. Folds(g, 0)
    BY <2>1
  <2> QED BY <2>2
<1>2. ASSUME NEW k \in Nat, k \in S PROVE k + 1 \in S
  <2>1. PICK g : Folds(g, k)
    BY <1>2
  <2> DEFINE h == [s \in SUBSET (1 .. k + 1) |->
                      IF k + 1 \in s THEN place(g[s \ {k + 1}], layers[k + 1], x, t, top, area) ELSE g[s]]
  <2>2. ASSUME NEW s \in SUBSET (1 .. k + 1) PROVE h[s] = Body(h, s)
    <3>1. CASE k + 1 \in s
      <4>1. Max(s) = k + 1
        BY <3>1, LastIndex
      <4>2. s \ {k + 1} \in SUBSET (1 .. k + 1) /\ k + 1 \notin s \ {k + 1}
        OBVIOUS
      <4>3. h[s \ {k + 1}] = g[s \ {k + 1}]
        BY <4>2
      <4>4. h[s] = place(g[s \ {k + 1}], layers[k + 1], x, t, top, area)
        BY <3>1
      <4> HIDE DEF h
      <4> QED BY <3>1, <4>1, <4>3, <4>4
    <3>2. CASE k + 1 \notin s
      <4>1. s \in SUBSET (1 .. k)
        BY <3>2
      <4>2. h[s] = g[s] /\ g[s] = Body(g, s)
        BY <2>1, <3>2, <4>1
      <4>3. CASE s = {}
        BY <4>2, <4>3
      <4>4. CASE s # {}
        <5>1. s \ {Max(s)} \in SUBSET (1 .. k + 1) /\ k + 1 \notin s \ {Max(s)}
          BY <3>2
        <5>2. h[s \ {Max(s)}] = g[s \ {Max(s)}]
          BY <5>1
        <5> HIDE DEF h
        <5> QED BY <4>2, <4>4, <5>2
      <4> QED BY <4>3, <4>4
    <3> QED BY <3>1, <3>2
  <2>3. Folds(h, k + 1)
    <3>1. DOMAIN h = SUBSET (1 .. k + 1) /\ h = [s \in DOMAIN h |-> h[s]]
      OBVIOUS
    <3> HIDE DEF h, Body
    <3> QED BY <2>2, <3>1
  <2> HIDE DEF h, Folds
  <2> QED BY <2>3
<1>3. PICK fold : Folds(fold, n) /\ fold[1 .. n] = placed(base, layers, x, t, top, area)
  <2>1. n \in S
    <3> HIDE DEF S
    <3> QED BY <1>1, <1>2, SetInduction
  <2> DEFINE fold == CHOOSE g : Folds(g, n)
  <2>2. placed(base, layers, x, t, top, area) = fold[1 .. n]
    BY <1>0, Zenon DEF placed, FoldLeft, MapThenFoldSet
  <2> HIDE DEF Folds
  <2>3. Folds(fold, n)
    BY <2>1
  <2> QED BY <2>2, <2>3
<1> DEFINE acc == [k \in 0 .. n |-> fold[1 .. k]]
<1>4. acc[0] = base
  <2>1. 1 .. 0 = {} /\ {} \in SUBSET (1 .. n) /\ 0 \in 0 .. n
    OBVIOUS
  <2> QED BY <1>3, <2>1
<1>5. ASSUME NEW k \in 0 .. n - 1 PROVE acc[k + 1] = place(acc[k], layers[k + 1], x, t, top, area)
  <2>1. /\ 1 .. k + 1 \in SUBSET (1 .. n) /\ 1 .. k + 1 # {} /\ k + 1 \in Nat
        /\ (1 .. k + 1) \ {k + 1} = 1 .. k /\ k \in 0 .. n /\ k + 1 \in 0 .. n
        /\ k + 1 \in 1 .. k + 1
    BY <1>0, NextPrefix
  <2>2. Max(1 .. k + 1) = k + 1
    BY <2>1, LastIndex
  <2>3. fold[1 .. k + 1] = Body(fold, 1 .. k + 1)
    BY <1>3, <2>1
  <2>4. fold[1 .. k + 1] = place(fold[1 .. k], layers[k + 1], x, t, top, area)
    BY <2>1, <2>2, <2>3
  <2> QED BY <2>1, <2>4
<1>6. acc[n] = placed(base, layers, x, t, top, area)
  <2>1. n \in 0 .. n
    OBVIOUS
  <2> QED BY <1>3, <2>1
<1> QED BY <1>0, <1>4, <1>5, <1>6

\* The tallest revealed point of a layer in a column.
peak_of(layer, c, x, t, top, area) == Max({-1} \cup rows_in(layer, c, x, t, top, area))

\* A cell that shows a sample.
Marked(grid, c) == grid[c] \notin {Blank, Cursor}

IsLayers(layers) ==
    IsSeq(layers) /\ \A k \in 1 .. Len(layers) : layers[k].glyph \notin {Blank, Cursor}

\* The marks of a graph are the peaks of its layers: no later layer hides a column.
LEMMA GraphMarks ==
    ASSUME NEW layers, IsLayers(layers), NEW x, NEW t, NEW area
    PROVE  LET g == project(layers, x, t, area)
           IN  \A c : c \in data_marks(g) <=>
                 /\ c \in Cells(area)
                 /\ \E k \in 1 .. Len(layers) :
                       c[2] = peak_of(layers[k], c[1], x, t, axis_top(layers, t), area)
<1> DEFINE top  == axis_top(layers, t)
           base == [c \in Cells(area) |-> Blank]
           P(k, c) == c[2] = peak_of(layers[k], c[1], x, t, top, area)
           ink  == placed(base, layers, x, t, top, area)
           g    == project(layers, x, t, area)
<1>1. g = with_cursor(ink, x, t, area)
  BY Zenon DEF project, placed
<1> HIDE DEF ink, g, P, base, top
<1>2. PICK n \in Nat : n = Len(layers) /\ \A k \in 1 .. n : layers[k].glyph \notin {Blank, Cursor}
  <2>1. Len(layers) \in Nat
    BY LenProperties DEF IsLayers, IsSeq
  <2> QED BY <2>1 DEF IsLayers
<1>3. IsSeq(layers)
  BY DEF IsLayers
<1> USE DEF P
<1>4. ASSUME NEW k \in 1 .. n, NEW grid, NEW c \in Cells(area)
      PROVE  place(grid, layers[k], x, t, top, area)[c] = IF P(k, c) THEN layers[k].glyph ELSE grid[c]
  <2>1. PICK l : l = layers[k]
    OBVIOUS
  <2>2. c[1] \in Cols(area)
    BY DEF Cells
  <2> DEFINE peak == [d \in Cols(area) |-> Max({-1} \cup rows_in(l, d, x, t, top, area))]
  <2>3. peak[c[1]] = peak_of(l, c[1], x, t, top, area)
    BY <2>2 DEF peak_of
  <2>4. place(grid, l, x, t, top, area) = [d \in Cells(area) |-> IF d[2] = peak[d[1]] THEN l.glyph ELSE grid[d]]
    BY Zenon DEF place
  <2> HIDE DEF peak
  <2>5. place(grid, l, x, t, top, area)[c] = IF c[2] = peak[c[1]] THEN l.glyph ELSE grid[c]
    BY <2>4
  <2> QED BY <2>1, <2>3, <2>5
<1> HIDE DEF P
<1>5. PICK acc : /\ acc[0] = base
                 /\ acc[Len(layers)] = placed(base, layers, x, t, top, area)
                 /\ \A k \in 0 .. Len(layers) - 1 : acc[k + 1] = place(acc[k], layers[k + 1], x, t, top, area)
  BY <1>3, PlacedInTurn
<1> DEFINE S == {k \in Nat : k <= n => \A c \in Cells(area) :
                                 Marked(acc[k], c) <=> \E j \in 1 .. k : P(j, c)}
<1>6. 0 \in S
  <2>1. \A c \in Cells(area) : acc[0][c] = Blank
    BY <1>5 DEF base
  <2>2. 1 .. 0 = {}
    OBVIOUS
  <2> QED BY <2>1, <2>2 DEF Marked
<1>7. ASSUME NEW k \in Nat, k \in S PROVE k + 1 \in S
  <2> SUFFICES ASSUME k + 1 <= n, NEW c \in Cells(area)
               PROVE  Marked(acc[k + 1], c) <=> \E j \in 1 .. k + 1 : P(j, c)
    OBVIOUS
  <2>1. k \in 0 .. n - 1 /\ k <= n /\ k + 1 \in 1 .. n /\ 1 .. k + 1 = (1 .. k) \cup {k + 1}
    OBVIOUS
  <2>2. acc[k + 1] = place(acc[k], layers[k + 1], x, t, top, area)
    BY <1>2, <1>5, <2>1
  <2>3. acc[k + 1][c] = IF P(k + 1, c) THEN layers[k + 1].glyph ELSE acc[k][c]
    <3>1. PICK j \in 1 .. n : j = k + 1
      BY <2>1
    <3>2. PICK grid : grid = acc[k]
      OBVIOUS
    <3>3. place(grid, layers[j], x, t, top, area)[c] = IF P(j, c) THEN layers[j].glyph ELSE grid[c]
      BY <1>4
    <3> QED BY <2>2, <3>1, <3>2, <3>3
  <2>4. Marked(acc[k], c) <=> \E j \in 1 .. k : P(j, c)
    BY <1>7, <2>1
  <2>5. layers[k + 1].glyph \notin {Blank, Cursor}
    BY <1>2, <2>1
  <2> QED BY <2>1, <2>3, <2>4, <2>5 DEF Marked
<1> HIDE DEF S
<1>8. n \in S
  BY <1>6, <1>7, SetInduction
<1>9. \A c \in Cells(area) : Marked(ink, c) <=> \E j \in 1 .. n : P(j, c)
  BY <1>2, <1>5, <1>8 DEF S, ink
<1>10. DOMAIN g = Cells(area) /\ \A c \in Cells(area) : Marked(g, c) <=> Marked(ink, c)
  BY <1>1 DEF with_cursor, Marked, Blank, Cursor
<1>11. \A c : c \in data_marks(g) <=> c \in Cells(area) /\ Marked(g, c)
  BY <1>10 DEF data_marks, Marked
<1>12. \A c : c \in data_marks(g) <=> c \in Cells(area) /\ \E k \in 1 .. n : P(k, c)
  BY <1>9, <1>10, <1>11
<1> QED BY <1>2, <1>12 DEF P, top, g

\* The points of a layer.
IsPoints(S) == IsFiniteSet(S) /\ \A p \in S : p.t \in Nat /\ p.v \in Nat

Drawable(layers) == IsLayers(layers) /\ \A k \in 1 .. Len(layers) : IsPoints(layers[k].points)

LEMMA AxisTop ==
    ASSUME NEW layers, Drawable(layers), NEW t
    PROVE  axis_top(layers, t) \in Nat
<1> DEFINE vs(k) == {p.v : p \in layers[k].points}
           f == [k \in DOMAIN layers |-> vs(k)]
           U == UNION {f[k] : k \in DOMAIN f}
<1>1. PICK n \in Nat : /\ n = Len(layers) /\ DOMAIN layers = 1 .. n
                       /\ \A k \in 1 .. n : IsPoints(layers[k].points)
  BY LenProperties DEF Drawable, IsLayers, IsSeq
<1>2. ASSUME NEW k \in 1 .. n PROVE IsFiniteSet(vs(k)) /\ vs(k) \subseteq Nat
  <2>1. PICK S : S = layers[k].points /\ IsFiniteSet(S) /\ \A p \in S : p.v \in Nat
    BY <1>1 DEF IsPoints
  <2> DEFINE g == [p \in S |-> p.v]
  <2>2. {g[p] : p \in DOMAIN g} = vs(k)
    BY <2>1
  <2>3. DOMAIN g = S
    OBVIOUS
  <2> HIDE DEF g
  <2>4. IsFiniteSet({g[p] : p \in DOMAIN g})
    BY <2>1, <2>3, ImageFinite
  <2> QED BY <2>1, <2>2, <2>4
<1>3. axis_top(layers, t) = Max({0} \cup U)
  <2>1. {f[k] : k \in DOMAIN f} = {vs(k) : k \in DOMAIN layers}
    OBVIOUS
  <2> QED BY <2>1, Zenon DEF axis_top
<1>4. DOMAIN f = 1 .. n /\ \A k \in 1 .. n : f[k] = vs(k)
  BY <1>1
<1> HIDE DEF f, vs
<1>5. IsFiniteSet({f[k] : k \in DOMAIN f})
  BY <1>4, IndicesFinite, ImageFinite
<1>6. \A T \in {f[k] : k \in DOMAIN f} : IsFiniteSet(T)
  BY <1>2, <1>4
<1>7. IsFiniteSet(U)
  BY <1>5, <1>6, FS_UNION
<1>8. U \subseteq Nat
  BY <1>2, <1>4
<1> HIDE DEF U
<1>9. PICK V : V = {0} \cup U
  OBVIOUS
<1>10. IsFiniteSet(V) /\ V \subseteq Nat /\ V \subseteq Int /\ V # {}
  <2>1. IsFiniteSet({0} \cup U)
    BY <1>7, FS_Singleton, FS_Union
  <2> QED BY <1>8, <1>9, <2>1
<1>11. Max(V) \in V
  BY <1>10, MaxIsGreatest
<1> QED BY <1>3, <1>9, <1>10, <1>11

\* The peak of a column is a row, if the cursor has reached a point there, and only rises.
LEMMA Peaks ==
    ASSUME NEW layer, IsPoints(layer.points), NEW c, NEW x, Span(x), NEW t \in Nat,
           NEW top \in Nat, NEW area, PlotArea(area)
    PROVE  LET peak(u) == peak_of(layer, c, x, u, top, area)
           IN  /\ peak(t) \in Rows(area) \cup {-1}
               /\ peak(t) # -1 => \E p \in layer.points : p.t <= t /\ col_of(p.t, x, area) = c
               /\ \A u \in Nat : t <= u => peak(t) <= peak(u)
<1> DEFINE in(u) == rows_in(layer, c, x, u, top, area)
           peak(u) == peak_of(layer, c, x, u, top, area)
<1>0. Rows(area) \subseteq Nat /\ IsFiniteSet(Rows(area))
  <2>1. PICK h \in Nat \ {0} : h = area.h
    BY DEF PlotArea
  <2>2. 0 \in Int /\ h - 1 \in Int
    OBVIOUS
  <2>3. IsFiniteSet(0 .. h - 1)
    BY ONLY <2>2, FS_Interval
  <2> QED BY <2>1, <2>3 DEF Rows
<1>1. ASSUME NEW u \in Nat
      PROVE  /\ in(u) \subseteq Rows(area)
             /\ \A r \in in(u) : \E p \in layer.points :
                   p.t <= u /\ col_of(p.t, x, area) = c /\ r = row_of(p.v, top, area)
  <2>1. \A r \in in(u) : \E p \in layer.points :
             p.t <= u /\ col_of(p.t, x, area) = c /\ r = row_of(p.v, top, area)
    BY DEF rows_in, revealed
  <2>2. \A p \in layer.points : row_of(p.v, top, area) \in Rows(area)
    BY RowsIn DEF IsPoints
  <2> QED BY <2>1, <2>2
<1>2. ASSUME NEW u \in Nat, t <= u PROVE in(t) \subseteq in(u)
  <2>1. \A p \in layer.points : p.t <= t => p.t <= u
    BY <1>2 DEF IsPoints
  <2> QED BY <2>1 DEF rows_in, revealed
<1> HIDE DEF in
<1>3. ASSUME NEW u \in Nat
      PROVE  /\ peak(u) \in in(u) \cup {-1}
             /\ \A r \in in(u) \cup {-1} : r <= peak(u)
  <2>1. PICK V : V = {-1} \cup in(u)
    OBVIOUS
  <2>2. IsFiniteSet(V) /\ V \subseteq Int /\ V # {}
    <3>1. IsFiniteSet(in(u))
      BY <1>0, <1>1, FS_Subset
    <3>2. IsFiniteSet({-1} \cup in(u))
      BY <3>1, FS_Singleton, FS_Union
    <3> QED BY <1>0, <1>1, <2>1, <3>2
  <2>3. Max(V) \in V /\ \A r \in V : r <= Max(V)
    BY <2>2, MaxIsGreatest
  <2>4. peak(u) = Max(V)
    BY <2>1 DEF peak_of, in
  <2> QED BY <2>1, <2>3, <2>4
<1> HIDE DEF peak
<1>4. peak(t) \in Rows(area) \cup {-1}
  BY <1>1, <1>3
<1>5. peak(t) # -1 => \E p \in layer.points : p.t <= t /\ col_of(p.t, x, area) = c
  BY <1>1, <1>3
<1>6. ASSUME NEW u \in Nat, t <= u PROVE peak(t) <= peak(u)
  BY <1>2, <1>3, <1>6
<1> QED BY <1>4, <1>5, <1>6 DEF peak

\* No mark of such a graph is right of the cursor line.
LEMMA GraphBehind ==
    ASSUME NEW layers, Drawable(layers), NEW x, Span(x), NEW t \in Nat, NEW area, PlotArea(area),
           NEW m \in data_marks(project(layers, x, t, area))
    PROVE  m[1] <= cursor_col(x, t, area)
<1> DEFINE top == axis_top(layers, t)
<1>1. IsLayers(layers) /\ top \in Nat
  BY AxisTop DEF Drawable
<1>2. PICK k \in 1 .. Len(layers) : m[2] = peak_of(layers[k], m[1], x, t, top, area)
  BY <1>1, GraphMarks
<1>3. m[2] \in Rows(area)
  BY <1>1, GraphMarks DEF Cells
<1> HIDE DEF top
<1>4. m[2] # -1
  <2>1. PICK h \in Nat : h = area.h
    BY DEF PlotArea
  <2> QED BY <1>3, <2>1 DEF Rows
<1>5. PICK l, c : l = layers[k] /\ c = m[1] /\ IsPoints(l.points)
  BY DEF Drawable
<1>6. peak_of(l, c, x, t, top, area) # -1 => \E p \in l.points : p.t <= t /\ col_of(p.t, x, area) = c
  BY <1>1, <1>5, Peaks
<1>7. PICK p \in l.points : p.t <= t /\ col_of(p.t, x, area) = c
  BY <1>2, <1>4, <1>5, <1>6
<1>8. PICK u \in Nat : u = p.t
  BY <1>5, <1>7 DEF IsPoints
<1> QED BY <1>5, <1>7, <1>8, CursorLine

\* A later cursor lowers no column of it.
LEMMA GraphRises ==
    ASSUME NEW layers, Drawable(layers), NEW x, Span(x), NEW t \in Nat, NEW u \in Nat, t <= u,
           NEW area, PlotArea(area), NEW c
    PROVE  height(project(layers, x, t, area), c) <= height(project(layers, x, u, area), c)
<1> DEFINE top == axis_top(layers, t)
           g(s) == project(layers, x, s, area)
           peak(k, d, s) == peak_of(layers[k], d, x, s, top, area)
           in(s) == {m[2] : m \in {n \in data_marks(g(s)) : n[1] = c}}
<1>1. IsLayers(layers) /\ top \in Nat
  BY AxisTop DEF Drawable
<1>2. \A s : axis_top(layers, s) = top
  BY DEF axis_top
<1>3. \A s, m : m \in data_marks(g(s)) <=>
          m \in Cells(area) /\ \E k \in 1 .. Len(layers) : m[2] = peak(k, m[1], s)
  <2> SUFFICES ASSUME NEW s, NEW m
               PROVE  m \in data_marks(g(s)) <=>
                        m \in Cells(area) /\ \E k \in 1 .. Len(layers) : m[2] = peak(k, m[1], s)
    OBVIOUS
  <2>1. axis_top(layers, s) = top
    BY <1>2
  <2> HIDE DEF top
  <2> QED BY <1>1, <2>1, GraphMarks
<1> HIDE DEF top
<1>4. ASSUME NEW k \in 1 .. Len(layers), NEW d
      PROVE  /\ peak(k, d, t) \in Rows(area) \cup {-1} /\ peak(k, d, u) \in Rows(area) \cup {-1}
             /\ peak(k, d, t) <= peak(k, d, u)
  <2>1. PICK l : l = layers[k] /\ IsPoints(l.points)
    BY DEF Drawable
  <2>2. /\ peak_of(l, d, x, t, top, area) \in Rows(area) \cup {-1}
        /\ \A s \in Nat : t <= s => peak_of(l, d, x, t, top, area) <= peak_of(l, d, x, s, top, area)
    BY <1>1, <2>1, Peaks
  <2>3. peak_of(l, d, x, u, top, area) \in Rows(area) \cup {-1}
    BY <1>1, <2>1, Peaks
  <2> QED BY <2>1, <2>2, <2>3
<1> HIDE DEF g, peak
<1>5. PICK h \in Nat : Rows(area) = 0 .. h - 1
  BY DEF PlotArea, Rows
<1>6. ASSUME NEW s \in Nat PROVE in(s) \subseteq 0 .. h - 1
  <2>1. \A m \in Cells(area) : m[2] \in 0 .. h - 1
    BY <1>5 DEF Cells
  <2> QED BY <1>3, <2>1
<1>7. ASSUME NEW r \in in(t) PROVE \E q \in in(u) : r <= q
  <2>1. PICK m : m \in data_marks(g(t)) /\ m[1] = c /\ r = m[2]
    BY <1>7
  <2>2. PICK k \in 1 .. Len(layers) : m[2] = peak(k, c, t)
    BY <1>3, <2>1
  <2>3. m \in Cols(area) \X Rows(area)
    BY <1>3, <2>1 DEF Cells
  <2>4. c \in Cols(area) /\ r \in 0 .. h - 1
    BY <1>5, <2>1, <2>3
  <2>5. PICK q : /\ q = peak(k, c, u) /\ q \in (0 .. h - 1) \cup {-1}
                 /\ peak(k, c, t) <= q
    BY <1>4, <1>5
  <2>6. q \in 0 .. h - 1 /\ r <= q
    BY <2>1, <2>2, <2>4, <2>5
  <2>7. PICK z : z = <<c, q>>
    OBVIOUS
  <2>8. z \in Cells(area) /\ z[1] = c /\ z[2] = q
    BY <1>5, <2>4, <2>6, <2>7 DEF Cells
  <2>9. z \in data_marks(g(u))
    BY <1>3, <2>5, <2>8
  <2> QED BY <2>6, <2>8, <2>9
<1>8. ASSUME NEW s \in Nat
      PROVE  /\ height(g(s), c) \in in(s) \cup {-1}
             /\ \A r \in in(s) \cup {-1} : r <= height(g(s), c)
  <2>1. PICK V : V = {-1} \cup in(s)
    OBVIOUS
  <2>2. IsFiniteSet(V) /\ V \subseteq Int /\ V # {}
    <3>1. 0 \in Int /\ h - 1 \in Int
      OBVIOUS
    <3>2. IsFiniteSet(0 .. h - 1)
      BY ONLY <3>1, FS_Interval
    <3>3. in(s) \subseteq 0 .. h - 1
      BY <1>6
    <3> HIDE DEF in
    <3>4. IsFiniteSet(in(s))
      BY <3>2, <3>3, FS_Subset
    <3>5. IsFiniteSet({-1} \cup in(s))
      BY <3>4, FS_Singleton, FS_Union
    <3> QED BY <3>3, <2>1, <3>5
  <2>3. Max(V) \in V /\ \A r \in V : r <= Max(V)
    BY <2>2, MaxIsGreatest
  <2>4. height(g(s), c) = Max(V)
    BY <2>1 DEF height
  <2> HIDE DEF in
  <2> QED BY <2>1, <2>3, <2>4
<1>9. in(t) \subseteq Int /\ in(u) \subseteq Int
  <2>1. in(t) \subseteq 0 .. h - 1 /\ in(u) \subseteq 0 .. h - 1
    BY <1>6
  <2> HIDE DEF in
  <2> QED BY <2>1
<1>10. PICK a, b : /\ a = height(g(t), c) /\ b = height(g(u), c)
  OBVIOUS
<1> HIDE DEF in
<1>11. a \in in(t) \cup {-1} /\ b \in in(u) \cup {-1} /\ \A r \in in(u) \cup {-1} : r <= b
  BY <1>8, <1>10
<1>12. a <= b
  <2>1. CASE a = -1
    BY <1>11, <2>1
  <2>2. CASE a \in in(t)
    <3>1. PICK q \in in(u) : a <= q
      BY <1>7, <2>2
    <3>2. q <= b /\ a \in Int /\ b \in Int /\ q \in Int
      BY <1>9, <1>11, <2>2, <3>1
    <3> QED BY <3>1, <3>2
  <2> QED BY <1>11, <2>1, <2>2
<1> QED BY <1>10, <1>12 DEF g

-----------------------------------------------------------------------------
(***************************************************************************)
(* The Time/Sequence graph.                                                *)
(***************************************************************************)
Kinds == {"data", "out_of_order", "sack", "retransmit"}

SeqPoints(S) == IsFiniteSet(S) /\ S \subseteq SeqSample

\* Every sample has a cell.
LEMMA SeqCells ==
    ASSUME NEW S, SeqPoints(S), NEW s \in S, NEW x, Span(x), NEW area, PlotArea(area)
    PROVE  cell_of(s, S, x, area) \in Cells(area)
<1>1. \A p \in S : p.t \in Nat /\ p.rel \in Int /\ p.len \in Nat
  BY DEF SeqPoints, SeqSample
<1>2. PICK base \in Int : base = rel_base(S) /\ \A p \in S : base <= p.rel
  <2> DEFINE f == [p \in S |-> p.rel]
             R == {f[p] : p \in DOMAIN f}
  <2>1. IsFiniteSet(R)
    <3>1. IsFiniteSet(DOMAIN f)
      BY DEF SeqPoints
    <3> HIDE DEF f
    <3> QED BY <3>1, ImageFinite
  <2>2. R = {p.rel : p \in S}
    OBVIOUS
  <2>3. R \subseteq Int /\ s.rel \in R
    BY <1>1
  <2> HIDE DEF R, f
  <2>4. Min(R) \in R /\ \A y \in R : Min(R) <= y
    BY <2>1, <2>3, MaxIsGreatest
  <2>5. rel_base(S) = Min(R)
    BY <2>2 DEF rel_base
  <2> QED BY <2>2, <2>3, <2>4, <2>5
<1>3. PICK top \in Int : top = max_rel(S)
  <2> DEFINE f == [p \in S |-> p.rel - base + p.len]
             R == {f[p] : p \in DOMAIN f}
  <2>1. IsFiniteSet(R)
    <3>1. IsFiniteSet(DOMAIN f)
      BY DEF SeqPoints
    <3> HIDE DEF f
    <3> QED BY <3>1, ImageFinite
  <2>2. R = {p.rel - rel_base(S) + p.len : p \in S}
    BY <1>2
  <2>3. R \subseteq Int
    BY <1>1
  <2> HIDE DEF R, f
  <2>4. PICK V : V = {0} \cup R
    OBVIOUS
  <2>5. IsFiniteSet({0} \cup R)
    BY <2>1, FS_Singleton, FS_Union
  <2>6. V \subseteq Int /\ V # {} /\ IsFiniteSet(V)
    BY <2>3, <2>4, <2>5
  <2>7. Max(V) \in V
    BY <2>6, MaxIsGreatest
  <2>8. max_rel(S) = Max(V)
    BY <2>2, <2>4 DEF max_rel
  <2> QED BY <2>6, <2>7, <2>8
<1>4. PICK v \in Nat, t \in Nat : v = s.rel - base /\ t = s.t
  BY <1>1, <1>2
<1>5. col_of(t, x, area) \in Cols(area)
  BY Columns
<1>6. row_of(v, top, area) \in Rows(area)
  BY RowsIn
<1> QED BY <1>2, <1>3, <1>4, <1>5, <1>6 DEF cell_of, Cells

\* The most salient of some kinds.
LEMMA MostSalient ==
    ASSUME NEW K, K \subseteq Kinds, NEW k \in K
    PROVE  most_salient(K) \in K /\ salience[k] <= salience[most_salient(K)]
<1>1. /\ salience["data"] = 0 /\ salience["out_of_order"] = 1 /\ salience["sack"] = 2
      /\ salience["retransmit"] = 3
  BY DEF salience
<1>2. \E m \in K : \A j \in K : salience[j] <= salience[m]
  <2>1. CASE "retransmit" \in K
    <3>1. \A j \in K : salience[j] <= salience["retransmit"]
      BY <1>1 DEF Kinds
    <3> QED BY <2>1, <3>1
  <2>2. CASE "retransmit" \notin K /\ "sack" \in K
    <3>1. \A j \in K : salience[j] <= salience["sack"]
      BY <1>1, <2>2 DEF Kinds
    <3> QED BY <2>2, <3>1
  <2>3. CASE "retransmit" \notin K /\ "sack" \notin K /\ "out_of_order" \in K
    <3>1. \A j \in K : salience[j] <= salience["out_of_order"]
      BY <1>1, <2>3 DEF Kinds
    <3> QED BY <2>3, <3>1
  <2>4. CASE "retransmit" \notin K /\ "sack" \notin K /\ "out_of_order" \notin K
    <3>1. \A j \in K : j = "data"
      BY <2>4 DEF Kinds
    <3> QED BY <1>1, <3>1
  <2> QED BY <2>1, <2>2, <2>3, <2>4
<1> QED BY <1>2 DEF most_salient

\* What a cell of the graph shows.
LEMMA SeqGraph ==
    ASSUME NEW S, SeqPoints(S), NEW x, Span(x), NEW t \in Nat, NEW area, PlotArea(area)
    PROVE  LET g == seq_project(S, x, t, area)
           IN  /\ \A m \in data_marks(g) :
                     \E s \in S : s.t <= t /\ cell_of(s, S, x, area) = m
               /\ \A s \in revealed(S, t) :
                     LET shown == g[cell_of(s, S, x, area)]
                     IN  shown \in DOMAIN salience /\ salience[shown] >= salience[s.kind]
<1> DEFINE at(c) == {s.kind : s \in {p \in revealed(S, t) : cell_of(p, S, x, area) = c}}
           ink == [c \in Cells(area) |-> IF at(c) = {} THEN Blank ELSE most_salient(at(c))]
           g == seq_project(S, x, t, area)
<1>1. g = with_cursor(ink, x, t, area)
  BY Zenon DEF seq_project
<1>2. \A c : at(c) \subseteq Kinds
  BY DEF revealed, SeqPoints, SeqSample, Kinds
<1>3. \A c : at(c) # {} => \E s \in S : s.t <= t /\ cell_of(s, S, x, area) = c
  BY DEF revealed
<1>4. \A s \in revealed(S, t) : s \in S /\ s.kind \in at(cell_of(s, S, x, area))
  BY DEF revealed
<1> HIDE DEF at
<1>5. \A c \in Cells(area) : ink[c] = IF at(c) = {} THEN Blank ELSE most_salient(at(c))
  OBVIOUS
<1> HIDE DEF ink
<1>6. /\ DOMAIN g = Cells(area)
      /\ \A c \in Cells(area) : ink[c] # Blank => g[c] = ink[c]
      /\ \A c \in Cells(area) : ink[c] = Blank => g[c] \in {Blank, Cursor}
  BY <1>1 DEF with_cursor
<1> HIDE DEF g
<1>7. ASSUME NEW m \in data_marks(g) PROVE \E s \in S : s.t <= t /\ cell_of(s, S, x, area) = m
  <2>1. m \in Cells(area) /\ g[m] \notin {Blank, Cursor}
    BY <1>6 DEF data_marks
  <2>2. ink[m] # Blank
    BY <1>6, <2>1
  <2> QED BY <1>3, <1>5, <2>1, <2>2
<1>8. ASSUME NEW s \in revealed(S, t)
      PROVE  LET shown == g[cell_of(s, S, x, area)]
             IN  shown \in DOMAIN salience /\ salience[shown] >= salience[s.kind]
  <2>1. PICK c, K, k : c = cell_of(s, S, x, area) /\ K = at(c) /\ k = s.kind
    OBVIOUS
  <2>2. c \in Cells(area) /\ K \subseteq Kinds /\ k \in K
    BY <1>2, <1>4, <2>1, SeqCells
  <2>3. PICK m : m = most_salient(K) /\ m \in K /\ salience[k] <= salience[m]
    BY <2>2, MostSalient
  <2>4. ink[c] = m
    BY <1>5, <2>1, <2>2, <2>3
  <2>5. m \in Kinds
    BY <2>2, <2>3
  <2>6. m # Blank
    BY <2>5 DEF Kinds, Blank
  <2>7. g[c] = m
    BY <1>6, <2>2, <2>4, <2>6
  <2>8. \A j \in Kinds : j \in DOMAIN salience /\ salience[j] \in Int
    BY DEF Kinds, salience
  <2>9. salience[m] >= salience[k]
    BY <2>2, <2>3, <2>5, <2>8
  <2> QED BY <2>1, <2>5, <2>7, <2>8, <2>9
<1> QED BY <1>7, <1>8 DEF g

LEMMA SeqBehind ==
    ASSUME NEW S, SeqPoints(S), NEW x, Span(x), NEW t \in Nat, NEW area, PlotArea(area),
           NEW m \in data_marks(seq_project(S, x, t, area))
    PROVE  m[1] <= cursor_col(x, t, area)
<1>1. PICK s \in S : s.t <= t /\ cell_of(s, S, x, area) = m
  BY SeqGraph
<1>2. PICK u \in Nat : u = s.t
  BY DEF SeqPoints, SeqSample
<1>3. m[1] = col_of(u, x, area)
  BY <1>1, <1>2 DEF cell_of
<1> QED BY <1>1, <1>2, <1>3, CursorLine

-----------------------------------------------------------------------------
(***************************************************************************)
(* The samples that the pane is given.                                     *)
(***************************************************************************)
SamplesIn(s, U) == \E k \in Nat : DOMAIN s = 1 .. k /\ \A i \in 1 .. k : s[i] \in U

\* An entry of a timeline, as the detail pane reads it.
Detailed(e) ==
    /\ e.conn \in Conn /\ e.effective_end \in Nat /\ e.conn.opened_at <= e.effective_end
    /\ \A n \in DetailSeries : SamplesIn(e.detail[n], Sample(n))

LEMMA DetailTypes ==
    /\ Sample("seq") = SeqSample /\ Sample("inflight") = InflightSample
    /\ Sample("rtt") = RttSample /\ Sample("throughput") = ThroughputSample
    /\ \A n \in DetailSeries : \A s \in Sample(n) : s.t \in Nat
    /\ SeriesName \ {"states", "series"} = DetailSeries
<1>1. /\ Sample("seq") = SeqSample /\ Sample("inflight") = InflightSample
      /\ Sample("rtt") = RttSample /\ Sample("throughput") = ThroughputSample
  BY DEF Sample
<1>2. ASSUME NEW n \in DetailSeries, NEW s \in Sample(n) PROVE s.t \in Nat
  <2>1. s \in SeqSample \/ s \in InflightSample \/ s \in RttSample \/ s \in ThroughputSample
    BY <1>1 DEF DetailSeries
  <2> QED BY <2>1 DEF SeqSample, InflightSample, RttSample, ThroughputSample
<1>3. SeriesName \ {"states", "series"} = DetailSeries
  BY SixSeries DEF DetailSeries
<1> QED BY <1>1, <1>2, <1>3

\* Sorting keeps the samples.
LEMMA SortedTyped ==
    ASSUME NEW s, IsSeq(s), NEW U, Within(s, U), \A u \in U : u.t \in Nat
    PROVE  SamplesIn(sort_by_t(s), U)
<1>1. PICK n \in Nat : n = Len(s) /\ DOMAIN s = 1 .. n
  BY LenProperties DEF IsSeq
<1>2. \A k \in 1 .. n : s[k] \in U
  BY <1>1 DEF Within
<1>3. TimesIn(s, n)
  BY <1>1, <1>2 DEF TimesIn
<1>4. PICK p \in [1 .. n -> 1 .. n] :
              /\ sort_by_t(s) = [k \in 1 .. n |-> s[p[k]]]
              /\ \A j \in 1 .. n : \E k \in 1 .. n : p[k] = j
              /\ \A k, l \in 1 .. n : k < l <=> <<p[k], p[l]>> \in stably(s)
  BY <1>3, SortedSeries
<1>5. PICK b : b = sort_by_t(s)
  OBVIOUS
<1>6. DOMAIN b = 1 .. n /\ \A k \in 1 .. n : p[k] \in 1 .. n /\ b[k] = s[p[k]]
  BY <1>4, <1>5
<1>7. \A k \in 1 .. n : b[k] \in U
  BY <1>2, <1>6
<1> QED BY <1>5, <1>6, <1>7 DEF SamplesIn

\* The entries of a timeline that ends no earlier than its connections.
LEMMA EntriesDetailed ==
    ASSUME LifecycleInv, RetentionInv, SpanInv, NEW end \in Nat,
           \A i \in DOMAIN conns : conns[i].last_at <= end,
           NEW i \in DOMAIN conns
    PROVE  Detailed(entry(conns[i], bufs[i], end))
<1>1. i \in 1 .. Len(conns) /\ conns[i] \in Conn
  BY ByIndex DEF LifecycleInv
<1>2. PICK c, b, e : c = conns[i] /\ b = bufs[i] /\ e = entry(c, b, end)
  OBVIOUS
<1>3. BufShape(b)
  BY <1>1, <1>2 DEF RetentionInv, SamplesOK, StoreOK, Store, Bufs
<1>4. e.conn = c /\ e.effective_end = effective_end(c, end)
  BY <1>2 DEF entry
<1>5. PICK o \in Nat, l \in Nat : o = c.opened_at /\ l = c.last_at /\ o <= l /\ l <= end
  BY <1>1, <1>2 DEF SpanInv, Spans, Conn
<1>6. effective_end(c, end) \in Nat /\ o <= effective_end(c, end)
  BY <1>5 DEF effective_end
<1>7. ASSUME NEW n \in DetailSeries PROVE SamplesIn(e.detail[n], Sample(n))
  <2>1. n \in SeriesName \ {"states", "series"} /\ n \in SeriesName
    BY DetailTypes
  <2>2. e.detail[n] = sort_by_t(b.q[n])
    BY <1>2, <2>1 DEF entry
  <2>3. PICK s, U : s = b.q[n] /\ U = Sample(n)
    OBVIOUS
  <2>4. IsSeq(s) /\ Within(s, U)
    BY <1>3, <2>1, <2>3 DEF BufShape, Typed
  <2>5. \A u \in U : u.t \in Nat
    BY <2>3, DetailTypes
  <2> QED BY <2>2, <2>3, <2>4, <2>5, SortedTyped
<1> QED BY <1>1, <1>2, <1>4, <1>5, <1>6, <1>7 DEF Detailed

\* The span and the series that are drawn.
LEMMA FocusDrawn ==
    ASSUME NEW e, Detailed(e)
    PROVE  /\ Span(x_span(e))
           /\ \A n \in DetailSeries :
                 IsFiniteSet(focus_series(e, n)) /\ focus_series(e, n) \subseteq Sample(n)
<1>1. Span(x_span(e))
  BY DEF Detailed, Span, x_span, Conn
<1>2. ASSUME NEW n \in DetailSeries
      PROVE  IsFiniteSet(focus_series(e, n)) /\ focus_series(e, n) \subseteq Sample(n)
  <2>1. PICK s, U : s = e.detail[n] /\ U = Sample(n)
    OBVIOUS
  <2>2. PICK k \in Nat : DOMAIN s = 1 .. k /\ \A i \in 1 .. k : s[i] \in U
    BY <2>1 DEF Detailed, SamplesIn
  <2>3. IsFiniteSet({s[i] : i \in DOMAIN s})
    BY <2>2, IndicesFinite, ImageFinite
  <2>4. ToSet(s) = {s[i] : i \in DOMAIN s}
    BY DEF ToSet
  <2>5. ToSet(s) \subseteq U /\ IsFiniteSet(ToSet(s))
    BY <2>2, <2>3, <2>4
  <2>6. focus_series(e, n) \subseteq ToSet(s)
    BY <2>1 DEF focus_series
  <2>7. IsFiniteSet(focus_series(e, n))
    BY <2>5, <2>6, FS_Subset
  <2> QED BY <2>1, <2>5, <2>6, <2>7
<1> QED BY <1>1, <1>2

\* The points of a layer read from a series.
LEMMA PointsOf ==
    ASSUME NEW S, IsFiniteSet(S), NEW f, DOMAIN f = S, \A s \in S : f[s].t \in Nat /\ f[s].v \in Nat
    PROVE  IsPoints({f[s] : s \in S})
<1>1. IsFiniteSet({f[s] : s \in DOMAIN f})
  BY ImageFinite
<1> QED BY <1>1 DEF IsPoints

LEMMA OneLayer ==
    ASSUME NEW a, IsPoints(a.points), a.glyph \notin {Blank, Cursor}
    PROVE  Drawable(<<a>>)
<1>1. IsSeq(<<a>>) /\ Len(<<a>>) = 1 /\ <<a>>[1] = a
  <2>1. <<a>> \in Seq({a})
    OBVIOUS
  <2> QED BY <2>1 DEF IsSeq
<1>2. \A k \in 1 .. 1 : k = 1
  OBVIOUS
<1> QED BY <1>1, <1>2 DEF Drawable, IsLayers

LEMMA TwoLayers ==
    ASSUME NEW a, IsPoints(a.points), a.glyph \notin {Blank, Cursor},
           NEW b, IsPoints(b.points), b.glyph \notin {Blank, Cursor}
    PROVE  Drawable(<<a, b>>)
<1>1. IsSeq(<<a, b>>) /\ Len(<<a, b>>) = 2 /\ <<a, b>>[1] = a /\ <<a, b>>[2] = b
  <2>1. <<a, b>> \in Seq({a, b})
    OBVIOUS
  <2> QED BY <2>1 DEF IsSeq
<1>2. \A k \in 1 .. 2 : k = 1 \/ k = 2
  OBVIOUS
<1> QED BY <1>1, <1>2 DEF Drawable, IsLayers

\* The three graphs of values can be drawn.
LEMMA LayersDrawable ==
    ASSUME NEW S, IsFiniteSet(S)
    PROVE  /\ S \subseteq InflightSample => Drawable(inflight_layers(S))
           /\ S \subseteq RttSample => Drawable(rtt_layers(S))
           /\ S \subseteq ThroughputSample => Drawable(throughput_layers(S))
<1>1. ASSUME S \subseteq InflightSample PROVE Drawable(inflight_layers(S))
  <2> DEFINE f == [s \in S |-> [t |-> s.t, v |-> s.bytes]]
             P == {[t |-> s.t, v |-> s.bytes] : s \in S}
             a == [glyph |-> "wire", points |-> P]
  <2>1. DOMAIN f = S /\ (\A s \in S : f[s].t \in Nat /\ f[s].v \in Nat) /\ {f[s] : s \in S} = P
    BY <1>1 DEF InflightSample
  <2> HIDE DEF f
  <2>2. IsPoints({f[s] : s \in S})
    BY <2>1, PointsOf
  <2>3. IsPoints(P)
    BY <2>1, <2>2
  <2> HIDE DEF P
  <2>4. IsPoints(a.points) /\ a.glyph \notin {Blank, Cursor}
    BY <2>3 DEF Blank, Cursor
  <2>5. inflight_layers(S) = <<a>>
    BY DEF inflight_layers, P
  <2> HIDE DEF a
  <2> QED BY <2>4, <2>5, OneLayer
<1>2. ASSUME S \subseteq RttSample PROVE Drawable(rtt_layers(S))
  <2> DEFINE f == [s \in S |-> [t |-> s.t, v |-> s.rtt]]
             g == [s \in S |-> [t |-> s.t, v |-> s.srtt]]
             P == {[t |-> s.t, v |-> s.rtt] : s \in S}
             Q == {[t |-> s.t, v |-> s.srtt] : s \in S}
             a == [glyph |-> "raw", points |-> P]
             b == [glyph |-> "smoothed", points |-> Q]
  <2>1. DOMAIN f = S /\ (\A s \in S : f[s].t \in Nat /\ f[s].v \in Nat) /\ {f[s] : s \in S} = P
    BY <1>2 DEF RttSample
  <2>2. DOMAIN g = S /\ (\A s \in S : g[s].t \in Nat /\ g[s].v \in Nat) /\ {g[s] : s \in S} = Q
    BY <1>2 DEF RttSample
  <2> HIDE DEF f, g
  <2>3. IsPoints({f[s] : s \in S})
    BY <2>1, PointsOf
  <2>4. IsPoints({g[s] : s \in S})
    BY <2>2, PointsOf
  <2>5. IsPoints(P) /\ IsPoints(Q)
    BY <2>1, <2>2, <2>3, <2>4
  <2> HIDE DEF P, Q
  <2>6. /\ IsPoints(a.points) /\ a.glyph \notin {Blank, Cursor}
        /\ IsPoints(b.points) /\ b.glyph \notin {Blank, Cursor}
    BY <2>5 DEF Blank, Cursor
  <2>7. rtt_layers(S) = <<a, b>>
    BY DEF rtt_layers, P, Q
  <2> HIDE DEF a, b
  <2> QED BY <2>6, <2>7, TwoLayers
<1>3. ASSUME S \subseteq ThroughputSample PROVE Drawable(throughput_layers(S))
  <2> DEFINE f == [s \in S |-> [t |-> s.t, v |-> s.rate.throughput]]
             g == [s \in S |-> [t |-> s.t, v |-> s.rate.goodput]]
             P == {[t |-> s.t, v |-> s.rate.throughput] : s \in S}
             Q == {[t |-> s.t, v |-> s.rate.goodput] : s \in S}
             a == [glyph |-> "throughput", points |-> P]
             b == [glyph |-> "goodput", points |-> Q]
  <2>1. DOMAIN f = S /\ (\A s \in S : f[s].t \in Nat /\ f[s].v \in Nat) /\ {f[s] : s \in S} = P
    BY <1>3 DEF ThroughputSample, Rate
  <2>2. DOMAIN g = S /\ (\A s \in S : g[s].t \in Nat /\ g[s].v \in Nat) /\ {g[s] : s \in S} = Q
    BY <1>3 DEF ThroughputSample, Rate
  <2> HIDE DEF f, g
  <2>3. IsPoints({f[s] : s \in S})
    BY <2>1, PointsOf
  <2>4. IsPoints({g[s] : s \in S})
    BY <2>2, PointsOf
  <2>5. IsPoints(P) /\ IsPoints(Q)
    BY <2>1, <2>2, <2>3, <2>4
  <2> HIDE DEF P, Q
  <2>6. /\ IsPoints(a.points) /\ a.glyph \notin {Blank, Cursor}
        /\ IsPoints(b.points) /\ b.glyph \notin {Blank, Cursor}
    BY <2>5 DEF Blank, Cursor
  <2>7. throughput_layers(S) = <<a, b>>
    BY DEF throughput_layers, P, Q
  <2> HIDE DEF a, b
  <2> QED BY <2>6, <2>7, TwoLayers
<1> QED BY <1>1, <1>2, <1>3

\* The four series of an entry.
LEMMA EntryDrawn ==
    ASSUME NEW e, Detailed(e)
    PROVE  /\ Span(x_span(e)) /\ SeqPoints(focus_series(e, "seq"))
           /\ Drawable(inflight_layers(focus_series(e, "inflight")))
           /\ Drawable(rtt_layers(focus_series(e, "rtt")))
           /\ Drawable(throughput_layers(focus_series(e, "throughput")))
<1>1. /\ "seq" \in DetailSeries /\ "inflight" \in DetailSeries /\ "rtt" \in DetailSeries
      /\ "throughput" \in DetailSeries
  BY DEF DetailSeries
<1>2. \A n \in DetailSeries : IsFiniteSet(focus_series(e, n)) /\ focus_series(e, n) \subseteq Sample(n)
  BY FocusDrawn
<1>3. /\ IsFiniteSet(focus_series(e, "seq")) /\ focus_series(e, "seq") \subseteq SeqSample
      /\ IsFiniteSet(focus_series(e, "inflight")) /\ focus_series(e, "inflight") \subseteq InflightSample
      /\ IsFiniteSet(focus_series(e, "rtt")) /\ focus_series(e, "rtt") \subseteq RttSample
      /\ IsFiniteSet(focus_series(e, "throughput"))
      /\ focus_series(e, "throughput") \subseteq ThroughputSample
  BY <1>1, <1>2, DetailTypes
<1>4. PICK s, i, r, p : /\ s = focus_series(e, "seq") /\ i = focus_series(e, "inflight")
                        /\ r = focus_series(e, "rtt") /\ p = focus_series(e, "throughput")
  OBVIOUS
<1>5. SeqPoints(s)
  BY <1>3, <1>4 DEF SeqPoints
<1>6. Drawable(inflight_layers(i))
  BY <1>3, <1>4, LayersDrawable
<1>7. Drawable(rtt_layers(r))
  BY <1>3, <1>4, LayersDrawable
<1>8. Drawable(throughput_layers(p))
  BY <1>3, <1>4, LayersDrawable
<1> QED BY <1>4, <1>5, <1>6, <1>7, <1>8, FocusDrawn

\* Nothing drawn of an entry is right of the cursor line.
LEMMA EntryBehind ==
    ASSUME NEW e, Detailed(e), NEW t \in Nat, NEW g \in graphs(e, t), NEW m \in data_marks(g)
    PROVE  m[1] <= cursor_col(x_span(e), t, Pane)
<1>1. PlotArea(Pane)
  BY DetailAssumption DEF PlotArea, Pane, Area
<1>2. PICK x, area : x = x_span(e) /\ area = Pane
  OBVIOUS
<1>3. Span(x) /\ PlotArea(area)
  BY <1>1, <1>2, EntryDrawn
<1>4. CASE g = seq_graph(e, t)
  <2>1. PICK S : S = focus_series(e, "seq")
    OBVIOUS
  <2>2. SeqPoints(S) /\ m \in data_marks(seq_project(S, x, t, area))
    BY <1>2, <1>4, <2>1, EntryDrawn DEF seq_graph
  <2> QED BY <1>2, <1>3, <2>2, SeqBehind
<1>5. ASSUME NEW ls, Drawable(ls), g = project(ls, x, t, area) PROVE m[1] <= cursor_col(x, t, area)
  BY <1>3, <1>5, GraphBehind
<1>6. CASE g = inflight_graph(e, t)
  BY <1>2, <1>5, <1>6, EntryDrawn DEF inflight_graph, inflight_project
<1>7. CASE g = rtt_graph(e, t)
  BY <1>2, <1>5, <1>7, EntryDrawn DEF rtt_graph, rtt_project
<1>8. CASE g = throughput_graph(e, t)
  BY <1>2, <1>5, <1>8, EntryDrawn DEF throughput_graph, throughput_project
<1> QED BY <1>4, <1>6, <1>7, <1>8 DEF graphs

\* Its graphs of values rise with the cursor.
LEMMA EntryRises ==
    ASSUME NEW e, Detailed(e), NEW t \in Nat, NEW u \in Nat, t <= u
    PROVE  /\ rises(inflight_graph(e, t), inflight_graph(e, u))
           /\ rises(rtt_graph(e, t), rtt_graph(e, u))
           /\ rises(throughput_graph(e, t), throughput_graph(e, u))
<1>1. PlotArea(Pane)
  BY DetailAssumption DEF PlotArea, Pane, Area
<1>2. PICK x, area : x = x_span(e) /\ area = Pane
  OBVIOUS
<1>3. Span(x) /\ PlotArea(area)
  BY <1>1, <1>2, EntryDrawn
<1>4. ASSUME NEW ls, Drawable(ls) PROVE rises(project(ls, x, t, area), project(ls, x, u, area))
  BY <1>3, <1>4, GraphRises DEF rises
<1>5. PICK i, r, p : /\ i = inflight_layers(focus_series(e, "inflight"))
                     /\ r = rtt_layers(focus_series(e, "rtt"))
                     /\ p = throughput_layers(focus_series(e, "throughput"))
                     /\ Drawable(i) /\ Drawable(r) /\ Drawable(p)
  BY EntryDrawn
<1>6. \A s : /\ inflight_graph(e, s) = project(i, x, s, area)
             /\ rtt_graph(e, s) = project(r, x, s, area)
             /\ throughput_graph(e, s) = project(p, x, s, area)
  BY <1>2, <1>5 DEF inflight_graph, inflight_project, rtt_graph, rtt_project, throughput_graph,
                    throughput_project
<1> QED BY <1>4, <1>5, <1>6

-----------------------------------------------------------------------------
(***************************************************************************)
(* The timeline and the cursor that the pane is drawn from.                *)
(***************************************************************************)
TransportOK(tr) == tr \in TransportRec /\ tr.start <= tr.end

\* An app whose detail pane can be drawn.
Draws(a) ==
    /\ DOMAIN a = AppFields /\ TransportOK(a.transport)
    /\ \A i \in DOMAIN a.timeline.entries : Detailed(a.timeline.entries[i])

\* Moving the cursor, the speed and the domain.
LEMMA TransportMoves ==
    ASSUME NEW tr, TransportOK(tr)
    PROVE  /\ \A t \in Int : TransportOK(set_cursor(tr, t))
           /\ \A s, e \in Nat : s <= e => TransportOK(set_domain(tr, s, e))
           /\ TransportOK(transport_toggle_play(tr))
           /\ TransportOK(transport_faster(tr)) /\ TransportOK(transport_slower(tr))
<1>1. /\ DOMAIN RATIOS = 1 .. 6 /\ Len(RATIOS) = 6
  BY DEF RATIOS
<1>2. PICK s \in Nat, e \in Nat, c \in Nat, i \in 1 .. 6, p \in BOOLEAN :
         /\ s = tr.start /\ e = tr.end /\ c = tr.cursor /\ i = tr.speed_idx /\ p = tr.playing
         /\ s <= e
  BY <1>1 DEF TransportOK, TransportRec
<1>3. tr \in [start : Nat, end : Nat, cursor : Nat, speed_idx : 1 .. 6, playing : BOOLEAN]
  BY <1>1 DEF TransportOK, TransportRec
<1>4. ASSUME NEW t \in Int PROVE TransportOK(set_cursor(tr, t))
  <2>1. PICK k \in Nat : k = clamp(t, s, e)
    BY <1>2 DEF clamp
  <2>2. set_cursor(tr, t) = [tr EXCEPT !.cursor = k]
    BY <1>2, <2>1 DEF set_cursor
  <2> QED BY <1>1, <1>2, <1>3, <2>2 DEF TransportOK, TransportRec
<1>5. ASSUME NEW a \in Nat, NEW b \in Nat, a <= b PROVE TransportOK(set_domain(tr, a, b))
  <2>1. PICK k \in Nat : k = clamp(c, a, b)
    BY DEF clamp
  <2>2. set_domain(tr, a, b) = [tr EXCEPT !.start = a, !.end = b, !.cursor = k]
    BY <1>2, <2>1 DEF set_domain
  <2> QED BY <1>1, <1>3, <1>5, <2>2 DEF TransportOK, TransportRec
<1>6. TransportOK(transport_toggle_play(tr))
  <2>1. PICK k \in Nat, q \in BOOLEAN : transport_toggle_play(tr) = [tr EXCEPT !.playing = q, !.cursor = k]
    <3>1. PICK k \in Nat : k = IF ~tr.playing /\ c >= e THEN s ELSE c
      OBVIOUS
    <3>2. (~p) \in BOOLEAN
      OBVIOUS
    <3>3. transport_toggle_play(tr) = [tr EXCEPT !.playing = ~p, !.cursor = k]
      BY <1>2, <3>1 DEF transport_toggle_play
    <3> QED BY <3>2, <3>3
  <2> QED BY <1>1, <1>2, <1>3, <2>1 DEF TransportOK, TransportRec
<1>7. ASSUME NEW j \in 1 .. 6 PROVE TransportOK([tr EXCEPT !.speed_idx = j])
  BY <1>1, <1>2, <1>3 DEF TransportOK, TransportRec
<1>8. TransportOK(transport_faster(tr))
  <2>1. PICK j \in 1 .. 6 : j = IF i < 6 THEN i + 1 ELSE i
    OBVIOUS
  <2>2. transport_faster(tr) = [tr EXCEPT !.speed_idx = j]
    BY <1>1, <1>2, <2>1 DEF transport_faster
  <2> QED BY <1>7, <2>2
<1>9. TransportOK(transport_slower(tr))
  <2>1. PICK j \in 1 .. 6 : j = IF i > 1 THEN i - 1 ELSE i
    OBVIOUS
  <2>2. transport_slower(tr) = [tr EXCEPT !.speed_idx = j]
    BY <1>1, <1>2, <2>1 DEF transport_slower
  <2> QED BY <1>7, <2>2
<1> QED BY <1>4, <1>5, <1>6, <1>8, <1>9

LEMMA TransportSeeks ==
    ASSUME NEW tr, TransportOK(tr), NEW forward
    PROVE  TransportOK(transport_seek(tr, forward))
<1>1. PICK s \in Nat, e \in Nat, c \in Nat : s = tr.start /\ e = tr.end /\ c = tr.cursor
  BY DEF TransportOK, TransportRec
<1>2. PICK d \in Nat : d = saturating_sub(e, s) \div 50
  <2>1. saturating_sub(e, s) \in Nat
    BY DEF saturating_sub
  <2> QED BY <2>1
<1>3. PICK step \in Nat : step = seek_step(tr)
  BY <1>1, <1>2 DEF seek_step, later
<1>4. PICK t \in Int : t = IF forward THEN c + step ELSE saturating_sub(c, step)
  BY DEF saturating_sub
<1>5. transport_seek(tr, forward) = set_cursor(tr, t)
  BY <1>1, <1>3, <1>4 DEF transport_seek
<1> QED BY <1>5, TransportMoves

\* Playback.
LEMMA TransportTicks ==
    ASSUME NEW tr, TransportOK(tr), NEW dt \in Nat
    PROVE  TransportOK(transport_tick(tr, dt))
<1>1. /\ DOMAIN RATIOS = 1 .. 6 /\ \A i \in 1 .. 6 : RATIOS[i][1] \in Nat /\ RATIOS[i][2] \in Nat \ {0}
  <2>1. \A i \in 1 .. 6 : i = 1 \/ i = 2 \/ i = 3 \/ i = 4 \/ i = 5 \/ i = 6
    OBVIOUS
  <2> QED BY <2>1 DEF RATIOS
<1>2. PICK s \in Nat, e \in Nat, c \in Nat, i \in 1 .. 6 :
         /\ s = tr.start /\ e = tr.end /\ c = tr.cursor /\ i = tr.speed_idx /\ s <= e
  BY <1>1 DEF TransportOK, TransportRec
<1>3. PICK n \in Nat, d \in Nat \ {0} : n = RATIOS[i][1] /\ d = RATIOS[i][2]
  BY <1>1
<1>4. PICK q \in Nat : q = (dt * n) \div d
  <2>1. PICK p \in Nat : p = dt * n
    OBVIOUS
  <2>2. p \div d \in Nat
    OBVIOUS
  <2> QED BY <2>1, <2>2
<1>5. PICK k \in Nat : k = clamp(c + q, 0, e)
  BY DEF clamp
<1>6. advanced(tr, dt) = k
  BY <1>2, <1>3, <1>4, <1>5 DEF advanced
<1>7. tr \in [start : Nat, end : Nat, cursor : Nat, speed_idx : 1 .. 6, playing : BOOLEAN]
  BY <1>1 DEF TransportOK, TransportRec
<1>8. PICK b \in BOOLEAN : b = (k < e)
  <2>1. (k < e) \in BOOLEAN
    OBVIOUS
  <2> QED BY <2>1
<1>9. TransportOK([tr EXCEPT !.cursor = k, !.playing = b])
  BY <1>1, <1>2, <1>7 DEF TransportOK, TransportRec
<1>10. transport_tick(tr, dt) = IF ~tr.playing THEN tr ELSE [tr EXCEPT !.cursor = k, !.playing = b]
  BY <1>2, <1>6, <1>8 DEF transport_tick
<1> QED BY <1>9, <1>10

\* Setting the fields of an app.
LEMMA SetDraws ==
    ASSUME NEW a, Draws(a), NEW v
    PROVE  /\ Draws([a EXCEPT !.query = v]) /\ Draws([a EXCEPT !.selected = v])
           /\ Draws([a EXCEPT !.mode = v]) /\ Draws([a EXCEPT !.names = v])
           /\ Draws([a EXCEPT !.follow = v]) /\ Draws([a EXCEPT !.detail_open = v])
           /\ Draws([a EXCEPT !.detail_view = v]) /\ Draws([a EXCEPT !.sort_dir = v])
           /\ Draws([a EXCEPT !.sort_field = v])
           /\ TransportOK(v) => Draws([a EXCEPT !.transport = v])
<1>1. DOMAIN a = AppFields
  BY DEF Draws
<1>2. ASSUME NEW b, DOMAIN b = AppFields, b.timeline = a.timeline, TransportOK(b.transport)
      PROVE  Draws(b)
  BY <1>2 DEF Draws
<1>3. TransportOK(a.transport)
  BY DEF Draws
<1> QED BY <1>1, <1>2, <1>3 DEF AppFields

LEMMA ReconcileDraws ==
    ASSUME NEW a, Draws(a)
    PROVE  Draws(reconcile_selection(a))
BY SetDraws DEF reconcile_selection

LEMMA MovedDraws ==
    ASSUME NEW a, Draws(a), NEW tr, TransportOK(tr)
    PROVE  Draws(reconcile_selection([a EXCEPT !.transport = tr]))
<1>1. PICK b : b = [a EXCEPT !.transport = tr] /\ Draws(b)
  BY SetDraws
<1> QED BY <1>1, ReconcileDraws

LEMMA FilterDraws ==
    ASSUME NEW a, Draws(a), NEW query
    PROVE  Draws(edit_filter(a, query))
<1>1. PICK b : b = [a EXCEPT !.query = query] /\ Draws(b)
  BY SetDraws
<1> QED BY <1>1, ReconcileDraws DEF edit_filter

\* Every key leaves an app whose pane can be drawn.
LEMMA KeysDraw ==
    ASSUME AppInv, Draws(app), Keys
    PROVE  Draws(app')
<1>1. Shape(app) /\ TransportOK(app.transport)
  BY DEF AppInv, Draws
<1>2. ASSUME NEW m, NEW b, Press(m, b), Draws(b) PROVE Draws(app')
  BY <1>2 DEF Press
<1>3. CASE KeySort
  <2>1. PICK f, d, b : b = [app EXCEPT !.sort_field = f] /\ cycle_sort(app) = [b EXCEPT !.sort_dir = d]
    BY DEF cycle_sort
  <2>2. Draws(b)
    BY <2>1, SetDraws
  <2>3. Draws([b EXCEPT !.sort_dir = d])
    BY <2>2, SetDraws
  <2>4. Draws(cycle_sort(app))
    BY <2>1, <2>3
  <2> QED BY <1>2, <1>3, <2>4 DEF KeySort
<1>4. CASE KeyDir
  <2>1. Draws(toggle_dir(app))
    BY SetDraws DEF toggle_dir
  <2> QED BY <1>2, <1>4, <2>1 DEF KeyDir
<1>5. CASE KeyEnter
  <2>1. Draws(open_detail(app))
    BY SetDraws DEF open_detail
  <2> QED BY <1>2, <1>5, <2>1 DEF KeyEnter
<1>6. CASE KeyEsc \/ KeyTab \/ KeySlash \/ FilterConfirm
  BY <1>2, <1>6, SetDraws DEF KeyEsc, KeyTab, KeySlash, FilterConfirm
<1>7. CASE KeySpace
  <2>1. Draws(toggle_play(app))
    BY <1>1, MovedDraws, TransportMoves DEF toggle_play
  <2>2. Draws(toggle_follow(app))
    <3>1. PICK tr : tr = IF app.follow THEN app.transport ELSE set_cursor(app.transport, app.transport.end)
      OBVIOUS
    <3>2. app.transport.end \in Int
      BY <1>1 DEF TransportOK, TransportRec
    <3>3. TransportOK(tr)
      BY <1>1, <3>1, <3>2, TransportMoves
    <3>4. PICK v, b : b = [app EXCEPT !.follow = v] /\ toggle_follow(app) = [b EXCEPT !.transport = tr]
      BY <1>1, <3>1 DEF toggle_follow, Shape, AppFields
    <3>5. Draws(b)
      BY <3>4, SetDraws
    <3>6. Draws([b EXCEPT !.transport = tr])
      BY <3>3, <3>5, SetDraws
    <3> QED BY <3>4, <3>6
  <2> QED BY <1>2, <1>7, <2>1, <2>2 DEF KeySpace
<1>8. ASSUME NEW step, KeyMove(step) PROVE Draws(app')
  <2>1. PICK sel : move_by(app, step) = [app EXCEPT !.selected = sel]
    BY DEF move_by
  <2>2. Draws([app EXCEPT !.selected = sel])
    BY SetDraws
  <2>3. Draws(move_by(app, step))
    BY <2>1, <2>2
  <2> QED BY <1>2, <1>8, <2>3 DEF KeyMove
<1>9. ASSUME NEW up, KeySpeed(up) PROVE Draws(app')
  <2>1. PICK tr : /\ tr = transport_faster(app.transport) \/ tr = transport_slower(app.transport)
                  /\ Press("nav", [app EXCEPT !.transport = tr])
    BY <1>9 DEF KeySpeed
  <2>2. TransportOK(tr)
    BY <1>1, <2>1, TransportMoves
  <2> QED BY <1>2, <2>1, <2>2, SetDraws
<1>10. PICK a : a = freeze_if_live(app) /\ Draws(a)
  BY SetDraws DEF freeze_if_live
<1>11. TransportOK(a.transport)
  BY <1>10 DEF Draws
<1>12. ASSUME NEW forward, KeySeek(forward) PROVE Draws(app')
  <2>1. Draws(seek(a, forward))
    BY <1>10, <1>11, MovedDraws, TransportSeeks DEF seek
  <2> QED BY <1>2, <1>10, <1>12, <2>1 DEF KeySeek
<1>13. ASSUME NEW forward, KeyStep(forward) PROVE Draws(app')
  <2>1. PICK t : /\ t = IF forward THEN next_event(a.timeline, a.transport.cursor)
                        ELSE prev_event(a.timeline, a.transport.cursor)
                 /\ Press("nav", step_to(a, t))
    BY <1>10, <1>13 DEF KeyStep
  <2>2. Shape(a)
    BY <1>1, <1>10, Frozen, UntouchedKeeps
  <2>3. t \in Int
    BY <2>1, <2>2, EventsAreTimes DEF Shape
  <2>4. TransportOK(set_cursor(a.transport, t))
    BY <1>11, <2>3, TransportMoves
  <2>5. Draws(step_to(a, t))
    BY <1>10, <2>4, MovedDraws DEF step_to
  <2> QED BY <1>2, <2>1, <2>5
<1>14. ASSUME NEW w, FilterType(w) PROVE Draws(app')
  BY <1>2, <1>14, FilterDraws DEF FilterType
<1>15. CASE FilterBackspace
  BY <1>2, <1>15, FilterDraws DEF FilterBackspace
<1>16. CASE FilterCancel
  <2>1. PICK b : b = [app EXCEPT !.mode = "nav"] /\ Draws(b)
    BY SetDraws
  <2>2. Draws(edit_filter(b, <<>>))
    BY <2>1, FilterDraws
  <2> QED BY <1>2, <1>16, <2>1, <2>2 DEF FilterCancel
<1> QED BY <1>3, <1>4, <1>5, <1>6, <1>7, <1>8, <1>9, <1>12, <1>13, <1>14, <1>15, <1>16 DEF Keys

\* App::tick
LEMMA TickDraws ==
    ASSUME NEW a, Draws(a), NEW dt \in Nat
    PROVE  Draws(tick(a, dt))
<1>1. PICK tr : tr = transport_tick(a.transport, dt) /\ TransportOK(tr)
  BY TransportTicks DEF Draws
<1>2. PICK b : b = [a EXCEPT !.transport = tr] /\ Draws(b)
  BY <1>1, SetDraws
<1>3. tick(a, dt) = b \/ tick(a, dt) = reconcile_selection(b)
  BY <1>1, <1>2 DEF tick
<1> QED BY <1>2, <1>3, ReconcileDraws

\* A timeline that ends no earlier than its connections, at the start of a replay or a frame.
LEMMA TimelineDrawn ==
    ASSUME LifecycleInv, RetentionInv, SpanInv, NEW end \in Nat,
           \A i \in DOMAIN conns : conns[i].last_at <= end
    PROVE  LET tl == with_seq_ending(conns, bufs, end)
           IN  \A i \in DOMAIN tl.entries : Detailed(tl.entries[i])
<1>1. PICK tl : tl = with_seq_ending(conns, bufs, end)
  OBVIOUS
<1>2. /\ DOMAIN tl.entries = DOMAIN conns
      /\ \A i \in DOMAIN conns : tl.entries[i] = entry(conns[i], bufs[i], end)
  BY <1>1, TimelineAnswers
<1>3. \A i \in DOMAIN tl.entries : Detailed(tl.entries[i])
  BY <1>2, EntriesDetailed
<1> QED BY <1>1, <1>3

LEMMA NewTransport ==
    ASSUME NEW s \in Nat, NEW e \in Nat, s <= e
    PROVE  TransportOK(transport_new(s, e))
BY DEF TransportOK, TransportRec, transport_new, RATIOS, DEFAULT_SPEED_IDX

LEMMA StartDraws ==
    ASSUME AppInv, LifecycleInv, RetentionInv, SpanInv, StartReplay
    PROVE  Draws(app')
<1>1. /\ AppInv' /\ app'.timeline = into_timeline
      /\ app'.transport = transport_new(into_timeline.start, into_timeline.end)
  BY StartKeeps
<1>2. PICK E, tl : /\ tl = into_timeline /\ E = sample_times(bufs)
                   /\ tl.end \in Nat /\ E \subseteq 0 .. tl.end
                   /\ IsFiniteSet(E)
                   /\ E # {} => tl.start = Min(E)
                   /\ \A i \in DOMAIN conns : conns[i].last_at \in Nat /\ conns[i].last_at <= tl.end
  BY ReplayTimes
<1>3. PICK e : e = tl.end /\ tl = with_seq_ending(conns, bufs, e)
  <2>1. PICK e : into_timeline = with_seq_ending(conns, bufs, e)
    BY Zenon DEF into_timeline, with_seq
  <2>2. tl.end = e
    BY <1>2, <2>1 DEF with_seq_ending
  <2> QED BY <1>2, <2>1, <2>2
<1>4. e \in Nat /\ \A i \in DOMAIN conns : conns[i].last_at <= e
  BY <1>2, <1>3
<1>5. \A i \in DOMAIN tl.entries : Detailed(tl.entries[i])
  BY <1>3, <1>4, TimelineDrawn
<1>6. PICK s \in Nat : s = tl.start /\ s <= e
  <2>1. CASE E = {}
    <3>1. with_seq_ending(conns, bufs, e).start =
             IF sample_times(bufs) = {} THEN 0 ELSE Min(sample_times(bufs))
      BY Zenon DEF with_seq_ending
    <3>2. tl.start = 0
      BY <1>2, <1>3, <2>1, <3>1
    <3> QED BY <1>4, <3>2
  <2>2. CASE E # {}
    <3>1. E \subseteq 0 .. e /\ E \subseteq Nat
      BY <1>2, <1>3, <1>4
    <3>2. Min(E) \in E
      BY <2>2, <3>1, MinIsLeast
    <3> QED BY <1>2, <2>2, <3>1, <3>2
  <2> QED BY <2>1, <2>2
<1>7. TransportOK(app'.transport)
  BY <1>1, <1>2, <1>3, <1>4, <1>6, NewTransport
<1>8. DOMAIN app' = AppFields
  BY <1>1 DEF AppInv, Shape
<1> QED BY <1>1, <1>2, <1>5, <1>7, <1>8 DEF Draws

LEMMA RetargetDraws ==
    ASSUME AppInv, Draws(app), LifecycleInv, RetentionInv, SpanInv, Retarget
    PROVE  Draws(app')
<1>1. is_live /\ app' = retarget(app, snapshot, horizon_at(now), now)
  BY DEF Retarget
<1>2. PICK T \in Nat, h \in Nat : T = now /\ h = horizon_at(now) /\ h <= T
  BY <1>1, HorizonBehind DEF RetentionInv
<1>3. PICK tl : tl = snapshot /\ TimelineOK(tl)
  BY TimelineAnswers DEF snapshot
<1>4. \A i \in DOMAIN conns : conns[i].last_at <= T
  BY <1>2, ByIndex DEF SpanInv, Spans, LifecycleInv
<1>5. \A i \in DOMAIN tl.entries : Detailed(tl.entries[i])
  BY <1>2, <1>3, <1>4, TimelineDrawn DEF snapshot
<1>6. PICK tr, d : d = set_domain(app.transport, h, T) /\ tr = pinned(app, d, T)
  OBVIOUS
<1>7. TransportOK(d)
  BY <1>2, <1>6, TransportMoves DEF Draws
<1>8. TransportOK(tr)
  <2>1. T \in Int
    OBVIOUS
  <2>2. TransportOK(set_cursor(d, T))
    BY <1>7, <2>1, TransportMoves
  <2> QED BY <1>6, <1>7, <2>2 DEF pinned
<1>9. PICK b : b = retarget(app, tl, h, T)
  OBVIOUS
<1>10. Shape(b) /\ b.timeline = tl /\ b.transport = tr
  <2>1. Shape(app)
    BY DEF AppInv
  <2> QED BY <1>2, <1>3, <1>6, <1>9, <2>1, Retargeted
<1>11. Draws(b)
  BY <1>5, <1>8, <1>10 DEF Draws, Shape
<1> QED BY <1>1, <1>2, <1>3, <1>9, <1>11

(***************************************************************************)
(* The timeline the app holds has typed samples and no inverted span, and  *)
(* the transport is in its type with an ordered domain, live and in a      *)
(* replay, whatever was captured, evicted and pressed.                     *)
(***************************************************************************)
LEMMA DrawsInvariant == AppSpec => []Draws(app)
<1>1. ASSUME AppInit, AppInv, LifecycleInv, RetentionInv, SpanInv PROVE Draws(app)
  <2>1. conns = <<>> /\ bufs = <<>>
    BY <1>1 DEF AppInit, Init
  <2>2. PICK tl : tl = with_seq(<<>>, <<>>)
    OBVIOUS
  <2>3. tl = with_seq_ending(conns, bufs, 0)
    BY <2>1, <2>2, Zenon DEF with_seq
  <2>4. TimelineOK(tl) /\ tl.end = 0 /\ DOMAIN tl.entries = DOMAIN conns
    BY <1>1, <2>3, TimelineAnswers
  <2>5. DOMAIN tl.entries = {}
    BY <2>1, <2>4
  <2>6. tl.start = 0
    <3>1. sample_times(bufs) = {}
      BY <2>1 DEF sample_times
    <3> QED BY <2>3, <3>1 DEF with_seq_ending
  <2>7. app = app_new(tl, NameTableNew)
    BY <1>1, <2>2 DEF AppInit
  <2>8. Shape(app) /\ app.timeline = tl /\ app.transport = transport_new(0, 0)
    BY <2>4, <2>6, <2>7, NewApp
  <2>9. TransportOK(app.transport)
    BY <2>8, NewTransport
  <2> QED BY <2>5, <2>8, <2>9 DEF Draws, Shape
<1>2. ASSUME Draws(app), AppInv, LifecycleInv, RetentionInv, SpanInv, [AppNext]_appvars
      PROVE  Draws(app)'
  <2>1. CASE Feed \/ Quit \/ Done \/ NoKey \/ UNCHANGED appvars
    <3>1. app' = app
      BY <2>1 DEF Feed, Quit, Done, NoKey, appvars
    <3> QED BY <1>2, <3>1
  <2>2. CASE Keys
    BY <1>2, <2>2, KeysDraw
  <2>3. CASE StartReplay
    BY <1>2, <2>3, StartDraws
  <2>4. CASE Retarget
    BY <1>2, <2>4, RetargetDraws
  <2>5. ASSUME NEW obs, HearName(obs) PROVE Draws(app')
    <3>1. PICK v : app' = [app EXCEPT !.names = v]
      BY <2>5 DEF HearName
    <3>2. Draws([app EXCEPT !.names = v])
      BY <1>2, SetDraws
    <3> QED BY <3>1, <3>2
  <2>6. ASSUME NEW dt \in Dts, ReplayTick(dt) PROVE Draws(app')
    <3>1. dt \in Nat /\ app' = tick(app, dt)
      BY <2>6, AppAssumption DEF ReplayTick
    <3> QED BY <1>2, <3>1, TickDraws
  <2> QED BY <1>2, <2>1, <2>2, <2>3, <2>4, <2>5, <2>6 DEF AppNext
<1> QED BY <1>1, <1>2, AppInvariant, AppTracks, LifecycleInvariant, RetentionInvariant,
           SpanInvariant, PTL DEF AppSpec

\* The focused entries are entries of the timeline.
LEMMA FocusDetailed ==
    ASSUME NEW a, Draws(a), NEW e \in focus_entries(a)
    PROVE  Detailed(e)
BY DEF Draws, focus_entries

(***************************************************************************)
(* NothingAhead: the four projections (detail.rs, inflight.rs, rtt.rs and  *)
(* throughput.rs) draw nothing right of the cursor line and are never      *)
(* called with an inverted span, for every capture, every pane size and    *)
(* wherever playback, seeks and retargets have left the cursor.            *)
(***************************************************************************)
THEOREM NothingIsAhead == AppSpec => []NothingAhead
<1>1. ASSUME Draws(app) PROVE NothingAhead
  <2> SUFFICES ASSUME NEW e \in focus_entries(app)
               PROVE  /\ x_span(e).from <= x_span(e).to
                      /\ \A g \in graphs(e, app.transport.cursor) : \A m \in data_marks(g) :
                            m[1] <= cursor_col(x_span(e), app.transport.cursor, Pane)
    BY DEF NothingAhead
  <2>1. Detailed(e)
    BY <1>1, FocusDetailed
  <2>2. x_span(e).from <= x_span(e).to
    BY <2>1, FocusDrawn DEF Span
  <2>3. PICK t \in Nat : t = app.transport.cursor
    BY <1>1 DEF Draws, TransportOK, TransportRec
  <2>4. \A g \in graphs(e, t) : \A m \in data_marks(g) : m[1] <= cursor_col(x_span(e), t, Pane)
    BY <2>1, EntryBehind
  <2> QED BY <2>2, <2>3, <2>4
<1> QED BY <1>1, DrawsInvariant, PTL

(***************************************************************************)
(* ResendsVisible: in the Time/Sequence graph (detail.rs project) every    *)
(* sample that the cursor has reached is in a cell of the plot, which      *)
(* shows it or a more salient one, whatever else fell into the cell.       *)
(***************************************************************************)
THEOREM ResendsAreVisible == AppSpec => []ResendsVisible
<1>1. ASSUME Draws(app) PROVE ResendsVisible
  <2>1. ASSUME NEW e \in focus_entries(app), NEW s \in revealed(focus_series(e, "seq"), app.transport.cursor)
        PROVE  LET shown == seq_graph(e, app.transport.cursor)[cell_of(s, focus_series(e, "seq"), x_span(e), Pane)]
               IN  shown \in DOMAIN salience /\ salience[shown] >= salience[s.kind]
    <3>1. Detailed(e)
      BY <1>1, <2>1, FocusDetailed
    <3>2. PICK t \in Nat : t = app.transport.cursor
      BY <1>1 DEF Draws, TransportOK, TransportRec
    <3>3. PICK S, x, area : S = focus_series(e, "seq") /\ x = x_span(e) /\ area = Pane
      OBVIOUS
    <3>4. PlotArea(area) /\ Span(x) /\ SeqPoints(S)
      <4>1. PlotArea(Pane)
        BY DetailAssumption DEF PlotArea, Pane, Area
      <4> QED BY <3>1, <3>3, <4>1, EntryDrawn
    <3>5. \A p \in revealed(S, t) :
             LET shown == seq_project(S, x, t, area)[cell_of(p, S, x, area)]
             IN  shown \in DOMAIN salience /\ salience[shown] >= salience[p.kind]
      BY <3>4, SeqGraph
    <3>6. s \in revealed(S, t)
      BY <2>1, <3>2, <3>3
    <3>7. seq_graph(e, t) = seq_project(S, x, t, area)
      BY <3>3 DEF seq_graph
    <3> QED BY <3>2, <3>3, <3>5, <3>6, <3>7
  <2> QED BY <2>1, Zenon DEF ResendsVisible
<1> QED BY <1>1, DrawsInvariant, PTL

(***************************************************************************)
(* RevealMonotone: while timeline and selection stay, a cursor that moves  *)
(* forward lowers no column of the in-flight, RTT and throughput graphs:   *)
(* Geom::place takes the tallest point, and no layer hides another's       *)
(* column.                                                                 *)
(***************************************************************************)
THEOREM RevealIsMonotone == AppSpec => RevealMonotone
<1> DEFINE Reveals ==
              app'.timeline = app.timeline /\ app'.selected = app.selected
              /\ app'.transport.cursor > app.transport.cursor =>
                 \A e \in focus_entries(app) :
                    /\ rises(inflight_graph(e, app.transport.cursor), inflight_graph(e, app'.transport.cursor))
                    /\ rises(rtt_graph(e, app.transport.cursor), rtt_graph(e, app'.transport.cursor))
                    /\ rises(throughput_graph(e, app.transport.cursor), throughput_graph(e, app'.transport.cursor))
<1>1. ASSUME Draws(app), Draws(app)' PROVE Reveals
  <2> SUFFICES ASSUME app'.transport.cursor > app.transport.cursor, NEW e \in focus_entries(app)
               PROVE  /\ rises(inflight_graph(e, app.transport.cursor), inflight_graph(e, app'.transport.cursor))
                      /\ rises(rtt_graph(e, app.transport.cursor), rtt_graph(e, app'.transport.cursor))
                      /\ rises(throughput_graph(e, app.transport.cursor), throughput_graph(e, app'.transport.cursor))
    OBVIOUS
  <2>1. Detailed(e)
    BY <1>1, FocusDetailed
  <2>2. PICK t \in Nat, u \in Nat : t = app.transport.cursor /\ u = app'.transport.cursor
    BY <1>1 DEF Draws, TransportOK, TransportRec
  <2>3. t <= u
    BY <2>2
  <2>4. /\ rises(inflight_graph(e, t), inflight_graph(e, u))
        /\ rises(rtt_graph(e, t), rtt_graph(e, u))
        /\ rises(throughput_graph(e, t), throughput_graph(e, u))
    BY <2>1, <2>3, EntryRises
  <2> QED BY <2>2, <2>4
<1>2. AppSpec => [][Reveals]_appvars
  BY <1>1, DrawsInvariant, PTL DEF AppSpec
<1> QED BY <1>2 DEF RevealMonotone
=============================================================================
