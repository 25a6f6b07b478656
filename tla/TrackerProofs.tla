--------------------------- MODULE TrackerProofs ----------------------------
(***************************************************************************)
(* Proofs about connection tracking (module Tracker), for every set of     *)
(* endpoints and segments, every configuration and every bound, timestamps *)
(* in any order.                                                           *)
(*                                                                         *)
(* LifecycleInv is the inductive invariant.  LiveIsNewest needs its type   *)
(* part to index conns; InstancesOrdered needs LiveIsNewest, because a     *)
(* join rewrites the instance that live names; the retained samples play   *)
(* no part in either (RetentionProofs is about them).                      *)
(***************************************************************************)
EXTENDS Tracker, BasicLemmas, FiniteSetTheorems

(***************************************************************************)
(* Vec::retain: the k-th index kept is a strictly increasing enumeration.  *)
(***************************************************************************)
\* How many indices of I are at most i.
upto(I, i) == {j \in I : j <= i}

\* A set of indices and its initial parts are finite; the parts grow from {} to the set.
LEMMA CountUpto ==
    ASSUME NEW n \in Nat, NEW I, I \subseteq 1 .. n
    PROVE  /\ IsFiniteSet(I) /\ Cardinality(I) \in Nat
           /\ \A i \in 0 .. n : IsFiniteSet(upto(I, i)) /\ Cardinality(upto(I, i)) \in Nat
           /\ upto(I, 0) = {} /\ Cardinality(upto(I, 0)) = 0
           /\ upto(I, n) = I
<1>1. IsFiniteSet(I)
  BY FS_Interval, FS_Subset, 1 \in Int, n \in Int
<1>2. \A i \in 0 .. n : IsFiniteSet(upto(I, i))
  BY <1>1, FS_Subset DEF upto
<1>3. upto(I, 0) = {} /\ upto(I, n) = I
  <2>1. \A j \in I : ~(j <= 0) /\ j <= n
    OBVIOUS
  <2> QED BY <2>1, Zenon DEF upto
<1> QED BY <1>1, <1>2, <1>3, FS_CardinalityType, FS_EmptySet

\* One index more in the bound adds one to the count exactly when it is in the set.
LEMMA CountStep ==
    ASSUME NEW n \in Nat, NEW I, I \subseteq 1 .. n, NEW i \in 1 .. n
    PROVE  /\ i \in I    => Cardinality(upto(I, i)) = Cardinality(upto(I, i - 1)) + 1
           /\ i \notin I => Cardinality(upto(I, i)) = Cardinality(upto(I, i - 1))
<1>1. CASE i \in I
  <2>1. upto(I, i) = upto(I, i - 1) \cup {i} /\ i \notin upto(I, i - 1)
    <3>1. \A j \in I : j <= i <=> j <= i - 1 \/ j = i
      OBVIOUS
    <3>2. ~(i <= i - 1)
      OBVIOUS
    <3> QED BY <1>1, <3>1, <3>2, Zenon DEF upto
  <2>2. IsFiniteSet(upto(I, i - 1))
    <3>1. PICK j \in 0 .. n : j = i - 1
      OBVIOUS
    <3>2. IsFiniteSet(upto(I, j))
      BY CountUpto
    <3> QED BY <3>1, <3>2
  <2> QED BY <1>1, <2>1, <2>2, FS_AddElement
<1>2. CASE i \notin I
  <2>1. upto(I, i) = upto(I, i - 1)
    <3>1. \A j \in I : j <= i <=> j <= i - 1
      BY <1>2
    <3> QED BY <3>1, Zenon DEF upto
  <2> QED BY <1>2, <2>1
<1> QED BY <1>1, <1>2

\* nth enumerates I in increasing order.
LEMMA NthEnumerates ==
    ASSUME NEW n \in Nat, NEW I, I \subseteq 1 .. n
    PROVE  /\ \A k \in 1 .. Cardinality(I) : nth(I, k) \in I
           /\ \A j \in 1 .. Cardinality(I), k \in 1 .. Cardinality(I) :
                 j < k => nth(I, j) < nth(I, k)
           /\ \A i \in I : \E k \in 1 .. Cardinality(I) : nth(I, k) = i
<1> DEFINE count(i) == Cardinality(upto(I, i))
           K == Cardinality(I)
<1>1. /\ K \in Nat
      /\ \A i \in 0 .. n : count(i) \in Nat
      /\ count(0) = 0 /\ count(n) = K
      /\ \A i \in 1 .. n : /\ i \in I    => count(i) = count(i - 1) + 1
                           /\ i \notin I => count(i) = count(i - 1)
  <2>1. K \in Nat
    BY CountUpto
  <2>2. \A i \in 0 .. n : count(i) \in Nat
    BY CountUpto
  <2>3. count(0) = 0 /\ count(n) = K
    BY CountUpto
  <2>4. \A i \in 1 .. n : /\ i \in I    => count(i) = count(i - 1) + 1
                          /\ i \notin I => count(i) = count(i - 1)
    BY CountStep
  <2> QED BY <2>1, <2>2, <2>3, <2>4
<1>2. ASSUME NEW i \in 0 .. n, NEW j \in 0 .. n, i <= j PROVE count(i) <= count(j)
  <2>1. upto(I, i) \subseteq upto(I, j)
    <3>1. \A k \in I : k <= i => k <= j
      BY <1>2
    <3> QED BY <3>1, Zenon DEF upto
  <2>2. IsFiniteSet(upto(I, j))
    BY CountUpto
  <2> QED BY <2>1, <2>2, FS_Subset
<1> HIDE DEF count
<1>3. ASSUME NEW i \in I, NEW j \in I, i < j PROVE count(i) < count(j)
  <2>1. i \in 0 .. n /\ j - 1 \in 0 .. n /\ j \in 1 .. n /\ i <= j - 1
    BY <1>3
  <2>2. count(i) <= count(j - 1)
    <3>1. PICK h \in 0 .. n : h = j - 1
      BY <2>1
    <3>2. count(i) <= count(h)
      BY <1>2, <2>1, <3>1
    <3> QED BY <3>1, <3>2
  <2>3. count(j) = count(j - 1) + 1
    BY <1>1, <1>3, <2>1, Zenon
  <2> QED BY <1>1, <2>1, <2>2, <2>3
<1>4. ASSUME NEW k \in 1 .. K PROVE \E i \in I : count(i) = k
  <2> DEFINE T == {i \in 0 .. n : count(i) >= k}
  <2>1. T \subseteq Nat /\ n \in T
    BY <1>1
  <2>2. PICK i \in T : \A y \in T : i <= y
    BY <2>1, LeastNat
  <2>3. i \in 1 .. n
    BY <1>1, <2>2
  <2>4. count(i - 1) < k
    BY <1>1, <2>2, <2>3
  <2>5. count(i - 1) \in Nat /\ count(i) \in Nat
    BY <1>1, <2>3
  <2>6. count(i) >= k /\ i \in 0 .. n
    BY <2>2
  <2>7. i \in I /\ count(i) = count(i - 1) + 1
    <3>1. /\ i \in I    => count(i) = count(i - 1) + 1
          /\ i \notin I => count(i) = count(i - 1)
      BY <1>1, <2>3, Zenon
    <3> QED BY <2>4, <2>5, <2>6, <3>1
  <2> QED BY <2>4, <2>5, <2>6, <2>7
<1>5. ASSUME NEW k \in 1 .. K PROVE nth(I, k) \in I /\ count(nth(I, k)) = k
  BY <1>4, <1>5 DEF nth, upto, count
<1>6. ASSUME NEW j \in 1 .. K, NEW k \in 1 .. K, j < k PROVE nth(I, j) < nth(I, k)
  <2>1. /\ nth(I, j) \in I /\ count(nth(I, j)) = j
        /\ nth(I, k) \in I /\ count(nth(I, k)) = k
    BY <1>5
  <2>2. nth(I, j) \in 0 .. n /\ nth(I, k) \in 0 .. n
    <3>1. \A i \in I : i \in 0 .. n
      OBVIOUS
    <3> QED BY <2>1, <3>1, Zenon
  <2>3. ~(nth(I, k) <= nth(I, j))
    BY <1>2, <1>6, <2>1, <2>2
  <2> QED BY <2>2, <2>3
<1>7. ASSUME NEW i \in I PROVE \E k \in 1 .. K : nth(I, k) = i
  <2>1. i \in 1 .. n /\ i \in 0 .. n /\ i - 1 \in 0 .. n /\ n \in 0 .. n
    OBVIOUS
  <2>2. count(i) \in 1 .. K
    <3>1. count(i) = count(i - 1) + 1 /\ count(i - 1) \in Nat
      BY <1>1, <2>1, Zenon
    <3>2. count(i) <= count(n)
      BY <1>2, <2>1
    <3> QED BY <1>1, <3>1, <3>2
  <2>3. nth(I, count(i)) \in I /\ count(nth(I, count(i))) = count(i)
    BY <1>5, <2>2
  <2>4. nth(I, count(i)) = i
    <3>1. nth(I, count(i)) \in 1 .. n
      BY <2>3
    <3> QED BY <1>1, <1>3, <2>1, <2>3, <3>1
  <2> QED BY <2>2, <2>4
<1> QED BY <1>5, <1>6, <1>7

-----------------------------------------------------------------------------
(***************************************************************************)
(* One connection: what a segment does to the instance it joins or opens.  *)
(***************************************************************************)

\* The part of ClosedExactly that concerns one connection.
ClosedOnBoth(c) ==
    c.state # "Reset" => (c.state = "Closed" <=> \A d \in Direction : c.fin[d])

\* account keeps what identifies an instance and never moves last_at back.
LEMMA AccountFields ==
    ASSUME NEW c \in Conn, NEW seg \in Segment, NEW dir \in Direction
    PROVE  LET a == account(c, seg, dir)
           IN  /\ a \in Conn
               /\ a.id = c.id /\ a.state = c.state /\ a.fin = c.fin
               /\ a.origin = c.origin /\ a.opened_at = c.opened_at
               /\ a.responder = c.responder /\ a.origin_inferred = c.origin_inferred
               /\ c.last_at <= a.last_at /\ a.last_at = later(c.last_at, seg.ts)
               /\ a.segments = c.segments + 1
<1>1. advance_baseline(c.base[dir], seg.seq) \in TcpSeq
  BY DEF advance_baseline, Conn, Segment, PerDirection
<1>2. later(c.last_at, seg.ts) \in Nat /\ c.last_at <= later(c.last_at, seg.ts)
  BY DEF later, Conn, Segment
<1>3. /\ [c.bytes EXCEPT ![dir] = @ + seg.payload_len] \in PerDirection(Nat)
      /\ [c.base EXCEPT ![dir] = advance_baseline(@, seg.seq)]
            \in PerDirection(TcpSeq \cup {None})
  BY <1>1 DEF Conn, Segment, PerDirection
<1> DEFINE bytes == [c.bytes EXCEPT ![dir] = @ + seg.payload_len]
           base  == [c.base EXCEPT ![dir] = advance_baseline(@, seg.seq)]
           at    == later(c.last_at, seg.ts)
           count == c.segments + 1
           a     == [c EXCEPT !.last_at = at, !.segments = count, !.bytes = bytes, !.base = base]
<1>4. account(c, seg, dir) = a
  BY DEF account
<1>5. /\ bytes \in PerDirection(Nat) /\ base \in PerDirection(TcpSeq \cup {None})
      /\ at \in Nat /\ c.last_at <= at /\ count \in Nat
  BY <1>2, <1>3 DEF Conn
<1> HIDE DEF bytes, base, at, count
<1>6. a \in Conn
  BY <1>5 DEF Conn
<1>7. /\ a.id = c.id /\ a.state = c.state /\ a.fin = c.fin
      /\ a.origin = c.origin /\ a.opened_at = c.opened_at
      /\ a.responder = c.responder /\ a.origin_inferred = c.origin_inferred
      /\ a.last_at = at /\ at = later(c.last_at, seg.ts)
      /\ a.segments = c.segments + 1
  BY DEF Conn, count, at
<1> QED BY <1>4, <1>5, <1>6, <1>7, Zenon

\* The handshake part of apply_state only moves forward and never to Closed.
LEMMA HandshakeStates ==
    ASSUME NEW s \in ConnState, NEW seg, NEW dir
    PROVE  LET h == apply_handshake(s, seg, dir)
           IN  /\ h \in ConnState
               /\ rank(s) <= rank(h)
               /\ h = "Closed" <=> s = "Closed"
               /\ h = "Reset" <=> s = "Reset"
BY SMTT(30) DEF apply_handshake, second_leg, advance_to, rank, ConnState

\* The FIN part of apply_state: Closed exactly with both FINs, and only forward.
LEMMA FinStates ==
    ASSUME NEW s \in ConnState, NEW fin, s # "Reset",
           s = "Closed" => \A d \in Direction : fin[d]
    PROVE  LET f == apply_fin(s, fin)
           IN  /\ f \in ConnState
               /\ rank(s) <= rank(f)
               /\ f # "Reset"
               /\ f = "Closed" <=> \A d \in Direction : fin[d]
<1>1. CASE \A d \in Direction : fin[d]
  BY <1>1 DEF apply_fin, advance_to, rank, ConnState
<1>2. CASE ~\A d \in Direction : fin[d]
  BY <1>2 DEF apply_fin, advance_to, rank, ConnState
<1> QED BY <1>1, <1>2

\* apply_state changes state and FIN flags only, forward and consistently.
LEMMA StateFields ==
    ASSUME NEW c \in Conn, NEW seg \in Segment, NEW dir \in Direction, ClosedOnBoth(c)
    PROVE  LET a == apply_state(c, seg, dir)
           IN  /\ a \in Conn /\ ClosedOnBoth(a)
               /\ rank(c.state) <= rank(a.state)
               /\ a.id = c.id /\ a.last_at = c.last_at /\ a.segments = c.segments
               /\ a.origin = c.origin /\ a.opened_at = c.opened_at
               /\ a.responder = c.responder /\ a.origin_inferred = c.origin_inferred
<1> DEFINE h   == apply_handshake(c.state, seg, dir)
           fin == [c.fin EXCEPT ![dir] = TRUE]
<1>0. c.state \in ConnState /\ c.fin \in PerDirection(BOOLEAN)
  BY DEF Conn
<1>1. CASE "RST" \in seg.flags
  <2>1. apply_state(c, seg, dir) = [c EXCEPT !.state = "Reset"]
    BY <1>1 DEF apply_state
  <2> QED BY <1>0, <2>1 DEF Conn, ConnState, ClosedOnBoth, rank
<1>2. CASE "RST" \notin seg.flags /\ c.state = "Reset"
  BY <1>0, <1>2 DEF apply_state, rank
<1>3. CASE "RST" \notin seg.flags /\ c.state # "Reset" /\ "FIN" \notin seg.flags
  <2>1. apply_state(c, seg, dir) = [c EXCEPT !.state = h]
    BY <1>3 DEF apply_state
  <2>2. /\ h \in ConnState /\ rank(c.state) <= rank(h)
        /\ h = "Closed" <=> c.state = "Closed"
        /\ h # "Reset"
    BY <1>0, <1>3, HandshakeStates
  <2> HIDE DEF h
  <2> QED BY <1>3, <2>1, <2>2 DEF Conn, ClosedOnBoth
<1>4. CASE "RST" \notin seg.flags /\ c.state # "Reset" /\ "FIN" \in seg.flags
  <2>1. apply_state(c, seg, dir) = [c EXCEPT !.fin = fin, !.state = apply_fin(h, fin)]
    BY <1>4 DEF apply_state
  <2>2. /\ h \in ConnState /\ rank(c.state) <= rank(h)
        /\ h = "Closed" <=> c.state = "Closed"
        /\ h # "Reset"
    BY <1>0, <1>4, HandshakeStates
  <2>3. fin \in PerDirection(BOOLEAN)
    BY <1>0 DEF PerDirection
  <2>4. h = "Closed" => \A d \in Direction : fin[d]
    BY <1>0, <1>4, <2>2 DEF ClosedOnBoth, PerDirection
  <2> HIDE DEF h, fin
  <2>5. /\ apply_fin(h, fin) \in ConnState /\ rank(h) <= rank(apply_fin(h, fin))
        /\ apply_fin(h, fin) = "Closed" <=> \A d \in Direction : fin[d]
    BY <2>2, <2>4, FinStates
  <2>6. rank(c.state) <= rank(apply_fin(h, fin))
    BY <1>0, <2>2, <2>5 DEF rank, ConnState
  <2> QED BY <2>1, <2>3, <2>5, <2>6, ZenonT(40) DEF Conn, ClosedOnBoth
<1> QED BY <1>1, <1>2, <1>3, <1>4

\* A segment that joins an instance: account, then apply_state.
LEMMA JoinedFields ==
    ASSUME NEW c \in Conn, NEW seg \in Segment, ClosedOnBoth(c)
    PROVE  LET a == joined(c, seg)
           IN  /\ a \in Conn /\ ClosedOnBoth(a)
               /\ rank(c.state) <= rank(a.state)
               /\ a.id = c.id /\ a.segments = c.segments + 1
               /\ c.last_at <= a.last_at /\ a.last_at = later(c.last_at, seg.ts)
               /\ a.origin = c.origin /\ a.opened_at = c.opened_at
               /\ a.responder = c.responder /\ a.origin_inferred = c.origin_inferred
<1> DEFINE dir == direction_of(c, seg.src)
           b   == account(c, seg, dir)
<1>1. dir \in Direction
  BY DEF direction_of, Direction
<1>2. joined(c, seg) = apply_state(b, seg, dir)
  BY DEF joined
<1> HIDE DEF dir
<1>3. /\ b \in Conn /\ b.id = c.id /\ b.state = c.state /\ b.fin = c.fin
      /\ b.origin = c.origin /\ b.opened_at = c.opened_at /\ c.last_at <= b.last_at
      /\ b.segments = c.segments + 1 /\ b.last_at = later(c.last_at, seg.ts)
      /\ b.responder = c.responder /\ b.origin_inferred = c.origin_inferred
  BY <1>1, AccountFields
<1>4. ClosedOnBoth(b)
  BY <1>3 DEF ClosedOnBoth
<1> HIDE DEF b
<1> QED BY <1>1, <1>2, <1>3, <1>4, StateFields

\* The instance that create_instance opens is well-formed.
LEMMA OpenedFields ==
    ASSUME NEW id \in ConnId, NEW seg \in Segment
    PROVE  LET a == open_instance(id, seg)
           IN  /\ a \in Conn /\ a.id = id /\ ClosedOnBoth(a)
               /\ a.segments = 1 /\ a.last_at = seg.ts /\ a.opened_at = seg.ts
<1> DEFINE from_server == is_syn_ack(seg.flags)
           fresh == [id              |-> id,
                     state           |-> initial_state(seg.flags),
                     origin          |-> IF from_server THEN seg.dst ELSE seg.src,
                     responder       |-> IF from_server THEN seg.src ELSE seg.dst,
                     origin_inferred |-> "SYN" \notin seg.flags,
                     opened_at       |-> seg.ts,
                     last_at         |-> seg.ts,
                     bytes           |-> [d \in Direction |-> 0],
                     segments        |-> 0,
                     fin             |-> [d \in Direction |-> FALSE],
                     base            |-> [d \in Direction |-> None]]
           dir   == direction_of(fresh, seg.src)
           first == account(fresh, seg, dir)
<1>1. dir \in Direction
  BY DEF direction_of, Direction
<1>2. initial_state(seg.flags) \in ConnState /\ initial_state(seg.flags) # "Closed"
  BY DEF initial_state, ConnState
<1>3. /\ [d \in Direction |-> 0] \in PerDirection(Nat)
      /\ [d \in Direction |-> FALSE] \in PerDirection(BOOLEAN)
      /\ [d \in Direction |-> None] \in PerDirection(TcpSeq \cup {None})
  BY DEF PerDirection
<1>4. /\ (IF from_server THEN seg.dst ELSE seg.src) \in Endpoint
      /\ (IF from_server THEN seg.src ELSE seg.dst) \in Endpoint
      /\ seg.ts \in Nat
  BY DEF Segment
<1>5. fresh \in Conn
  BY <1>2, <1>3, <1>4 DEF Conn
<1>6. /\ fresh.id = id /\ fresh.state = initial_state(seg.flags)
      /\ fresh.fin = [d \in Direction |-> FALSE] /\ fresh.segments = 0
      /\ fresh.last_at = seg.ts /\ fresh.opened_at = seg.ts
  OBVIOUS
<1>7. open_instance(id, seg) =
        IF "FIN" \in seg.flags THEN [first EXCEPT !.fin[dir] = TRUE] ELSE first
  BY DEF open_instance
<1> HIDE DEF fresh, dir
<1>8. /\ first \in Conn /\ first.id = id
      /\ first.state = initial_state(seg.flags)
      /\ first.fin = [d \in Direction |-> FALSE] /\ first.segments = 1
      /\ first.last_at = seg.ts /\ first.opened_at = seg.ts
  BY <1>1, <1>4, <1>5, <1>6, AccountFields DEF later
<1> HIDE DEF first
<1>9. CASE "FIN" \notin seg.flags
  BY <1>2, <1>7, <1>8, <1>9 DEF ClosedOnBoth, Direction
<1>10. CASE "FIN" \in seg.flags
  <2> DEFINE fin == [first.fin EXCEPT ![dir] = TRUE]
  <2>1. open_instance(id, seg) = [first EXCEPT !.fin = fin]
    BY <1>7, <1>10
  <2>2. fin \in PerDirection(BOOLEAN)
    BY <1>8 DEF PerDirection
  <2>3. \E d \in Direction : ~fin[d]
    BY <1>1, <1>8 DEF Direction
  <2> HIDE DEF fin
  <2> QED BY <1>2, <1>8, <2>1, <2>2, <2>3 DEF Conn, ClosedOnBoth
<1> QED BY <1>9, <1>10

-----------------------------------------------------------------------------
(***************************************************************************)
(* The inductive invariant of the tracked connections.                     *)
(***************************************************************************)
ConnTypes ==
    /\ conns \in Seq(Conn)
    /\ live \in [EndpointPair -> 0 .. Len(conns)]
    /\ next_instance \in [EndpointPair -> Nat]

LifecycleInv ==
    /\ ConnTypes
    /\ InstancesOrdered
    /\ LiveIsNewest
    /\ ClosedExactly

\* The four parts of the invariant, one index at a time.
LEMMA ByIndex ==
    ASSUME ConnTypes
    PROVE  /\ \A i \in 1 .. Len(conns) : /\ conns[i] \in Conn
                                          /\ conns[i].id.pair \in EndpointPair
                                          /\ conns[i].id.instance \in Nat
           /\ DOMAIN conns = 1 .. Len(conns) /\ Len(conns) \in Nat
           /\ ClosedExactly <=> \A i \in 1 .. Len(conns) : ClosedOnBoth(conns[i])
<1>1. DOMAIN conns = 1 .. Len(conns) /\ Len(conns) \in Nat
  BY DEF ConnTypes
<1>2. \A i \in 1 .. Len(conns) : conns[i] \in Conn
  BY DEF ConnTypes
<1>3. \A c \in Conn : c.id.pair \in EndpointPair /\ c.id.instance \in Nat
  BY DEF Conn, ConnId
<1>4. ClosedExactly <=> \A i \in 1 .. Len(conns) : ClosedOnBoth(conns[i])
  BY <1>1 DEF ClosedExactly, ClosedOnBoth
<1> QED BY <1>1, <1>2, <1>3, <1>4

\* The empty tracker satisfies the lifecycle invariant.
LEMMA InitLifecycle == Init => LifecycleInv
<1> SUFFICES ASSUME Init PROVE LifecycleInv
  OBVIOUS
<1>1. conns = <<>> /\ Len(conns) = 0 /\ DOMAIN conns = {}
  BY DEF Init
<1>2. ConnTypes
  BY <1>1 DEF Init, ConnTypes
<1>3. LiveIsNewest
  BY <1>1 DEF Init, LiveIsNewest, indices_of
<1>4. InstancesOrdered /\ ClosedExactly
  BY <1>1 DEF InstancesOrdered, ClosedExactly
<1> QED BY <1>2, <1>3, <1>4 DEF LifecycleInv

\* A segment that joins the live instance of its pair keeps the invariant.
LEMMA JoinKeepsLifecycle ==
    ASSUME LifecycleInv, NEW seg \in Segment, NEW t, joins(seg), JoinInstance(seg, t)
    PROVE  LifecycleInv'
<1> DEFINE p == pair_of(seg)
           i == live[p]
           c == joined(conns[i], seg)
<1>1. p \in EndpointPair
  BY DEF pair_of, EndpointPair, Segment
<1>2. i \in 1 .. Len(conns) /\ conns[i] \in Conn /\ ClosedOnBoth(conns[i])
  BY <1>1, ByIndex DEF LifecycleInv, ConnTypes, joins
<1>3. c \in Conn /\ c.id = conns[i].id /\ ClosedOnBoth(c)
  BY <1>2, JoinedFields
<1>4. conns' = [conns EXCEPT ![i] = c] /\ live' = live /\ next_instance' = next_instance
  BY DEF JoinInstance
<1> HIDE DEF c, i
<1>5. /\ conns' \in Seq(Conn) /\ Len(conns') = Len(conns) /\ DOMAIN conns' = DOMAIN conns
      /\ DOMAIN conns = 1 .. Len(conns)
      /\ \A k \in DOMAIN conns : conns'[k].id = conns[k].id
      /\ \A k \in DOMAIN conns : ClosedOnBoth(conns'[k])
  BY <1>2, <1>3, <1>4, ByIndex DEF LifecycleInv, ConnTypes
<1>6. ConnTypes'
  BY <1>4, <1>5 DEF LifecycleInv, ConnTypes
<1>7. InstancesOrdered'
  BY <1>4, <1>5 DEF LifecycleInv, InstancesOrdered
<1>8. \A q : indices_of(conns', q) = indices_of(conns, q)
  BY <1>5 DEF indices_of
<1>9. LiveIsNewest'
  BY <1>4, <1>8 DEF LifecycleInv, LiveIsNewest
<1>10. ClosedExactly'
  BY <1>5 DEF ClosedExactly, ClosedOnBoth
<1> QED BY <1>6, <1>7, <1>9, <1>10 DEF LifecycleInv

\* A segment that opens the next instance of its pair keeps the invariant.
LEMMA CreateKeepsLifecycle ==
    ASSUME LifecycleInv, NEW seg \in Segment, NEW t, CreateInstance(seg, t)
    PROVE  LifecycleInv'
<1> DEFINE p  == pair_of(seg)
           id == [pair |-> p, instance |-> next_instance[p]]
           c  == open_instance(id, seg)
           n  == Len(conns)
<1>1. p \in EndpointPair
  BY DEF pair_of, EndpointPair, Segment
<1>2. id \in ConnId /\ id.pair = p /\ id.instance = next_instance[p]
  BY <1>1 DEF ConnId, LifecycleInv, ConnTypes
<1>3. /\ conns' = Append(conns, c)
      /\ live' = [live EXCEPT ![p] = n + 1]
      /\ next_instance' = [next_instance EXCEPT ![p] = @ + 1]
  BY DEF CreateInstance
<1> HIDE DEF id, p
<1>4. c \in Conn /\ c.id = id /\ ClosedOnBoth(c)
  BY <1>2, OpenedFields
<1> HIDE DEF c
<1>5. /\ conns \in Seq(Conn) /\ n \in Nat /\ DOMAIN conns = 1 .. n
      /\ conns' \in Seq(Conn) /\ Len(conns') = n + 1 /\ DOMAIN conns' = 1 .. n + 1
      /\ \A k \in 1 .. n : conns'[k] = conns[k]
      /\ conns'[n + 1] = c
  BY <1>3, <1>4 DEF LifecycleInv, ConnTypes
<1>6. ConnTypes'
  BY <1>1, <1>3, <1>5 DEF LifecycleInv, ConnTypes
<1>7. InstancesOrdered'
  <2>1. /\ \A k \in 1 .. n : conns[k] \in Conn /\ conns[k].id.pair \in EndpointPair
                             /\ conns[k].id.instance \in Nat
        /\ \A q \in EndpointPair : next_instance[q] \in Nat
    BY ByIndex DEF LifecycleInv, ConnTypes
  <2>2. \A q \in EndpointPair : next_instance'[q] = IF q = p THEN next_instance[p] + 1
                                                     ELSE next_instance[q]
    BY <1>1, <1>3 DEF LifecycleInv, ConnTypes
  <2>3. \A k \in 1 .. n : conns[k].id.instance < next_instance[conns[k].id.pair]
    BY <1>5 DEF LifecycleInv, InstancesOrdered
  <2>4. ASSUME NEW k \in DOMAIN conns' PROVE conns'[k].id.instance < next_instance'[conns'[k].id.pair]
    BY <1>1, <1>2, <1>4, <1>5, <2>1, <2>2, <2>3
  <2>5. ASSUME NEW k \in DOMAIN conns', NEW j \in DOMAIN conns', k < j,
               conns'[k].id.pair = conns'[j].id.pair
        PROVE  conns'[k].id.instance < conns'[j].id.instance
    <3>1. CASE j = n + 1
      BY <1>2, <1>4, <1>5, <2>3, <2>5, <3>1
    <3>2. CASE j \in 1 .. n
      BY <1>5, <2>5, <3>2 DEF LifecycleInv, InstancesOrdered
    <3> QED BY <1>5, <3>1, <3>2
  <2> QED BY <2>4, <2>5 DEF InstancesOrdered
<1>8. LiveIsNewest'
  <2>1. \A q : indices_of(conns', q) = IF q = p THEN indices_of(conns, q) \cup {n + 1}
                                       ELSE indices_of(conns, q)
    BY <1>2, <1>4, <1>5 DEF indices_of
  <2>2. \A q \in EndpointPair : live'[q] = IF q = p THEN n + 1 ELSE live[q]
    BY <1>1, <1>3 DEF LifecycleInv, ConnTypes
  <2>3. \A q : indices_of(conns, q) \subseteq 1 .. n
    BY <1>5 DEF indices_of
  <2> SUFFICES ASSUME NEW q \in EndpointPair
               PROVE  IF indices_of(conns', q) = {} THEN live'[q] = 0
                      ELSE /\ live'[q] \in indices_of(conns', q)
                           /\ \A i \in indices_of(conns', q) : i <= live'[q]
    BY DEF LiveIsNewest
  <2>4. CASE q = p
    <3>1. indices_of(conns', q) = indices_of(conns, q) \cup {n + 1} /\ live'[q] = n + 1
      BY <2>1, <2>2, <2>4
    <3>2. \A i \in indices_of(conns, q) : i <= n + 1
      BY <1>5, <2>3
    <3> QED BY <1>5, <3>1, <3>2
  <2>5. CASE q # p
    BY <2>1, <2>2, <2>5 DEF LifecycleInv, LiveIsNewest
  <2> QED BY <2>4, <2>5
<1>9. ClosedExactly'
  <2>1. \A k \in 1 .. n : ClosedOnBoth(conns[k])
    BY ByIndex DEF LifecycleInv
  <2> QED BY <1>4, <1>5, <2>1 DEF ClosedExactly, ClosedOnBoth
<1> QED BY <1>6, <1>7, <1>8, <1>9 DEF LifecycleInv

\* evict_dead_connections keeps the connections at the indices I.
Compacts(I) ==
    /\ conns' = retain(conns, I)
    /\ live' = rebuilt(conns')
    /\ next_instance' = pruned(conns')

\* A tick leaves the connections alone, or keeps those at some set of indices.
LEMMA TickCompacts ==
    ASSUME NEW t, ObserveTick(t)
    PROVE  \/ UNCHANGED <<conns, live, next_instance>>
           \/ \E I \in SUBSET DOMAIN conns : Compacts(I)
<1> DEFINE I == survivors(later(now, t))
<1>1. I \in SUBSET DOMAIN conns
  BY DEF survivors
<1>2. CASE I = DOMAIN conns
  BY <1>2 DEF ObserveTick, EvictDeadConnections
<1>3. CASE I # DOMAIN conns
  <2>1. Compacts(I)
    BY <1>3 DEF ObserveTick, EvictDeadConnections, Compacts
  <2> QED BY <1>1, <2>1
<1> QED BY <1>2, <1>3

\* The connection at index k afterwards was at index nth(I, k) before.
LEMMA Compacted ==
    ASSUME ConnTypes, NEW I \in SUBSET DOMAIN conns, Compacts(I)
    PROVE  /\ Cardinality(I) \in Nat
           /\ conns' \in Seq(Conn) /\ Len(conns') = Cardinality(I)
           /\ DOMAIN conns' = 1 .. Cardinality(I)
           /\ \A k \in DOMAIN conns' : nth(I, k) \in DOMAIN conns /\ conns'[k] = conns[nth(I, k)]
           /\ \A j \in DOMAIN conns', k \in DOMAIN conns' : j < k => nth(I, j) < nth(I, k)
<1>1. I \subseteq 1 .. Len(conns) /\ Len(conns) \in Nat /\ DOMAIN conns = 1 .. Len(conns)
  BY ByIndex
<1>2. /\ Cardinality(I) \in Nat
      /\ \A k \in 1 .. Cardinality(I) : nth(I, k) \in I
      /\ \A j \in 1 .. Cardinality(I), k \in 1 .. Cardinality(I) :
            j < k => nth(I, j) < nth(I, k)
  BY <1>1, CountUpto, NthEnumerates
<1>3. conns' = [k \in 1 .. Cardinality(I) |-> conns[nth(I, k)]]
  BY DEF Compacts, retain
<1>4. \A k \in 1 .. Cardinality(I) : conns[nth(I, k)] \in Conn
  BY <1>1, <1>2, ByIndex
<1>5. conns' \in Seq(Conn) /\ Len(conns') = Cardinality(I) /\ DOMAIN conns' = 1 .. Cardinality(I)
  BY <1>2, <1>3, <1>4
<1> QED BY <1>1, <1>2, <1>3, <1>5

\* Removing dead connections and rebuilding live and next_instance keeps the invariant.
LEMMA CompactKeepsLifecycle ==
    ASSUME LifecycleInv, NEW I \in SUBSET DOMAIN conns, Compacts(I)
    PROVE  LifecycleInv'
<1> DEFINE n == Cardinality(I)
<1>1. /\ n \in Nat /\ conns' \in Seq(Conn) /\ Len(conns') = n /\ DOMAIN conns' = 1 .. n
      /\ \A k \in 1 .. n : nth(I, k) \in DOMAIN conns /\ conns'[k] = conns[nth(I, k)]
      /\ \A j \in 1 .. n, k \in 1 .. n : j < k => nth(I, j) < nth(I, k)
  BY Compacted DEF LifecycleInv
<1> HIDE DEF n
<1>2. \A k \in 1 .. n : conns'[k].id.pair \in EndpointPair
  BY <1>1, ByIndex DEF LifecycleInv
<1>3. \A p : /\ indices_of(conns', p) \subseteq 1 .. n
             /\ indices_of(conns', p) # {} =>
                   /\ Max(indices_of(conns', p)) \in indices_of(conns', p)
                   /\ \A i \in indices_of(conns', p) : i <= Max(indices_of(conns', p))
  <2> TAKE p
  <2>1. indices_of(conns', p) \subseteq 1 .. n
    BY <1>1 DEF indices_of
  <2> QED BY <1>1, <2>1, GreatestIndex
<1>4. \A p \in EndpointPair :
         /\ live'[p] = IF indices_of(conns', p) = {} THEN 0 ELSE Max(indices_of(conns', p))
         /\ next_instance'[p] = IF indices_of(conns', p) = {} THEN 0 ELSE next_instance[p]
  BY DEF Compacts, rebuilt, pruned
<1>5. ConnTypes'
  <2>1. ASSUME NEW p \in EndpointPair PROVE live'[p] \in 0 .. n /\ next_instance'[p] \in Nat
    <3>1. next_instance[p] \in Nat
      BY DEF LifecycleInv, ConnTypes
    <3>2. CASE indices_of(conns', p) = {}
      BY <1>1, <1>4, <3>2
    <3>3. CASE indices_of(conns', p) # {}
      <4>1. Max(indices_of(conns', p)) \in 1 .. n
        BY <1>3, <3>3
      <4>2. live'[p] = Max(indices_of(conns', p)) /\ next_instance'[p] = next_instance[p]
        BY <1>4, <3>3
      <4> QED BY <1>1, <3>1, <4>1, <4>2
    <3> QED BY <3>2, <3>3
  <2>2. live' \in [EndpointPair -> 0 .. n] /\ next_instance' \in [EndpointPair -> Nat]
    BY <2>1 DEF Compacts, rebuilt, pruned
  <2> QED BY <1>1, <2>2 DEF ConnTypes
<1>6. LiveIsNewest'
  BY <1>3, <1>4 DEF LiveIsNewest
<1>7. InstancesOrdered'
  <2>1. ASSUME NEW k \in 1 .. n
        PROVE  conns'[k].id.instance < next_instance'[conns'[k].id.pair]
    <3>1. indices_of(conns', conns'[k].id.pair) # {}
      BY <1>1 DEF indices_of
    <3> QED BY <1>1, <1>2, <1>4, <3>1 DEF LifecycleInv, InstancesOrdered
  <2>2. ASSUME NEW k \in 1 .. n, NEW j \in 1 .. n, k < j,
               conns'[k].id.pair = conns'[j].id.pair
        PROVE  conns'[k].id.instance < conns'[j].id.instance
    BY <1>1, <2>2 DEF LifecycleInv, InstancesOrdered
  <2> QED BY <1>1, <2>1, <2>2 DEF InstancesOrdered
<1>8. ClosedExactly'
  <2>1. \A i \in DOMAIN conns : ClosedOnBoth(conns[i])
    BY ByIndex DEF LifecycleInv
  <2> QED BY <1>1, <2>1 DEF ClosedExactly, ClosedOnBoth
<1> QED BY <1>5, <1>6, <1>7, <1>8 DEF LifecycleInv

\* What the capture delivers is a segment.
LEMMA CapturedSegment ==
    ASSUME NEW g \in Segments, NEW t \in Time
    PROVE  g @@ [ts |-> t] \in Segment
BY TrackerAssumption DEF Time

(***************************************************************************)
(* The inductive invariant holds of every reachable state of the tracker,  *)
(* under both retention policies and with timestamps in any order.         *)
(***************************************************************************)
THEOREM LifecycleInvariant == Spec => []LifecycleInv
<1>1. ASSUME LifecycleInv, [Next]_vars PROVE LifecycleInv'
  <2>1. ASSUME NEW g \in Segments, NEW t \in Time, ObserveJoin(g @@ [ts |-> t])
        PROVE  LifecycleInv'
    <3>1. PICK seg \in Segment : ObserveJoin(seg)
      BY <2>1, CapturedSegment
    <3>2. PICK at : JoinInstance(seg, at) /\ joins(seg)
      BY <3>1 DEF ObserveJoin
    <3> QED BY <1>1, <3>2, JoinKeepsLifecycle
  <2>2. ASSUME NEW g \in Segments, NEW t \in Time, ObserveCreate(g @@ [ts |-> t])
        PROVE  LifecycleInv'
    <3>1. PICK seg \in Segment : ObserveCreate(seg)
      BY <2>2, CapturedSegment
    <3>2. PICK at : CreateInstance(seg, at)
      BY <3>1 DEF ObserveCreate
    <3> QED BY <1>1, <3>2, CreateKeepsLifecycle
  <2>3. ASSUME NEW t \in Time, ObserveTick(t) PROVE LifecycleInv'
    <3>1. CASE UNCHANGED <<conns, live, next_instance>>
      BY <1>1, <3>1 DEF LifecycleInv, ConnTypes, InstancesOrdered, LiveIsNewest, indices_of,
                        ClosedExactly
    <3>2. CASE \E I \in SUBSET DOMAIN conns : Compacts(I)
      BY <1>1, <3>2, CompactKeepsLifecycle
    <3> QED BY <2>3, <3>1, <3>2, TickCompacts
  <2>4. CASE UNCHANGED vars
    BY <1>1, <2>4 DEF vars, LifecycleInv, ConnTypes, InstancesOrdered, LiveIsNewest, indices_of,
                      ClosedExactly
  <2> QED BY <1>1, <2>1, <2>2, <2>3, <2>4 DEF Next
<1> QED BY <1>1, InitLifecycle, PTL DEF Spec

(***************************************************************************)
(* No two tracked connections ever share a ConnId, and next_instance is    *)
(* ahead of every instance of its pair, however evict_dead_connections     *)
(* compacts the vector and prunes the numbering.                           *)
(***************************************************************************)
THEOREM InstancesStayOrdered == Spec => []InstancesOrdered
BY LifecycleInvariant, PTL DEF LifecycleInv

(***************************************************************************)
(* live always indexes the newest instance of a pair, so a segment is      *)
(* joined to it and to no other, also right after a compaction.            *)
(***************************************************************************)
THEOREM LiveStaysNewest == Spec => []LiveIsNewest
BY LifecycleInvariant, PTL DEF LifecycleInv

(***************************************************************************)
(* A connection that was not reset is Closed exactly when a FIN was seen   *)
(* in both directions.                                                     *)
(***************************************************************************)
THEOREM ClosedIsExact == Spec => []ClosedExactly
BY LifecycleInvariant, PTL DEF LifecycleInv

(***************************************************************************)
(* Under every order of segments, timestamps and ticks a tracked           *)
(* connection only moves forward along the lifecycle and keeps its origin  *)
(* and opening time.  InstancesOrdered makes the id identify it.           *)
(***************************************************************************)
THEOREM LifecycleIsMonotone == Spec => LifecycleMonotone
<1> DEFINE Forward(c, d) == /\ rank(c.state) <= rank(d.state)
                            /\ c.origin = d.origin
                            /\ c.opened_at = d.opened_at
                            /\ c.last_at <= d.last_at
           Step == \A i \in DOMAIN conns, j \in DOMAIN conns' :
                       conns[i].id = conns'[j].id => Forward(conns[i], conns'[j])
<1>1. ASSUME NEW c \in Conn PROVE Forward(c, c)
  BY DEF Conn, ConnState, rank
<1>2. ASSUME LifecycleInv, NEW i \in DOMAIN conns, NEW j \in DOMAIN conns,
             conns[i].id = conns[j].id
      PROVE  i = j
  BY <1>2, ByIndex DEF LifecycleInv, InstancesOrdered
<1>3. ASSUME LifecycleInv, [Next]_vars PROVE [Step]_vars
  <2> HIDE DEF Forward
  <2>0. /\ DOMAIN conns = 1 .. Len(conns) /\ Len(conns) \in Nat
        /\ \A i \in DOMAIN conns : conns[i] \in Conn /\ conns[i].id.pair \in EndpointPair
        /\ \A i \in DOMAIN conns : ClosedOnBoth(conns[i])
    BY <1>3, ByIndex DEF LifecycleInv
  <2>1. ASSUME NEW g \in Segments, NEW t \in Time, ObserveJoin(g @@ [ts |-> t])
        PROVE  Step
    <3>1. PICK seg \in Segment : ObserveJoin(seg)
      BY <2>1, CapturedSegment
    <3> DEFINE k == live[pair_of(seg)]
               c == joined(conns[k], seg)
    <3>2. conns' = [conns EXCEPT ![k] = c] /\ joins(seg)
      BY <3>1 DEF ObserveJoin, JoinInstance
    <3>3. k \in DOMAIN conns
      <4>1. pair_of(seg) \in EndpointPair
        BY DEF pair_of, EndpointPair, Segment
      <4> QED BY <1>3, <2>0, <3>2, <4>1 DEF joins, LifecycleInv, ConnTypes
    <3>4. Forward(conns[k], c) /\ c.id = conns[k].id
      BY <2>0, <3>3, JoinedFields DEF Forward
    <3> HIDE DEF c, k
    <3>5. ASSUME NEW i \in DOMAIN conns, NEW j \in DOMAIN conns', conns[i].id = conns'[j].id
          PROVE  Forward(conns[i], conns'[j])
      <4>1. j \in DOMAIN conns /\ conns'[j].id = conns[j].id
        BY <3>2, <3>3, <3>4
      <4>2. i = j
        BY <1>2, <1>3, <3>5, <4>1
      <4> QED BY <1>1, <2>0, <3>2, <3>3, <3>4, <4>1, <4>2
    <3> QED BY <3>5
  <2>2. ASSUME NEW g \in Segments, NEW t \in Time, ObserveCreate(g @@ [ts |-> t])
        PROVE  Step
    <3>1. PICK seg \in Segment : ObserveCreate(seg)
      BY <2>2, CapturedSegment
    <3> DEFINE p  == pair_of(seg)
               id == [pair |-> p, instance |-> next_instance[p]]
               c  == open_instance(id, seg)
    <3>2. conns' = Append(conns, c)
      BY <3>1 DEF ObserveCreate, CreateInstance
    <3>3. id \in ConnId
      <4>1. p \in EndpointPair
        BY DEF pair_of, EndpointPair, Segment
      <4> QED BY <1>3, <4>1 DEF LifecycleInv, ConnTypes, ConnId
    <3>4. c.id = id /\ c \in Conn
      BY <3>3, OpenedFields
    <3>5. id.instance = next_instance[id.pair]
      OBVIOUS
    <3> HIDE DEF c, id
    <3>6. ASSUME NEW i \in DOMAIN conns, NEW j \in DOMAIN conns', conns[i].id = conns'[j].id
          PROVE  Forward(conns[i], conns'[j])
      <4>1. conns[i].id # id
        <5>1. conns[i].id.instance < next_instance[conns[i].id.pair]
          BY <1>3 DEF LifecycleInv, InstancesOrdered
        <5> QED BY <1>3, <2>0, <3>3, <3>5, <5>1 DEF ConnId, LifecycleInv, ConnTypes
      <4>2. j \in DOMAIN conns /\ conns'[j] = conns[j]
        BY <1>3, <2>0, <3>2, <3>4, <3>6, <4>1 DEF LifecycleInv, ConnTypes
      <4>3. i = j
        BY <1>2, <1>3, <3>6, <4>2
      <4> QED BY <1>1, <2>0, <4>2, <4>3
    <3> QED BY <3>6
  <2>3. ASSUME NEW t \in Time, ObserveTick(t) PROVE Step
    <3>1. CASE UNCHANGED <<conns, live, next_instance>>
      BY <1>1, <1>2, <1>3, <2>0, <3>1
    <3>2. ASSUME NEW I \in SUBSET DOMAIN conns, Compacts(I) PROVE Step
      <4>1. \A k \in DOMAIN conns' : nth(I, k) \in DOMAIN conns /\ conns'[k] = conns[nth(I, k)]
        BY <1>3, <3>2, Compacted DEF LifecycleInv
      <4> QED BY <1>1, <1>2, <1>3, <2>0, <4>1
    <3> QED BY <2>3, <3>1, <3>2, TickCompacts
  <2>4. CASE UNCHANGED vars
    BY <2>4
  <2> QED BY <1>3, <2>1, <2>2, <2>3, <2>4 DEF Next
<1> QED BY <1>3, LifecycleInvariant, PTL DEF Spec, LifecycleMonotone

-----------------------------------------------------------------------------
(***************************************************************************)
(* Attribution of segments.                                                *)
(***************************************************************************)
attributed(cs) == MapThenSumSet(LAMBDA i : cs[i].segments, DOMAIN cs)

shares(cs, n) == [i \in 1 .. n |-> cs[i].segments]

LEMMA AttributedTotal ==
    ASSUME NEW n \in Nat, NEW cs \in Seq(Conn), Len(cs) = n
    PROVE  TotalIs(attributed(cs), shares(cs, n), 1 .. n)
<1> DEFINE F == shares(cs, n)
           c(s) == CHOOSE x \in s : TRUE
           Rec(it) == it = [s \in SUBSET (1 .. n) |->
                               IF s = {} THEN 0 ELSE cs[c(s)].segments + it[s \ {c(s)}]]
           it == CHOOSE g : Rec(g)
<1>1. attributed(cs) = it[1 .. n]
  <2>1. DOMAIN cs = 1 .. n
    OBVIOUS
  <2> QED BY <2>1, Zenon DEF attributed, MapThenSumSet, MapThenFoldSet
<1>2. F \in [1 .. n -> Nat]
  <2>1. \A d \in Conn : d.segments \in Nat
    BY DEF Conn
  <2>2. \A i \in 1 .. n : cs[i] \in Conn
    OBVIOUS
  <2>3. \A i \in 1 .. n : cs[i].segments \in Nat
    BY <2>1, <2>2
  <2> QED BY <2>3 DEF shares
<1>3. \A g : Rec(g) <=> Follows(g, F, 1 .. n)
  <2> SUFFICES ASSUME NEW g PROVE Rec(g) <=> Follows(g, F, 1 .. n)
    OBVIOUS
  <2>1. \A s \in SUBSET (1 .. n) : s # {} => c(s) \in 1 .. n
    OBVIOUS
  <2>2. \A s \in SUBSET (1 .. n) : s # {} => cs[c(s)].segments = F[c(s)]
    BY <2>1 DEF shares
  <2>3. [s \in SUBSET (1 .. n) |-> IF s = {} THEN 0 ELSE cs[c(s)].segments + g[s \ {c(s)}]]
      = [s \in SUBSET (1 .. n) |-> IF s = {} THEN 0 ELSE F[c(s)] + g[s \ {c(s)}]]
    <3> HIDE DEF F, c
    <3> QED BY <2>2
  <2> QED BY <2>3 DEF Follows
<1>4. /\ \E g : Follows(g, F, 1 .. n)
      /\ \A g : Follows(g, F, 1 .. n) => TotalIs(g[1 .. n], F, 1 .. n)
  <2> HIDE DEF F
  <2> QED BY <1>2, IndicesFinite, TotalChosen
<1>5. Follows(it, F, 1 .. n)
  <2> HIDE DEF Rec, F
  <2>1. \E g : Rec(g)
    BY <1>3, <1>4
  <2>2. Rec(it)
    BY <2>1
  <2> QED BY <1>3, <2>2
<1> HIDE DEF it, F
<1>6. TotalIs(it[1 .. n], F, 1 .. n)
  BY <1>4, <1>5
<1> QED BY <1>1, <1>6 DEF F

\* A join adds one to one share, a creation adds a share of one.
LEMMA JoinAttributes ==
    ASSUME LifecycleInv, NEW seg \in Segment, NEW t, joins(seg), JoinInstance(seg, t)
    PROVE  attributed(conns') = attributed(conns) + 1
<1>1. PICK cs \in Seq(Conn), n \in Nat : cs = conns /\ n = Len(cs)
  BY DEF LifecycleInv, ConnTypes
<1>2. PICK i \in 1 .. n, c \in Conn :
         conns' = [cs EXCEPT ![i] = c] /\ c.segments = cs[i].segments + 1
  <2>1. pair_of(seg) \in EndpointPair
    BY DEF pair_of, EndpointPair, Segment
  <2>2. live[pair_of(seg)] \in 1 .. n /\ ClosedOnBoth(conns[live[pair_of(seg)]])
        /\ conns[live[pair_of(seg)]] \in Conn
    BY <1>1, <2>1, ByIndex DEF LifecycleInv, ConnTypes, joins
  <2>3. PICK i \in 1 .. n : i = live[pair_of(seg)]
    BY <2>2
  <2>4. PICK c : c = joined(cs[i], seg)
    OBVIOUS
  <2>5. c \in Conn /\ c.segments = cs[i].segments + 1
    BY <1>1, <2>2, <2>3, <2>4, JoinedFields
  <2>6. conns' = [cs EXCEPT ![i] = c]
    BY <1>1, <2>3, <2>4 DEF JoinInstance
  <2> QED BY <2>5, <2>6
<1>3. PICK ds : ds = [cs EXCEPT ![i] = c]
  OBVIOUS
<1>4. /\ ds \in Seq(Conn) /\ Len(ds) = n /\ ds[i] = c
      /\ \A j \in 1 .. n : j # i => ds[j] = cs[j]
  BY <1>1, <1>2, <1>3
<1>5. TotalIs(attributed(cs), shares(cs, n), 1 .. n) /\ TotalIs(attributed(ds), shares(ds, n), 1 .. n)
  BY <1>1, <1>4, AttributedTotal
<1>6. /\ shares(cs, n)[i] = cs[i].segments /\ shares(ds, n)[i] = cs[i].segments + 1
      /\ \A j \in 1 .. n : j # i => shares(ds, n)[j] = shares(cs, n)[j]
  BY <1>2, <1>4 DEF shares
<1>7. PICK k \in Nat : k = cs[i].segments
  <2>1. cs[i] \in Conn
    BY <1>1
  <2>2. cs[i].segments \in Nat
    BY <2>1 DEF Conn
  <2> QED BY <2>2
<1>8. PICK rest \in Nat :
         /\ attributed(cs) = shares(cs, n)[i] + rest
         /\ \A G, b : TotalIs(b, G, 1 .. n) /\ (\A j \in 1 .. n : j # i => G[j] = shares(cs, n)[j])
                      => b = G[i] + rest
  <2>1. PICK F, a : F = shares(cs, n) /\ a = attributed(cs)
    OBVIOUS
  <2>2. TotalIs(a, F, 1 .. n) /\ F[i] \in Nat
    BY <1>5, <1>6, <1>7, <2>1
  <2>3. \E rest \in Nat :
           /\ a = F[i] + rest
           /\ \A G, b : TotalIs(b, G, 1 .. n) /\ (\A j \in 1 .. n : j # i => G[j] = F[j])
                        => b = G[i] + rest
    BY <2>2, IndicesFinite, TotalReplace
  <2> QED BY <2>1, <2>3
<1>9. attributed(ds) = shares(ds, n)[i] + rest
  BY <1>5, <1>6, <1>8
<1>10. attributed(cs) = k + rest /\ attributed(ds) = (k + 1) + rest
  BY <1>6, <1>7, <1>8, <1>9
<1>11. attributed(ds) = attributed(cs) + 1
  BY ONLY <1>10, k \in Nat, rest \in Nat
<1> QED BY <1>1, <1>2, <1>3, <1>11

LEMMA CreateAttributes ==
    ASSUME LifecycleInv, NEW seg \in Segment, NEW t, CreateInstance(seg, t)
    PROVE  attributed(conns') = attributed(conns) + 1
<1>1. PICK cs \in Seq(Conn), n \in Nat : cs = conns /\ n = Len(cs)
  BY DEF LifecycleInv, ConnTypes
<1>2. PICK c \in Conn : conns' = Append(cs, c) /\ c.segments = 1
  <2> DEFINE p  == pair_of(seg)
             id == [pair |-> p, instance |-> next_instance[p]]
  <2>1. p \in EndpointPair
    BY DEF pair_of, EndpointPair, Segment
  <2>2. id \in ConnId
    BY <2>1 DEF ConnId, LifecycleInv, ConnTypes
  <2>3. conns' = Append(conns, open_instance(id, seg))
    BY DEF CreateInstance
  <2> HIDE DEF id
  <2>4. open_instance(id, seg) \in Conn /\ open_instance(id, seg).segments = 1
    BY <2>2, OpenedFields
  <2> QED BY <1>1, <2>3, <2>4
<1>3. PICK ds : ds = Append(cs, c)
  OBVIOUS
<1>4. PICK m \in Nat : m = n + 1
  OBVIOUS
<1>5. /\ ds \in Seq(Conn) /\ Len(ds) = m /\ ds[m] = c
      /\ \A j \in 1 .. n : ds[j] = cs[j]
  BY <1>1, <1>2, <1>3, <1>4
<1>6. TotalIs(attributed(cs), shares(cs, n), 1 .. n) /\ TotalIs(attributed(ds), shares(ds, m), 1 .. m)
  BY <1>1, <1>5, AttributedTotal
<1>7. /\ shares(ds, m)[m] = 1
      /\ \A j \in 1 .. n : shares(ds, m)[j] = shares(cs, n)[j]
  BY <1>2, <1>4, <1>5 DEF shares
<1>8. attributed(ds) = shares(ds, m)[n + 1] + attributed(cs)
  BY <1>4, <1>6, <1>7, TotalAppend
<1>9. attributed(cs) \in Nat
  BY <1>6, TotalNat
<1> QED BY <1>1, <1>2, <1>3, <1>4, <1>7, <1>8, <1>9

(***************************************************************************)
(* Under FailFast every segment observed is counted by exactly one         *)
(* instance, whatever splits, resets and idle gaps the capture has.        *)
(***************************************************************************)
THEOREM SegmentsAreAttributed == Spec => []EverySegmentAttributed
<1> DEFINE Inv == segs \in Nat /\ (~Evicts => attributed(conns) = segs)
<1>1. Init => Inv
  <2> SUFFICES ASSUME Init PROVE Inv
    OBVIOUS
  <2>1. conns = <<>> /\ segs = 0
    BY DEF Init
  <2>2. <<>> \in Seq(Conn) /\ Len(<<>>) = 0
    OBVIOUS
  <2>3. TotalIs(attributed(<<>>), shares(<<>>, 0), 1 .. 0)
    BY <2>2, AttributedTotal
  <2>4. attributed(<<>>) = 0
    BY <2>3, TotalNat
  <2> QED BY <2>1, <2>4
<1>2. ASSUME LifecycleInv, Inv, [Next]_vars PROVE Inv'
  <2>1. ASSUME NEW g \in Segments, NEW t \in Time, ObserveJoin(g @@ [ts |-> t]) PROVE Inv'
    <3>1. PICK seg \in Segment : ObserveJoin(seg)
      BY <2>1, CapturedSegment
    <3>2. attributed(conns') = attributed(conns) + 1
      BY <1>2, <3>1, JoinAttributes DEF ObserveJoin
    <3>3. segs' = segs + 1
      BY <3>1 DEF ObserveJoin, Arrives
    <3> QED BY <1>2, <3>2, <3>3
  <2>2. ASSUME NEW g \in Segments, NEW t \in Time, ObserveCreate(g @@ [ts |-> t]) PROVE Inv'
    <3>1. PICK seg \in Segment : ObserveCreate(seg)
      BY <2>2, CapturedSegment
    <3>2. attributed(conns') = attributed(conns) + 1
      BY <1>2, <3>1, CreateAttributes DEF ObserveCreate
    <3>3. segs' = segs + 1
      BY <3>1 DEF ObserveCreate, Arrives
    <3> QED BY <1>2, <3>2, <3>3
  <2>3. ASSUME NEW t \in Time, ObserveTick(t) PROVE Inv'
    <3>1. Evicts /\ segs' = segs
      BY <2>3 DEF ObserveTick, TickArrives
    <3> QED BY <1>2, <3>1
  <2>4. CASE UNCHANGED vars
    <3>1. conns' = conns /\ segs' = segs
      BY <2>4 DEF vars
    <3> QED BY <1>2, <3>1
  <2> QED BY <1>2, <2>1, <2>2, <2>3, <2>4 DEF Next
<1>3. Inv => EverySegmentAttributed
  BY DEF EverySegmentAttributed, attributed
<1> QED BY <1>1, <1>2, <1>3, LifecycleInvariant, PTL DEF Spec

-----------------------------------------------------------------------------
(***************************************************************************)
(* With ordered timestamps the instances of a pair were last seen in the   *)
(* order in which they were opened.                                        *)
(***************************************************************************)
SeenInOrder ==
    /\ now \in Nat
    /\ \A i \in 1 .. Len(conns) : conns[i].last_at <= now
    /\ \A i \in 1 .. Len(conns), j \in 1 .. Len(conns) :
          i < j /\ conns[i].id.pair = conns[j].id.pair => conns[i].last_at <= conns[j].last_at

\* The live instance of a pair that a step joins.
LEMMA JoinedLive ==
    ASSUME LifecycleInv, NEW seg \in Segment, NEW t, joins(seg), JoinInstance(seg, t)
    PROVE  \E i \in 1 .. Len(conns), c \in Conn :
              /\ conns' = [conns EXCEPT ![i] = c] /\ live' = live
              /\ c.id = conns[i].id /\ c.last_at = later(conns[i].last_at, seg.ts)
              /\ \A j \in 1 .. Len(conns) : conns[j].id.pair = conns[i].id.pair => j <= i
<1>1. pair_of(seg) \in EndpointPair
  BY DEF pair_of, EndpointPair, Segment
<1>2. PICK i \in 1 .. Len(conns) : i = live[pair_of(seg)]
  BY <1>1, ByIndex DEF LifecycleInv, ConnTypes, joins
<1>3. conns[i] \in Conn /\ ClosedOnBoth(conns[i])
  BY ByIndex DEF LifecycleInv
<1>4. PICK c : c = joined(conns[i], seg)
  OBVIOUS
<1>5. c \in Conn /\ c.id = conns[i].id /\ c.last_at = later(conns[i].last_at, seg.ts)
  BY <1>3, <1>4, JoinedFields
<1>6. conns' = [conns EXCEPT ![i] = c] /\ live' = live
  BY <1>2, <1>4 DEF JoinInstance
<1>7. ASSUME NEW j \in 1 .. Len(conns), conns[j].id.pair = conns[i].id.pair PROVE j <= i
  <2>1. DOMAIN conns = 1 .. Len(conns)
    BY ByIndex DEF LifecycleInv
  <2>2. indices_of(conns, pair_of(seg)) # {}
    BY <1>1, <1>2 DEF LifecycleInv, LiveIsNewest
  <2>3. conns[i].id.pair = pair_of(seg)
    BY <1>1, <1>2, <2>2 DEF LifecycleInv, LiveIsNewest, indices_of
  <2>4. j \in indices_of(conns, pair_of(seg))
    BY <1>7, <2>1, <2>3 DEF indices_of
  <2> QED BY <1>1, <1>2, <2>2, <2>4 DEF LifecycleInv, LiveIsNewest
<1> QED BY <1>5, <1>6, <1>7

\* The instance that a step creates.
LEMMA CreatedLive ==
    ASSUME LifecycleInv, NEW seg \in Segment, NEW t, CreateInstance(seg, t)
    PROVE  \E p \in EndpointPair, c \in Conn :
              /\ conns' = Append(conns, c) /\ live' = [live EXCEPT ![p] = Len(conns) + 1]
              /\ c.id.pair = p /\ c.id.instance = next_instance[p] /\ c.last_at = seg.ts
<1> DEFINE p  == pair_of(seg)
           id == [pair |-> p, instance |-> next_instance[p]]
<1>1. p \in EndpointPair
  BY DEF pair_of, EndpointPair, Segment
<1>2. id \in ConnId /\ id.pair = p /\ id.instance = next_instance[p]
  BY <1>1 DEF ConnId, LifecycleInv, ConnTypes
<1>3. conns' = Append(conns, open_instance(id, seg)) /\ live' = [live EXCEPT ![p] = Len(conns) + 1]
  BY DEF CreateInstance
<1> HIDE DEF id
<1>4. /\ open_instance(id, seg) \in Conn /\ open_instance(id, seg).id = id
      /\ open_instance(id, seg).last_at = seg.ts
  BY <1>2, OpenedFields
<1> QED BY <1>1, <1>2, <1>3, <1>4

LEMMA SeenStaysInOrder ==
    ASSUME Jitter = 0, LifecycleInv, SeenInOrder, [Next]_vars
    PROVE  SeenInOrder'
<1>0. /\ now \in Nat /\ Len(conns) \in Nat /\ conns \in Seq(Conn)
      /\ \A i \in 1 .. Len(conns) : conns[i].last_at \in Nat /\ conns[i].last_at <= now
  <2>1. \A c \in Conn : c.last_at \in Nat
    BY DEF Conn
  <2> QED BY <2>1, ByIndex DEF LifecycleInv, ConnTypes, SeenInOrder
<1>1. ASSUME NEW g \in Segments, NEW t \in Time, ObserveJoin(g @@ [ts |-> t])
      PROVE  SeenInOrder'
  <2>1. PICK seg \in Segment : ObserveJoin(seg)
    BY <1>1, CapturedSegment
  <2>2. PICK T \in Nat : T = seg.ts
    BY DEF Segment
  <2>3. now <= T /\ now' = T
    BY <1>0, <2>1, <2>2 DEF ObserveJoin, Arrives, later
  <2>4. PICK i \in 1 .. Len(conns), c \in Conn :
              /\ conns' = [conns EXCEPT ![i] = c]
              /\ c.id = conns[i].id /\ c.last_at = later(conns[i].last_at, seg.ts)
              /\ \A j \in 1 .. Len(conns) : conns[j].id.pair = conns[i].id.pair => j <= i
    BY <2>1, JoinedLive DEF ObserveJoin
  <2>5. c.last_at = T
    BY <1>0, <2>2, <2>3, <2>4 DEF later
  <2>6. /\ Len(conns') = Len(conns) /\ conns'[i] = c
        /\ \A j \in 1 .. Len(conns) : j # i => conns'[j] = conns[j]
    BY <1>0, <2>4
  <2>7. \A j \in 1 .. Len(conns) : conns'[j].last_at <= T /\ conns'[j].id = conns[j].id
    BY <1>0, <2>3, <2>4, <2>5, <2>6
  <2>8. ASSUME NEW j \in 1 .. Len(conns), NEW k \in 1 .. Len(conns), j < k,
               conns'[j].id.pair = conns'[k].id.pair
        PROVE  conns'[j].last_at <= conns'[k].last_at
    <3>1. conns[j].id.pair = conns[k].id.pair
      BY <2>7, <2>8
    <3>2. CASE k = i
      BY <2>5, <2>6, <2>7, <3>2
    <3>3. CASE k # i
      <4>1. j # i
        BY <1>0, <2>4, <2>8, <3>1, <3>3
      <4> QED BY <2>6, <2>8, <3>1, <3>3, <4>1 DEF SeenInOrder
    <3> QED BY <3>2, <3>3
  <2> QED BY <2>3, <2>6, <2>7, <2>8 DEF SeenInOrder
<1>2. ASSUME NEW g \in Segments, NEW t \in Time, ObserveCreate(g @@ [ts |-> t])
      PROVE  SeenInOrder'
  <2>1. PICK seg \in Segment : ObserveCreate(seg)
    BY <1>2, CapturedSegment
  <2>2. PICK T \in Nat : T = seg.ts
    BY DEF Segment
  <2>3. now <= T /\ now' = T
    BY <1>0, <2>1, <2>2 DEF ObserveCreate, Arrives, later
  <2>4. PICK c \in Conn : conns' = Append(conns, c) /\ c.last_at = seg.ts
    BY <2>1, CreatedLive DEF ObserveCreate
  <2>5. PICK n \in Nat : n = Len(conns)
    BY <1>0
  <2>6. /\ Len(conns') = n + 1 /\ conns'[n + 1] = c
        /\ \A j \in 1 .. n : conns'[j] = conns[j]
    BY <1>0, <2>4, <2>5
  <2>7. \A j \in 1 .. n + 1 : conns'[j].last_at <= T /\ (j = n + 1 \/ j \in 1 .. n)
    BY <1>0, <2>2, <2>3, <2>4, <2>5, <2>6
  <2>8. ASSUME NEW j \in 1 .. n + 1, NEW k \in 1 .. n + 1, j < k,
               conns'[j].id.pair = conns'[k].id.pair
        PROVE  conns'[j].last_at <= conns'[k].last_at
    <3>1. CASE k = n + 1
      BY <2>2, <2>4, <2>6, <2>7, <3>1
    <3>2. CASE k # n + 1
      <4>1. j \in 1 .. n /\ k \in 1 .. n
        BY <2>8, <3>2
      <4> QED BY <2>5, <2>6, <2>8, <4>1 DEF SeenInOrder
    <3> QED BY <3>1, <3>2
  <2> QED BY <2>3, <2>6, <2>7, <2>8 DEF SeenInOrder
<1>3. ASSUME NEW t \in Time, ObserveTick(t) PROVE SeenInOrder'
  <2>1. now' \in Nat /\ now <= now'
    <3>1. t \in Nat
      BY TrackerAssumption DEF Time
    <3> QED BY <1>0, <1>3, <3>1 DEF ObserveTick, later
  <2>2. CASE UNCHANGED <<conns, live, next_instance>>
    <3>1. conns' = conns
      BY <2>2
    <3>2. \A i \in 1 .. Len(conns) : conns[i].last_at <= now'
      BY <1>0, <2>1
    <3> QED BY <2>1, <3>1, <3>2 DEF SeenInOrder
  <2>3. ASSUME NEW I \in SUBSET DOMAIN conns, Compacts(I) PROVE SeenInOrder'
    <3>1. PICK k \in Nat : k = Cardinality(I)
      BY <2>3, Compacted DEF LifecycleInv
    <3>2. /\ Len(conns') = k
          /\ \A j \in 1 .. k : nth(I, j) \in 1 .. Len(conns) /\ conns'[j] = conns[nth(I, j)]
          /\ \A i \in 1 .. k, j \in 1 .. k : i < j => nth(I, i) < nth(I, j)
      BY <2>3, <3>1, Compacted, ByIndex DEF LifecycleInv
    <3>3. \A j \in 1 .. k : conns'[j].last_at <= now'
      BY <1>0, <2>1, <3>2
    <3>4. ASSUME NEW i \in 1 .. k, NEW j \in 1 .. k, i < j,
                 conns'[i].id.pair = conns'[j].id.pair
          PROVE  conns'[i].last_at <= conns'[j].last_at
      <4>1. PICK a \in 1 .. Len(conns) : a = nth(I, i) /\ conns'[i] = conns[a]
        BY <3>2
      <4>2. PICK b \in 1 .. Len(conns) : b = nth(I, j) /\ conns'[j] = conns[b]
        BY <3>2
      <4>3. a < b
        BY <3>2, <3>4, <4>1, <4>2
      <4> QED BY <3>4, <4>1, <4>2, <4>3 DEF SeenInOrder
    <3> QED BY <2>1, <3>2, <3>3, <3>4 DEF SeenInOrder
  <2> QED BY <1>3, <2>2, <2>3, TickCompacts
<1>4. CASE UNCHANGED vars
  <2>1. conns' = conns /\ now' = now
    BY <1>4 DEF vars
  <2> QED BY <2>1 DEF SeenInOrder
<1> QED BY <1>1, <1>2, <1>3, <1>4 DEF Next

\* If the newest instance of a pair is dead, so are the older ones.
LEMMA DeadTogether ==
    ASSUME SeenInOrder, LifecycleInv, Evicts, DeadAfter <= Window, NEW t \in Nat,
           NEW i \in 1 .. Len(conns), NEW m \in 1 .. Len(conns), i < m,
           conns[i].id.pair = conns[m].id.pair, dead(conns[m], t)
    PROVE  dead(conns[i], t)
<1>1. PICK a \in Nat, b \in Nat : a = conns[i].last_at /\ b = conns[m].last_at
  <2>1. \A c \in Conn : c.last_at \in Nat
    BY DEF Conn
  <2>2. conns[i] \in Conn /\ conns[m] \in Conn
    BY ByIndex DEF LifecycleInv
  <2> QED BY <2>1, <2>2
<1>2. a <= b
  BY <1>1 DEF SeenInOrder
<1>3. b < saturating_sub(t, Window) /\ Window \in Nat /\ DeadAfter \in Nat
  BY <1>1, RetentionAssumption, ConnTrackAssumption DEF dead, horizon_at, Evicts
<1>4. a < saturating_sub(t, Window) /\ saturating_sub(t, a) > DeadAfter
  BY <1>2, <1>3 DEF saturating_sub
<1> QED BY <1>1, <1>4 DEF dead, idle_at, horizon_at

(***************************************************************************)
(* Live: with ordered timestamps and a window not shorter than dead_after, *)
(* no step ever makes an older instance of a pair live again.  A tick that *)
(* removes the newest instance of a pair removes the older ones with it,   *)
(* because they were last seen before it.                                  *)
(***************************************************************************)
THEOREM LiveDoesNotRegress ==
    ASSUME Jitter = 0, Evicts => DeadAfter <= Window
    PROVE  Spec => LiveNeverRegresses
<1> DEFINE Step == \A p \in EndpointPair :
                      live[p] # 0 /\ live'[p] # 0 =>
                         conns[live[p]].id.instance <= conns'[live'[p]].id.instance
<1>1. Init => SeenInOrder
  <2> SUFFICES ASSUME Init PROVE SeenInOrder
    OBVIOUS
  <2>1. Len(conns) = 0 /\ now = 0
    BY DEF Init
  <2> QED BY <2>1 DEF SeenInOrder
<1>2. ASSUME LifecycleInv, LifecycleInv', SeenInOrder, [Next]_vars PROVE [Step]_vars
  <2>0. /\ Len(conns) \in Nat /\ conns \in Seq(Conn)
        /\ \A p \in EndpointPair : live[p] \in 0 .. Len(conns)
        /\ \A i \in 1 .. Len(conns) : conns[i].id.instance \in Nat
    BY <1>2, ByIndex DEF LifecycleInv, ConnTypes
  <2>1. ASSUME NEW g \in Segments, NEW t \in Time, ObserveJoin(g @@ [ts |-> t]) PROVE Step
    <3>1. PICK seg \in Segment : ObserveJoin(seg)
      BY <2>1, CapturedSegment
    <3>2. PICK i \in 1 .. Len(conns), c \in Conn :
             conns' = [conns EXCEPT ![i] = c] /\ live' = live /\ c.id = conns[i].id
      BY <1>2, <3>1, JoinedLive DEF ObserveJoin
    <3>3. \A j \in 1 .. Len(conns) : conns'[j].id = conns[j].id
      BY <2>0, <3>2
    <3>4. \A p \in EndpointPair : live[p] # 0 => live[p] \in 1 .. Len(conns)
      BY <2>0
    <3> QED BY <2>0, <3>2, <3>3, <3>4
  <2>2. ASSUME NEW g \in Segments, NEW t \in Time, ObserveCreate(g @@ [ts |-> t]) PROVE Step
    <3>1. PICK seg \in Segment : ObserveCreate(seg)
      BY <2>2, CapturedSegment
    <3>2. PICK p \in EndpointPair, c \in Conn :
              /\ conns' = Append(conns, c) /\ live' = [live EXCEPT ![p] = Len(conns) + 1]
              /\ c.id.instance = next_instance[p]
      BY <1>2, <3>1, CreatedLive DEF ObserveCreate
    <3>3. PICK n \in Nat : n = Len(conns)
      BY <2>0
    <3>4. conns'[n + 1] = c /\ \A j \in 1 .. n : conns'[j] = conns[j]
      BY <2>0, <3>2, <3>3
    <3>5. ASSUME NEW q \in EndpointPair, live[q] # 0
          PROVE  conns[live[q]].id.instance <= conns'[live'[q]].id.instance
      <4>1. live[q] \in 1 .. n
        BY <2>0, <3>3, <3>5
      <4>2. CASE q = p
        <5>1. live'[q] = n + 1
          BY <1>2, <3>2, <3>3, <4>2 DEF LifecycleInv, ConnTypes
        <5>2. conns[live[q]].id.pair = q
          <6>1. indices_of(conns, q) # {}
            BY <3>5, <1>2 DEF LifecycleInv, LiveIsNewest
          <6> QED BY <1>2, <6>1 DEF LifecycleInv, LiveIsNewest, indices_of
        <5>3. live[q] \in DOMAIN conns
          BY <2>0, <3>3, <4>1
        <5>4. conns[live[q]].id.instance < next_instance[q]
          BY <1>2, <5>2, <5>3 DEF LifecycleInv, InstancesOrdered
        <5>5. PICK a \in Nat, b \in Nat : a = conns[live[q]].id.instance /\ b = next_instance[q]
          <6>1. next_instance[q] \in Nat
            BY <1>2 DEF LifecycleInv, ConnTypes
          <6> QED BY <2>0, <3>3, <4>1, <6>1
        <5>6. conns'[live'[q]] = c
          BY <3>4, <5>1
        <5>7. conns'[live'[q]].id.instance = b /\ a < b
          BY <3>2, <4>2, <5>4, <5>5, <5>6
        <5>8. a <= b
          BY <5>7
        <5> QED BY <5>5, <5>7, <5>8
      <4>3. CASE q # p
        <5>1. live'[q] = live[q]
          BY <1>2, <3>2, <4>3 DEF LifecycleInv, ConnTypes
        <5>2. conns'[live[q]] = conns[live[q]] /\ conns[live[q]].id.instance \in Nat
          BY <2>0, <3>3, <3>4, <4>1
        <5> QED BY <5>1, <5>2
      <4> QED BY <4>2, <4>3
    <3> QED BY <3>5
  <2>3. ASSUME NEW t \in Time, ObserveTick(t) PROVE Step
    <3> DEFINE I == survivors(later(now, t))
    <3>1. PICK T \in Nat : T = later(now, t)
      BY <1>2, TrackerAssumption DEF SeenInOrder, Time, later
    <3>2. I \in SUBSET DOMAIN conns /\ \A i \in DOMAIN conns : i \in I <=> ~dead(conns[i], T)
      BY <3>1 DEF survivors
    <3>3. CASE I = DOMAIN conns
      <4>1. conns' = conns /\ live' = live
        BY <2>3, <3>3 DEF ObserveTick, EvictDeadConnections
      <4>2. \A p \in EndpointPair : live[p] # 0 => live[p] \in 1 .. Len(conns)
        BY <2>0
      <4>3. \A p \in EndpointPair : live[p] # 0 =>
               conns[live[p]].id.instance <= conns[live[p]].id.instance
        BY <2>0, <4>2
      <4> QED BY <4>1, <4>3
    <3>4. CASE I # DOMAIN conns
      <4>1. Compacts(I) /\ Evicts
        BY <2>3, <3>4 DEF ObserveTick, EvictDeadConnections, Compacts, TickArrives
      <4> HIDE DEF I
      <4>2. PICK k \in Nat : k = Cardinality(I)
        BY <1>2, <3>2, <4>1, Compacted DEF LifecycleInv
      <4>3. /\ DOMAIN conns' = 1 .. k /\ DOMAIN conns = 1 .. Len(conns)
            /\ \A j \in 1 .. k : nth(I, j) \in DOMAIN conns /\ conns'[j] = conns[nth(I, j)]
            /\ \A i \in 1 .. k, j \in 1 .. k : i < j => nth(I, i) < nth(I, j)
        BY <1>2, <3>2, <4>1, <4>2, Compacted, ByIndex DEF LifecycleInv
      <4>4. /\ \A j \in 1 .. k : nth(I, j) \in I
            /\ \A i \in I : \E j \in 1 .. k : nth(I, j) = i
        <5>1. I \subseteq 1 .. Len(conns)
          BY <3>2, <4>3
        <5> QED BY <2>0, <4>2, <5>1, NthEnumerates
      <4>5. ASSUME NEW p \in EndpointPair, live[p] # 0, live'[p] # 0
            PROVE  conns[live[p]].id.instance <= conns'[live'[p]].id.instance
        <5>1. PICK m \in 1 .. Len(conns) : m = live[p]
          BY <2>0, <4>5
        <5>2. /\ conns[m].id.pair = p
              /\ \A i \in 1 .. Len(conns) : conns[i].id.pair = p => i <= m
          <6>1. indices_of(conns, p) # {}
            BY <1>2, <4>5 DEF LifecycleInv, LiveIsNewest
          <6> QED BY <1>2, <4>3, <5>1, <6>1 DEF LifecycleInv, LiveIsNewest, indices_of
        <5>3. PICK j \in 1 .. k :
                 /\ j = live'[p] /\ conns'[j].id.pair = p
                 /\ \A i \in 1 .. k : conns'[i].id.pair = p => i <= j
          <6>1. indices_of(conns', p) # {}
            BY <1>2, <4>5 DEF LifecycleInv, LiveIsNewest
          <6>2. live'[p] \in indices_of(conns', p)
                /\ \A i \in indices_of(conns', p) : i <= live'[p]
            BY <1>2, <6>1 DEF LifecycleInv, LiveIsNewest
          <6> QED BY <4>3, <6>2 DEF indices_of
        <5>4. PICK i \in 1 .. Len(conns) : i = nth(I, j) /\ i \in I /\ conns'[j] = conns[i]
          BY <4>3, <4>4
        <5>5. i <= m
          BY <5>2, <5>3, <5>4
        <5>6. ~(i < m)
          <6> SUFFICES ASSUME i < m PROVE FALSE
            OBVIOUS
          <6>1. ~dead(conns[i], T)
            BY <3>2, <5>4
          <6>2. ~dead(conns[m], T)
            BY <1>2, <4>1, <5>2, <5>3, <5>4, <6>1, DeadTogether
          <6>3. m \in I
            BY <3>2, <4>3, <6>2
          <6>4. PICK l \in 1 .. k : nth(I, l) = m
            BY <4>4, <6>3
          <6>5. l <= j
            BY <4>3, <5>2, <5>3, <6>4
          <6>6. CASE l = j
            BY <5>4, <6>4, <6>6
          <6>7. CASE l < j
            <7>1. m < i
              BY <4>3, <5>4, <6>4, <6>7
            <7> QED BY <2>0, <7>1
          <6> QED BY <6>5, <6>6, <6>7
        <5>7. i = m
          BY <2>0, <5>5, <5>6
        <5>8. conns[m].id.instance \in Nat
          BY <2>0
        <5> QED BY <5>1, <5>3, <5>4, <5>7, <5>8
      <4> QED BY <4>5
    <3> QED BY <3>3, <3>4
  <2>4. CASE UNCHANGED vars
    BY <2>4
  <2> QED BY <1>2, <2>1, <2>2, <2>3, <2>4 DEF Next
<1>3. ASSUME LifecycleInv, SeenInOrder, [Next]_vars PROVE SeenInOrder'
  BY <1>3, SeenStaysInOrder
<1> QED BY <1>1, <1>2, <1>3, LifecycleInvariant, PTL DEF Spec, LiveNeverRegresses
=============================================================================
