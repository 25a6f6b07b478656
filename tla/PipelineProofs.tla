--------------------------- MODULE PipelineProofs ---------------------------
(***************************************************************************)
(* Proofs about the two threads of live capture (module LivePipeline), for *)
(* every channel capacity, clock precision and bound of the environment:   *)
(* their steps implement LossyFeed, every frame is honest, and all events  *)
(* share one time axis.                                                    *)
(*                                                                         *)
(* None of the three is inductive.  PipeInv adds where the losses are: the *)
(* events received, in the channel, at hand and dropped make up all that   *)
(* were emitted, and the distance of an event's number from its position   *)
(* is the number of drops counted when it was sent.                        *)
(***************************************************************************)
EXTENDS LivePipeline, SequenceTheorems, TLAPS

-----------------------------------------------------------------------------
(***************************************************************************)
(* The inductive invariant.                                                *)
(***************************************************************************)
Event == [kind : EventKind, n : Nat]

EventAtHand == [kind : EventKind, n : Nat, at : Nat, ts : Nat]

PipeTypes ==
    /\ chan \in Seq(Event) /\ received \in Seq(Event) /\ todo \in Seq(EventAtHand)
    /\ emitted \in Nat /\ dropped \in Nat /\ skips \in Nat /\ d \in Nat
    /\ baseline \in Nat \cup {None}
    /\ first_packet \in BOOLEAN /\ hint \in BOOLEAN
    /\ status \in [dropped : Nat, approximate : BOOLEAN, skipped : Nat]

\* The capture thread has events at hand between reading a packet and the next check.
AtHandWhileSending ==
    /\ todo # <<>> => cap_pc \in {"send", "count"}
    /\ cap_pc = "send" => todo # <<>>
    /\ ui_pc = "args" => cap_pc = "unborn"

\* Refused by the channel and not yet counted.
Refused == IF cap_pc = "count" THEN 1 ELSE 0

\* Every event emitted is received, waits or is lost; those at hand are the newest.
Accounted ==
    /\ Len(received) + Len(chan) + Len(todo) + dropped + Refused = emitted
    /\ \A i \in 1 .. Len(todo) : todo[i].n = emitted - Len(todo) + i

\* No event is further ahead of its position than drops are counted.
GapsCounted ==
    /\ \A k \in 1 .. Len(received) : received[k].n - k <= dropped
    /\ \A k \in 1 .. Len(chan) : chan[k].n - (Len(received) + k) <= dropped

\* The drop count covers the gaps of what is received, from the load to the next drain.
CountsLoaded ==
    /\ d <= dropped
    /\ status.dropped <= dropped /\ status.skipped <= skips
    /\ status.approximate <=> status.dropped > 0
    /\ ui_pc = "frame" => \A k \in 1 .. Len(received) : received[k].n - k <= d
    /\ ui_pc \in {"args", "input"} =>
          \A k \in 1 .. Len(received) : received[k].n - k <= status.dropped

HintHonest ==
    /\ ~first_packet => \A k \in 1 .. Len(received) : received[k].kind # "segment"
    /\ ui_pc \in {"args", "input"} => ~(hint /\ first_packet)

\* The time an event tells is its distance from base, cut to the precision, or zero.
OnAxis(e, base) ==
    /\ e.ts >= 0 /\ e.ts > (e.at - base) - Micro
    /\ e.ts <= e.at - base \/ e.ts = 0

AxisKept == \A i \in 1 .. Len(todo) : OnAxis(todo[i], baseline)

PipeInv ==
    /\ PipeTypes
    /\ AtHandWhileSending
    /\ Accounted
    /\ GapsCounted
    /\ CountsLoaded
    /\ HintHonest
    /\ AxisKept

\* What the types say of lengths and numbers.
LEMMA TypedNumbers ==
    ASSUME PipeTypes
    PROVE  /\ Len(received) \in Nat /\ Len(chan) \in Nat /\ Len(todo) \in Nat
           /\ emitted \in Nat /\ dropped \in Nat /\ d \in Nat /\ skips \in Nat
           /\ \A k \in 1 .. Len(received) : received[k] \in Event /\ received[k].n \in Nat
           /\ \A k \in 1 .. Len(chan) : chan[k] \in Event /\ chan[k].n \in Nat
           /\ \A i \in 1 .. Len(todo) : /\ todo[i] \in EventAtHand
                                        /\ todo[i].n \in Nat /\ todo[i].at \in Nat
                                        /\ todo[i].ts \in Nat
           /\ status.dropped \in Nat /\ status.skipped \in Nat
           /\ baseline \in Int
<1>1. \A x \in Event : x.n \in Nat
  BY DEF Event
<1>2. \A x \in EventAtHand : x.n \in Nat /\ x.at \in Nat /\ x.ts \in Nat
  BY DEF EventAtHand
<1>3. /\ \A k \in 1 .. Len(received) : received[k] \in Event
      /\ \A k \in 1 .. Len(chan) : chan[k] \in Event
      /\ \A i \in 1 .. Len(todo) : todo[i] \in EventAtHand
      /\ Len(received) \in Nat /\ Len(chan) \in Nat /\ Len(todo) \in Nat
  BY DEF PipeTypes
<1>4. status.dropped \in Nat /\ status.skipped \in Nat /\ baseline \in Int
  BY DEF PipeTypes, None
<1>5. emitted \in Nat /\ dropped \in Nat /\ d \in Nat /\ skips \in Nat
  BY DEF PipeTypes
<1> QED BY <1>1, <1>2, <1>3, <1>4, <1>5

\* Nothing has been emitted when the command starts.
LEMMA InitPipeInv == Init => PipeInv
<1> SUFFICES ASSUME Init PROVE PipeInv
  OBVIOUS
<1>1. status \in [dropped : Nat, approximate : BOOLEAN, skipped : Nat]
  BY DEF Init
<1>2. PipeTypes
  <2>1. <<>> \in Seq(Event) /\ <<>> \in Seq(EventAtHand)
    OBVIOUS
  <2>2. 0 \in Nat
    OBVIOUS
  <2> QED BY <1>1, <2>1, <2>2, Zenon DEF Init, PipeTypes
<1>3. AtHandWhileSending /\ Accounted /\ GapsCounted /\ HintHonest /\ AxisKept
  BY DEF Init, AtHandWhileSending, Accounted, Refused, GapsCounted, HintHonest, AxisKept
<1>4. CountsLoaded
  BY DEF Init, CountsLoaded
<1> QED BY <1>2, <1>3, <1>4 DEF PipeInv

-----------------------------------------------------------------------------
(***************************************************************************)
(* Every step of the capture thread preserves it.                          *)
(***************************************************************************)

\* A time cut to the precision of the device is at most a microsecond early.
LEMMA CutTime ==
    ASSUME NEW at \in Nat
    PROVE  /\ abs_ns(tv_usec(at)) \in Nat
           /\ abs_ns(tv_usec(at)) <= at
           /\ at < abs_ns(tv_usec(at)) + Micro
<1>1. /\ at \div Micro \in Nat
      /\ (at \div Micro) * Micro <= at
      /\ at < (at \div Micro) * Micro + Micro
      /\ (at \div Micro) * Micro \in Nat
  BY PipelineAssumption, SMTT(30)
<1> QED BY <1>1, PipelineAssumption DEF abs_ns, tv_usec

\* normalize_ts puts a time that is abs or up to a microsecond later on the axis, and
\* sets a baseline only when there is none.
LEMMA NormalizeOnAxis ==
    ASSUME baseline \in Nat \cup {None}, NEW at \in Nat, NEW abs \in Nat,
           abs <= at, at < abs + Micro
    PROVE  LET time == normalize_ts(abs)
           IN  /\ time.ts \in Nat /\ time.baseline \in Nat
               /\ time.ts > (at - time.baseline) - Micro
               /\ time.ts <= at - time.baseline \/ time.ts = 0
               /\ baseline # None => time.baseline = baseline
BY PipelineAssumption DEF normalize_ts, None

\* What Emit leaves at hand: the next numbers, all about the same time.
LEMMA EmitAtHand ==
    ASSUME NEW kinds \in Seq(EventKind), NEW at \in Nat, NEW time, time.ts \in Nat,
           emitted \in Nat, Emit(kinds, at, time)
    PROVE  /\ todo' \in Seq(EventAtHand) /\ Len(todo') = Len(kinds)
           /\ emitted' = emitted + Len(kinds) /\ emitted' \in Nat
           /\ \A i \in 1 .. Len(todo') :
                 todo'[i].n = emitted + i /\ todo'[i].at = at /\ todo'[i].ts = time.ts
           /\ cap_pc' = IF todo' = <<>> THEN "check" ELSE "send"
           /\ baseline' = time.baseline
<1>1. DOMAIN kinds = 1 .. Len(kinds) /\ Len(kinds) \in Nat
  OBVIOUS
<1>2. \A i \in 1 .. Len(kinds) :
         [kind |-> kinds[i], n |-> emitted + i, at |-> at, ts |-> time.ts] \in EventAtHand
  BY DEF EventAtHand
<1>3. todo' \in Seq(EventAtHand) /\ Len(todo') = Len(kinds)
  BY <1>1, <1>2 DEF Emit
<1>4. kinds = <<>> <=> todo' = <<>>
  BY <1>3
<1> QED BY <1>1, <1>3, <1>4 DEF Emit

\* Reading a packet or timing out, whatever events that yields.
LEMMA ReadKeepsInv ==
    ASSUME PipeInv, cap_pc = "read",
           NEW kinds \in Seq(EventKind), NEW at \in Nat, NEW abs \in Nat,
           abs <= at, at < abs + Micro, Emit(kinds, at, normalize_ts(abs)),
           UNCHANGED <<ui, chan, dropped>>, skips' \in Nat, skips <= skips'
    PROVE  PipeInv' /\ (baseline # None => baseline' = baseline)
<1> USE DEF PipeInv, ui
<1> DEFINE time == normalize_ts(abs)
<1>1. /\ time.ts \in Nat /\ time.baseline \in Nat
      /\ time.ts > (at - time.baseline) - Micro
      /\ time.ts <= at - time.baseline \/ time.ts = 0
      /\ baseline # None => time.baseline = baseline
  BY NormalizeOnAxis DEF PipeTypes
<1>2. /\ todo' \in Seq(EventAtHand) /\ Len(todo') = Len(kinds)
      /\ emitted' = emitted + Len(kinds) /\ emitted' \in Nat
      /\ \A i \in 1 .. Len(todo') :
            todo'[i].n = emitted + i /\ todo'[i].at = at /\ todo'[i].ts = time.ts
      /\ cap_pc' = IF todo' = <<>> THEN "check" ELSE "send"
      /\ baseline' = time.baseline
  BY <1>1, EmitAtHand DEF PipeTypes
<1> HIDE DEF time
<1>3. PipeTypes' /\ AtHandWhileSending'
  BY <1>1, <1>2 DEF PipeTypes, AtHandWhileSending
<1>4. Accounted'
  <2>1. Len(todo) = 0 /\ Refused = 0 /\ Refused' = 0
    BY <1>2 DEF AtHandWhileSending, Refused
  <2>2. emitted' = emitted + Len(todo') /\ Len(todo') \in Nat
    BY <1>2
  <2>3. Len(received) + Len(chan) + Len(todo) + dropped + Refused = emitted
    BY DEF Accounted
  <2>4. Len(received)' = Len(received) /\ Len(chan)' = Len(chan) /\ dropped' = dropped
    OBVIOUS
  <2>5. Len(received)' + Len(chan)' + Len(todo)' + dropped' + Refused' = emitted'
    BY <2>1, <2>2, <2>3, <2>4, TypedNumbers, SMTT(30)
  <2>6. \A i \in 1 .. Len(todo') : todo'[i].n = emitted' - Len(todo') + i
    BY <1>2, <2>2, TypedNumbers, SMTT(30)
  <2> QED BY <2>5, <2>6 DEF Accounted
<1>5. GapsCounted' /\ CountsLoaded' /\ HintHonest'
  BY DEF PipeTypes, GapsCounted, CountsLoaded, HintHonest
<1>6. AxisKept'
  <2> SUFFICES ASSUME NEW i \in 1 .. Len(todo') PROVE OnAxis(todo'[i], baseline')
    BY DEF AxisKept
  <2>1. todo'[i].at = at /\ todo'[i].ts = time.ts /\ baseline' = time.baseline
    BY <1>2
  <2> QED BY <1>1, <2>1 DEF OnAxis
<1> QED BY <1>1, <1>2, <1>3, <1>4, <1>5, <1>6

\* Packet, as the three kinds of packets use it.
LEMMA PacketKeepsInv ==
    ASSUME PipeInv, NEW kinds \in Seq(EventKind), Packet(kinds),
           skips' \in Nat, skips <= skips'
    PROVE  PipeInv' /\ (baseline # None => baseline' = baseline)
<1>1. PICK at \in 0 .. MaxClock : Emit(kinds, at, normalize_ts(abs_ns(tv_usec(at))))
  BY DEF Packet
<1>2. at \in Nat
  BY PipelineAssumption
<1> QED BY <1>1, <1>2, CutTime, ReadKeepsInv DEF Packet

\* try_send takes the oldest event at hand, into the channel or off to be counted.
LEMMA TrySendKeepsInv ==
    ASSUME PipeInv, TrySend
    PROVE  PipeInv'
<1> USE DEF PipeInv
<1> DEFINE e == Head(todo)
<1>1. /\ todo \in Seq(EventAtHand) /\ todo # <<>>
      /\ e = todo[1] /\ e \in EventAtHand /\ e.n = emitted - Len(todo) + 1
      /\ todo' = Tail(todo) /\ todo' \in Seq(EventAtHand) /\ Len(todo') = Len(todo) - 1
      /\ \A i \in 1 .. Len(todo') : todo'[i] = todo[i + 1]
  <2>1. todo \in Seq(EventAtHand) /\ todo # <<>> /\ todo' = Tail(todo)
    BY DEF TrySend, PipeTypes, AtHandWhileSending
  <2>2. /\ e = todo[1] /\ e \in EventAtHand /\ 1 \in 1 .. Len(todo)
        /\ Tail(todo) \in Seq(EventAtHand) /\ Len(Tail(todo)) = Len(todo) - 1
        /\ \A i \in 1 .. Len(Tail(todo)) : Tail(todo)[i] = todo[i + 1]
    BY <2>1
  <2>3. e.n = emitted - Len(todo) + 1
    BY <2>2 DEF Accounted
  <2> QED BY <2>1, <2>2, <2>3
<1>2. UNCHANGED <<emitted, baseline, received, dropped, skips, d, first_packet, hint, status, ui_pc>>
  BY DEF TrySend, ui
<1>3. AxisKept'
  BY <1>1, <1>2 DEF AxisKept, PipeTypes
<1>4. CountsLoaded' /\ HintHonest'
  BY <1>2 DEF CountsLoaded, HintHonest
<1>5. CASE Len(chan) < Cap
  <2> DEFINE sent == [kind |-> e.kind, n |-> e.n]
  <2>1. sent \in Event /\ chan' = Append(chan, sent)
        /\ cap_pc = "send" /\ cap_pc' = IF todo' = <<>> THEN "check" ELSE "send"
    BY <1>1, <1>5 DEF TrySend, EventAtHand, Event
  <2>2. /\ chan' \in Seq(Event) /\ Len(chan') = Len(chan) + 1
        /\ \A k \in 1 .. Len(chan) : chan'[k] = chan[k]
        /\ chan'[Len(chan) + 1] = sent /\ sent.n = e.n
    BY <2>1 DEF PipeTypes
  <2> HIDE DEF sent, e
  <2>3. PipeTypes' /\ AtHandWhileSending'
    BY <1>1, <1>2, <2>1, <2>2 DEF PipeTypes, AtHandWhileSending
  <2>4. Refused = 0 /\ Refused' = 0
    BY <2>1 DEF Refused
  <2>5. Accounted'
    BY <1>1, <1>2, <2>2, <2>4, TypedNumbers DEF Accounted
  <2>6. e.n - (Len(received) + Len(chan) + 1) = dropped
    BY <1>1, <2>4, TypedNumbers, SMTT(30) DEF Accounted
  <2>7. GapsCounted'
    <3>1. \A k \in 1 .. Len(chan') : k \in 1 .. Len(chan) \/ k = Len(chan) + 1
      BY <2>2, TypedNumbers
    <3>2. \A k \in 1 .. Len(chan') : chan'[k].n - (Len(received) + k) <= dropped
      <4> SUFFICES ASSUME NEW k \in 1 .. Len(chan')
                   PROVE  chan'[k].n - (Len(received) + k) <= dropped
        OBVIOUS
      <4>1. CASE k \in 1 .. Len(chan)
        BY <2>2, <4>1 DEF GapsCounted
      <4>2. CASE k = Len(chan) + 1
        BY <2>2, <2>6, <4>2, TypedNumbers
      <4> QED BY <3>1, <4>1, <4>2
    <3> QED BY <1>2, <3>2 DEF GapsCounted
  <2> QED BY <1>3, <1>4, <2>3, <2>5, <2>7
<1>6. CASE ~(Len(chan) < Cap)
  <2>1. UNCHANGED chan /\ cap_pc = "send" /\ cap_pc' = "count"
    BY <1>6 DEF TrySend
  <2> HIDE DEF e
  <2>2. PipeTypes' /\ AtHandWhileSending' /\ GapsCounted'
    BY <1>1, <1>2, <2>1 DEF PipeTypes, AtHandWhileSending, GapsCounted
  <2>3. Accounted'
    <3>1. Refused = 0 /\ Refused' = 1
      BY <2>1 DEF Refused
    <3>2. Len(received)' + Len(chan)' + Len(todo)' + dropped' + Refused' = emitted'
      BY <1>1, <1>2, <2>1, <3>1, TypedNumbers DEF Accounted
    <3>3. \A i \in 1 .. Len(todo') : todo'[i].n = emitted' - Len(todo') + i
      BY <1>1, <1>2, TypedNumbers DEF Accounted
    <3> QED BY <3>2, <3>3 DEF Accounted
  <2> QED BY <1>3, <1>4, <2>2, <2>3
<1> QED BY <1>5, <1>6

\* Counting a refused event turns it from refused into dropped.
LEMMA CountDropKeepsInv ==
    ASSUME PipeInv, CountDrop
    PROVE  PipeInv'
<1> USE DEF PipeInv, CountDrop, ui
<1>1. PipeTypes' /\ AtHandWhileSending' /\ HintHonest' /\ AxisKept'
  BY DEF PipeTypes, AtHandWhileSending, HintHonest, AxisKept
<1>2. Accounted'
  BY TypedNumbers DEF Accounted, Refused
<1>3. GapsCounted'
  <2>1. \A k \in 1 .. Len(received) : received[k].n - k <= dropped + 1
    BY TypedNumbers DEF GapsCounted
  <2>2. \A k \in 1 .. Len(chan) : chan[k].n - (Len(received) + k) <= dropped + 1
    <3> SUFFICES ASSUME NEW k \in 1 .. Len(chan)
                 PROVE  chan[k].n - (Len(received) + k) <= dropped + 1
      OBVIOUS
    <3>1. chan[k].n - (Len(received) + k) <= dropped
      BY DEF GapsCounted
    <3>2. chan[k].n \in Nat /\ Len(received) \in Nat /\ dropped \in Nat /\ Len(chan) \in Nat
      BY TypedNumbers
    <3> HIDE DEF PipeInv, CountDrop
    <3> QED BY <3>1, <3>2
  <2> QED BY <2>1, <2>2 DEF GapsCounted
<1>4. CountsLoaded'
  BY TypedNumbers DEF CountsLoaded
<1> QED BY <1>1, <1>2, <1>3, <1>4

\* Every step of LiveCapture::run, and the baseline stays once set.
LEMMA CaptureKeepsInv ==
    ASSUME PipeInv, CaptureNext
    PROVE  PipeInv' /\ (baseline # None => baseline' = baseline)
<1> USE DEF PipeInv
<1>1. CASE CheckStop \/ ReadError
  <2> SUFFICES ASSUME UNCHANGED <<todo, emitted, baseline, ui, shared>>,
                      cap_pc \in {"check", "read"}, cap_pc' \in {"read", "done"}
               PROVE  PipeInv'
    BY <1>1 DEF CheckStop, ReadError
  <2> QED BY DEF PipeTypes, AtHandWhileSending, Accounted, Refused, GapsCounted,
                 CountsLoaded, HintHonest, AxisKept, ui, shared
<1>2. CASE ReadSegment
  <2>1. <<"segment">> \in Seq(EventKind)
    BY DEF EventKind
  <2>2. skips' \in Nat /\ skips <= skips'
    BY <1>2, TypedNumbers DEF ReadSegment
  <2> QED BY <1>2, <2>1, <2>2, PacketKeepsInv DEF ReadSegment
<1>3. CASE \E k \in 1 .. MaxNames : ReadNames(k)
  <2>1. PICK k \in 1 .. MaxNames : ReadNames(k)
    BY <1>3
  <2>2. [i \in 1 .. k |-> "name"] \in Seq(EventKind)
    BY PipelineAssumption DEF EventKind
  <2>3. skips' \in Nat /\ skips <= skips'
    BY <2>1, TypedNumbers DEF ReadNames
  <2> QED BY <2>1, <2>2, <2>3, PacketKeepsInv DEF ReadNames
<1>4. CASE \E diagnostic \in BOOLEAN : ReadSkipped(diagnostic)
  <2>1. Packet(<<>>) /\ skips' \in {skips, skips + 1}
    BY <1>4 DEF ReadSkipped
  <2>2. <<>> \in Seq(EventKind) /\ skips' \in Nat /\ skips <= skips'
    BY <2>1 DEF PipeTypes
  <2> QED BY <2>1, <2>2, PacketKeepsInv
<1>5. CASE ReadTimeout
  <2>1. PICK now \in 0 .. MaxClock :
           Emit(IF emitted < MaxEvents THEN <<"tick">> ELSE <<>>, now, tick(now))
    BY <1>5 DEF ReadTimeout
  <2> DEFINE kinds == IF emitted < MaxEvents THEN <<"tick">> ELSE <<>>
  <2>2. kinds \in Seq(EventKind)
    <3>1. <<"tick">> \in Seq(EventKind) /\ <<>> \in Seq(EventKind)
      BY DEF EventKind
    <3> QED BY <3>1
  <2>3. now \in Nat /\ now < now + Micro /\ now <= now
    BY PipelineAssumption
  <2>4. cap_pc = "read" /\ UNCHANGED <<ui, chan, dropped>> /\ skips' = skips /\ skips \in Nat
    BY <1>5 DEF ReadTimeout, shared, PipeTypes
  <2>5. Emit(kinds, now, normalize_ts(now)) /\ skips <= skips'
    BY <2>1, <2>4 DEF tick, PipeTypes
  <2> HIDE DEF kinds, PipeInv
  <2> QED BY <2>2, <2>3, <2>4, <2>5, ReadKeepsInv
<1>6. CASE TrySend
  BY <1>6, TrySendKeepsInv DEF TrySend
<1>7. CASE CountDrop
  BY <1>7, CountDropKeepsInv DEF CountDrop
<1> QED BY <1>1, <1>2, <1>3, <1>4, <1>5, <1>6, <1>7 DEF CaptureNext

-----------------------------------------------------------------------------
(***************************************************************************)
(* Every other step preserves it.                                          *)
(***************************************************************************)

\* Steps of the UI thread that neither drain nor touch the counts, and the environment's.
Quiet ==
    /\ UNCHANGED <<todo, emitted, baseline, chan, dropped, skips, d, received,
                   first_packet, status, hint>>
    /\ cap_pc' = cap_pc \/ (cap_pc = "unborn" /\ cap_pc' = "check")
    /\ \/ ui_pc' = ui_pc /\ cap_pc' = cap_pc
       \/ ui_pc' \notin {"frame", "args", "input"}
       \/ ui_pc = "args" /\ ui_pc' = "input"

LEMMA QuietKeepsInv ==
    ASSUME PipeInv, Quiet
    PROVE  PipeInv'
<1> USE DEF PipeInv, Quiet
<1>1. PipeTypes' /\ GapsCounted' /\ AxisKept'
  BY DEF PipeTypes, GapsCounted, AxisKept
<1>2. AtHandWhileSending'
  BY DEF AtHandWhileSending
<1>3. Accounted'
  <2>1. Refused' = Refused
    BY DEF Refused
  <2> QED BY <2>1 DEF Accounted
<1>4. CountsLoaded' /\ HintHonest'
  BY DEF CountsLoaded, HintHonest
<1> QED BY <1>1, <1>2, <1>3, <1>4

\* One turn of the drain moves the oldest event of the channel.
LEMMA DrainKeepsInv ==
    ASSUME PipeInv, Drain
    PROVE  PipeInv'
<1> USE DEF PipeInv
<1> DEFINE e == Head(chan)
<1>1. /\ chan # <<>> /\ e = chan[1] /\ e \in Event
      /\ chan' = Tail(chan) /\ chan' \in Seq(Event) /\ Len(chan') = Len(chan) - 1
      /\ \A k \in 1 .. Len(chan') : chan'[k] = chan[k + 1]
  BY DEF Drain, PipeTypes
<1>2. /\ received' = Append(received, e) /\ received' \in Seq(Event)
      /\ Len(received') = Len(received) + 1
      /\ \A k \in 1 .. Len(received) : received'[k] = received[k]
      /\ received'[Len(received) + 1] = e
  BY <1>1 DEF Drain, PipeTypes
<1>3. /\ UNCHANGED <<cap_pc, todo, emitted, baseline, dropped, skips, d, hint, status, ui_pc>>
      /\ first_packet' = (first_packet \/ e.kind = "segment")
      /\ ui_pc = "drain"
  BY DEF Drain, capture
<1>4. \A k \in 1 .. Len(received') : k \in 1 .. Len(received) \/ k = Len(received) + 1
  BY <1>2, TypedNumbers
<1> HIDE DEF e
<1>5. PipeTypes'
  <2>1. first_packet' \in BOOLEAN
    BY <1>3
  <2> QED BY <1>1, <1>2, <1>3, <2>1 DEF PipeTypes
<1>6. AtHandWhileSending' /\ AxisKept'
  BY <1>3 DEF AtHandWhileSending, AxisKept
<1>7. Accounted'
  <2>1. Refused' = Refused /\ Refused \in Nat
    BY <1>3 DEF Refused
  <2> QED BY <1>1, <1>2, <1>3, <2>1, TypedNumbers DEF Accounted
<1>8. GapsCounted'
  <2>1. \A k \in 1 .. Len(received') : received'[k].n - k <= dropped
    <3> SUFFICES ASSUME NEW k \in 1 .. Len(received')
                 PROVE  received'[k].n - k <= dropped
      OBVIOUS
    <3>1. CASE k \in 1 .. Len(received)
      BY <1>2, <3>1 DEF GapsCounted
    <3>2. CASE k = Len(received) + 1
      BY <1>1, <1>2, <3>2, TypedNumbers DEF GapsCounted
    <3> QED BY <1>4, <3>1, <3>2
  <2>2. \A k \in 1 .. Len(chan') : chan'[k].n - (Len(received') + k) <= dropped
    <3> SUFFICES ASSUME NEW k \in 1 .. Len(chan')
                 PROVE  chan'[k].n - (Len(received') + k) <= dropped
      OBVIOUS
    <3>1. k + 1 \in 1 .. Len(chan) /\ chan'[k] = chan[k + 1]
      BY <1>1, TypedNumbers
    <3>2. chan[k + 1].n - (Len(received) + (k + 1)) <= dropped
      BY <3>1 DEF GapsCounted
    <3>3. chan[k + 1].n \in Nat /\ Len(received) \in Nat /\ dropped \in Nat
      BY <3>1, TypedNumbers
    <3> QED BY <1>2, <3>1, <3>2, <3>3
  <2> QED BY <1>3, <2>1, <2>2 DEF GapsCounted
<1>9. CountsLoaded'
  BY <1>3 DEF CountsLoaded
<1>10. HintHonest'
  <2>1. ASSUME ~first_packet', NEW k \in 1 .. Len(received')
        PROVE  received'[k].kind # "segment"
    <3>1. ~first_packet /\ e.kind # "segment"
      BY <1>3, <2>1
    <3> QED BY <1>2, <1>4, <3>1 DEF HintHonest
  <2> QED BY <1>3, <2>1 DEF HintHonest
<1> QED BY <1>5, <1>6, <1>7, <1>8, <1>9, <1>10

\* Loading the counter after the drain covers every gap, and the frame shows that count.
LEMMA FrameKeepsInv ==
    ASSUME PipeInv, FrameNext
    PROVE  PipeInv'
<1> USE DEF PipeInv
<1>1. CASE Poll \/ EndDrain
  <2>1. Quiet
    BY <1>1 DEF Quiet, Poll, EndDrain, Advance, follows, capture, shared
  <2> QED BY <2>1, QuietKeepsInv
<1>2. CASE Drain
  BY <1>2, DrainKeepsInv
<1>3. CASE LoadDropped
  <2>1. /\ d' = dropped /\ ui_pc' = "frame" /\ UNCHANGED <<capture, received, first_packet>>
        /\ UNCHANGED <<status, hint, shared>>
    BY <1>3 DEF LoadDropped, Advance, follows
  <2>2. PipeTypes' /\ AtHandWhileSending' /\ Accounted' /\ GapsCounted' /\ AxisKept' /\ HintHonest'
    BY <2>1 DEF PipeTypes, AtHandWhileSending, Accounted, Refused, GapsCounted, AxisKept,
                HintHonest, capture, shared
  <2>3. CountsLoaded'
    BY <2>1, TypedNumbers DEF CountsLoaded, GapsCounted, shared
  <2> QED BY <2>2, <2>3
<1>4. CASE EndFrame
  <2>1. /\ status' = [dropped |-> d, approximate |-> d > 0, skipped |-> skips]
        /\ hint' = (~first_packet /\ past_grace) /\ ui_pc = "frame" /\ ui_pc' = "input"
        /\ UNCHANGED <<capture, d, received, first_packet, shared>>
    BY <1>4 DEF EndFrame, Advance, follows
  <2>2. /\ status'.dropped = d /\ status'.approximate = (d > 0) /\ status'.skipped = skips
        /\ status' \in [dropped : Nat, approximate : BOOLEAN, skipped : Nat]
    BY <2>1, TypedNumbers
  <2>3. hint' \in BOOLEAN
    BY <2>1
  <2>4. PipeTypes'
    BY <2>1, <2>2, <2>3 DEF PipeTypes, capture, shared
  <2>5. AtHandWhileSending' /\ Accounted' /\ GapsCounted' /\ AxisKept'
    BY <2>1 DEF AtHandWhileSending, Accounted, Refused, GapsCounted, AxisKept, capture, shared
  <2>6. CountsLoaded'
    <3>1. \A k \in 1 .. Len(received) : received[k].n - k <= d
      BY <2>1 DEF CountsLoaded
    <3>2. UNCHANGED <<d, received, dropped, skips>> /\ skips <= skips /\ d <= dropped
      BY <2>1, TypedNumbers DEF shared, CountsLoaded
    <3> QED BY <2>1, <2>2, <3>1, <3>2 DEF CountsLoaded
  <2>7. HintHonest'
    BY <2>1 DEF HintHonest
  <2> QED BY <2>4, <2>5, <2>6, <2>7
<1> QED BY <1>1, <1>2, <1>3, <1>4 DEF FrameNext

\* The invariant is inductive; with it, the baseline stays once set.
LEMMA NextKeepsInv ==
    ASSUME PipeInv, [Next]_vars
    PROVE  PipeInv' /\ (baseline # None => baseline' = baseline)
<1>1. CASE UNCHANGED vars
  <2>1. Quiet
    BY <1>1 DEF Quiet, vars, capture, ui, shared
  <2> QED BY <2>1, QuietKeepsInv DEF Quiet
<1>2. CASE \E result : Finish(result)
  <2>1. Quiet
    BY <1>2 DEF Quiet, Finish, capture, shared
  <2> QED BY <2>1, QuietKeepsInv DEF Quiet
<1>3. CASE \E device \in Device : Start(device)
  <2>1. Quiet
    BY <1>3 DEF Quiet, Start, shared, PipeInv, AtHandWhileSending
  <2> QED BY <2>1, QuietKeepsInv DEF Quiet
<1>4. CASE CaptureNext
  BY <1>4, CaptureKeepsInv
<1>5. CASE FrameNext
  BY <1>5, FrameKeepsInv DEF FrameNext, Poll, Drain, EndDrain, LoadDropped, EndFrame, capture
<1>6. CASE LeaveLoop \/ GuardNext \/ GraceElapses \/ Exited
  <2>1. Quiet
    BY <1>6 DEF Quiet, LeaveLoop, GuardNext, SetStop, Join, GraceElapses, Exited,
                vars, capture, ui, shared
  <2> QED BY <2>1, QuietKeepsInv DEF Quiet
<1> QED BY <1>1, <1>2, <1>3, <1>4, <1>5, <1>6
        DEF Next, SetupNext, ListInterfaces, RefuseArguments, OpenFails

-----------------------------------------------------------------------------
(***************************************************************************)
(* What follows for the frames and for the time axis.                      *)
(***************************************************************************)

\* The events received, waiting and dropped make up those emitted, in every state of
\* the two threads (LiveCapture::run, live_loop).
THEOREM PipelineInvariant == Spec => []PipeInv
<1>1. Init => PipeInv
  BY InitPipeInv
<1>2. PipeInv /\ [Next]_vars => PipeInv'
  BY NextKeepsInv
<1> QED BY <1>1, <1>2, PTL DEF Spec

\* The numbers of a sequence of events.
LEMMA NumbersOf ==
    ASSUME NEW T, NEW s \in Seq(T), \A x \in T : x.n \in Nat
    PROVE  /\ Numbers(s) \in Seq(Nat) /\ Len(Numbers(s)) = Len(s)
           /\ \A i \in 1 .. Len(s) : Numbers(s)[i] = s[i].n
<1>1. Len(s) \in Nat /\ DOMAIN s = 1 .. Len(s) /\ \A i \in 1 .. Len(s) : s[i].n \in Nat
  OBVIOUS
<1>2. Numbers(s) = [i \in 1 .. Len(s) |-> s[i].n]
  BY <1>1 DEF Numbers
<1> QED BY <1>1, <1>2

\* The gap before the newest event received is the distance of its number from its place.
LEMMA GapsOfReceived ==
    ASSUME PipeTypes
    PROVE  /\ Feed!Gaps \in Int
           /\ \A bound \in Nat :
                 (\A k \in 1 .. Len(received) : received[k].n - k <= bound) => Feed!Gaps <= bound
<1> DEFINE numbers == Numbers(received)
<1>1. /\ numbers \in Seq(Nat) /\ Len(numbers) = Len(received)
      /\ \A k \in 1 .. Len(received) : numbers[k] = received[k].n
  <2>1. \A x \in Event : x.n \in Nat
    BY DEF Event
  <2> QED BY <2>1, NumbersOf DEF PipeTypes
<1>2. Feed!Gaps = IF numbers = <<>> THEN 0 ELSE numbers[Len(numbers)] - Len(numbers)
  BY DEF Feed!Gaps, Feed!Last
<1> HIDE DEF numbers
<1>3. numbers # <<>> => /\ Len(received) \in 1 .. Len(received)
                        /\ Feed!Gaps = received[Len(received)].n - Len(received)
  BY <1>1, <1>2
<1>4. numbers = <<>> => Feed!Gaps = 0
  BY <1>2
<1> QED BY <1>3, <1>4, TypedNumbers, SMTT(30)

\* Every frame admits the losses before the newest event it shows, counts nothing that
\* has not happened and takes the silent-link advisory back with the first segment
\* (main.rs run_live_command: the drop count is loaded after the drain).
THEOREM FramesAreHonest == Spec => []FrameHonest
<1>1. PipeInv => FrameHonest
  <2> SUFFICES ASSUME PipeInv, ui_pc = "input" PROVE FrameHonest!2
    BY DEF FrameHonest
  <2> USE DEF PipeInv
  <2>1. status.dropped \in Feed!Gaps .. dropped
    <3>1. Feed!Gaps \in Int /\ Feed!Gaps <= status.dropped
      BY GapsOfReceived, TypedNumbers DEF CountsLoaded
    <3> QED BY <3>1, TypedNumbers DEF CountsLoaded
  <2>2. hint => "segment" \notin Seen
    BY DEF HintHonest, Seen, PipeTypes
  <2> QED BY <2>1, <2>2 DEF CountsLoaded
<1> QED BY <1>1, PipelineInvariant, PTL

\* Packets and ticks are placed on one axis whose origin, once set, stays (live.rs
\* normalize_ts), for every clock, also one that is set back.
THEOREM TimeAxisIsOne == Spec => OneTimeAxis
<1> DEFINE Kept == /\ baseline # None => baseline' = baseline
                   /\ \A i \in DOMAIN todo' :
                         LET apart == todo'[i].at - baseline'
                             told  == todo'[i].ts
                         IN  /\ told >= 0 /\ told > apart - Micro
                             /\ told <= apart \/ told = 0
<1>1. PipeInv /\ [Next]_vars => Kept
  <2> SUFFICES ASSUME PipeInv, [Next]_vars PROVE Kept
    OBVIOUS
  <2>1. PipeInv' /\ (baseline # None => baseline' = baseline)
    BY NextKeepsInv
  <2>2. DOMAIN todo' = 1 .. Len(todo')
    BY <2>1 DEF PipeInv, PipeTypes
  <2> QED BY <2>1, <2>2 DEF PipeInv, AxisKept, OnAxis
<1>2. PipeInv /\ [Next]_vars => [Kept]_vars
  BY <1>1
<1> QED BY <1>2, PipelineInvariant, PTL DEF Spec, OneTimeAxis

-----------------------------------------------------------------------------
(***************************************************************************)
(* The steps implement those of LossyFeed.                                 *)
(***************************************************************************)

\* What waits for the UI: first the channel, then what the capture thread has at hand.
LEMMA WaitingIs ==
    ASSUME NEW c \in Seq(Event), NEW t \in Seq(EventAtHand)
    PROVE  /\ Numbers(c \o t) \in Seq(Nat)
           /\ Len(c) \in Nat /\ Len(t) \in Nat
           /\ Len(Numbers(c \o t)) = Len(c) + Len(t)
           /\ \A i \in 1 .. Len(c) : Numbers(c \o t)[i] = c[i].n
           /\ \A i \in 1 .. Len(t) : Numbers(c \o t)[Len(c) + i] = t[i].n
<1> DEFINE T == Event \cup EventAtHand
<1>1. \A x \in T : x.n \in Nat
  BY DEF Event, EventAtHand
<1>2. c \in Seq(T) /\ t \in Seq(T) /\ Len(c) \in Nat /\ Len(t) \in Nat
  BY SeqMonotonic, LenProperties
<1> HIDE DEF T
<1>3. /\ c \o t \in Seq(T) /\ Len(c \o t) = Len(c) + Len(t)
      /\ \A i \in 1 .. Len(c) + Len(t) :
            (c \o t)[i] = IF i <= Len(c) THEN c[i] ELSE t[i - Len(c)]
  BY <1>2, ConcatProperties
<1>4. /\ Numbers(c \o t) \in Seq(Nat) /\ Len(Numbers(c \o t)) = Len(c) + Len(t)
      /\ \A i \in 1 .. Len(c) + Len(t) : Numbers(c \o t)[i] = (c \o t)[i].n
  BY <1>1, <1>3, NumbersOf
<1>5. \A i \in 1 .. Len(c) : i \in 1 .. Len(c) + Len(t) /\ i <= Len(c)
  BY <1>2
<1>6. \A i \in 1 .. Len(t) : /\ Len(c) + i \in 1 .. Len(c) + Len(t) /\ ~(Len(c) + i <= Len(c))
                            /\ (Len(c) + i) - Len(c) = i
  BY <1>2
<1>7. \A i \in 1 .. Len(c) : Numbers(c \o t)[i] = c[i].n
  BY <1>3, <1>4, <1>5
<1>8. \A i \in 1 .. Len(t) : Numbers(c \o t)[Len(c) + i] = t[i].n
  <2> SUFFICES ASSUME NEW i \in 1 .. Len(t) PROVE Numbers(c \o t)[Len(c) + i] = t[i].n
    OBVIOUS
  <2>1. Numbers(c \o t)[Len(c) + i] = (c \o t)[Len(c) + i].n
    BY <1>4, <1>6
  <2>2. (c \o t)[Len(c) + i] = t[(Len(c) + i) - Len(c)]
    BY <1>3, <1>6
  <2> QED BY <1>6, <2>1, <2>2
<1> QED BY <1>2, <1>4, <1>7, <1>8

\* The feed's variables, as this module reads them.
FeedSame == UNCHANGED <<emitted, chan, todo, received, dropped, status>>

\* A step that leaves them alone and moves cap_pc and ui_pc within the loop is a stutter.
LEMMA QuietIsStutter ==
    ASSUME FeedSame, cap_pc' = "count" <=> cap_pc = "count",
           ui_pc' \in {"dropping", "joining", "exited"} <=>
               ui_pc \in {"dropping", "joining", "exited"}
    PROVE  UNCHANGED Feed!vars
BY DEF FeedSame, Feed!vars, Numbers

\* Reading a packet or timing out produces events, or nothing.
LEMMA ReadProduces ==
    ASSUME PipeInv, PipeInv', cap_pc = "read", UNCHANGED <<ui, chan, dropped>>,
           NEW kinds \in Seq(EventKind), NEW at, NEW time, Emit(kinds, at, time)
    PROVE  [Feed!Next]_(Feed!vars)
<1> USE DEF PipeInv
<1>1. /\ todo = <<>> /\ emitted' = emitted + Len(kinds) /\ Len(todo') = Len(kinds)
      /\ Len(kinds) \in Nat /\ cap_pc' # "count"
  <2>1. DOMAIN todo' = DOMAIN kinds
    BY DEF Emit
  <2> QED BY <2>1, LenProperties DEF Emit, AtHandWhileSending, PipeTypes
<1>2. UNCHANGED <<received, status, ui_pc, chan, dropped>>
  BY DEF ui
<1>3. CASE kinds = <<>>
  <2>1. todo' = <<>> /\ emitted' = emitted
    BY <1>1, <1>3, TypedNumbers, EmptySeq DEF PipeTypes
  <2> QED BY <1>1, <1>2, <2>1, QuietIsStutter DEF FeedSame
<1>4. CASE kinds # <<>>
  <2> DEFINE before == Numbers(chan \o todo)
             after  == Numbers(chan' \o todo')
             fresh  == [i \in 1 .. emitted' - emitted |-> emitted + i]
  <2>1. emitted' \in Nat /\ emitted' > emitted /\ emitted' - emitted = Len(kinds)
    BY <1>1, <1>4, TypedNumbers, EmptySeq
  <2>2. /\ fresh \in Seq(Nat) /\ Len(fresh) = Len(kinds)
        /\ \A i \in 1 .. Len(kinds) : fresh[i] = emitted + i
    <3>1. fresh = [i \in 1 .. Len(kinds) |-> emitted + i]
      BY <2>1
    <3>2. emitted \in Nat /\ \A i \in 1 .. Len(kinds) : emitted + i \in Nat
      BY <1>1, TypedNumbers
    <3> HIDE DEF fresh
    <3> QED BY <1>1, <3>1, <3>2
  <2>3. /\ before \in Seq(Nat) /\ Len(before) = Len(chan)
        /\ \A i \in 1 .. Len(chan) : before[i] = chan[i].n
    <3>1. chan \in Seq(Event) /\ todo \in Seq(EventAtHand) /\ Len(todo) = 0
      BY <1>1 DEF PipeTypes
    <3> HIDE DEF PipeInv
    <3>2. /\ before \in Seq(Nat) /\ Len(chan) \in Nat
          /\ Len(before) = Len(chan) + Len(todo)
          /\ \A i \in 1 .. Len(chan) : before[i] = chan[i].n
      BY <3>1, WaitingIs, Zenon
    <3> QED BY <3>1, <3>2
  <2>4. /\ after \in Seq(Nat) /\ Len(after) = Len(chan) + Len(kinds)
        /\ \A i \in 1 .. Len(chan) : after[i] = chan[i].n
        /\ \A i \in 1 .. Len(kinds) : after[Len(chan) + i] = todo'[i].n
    <3>1. chan' \in Seq(Event) /\ todo' \in Seq(EventAtHand) /\ Len(todo') = Len(kinds)
      BY <1>1 DEF PipeTypes
    <3> HIDE DEF PipeInv
    <3>2. /\ after \in Seq(Nat) /\ Len(after) = Len(chan') + Len(todo')
          /\ \A i \in 1 .. Len(chan') : after[i] = chan'[i].n
          /\ \A i \in 1 .. Len(todo') : after[Len(chan') + i] = todo'[i].n
      BY <3>1, WaitingIs, Zenon
    <3> HIDE DEF after
    <3> QED BY <1>2, <3>1, <3>2
  <2>5. \A i \in 1 .. Len(kinds) : todo'[i].n = emitted + i
    BY <1>1, TypedNumbers DEF Accounted
  <2> HIDE DEF before, after, fresh
  <2>6. /\ before \o fresh \in Seq(Nat) /\ Len(before \o fresh) = Len(chan) + Len(kinds)
        /\ \A i \in 1 .. Len(chan) + Len(kinds) :
              (before \o fresh)[i] = IF i <= Len(chan) THEN before[i] ELSE fresh[i - Len(chan)]
    <3>1. /\ before \o fresh \in Seq(Nat)
          /\ Len(before \o fresh) = Len(before) + Len(fresh)
          /\ \A i \in 1 .. Len(before) + Len(fresh) :
                (before \o fresh)[i] = IF i <= Len(before) THEN before[i]
                                       ELSE fresh[i - Len(before)]
      BY <2>2, <2>3, ConcatProperties, ZenonT(40)
    <3> QED BY <2>2, <2>3, <3>1
  <2>7. \A i \in 1 .. Len(after) : after[i] = (before \o fresh)[i]
    <3> SUFFICES ASSUME NEW i \in 1 .. Len(chan) + Len(kinds)
                 PROVE  after[i] = (before \o fresh)[i]
      BY <2>4
    <3>1. CASE i <= Len(chan)
      <4>1. i \in 1 .. Len(chan)
        BY <3>1, TypedNumbers
      <4> QED BY <2>3, <2>4, <2>6, <3>1, <4>1
    <3>2. CASE ~(i <= Len(chan))
      <4>1. i - Len(chan) \in 1 .. Len(kinds) /\ i = Len(chan) + (i - Len(chan))
        BY <1>1, <3>2, TypedNumbers
      <4> QED BY <2>2, <2>4, <2>5, <2>6, <3>2, <4>1
    <3> QED BY <3>1, <3>2
  <2>8. after = before \o fresh
    BY <2>4, <2>6, <2>7, SeqEqual
  <2>9. Feed!Produce
    BY <1>1, <1>2, <2>1, <2>8 DEF Feed!Produce, Numbers, before, after, fresh
  <2> QED BY <2>9 DEF Feed!Next
<1> QED BY <1>3, <1>4

\* Passing the oldest event at hand to the channel changes nothing in what waits.
LEMMA SendKeepsWaiting ==
    ASSUME NEW c \in Seq(Event), NEW t \in Seq(EventAtHand), t # <<>>,
           NEW e \in Event, e.n = t[1].n
    PROVE  Numbers(Append(c, e) \o Tail(t)) = Numbers(c \o t)
<1> DEFINE before == Numbers(c \o t)
           longer == Append(c, e)
           after  == Numbers(longer \o Tail(t))
<1>1. /\ longer \in Seq(Event) /\ Len(longer) = Len(c) + 1
      /\ \A i \in 1 .. Len(c) : longer[i] = c[i]
      /\ longer[Len(c) + 1] = e
  OBVIOUS
<1>2. /\ Tail(t) \in Seq(EventAtHand) /\ Len(Tail(t)) = Len(t) - 1
      /\ Len(t) \in Nat \ {0}
      /\ \A i \in 1 .. Len(t) - 1 : Tail(t)[i] = t[i + 1]
  OBVIOUS
<1> HIDE DEF longer
<1>3. /\ before \in Seq(Nat) /\ Len(before) = Len(c) + Len(t) /\ Len(c) \in Nat
      /\ \A i \in 1 .. Len(c) : before[i] = c[i].n
      /\ \A i \in 1 .. Len(t) : before[Len(c) + i] = t[i].n
  BY WaitingIs, Zenon
<1>4. /\ after \in Seq(Nat) /\ Len(after) = Len(longer) + Len(Tail(t))
      /\ \A i \in 1 .. Len(longer) : after[i] = longer[i].n
      /\ \A i \in 1 .. Len(Tail(t)) : after[Len(longer) + i] = Tail(t)[i].n
  BY <1>1, <1>2, WaitingIs, Zenon
<1> HIDE DEF before, after
<1>5. Len(after) = Len(before)
  BY <1>1, <1>2, <1>3, <1>4
<1>6. ASSUME NEW i \in 1 .. Len(after) PROVE after[i] = before[i]
  <2>1. CASE i \in 1 .. Len(c)
    <3>1. i \in 1 .. Len(longer)
      BY <1>1, <1>3, <2>1
    <3> QED BY <1>1, <1>3, <1>4, <2>1, <3>1, ZenonT(40)
  <2>2. CASE i = Len(c) + 1
    <3>1. after[Len(c) + 1] = e.n
      <4>1. Len(c) + 1 \in 1 .. Len(longer)
        BY <1>1, <1>3
      <4> QED BY <1>1, <1>4, <4>1
    <3>2. 1 \in 1 .. Len(t)
      BY <1>2
    <3>3. before[Len(c) + 1] = t[1].n
      BY <1>3, <3>2
    <3> QED BY <2>2, <3>1, <3>3
  <2>3. CASE i \notin 1 .. Len(c) /\ i # Len(c) + 1
    <3> DEFINE j == i - (Len(c) + 1)
    <3>1. /\ j \in 1 .. Len(t) - 1 /\ i = Len(longer) + j
          /\ j + 1 \in 1 .. Len(t) /\ i = Len(c) + (j + 1)
      <4>1. /\ Len(c) \in Nat /\ Len(t) \in Nat \ {0} /\ i \in 1 .. Len(c) + Len(t)
            /\ Len(longer) = Len(c) + 1
        BY <1>1, <1>2, <1>3, <1>5
      <4> QED BY <2>3, <4>1
    <3> HIDE DEF j
    <3>2. after[Len(longer) + j] = t[j + 1].n
      BY <1>2, <1>4, <3>1
    <3>3. before[Len(c) + (j + 1)] = t[j + 1].n
      BY <1>3, <3>1
    <3> QED BY <3>1, <3>2, <3>3
  <2> QED BY <2>1, <2>2, <2>3
<1>7. after = before
  BY <1>3, <1>4, <1>5, <1>6, SeqEqual
<1> QED BY <1>7 DEF after, before, longer

\* Refusing it takes it out of the middle of what waits.
LEMMA RefuseRemoves ==
    ASSUME NEW c \in Seq(Event), NEW t \in Seq(EventAtHand), t # <<>>
    PROVE  /\ Numbers(c \o Tail(t)) = Feed!RemoveAt(Numbers(c \o t), Len(c) + 1)
           /\ Len(c) + 1 <= Len(Numbers(c \o t))
<1> DEFINE before == Numbers(c \o t)
           after  == Numbers(c \o Tail(t))
           front  == SubSeq(before, 1, Len(c))
           back   == SubSeq(before, Len(c) + 2, Len(before))
<1>1. /\ Tail(t) \in Seq(EventAtHand) /\ Len(Tail(t)) = Len(t) - 1
      /\ Len(t) \in Nat \ {0}
      /\ \A i \in 1 .. Len(t) - 1 : Tail(t)[i] = t[i + 1]
  OBVIOUS
<1>2. /\ before \in Seq(Nat) /\ Len(before) = Len(c) + Len(t) /\ Len(c) \in Nat
      /\ \A i \in 1 .. Len(c) : before[i] = c[i].n
      /\ \A i \in 1 .. Len(t) : before[Len(c) + i] = t[i].n
  BY WaitingIs, Zenon
<1>3. /\ after \in Seq(Nat) /\ Len(after) = Len(c) + Len(Tail(t))
      /\ \A i \in 1 .. Len(c) : after[i] = c[i].n
      /\ \A i \in 1 .. Len(Tail(t)) : after[Len(c) + i] = Tail(t)[i].n
  BY <1>1, WaitingIs, Zenon
<1> HIDE DEF before, after
<1>4. \A i \in 1 .. Len(before) : before[i] \in Nat
  BY <1>2, ElementOfSeq
<1>5. /\ front \in Seq(Nat) /\ Len(front) = Len(c)
      /\ \A i \in 1 .. Len(c) : front[i] = before[i]
  BY <1>1, <1>2, <1>4
<1>6. /\ back \in Seq(Nat) /\ Len(back) = Len(t) - 1
      /\ \A i \in 1 .. Len(t) - 1 : back[i] = before[Len(c) + 1 + i]
  <2> DEFINE lo == Len(c) + 2
             hi == Len(before)
  <2>0. lo \in Int /\ hi \in Int /\ \A i \in lo .. hi : before[i] \in Nat
    BY <1>1, <1>2, <1>4
  <2>1. /\ hi - lo + 1 = Len(t) - 1
        /\ (IF lo <= hi THEN hi - lo + 1 ELSE 0) = Len(t) - 1
        /\ \A i \in 1 .. Len(t) - 1 : lo + i - 1 = Len(c) + 1 + i
    BY <1>1, <1>2, <1>4
  <2> HIDE DEF lo, hi
  <2>2. /\ SubSeq(before, lo, hi) \in Seq(Nat)
        /\ Len(SubSeq(before, lo, hi)) = IF lo <= hi THEN hi - lo + 1 ELSE 0
        /\ \A i \in 1 .. hi - lo + 1 : SubSeq(before, lo, hi)[i] = before[lo + i - 1]
    BY <2>0, SubSeqProperties
  <2>3. back = SubSeq(before, lo, hi)
    BY DEF lo, hi
  <2> HIDE DEF back
  <2> QED BY <2>1, <2>2, <2>3
<1> HIDE DEF front, back
<1>7. /\ front \o back \in Seq(Nat) /\ Len(front \o back) = Len(front) + Len(back)
      /\ \A i \in 1 .. Len(front) + Len(back) :
            (front \o back)[i] = IF i <= Len(front) THEN front[i] ELSE back[i - Len(front)]
  <2>1. front \in Seq(Nat) /\ back \in Seq(Nat)
    BY <1>5, <1>6
  <2> QED BY <2>1, ConcatProperties, Zenon
<1>8. Len(after) = Len(front \o back)
  BY <1>1, <1>3, <1>5, <1>6, <1>7
<1>9. ASSUME NEW i \in 1 .. Len(after) PROVE after[i] = (front \o back)[i]
  <2>1. CASE i \in 1 .. Len(c)
    BY <1>1, <1>2, <1>3, <1>5, <1>6, <1>7, <2>1
  <2>2. CASE i \notin 1 .. Len(c)
    <3> DEFINE j == i - Len(c)
    <3>1. /\ j \in 1 .. Len(t) - 1 /\ i = Len(c) + j /\ j + 1 \in 1 .. Len(t)
          /\ Len(c) + 1 + j = Len(c) + (j + 1)
          /\ i \in 1 .. Len(front) + Len(back) /\ ~(i <= Len(front)) /\ i - Len(front) = j
      <4>1. /\ Len(c) \in Nat /\ Len(t) \in Nat \ {0} /\ i \in 1 .. Len(c) + (Len(t) - 1)
            /\ Len(front) = Len(c) /\ Len(back) = Len(t) - 1
        BY <1>1, <1>2, <1>3, <1>5, <1>6
      <4> QED BY <2>2, <4>1
    <3> HIDE DEF j
    <3>2. after[i] = t[j + 1].n
      BY <1>1, <1>3, <3>1
    <3>3. (front \o back)[i] = back[j]
      BY <1>7, <3>1
    <3>4. back[j] = t[j + 1].n
      BY <1>2, <1>6, <3>1
    <3> QED BY <3>2, <3>3, <3>4
  <2> QED BY <2>1, <2>2
<1>10. after = front \o back
  BY <1>3, <1>7, <1>8, <1>9, SeqEqual
<1>11. Feed!RemoveAt(before, Len(c) + 1) = front \o back
  <2>1. (Len(c) + 1) - 1 = Len(c) /\ (Len(c) + 1) + 1 = Len(c) + 2
    BY <1>2
  <2> QED BY <2>1, Zenon DEF Feed!RemoveAt, front, back
<1>12. Len(c) + 1 <= Len(before)
  BY <1>1, <1>2
<1> QED BY <1>10, <1>11, <1>12, Zenon DEF after, before

\* Draining takes the first of what waits.
LEMMA DrainTakesFirst ==
    ASSUME NEW c \in Seq(Event), NEW t \in Seq(EventAtHand), c # <<>>
    PROVE  /\ Numbers(c \o t) # <<>>
           /\ Head(Numbers(c \o t)) = Head(c).n
           /\ Numbers(Tail(c) \o t) = Tail(Numbers(c \o t))
<1> DEFINE before == Numbers(c \o t)
           rest   == Tail(c)
           after  == Numbers(rest \o t)
<1>1. /\ rest \in Seq(Event) /\ Len(rest) = Len(c) - 1
      /\ Len(c) \in Nat \ {0} /\ Head(c) = c[1]
      /\ \A i \in 1 .. Len(c) - 1 : rest[i] = c[i + 1]
  OBVIOUS
<1> HIDE DEF rest
<1>2. /\ before \in Seq(Nat) /\ Len(before) = Len(c) + Len(t) /\ Len(t) \in Nat
      /\ \A i \in 1 .. Len(c) : before[i] = c[i].n
      /\ \A i \in 1 .. Len(t) : before[Len(c) + i] = t[i].n
  BY WaitingIs, Zenon
<1>3. /\ after \in Seq(Nat) /\ Len(after) = Len(rest) + Len(t)
      /\ \A i \in 1 .. Len(rest) : after[i] = rest[i].n
      /\ \A i \in 1 .. Len(t) : after[Len(rest) + i] = t[i].n
  BY <1>1, WaitingIs, Zenon
<1> HIDE DEF before, after
<1>4. before # <<>> /\ Head(before) = before[1]
  BY <1>1, <1>2
<1>5. Head(before) = Head(c).n
  BY <1>1, <1>2, <1>4
<1>6. /\ Tail(before) \in Seq(Nat) /\ Len(Tail(before)) = Len(before) - 1
      /\ \A i \in 1 .. Len(Tail(before)) : Tail(before)[i] = before[i + 1]
  BY <1>2, <1>4, HeadTailProperties
<1>7. Len(after) = Len(Tail(before))
  BY <1>1, <1>2, <1>3, <1>6
<1>8. ASSUME NEW i \in 1 .. Len(after) PROVE after[i] = Tail(before)[i]
  <2>1. Tail(before)[i] = before[i + 1]
    BY <1>6, <1>7
  <2>2. i \in 1 .. (Len(c) - 1) + Len(t)
    BY <1>1, <1>3
  <2>3. CASE i \in 1 .. Len(c) - 1
    <3>1. i \in 1 .. Len(rest) /\ i + 1 \in 1 .. Len(c)
      BY <1>1, <2>3
    <3> QED BY <1>1, <1>2, <1>3, <2>1, <2>3, <3>1
  <2>4. CASE i \notin 1 .. Len(c) - 1
    <3> DEFINE j == i - (Len(c) - 1)
    <3>1. j \in 1 .. Len(t) /\ i = (Len(c) - 1) + j /\ i + 1 = Len(c) + j
      BY <1>1, <1>2, <2>2, <2>4
    <3> HIDE DEF j
    <3>2. after[i] = t[j].n
      BY <1>1, <1>3, <3>1
    <3>3. before[i + 1] = t[j].n
      BY <1>2, <3>1
    <3> QED BY <2>1, <3>2, <3>3
  <2> QED BY <2>3, <2>4
<1>9. after = Tail(before)
  BY <1>3, <1>6, <1>7, <1>8, SeqEqual
<1> QED BY <1>4, <1>5, <1>9 DEF before, after, rest

\* The numbers of a longer sequence.
LEMMA NumbersAppend ==
    ASSUME NEW s \in Seq(Event), NEW e \in Event
    PROVE  Numbers(Append(s, e)) = Append(Numbers(s), e.n)
<1>1. \A x \in Event : x.n \in Nat
  BY DEF Event
<1> DEFINE longer == Append(s, e)
           left   == Numbers(longer)
           right  == Append(Numbers(s), e.n)
<1>2. /\ longer \in Seq(Event) /\ Len(longer) = Len(s) + 1 /\ Len(s) \in Nat
      /\ \A i \in 1 .. Len(s) : longer[i] = s[i]
      /\ longer[Len(s) + 1] = e
  OBVIOUS
<1> HIDE DEF longer
<1>3. /\ Numbers(s) \in Seq(Nat) /\ Len(Numbers(s)) = Len(s)
      /\ \A i \in 1 .. Len(s) : Numbers(s)[i] = s[i].n
  BY <1>1, NumbersOf
<1>4. /\ left \in Seq(Nat) /\ Len(left) = Len(longer)
      /\ \A i \in 1 .. Len(longer) : left[i] = longer[i].n
  BY <1>1, <1>2, NumbersOf
<1>5. /\ right \in Seq(Nat) /\ Len(right) = Len(s) + 1
      /\ \A i \in 1 .. Len(s) : right[i] = s[i].n
      /\ right[Len(s) + 1] = e.n
  BY <1>1, <1>2, <1>3
<1> HIDE DEF left, right
<1>6. ASSUME NEW i \in 1 .. Len(s) + 1 PROVE left[i] = right[i]
  <2>1. CASE i \in 1 .. Len(s)
    BY <1>2, <1>4, <1>5, <2>1
  <2>2. CASE i = Len(s) + 1
    <3>1. Len(s) + 1 \in 1 .. Len(longer)
      BY <1>2
    <3> QED BY <1>2, <1>4, <1>5, <2>2, <3>1
  <2> QED BY <1>2, <2>1, <2>2
<1>7. left = right
  BY <1>2, <1>4, <1>5, <1>6, SeqEqual
<1> QED BY <1>7 DEF left, right, longer

\* The capture thread: reads produce, a refused try_send loses behind a full channel,
\* and passing events on and counting them are steps of the implementation only.
LEMMA CaptureImplements ==
    ASSUME PipeInv, PipeInv', CaptureNext
    PROVE  [Feed!Next]_(Feed!vars)
<1> USE DEF PipeInv
<1>1. CASE CheckStop \/ ReadError
  BY <1>1, QuietIsStutter DEF CheckStop, ReadError, FeedSame, ui, shared
<1>2. ASSUME NEW kinds \in Seq(EventKind), Packet(kinds)
      PROVE  [Feed!Next]_(Feed!vars)
  BY <1>2, ReadProduces DEF Packet
<1>3. CASE ReadSegment
  <2>1. <<"segment">> \in Seq(EventKind)
    BY DEF EventKind
  <2> QED BY <1>2, <1>3, <2>1 DEF ReadSegment
<1>4. CASE \E k \in 1 .. MaxNames : ReadNames(k)
  <2>1. PICK k \in 1 .. MaxNames : ReadNames(k)
    BY <1>4
  <2>2. [i \in 1 .. k |-> "name"] \in Seq(EventKind)
    BY PipelineAssumption DEF EventKind
  <2> QED BY <1>2, <2>1, <2>2 DEF ReadNames
<1>5. CASE \E diagnostic \in BOOLEAN : ReadSkipped(diagnostic)
  <2>1. Packet(<<>>) /\ <<>> \in Seq(EventKind)
    BY <1>5 DEF ReadSkipped
  <2> QED BY <1>2, <2>1
<1>6. CASE ReadTimeout
  <2>1. PICK now \in 0 .. MaxClock :
           Emit(IF emitted < MaxEvents THEN <<"tick">> ELSE <<>>, now, tick(now))
    BY <1>6 DEF ReadTimeout
  <2> DEFINE kinds == IF emitted < MaxEvents THEN <<"tick">> ELSE <<>>
  <2>2. kinds \in Seq(EventKind)
    <3>1. <<"tick">> \in Seq(EventKind) /\ <<>> \in Seq(EventKind)
      BY DEF EventKind
    <3> QED BY <3>1
  <2>3. cap_pc = "read" /\ UNCHANGED <<ui, chan, dropped>>
    BY <1>6 DEF ReadTimeout, shared
  <2> HIDE DEF PipeInv
  <2> QED BY <2>1, <2>2, <2>3, ReadProduces
<1>7. CASE TrySend
  <2> DEFINE e == [kind |-> Head(todo).kind, n |-> Head(todo).n]
  <2>1. /\ chan \in Seq(Event) /\ todo \in Seq(EventAtHand) /\ todo # <<>>
        /\ todo' = Tail(todo) /\ Head(todo) = todo[1] /\ todo[1] \in EventAtHand
        /\ UNCHANGED <<emitted, received, dropped, status, ui_pc>> /\ cap_pc = "send"
    BY <1>7 DEF TrySend, PipeTypes, AtHandWhileSending, ui
  <2>2. e \in Event /\ e.n = todo[1].n
    BY <2>1 DEF Event, EventAtHand
  <2>3. CASE Len(chan) < Cap
    <3>1. chan' = Append(chan, e) /\ cap_pc' # "count"
      BY <1>7, <2>3 DEF TrySend
    <3> HIDE DEF e, PipeInv
    <3>2. Numbers(chan' \o todo') = Numbers(chan \o todo)
      BY <2>1, <2>2, <3>1, SendKeepsWaiting, Zenon
    <3>3. UNCHANGED Feed!vars
      BY <2>1, <3>1, <3>2 DEF Feed!vars, Numbers
    <3> QED BY <3>3
  <2>4. CASE ~(Len(chan) < Cap)
    <3> DEFINE i == Len(chan) + 1
               before == Numbers(chan \o todo)
    <3>1. UNCHANGED chan /\ cap_pc' = "count"
      BY <1>7, <2>4 DEF TrySend
    <3>2. i \in Nat /\ Cap + 1 <= i /\ Len(before) \in Nat
      <4>1. Len(chan) \in Nat /\ Len(todo) \in Nat /\ Len(before) = Len(chan) + Len(todo)
        BY <2>1, WaitingIs, Zenon
      <4> QED BY <2>4, <4>1, PipelineAssumption
    <3> HIDE DEF PipeInv
    <3>3. /\ Numbers(chan' \o todo') = Feed!RemoveAt(before, i)
          /\ i <= Len(before)
      BY <2>1, <3>1, RefuseRemoves, Zenon
    <3> HIDE DEF i
    <3>4. i \in Cap + 1 .. Len(before)
      BY <3>2, <3>3, PipelineAssumption
    <3>5. Feed!Lose
      <4>1. dropped' + (IF cap_pc' = "count" THEN 1 ELSE 0)
               = dropped + (IF cap_pc = "count" THEN 1 ELSE 0) + 1
        <5>1. dropped \in Nat
          BY TypedNumbers DEF PipeInv
        <5> QED BY <2>1, <3>1, <5>1
      <4>2. /\ emitted' = emitted /\ Numbers(received)' = Numbers(received)
            /\ status'.dropped = status.dropped /\ ui_pc' = ui_pc
        BY <2>1 DEF Numbers
      <4> QED BY <3>3, <3>4, <4>1, <4>2, Zenon DEF Feed!Lose
    <3> QED BY <3>5 DEF Feed!Next
  <2> QED BY <2>3, <2>4
<1>8. CASE CountDrop
  <2>1. /\ UNCHANGED <<emitted, chan, todo, received, status, ui_pc>>
        /\ cap_pc = "count" /\ cap_pc' # "count" /\ dropped' = dropped + 1 /\ dropped \in Nat
    BY <1>8, TypedNumbers DEF CountDrop, ui
  <2> HIDE DEF PipeInv
  <2> QED BY <2>1 DEF Feed!vars, Numbers
<1> QED BY <1>1, <1>3, <1>4, <1>5, <1>6, <1>7, <1>8 DEF CaptureNext

\* The UI thread: the drain delivers, the end of a frame publishes its drop count.
LEMMA FrameImplements ==
    ASSUME PipeInv, FrameNext
    PROVE  [Feed!Next]_(Feed!vars)
<1> USE DEF PipeInv
<1>1. CASE Poll \/ EndDrain \/ LoadDropped
  BY <1>1, QuietIsStutter
     DEF Poll, EndDrain, LoadDropped, Advance, follows, FeedSame, capture, shared
<1>2. CASE Drain
  <2>1. /\ chan \in Seq(Event) /\ todo \in Seq(EventAtHand) /\ received \in Seq(Event)
        /\ chan # <<>> /\ chan' = Tail(chan) /\ received' = Append(received, Head(chan))
        /\ Head(chan) \in Event
        /\ UNCHANGED <<emitted, todo, cap_pc, dropped, status, ui_pc>> /\ ui_pc = "drain"
    BY <1>2 DEF Drain, PipeTypes, capture
  <2> HIDE DEF PipeInv
  <2>2. /\ Numbers(chan \o todo) # <<>>
        /\ Head(Numbers(chan \o todo)) = Head(chan).n
        /\ Numbers(chan' \o todo') = Tail(Numbers(chan \o todo))
    BY <2>1, DrainTakesFirst, Zenon
  <2>3. Numbers(received') = Append(Numbers(received), Head(chan).n)
    BY <2>1, NumbersAppend, Zenon
  <2>4. Feed!Deliver
    BY <2>1, <2>2, <2>3 DEF Feed!Deliver
  <2> QED BY <2>4 DEF Feed!Next
<1>3. CASE EndFrame
  <2>1. /\ status'.dropped = d /\ ui_pc = "frame" /\ ui_pc' = "input"
        /\ UNCHANGED <<emitted, chan, todo, cap_pc, dropped, received>>
    BY <1>3 DEF EndFrame, Advance, follows, capture, shared
  <2>2. Feed!Gaps \in Int /\ Feed!Gaps <= d /\ d <= dropped /\ d \in Nat /\ dropped \in Nat
    BY <2>1, GapsOfReceived, TypedNumbers DEF CountsLoaded
  <2>3. d \in Feed!Gaps .. dropped + (IF cap_pc = "count" THEN 1 ELSE 0)
    BY <2>2
  <2> HIDE DEF PipeInv
  <2>4. Feed!Publish
    BY <2>1, <2>3 DEF Feed!Publish, Numbers
  <2> QED BY <2>4 DEF Feed!Next
<1> QED BY <1>1, <1>2, <1>3 DEF FrameNext

\* Setting up, leaving and the environment: leaving closes the feed, the rest is unseen.
LEMMA OtherStepsImplement ==
    ASSUME PipeInv, SetupNext \/ LeaveLoop \/ GuardNext \/ GraceElapses \/ Exited
    PROVE  [Feed!Next]_(Feed!vars)
<1>1. CASE (\E result : Finish(result)) \/ LeaveLoop
  <2>1. /\ UNCHANGED <<emitted, chan, todo, received, cap_pc, dropped, status>>
        /\ ui_pc \notin {"dropping", "joining", "exited"}
        /\ ui_pc' \in {"dropping", "joining", "exited"}
    BY <1>1 DEF Finish, LeaveLoop, follows, capture, shared
  <2>2. Feed!Close
    BY <2>1 DEF Feed!Close, Numbers
  <2> QED BY <2>2 DEF Feed!Next
<1>2. CASE \E device \in Device : Start(device)
  <2>1. cap_pc = "unborn"
    BY <1>2 DEF Start, PipeInv, AtHandWhileSending
  <2> QED BY <1>2, <2>1, QuietIsStutter DEF Start, FeedSame, shared
<1>3. CASE GuardNext \/ GraceElapses \/ Exited
  BY <1>3, QuietIsStutter
     DEF GuardNext, SetStop, Join, GraceElapses, Exited, FeedSame, vars, capture, ui, shared
<1> QED BY <1>1, <1>2, <1>3
        DEF SetupNext, ListInterfaces, RefuseArguments, OpenFails

\* Live capture implements the lossy feed: every behaviour of the two threads is, seen
\* through Feed's mapping, one in which events are delivered once and in order, lost only
\* behind Cap others and never uncounted, and frames admit their gaps.
THEOREM PipelineImplementsFeed == Spec => Feed!Spec
<1>1. Init => Feed!Init
  <2> SUFFICES ASSUME Init PROVE Feed!Init
    OBVIOUS
  <2>1. Numbers(<<>>) = <<>> /\ <<>> \o <<>> = <<>>
    BY DEF Numbers
  <2> QED BY <2>1 DEF Init, Feed!Init
<1>2. PipeInv /\ PipeInv' /\ [Next]_vars => [Feed!Next]_(Feed!vars)
  <2> SUFFICES ASSUME PipeInv, PipeInv', [Next]_vars PROVE [Feed!Next]_(Feed!vars)
    OBVIOUS
  <2>1. CASE UNCHANGED vars
    BY <2>1, QuietIsStutter DEF FeedSame, vars, capture, ui, shared
  <2> QED BY <2>1, CaptureImplements, FrameImplements, OtherStepsImplement DEF Next
<1> QED BY <1>1, <1>2, PipelineInvariant, PTL DEF Spec, Feed!Spec
=============================================================================
