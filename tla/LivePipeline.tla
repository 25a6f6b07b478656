---------------------------- MODULE LivePipeline ----------------------------
(***************************************************************************)
(* The two threads of live capture (tcp-visr/src/main.rs run_live_command, *)
(* tcpvisr-ingest/src/live.rs LiveCapture, tcpvisr-tui/src/run.rs          *)
(* live_loop): the device is opened; the capture thread decodes packets    *)
(* and try_sends events on a bounded channel, dropping and counting when   *)
(* it is full; the UI thread draws, takes at most one key, drains the      *)
(* channel into the tracker and the app, and shows the drop count.         *)
(* Leaving the UI loop in any way drops CaptureGuard, which stops and      *)
(* joins the capture thread.                                               *)
(*                                                                         *)
(* An event is its kind and its number: the capture thread numbers the     *)
(* events it emits, so that what the tracker received can be compared with *)
(* what was emitted.  At the capture thread an event also has the time it  *)
(* is about and the time it tells the tracker.  What the tracker does with *)
(* a segment is module Tracker.                                            *)
(***************************************************************************)
EXTENDS Integers, Sequences, SequencesExt

CONSTANTS
    Cap,        \* capacity of the sync_channel (65536 in the program)
    MaxNames,   \* bound: names one DNS answer yields
    MaxPackets, \* bound: packets the interface delivers
    MaxEvents,  \* bound: events emitted; later read timeouts inject no tick
    Micro,      \* clock units in a microsecond (1000 ns in the program)
    MaxClock    \* bound: the last reading of CLOCK_REALTIME, which may be set back

ASSUME PipelineAssumption ==
    /\ Cap \in Nat \ {0}
    /\ Micro \in Nat \ {0}
    /\ {MaxNames, MaxPackets, MaxEvents, MaxClock} \subseteq Nat

EventKind == {"segment", "tick", "name"}

VARIABLES
    nanos,      \* the handle supplies nanosecond stamps
    baseline,   \* capture thread: the first time seen, or None
    outcome,    \* what setting up came to
    cap_pc,     \* capture thread: where LiveCapture::run stands
    todo,       \* capture thread: events of the packet at hand still to be emitted
    emitted,    \* capture thread: number of events handed to on_event
    packets,    \* packets the interface has delivered (environment)
    chan,       \* the bounded channel
    stop,       \* AtomicBool stop
    dropped,    \* AtomicU64 dropped
    skips,      \* AtomicU64 skips (the diagnostic ones)
    ui_pc,      \* UI thread: where live_loop / run_live_command stands
    d,          \* UI thread: the drop count this frame has loaded
    received,   \* UI thread: events drained so far, in order
    first_packet,   \* UI thread: a segment was drained
    past_grace,     \* LIVE_GRACE has elapsed (environment)
    status,     \* the LiveStatus the frame shows
    hint        \* the frame shows the silent-empty advisory

capture == <<cap_pc, todo, emitted, packets, baseline>>

ui == <<ui_pc, d, received, first_packet, status, hint>>

shared == <<chan, stop, dropped, skips>>

setup == <<nanos, outcome>>

vars == <<capture, ui, shared, past_grace, setup>>

None == -1

Init ==
    /\ cap_pc = "unborn" /\ todo = <<>> /\ emitted = 0 /\ packets = 0
    /\ baseline = None
    /\ nanos = FALSE /\ outcome = "none"
    /\ chan = <<>> /\ stop = FALSE /\ dropped = 0 /\ skips = 0
    /\ ui_pc = "args" /\ d = 0 /\ received = <<>> /\ first_packet = FALSE
    /\ past_grace = FALSE
    /\ status = [dropped |-> 0, approximate |-> FALSE, skipped |-> 0]
    /\ hint = FALSE

-----------------------------------------------------------------------------
(***************************************************************************)
(* Setting up, on the UI thread.  A device, as far as opening it tells: it *)
(* can be created, what activating it fails with, whether it has           *)
(* nanosecond stamps, whether its link type is one decode_frame knows and  *)
(* whether it takes the filter.                                            *)
(***************************************************************************)
Device == [created : BOOLEAN, error : {"none", "permission", "other"},
           nano : BOOLEAN, known_link : BOOLEAN, takes_filter : BOOLEAN]

map_open_error(error) == IF error = "permission" THEN "Privilege" ELSE "Activate"

open_with(device, nano) ==
    IF ~device.created THEN "Open"
    ELSE IF device.error # "none" THEN map_open_error(device.error)
    ELSE IF nano /\ ~device.nano THEN map_open_error("other")
    ELSE "ok"

\* LiveCapture::open: nanosecond stamps if they can be had, else microseconds.
open_capture(device) ==
    LET nano    == open_with(device, TRUE) = "ok"
        refused == open_with(device, nano)
    IN  [nanos |-> nano,
         outcome |-> IF refused # "ok" THEN refused
                     ELSE IF ~device.known_link THEN "UnsupportedLinkType"
                     ELSE IF ~device.takes_filter THEN "Filter"
                     ELSE "ok"]

\* The command ends before there is a thread.
Finish(result) ==
    /\ ui_pc = "args"
    /\ ui_pc' = "exited" /\ outcome' = result
    /\ UNCHANGED <<capture, d, received, first_packet, status, hint, shared, past_grace, nanos>>

ListInterfaces(ok) == Finish(IF ok THEN "listed" ELSE "Interfaces")

\* No interface given, or --retention-secs 0.
RefuseArguments == Finish("arguments")

OpenFails(device) ==
    /\ open_capture(device).outcome # "ok"
    /\ Finish(open_capture(device).outcome)

\* The thread is spawned, the app built and the first frame drawn.
Start(device) ==
    /\ ui_pc = "args"
    /\ open_capture(device).outcome = "ok"
    /\ outcome' = "ok" /\ nanos' = open_capture(device).nanos
    /\ cap_pc' = "check" /\ ui_pc' = "input"
    /\ UNCHANGED <<todo, emitted, packets, baseline, d, received, first_packet,
                   status, hint, shared, past_grace>>

SetupNext ==
    \/ \E ok \in BOOLEAN : ListInterfaces(ok)
    \/ RefuseArguments
    \/ \E device \in Device : OpenFails(device) \/ Start(device)

-----------------------------------------------------------------------------
(***************************************************************************)
(* The capture thread.                                                     *)
(***************************************************************************)

\* while !stop.load()
CheckStop ==
    /\ cap_pc = "check"
    /\ cap_pc' = IF stop THEN "done" ELSE "read"
    /\ UNCHANGED <<todo, emitted, packets, baseline, ui, shared, past_grace, setup>>

\* What the header of a packet stamped at t holds below the second.
tv_usec(t) == IF nanos THEN t ELSE t \div Micro

abs_ns(sub) == IF nanos THEN sub ELSE sub * Micro

\* The time the tracker is told, and the baseline it is counted from.
normalize_ts(abs) ==
    LET base == IF baseline = None THEN abs ELSE baseline
    IN  [ts |-> IF abs > base THEN abs - base ELSE 0, baseline |-> base]

\* Hand events of the given kinds to on_event, one after the other; they are about time at.
Emit(kinds, at, time) ==
    /\ baseline' = time.baseline
    /\ todo' = [i \in DOMAIN kinds |->
                   [kind |-> kinds[i], n |-> emitted + i, at |-> at, ts |-> time.ts]]
    /\ emitted' = emitted + Len(kinds)
    /\ cap_pc' = IF kinds = <<>> THEN "check" ELSE "send"

\* next_packet returned a packet that yields the given events.
Packet(kinds) ==
    /\ cap_pc = "read"
    /\ packets < MaxPackets /\ emitted + MaxNames <= MaxEvents
    /\ packets' = packets + 1
    /\ \E at \in 0 .. MaxClock : Emit(kinds, at, normalize_ts(abs_ns(tv_usec(at))))
    /\ UNCHANGED <<ui, chan, stop, dropped, past_grace, setup>>

ReadSegment == Packet(<<"segment">>) /\ UNCHANGED skips

ReadNames(k) == Packet([i \in 1 .. k |-> "name"]) /\ UNCHANGED skips

\* A skipped packet; ordinary non-TCP traffic is not diagnostic.
ReadSkipped(diagnostic) ==
    /\ Packet(<<>>)
    /\ skips' = IF diagnostic THEN skips + 1 ELSE skips

\* The time a tick is given.
\* variant: ticks are counted from the start of the clock
tick_absolute(now) == [ts |-> now, baseline |-> baseline]

tick(now) == normalize_ts(now)

\* The read timed out (READ_TIMEOUT_MS): inject a tick, stamped by the wall clock.
ReadTimeout ==
    /\ cap_pc = "read"
    /\ \E now \in 0 .. MaxClock :
          Emit(IF emitted < MaxEvents THEN <<"tick">> ELSE <<>>, now, tick(now))
    /\ UNCHANGED <<packets, ui, shared, past_grace, setup>>

\* The handle ended or failed.
ReadError ==
    /\ cap_pc = "read"
    /\ cap_pc' = "done"
    /\ UNCHANGED <<todo, emitted, packets, baseline, ui, shared, past_grace, setup>>

\* try_send of the event at hand; a full channel refuses it.
TrySend ==
    /\ cap_pc = "send"
    /\ todo' = Tail(todo)
    /\ IF Len(chan) < Cap
       THEN /\ chan' = Append(chan, [kind |-> Head(todo).kind, n |-> Head(todo).n])
            /\ cap_pc' = IF Tail(todo) = <<>> THEN "check" ELSE "send"
       ELSE cap_pc' = "count" /\ UNCHANGED chan
    /\ UNCHANGED <<emitted, packets, baseline, ui, stop, dropped, skips, past_grace, setup>>

\* dropped.fetch_add after a refused send.
\* variant: the first refusal of a packet hides the rest
CountDropOnce ==
    /\ cap_pc = "count"
    /\ dropped' = dropped + 1
    /\ todo' = <<>>
    /\ cap_pc' = "check"
    /\ UNCHANGED <<emitted, packets, baseline, ui, chan, stop, skips, past_grace, setup>>

CountDrop ==
    /\ cap_pc = "count"
    /\ dropped' = dropped + 1
    /\ cap_pc' = IF todo = <<>> THEN "check" ELSE "send"
    /\ UNCHANGED <<todo, emitted, packets, baseline, ui, chan, stop, skips, past_grace, setup>>

-----------------------------------------------------------------------------
(***************************************************************************)
(* The UI thread.  In "input" a frame has been drawn and the loop polls    *)
(* for a key (a key other than quit changes only the app); "drain", "load" *)
(* and "frame" are the parts of the next_frame closure, in this order.     *)
(***************************************************************************)

\* variant: the drop count is loaded before the channel is drained
follows_load_first == [input |-> "load", load |-> "drain", drain |-> "frame", frame |-> "input"]

follows == [input |-> "drain", drain |-> "load", load |-> "frame", frame |-> "input"]

Advance == ui_pc' = follows[ui_pc]

Poll ==
    /\ ui_pc = "input"
    /\ Advance
    /\ UNCHANGED <<capture, d, received, first_packet, status, hint, shared, past_grace, setup>>

\* One turn of `while let Ok(ev) = rx.try_recv()'.
Drain ==
    /\ ui_pc = "drain"
    /\ chan # <<>>
    /\ chan' = Tail(chan)
    /\ received' = Append(received, Head(chan))
    /\ first_packet' = (first_packet \/ Head(chan).kind = "segment")
    /\ UNCHANGED <<capture, ui_pc, d, status, hint, stop, dropped, skips, past_grace, setup>>

\* try_recv found the channel empty.
EndDrain ==
    /\ ui_pc = "drain"
    /\ chan = <<>>
    /\ Advance
    /\ UNCHANGED <<capture, d, received, first_packet, status, hint, shared, past_grace, setup>>

\* let d = dropped.load()
LoadDropped ==
    /\ ui_pc = "load"
    /\ d' = dropped
    /\ Advance
    /\ UNCHANGED <<capture, received, first_packet, status, hint, shared, past_grace, setup>>

\* skips.load(), snapshot, retarget, set_title with or without the grace hint.
EndFrame ==
    /\ ui_pc = "frame"
    /\ status' = [dropped |-> d, approximate |-> d > 0, skipped |-> skips]
    /\ hint' = (~first_packet /\ past_grace)
    /\ Advance
    /\ UNCHANGED <<capture, d, received, first_packet, shared, past_grace, setup>>

\* The loop ends with q, Ctrl-C or an I/O error; next_frame may unwind.
LeaveLoop ==
    /\ ui_pc \in DOMAIN follows
    /\ ui_pc' = "dropping"
    /\ UNCHANGED <<capture, d, received, first_packet, status, hint, shared, past_grace, setup>>

\* CaptureGuard::drop: set stop, then join the capture thread.
\* variant: the thread is joined without being told to stop
JoinOnly ==
    /\ ui_pc = "dropping"
    /\ ui_pc' = "joining"
    /\ UNCHANGED <<capture, d, received, first_packet, status, hint, shared, past_grace, setup>>

SetStop ==
    /\ ui_pc = "dropping"
    /\ stop' = TRUE
    /\ ui_pc' = "joining"
    /\ UNCHANGED <<capture, d, received, first_packet, status, hint, chan, dropped, skips, past_grace, setup>>

Join ==
    /\ ui_pc = "joining"
    /\ cap_pc = "done"
    /\ ui_pc' = "exited"
    /\ UNCHANGED <<capture, d, received, first_packet, status, hint, shared, past_grace, setup>>

-----------------------------------------------------------------------------
\* LIVE_GRACE is over; of no consequence once a packet was seen.
GraceElapses ==
    /\ ~past_grace /\ ~first_packet
    /\ past_grace' = TRUE
    /\ UNCHANGED <<capture, ui, shared, setup>>

\* The process has ended.
Exited == ui_pc = "exited" /\ UNCHANGED vars

CaptureNext ==
    \/ CheckStop
    \/ ReadSegment
    \/ \E k \in 1 .. MaxNames : ReadNames(k)
    \/ \E diagnostic \in BOOLEAN : ReadSkipped(diagnostic)
    \/ ReadTimeout
    \/ ReadError
    \/ TrySend
    \/ CountDrop

FrameNext == Poll \/ Drain \/ EndDrain \/ LoadDropped \/ EndFrame

GuardNext == SetStop \/ Join

Next == SetupNext \/ CaptureNext \/ FrameNext \/ LeaveLoop \/ GuardNext
            \/ GraceElapses \/ Exited

Spec == Init /\ [][Next]_vars

(***************************************************************************)
(* Both threads are scheduled; next_packet returns within READ_TIMEOUT_MS. *)
(* Whether the user ever quits is left open.                               *)
(***************************************************************************)
FairSpec == Spec /\ WF_vars(CaptureNext) /\ WF_vars(FrameNext) /\ WF_vars(GuardNext)

-----------------------------------------------------------------------------
Numbers(s) == [i \in DOMAIN s |-> s[i].n]

(***************************************************************************)
(* The pipeline is the lossy feed it promises to be.  What waits is the    *)
(* channel and what the capture thread has at hand; an event is lost when  *)
(* try_send refuses it, though dropped counts it one step later.           *)
(***************************************************************************)
Feed == INSTANCE LossyFeed WITH
    produced <- emitted,
    waiting <- Numbers(chan \o todo),
    seen <- Numbers(received),
    missed <- dropped + (IF cap_pc = "count" THEN 1 ELSE 0),
    shown <- status.dropped,
    open <- ui_pc \notin {"dropping", "joining", "exited"}

(***************************************************************************)
(* run_live_command implements LossyFeed: no event is lost uncounted,      *)
(* duplicated or reordered, none is lost while the channel has room, and   *)
(* while the UI loop runs every event is drained or counted in the end.    *)
(***************************************************************************)
ImplementsFeed == Feed!FairSpec

\* The kinds of the events the tracker and the app have folded in.
Seen == {received[i].kind : i \in DOMAIN received}

(***************************************************************************)
(* A frame is honest about what it shows.  Every event lost before the     *)
(* newest one it has folded in is in its drop count, which flags it        *)
(* approximate, because next_frame loads the counter after the drain; its  *)
(* counts are not ahead of the threads'; and the silent-empty advisory is  *)
(* gone with the first frame that has folded a segment in (grace_hint      *)
(* reads what the drain has set).                                          *)
(***************************************************************************)
FrameHonest ==
    ui_pc = "input" =>
        /\ status.dropped \in Feed!Gaps .. dropped
        /\ status.approximate <=> status.dropped > 0
        /\ status.skipped <= skips
        /\ hint => "segment" \notin Seen

(***************************************************************************)
(* Packets and ticks share one time axis, whatever the precision of the    *)
(* device and whichever comes first (normalize_ts, wall_now_ns): once set  *)
(* the baseline stays, and every event tells its distance from it, up to   *)
(* the microsecond the device may cut off; only an event from before the   *)
(* baseline is moved, to zero.                                             *)
(***************************************************************************)
OneTimeAxis ==
    [][/\ baseline # None => baseline' = baseline
       /\ \A i \in DOMAIN todo' :
             LET apart == todo'[i].at - baseline'
                 told  == todo'[i].ts
             IN  /\ told >= 0 /\ told > apart - Micro
                 /\ told <= apart \/ told = 0]_vars

(***************************************************************************)
(* Leaving the UI loop - quit, I/O error or unwind - releases the device:  *)
(* CaptureGuard::drop returns with the capture thread ended, also when the *)
(* channel is full and no one drains it any more.                          *)
(***************************************************************************)
QuitReleases == ui_pc = "dropping" ~> (ui_pc = "exited" /\ cap_pc = "done")
=============================================================================
