# A TLA+ model of tcp-visr

tcp-visr reads TCP segments from a capture file (replay) or from an interface (live), tracks
the connections they belong to, derives metrics from them, and shows them in a terminal UI
that can be moved through time. This directory models the parts of it that keep state, checks
them with TLC on small instances, and proves the most important invariants with TLAPS for
every instance.

`PROJECT.json` lists the components, the runs, the source lines every definition stands for,
the hazards and the theorems.

## The system

Paths are relative to `src/crates/`.

| Component | State | Operations | Code |
|---|---|---|---|
| Serial arithmetic | none | wrapping order and distance of `u32` sequence numbers | `tcpvisr-core/src/seq.rs` |
| Connection lifecycle | per instance: state, FIN flags, origin, byte and segment counts, sequence baselines | `apply_state`, `account`, `should_split`, `create_instance` | `tcpvisr-engine/src/{state,conn,tracker}.rs` |
| Metric derivation | per direction: `snd_nxt`, `acked`, `frontier`, pending RTT sends, throughput window | `MetricState::observe`, `in_flight`, `throughput_at` | `tcpvisr-engine/src/metrics.rs` |
| Sample retention | per connection six queues; one tracker-wide count and an overflow flag | admission, Evict backstop, ageing, five collectors | `tcpvisr-engine/src/{tracker,config}.rs` |
| Tracker | `conns`, `live`, `next_instance`, `collected_samples`, `overflowed`, `now` | `observe` of a segment or a tick, `snapshot`, `into_timeline`, `into_connections`, `into_metrics` | `tcpvisr-engine/src/tracker.rs` |
| Timeline | immutable once built | as-of, activity and event queries | `tcpvisr-engine/src/timeline.rs` |
| Name table | bounded map IP to (ts, name), a drop count | `observe`, `resolve`, `HostName::new` | `tcpvisr-core/src/name.rs` |
| Transport | domain, cursor, speed, playing, carry | play, seek, step, speed, `tick`, `set_domain` | `tcpvisr-tui/src/transport.rs` |
| App | timeline, transport, metas, selection, filter, sort, mode, follow, names | keys, quitting, `tick`, `retarget`, `observe_name`, `focus` | `tcpvisr-tui/src/{app,keys,run}.rs` |
| Live pipeline | capture thread, bounded channel, atomics `stop`, `dropped`, `skips`, UI thread | `LiveCapture::open` and `run`, `try_send_or_count`, the `next_frame` closure, `CaptureGuard` | `tcp-visr/src/main.rs`, `tcpvisr-ingest/src/live.rs` |
| File replay and decoding | link type, time baseline, tick length, skip counts | `handle_block` per kind of block, `process_packet`, `decode_frame` | `tcpvisr-ingest/src/{replay,decode,link,dns,lib}.rs` |
| Detail graphs | none | four projections of a series onto cells | `tcpvisr-tui/src/{detail,inflight,rtt,throughput}.rs` |
| Rendering | none | layout, labels, table, titles, header | `tcpvisr-tui/src/{render,service}.rs` |
| Command line | locals of a command: line count, first write error, names, the target of `metrics` | `parse`, `conns`, `metrics`, `replay`, `live` | `tcp-visr/src/main.rs` |
| libpcap file faucet | time baseline | `parse_file_libpcap` | `tcpvisr-ingest/src/libpcap.rs` |
| Enrichment | none | none (an empty crate) | `tcpvisr-enrich/src/lib.rs` |

How they interact. In replay, `build_replay_app` reads the whole file into a `Tracker` with
FailFast retention, turns it into a `Timeline` and gives that to an `App`; the replay loop
then alternates drawing, at most one key, and `tick`. In live mode a capture thread decodes
packets and `try_send`s events on a bounded channel. The UI thread draws, takes at most one
key, drains the channel into an evicting `Tracker` and into the app's name table, loads the
drop counter, takes a snapshot and `retarget`s the app. Leaving the loop drops
`CaptureGuard`, which sets `stop` and joins the capture thread.

What is hard here: sequence numbers that wrap; timestamps that step back; reuse of a 4-tuple
and the index shifts of whole-connection eviction; a bounded sample store whose count is kept
in four places; ACKs that are ambiguous after a re-send; two threads that share three atomics
and a full channel; an app that caches by `ConnId` while the tracker reuses `ConnId`s;
a file reader that keeps one tick length and one link type for several interfaces; packets and
ticks stamped by different clocks at different precisions; graphs that squeeze many samples
into few cells, beside labels of any width. The list, each at its line, is under `hazards` in `PROJECT.json`.

What makes each component correct:

- lifecycle: states only advance; Closed means both FINs; no segment is lost between instances;
- tracker: one `ConnId` per tracked connection, `live` always the newest instance, dead
  connections eventually gone;
- retention: the count is exact, the ceiling holds, the current state is never dropped and
  nothing older than the horizon is kept;
- metrics: what is reported equals what the peers did, at every offset of the sequence space;
- timeline: a query answers what its definition over the capture says;
- names: the latest observation of an IP wins, whatever the order and however full the table;
- app and transport: cursor in its domain, selection among the rows, a frame shows the
  tracker as it is, playback ends;
- file replay: every packet is a segment, names or a skip count; times and link types are those
  of the packet's interface; a cut frame with its headers is as good as a whole one;
- graphs: nothing ahead of the cursor, no re-send hidden, no rescaling while time moves;
- rendering: the panes of a frame agree, a graph stays inside its pane, labels leave marks alone;
- commands: success only when all was read and written; `metrics` dumps the connection that
  `conns` lists; both file faucets yield the same items;
- pipeline: nothing is lost uncounted, gaps are flagged in the frame that shows them, one time
  axis for packets and ticks, quitting releases the device.

## The modules

    Serial -> ConnTrack -> Metrics -> Retention -> Tracker -> Views -> Commands
    Flow, Retention -> SeqFlow         Metrics -> Flow
    Views, Transport, NameTable -> App;  App, Plots -> Detail -> Screen
    Serial -> Plots -> Render
    Decode -> ReplayFile;  ReplayFile, NameTable -> FileCommands
    LivePipeline  =>  LossyFeed

    BasicLemmas;  SeqFlow -> FlowProofs;  Tracker -> TrackerProofs -> RetentionProofs
    Screen, Commands, RetentionProofs -> AppProofs;  LivePipeline -> PipelineProofs
    FileCommands -> FileProofs;  Render -> RenderProofs

An arrow is EXTENDS (Views also extends Timeline), a double one is refinement. `MC*` modules give
TLC its constants; `*Proofs` and `BasicLemmas` hold the proofs. Definitions keep the names of the Rust functions. A definition commented
*variant* is a plausible mistake in the one below it; it is used only to confirm that a
property notices that mistake.

- **Serial**: `wrapping_add`, `wrapping_sub`, `serial_lt`, `serial_diff` over a space of
  `2 * Half` numbers (the code has `Half = 2^31`), written without `%` so that facts about
  them are linear.
- **ConnTrack**: the record `Conn` (lifecycle half of `ConnTrack`), `apply_state` as
  handshake, FIN and RST parts in the code's order, the split rule, `open_instance`.
- **Metrics**: `metrics_after(m, seg, dir)` is the state `MetricState::observe` leaves and
  `metric_sample` what it returns; steps and their order are those of `observe`. Rates are
  scaled integers without `u64` saturation.
- **Retention**: the six queues of a connection and the two ways they shrink (`age_buf` for
  the horizon, `evict_oldest_global` for the backstop), the admission rule of both policies, the
  collectors, and `SeqUnwrap`. A collector takes a slot (a connection's buffer with the
  tracker-wide count) and returns one.
- **Tracker**: the state machine. `ObserveJoin` and `ObserveCreate` are `observe` of a
  segment on its two paths, including the `evict_samples` that ends it; `ObserveTick` is
  `observe` of a tick, with decay samples, ageing and `evict_dead_connections`. `Vec<ConnTrack>`
  is two sequences, `conns` and `bufs`; 0 in `live` and `next_instance` is an absent key.
- **Timeline** and **Views**: construction with its stable sorts (`in_order`: the k-th element
  has k - 1 before it), the queries through `partition_point`, and `snapshot` / `into_timeline` of the tracker's state.
- **Flow**: one TCP connection at a tap, as the environment of Metrics. The peers know
  unbounded stream positions; the derivation sees wrapped numbers and timestamps. The history
  `sends` marks transmissions that are `new` and those that come `soon`, within `ReorderWindow` of
  the one before. A re-send that comes soon is reordering for ADR-0007; goodput (ADR-0014) is to
  count what is new or soon.
- **SeqFlow**: Flow with `push_seq_points` run on every segment, and duplicate ACKs with SACK
  blocks. A left edge may be any position sent less than half the space ago, so that the frontier
  of `SeqUnwrap` is also moved by edges where the tap saw no segment start.
- **Commands**: `conns` and the two passes of `metrics` as reads of the tracker's state. A capture
  that is still written between the passes is a step of Tracker between them.
- **NameTable**: the table as pure operations on a record.
- **Transport**: pure operations on a record. **App**: the app composed with Tracker,
  Timeline and NameTable. `phase` is where the loop stands: `feed` (items folded in: the file
  being read, or a drain), `input` (a frame is on the screen), `play` (end of a replay turn).
  An `Option` is a set of at most one value; a searchable text is a sequence of words and a
  query is a sequence of the words typed, so that the subsequence match of the filter is kept.
- **Plots**: the projections. In-flight, RTT and throughput are one algorithm over *layers* (a
  glyph and its points) in drawing order; Time/Sequence takes the most salient point of a cell.
  A series is the set of its points, since no projection depends on their order. **Detail**: the
  four graphs of the focused connection, and the properties of them in every frame of App.
  **Screen**: what the table, the detail pane and the header of that frame say.
- **Render**: the geometry of the detail pane. Text is its width in columns, a number is its
  digits, a drawing is a set of screen cells; `set_string` is cut at the edge of the terminal
  only, as ratatui's is. The state is the terminal, the view, the cursor and the series shown.
- **Decode**: `decode_frame` on frames whose bytes are units (link header, IP header, transport
  header, payload), a prefix of which was captured; etherparse's answer is `from_ip`, external.
  VLAN tags stand where the ethertype is expected, on Ethernet and on both cooked link types.
  **ReplayFile**: the reader, one action per kind of block; the file is chosen by the environment
  as it is read, and `seen` records what each packet really was.
- **FileCommands**: what runs on the reader's sinks: `parse` with a stdout that fails after some
  lines, the name table of `build_replay_app`, and the libpcap faucet on the same packets. Each
  step of ReplayFile feeds all three.
- **LivePipeline**: setting up (`args`: a listing, a refused argument, `LiveCapture::open` with its
  fallback from nanosecond to microsecond stamps and its errors, or the start of the thread); then
  `cap_pc` is the capture thread (check, read, send, count, done) and `ui_pc` the UI thread (input,
  drain, load, frame, dropping, joining, exited). A refused `try_send` and the `fetch_add` that
  counts it are two steps. Events are numbered so that what was received can be compared with what
  was emitted, and carry the clock they are about beside the time they tell. CLOCK_REALTIME may
  be set back.
- **LossyFeed**: the abstract specification, a queue of numbered events from which events behind
  the first `Cap` may be lost, each counted in the same step. A frame admits between the gaps in
  what it shows and all losses so far. Under the mapping `Feed` of LivePipeline the waiting events
  are the channel and the rest of the packet at hand, and a loss happens when `try_send` refuses,
  one step before the counter moves.

## The runs

| Run | Question | Bounds |
|---|---|---|
| ReplayLifecycle | do lifecycle, attribution, ceiling and timeline queries hold for every capture of four segments out of ten kinds, timestamps stepping back by one, and does `metrics` find its target when the capture grows? | 4 segments on two pairs, times 0..3, `MaxSamples` 3 so that the ceiling trips |
| LiveRetention | do identity, accounting and retention hold under Evict with every series collected, and are dead connections eventually removed for good? | 3 segments on two pairs that share an endpoint, times 0..5, window 2, `MaxSamples` 7 |
| FlowExact | is what Metrics and SeqUnwrap report of a flow exact? | sequence space of 6, all initial numbers, 4 transmissions, stream positions to 7, times 0..1, timestamps stepping back by one, a reorder window of 1, so that a re-send may fall inside or outside it |
| AppReplay | do the panes of a frame agree, does playback end, are the graphs right for the cursor? | 2 segments of 5 kinds, timestamps stepping back by one, 3 keys, a plot of 3 by 3 cells |
| AppLive | does a live frame show what was captured? | 2 segments, 2 keys, 1 name, times 0..3, window 1 |
| PipelineLive | does the pipeline implement LossyFeed, are gaps flagged, do packets and ticks share a time axis, and does quitting always release the device, without deadlock? | channel of 2, 2 packets, bursts of 2 names, 4 events, clock 0..2 with a microsecond of 2 |
| ReplayRead | is every packet of a file accounted for, at its time, used if its headers are there, its names kept; do `parse` and both faucets say so? | 3 blocks, 2 packets of 10 kinds, 4 snap lengths, 6 DLTs, 5 resolutions, 3 IPs for a table of 2, stdout failing after 1 or 3 lines |
| RenderPane | does a graph stay inside its pane and clear of its labels? | terminals of 4 widths and 4 heights around the smallest with a graph, up to 2 samples, values of 1 to 12 digits, times of up to 20 digits in ns |
| LiveBackstop, FlowKarn, AppStaleMeta, ReplayResolution | where the code departs from its documents (below) | as the passing run of the same module |

Why the bounds are enough for the cases meant: two pairs sharing an endpoint are the least in
which removing an instance shifts another's index; three segments and six times allow open,
terminate, outlive the window, reopen; a sequence space of 6 or 8 with every initial number
puts the wrap at every place of a flow; capacity plus one IPs is the least that fills the name
table; a burst longer than the free part of the channel gives both a refused and an accepted
send of one packet; three cells a side are the least with a cell that is neither the first nor
the last, and make samples share cells; widths 35, 36 and 39 are one column too few, just enough and a few more for the gutter and `MIN_W`, and heights 7 to 9 likewise; the snap lengths cut a frame in its link header, before
and after the transport header, and not at all. Deadlock is checked in the App and pipeline runs. Elsewhere a behaviour
ends when its bounded capture ends. There is no symmetry: endpoints are ordered, and the runs
do not need it.

**Fairness.** `Tracker!FairSpec`: `LiveCapture::run` turns every read timeout into a tick, so
a link that falls quiet keeps ticking; nothing is assumed about segments. `AppFairSpec`: the file
ends, `poll` returns after `TICK`, the loop goes round; keys are never assumed. A frame lasts
at least 50 ms, which at the slowest speed still moves the cursor, hence `Dts` excludes 0.
`LivePipeline!FairSpec`: both threads are scheduled and `next_packet` returns within
`READ_TIMEOUT_MS`; that the user quits is not assumed. From it TLC derives the fairness of
LossyFeed: while the UI loop runs, no event waits for ever.

## What is proved

The theorems hold for every value of the constants that the named assumptions of the modules
admit; each of those assumptions is evaluated by the runs. None of the run's properties is
inductive as it stands, so each component has an invariant that says why the property stays true.

**`FlowProofs`**, from `HalfAssumption` (`Half` positive) and `FlowAssumption` (the sender never
has half the sequence space outstanding; a TCP window is below 2^30), for every width of the
sequence space, window, jitter and bound:

- `SerialStrict`: serial order is irreflexive and asymmetric, and decides any two numbers not
  exactly half the space apart.
- `FlowInvariant`: the inductive invariant `FlowInv == PeersOK /\ TracksPeers`. `PeersOK`
  bounds the peers (`acked <= nxt`, at most `MaxOutstanding` apart); `TracksPeers` says that the
  wrapped `snd_nxt`, `frontier` and `acked` of the derivation are the images of the peers'
  positions. The next segment's answer depends on the wrapped fields, and comparing those is only
  right within half the space, which `PeersOK` gives.
- `InFlightIsExact`, `ResendsAreFlagged`: `InFlightExact` and `ResendsFlagged`.
- `DataRttIsUnambiguous`: Karn's rule for every reorder window, as long as every re-send of data
  was `recognised`, none having come soon enough to be taken for reordering; without that
  hypothesis it is false (run FlowKarn). `SendsInv` adds the shape of the transmissions and that
  `last_data_ts` is the time of the latest one (`LatestOK`), so that the derivation and the history
  agree on what comes soon. `KarnInv` adds that every pending send is a transmission not yet
  acknowledged that no other overlaps, and that the pending sends wait in the order of their ends,
  so that popping covered ones from the front pops all of them.
- `ThroughputIsExact`: for every reorder window, and a throughput window that is not 0
  (0 switches the rates off). `WindowOK` adds that the window holds the latest data transmissions
  in order, and that every one it does not hold is a SYN or too old for a window ending at the
  greatest timestamp seen. It rests on `SendsInv`, not on the pending sends. The two sums are then
  equal because one is the other under shifted indices (`TotalMoved`).
- `PointsAreOnStream`, of SeqFlow. The invariant says which position the frontier of `SeqUnwrap`
  stands for: one the sender has sent, at most a window behind the newest, so that serial order
  decides on which side of it the next segment or edge lies.

**`TrackerProofs`**, from `TrackerAssumption` (a segment with a timestamp is a `Segment`) and the
assumptions of the modules below, for any set of segments, either retention policy,
any series selection and timestamps in any order unless said otherwise:

- `LifecycleInvariant`: the inductive invariant `LifecycleInv`, a conjunction of `ConnTypes`,
  `InstancesOrdered`, `LiveIsNewest` and `ClosedExactly`. A join writes
  through `live`, so ordering needs `LiveIsNewest`; rebuilding `live` after removal needs the
  order; and a step on `Conn` records needs their types.
- `InstancesStayOrdered`, `LiveStaysNewest`, `ClosedIsExact` and `LifecycleIsMonotone`. Eviction
  rests on `NthEnumerates`: `retain` enumerates the surviving indices in increasing order.
- `SegmentsAreAttributed`: a join adds one to one summand, a creation adds a summand of one.
- `LiveDoesNotRegress`, for ordered time and, under Evict, `DeadAfter <= Window`: instances of a
  pair are then last seen in the order of their numbers, so an older one is dead when a newer one
  is. Both hypotheses are needed (see below, "Others met").

**`RetentionProofs`**: `RetentionInvariant` says of the store that every connection has its six
queues, that the count is the sum of their lengths, that the ceiling holds, and that the last
state sample of a connection is its state. A collector sees one connection, so what is promised
of it (`SlotOK`) speaks of that connection's samples and of the rest as a number. It also
says of every sample retained that it has the type of its series, and of every state sample that
it is not later than its connection was last seen. Types are kept because each collector makes its
sample from a typed flow state, whose own fields (pending sends, runs of the window, RTT estimate)
the invariant types too. From it
`TrackerTypes`, `CountIsExact`, `CeilingIsHeld`, `CurrentStateStays`; and, for ordered time
(`Jitter = 0`), `NothingIsStale`, whose invariant adds that every queue is in time order.

**`AppProofs`**, first part, about Timeline, Views and Commands: it adds `ViewsAssumption` (the endpoints are the elements of `EndpointOrder`) and
no invariant of its own. An ordered enumeration of a finite set has every element
at its rank (`SortedByRank` of BasicLemmas), and a search by `partition_point` finds the length of
a prefix; what is left is that each order used is total:

- `EventStepsMissNone`: `RetentionInv` puts every event between 0 and the timeline's end.
- `ReplayIsResolvedAsOf`: time, then capture order, is total on the samples of a series.
- `TargetIsFound`, for FailFast, with which the commands read: the sort key is total on connections
  because `InstancesOrdered` makes ids differ, and a joined connection keeps what the line shows.

**`AppProofs`**, second part, for every capture, any sequence of keys and any number of frames. What is proved
of the tracker holds inside the program (`AppTracks`). `AppInvariant` is the inductive invariant
`AppInv`: the timeline the app holds is one a tracker answered with, so that its ids differ and
display order is total in every sort field and direction (`RowOrders`); the metas are of its
connections; at most one connection is selected; in the phases after a draw the selection is among
the rows; and, live, the cursor is inside the domain and the domain not beyond `now`.

- `SelectionIsShown`. Moving the selection and reconciling it both read the sorted rows; that these
  list every row exactly once (`VisibleLists`) is `SortedByRank` again.
- `FrozenCursorIsKept`: the new domain clamps the cursor on one side only, since it was not beyond
  an earlier `now`.
- `FollowIsCurrent`, for ordered time and the state series collected, as the live command does: an
  open connection's last sample is its state (`RetentionInv`), is the last in time (`OrderedInv`)
  and lies in the span of the connection (`SpanInv`), so the search at `now` finds it. With
  timestamps that step back the newest sample need not be the latest.
- `FramesAgree`, for FailFast, with which a replay reads: `ReplayInv` adds that from the end of the
  file on the timeline and the metas are those of the capture, and that a frame drawn while playing
  has something left to play. Live it is false in one part, the peer of a row (AppStaleMeta).

**`AppProofs`**, third part, the graphs of the detail pane, for every size of the pane. The invariant
is `Draws` (`DrawsInvariant`): the samples of the timeline held are typed, so that a plotted value is
a natural number; no entry ends before its connection was opened; and the transport has
its type, with an ordered domain. Each frame then rests on three facts about one plot: `col_of` is
monotone in time; a cell is marked exactly when it is the peak of some layer in its column
(`GraphMarks`, by induction over the layers, each of which may overwrite the marks before it); and
the axis does not depend on the cursor.

- `NothingIsAhead`: a revealed sample is not later than the cursor, so its column is not right of
  the cursor's, and that the span is not inverted is part of `Draws`.
- `ResendsAreVisible`: the glyph of a cell is the most salient of the samples in it (`MostSalient`),
  a maximum over a set that holds the sample in question.
- `RevealIsMonotone`: what is revealed earlier is revealed later, so the peak of a column is a
  maximum over a larger set, with the same axis.

**`PipelineProofs`**, for every capacity of the channel, precision of the device and bound:
`PipelineInvariant` says that the events received, in the channel, at hand and dropped make up all
that were emitted, and that the distance of an event's number from its position is the number of
drops before it. From it `FramesAreHonest`, `TimeAxisIsOne`, and `PipelineImplementsFeed`: each
step of either thread is one step of LossyFeed or none, the safety part of `ImplementsFeed`.

**`FileProofs`**, for every file, snap length, resolution, capacity of the name table and room on
stdout. `ReadInvariant` relates the reader's state to the packets read (the baseline is the first
packet's, an outcome is that of its frame under the link type in force, every packet is an item, a
skip or a DNS answer); with it `TimesAreFaithful` and `HeadersAreEnough` (on every link type and with any number of VLAN
tags, cooked captures with a tag excepted: see "Others met"). `ParseIsHonest` adds what
`parse` has written, `FaucetsAgree` that libpcap's baseline is the reader's.
`NamesInvariant` says what the table holds after the first k observations; each DNS packet
brings several, so a step of it is itself an induction. From it
`LatestNamesAreHeld` and `FirstIpsAreHeld`.

**`RenderProofs`**, for every size of the terminal: a graph is drawn only from `GUTTER + MIN_W`
columns and `MIN_H` lines of plot on, and then both layouts are linear in width and height.
`RenderAssumption` takes `GUTTER >= 8` and `GUTTER + MIN_W >= 16` (both are equalities in the code);
`SceneAssumption` takes times of at most 20 digits, which is every `u64`, and axis values below 10^13, beyond
which a rate is wider than the gutter (see "Others met"). With them `GraphStaysInside` and
`LabelsAreClear`.

**`BasicLemmas`** has what these share: least and greatest elements, induction over the natural
numbers for a *set* (`SetInduction`; the library's theorems take an operator and cannot be
instantiated), sequences whose elements have no type, and finite sums. The sums and folds of
FiniteSetsExt and SequencesExt are unfolded to the table of partial results that defines them.

Every invariant and action property of a passing run is thus a theorem. Checked by TLC only are
`EventuallyEvicted`, `PlaybackEnds`, `QuitReleases` and the fairness of `ImplementsFeed`: they need
fairness and ENABLED, which the prover does not have.

## Where code and documents disagree

Each of these four has a run in which TLC finds the counterexample; the quotations are under
`findings`.

- **LiveBackstop**: the Evict backstop takes only from the connection that admits a sample and
  may find nothing there, so retained samples exceed `max_samples`, documented as a hard limit.
- **FlowKarn**: data re-sent within the reorder window is taken for reordering and its ACK timed,
  while ADR-0007 excludes RTTs from ambiguous sends. `RttNeverAmbiguous` is about the ACKs of data,
  so that the counterexample is this one and not a re-sent SYN (next list).
- **AppStaleMeta**: a 4-tuple evicted and reopened from the other side within one drain has the
  old `ConnId`, and `retarget` keeps the old row label.
- **ReplayResolution**: every interface description overwrites the one `nanos_per_tick`, and
  packets do not look at their interface: in a pcapng with two resolutions the times of one
  interface are scaled by the tick of the other. `TimesFaithful` shows that times are right when
  all interfaces agree.

Others met while modelling, which have no run of their own:

- `LiveNeverRegresses` needs a retention window not shorter than `dead_after`. With
  `--retention-secs` below 120 a newer terminal instance of a 4-tuple is evicted before an older
  open one (`tcpvisr-engine/src/tracker.rs:658`); the older becomes live again and absorbs the
  next use, documented to start a fresh instance (`docs/superpowers/specs/m11-live-capture.md:67`).
- `replay.rs:173` says that the pcapng blocks it ignores carry no packet; simple packet blocks do,
  and are dropped without a count. libpcap reads them, and cuts stamps below a microsecond
  (`libpcap.rs:47`), so for such files the two faucets differ, although
  `tcpvisr-ingest/tests/parity.rs:1` says that they "must produce identical `Item` streams".
  `FaucetParity` is about the files on which they agree.
- A re-sent SYN carries no data, is never classified as a retransmission
  (`tcpvisr-engine/src/metrics.rs:125`) and so does not clear the pending sends: the handshake RTT
  is timed from the first SYN, also where ADR-0007:84 excludes every retransmitted send.
  `DataRttUnambiguous` and `RttNeverAmbiguous` are about data.
- On cooked captures (SLL, SLL2) a VLAN tag is where the ethertype is expected, and
  `strip_after_ethertype` (`tcpvisr-ingest/src/link.rs:65`) skips the frame as not TCP although all
  its headers may have been captured. ADR-0008:32 calls a frame with its headers usable;
  `docs/milestones/m01-replay-parser/spec.md:151` puts VLAN tags that etherparse does not handle by
  itself out of scope. `HeadersSuffice` excludes exactly these frames (`passes_tags`).
- The RTT label is nine columns wide for 100 to 999.999 ms and for as many microseconds
  (`tcpvisr-tui/src/render.rs:309`), one more than the gutter, and hides the top mark of the first
  column. `render.rs:213`, `:405` and `:473` promise for the other three graphs that a label "never
  overwrites plot columns", which holds for offsets below 10^17 bytes and rates below 10^13 bit/s.
- The start and end times share a line: in a narrow pane they overlap, and a start of 1000 s or
  more can run over the border. Both only cover the label line, not the plot.
- The table says "no connections active" also when the filter hides every row.
- A DNS answer cut by the snap length is counted as non-TCP, and a frame cut in its link header
  as malformed; `Truncated` is kept for cuts in the IP and transport headers.
- A SYN-ACK takes SynSent to Established in one step (`tcpvisr-engine/src/tracker.rs:261`
  applies the completing-ACK rule to the SYN-ACK itself); the table of
  `docs/milestones/m02-connection-state/spec.md:106` has SynReceived in between.
- Ageing stops at the first young sample, so with timestamps that step back an older sample can
  stay behind it (`tracker.rs:145`); `NoStaleSamples` is therefore checked for ordered time.
- An open connection stays active up to the snapshot's end however long it is idle
  (`timeline.rs:173`); `docs/superpowers/specs/m11-live-capture.md:170` says that it drops out
  of the active set.
- The throughput frozen into a data sample misses bytes pruned by a later timestamp when its own
  timestamp lies behind (`metrics.rs:231`). `ThroughputExact` is about the present and later times.
- The drop counter counts ticks and names as well as segments (`tcp-visr/src/main.rs:422`), and
  the silent-link hint is cleared by TCP segments only (`main.rs:541`, while `main.rs:402` says
  "any packet").

## Not modelled

- The bytes behind `Decode`: header fields, flags, TCP options, and the parsers etherparse and
  simple_dns; libpcap's own reading of a file, and its errors.
- The argument parser, the checks for a zero ceiling or a missing terminal in `replay` and
  `metrics`, the JSON text, and the title line: each is one test or one formatting of what the
  modelled parts answer.
- Colours, the footer line and the column widths of the table; the kernel overlays of the graphs,
  which are empty in every call of the program.
- `u64` saturation of rates and of the playback cursor.
- `tcpvisr-enrich` is an empty crate.

## Plan

Built so far: the modules above, their runs, and the proofs above. The order was that of
importance: the engine first, then what is computed from it, then the threads around it, then the
commands and the drawing.

Worth modelling next: an abstract lifecycle specification that Tracker implements; Tracker
composed with LivePipeline, for ticks lost to a full channel and for a link that never falls
quiet; Flow with FIN and both directions sending.

Worth proving next: what the fixes of the disagreements above would establish, once made: the
hard limit of a backstop that evicts across connections, labels that follow the `ConnId`, and times
of a capture whose interfaces differ in resolution.
