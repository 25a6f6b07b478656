-------------------------------- MODULE App ---------------------------------
(***************************************************************************)
(* The interactive state of the program (tcpvisr-tui app.rs, keys.rs) and  *)
(* the two loops that drive it (run.rs): the replay loop draws, takes at   *)
(* most one key and advances playback by the elapsed time; the live loop   *)
(* draws, takes at most one key, drains what was captured into the tracker *)
(* and retargets the app at a fresh snapshot.  It is composed with the     *)
(* tracker and the timeline, so that what the app shows is what was        *)
(* captured.                                                               *)
(*                                                                         *)
(* An Option is the set of its values; a searchable text is the sequence   *)
(* of its words, and a query the sequence of the words typed; an endpoint  *)
(* has an IP of its own and a port that may be well known.                 *)
(***************************************************************************)
EXTENDS Views, Transport, NameTable

CONSTANTS
    Services,       \* the service of the endpoints whose port is well known
    Heard,          \* name observations the capture may contain
    Word,           \* words a query is typed from
    Dts,            \* elapsed times between two frames of the replay loop
    MaxKeys,        \* bound: keys pressed
    MaxHeard        \* bound: name observations

ASSUME AppAssumption ==
    /\ Ip = Endpoint /\ DOMAIN Services \subseteq Endpoint
    /\ Dts \subseteq Nat /\ {MaxKeys, MaxHeard} \subseteq Nat

VARIABLES
    app,    \* struct App
    phase,  \* "feed": items are folded in; "input": a frame was drawn; "play": the replay
            \* tick; "done": the loop was left
    keys,   \* keys pressed so far
    names_heard  \* name observations so far

appvars == <<vars, app, phase, keys, names_heard>>

is_live == Evicts

-----------------------------------------------------------------------------
(***************************************************************************)
(* Rows: the connections active at the cursor that pass the filter, in     *)
(* display order.                                                          *)
(***************************************************************************)
ids_of(tl) == {tl.entries[i].conn.id : i \in DOMAIN tl.entries}

conn_of(tl, id) == tl.entries[CHOOSE i \in DOMAIN tl.entries : tl.entries[i].conn.id = id].conn

\* The service of an endpoint's port, if the table has it.
service_name(e) == IF e \in DOMAIN Services THEN {Services[e]} ELSE {}

meta_for(c, names) ==
    LET host    == resolve(names, c.responder)
        service == service_name(c.responder)
    IN  [peer            |-> c.responder,
         host            |-> host,
         service         |-> service,
         origin_inferred |-> c.origin_inferred,
         search_prefix   |-> <<c.origin, c.responder>> \o SetToSeq(host) \o SetToSeq(service)]

is_subsequence(needle, haystack) ==
    \E f \in [DOMAIN needle -> DOMAIN haystack] :
        /\ \A i \in DOMAIN needle : haystack[f[i]] = needle[i]
        /\ \A i, j \in DOMAIN needle : i < j => f[i] < f[j]

rows(a) ==
    {r \in resolve_at(a.timeline, a.transport.cursor) :
        /\ r.id \in DOMAIN a.metas
        /\ is_subsequence(a.query, Append(a.metas[r.id].search_prefix, r.state))}

SortFields == <<"peer", "state", "bytes_up", "bytes_down">>

natural_dir(field) == IF field \in {"peer", "state"} THEN "asc" ELSE "desc"

sort_key(a, r) == CASE a.sort_field = "peer"       -> position(a.metas[r.id].peer)
                    [] a.sort_field = "state"      -> rank(r.state)
                    [] a.sort_field = "bytes_up"   -> r.bytes["o2r"]
                    [] a.sort_field = "bytes_down" -> r.bytes["r2o"]

\* The tie-break by id is never reversed.
order(a, x, y) ==
    LET kx == sort_key(a, x)
        ky == sort_key(a, y)
    IN  IF kx = ky THEN id_lt(x.id, y.id)
        ELSE IF a.sort_dir = "desc" THEN kx > ky ELSE kx < ky

visible(a) == in_order(rows(a), LAMBDA x, y : order(a, x, y))

\* The id of the row at position k of the visible rows, if there is one.
id_at(rs, k) == IF k \in DOMAIN rs THEN {rs[k].id} ELSE {}

\* variant: the selection is kept whatever is visible
selection_kept(a) == a

reconcile_selection(a) ==
    IF \E r \in rows(a) : r.id \in a.selected THEN a
    ELSE [a EXCEPT !.selected = id_at(visible(a), 1)]

move_by(a, step) ==
    LET rs  == visible(a)
        at  == {k \in DOMAIN rs : rs[k].id \in a.selected}
        cur == IF at = {} THEN 1 ELSE Min(at)
        nxt == IF step = "up" THEN later(cur - 1, 1) ELSE Min({cur + 1, Len(rs)})
    IN  [a EXCEPT !.selected = id_at(rs, nxt)]

-----------------------------------------------------------------------------
(***************************************************************************)
(* Construction and retargeting.                                           *)
(***************************************************************************)
app_new(tl, names) ==
    LET a == [timeline    |-> tl,
              transport   |-> transport_new(tl.start, tl.end),
              metas       |-> [id \in ids_of(tl) |-> meta_for(conn_of(tl, id), names)],
              sort_field  |-> "peer",
              sort_dir    |-> "asc",
              mode        |-> "nav",
              query       |-> <<>>,
              selected    |-> {},
              detail_open |-> FALSE,
              detail_view |-> 1,
              follow      |-> is_live,
              names       |-> names]
    IN  [a EXCEPT !.selected = id_at(visible(a), 1)]

\* metas reconciled with the snapshot: kept, added or dropped by ConnId.
metas_for(a, tl) ==
    [id \in ids_of(tl) |->
        IF id \in DOMAIN a.metas THEN a.metas[id] ELSE meta_for(conn_of(tl, id), a.names)]

\* variant: the cursor is pinned even when frozen
pinned_always(a, tr, t) == set_cursor(tr, t)

pinned(a, tr, t) == IF a.follow THEN set_cursor(tr, t) ELSE tr

\* variant: the new snapshot is not taken over when its connections are the old ones
retarget_new_ids(a, tl, horizon, t) ==
    reconcile_selection(
        [a EXCEPT !.timeline  = IF ids_of(tl) = ids_of(a.timeline) THEN @ ELSE tl,
                  !.metas     = metas_for(a, tl),
                  !.transport = pinned(a, set_domain(@, horizon, t), t)])

retarget(a, tl, horizon, t) ==
    reconcile_selection(
        [a EXCEPT !.timeline  = tl,
                  !.metas     = metas_for(a, tl),
                  !.transport = pinned(a, set_domain(@, horizon, t), t)])

-----------------------------------------------------------------------------
(***************************************************************************)
(* Operations on the app.  Those that can change the rows reconcile the    *)
(* selection; toggle_follow does not.                                      *)
(***************************************************************************)
toggle_play(a) ==
    reconcile_selection([a EXCEPT !.transport = transport_toggle_play(@)])

toggle_follow(a) ==
    [a EXCEPT !.follow    = ~@,
              !.transport = IF a.follow THEN @ ELSE set_cursor(@, @.end)]

freeze_if_live(a) == IF is_live THEN [a EXCEPT !.follow = FALSE] ELSE a

seek(a, forward) ==
    reconcile_selection([a EXCEPT !.transport = transport_seek(@, forward)])

\* step_forward and step_back: nothing happens where there is no such event.
step_to(a, t) ==
    IF t = None THEN a
    ELSE reconcile_selection([a EXCEPT !.transport = set_cursor(@, t)])

tick(a, dt) ==
    LET b == [a EXCEPT !.transport = transport_tick(@, dt)]
    IN  IF b.transport.cursor # a.transport.cursor THEN reconcile_selection(b) ELSE b

next_field(f) == LET i == CHOOSE i \in DOMAIN SortFields : SortFields[i] = f
                 IN  SortFields[(i % Len(SortFields)) + 1]

cycle_sort(a) == [a EXCEPT !.sort_field = next_field(@),
                           !.sort_dir   = natural_dir(next_field(a.sort_field))]

toggle_dir(a) == [a EXCEPT !.sort_dir = IF @ = "asc" THEN "desc" ELSE "asc"]

edit_filter(a, query) == reconcile_selection([a EXCEPT !.query = query])

open_detail(a) == IF a.selected # {} THEN [a EXCEPT !.detail_open = TRUE] ELSE a

-----------------------------------------------------------------------------
(***************************************************************************)
(* handle_key: what one key press does to the app in each mode.            *)
(***************************************************************************)
Press(mode, a) ==
    /\ phase = "input"
    /\ app.mode = mode
    /\ keys < MaxKeys
    /\ keys' = keys + 1
    /\ app' = a
    /\ phase' = IF is_live THEN "feed" ELSE "play"
    /\ UNCHANGED <<vars, names_heard>>

KeySort == Press("nav", cycle_sort(app))

KeyDir == Press("nav", toggle_dir(app))

KeyMove(step) == Press("nav", move_by(app, step))

KeySpace == Press("nav", IF is_live THEN toggle_follow(app) ELSE toggle_play(app))

KeySeek(forward) == Press("nav", seek(freeze_if_live(app), forward))

KeySpeed(up) ==
    Press("nav", [app EXCEPT !.transport = IF up THEN transport_faster(@) ELSE transport_slower(@)])

KeyStep(forward) ==
    LET a == freeze_if_live(app)
        t == a.transport.cursor
    IN  Press("nav", step_to(a, IF forward THEN next_event(a.timeline, t)
                                ELSE prev_event(a.timeline, t)))

KeyEnter == Press("nav", open_detail(app))

KeyEsc == Press("nav", [app EXCEPT !.detail_open = FALSE])

KeyTab == Press("nav", [app EXCEPT !.detail_view = (@ % 4) + 1])

KeySlash == Press("nav", [app EXCEPT !.mode = "filter"])

FilterType(w) == Press("filter", edit_filter(app, Append(app.query, w)))

FilterBackspace ==
    Press("filter", edit_filter(app, IF app.query = <<>> THEN <<>> ELSE Front(app.query)))

FilterConfirm == Press("filter", [app EXCEPT !.mode = "nav"])

FilterCancel == Press("filter", edit_filter([app EXCEPT !.mode = "nav"], <<>>))

\* q in navigation mode, Ctrl-C in both; a failed draw or read ends the loop as well.
Quit ==
    /\ phase = "input"
    /\ phase' = "done"
    /\ UNCHANGED <<vars, app, keys, names_heard>>

\* The terminal is restored and the process ends.
Done == phase = "done" /\ UNCHANGED appvars

Keys ==
    \/ KeySort \/ KeyDir \/ KeySpace \/ KeyEnter \/ KeyEsc \/ KeyTab \/ KeySlash
    \/ \E step \in {"up", "down"} : KeyMove(step)
    \/ \E b \in BOOLEAN : KeySeek(b) \/ KeySpeed(b) \/ KeyStep(b)
    \/ \E w \in Word : FilterType(w)
    \/ FilterBackspace \/ FilterConfirm \/ FilterCancel

\* The poll timed out.
NoKey ==
    /\ phase = "input"
    /\ phase' = IF is_live THEN "feed" ELSE "play"
    /\ UNCHANGED <<vars, app, keys, names_heard>>

-----------------------------------------------------------------------------
(***************************************************************************)
(* The loops.                                                              *)
(***************************************************************************)

\* An item is folded into the tracker: while the file is read, or in a drain.
Feed == phase = "feed" /\ Next /\ UNCHANGED <<app, phase, keys, names_heard>>

\* A name observation of the capture; App::observe_name when live.
HearName(obs) ==
    /\ phase = "feed"
    /\ names_heard < MaxHeard
    /\ names_heard' = names_heard + 1
    /\ app' = [app EXCEPT !.names = names_observe(@, obs)]
    /\ UNCHANGED <<vars, phase, keys>>

\* Replay: the file is read; build_replay_app fails once the ceiling tripped.
StartReplay ==
    /\ phase = "feed" /\ ~is_live
    /\ ~overflowed
    /\ app' = app_new(into_timeline, app.names)
    /\ phase' = "input"
    /\ UNCHANGED <<vars, keys, names_heard>>

\* Replay: the end of event_loop's turn.
ReplayTick(dt) ==
    /\ phase = "play"
    /\ app' = tick(app, dt)
    /\ phase' = "input"
    /\ UNCHANGED <<vars, keys, names_heard>>

\* Live: the end of next_frame.
Retarget ==
    /\ phase = "feed" /\ is_live
    /\ app' = retarget(app, snapshot, horizon_at(now), now)
    /\ phase' = "input"
    /\ UNCHANGED <<vars, keys, names_heard>>

AppInit ==
    /\ Init
    /\ app = app_new(with_seq(<<>>, <<>>), NameTableNew)
    /\ phase = IF is_live THEN "input" ELSE "feed"
    /\ keys = 0
    /\ names_heard = 0

AppNext ==
    \/ Feed \/ Keys \/ Quit \/ Done \/ NoKey \/ StartReplay \/ Retarget
    \/ \E obs \in Heard : HearName(obs)
    \/ \E dt \in Dts : ReplayTick(dt)

AppSpec == AppInit /\ [][AppNext]_appvars

(***************************************************************************)
(* The file ends, poll returns after TICK and the loop goes on; whether a  *)
(* key is pressed is left open.                                            *)
(***************************************************************************)
AppFairSpec ==
    /\ AppSpec
    /\ WF_appvars(StartReplay)
    /\ WF_appvars(NoKey)
    /\ WF_appvars(\E dt \in Dts : ReplayTick(dt))
    /\ WF_appvars(Retarget)

-----------------------------------------------------------------------------
Drawn == phase = "input"

(***************************************************************************)
(* Whenever a frame is drawn, a row is selected exactly when there is one, *)
(* and the selected connection is among the rows - after any sequence of   *)
(* seeks, filters, playback, evictions and snapshots.  toggle_follow moves *)
(* the cursor without reconciling; the retarget before the next draw does. *)
(***************************************************************************)
SelectionShown ==
    Drawn => /\ app.selected \subseteq {r.id : r \in rows(app)}
             /\ app.selected = {} => rows(app) = {}

(***************************************************************************)
(* Live: a frame drawn while following shows the cursor at the tracker's   *)
(* now, and without a filter every open connection in its current state    *)
(* with its current byte counts: the drain, the snapshot and the app agree *)
(* (criteria 7 and 11 of docs/superpowers/specs/m11-live-capture.md).      *)
(***************************************************************************)
FollowShowsNow ==
    is_live /\ Drawn /\ app.follow =>
        /\ app.transport.cursor = app.transport.end
        /\ app.query = <<>> =>
              \A i \in DOMAIN conns :
                  conns[i].state \notin Terminal =>
                      asof_of(conns[i]) \in rows(app)

(***************************************************************************)
(* Live: a frozen cursor stays where it is until the retention horizon     *)
(* reaches it, and is then dragged along; no snapshot moves it otherwise   *)
(* (Transport::set_domain, App::retarget).                                 *)
(***************************************************************************)
FrozenCursorStays ==
    [][phase = "feed" /\ phase' = "input" /\ is_live /\ ~app.follow =>
          app'.transport.cursor = later(app.transport.cursor, horizon_at(now))]_appvars

(***************************************************************************)
(* Replay: once the user leaves the keys alone playback comes to its end   *)
(* and stops there, at every speed (Transport::tick auto-pauses), unless   *)
(* the program is left before.                                             *)
(***************************************************************************)
PlaybackEnds == <>[](~app.transport.playing \/ phase = "done")

(***************************************************************************)
(* ConnMeta is documented as the time-invariant projection of its          *)
(* connection: a row shows the responder of the connection it stands for.  *)
(***************************************************************************)
MetasCurrent ==
    Drawn => \A id \in ids_of(app.timeline) \cap DOMAIN app.metas :
        app.metas[id].peer = conn_of(app.timeline, id).responder
=============================================================================
