------------------------------- MODULE Screen -------------------------------
(***************************************************************************)
(* What a frame tells the user about the app (tcpvisr-tui render.rs        *)
(* render_main, render_detail, transport_status): the table with its       *)
(* highlighted row beside the detail pane, and the transport in the        *)
(* header.  Module Render has the layout, module Plots the graphs.         *)
(***************************************************************************)
EXTENDS Detail

\* The host a DNS answer gave, or else the address.
peer_label(peer, host) == IF host = {} THEN peer ELSE CHOOSE h \in host : TRUE

\* A row of the table.
table_row(a, r) ==
    [id |-> r.id, peer |-> peer_label(a.metas[r.id].peer, a.metas[r.id].host),
     service |-> a.metas[r.id].service, state |-> r.state,
     inferred |-> a.metas[r.id].origin_inferred, bytes |-> r.bytes]

is_capture_empty(a) == DOMAIN a.metas = {}

\* render_main: the rows, and those highlighted; or a message.
main_pane(a) ==
    LET rs == visible(a)
    IN  [message |-> CASE rs # <<>>           -> "none"
                       [] is_capture_empty(a) -> "no connections in capture"
                       [] OTHER               -> "no connections active",
         table   |-> [k \in DOMAIN rs |-> table_row(a, rs[k])],
         at      |-> {k \in DOMAIN rs : rs[k].id \in a.selected}]

\* The pane's title, for each connection it is about: none, or the focused one.
detail_title(a) ==
    {[id |-> e.conn.id, origin |-> e.conn.origin,
      peer |-> peer_label(e.conn.responder, a.metas[e.conn.id].host)] : e \in focus_entries(a)}

detail_pane(a) ==
    IF ~a.detail_open THEN [message |-> "closed", about |-> {}]
    ELSE IF focus_entries(a) = {} THEN [message |-> "no connection selected", about |-> {}]
    ELSE [message |-> "none", about |-> detail_title(a)]

\* The header: the play state, and where the cursor is.
transport_status(a) ==
    [state |-> CASE is_live /\ a.follow          -> "LIVE"
                 [] is_live /\ ~a.follow         -> "FROZEN"
                 [] ~is_live /\ a.transport.playing  -> "playing"
                 [] OTHER                        -> "paused",
     t     |-> a.transport.cursor,
     end   |-> a.transport.end]

-----------------------------------------------------------------------------
(***************************************************************************)
(* The parts of a frame agree, after any sequence of keys, playback and    *)
(* filters.  The detail pane is about the highlighted row, under the same  *)
(* label; it says that nothing is selected only beside a table without     *)
(* rows; a table always has one highlighted row; the message about an      *)
(* empty capture is for captures without connections; and the header says  *)
(* that playback runs only when there is something left to play.           *)
(***************************************************************************)
PanesAgree ==
    Drawn =>
        LET main   == main_pane(app)
            detail == detail_pane(app)
        IN  /\ \A d \in detail.about : \E k \in main.at :
                  main.table[k].id = d.id /\ main.table[k].peer = d.peer
            /\ detail.message = "no connection selected" => main.table = <<>>
            /\ main.table # <<>> => Cardinality(main.at) = 1
            /\ main.message = "no connections in capture" <=> conns = <<>>
            /\ transport_status(app).state = "playing" =>
                  transport_status(app).t < transport_status(app).end
=============================================================================
