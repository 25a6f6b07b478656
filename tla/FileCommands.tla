---------------------------- MODULE FileCommands ----------------------------
(***************************************************************************)
(* What reads a capture file through the replay faucet, and what it does   *)
(* with the items and names as they come: `parse' prints a line for each   *)
(* segment (tcp-visr/src/main.rs run_parse), `replay' keeps the names in a *)
(* table (build_replay_app), and the parity test reads the same file with  *)
(* libpcap (tcpvisr-ingest/src/libpcap.rs).                                *)
(***************************************************************************)
EXTENDS ReplayFile, NameTable, SequencesExt

CONSTANTS Rooms   \* how many lines stdout takes before it fails (a closed pipe)

ASSUME FileCommandsAssumption ==
    /\ Rooms \subseteq Nat
    /\ \A p \in Packets :
          p.answers \in Seq([ip : Ip, address : BOOLEAN, owner : [printable : STRING, len : Nat]])

VARIABLES
    room,    \* lines that stdout still takes
    out,     \* parse: [count, lines, write_err], the locals of run_parse
    exit,    \* parse: its result, "running" until there is one
    table,   \* replay: the NameTable
    lib      \* libpcap: [baseline, outcomes], the locals of parse_file_libpcap

cmdvars == <<vars, room, out, exit, table, lib>>

CmdInit ==
    /\ Init
    /\ room \in Rooms
    /\ out = [count |-> 0, lines |-> 0, write_err |-> FALSE]
    /\ exit = "running"
    /\ table = NameTableNew
    /\ lib = [baseline |-> {}, outcomes |-> <<>>]

\* What the step has added to a sequence.
added(old, new) == SubSeq(new, Len(old) + 1, Len(new))

-----------------------------------------------------------------------------
(***************************************************************************)
(* parse: after the first failed write nothing is printed, but the file is *)
(* read to its end.                                                        *)
(***************************************************************************)
print_line(o, item) ==
    IF o.write_err THEN o
    ELSE [count     |-> o.count + 1,
          lines     |-> IF o.lines < room THEN o.lines + 1 ELSE o.lines,
          write_err |-> o.lines >= room]

\* variant: a failed write is forgotten once the file has been read
exit_of_read(res, o) == IF res = "parsed" THEN "ok" ELSE "ingest error"

\* The summary line is written last, and may fail too.
exit_of(res, o) ==
    CASE res # "parsed"                  -> "ingest error"
      [] o.write_err \/ o.lines >= room  -> "write error"
      [] OTHER                           -> "ok"

Parse ==
    /\ out' = FoldLeft(print_line, out, added(items, items'))
    /\ exit' = IF result' = "reading" THEN exit ELSE exit_of(result', out)
    /\ UNCHANGED room

\* The summary that parse prints: the lines, and what SkipCounts::nonzero lists.
nonzero(counts) == [r \in {q \in SkipReason : counts[q] > 0} |-> counts[r]]

summary == [segments |-> out.count, skipped |-> nonzero(state.skipped)]

-----------------------------------------------------------------------------
\* build_replay_app: every observation goes to the table as it is decoded.
Names == table' = FoldLeft(names_observe, table, added(names, names'))

-----------------------------------------------------------------------------
(***************************************************************************)
(* parse_file_libpcap: the packets as libpcap hands them over, stamped in  *)
(* microseconds, through the same decode_frame.                            *)
(***************************************************************************)

\* variant: the time base is that of the first packet decoded
lib_baseline_decoded(l, abs_ns, p) ==
    IF l.baseline # {} THEN l.baseline ELSE IF p.outcome.kind = "skipped" THEN {} ELSE {abs_ns}

lib_baseline(l, abs_ns, p) == IF l.baseline # {} THEN l.baseline ELSE {abs_ns}

lib_packet(l, p) ==
    LET abs_ns == (p.at \div MICRO_TICK_NS) * MICRO_TICK_NS
        base   == lib_baseline(l, abs_ns, p)
        ts     == saturating_sub(abs_ns, Min(base \cup {abs_ns}))
    IN  [baseline |-> base,
         outcomes |-> Append(l.outcomes, decode_frame(p.link, ts, p.frame))]

Libpcap == lib' = FoldLeft(lib_packet, lib, added(seen, seen'))

-----------------------------------------------------------------------------
CmdNext == Next /\ Parse /\ Names /\ Libpcap

CmdSpec == CmdInit /\ [][CmdNext]_cmdvars

-----------------------------------------------------------------------------
(***************************************************************************)
(* parse succeeds exactly when the whole file was read and every line was  *)
(* written, the summary included; and the summary then accounts for all    *)
(* packets that were read, the DNS answers (which parse has no line for)   *)
(* apart.  A broken pipe or an unreadable block is never a success.        *)
(***************************************************************************)
ParseHonest ==
    /\ exit = "ok" => /\ result = "parsed"
                      /\ out.lines = Len(items)
                      /\ summary.segments + total(state.skipped)
                            + Cardinality({k \in DOMAIN seen : seen[k].outcome.kind = "names"})
                         = Len(seen)
    /\ result = "parsed" /\ room > Len(items) => exit = "ok"

\* The observations of ip, and the one that latest-wins picks from them.
about(ip) == {k \in DOMAIN names : names[k].ip = ip}

wins(k) == \A j \in about(names[k].ip) :
               names[j].ts < names[k].ts \/ (names[j].ts = names[k].ts /\ j <= k)

(***************************************************************************)
(* The name held for an IP is the one of the greatest timestamp among ALL  *)
(* observations of that IP in the file, the last seen of equals - also for *)
(* those made while the table was full (NameTable::observe).               *)
(***************************************************************************)
LatestNameWins ==
    \A ip \in held(table) :
        \E k \in about(ip) : wins(k) /\ resolve(table, ip) = {names[k].name}

\* The distinct IPs heard up to observation k.
distinct(k) == {names[j].ip : j \in 1 .. k}

(***************************************************************************)
(* The table holds exactly the first NAME_TABLE_CAP distinct IPs heard,    *)
(* and dropped counts every observation of any other: a full table never   *)
(* gives up an IP and never admits one.                                    *)
(***************************************************************************)
FirstIpsHeld ==
    /\ \A k \in DOMAIN names :
          names[k].ip \in held(table)
            <=> \E j \in about(names[k].ip) : Cardinality(distinct(j)) <= NameCap
    /\ table.dropped = Cardinality({k \in DOMAIN names : names[k].ip \notin held(table)})

(***************************************************************************)
(* Both faucets "must produce identical Item streams for the same          *)
(* well-formed capture" (tcpvisr-ingest/tests/parity.rs), skips and names  *)
(* included: for files whose interfaces agree on a resolution of whole     *)
(* microseconds and that hold no simple packet block.  libpcap drops what  *)
(* is below a microsecond, and reads simple packet blocks.                 *)
(***************************************************************************)
in_micros == \A i \in DOMAIN file : file[i].tick = file[1].tick /\ file[i].tick % MICRO_TICK_NS = 0

FaucetParity ==
    result = "parsed" /\ in_micros /\ unread = 0 /\ (\A k \in DOMAIN seen : seen[k].at < U64Max) =>
        lib.outcomes = [k \in DOMAIN seen |-> seen[k].outcome]
=============================================================================
