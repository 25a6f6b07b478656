----------------------------- MODULE ReplayFile -----------------------------
(***************************************************************************)
(* The replay faucet: a capture file read block by block (tcpvisr-ingest   *)
(* replay.rs parse_file_visit_named), each packet decoded by decode_frame  *)
(* into the item sink, the name sink or a skip count.  The file itself is  *)
(* the environment: a legacy pcap, or a pcapng with any number of          *)
(* interfaces.                                                             *)
(***************************************************************************)
EXTENDS Decode, FiniteSets, FiniteSetsExt

CONSTANTS
    NS_PER_SEC,     \* nanoseconds of a second
    MICRO_TICK_NS,  \* nanoseconds of a microsecond
    U64Max,         \* saturation bound of timestamps
    Dlt,            \* the DLT numbers that files declare
    TicksPerSec,    \* the resolutions that interfaces declare; 0: unreadable
    Ticks,          \* packet timestamps, in the interface's ticks
    Packets,        \* packets, as pkt of module Decode
    Snaplens,       \* the units a capture keeps of a frame
    MaxBlocks,      \* bound: blocks of a file
    MaxPackets      \* bound: packets of a file

ASSUME ReplayFileAssumption ==
    /\ {NS_PER_SEC, MICRO_TICK_NS, U64Max} \subseteq Nat \ {0}
    /\ NS_PER_SEC % MICRO_TICK_NS = 0
    /\ TicksPerSec \subseteq Nat /\ Ticks \subseteq Nat /\ Dlt \subseteq Nat /\ Snaplens \subseteq Nat
    /\ \A p \in Packets : /\ p.etype \in {"ip", "other"} /\ p.proto \in {"tcp", "dns", "udp"}
                          /\ {p.tags, p.data} \subseteq Nat
                          /\ {p.fragment, p.ext, p.offload} \subseteq BOOLEAN

VARIABLES
    state,     \* replay.rs State; link_type and baseline are sets of at most one
    result,    \* "reading", or how parse_file_visit_named ended
    items,     \* what the item sink was given
    names,     \* what the name sink was given
    file,      \* the interfaces declared so far: [link, tick, ng] (history)
    seen,      \* the packets so far, as in the file and as processed (history)
    unread,    \* packets in simple packet blocks, which are not read (history)
    blocks     \* blocks read (bound)

vars == <<state, result, items, names, file, seen, unread, blocks>>

Init ==
    /\ state = [link_type |-> {}, baseline |-> {}, nanos_per_tick |-> MICRO_TICK_NS,
                skipped |-> [r \in SkipReason |-> 0]]
    /\ result = "reading"
    /\ items = <<>> /\ names = <<>>
    /\ file = <<>> /\ seen = <<>> /\ unread = 0
    /\ blocks = 0

-----------------------------------------------------------------------------
saturated(n) == IF n > U64Max THEN U64Max ELSE n

saturating_sub(a, b) == IF a > b THEN a - b ELSE 0

\* nanos_per_tick(ticks_per_sec): the tick in nanoseconds, if it is a whole number of them.
whole_tick(tps) ==
    IF tps = 0 \/ NS_PER_SEC % tps # 0 THEN {} ELSE {NS_PER_SEC \div tps}

\* variant: the magic number is not looked at
micro_tick(nano) == MICRO_TICK_NS

\* The tick of a legacy file, by its magic number.
legacy_tick(nano) == IF nano THEN 1 ELSE MICRO_TICK_NS

\* An interface with a link type other than the one recorded.
mixed(link) == state.link_type # {} /\ state.link_type # {link}

\* SkipCounts::record
record(counts, reason) == [counts EXCEPT ![reason] = @ + 1]

\* SkipCounts::total
total(counts) == MapThenSumSet(LAMBDA r : counts[r], SkipReason)

-----------------------------------------------------------------------------
(***************************************************************************)
(* handle_block, one action per kind of block.  An error ends the parse.   *)
(***************************************************************************)
Block == result = "reading" /\ blocks < MaxBlocks /\ blocks' = blocks + 1

is_ng == \A i \in DOMAIN file : file[i].ng

\* The header of a legacy file, its first block.
LegacyHeader(dlt, nano) ==
    /\ Block /\ blocks = 0
    /\ IF from_dlt(dlt) = {}
       THEN result' = "UnknownLinkType" /\ UNCHANGED <<state, file>>
       ELSE /\ state' = [state EXCEPT !.link_type = from_dlt(dlt), !.nanos_per_tick = legacy_tick(nano)]
            /\ file' = Append(file, [link |-> from_dlt(dlt), ng |-> FALSE,
                                     tick |-> IF nano THEN 1 ELSE MICRO_TICK_NS])
            /\ UNCHANGED result
    /\ UNCHANGED <<items, names, seen, unread>>

\* A pcapng interface description.
InterfaceDescription(dlt, tps) ==
    /\ Block /\ is_ng
    /\ CASE from_dlt(dlt) = {} ->
               result' = "UnknownLinkType" /\ UNCHANGED <<state, file>>
         [] \E link \in from_dlt(dlt) : mixed(link) ->
               result' = "MixedLinkTypes" /\ UNCHANGED <<state, file>>
         [] OTHER ->
               /\ state' = [state EXCEPT !.link_type = from_dlt(dlt),
                                         !.nanos_per_tick = IF whole_tick(tps) = {} THEN @
                                                            ELSE CHOOSE n \in whole_tick(tps) : TRUE]
               /\ IF whole_tick(tps) = {} THEN result' = "Container" /\ UNCHANGED file
                  ELSE /\ file' = Append(file, [link |-> from_dlt(dlt), ng |-> TRUE,
                                                tick |-> NS_PER_SEC \div tps])
                       /\ UNCHANGED result
    /\ UNCHANGED <<items, names, seen, unread>>

(***************************************************************************)
(* process_packet: the first packet's time is the baseline, also when the  *)
(* packet itself is skipped.  at is its time in the file's own terms.      *)
(***************************************************************************)
process_packet(abs_ns, at, iface, frame) ==
    LET baseline == IF state.baseline = {} THEN abs_ns ELSE CHOOSE b \in state.baseline : TRUE
        ts       == saturating_sub(abs_ns, baseline)
        based    == [state EXCEPT !.baseline = {baseline}]
    IN  IF state.link_type = {}
        THEN state' = based /\ result' = "Container" /\ UNCHANGED <<items, names, seen>>
        ELSE LET link    == CHOOSE l \in state.link_type : TRUE
                 outcome == decode_frame(link, ts, frame)
             IN  /\ seen' = Append(seen, [iface |-> iface, at |-> at, frame |-> frame,
                                          link |-> link, ts |-> ts, outcome |-> outcome])
                 /\ items' = IF outcome.kind = "segment" THEN Append(items, outcome) ELSE items
                 /\ names' = IF outcome.kind = "names" THEN names \o outcome.obs ELSE names
                 /\ state' = IF outcome.kind = "skipped"
                             THEN [based EXCEPT !.skipped = record(@, outcome.reason)] ELSE based
                 /\ UNCHANGED result

\* A frame that interface i of the file has captured.
Frame(i, pkt, n) == captured(CHOOSE l \in file[i].link : TRUE, pkt, n)

\* A packet record of a legacy file, at `sec` seconds and `sub` ticks.
Legacy(sec, sub, pkt, n) ==
    /\ Block /\ ~is_ng
    /\ Len(seen) < MaxPackets
    /\ process_packet(saturated(saturated(sec * NS_PER_SEC) + saturated(sub * state.nanos_per_tick)),
                      saturated(sec * NS_PER_SEC + sub * file[1].tick), 1, Frame(1, pkt, n))
    /\ UNCHANGED <<file, unread>>

\* An enhanced packet block of interface i.
EnhancedPacket(i, ticks, pkt, n) ==
    /\ Block /\ is_ng
    /\ Len(seen) < MaxPackets
    /\ process_packet(saturated(ticks * state.nanos_per_tick),
                      saturated(ticks * file[i].tick), i, Frame(i, pkt, n))
    /\ UNCHANGED <<file, unread>>

\* A packet before any interface description (a malformed file).
OrphanPacket(ticks, pkt, n) ==
    /\ Block /\ file = <<>>
    /\ process_packet(saturated(ticks * state.nanos_per_tick), ticks, 0, captured("RawIp", pkt, n))
    /\ UNCHANGED <<file, unread>>

\* Any other pcapng block is ignored, one that holds a packet too.
OtherBlock(packets) ==
    /\ Block /\ is_ng
    /\ unread' = unread + packets
    /\ UNCHANGED <<state, result, items, names, file, seen>>

\* File::open or create_reader failed.
OpenError ==
    /\ result = "reading" /\ blocks = 0
    /\ result' \in {"Open", "Container"}
    /\ UNCHANGED <<state, items, names, file, seen, unread, blocks>>

\* PcapError::Eof
EndOfFile ==
    /\ result = "reading"
    /\ result' = IF state.link_type = {} THEN "Container" ELSE "parsed"
    /\ UNCHANGED <<state, items, names, file, seen, unread, blocks>>

\* Truncated or unreadable: any other error of the reader.
ReadError ==
    /\ result = "reading"
    /\ result' = "Container"
    /\ UNCHANGED <<state, items, names, file, seen, unread, blocks>>

Next ==
    \/ \E dlt \in Dlt, nano \in BOOLEAN : LegacyHeader(dlt, nano)
    \/ \E dlt \in Dlt, tps \in TicksPerSec : InterfaceDescription(dlt, tps)
    \/ \E pkt \in Packets, n \in Snaplens, t \in Ticks :
          \/ \E sec \in {0, 1} : Legacy(sec, t, pkt, n)
          \/ \E i \in DOMAIN file : EnhancedPacket(i, t, pkt, n)
          \/ OrphanPacket(t, pkt, n)
    \/ \E packets \in {0, 1} : OtherBlock(packets)
    \/ OpenError \/ EndOfFile \/ ReadError

Spec == Init /\ [][Next]_vars

-----------------------------------------------------------------------------
(***************************************************************************)
(* Timestamps are the true ones, counted from the first packet of the file *)
(* whatever became of that packet; an earlier one is at 0.  For files      *)
(* whose interfaces agree on the resolution.                               *)
(***************************************************************************)
Faithful(k) == seen[k].ts = saturating_sub(seen[k].at, seen[1].at)

TimesFaithful ==
    Cardinality({file[i].tick : i \in DOMAIN file}) <= 1 => \A k \in DOMAIN seen : Faithful(k)

(***************************************************************************)
(* A TCP packet whose headers were captured becomes a segment with its     *)
(* payload length on the wire, whatever the snap length and the VLAN tags  *)
(* of an Ethernet frame (ADR-0008); the length field of offload hardware   *)
(* is the exception, and only a frame that was cut is counted as           *)
(* truncated.  On a cooked capture strip_after_ethertype (link.rs) takes a *)
(* VLAN tag for an ethertype that is not IP: a tagged segment is skipped   *)
(* as NonTcp there, and the property makes no claim about it.              *)
(***************************************************************************)
passes_tags(pkt, link) == pkt.tags = 0 \/ link \notin {"LinuxSll", "LinuxSll2"}

usable(f, link) ==
    /\ f.pkt.etype = "ip" /\ f.pkt.proto = "tcp" /\ ~f.pkt.fragment /\ ~f.pkt.ext
    /\ passes_tags(f.pkt, link)
    /\ Len(f.units) >= Len(link_header(link, f.pkt)) + 2

HeadersSuffice ==
    \A k \in DOMAIN seen :
        LET f == seen[k].frame
            o == seen[k].outcome
        IN  /\ usable(f, seen[k].link) =>
                  /\ o.kind = "segment"
                  /\ o.payload_len = f.pkt.data \/ f.pkt.offload
            /\ o.kind = "skipped" /\ o.reason = "Truncated" => Len(f.units) < f.wire_len

(***************************************************************************)
(* replay.rs, at the interface description: "Honor the interface's         *)
(* declared timestamp resolution rather than assuming microsecond" - for   *)
(* each interface of a file.                                               *)
(***************************************************************************)
ResolutionHonored == \A k \in DOMAIN seen : Faithful(k)
=============================================================================
