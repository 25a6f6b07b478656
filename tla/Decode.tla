------------------------------- MODULE Decode -------------------------------
(***************************************************************************)
(* One captured frame to one outcome: tcpvisr-ingest decode.rs, link.rs    *)
(* and dns.rs.                                                             *)
(*                                                                         *)
(* The bytes of a frame are a sequence of units: what the link layer puts  *)
(* first, then one unit for the IP header, one for the transport header    *)
(* and the payload, of which a snap length may have kept a prefix only.    *)
(* What the headers say is the record pkt; no field of it is read unless   *)
(* the unit that holds it was captured.                                    *)
(*                                                                         *)
(*   frame = [units    : captured units, wire_len : units on the wire,     *)
(*            pkt      : [etype : "ip" | "other", tags : VLAN tags,        *)
(*                        fragment, ext, offload : BOOLEAN,                *)
(*                        proto : "tcp" | "dns" | "udp", data : Nat,       *)
(*                        answers : what a DNS message holds]]             *)
(***************************************************************************)
EXTENDS Naturals, SequencesExt

CONSTANTS MAX_HOST_LEN   \* the longest host name that is kept (253)

ASSUME DecodeAssumption == MAX_HOST_LEN \in Nat

LinkType == {"Ethernet", "LinuxSll", "LinuxSll2", "RawIp", "Null"}

\* LinkType::from_dlt: the link type of a DLT number, if supported.
from_dlt(dlt) ==
    CASE dlt = 1                -> {"Ethernet"}
      [] dlt = 0                -> {"Null"}
      [] dlt \in {12, 14, 101}  -> {"RawIp"}
      [] dlt = 113              -> {"LinuxSll"}
      [] dlt = 276              -> {"LinuxSll2"}
      [] OTHER                  -> {}

SkipReason == {"NonTcp", "Malformed", "UnsupportedLinkType", "Ipv6Fragment",
               "UnsupportedExtChain", "Truncated"}

Skipped(reason) == [kind |-> "skipped", reason |-> reason]

\* The units from position i on, as frame.get(i..).
from(units, i) == SubSeq(units, i, Len(units))

-----------------------------------------------------------------------------
(***************************************************************************)
(* strip_link: the IP bytes of a frame, or the reason to skip it.          *)
(***************************************************************************)
Ip_bytes(units) == [kind |-> "ip", units |-> units]

\* The ethertype is unit `at`, IP begins at unit `ip`.
strip_after_ethertype(units, at, ip) ==
    IF Len(units) < at THEN Skipped("Malformed")
    ELSE IF units[at] # "ip" THEN Skipped("NonTcp")
    ELSE IF Len(units) < ip - 1 THEN Skipped("Malformed")
    ELSE Ip_bytes(from(units, ip))

\* Any number of VLAN tags is passed over.
strip_ethernet(units) ==
    LET untagged == {i \in 2 .. Len(units) : \A j \in 2 .. i - 1 : units[j] = "vlan"}
        inner    == {i \in untagged : units[i] # "vlan"}
    IN  IF inner = {} THEN Skipped("Malformed")
        ELSE LET i == CHOOSE i \in inner : TRUE
             IN  IF units[i] = "ip" THEN Ip_bytes(from(units, i + 1)) ELSE Skipped("NonTcp")

strip_link(link, units) ==
    CASE link = "RawIp"     -> Ip_bytes(units)
      [] link = "Null"      -> IF units = <<>> THEN Skipped("Malformed")
                               ELSE Ip_bytes(from(units, 2))
      [] link = "LinuxSll2" -> strip_after_ethertype(units, 1, 3)
      [] link = "LinuxSll"  -> strip_after_ethertype(units, 2, 3)
      [] link = "Ethernet"  -> strip_ethernet(units)

-----------------------------------------------------------------------------
(***************************************************************************)
(* etherparse's LaxSlicedPacket::from_ip, as far as decode_frame looks at  *)
(* its answer: an error, or the transport it found and what stopped it.    *)
(***************************************************************************)
from_ip(ip, pkt) ==
    LET whole == Len(ip) >= 2
    IN  IF ip = <<>> THEN [err |-> "Len"]
        ELSE IF ip[1] # "iphdr" THEN [err |-> "Content"]
        ELSE [err       |-> "none",
              transport |-> IF whole /\ ~pkt.ext /\ ~pkt.fragment THEN pkt.proto ELSE "none",
              stop      |-> CASE ~whole  -> "Len"
                              [] pkt.ext -> "Ipv6ExtHeader"
                              [] OTHER   -> "none"]

(***************************************************************************)
(* HostName::new: the name that remains of an owner name, if any.  An      *)
(* owner name is its text without the root dot and without what is not     *)
(* printable ("" for nothing), and its length without the root dot.        *)
(***************************************************************************)
HostName(raw) == IF raw.len = 0 \/ raw.len > MAX_HOST_LEN \/ raw.printable = "" THEN {}
                 ELSE {raw.printable}

\* dns.rs: one observation per address record with a name that HostName accepts.
push_answer(out, ts, answer) ==
    IF ~answer.address \/ HostName(answer.owner) = {} THEN out
    ELSE Append(out, [ts |-> ts, ip |-> answer.ip,
                      name |-> CHOOSE n \in HostName(answer.owner) : TRUE])

\* A message that was cut does not parse.
parse_dns_answers(ts, ip, pkt) ==
    FoldLeft(LAMBDA out, answer : push_answer(out, ts, answer), <<>>,
             IF Len(ip) = 2 + pkt.data THEN pkt.answers ELSE <<>>)

classify_no_tcp(sliced, truncated) ==
    CASE sliced.stop = "Len" /\ truncated -> "Truncated"
      [] sliced.stop = "Ipv6ExtHeader"    -> "UnsupportedExtChain"
      [] OTHER                            -> "NonTcp"

\* What the IP length field counts; a segment built by offload hardware says 0.
onwire_ip_len(pkt) == IF pkt.offload THEN 0 ELSE 2 + pkt.data

\* variant: the payload that was captured
captured_payload_len(ip, pkt) == Len(ip) - 2

\* Both headers are there (2 units) when decode_frame asks.
derive_payload_len(ip, pkt) ==
    LET need == 2
    IN  IF onwire_ip_len(pkt) >= need THEN onwire_ip_len(pkt) - need ELSE Len(ip) - need

\* The DecodeOutcome of the packet pkt in the IP bytes ip.
decode_ip(ip, pkt, ts, truncated) ==
    LET sliced == from_ip(ip, pkt)
    IN  IF sliced.err = "Len" /\ truncated THEN Skipped("Truncated")
        ELSE IF sliced.err # "none" THEN Skipped("Malformed")
        ELSE IF pkt.fragment THEN Skipped("Ipv6Fragment")
        ELSE CASE sliced.transport = "tcp" ->
                     [kind |-> "segment", ts |-> ts, payload_len |-> derive_payload_len(ip, pkt)]
               [] sliced.transport = "dns" ->
                     LET obs == parse_dns_answers(ts, ip, pkt)
                     IN  IF obs = <<>> THEN Skipped("NonTcp") ELSE [kind |-> "names", obs |-> obs]
               [] OTHER -> Skipped(classify_no_tcp(sliced, truncated))

decode_frame(link, ts, frame) ==
    LET stripped == strip_link(link, frame.units)
    IN  IF stripped.kind = "skipped" THEN stripped
        ELSE decode_ip(stripped.units, frame.pkt, ts, frame.wire_len > Len(frame.units))

-----------------------------------------------------------------------------
(***************************************************************************)
(* The environment: a packet on a link, of which a snap length kept the    *)
(* first n units.                                                          *)
(***************************************************************************)
\* A VLAN tag takes the place of the ethertype, which comes after the tag.
ethertypes(pkt) == [i \in 1 .. pkt.tags |-> "vlan"] \o <<pkt.etype>>

\* A cooked header of version 2 has its protocol first, before the addresses.
link_header(link, pkt) ==
    CASE link = "Ethernet"  -> <<"addr">> \o ethertypes(pkt)
      [] link = "LinuxSll"  -> <<"addr">> \o ethertypes(pkt)
      [] link = "LinuxSll2" -> <<Head(ethertypes(pkt)), "addr">> \o Tail(ethertypes(pkt))
      [] link = "Null"      -> <<"family">>
      [] link = "RawIp"     -> <<>>

on_wire(link, pkt) ==
    link_header(link, pkt) \o <<"iphdr", "tphdr">> \o [i \in 1 .. pkt.data |-> "data"]

captured(link, pkt, snaplen) ==
    LET wire == on_wire(link, pkt)
    IN  [units    |-> SubSeq(wire, 1, IF snaplen < Len(wire) THEN snaplen ELSE Len(wire)),
         wire_len |-> Len(wire),
         pkt      |-> pkt]
=============================================================================
