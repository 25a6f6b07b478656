----------------------------- MODULE FileProofs -----------------------------
(***************************************************************************)
(* Proofs about reading a capture file (modules Decode, ReplayFile,        *)
(* NameTable and FileCommands): for every file, snap length, resolution,   *)
(* cap of the name table and room on stdout.                               *)
(*                                                                         *)
(* ReadInv relates the reader's state to the packets it has read; ParseInv *)
(* adds the lines of parse, LibInv the libpcap faucet, NamesInv the table  *)
(* after the observations so far.                                          *)
(***************************************************************************)
EXTENDS FileCommands, BasicLemmas

-----------------------------------------------------------------------------
(***************************************************************************)
(* Decoding.  What a packet is, and what it looks like on the wire.        *)
(***************************************************************************)
IsPacket(p) ==
    /\ p.etype \in {"ip", "other"} /\ p.proto \in {"tcp", "dns", "udp"}
    /\ p.tags \in Nat /\ p.data \in Nat
    /\ p.fragment \in BOOLEAN /\ p.ext \in BOOLEAN /\ p.offload \in BOOLEAN

\* units begins with the link header H and the IP and transport headers, as far as it goes.
Begins(units, H) ==
    /\ IsSeq(units) /\ IsSeq(H)
    /\ \A i \in 1 .. Len(units) : i <= Len(H) => units[i] = H[i]
    /\ Len(units) > Len(H) => units[Len(H) + 1] = "iphdr"

LEMMA LenNat ==
    ASSUME NEW s, IsSeq(s)
    PROVE  Len(s) \in Nat /\ DOMAIN s = 1 .. Len(s) /\ (s = <<>> <=> Len(s) = 0)
BY LenProperties, EmptySeq DEF IsSeq

\* What a link header is made of.
LinkUnits == {"addr", "vlan", "ip", "other", "family"}

LEMMA Ethertypes ==
    ASSUME NEW pkt, IsPacket(pkt)
    PROVE  LET E == ethertypes(pkt)
           IN  /\ E \in Seq(LinkUnits) /\ Len(E) = pkt.tags + 1
               /\ \A i \in 1 .. pkt.tags : E[i] = "vlan"
               /\ E[pkt.tags + 1] = pkt.etype
<1> DEFINE tags == [i \in 1 .. pkt.tags |-> "vlan"]
           E == ethertypes(pkt)
<1>1. PICK t \in Nat : t = pkt.tags
  BY DEF IsPacket
<1>2. tags \in Seq(LinkUnits) /\ Len(tags) = t /\ \A i \in 1 .. t : tags[i] = "vlan"
  BY <1>1 DEF LinkUnits
<1>3. <<pkt.etype>> \in Seq(LinkUnits) /\ Len(<<pkt.etype>>) = 1 /\ <<pkt.etype>>[1] = pkt.etype
  BY DEF IsPacket, LinkUnits
<1>4. E = tags \o <<pkt.etype>>
  BY Zenon DEF ethertypes
<1> HIDE DEF tags, E
<1>5. /\ E \in Seq(LinkUnits) /\ Len(E) = t + 1
      /\ \A i \in 1 .. t + 1 : E[i] = IF i <= t THEN tags[i] ELSE <<pkt.etype>>[i - t]
  BY <1>2, <1>3, <1>4, ConcatProperties
<1>6. /\ \A i \in 1 .. t : i \in 1 .. t + 1 /\ i <= t
      /\ t + 1 \in 1 .. t + 1 /\ ~(t + 1 <= t) /\ (t + 1) - t = 1
  OBVIOUS
<1> QED BY <1>1, <1>2, <1>3, <1>5, <1>6 DEF E

\* The link header of an Ethernet or LinuxSll frame: the addresses, the VLAN
\* tags, the ethertype.
LEMMA TaggedHeader ==
    ASSUME NEW link \in {"Ethernet", "LinuxSll"}, NEW pkt, IsPacket(pkt)
    PROVE  LET H == link_header(link, pkt)
           IN  /\ H \in Seq(LinkUnits) /\ Len(H) = pkt.tags + 2
               /\ \A i \in 2 .. pkt.tags + 1 : H[i] = "vlan"
               /\ H[pkt.tags + 2] = pkt.etype
<1> DEFINE H == link_header(link, pkt)
<1>1. PICK t \in Nat, E \in Seq(LinkUnits) : t = pkt.tags /\ E = ethertypes(pkt)
  BY Ethertypes DEF IsPacket
<1>2. Len(E) = t + 1 /\ (\A i \in 1 .. t : E[i] = "vlan") /\ E[t + 1] = pkt.etype
  BY <1>1, Ethertypes
<1>3. <<"addr">> \in Seq(LinkUnits) /\ Len(<<"addr">>) = 1
  BY DEF LinkUnits
<1>4. H = <<"addr">> \o E
  BY <1>1 DEF link_header
<1> HIDE DEF H
<1>5. /\ H \in Seq(LinkUnits) /\ Len(H) = 1 + (t + 1)
      /\ \A i \in 1 .. 1 + (t + 1) : H[i] = IF i <= 1 THEN <<"addr">>[i] ELSE E[i - 1]
  BY <1>2, <1>3, <1>4, ConcatProperties
<1>6. \A i \in 2 .. t + 2 : i \in 1 .. 1 + (t + 1) /\ ~(i <= 1)
  OBVIOUS
<1>7. \A i \in 2 .. t + 2 : H[i] = E[i - 1]
  BY <1>5, <1>6
<1>8. \A i \in 2 .. t + 1 : i \in 2 .. t + 2 /\ i - 1 \in 1 .. t
  OBVIOUS
<1>9. t + 2 \in 2 .. t + 2 /\ (t + 2) - 1 = t + 1
  OBVIOUS
<1>10. \A i \in 2 .. t + 1 : H[i] = "vlan"
  BY <1>2, <1>7, <1>8
<1>11. H[t + 2] = pkt.etype
  BY <1>2, <1>7, <1>9
<1>12. Len(H) = t + 2
  BY <1>5
<1> QED BY <1>1, <1>5, <1>10, <1>11, <1>12 DEF H

LEMMA LinkHeader ==
    ASSUME NEW link \in LinkType, NEW pkt, IsPacket(pkt)
    PROVE  LET H == link_header(link, pkt)
           IN  /\ H \in Seq(LinkUnits)
               /\ link = "RawIp" => Len(H) = 0
               /\ link = "Null" => Len(H) = 1
               /\ link = "LinuxSll" =>
                     Len(H) = pkt.tags + 2 /\ H[2] = IF pkt.tags = 0 THEN pkt.etype ELSE "vlan"
               /\ link = "LinuxSll2" =>
                     Len(H) = pkt.tags + 2 /\ H[1] = IF pkt.tags = 0 THEN pkt.etype ELSE "vlan"
<1> DEFINE H == link_header(link, pkt)
<1>0. PICK t \in Nat : t = pkt.tags
  BY DEF IsPacket
<1>1. CASE link = "Ethernet"
  BY <1>1, TaggedHeader
<1>2. CASE link = "RawIp"
  <2>1. H = <<>>
    BY <1>2 DEF link_header
  <2>2. <<>> \in Seq(LinkUnits) /\ Len(<<>>) = 0
    OBVIOUS
  <2> HIDE DEF H
  <2> QED BY <1>2, <2>1, <2>2 DEF H
<1>3. CASE link = "Null"
  <2>1. H = <<"family">>
    BY <1>3 DEF link_header
  <2>2. <<"family">> \in Seq(LinkUnits) /\ Len(<<"family">>) = 1
    BY DEF LinkUnits
  <2> HIDE DEF H
  <2> QED BY <1>3, <2>1, <2>2 DEF H
<1>4. CASE link = "LinuxSll"
  <2>1. /\ H \in Seq(LinkUnits) /\ Len(H) = t + 2
        /\ \A i \in 2 .. t + 1 : H[i] = "vlan"
        /\ H[t + 2] = pkt.etype
    BY <1>0, <1>4, TaggedHeader
  <2> HIDE DEF H
  <2>2. t = 0 \/ 2 \in 2 .. t + 1
    OBVIOUS
  <2> QED BY <1>0, <1>4, <2>1, <2>2 DEF H
<1>5. CASE link = "LinuxSll2"
  <2>1. PICK E \in Seq(LinkUnits) : E = ethertypes(pkt)
    BY Ethertypes
  <2>2. Len(E) = t + 1 /\ (\A i \in 1 .. t : E[i] = "vlan") /\ E[t + 1] = pkt.etype
    BY <1>0, <2>1, Ethertypes
  <2>3. E # <<>> /\ E[1] \in LinkUnits
    BY <2>2
  <2>4. Head(E) = E[1] /\ Tail(E) \in Seq(LinkUnits) /\ Len(Tail(E)) = t
    BY <2>2, <2>3, HeadTailProperties
  <2>5. PICK a \in LinkUnits, b \in LinkUnits : a = E[1] /\ b = "addr"
    BY <2>3 DEF LinkUnits
  <2>6. PICK T \in Seq(LinkUnits) : T = Tail(E)
    BY <2>4
  <2>7. H = <<a, b>> \o T
    BY <1>5, <2>1, <2>4, <2>5, <2>6 DEF link_header
  <2> HIDE DEF H
  <2>8. <<a, b>> \in Seq(LinkUnits) /\ Len(<<a, b>>) = 2 /\ <<a, b>>[1] = a
    OBVIOUS
  <2>9. /\ H \in Seq(LinkUnits) /\ Len(H) = 2 + t
        /\ \A i \in 1 .. 2 + t : H[i] = IF i <= 2 THEN <<a, b>>[i] ELSE T[i - 2]
    BY <2>4, <2>6, <2>7, <2>8, ConcatProperties
  <2>10. 1 \in 1 .. 2 + t /\ 1 <= 2
    OBVIOUS
  <2>11. H[1] = E[1]
    BY <2>5, <2>8, <2>9, <2>10
  <2>12. E[1] = IF t = 0 THEN pkt.etype ELSE "vlan"
    BY <2>2
  <2> QED BY <1>0, <1>5, <2>9, <2>11, <2>12 DEF H
<1> QED BY <1>1, <1>2, <1>3, <1>4, <1>5 DEF LinkType

\* What a snap length of n units keeps of a packet.
LEMMA Captured ==
    ASSUME NEW link \in LinkType, NEW pkt, IsPacket(pkt), NEW n \in Nat
    PROVE  LET H == link_header(link, pkt)
               f == captured(link, pkt, n)
           IN  /\ Begins(f.units, H)
               /\ f.wire_len = Len(H) + 2 + pkt.data
               /\ f.pkt = pkt
               /\ Len(f.units) <= f.wire_len
<1> DEFINE H == link_header(link, pkt)
           W == LinkUnits \cup {"iphdr", "tphdr", "data"}
           two == <<"iphdr", "tphdr">>
           data == [i \in 1 .. pkt.data |-> "data"]
           wire == on_wire(link, pkt)
           f == captured(link, pkt, n)
<1>1. PICK d \in Nat : d = pkt.data
  BY DEF IsPacket
<1>2. H \in Seq(LinkUnits)
  BY LinkHeader
<1> HIDE DEF H
<1>3. H \in Seq(W) /\ two \in Seq(W) /\ Len(two) = 2 /\ two[1] = "iphdr"
  BY <1>2
<1>4. data \in Seq(W) /\ Len(data) = d
  BY <1>1
<1> HIDE DEF two, data, W
<1>5. PICK h \in Nat : h = Len(H)
  BY <1>3, LenProperties
<1>6. /\ H \o two \in Seq(W) /\ Len(H \o two) = h + 2
      /\ \A i \in 1 .. h + 2 : (H \o two)[i] = IF i <= h THEN H[i] ELSE two[i - h]
  <2>1. /\ H \o two \in Seq(W) /\ Len(H \o two) = Len(H) + Len(two)
        /\ \A i \in 1 .. Len(H) + Len(two) :
              (H \o two)[i] = IF i <= Len(H) THEN H[i] ELSE two[i - Len(H)]
    BY <1>3, ConcatProperties
  <2> QED BY <1>3, <1>5, <2>1
<1>7. PICK g : g = H \o two
  OBVIOUS
<1>8. /\ g \o data \in Seq(W) /\ Len(g \o data) = (h + 2) + d
      /\ \A i \in 1 .. (h + 2) + d : (g \o data)[i] = IF i <= h + 2 THEN g[i] ELSE data[i - (h + 2)]
  <2>1. /\ g \o data \in Seq(W) /\ Len(g \o data) = Len(g) + Len(data)
        /\ \A i \in 1 .. Len(g) + Len(data) :
              (g \o data)[i] = IF i <= Len(g) THEN g[i] ELSE data[i - Len(g)]
    <3>1. g \in Seq(W) /\ data \in Seq(W)
      BY <1>4, <1>6, <1>7
    <3> QED BY ONLY <3>1, ConcatProperties
  <2> QED BY <1>4, <1>6, <1>7, <2>1
<1>9. wire = g \o data
  BY <1>7, Zenon DEF on_wire, H, two, data
<1> HIDE DEF wire
<1>10. /\ \A i \in 1 .. h : wire[i] = H[i]
       /\ wire[h + 1] = "iphdr" /\ Len(wire) = h + 2 + d
  <2>1. ASSUME NEW i \in 1 .. h PROVE wire[i] = H[i]
    <3>1. i \in 1 .. (h + 2) + d /\ i <= h + 2 /\ i \in 1 .. h + 2 /\ i <= h
      OBVIOUS
    <3> QED BY <1>6, <1>7, <1>8, <1>9, <3>1
  <2>2. /\ h + 1 \in 1 .. (h + 2) + d /\ h + 1 <= h + 2 /\ h + 1 \in 1 .. h + 2
        /\ ~(h + 1 <= h) /\ (h + 1) - h = 1
    OBVIOUS
  <2>3. wire[h + 1] = two[1]
    BY <1>6, <1>7, <1>8, <1>9, <2>2
  <2> QED BY <1>3, <1>8, <1>9, <2>1, <2>3
<1>11. PICK m \in 0 .. h + 2 + d : m = IF n < Len(wire) THEN n ELSE Len(wire)
  BY <1>10
<1>12. f = [units |-> SubSeq(wire, 1, m), wire_len |-> Len(wire), pkt |-> pkt]
  BY <1>11 DEF captured, wire
<1> HIDE DEF f
<1>13. /\ SubSeq(wire, 1, m) \in Seq(W) /\ Len(SubSeq(wire, 1, m)) = m
       /\ \A i \in 1 .. m : SubSeq(wire, 1, m)[i] = wire[i]
  <2>1. \A i \in 1 .. m : wire[i] \in W
    BY <1>8, <1>9, ElementOfSeq
  <2>2. PICK w : w = wire
    OBVIOUS
  <2>3. /\ SubSeq(w, 1, m) \in Seq(W) /\ Len(SubSeq(w, 1, m)) = IF 1 <= m THEN m - 1 + 1 ELSE 0
        /\ \A i \in 1 .. m - 1 + 1 : SubSeq(w, 1, m)[i] = w[1 + i - 1]
    BY <2>1, <2>2, SubSeqProperties
  <2>4. m - 1 + 1 = m /\ \A i \in 1 .. m : 1 + i - 1 = i
    OBVIOUS
  <2> QED BY <2>2, <2>3, <2>4
<1>14. Begins(f.units, H)
  <2>1. f.units = SubSeq(wire, 1, m)
    BY <1>12
  <2>2. Len(f.units) = m /\ IsSeq(f.units) /\ \A i \in 1 .. m : f.units[i] = wire[i]
    BY <1>13, <2>1 DEF IsSeq
  <2>3. IsSeq(H)
    BY <1>3 DEF IsSeq
  <2>4. m > h => h + 1 \in 1 .. m
    OBVIOUS
  <2>5. \A i \in 1 .. m : i <= h => i \in 1 .. h
    OBVIOUS
  <2> QED BY <1>5, <1>10, <2>2, <2>3, <2>4, <2>5 DEF Begins
<1>15. f.wire_len = h + 2 + d /\ f.pkt = pkt /\ Len(f.units) = m
  BY <1>10, <1>12, <1>13
<1> QED BY <1>1, <1>5, <1>14, <1>15 DEF f, H
-----------------------------------------------------------------------------
(***************************************************************************)
(* strip_link finds the IP bytes behind the header of its own link type.   *)
(***************************************************************************)
LEMMA StripEthernet ==
    ASSUME NEW pkt, IsPacket(pkt), NEW units, Begins(units, link_header("Ethernet", pkt))
    PROVE  LET h == pkt.tags + 2
           IN  strip_ethernet(units) =
                  IF Len(units) < h THEN Skipped("Malformed")
                  ELSE IF pkt.etype = "ip" THEN Ip_bytes(from(units, h + 1))
                  ELSE Skipped("NonTcp")
<1> DEFINE H == link_header("Ethernet", pkt)
           untagged == {i \in 2 .. Len(units) : \A j \in 2 .. i - 1 : units[j] = "vlan"}
           inner    == {i \in untagged : units[i] # "vlan"}
<1>1. PICK t \in Nat : t = pkt.tags
  BY DEF IsPacket
<1>2. /\ IsSeq(H) /\ Len(H) = t + 2
      /\ \A i \in 2 .. t + 1 : H[i] = "vlan"
      /\ H[t + 2] = pkt.etype
  BY <1>1, TaggedHeader DEF IsSeq
<1>3. PICK m \in Nat : m = Len(units)
  BY LenNat DEF Begins
<1>4. \A i \in 1 .. m : i <= t + 2 => units[i] = H[i]
  BY <1>2, <1>3 DEF Begins
<1> HIDE DEF H
<1>5. \A i \in 2 .. m : i <= t + 1 => units[i] = "vlan"
  BY <1>2, <1>4
<1>6. CASE m < t + 2
  <2>1. \A i \in 2 .. m : i <= t + 1
    BY <1>6
  <2>2. inner = {}
    BY <1>3, <1>5, <2>1
  <2> QED BY <1>1, <1>3, <1>6, <2>2 DEF strip_ethernet
<1>7. CASE ~(m < t + 2)
  <2>1. t + 2 \in 1 .. m /\ t + 2 \in 2 .. m
    BY <1>7
  <2>2. units[t + 2] = pkt.etype /\ pkt.etype # "vlan"
    BY <1>2, <1>4, <2>1 DEF IsPacket
  <2>3. t + 2 \in inner
    <3>1. \A j \in 2 .. (t + 2) - 1 : j \in 2 .. m /\ j <= t + 1
      BY <2>1
    <3>2. \A j \in 2 .. (t + 2) - 1 : units[j] = "vlan"
      BY <1>5, <3>1
    <3> QED BY <1>3, <2>1, <2>2, <3>2
  <2>4. \A i \in inner : i = t + 2
    <3> SUFFICES ASSUME NEW i \in inner PROVE i = t + 2
      OBVIOUS
    <3>1. i \in 2 .. m /\ (\A j \in 2 .. i - 1 : units[j] = "vlan") /\ units[i] # "vlan"
      BY <1>3
    <3>2. ~(i <= t + 1)
      BY <1>5, <3>1
    <3>3. ~(t + 2 \in 2 .. i - 1)
      BY <2>2, <3>1
    <3> QED BY <3>1, <3>2, <3>3
  <2> HIDE DEF inner
  <2>5. inner # {} /\ (CHOOSE i \in inner : TRUE) = t + 2
    BY <2>3, <2>4
  <2>6. strip_ethernet(units) = LET i == CHOOSE i \in inner : TRUE
                                IN  IF units[i] = "ip" THEN Ip_bytes(from(units, i + 1))
                                    ELSE Skipped("NonTcp")
    BY <2>5, Zenon DEF strip_ethernet, inner
  <2> QED BY <1>1, <1>3, <1>7, <2>2, <2>5, <2>6
<1> QED BY <1>6, <1>7

\* The answer of strip_link, whose IP bytes begin behind the header's h units,
\* if the link passes over the tags of the packet.
Stripped(r, units, h, pkt, link) ==
    \/ /\ r \in {Skipped("Malformed"), Skipped("NonTcp")}
       /\ ~(Len(units) >= h /\ pkt.etype = "ip" /\ passes_tags(pkt, link))
    \/ r = Ip_bytes(from(units, h + 1)) /\ Len(units) >= h /\ passes_tags(pkt, link)

LEMMA StripLink ==
    ASSUME NEW link \in LinkType, NEW pkt, IsPacket(pkt),
           NEW units, Begins(units, link_header(link, pkt))
    PROVE  Stripped(strip_link(link, units), units, Len(link_header(link, pkt)), pkt, link)
<1> DEFINE H == link_header(link, pkt)
<1>1. PICK m \in Nat : m = Len(units) /\ (units = <<>> <=> m = 0)
  BY LenNat DEF Begins
<1>2. PICK T : units \in Seq(T)
  BY DEF Begins, IsSeq
<1>3. CASE link = "Ethernet"
  <2>1. PICK h \in Nat : h = pkt.tags + 2 /\ h = Len(H)
    BY <1>3, TaggedHeader DEF IsPacket
  <2>2. strip_link(link, units) = strip_ethernet(units)
    BY <1>3 DEF strip_link
  <2>3. strip_ethernet(units) =
            IF m < h THEN Skipped("Malformed")
            ELSE IF pkt.etype = "ip" THEN Ip_bytes(from(units, h + 1)) ELSE Skipped("NonTcp")
    BY <1>1, <1>3, <2>1, StripEthernet
  <2> QED BY <1>1, <1>3, <2>1, <2>2, <2>3 DEF Stripped, passes_tags
<1>4. CASE link = "RawIp"
  <2>1. Len(H) = 0
    BY <1>4, LinkHeader
  <2>2. from(units, 1) = units
    BY <1>2, SubSeqFull DEF from
  <2>3. strip_link(link, units) = Ip_bytes(units)
    BY <1>4 DEF strip_link
  <2> QED BY <1>1, <1>4, <2>1, <2>2, <2>3 DEF Stripped, passes_tags
<1>5. CASE link = "Null"
  <2>1. Len(H) = 1
    BY <1>5, LinkHeader
  <2>2. strip_link(link, units) = IF units = <<>> THEN Skipped("Malformed")
                                  ELSE Ip_bytes(from(units, 2))
    BY <1>5 DEF strip_link
  <2> HIDE DEF H
  <2>3. passes_tags(pkt, link)
    BY <1>5 DEF passes_tags
  <2> QED BY <1>1, <2>1, <2>2, <2>3 DEF Stripped, H
<1>6. CASE link \in {"LinuxSll", "LinuxSll2"}
  <2>0. PICK t \in Nat : t = pkt.tags
    BY DEF IsPacket
  <2>1. /\ Len(H) = t + 2
        /\ H[IF link = "LinuxSll" THEN 2 ELSE 1] = IF t = 0 THEN pkt.etype ELSE "vlan"
    BY <1>6, <2>0, LinkHeader
  <2> HIDE DEF H
  <2>2. PICK at \in 1 .. 2 : at = IF link = "LinuxSll" THEN 2 ELSE 1
    OBVIOUS
  <2>3. strip_link(link, units) = strip_after_ethertype(units, at, 3)
    BY <1>6, <2>2 DEF strip_link
  <2>4. ~(m < at) => units[at] = IF t = 0 THEN pkt.etype ELSE "vlan"
    <3>1. \A i \in 1 .. m : i <= t + 2 => units[i] = H[i]
      BY <1>1, <2>1 DEF Begins, H
    <3>2. at <= t + 2 /\ (~(m < at) => at \in 1 .. m)
      BY <1>1, <2>2
    <3> QED BY <2>1, <2>2, <3>1, <3>2
  <2>5. strip_after_ethertype(units, at, 3) =
            IF m < at THEN Skipped("Malformed")
            ELSE IF units[at] # "ip" THEN Skipped("NonTcp")
            ELSE IF m < 2 THEN Skipped("Malformed")
            ELSE Ip_bytes(from(units, 3))
    BY <1>1 DEF strip_after_ethertype
  <2>6. CASE t = 0
    <3>1. 2 + 1 = 3 /\ Len(H) = 2 /\ at \in 1 .. 2
      BY <2>1, <2>2, <2>6
    <3> QED BY <1>1, <1>6, <2>0, <2>3, <2>4, <2>5, <2>6, <3>1 DEF Stripped, passes_tags, H
  <2>7. CASE t # 0
    <3>1. strip_link(link, units) \in {Skipped("Malformed"), Skipped("NonTcp")}
      BY <2>3, <2>4, <2>5, <2>7
    <3>2. ~passes_tags(pkt, link)
      BY <1>6, <2>0, <2>7 DEF passes_tags
    <3> QED BY <3>1, <3>2 DEF Stripped
  <2> QED BY <2>6, <2>7
<1> QED BY <1>3, <1>4, <1>5, <1>6 DEF LinkType

-----------------------------------------------------------------------------
(***************************************************************************)
(* What may be said of an outcome: of its kind, and of the packet it is    *)
(* of.                                                                     *)
(***************************************************************************)
Observations(obs) == IsSeq(obs) /\ \A i \in 1 .. Len(obs) : obs[i].ts \in Nat

IsOutcome(o) ==
    \/ \E reason \in SkipReason : o = Skipped(reason)
    \/ o.kind = "segment"
    \/ o.kind = "names" /\ Observations(o.obs)

\* What HeadersSuffice says of one packet.
Suffices(f, link, o) ==
    /\ usable(f, link) => /\ o.kind = "segment"
                          /\ o.payload_len = f.pkt.data \/ f.pkt.offload
    /\ o.kind = "skipped" /\ o.reason = "Truncated" => Len(f.units) < f.wire_len

\* The observations of the records pts, pushed in order.
push_all(base, ts, pts) == FoldLeft(LAMBDA obs, answer : push_answer(obs, ts, answer), base, pts)

LEMMA AnswersInTurn ==
    ASSUME NEW base, NEW ts, NEW pts, IsSeq(pts)
    PROVE  \E acc : /\ acc[0] = base
                    /\ acc[Len(pts)] = push_all(base, ts, pts)
                    /\ \A k \in 0 .. Len(pts) - 1 : acc[k + 1] = push_answer(acc[k], ts, pts[k + 1])
<1> DEFINE Body(g, s) == IF s = {} THEN base ELSE push_answer(g[s \ {Max(s)}], ts, pts[Max(s)])
           Folds(g, k) == g = [s \in SUBSET (1 .. k) |-> Body(g, s)]
           S == {k \in Nat : \E g : Folds(g, k)}
<1>0. PICK n \in Nat : n = Len(pts) /\ DOMAIN pts = 1 .. n
  BY LenProperties DEF IsSeq
<1>1. 0 \in S
  <2> DEFINE g == [s \in SUBSET (1 .. 0) |-> base]
  <2>1. \A s \in SUBSET (1 .. 0) : s = {}
    OBVIOUS
  <2>2. Folds(g, 0)
    BY <2>1
  <2> QED BY <2>2
<1>2. ASSUME NEW k \in Nat, k \in S PROVE k + 1 \in S
  <2>1. PICK g : Folds(g, k)
    BY <1>2
  <2> DEFINE h == [s \in SUBSET (1 .. k + 1) |->
                      IF k + 1 \in s THEN push_answer(g[s \ {k + 1}], ts, pts[k + 1]) ELSE g[s]]
  <2>2. ASSUME NEW s \in SUBSET (1 .. k + 1) PROVE h[s] = Body(h, s)
    <3>1. CASE k + 1 \in s
      <4>1. Max(s) = k + 1
        BY <3>1, LastIndex
      <4>2. s \ {k + 1} \in SUBSET (1 .. k + 1) /\ k + 1 \notin s \ {k + 1}
        OBVIOUS
      <4>3. h[s \ {k + 1}] = g[s \ {k + 1}]
        BY <4>2
      <4>4. h[s] = push_answer(g[s \ {k + 1}], ts, pts[k + 1])
        BY <3>1
      <4> HIDE DEF h
      <4> QED BY <3>1, <4>1, <4>3, <4>4
    <3>2. CASE k + 1 \notin s
      <4>1. s \in SUBSET (1 .. k)
        BY <3>2
      <4>2. h[s] = g[s] /\ g[s] = Body(g, s)
        BY <2>1, <3>2, <4>1
      <4>3. CASE s = {}
        BY <4>2, <4>3
      <4>4. CASE s # {}
        <5>1. s \ {Max(s)} \in SUBSET (1 .. k + 1) /\ k + 1 \notin s \ {Max(s)}
          BY <3>2
        <5>2. h[s \ {Max(s)}] = g[s \ {Max(s)}]
          BY <5>1
        <5> HIDE DEF h
        <5> QED BY <4>2, <4>4, <5>2
      <4> QED BY <4>3, <4>4
    <3> QED BY <3>1, <3>2
  <2>3. Folds(h, k + 1)
    <3>1. DOMAIN h = SUBSET (1 .. k + 1) /\ h = [s \in DOMAIN h |-> h[s]]
      OBVIOUS
    <3> HIDE DEF h, Body
    <3> QED BY <2>2, <3>1
  <2> HIDE DEF h, Folds
  <2> QED BY <2>3
<1>3. PICK fold : Folds(fold, n) /\ fold[1 .. n] = push_all(base, ts, pts)
  <2>1. n \in S
    <3> HIDE DEF S
    <3> QED BY <1>1, <1>2, SetInduction
  <2> DEFINE fold == CHOOSE g : Folds(g, n)
  <2>2. push_all(base, ts, pts) = fold[1 .. n]
    BY <1>0, Zenon DEF push_all, FoldLeft, MapThenFoldSet
  <2> HIDE DEF Folds
  <2>3. Folds(fold, n)
    BY <2>1
  <2> QED BY <2>2, <2>3
<1> DEFINE acc == [k \in 0 .. n |-> fold[1 .. k]]
<1>4. acc[0] = base
  <2>1. 1 .. 0 = {} /\ {} \in SUBSET (1 .. n) /\ 0 \in 0 .. n
    OBVIOUS
  <2> QED BY <1>3, <2>1
<1>5. ASSUME NEW k \in 0 .. n - 1 PROVE acc[k + 1] = push_answer(acc[k], ts, pts[k + 1])
  <2>1. /\ 1 .. k + 1 \in SUBSET (1 .. n) /\ 1 .. k + 1 # {} /\ k + 1 \in Nat
        /\ (1 .. k + 1) \ {k + 1} = 1 .. k /\ k \in 0 .. n /\ k + 1 \in 0 .. n
        /\ k + 1 \in 1 .. k + 1
    BY <1>0, NextPrefix
  <2>2. Max(1 .. k + 1) = k + 1
    BY <2>1, LastIndex
  <2>3. fold[1 .. k + 1] = Body(fold, 1 .. k + 1)
    BY <1>3, <2>1
  <2>4. fold[1 .. k + 1] = push_answer(fold[1 .. k], ts, pts[k + 1])
    BY <2>1, <2>2, <2>3
  <2> QED BY <2>1, <2>4
<1>6. acc[n] = push_all(base, ts, pts)
  <2>1. n \in 0 .. n
    OBVIOUS
  <2> QED BY <1>3, <2>1
<1> QED BY <1>0, <1>4, <1>5, <1>6

\* dns.rs: each observation has the time of the packet.
LEMMA DnsAnswers ==
    ASSUME NEW pkt \in Packets, NEW ip, NEW ts \in Nat
    PROVE  Observations(parse_dns_answers(ts, ip, pkt))
<1>1. PICK pts : pts = IF Len(ip) = 2 + pkt.data THEN pkt.answers ELSE <<>>
  OBVIOUS
<1>2. IsSeq(pts)
  <2>1. pkt.answers \in Seq([ip : Ip, address : BOOLEAN, owner : [printable : STRING, len : Nat]])
    BY FileCommandsAssumption
  <2>2. IsSeq(pkt.answers) /\ IsSeq(<<>>)
    BY <2>1, EmptySeq DEF IsSeq
  <2> QED BY <1>1, <2>2
<1>3. PICK base : base = <<>>
  OBVIOUS
<1>4. parse_dns_answers(ts, ip, pkt) = push_all(base, ts, pts)
  BY <1>1, <1>3, Zenon DEF parse_dns_answers, push_all
<1>5. PICK acc : /\ acc[0] = base
                 /\ acc[Len(pts)] = push_all(base, ts, pts)
                 /\ \A k \in 0 .. Len(pts) - 1 : acc[k + 1] = push_answer(acc[k], ts, pts[k + 1])
  BY <1>2, AnswersInTurn
<1>6. PICK n \in Nat : n = Len(pts)
  BY <1>2, LenNat
<1> DEFINE S == {k \in Nat : k <= n => Observations(acc[k])}
<1>7. 0 \in S
  <2>1. IsSeq(<<>>) /\ Len(<<>>) = 0
    BY EmptySeq DEF IsSeq
  <2>2. Observations(<<>>)
    BY <2>1 DEF Observations
  <2> QED BY <1>3, <1>5, <2>2
<1>8. ASSUME NEW k \in Nat, k \in S PROVE k + 1 \in S
  <2> SUFFICES ASSUME k + 1 <= n PROVE Observations(acc[k + 1])
    OBVIOUS
  <2>1. k \in 0 .. Len(pts) - 1 /\ Observations(acc[k])
    BY <1>6, <1>8
  <2>2. PICK a, b : a = acc[k] /\ b = acc[k + 1]
    OBVIOUS
  <2>3. b = a \/ \E e : b = Append(a, e) /\ e.ts = ts
    <3>1. PICK p, e : p = pts[k + 1]
                      /\ e = [ts |-> ts, ip |-> p.ip, name |-> CHOOSE x \in HostName(p.owner) : TRUE]
      OBVIOUS
    <3>2. e.ts = ts
      BY <3>1
    <3>3. b = push_answer(a, ts, p)
      BY <1>5, <2>1, <2>2, <3>1
    <3>4. b = IF ~p.address \/ HostName(p.owner) = {} THEN a ELSE Append(a, e)
      BY <3>1, <3>3 DEF push_answer
    <3> QED BY <3>2, <3>4
  <2>4. CASE \E e : b = Append(a, e) /\ e.ts = ts
    <3>1. PICK e : b = Append(a, e) /\ e.ts = ts
      BY <2>4
    <3>2. IsSeq(a)
      BY <2>1, <2>2 DEF Observations
    <3>3. PICK m \in Nat : /\ m = Len(a) /\ IsSeq(b) /\ Len(b) = m + 1
                           /\ \A i \in 1 .. m : b[i] = a[i]
                           /\ b[m + 1] = e
      BY <3>1, <3>2, SeqPush
    <3>4. \A i \in 1 .. m + 1 : i \in 1 .. m \/ i = m + 1
      OBVIOUS
    <3>5. \A i \in 1 .. m + 1 : b[i].ts \in Nat
      BY <2>1, <2>2, <3>1, <3>3, <3>4 DEF Observations
    <3> QED BY <2>2, <3>3, <3>5 DEF Observations
  <2> QED BY <2>1, <2>2, <2>3, <2>4
<1> HIDE DEF S
<1>9. n \in S
  BY <1>7, <1>8, SetInduction
<1> QED BY <1>4, <1>5, <1>6, <1>9 DEF S
LEMMA PacketShape ==
    ASSUME NEW pkt \in Packets
    PROVE  IsPacket(pkt)
BY ReplayFileAssumption DEF IsPacket

\* decode_frame on a frame that was captured on its own link type.
LEMMA DecodeFrame ==
    ASSUME NEW link \in LinkType, NEW pkt \in Packets, NEW n \in Nat, NEW ts \in Nat
    PROVE  LET f == captured(link, pkt, n)
               o == decode_frame(link, ts, f)
           IN  IsOutcome(o) /\ Suffices(f, link, o)
<1> DEFINE H == link_header(link, pkt)
           f == captured(link, pkt, n)
           r == strip_link(link, f.units)
           o == decode_frame(link, ts, f)
<1>0. IsPacket(pkt)
  BY PacketShape
<1>1. /\ Begins(f.units, H) /\ f.wire_len = Len(H) + 2 + pkt.data /\ f.pkt = pkt
      /\ Len(f.units) <= f.wire_len
  BY <1>0, Captured
<1> HIDE DEF f
<1>2. Stripped(r, f.units, Len(H), pkt, link)
  BY <1>0, <1>1, StripLink
<1> HIDE DEF H, r
<1>3. PICK h \in Nat, m \in Nat, d \in Nat : h = Len(H) /\ m = Len(f.units) /\ d = pkt.data
  BY <1>0, <1>1, LenNat DEF Begins, IsPacket
<1>4. usable(f, link) => pkt.etype = "ip" /\ passes_tags(pkt, link) /\ m >= h + 2
  BY <1>1, <1>3 DEF usable, H
<1>5. CASE /\ r \in {Skipped("Malformed"), Skipped("NonTcp")}
           /\ ~(m >= h /\ pkt.etype = "ip" /\ passes_tags(pkt, link))
  <2>1. r.kind = "skipped" /\ r.reason # "Truncated"
    BY <1>5 DEF Skipped
  <2>2. o = r
    BY <2>1 DEF decode_frame, r
  <2> HIDE DEF o
  <2>3. ~usable(f, link)
    BY <1>4, <1>5
  <2> QED BY <1>5, <2>1, <2>2, <2>3 DEF IsOutcome, Suffices, SkipReason, o, f
<1>6. CASE r = Ip_bytes(from(f.units, h + 1)) /\ m >= h /\ passes_tags(pkt, link)
  <2> DEFINE ip == from(f.units, h + 1)
             truncated == f.wire_len > Len(f.units)
             sliced == from_ip(ip, pkt)
  <2>1. o = decode_ip(ip, pkt, ts, truncated)
    BY <1>1, <1>6 DEF decode_frame, Ip_bytes, r
  <2> HIDE DEF o
  <2>2. /\ IsSeq(ip) /\ Len(ip) = m - h
        /\ m - h > 0 => ip[1] = "iphdr"
    <3>1. h \in 0 .. Len(f.units) /\ IsSeq(f.units)
      BY <1>1, <1>3, <1>6 DEF Begins
    <3>2. /\ IsSeq(ip) /\ Len(ip) = Len(f.units) - h
          /\ \A i \in 1 .. Len(f.units) - h : ip[i] = f.units[h + i]
      BY <3>1, SeqDrop DEF from
    <3> HIDE DEF ip
    <3>3. m - h > 0 => ip[1] = f.units[h + 1]
      BY <1>3, <3>2
    <3>4. m - h > 0 => f.units[h + 1] = "iphdr"
      BY <1>1, <1>3 DEF Begins
    <3> QED BY <1>3, <3>2, <3>3, <3>4
  <2> HIDE DEF ip
  <2>3. PICK l \in Nat : l = Len(ip) /\ l = m - h /\ (ip = <<>> <=> l = 0)
    BY <1>6, <2>2, LenNat
  <2>4. truncated <=> l < 2 + d
    BY <1>1, <1>3, <2>3
  <2> HIDE DEF truncated
  <2>5. /\ pkt.etype \in {"ip", "other"} /\ pkt.proto \in {"tcp", "dns", "udp"}
        /\ pkt.fragment \in BOOLEAN /\ pkt.ext \in BOOLEAN /\ pkt.offload \in BOOLEAN
    BY <1>0 DEF IsPacket
  <2>6. usable(f, link) <=>
           /\ pkt.etype = "ip" /\ pkt.proto = "tcp" /\ ~pkt.fragment /\ ~pkt.ext
           /\ l >= 2
    BY <1>1, <1>3, <1>6, <2>3 DEF usable, H
  <2>7. truncated => Len(f.units) < f.wire_len
    BY <1>1, <1>3 DEF truncated
  <2>8. CASE l = 0
    <3>1. sliced = [err |-> "Len"]
      BY <2>3, <2>8 DEF from_ip
    <3>2. o = IF truncated THEN Skipped("Truncated") ELSE Skipped("Malformed")
      BY <2>1, <3>1 DEF decode_ip
    <3>3. ~usable(f, link)
      BY <2>6, <2>8
    <3> QED BY <2>7, <3>2, <3>3 DEF IsOutcome, Suffices, SkipReason, Skipped, o, f
  <2>9. CASE l > 0
    <3>1. sliced = [err       |-> "none",
                    transport |-> IF l >= 2 /\ ~pkt.ext /\ ~pkt.fragment THEN pkt.proto ELSE "none",
                    stop      |-> CASE ~(l >= 2) -> "Len"
                                    [] pkt.ext   -> "Ipv6ExtHeader"
                                    [] OTHER     -> "none"]
      BY <2>2, <2>3, <2>9 DEF from_ip
    <3>2. sliced.err = "none" /\ sliced.transport =
              IF l >= 2 /\ ~pkt.ext /\ ~pkt.fragment THEN pkt.proto ELSE "none"
      BY <3>1
    <3> HIDE DEF sliced
    <3>3. o = IF pkt.fragment THEN Skipped("Ipv6Fragment")
              ELSE CASE sliced.transport = "tcp" ->
                           [kind |-> "segment", ts |-> ts, payload_len |-> derive_payload_len(ip, pkt)]
                     [] sliced.transport = "dns" ->
                           IF parse_dns_answers(ts, ip, pkt) = <<>> THEN Skipped("NonTcp")
                           ELSE [kind |-> "names", obs |-> parse_dns_answers(ts, ip, pkt)]
                     [] OTHER -> Skipped(classify_no_tcp(sliced, truncated))
      BY <2>1, <3>2 DEF decode_ip, sliced
    <3>4. CASE pkt.fragment
      <4>1. o = Skipped("Ipv6Fragment")
        BY <3>3, <3>4
      <4> QED BY <2>6, <3>4, <4>1 DEF IsOutcome, Suffices, SkipReason, Skipped, o, f
    <3>5. CASE ~pkt.fragment /\ sliced.transport = "tcp"
      <4>1. o = [kind |-> "segment", ts |-> ts, payload_len |-> derive_payload_len(ip, pkt)]
        BY <3>3, <3>5
      <4>2. ~pkt.offload => derive_payload_len(ip, pkt) = d
        BY <1>3, <2>3 DEF derive_payload_len, onwire_ip_len
      <4>3. o.kind = "segment" /\ o.payload_len = derive_payload_len(ip, pkt)
        BY <4>1
      <4> QED BY <1>1, <1>3, <2>5, <4>2, <4>3 DEF IsOutcome, Suffices, o, f
    <3>6. CASE ~pkt.fragment /\ sliced.transport = "dns"
      <4>1. Observations(parse_dns_answers(ts, ip, pkt))
        BY DnsAnswers
      <4>2. ~usable(f, link)
        BY <2>6, <3>2, <3>6
      <4>3. CASE parse_dns_answers(ts, ip, pkt) = <<>>
        <5>1. o = Skipped("NonTcp")
          BY <3>3, <3>6, <4>3
        <5> QED BY <4>2, <5>1 DEF IsOutcome, Suffices, SkipReason, Skipped, o, f
      <4>4. CASE parse_dns_answers(ts, ip, pkt) # <<>>
        <5>1. o = [kind |-> "names", obs |-> parse_dns_answers(ts, ip, pkt)]
          BY <3>3, <3>6, <4>4
        <5>2. o.kind = "names" /\ o.obs = parse_dns_answers(ts, ip, pkt)
          BY <5>1
        <5> QED BY <4>1, <4>2, <5>2 DEF IsOutcome, Suffices, o, f
      <4> QED BY <4>3, <4>4
    <3>7. CASE ~pkt.fragment /\ sliced.transport \notin {"tcp", "dns"}
      <4>1. o = Skipped(classify_no_tcp(sliced, truncated))
        BY <3>3, <3>7
      <4>2. ~usable(f, link)
        BY <2>6, <3>2, <3>7
      <4>3. /\ classify_no_tcp(sliced, truncated) \in SkipReason
            /\ classify_no_tcp(sliced, truncated) = "Truncated" => truncated
        BY DEF classify_no_tcp, SkipReason
      <4>4. o.kind = "skipped" /\ o.reason = classify_no_tcp(sliced, truncated)
        BY <4>1 DEF Skipped
      <4> QED BY <2>7, <4>1, <4>2, <4>3, <4>4 DEF IsOutcome, Suffices, o, f
    <3> QED BY <2>5, <3>4, <3>5, <3>6, <3>7
  <2> QED BY <2>3, <2>8, <2>9
<1> QED BY <1>2, <1>3, <1>5, <1>6 DEF Stripped
-----------------------------------------------------------------------------
(***************************************************************************)
(* Skip counts.                                                            *)
(***************************************************************************)
Counts == [SkipReason -> Nat]

LEMMA ReasonsFinite == IsFiniteSet(SkipReason)
<1>1. IsFiniteSet({}) /\ \A S, x : IsFiniteSet(S) => IsFiniteSet(S \cup {x})
  BY FS_EmptySet, FS_AddElement
<1>2. SkipReason = ((((({} \cup {"NonTcp"}) \cup {"Malformed"}) \cup {"UnsupportedLinkType"})
                      \cup {"Ipv6Fragment"}) \cup {"UnsupportedExtChain"}) \cup {"Truncated"}
  BY DEF SkipReason
<1> QED BY <1>1, <1>2, Zenon

LEMMA TotalOfCounts ==
    ASSUME NEW c \in Counts
    PROVE  TotalIs(total(c), c, SkipReason)
<1> DEFINE it == CHOOSE g : Follows(g, c, SkipReason)
<1>1. total(c) = it[SkipReason]
  BY Zenon DEF total, MapThenSumSet, MapThenFoldSet, Follows
<1>2. /\ \E g : Follows(g, c, SkipReason)
      /\ \A g : Follows(g, c, SkipReason) => TotalIs(g[SkipReason], c, SkipReason)
  BY ReasonsFinite, TotalChosen DEF Counts
<1>3. Follows(it, c, SkipReason)
  BY <1>2, Zenon
<1> HIDE DEF it
<1> QED BY <1>1, <1>2, <1>3

\* SkipCounts::record adds one to SkipCounts::total.
LEMMA RecordTotal ==
    ASSUME NEW c \in Counts, NEW r \in SkipReason
    PROVE  record(c, r) \in Counts /\ total(c) \in Nat /\ total(record(c, r)) = total(c) + 1
<1>1. PICK d : d = record(c, r)
  OBVIOUS
<1>2. d \in Counts /\ d[r] = c[r] + 1 /\ (\A q \in SkipReason : q # r => d[q] = c[q]) /\ c[r] \in Nat
  BY <1>1 DEF record, Counts
<1>3. PICK a, b : a = total(c) /\ b = total(d)
  OBVIOUS
<1>4. TotalIs(a, c, SkipReason) /\ TotalIs(b, d, SkipReason)
  BY <1>2, <1>3, TotalOfCounts
<1>5. a \in Nat
  BY <1>4, TotalNat
<1>6. PICK rest \in Nat :
          /\ a = c[r] + rest
          /\ \A G, t : TotalIs(t, G, SkipReason) /\ (\A q \in SkipReason : q # r => G[q] = c[q])
                       => t = G[r] + rest
  BY <1>2, <1>4, ReasonsFinite, TotalReplace
<1>7. b = d[r] + rest
  BY <1>2, <1>4, <1>6
<1>8. b = a + 1
  BY <1>2, <1>6, <1>7
<1> QED BY <1>1, <1>2, <1>3, <1>5, <1>8

LEMMA NoSkips == total([r \in SkipReason |-> 0]) = 0
<1>1. PICK c : c = [r \in SkipReason |-> 0]
  OBVIOUS
<1>2. c \in Counts /\ \A r \in SkipReason : c[r] = 0
  BY <1>1 DEF Counts
<1>3. PICK sigma : IsSum(sigma, c, SkipReason) /\ total(c) = sigma[SkipReason]
  BY <1>2, TotalOfCounts DEF TotalIs
<1> DEFINE Z == [s \in SUBSET SkipReason |-> 0]
<1>4. IsSum(Z, c, SkipReason)
  BY <1>2 DEF IsSum
<1> HIDE DEF Z
<1>5. sigma[SkipReason] = Z[SkipReason]
  BY <1>3, <1>4, ReasonsFinite, SumUnique
<1> QED BY <1>1, <1>3, <1>5 DEF Z
-----------------------------------------------------------------------------
(***************************************************************************)
(* Reading a file.  The inductive invariant: the state of a parse that is  *)
(* still reading is what the blocks so far say, and every packet was       *)
(* decoded at its time.                                                    *)
(***************************************************************************)
IfaceType == [link : SUBSET LinkType, ng : BOOLEAN, tick : Nat]

StateType == [link_type : SUBSET LinkType, baseline : SUBSET Nat, nanos_per_tick : Nat,
              skipped : Counts]

ReadTypes == /\ state \in StateType /\ file \in Seq(IfaceType)
             /\ IsSeq(seen) /\ IsSeq(items) /\ IsSeq(names)
             /\ blocks \in Nat /\ (blocks = 0 => file = <<>>)

SameTick == \A i, j \in DOMAIN file : file[i].tick = file[j].tick

\* The interfaces declared so far agree with the link type and the tick in force.
LinkInForce ==
    result = "reading" =>
        /\ file = <<>> => state.link_type = {}
        /\ file # <<>> => /\ \E l \in LinkType : state.link_type = {l}
                          /\ state.nanos_per_tick = file[Len(file)].tick
        /\ \A i \in DOMAIN file : file[i].link = state.link_type

\* The baseline is the first packet's time.
BaselineFirst ==
    result = "reading" =>
        /\ seen = <<>> => state.baseline = {}
        /\ seen # <<>> => \E b \in Nat : /\ state.baseline = {b}
                                         /\ SameTick => b = seen[1].at

\* Packet s was captured on its link and decoded as such.
DecodedAs(s) ==
    /\ s.link \in LinkType /\ s.ts \in Nat /\ s.at \in Nat
    /\ s.outcome = decode_frame(s.link, s.ts, s.frame)
    /\ \E pkt \in Packets, n \in Snaplens : s.frame = captured(s.link, pkt, n)

Decoded == \A k \in DOMAIN seen : DecodedAs(seen[k])

Timed == SameTick => \A k \in DOMAIN seen : Faithful(k)

\* A time of whole microseconds.
WholeMicros(t) == (t \div MICRO_TICK_NS) * MICRO_TICK_NS = t

MicrosKept == in_micros => \A k \in DOMAIN seen : seen[k].at < U64Max => WholeMicros(seen[k].at)

NamePackets == {k \in DOMAIN seen : seen[k].outcome.kind = "names"}

\* Every packet is an item, a skip or a DNS answer.
Accounted == Len(items) + total(state.skipped) + Cardinality(NamePackets) = Len(seen)

ReadInv == /\ ReadTypes /\ LinkInForce /\ BaselineFirst /\ Decoded /\ Timed /\ MicrosKept
           /\ Accounted

LEMMA ReadInit == Init => ReadInv
<1> SUFFICES ASSUME Init PROVE ReadInv
  OBVIOUS
<1>1. /\ state = [link_type |-> {}, baseline |-> {}, nanos_per_tick |-> MICRO_TICK_NS,
                  skipped |-> [r \in SkipReason |-> 0]]
      /\ items = <<>> /\ names = <<>> /\ file = <<>> /\ seen = <<>>
      /\ blocks = 0
  BY DEF Init
<1>2. DOMAIN seen = {} /\ DOMAIN file = {} /\ Len(seen) = 0 /\ Len(items) = 0
  BY <1>1
<1>3. ReadTypes
  <2>1. MICRO_TICK_NS \in Nat
    BY ReplayFileAssumption
  <2>2. [r \in SkipReason |-> 0] \in Counts
    BY DEF Counts
  <2>3. state \in StateType
    BY <1>1, <2>1, <2>2 DEF StateType
  <2>4. <<>> \in Seq(IfaceType) /\ IsSeq(<<>>)
    BY EmptySeq DEF IsSeq
  <2> QED BY <1>1, <2>3, <2>4 DEF ReadTypes
<1>4. LinkInForce /\ BaselineFirst
  BY <1>1, <1>2 DEF LinkInForce, BaselineFirst
<1>5. Decoded /\ Timed /\ MicrosKept
  BY <1>2 DEF Decoded, Timed, MicrosKept
<1>6. Accounted
  <2>1. NamePackets = {} /\ Cardinality({}) = 0
    BY <1>2, FS_EmptySet DEF NamePackets
  <2>2. total(state.skipped) = 0
    BY <1>1, NoSkips
  <2> QED BY <1>2, <2>1, <2>2 DEF Accounted
<1> QED BY <1>3, <1>4, <1>5, <1>6 DEF ReadInv

\* A step that reads no packet leaves what was said of the packets.
LEMMA NoPacketRead ==
    ASSUME ReadInv, UNCHANGED <<seen, items, names>>, state'.skipped = state.skipped,
           state' \in StateType, file' \in Seq(IfaceType),
           blocks' \in Nat, blocks' = 0 => file' = <<>>,
           SameTick' => SameTick, in_micros' => in_micros, LinkInForce',
           result' = "reading" => result = "reading" /\ state'.baseline = state.baseline
    PROVE  ReadInv'
<1>1. ReadTypes'
  BY DEF ReadInv, ReadTypes
<1>2. BaselineFirst'
  <2> SUFFICES ASSUME result' = "reading"
               PROVE  /\ seen' = <<>> => state'.baseline = {}
                      /\ seen' # <<>> => \E b \in Nat : /\ state'.baseline = {b}
                                                        /\ SameTick' => b = seen'[1].at
    BY DEF BaselineFirst
  <2>1. /\ seen = <<>> => state.baseline = {}
        /\ seen # <<>> => \E b \in Nat : /\ state.baseline = {b}
                                         /\ SameTick => b = seen[1].at
    BY DEF ReadInv, BaselineFirst
  <2> QED BY <2>1
<1>3. Decoded' /\ Timed' /\ MicrosKept'
  <2>1. Decoded'
    BY DEF ReadInv, Decoded, DecodedAs
  <2>2. Timed'
    BY DEF ReadInv, Timed, Faithful
  <2>3. MicrosKept'
    BY DEF ReadInv, MicrosKept
  <2> QED BY <2>1, <2>2, <2>3
<1>4. Accounted'
  BY DEF ReadInv, Accounted, NamePackets
<1> QED BY <1>1, <1>2, <1>3, <1>4 DEF ReadInv
\* An interface is declared.
LEMMA Declared ==
    ASSUME file \in Seq(IfaceType), NEW e \in IfaceType, file' = Append(file, e)
    PROVE  /\ file' \in Seq(IfaceType) /\ file' # <<>> /\ file'[Len(file')] = e
           /\ DOMAIN file' = DOMAIN file \cup {Len(file')}
           /\ \A i \in DOMAIN file : file'[i] = file[i]
           /\ SameTick' => SameTick
           /\ in_micros' => in_micros
<1>1. PICK n \in Nat : n = Len(file) /\ DOMAIN file = 1 .. n
  BY LenProperties
<1>2. /\ file' \in Seq(IfaceType) /\ file' # <<>> /\ Len(file') = n + 1
      /\ \A i \in 1 .. n : file'[i] = file[i]
      /\ file'[n + 1] = e
  BY <1>1, AppendProperties
<1>3. DOMAIN file' = 1 .. n + 1
  BY <1>2, LenProperties
<1>4. 1 .. n + 1 = (1 .. n) \cup {n + 1}
  OBVIOUS
<1>5. SameTick' => SameTick
  BY <1>1, <1>2, <1>3, <1>4 DEF SameTick
<1>6. in_micros' => in_micros
  <2> SUFFICES ASSUME in_micros', NEW i \in 1 .. n
               PROVE  file[i].tick = file[1].tick /\ file[i].tick % MICRO_TICK_NS = 0
    BY <1>1 DEF in_micros
  <2>1. 1 \in 1 .. n /\ i \in DOMAIN file'
    BY <1>3, <1>4
  <2>2. file'[i].tick = file'[1].tick /\ file'[i].tick % MICRO_TICK_NS = 0
    BY <2>1 DEF in_micros
  <2> QED BY <1>2, <2>1, <2>2
<1> QED BY <1>1, <1>2, <1>3, <1>4, <1>5, <1>6

LEMMA FromDlt ==
    ASSUME NEW dlt
    PROVE  from_dlt(dlt) = {} \/ \E l \in LinkType : from_dlt(dlt) = {l}
BY DEF from_dlt, LinkType

LEMMA WholeTick ==
    ASSUME NEW tps \in TicksPerSec, whole_tick(tps) # {}
    PROVE  whole_tick(tps) = {NS_PER_SEC \div tps} /\ NS_PER_SEC \div tps \in Nat
<1>1. tps \in Nat /\ NS_PER_SEC \in Nat
  BY ReplayFileAssumption
<1>2. tps # 0
  BY DEF whole_tick
<1>3. NS_PER_SEC \div tps \in Nat
  BY <1>1, <1>2
<1> QED BY <1>3 DEF whole_tick

LEMMA LegacyHeaderRead ==
    ASSUME ReadInv, NEW dlt \in Dlt, NEW nano \in BOOLEAN, LegacyHeader(dlt, nano)
    PROVE  ReadInv'
<1>1. /\ result = "reading" /\ blocks = 0 /\ blocks' = 1
      /\ UNCHANGED <<items, names, seen, unread>>
  BY DEF LegacyHeader, Block
<1>2. /\ state \in StateType /\ file = <<>> /\ file \in Seq(IfaceType)
  BY <1>1 DEF ReadInv, ReadTypes
<1>3. CASE from_dlt(dlt) = {}
  <2>1. result' = "UnknownLinkType" /\ state' = state /\ file' = file
    BY <1>3 DEF LegacyHeader
  <2>2. SameTick' => SameTick
    BY <2>1 DEF SameTick
  <2>3. in_micros' => in_micros
    BY <2>1 DEF in_micros
  <2>4. LinkInForce'
    BY <2>1 DEF LinkInForce
  <2>5. file' \in Seq(IfaceType) /\ state' \in StateType /\ state'.skipped = state.skipped
    BY <1>2, <2>1
  <2> QED BY <1>1, <2>1, <2>2, <2>3, <2>4, <2>5, NoPacketRead
<1>4. CASE from_dlt(dlt) # {}
  <2>1. PICK l \in LinkType : from_dlt(dlt) = {l}
    BY <1>4, FromDlt
  <2>2. PICK t \in Nat : t = legacy_tick(nano)
    BY ReplayFileAssumption DEF legacy_tick
  <2>3. PICK e \in IfaceType : e = [link |-> {l}, ng |-> FALSE, tick |-> t]
    BY DEF IfaceType
  <2>4. /\ state' = [state EXCEPT !.link_type = {l}, !.nanos_per_tick = t]
        /\ file' = Append(file, e) /\ result' = result
    BY <1>4, <2>1, <2>2, <2>3 DEF LegacyHeader, legacy_tick
  <2>5. /\ file' \in Seq(IfaceType) /\ file' # <<>> /\ file'[Len(file')] = e
        /\ DOMAIN file' = DOMAIN file \cup {Len(file')}
        /\ SameTick' => SameTick
        /\ in_micros' => in_micros
    BY <1>2, <2>4, Declared
  <2>6. /\ state' \in StateType /\ state'.link_type = {l} /\ state'.nanos_per_tick = t
        /\ state'.skipped = state.skipped /\ state'.baseline = state.baseline
    BY <1>2, <2>4 DEF StateType
  <2>7. LinkInForce'
    <3>1. DOMAIN file = {}
      BY <1>2
    <3>2. e.link = {l} /\ e.tick = t
      BY <2>3
    <3>3. \A i \in DOMAIN file' : file'[i].link = state'.link_type
      BY <2>5, <2>6, <3>1, <3>2
    <3> QED BY <2>5, <2>6, <3>2, <3>3 DEF LinkInForce
  <2> QED BY <1>1, <2>4, <2>5, <2>6, <2>7, NoPacketRead
<1> QED BY <1>3, <1>4

LEMMA InterfaceRead ==
    ASSUME ReadInv, NEW dlt \in Dlt, NEW tps \in TicksPerSec, InterfaceDescription(dlt, tps)
    PROVE  ReadInv'
<1>1. /\ result = "reading" /\ blocks' = blocks + 1
      /\ UNCHANGED <<items, names, seen, unread>>
  BY DEF InterfaceDescription, Block
<1>2. /\ state \in StateType /\ file \in Seq(IfaceType) /\ blocks \in Nat
  BY DEF ReadInv, ReadTypes
<1>3. blocks' \in Nat /\ blocks' # 0
  BY <1>1, <1>2
<1>4. ASSUME result' # "reading", file' = file, state' \in StateType,
             state'.skipped = state.skipped
      PROVE  ReadInv'
  <2>1. SameTick' => SameTick
    BY <1>4 DEF SameTick
  <2>2. in_micros' => in_micros
    BY <1>4 DEF in_micros
  <2>3. LinkInForce'
    BY <1>4 DEF LinkInForce
  <2> QED BY <1>1, <1>2, <1>3, <1>4, <2>1, <2>2, <2>3, NoPacketRead
<1>5. CASE from_dlt(dlt) = {}
  <2>1. result' = "UnknownLinkType" /\ state' = state /\ file' = file
    BY <1>5 DEF InterfaceDescription
  <2> QED BY <1>2, <1>4, <2>1
<1>6. CASE from_dlt(dlt) # {} /\ \E link \in from_dlt(dlt) : mixed(link)
  <2>1. result' = "MixedLinkTypes" /\ state' = state /\ file' = file
    BY <1>6 DEF InterfaceDescription
  <2> QED BY <1>2, <1>4, <2>1
<1>7. CASE from_dlt(dlt) # {} /\ ~(\E link \in from_dlt(dlt) : mixed(link))
  <2>1. PICK l \in LinkType : from_dlt(dlt) = {l}
    BY <1>7, FromDlt
  <2>2. state.link_type = {} \/ state.link_type = {l}
    BY <1>7, <2>1 DEF mixed
  <2>3. PICK t \in Nat : t = IF whole_tick(tps) = {} THEN state.nanos_per_tick
                             ELSE CHOOSE n \in whole_tick(tps) : TRUE
    <3>1. CASE whole_tick(tps) = {}
      BY <1>2, <3>1 DEF StateType
    <3>2. CASE whole_tick(tps) # {}
      <4>1. whole_tick(tps) = {NS_PER_SEC \div tps} /\ NS_PER_SEC \div tps \in Nat
        BY <3>2, WholeTick
      <4> QED BY <3>2, <4>1
    <3> QED BY <3>1, <3>2
  <2>4. state' = [state EXCEPT !.link_type = {l}, !.nanos_per_tick = t]
    BY <1>7, <2>1, <2>3 DEF InterfaceDescription
  <2>5. /\ state' \in StateType /\ state'.link_type = {l} /\ state'.nanos_per_tick = t
        /\ state'.skipped = state.skipped /\ state'.baseline = state.baseline
    BY <1>2, <2>4 DEF StateType
  <2>6. CASE whole_tick(tps) = {}
    <3>1. result' = "Container" /\ file' = file
      BY <1>7, <2>6 DEF InterfaceDescription
    <3> QED BY <1>4, <2>5, <3>1
  <2>7. CASE whole_tick(tps) # {}
    <3>1. t = NS_PER_SEC \div tps
      BY <2>3, <2>7, WholeTick
    <3>2. PICK e \in IfaceType : e = [link |-> {l}, ng |-> TRUE, tick |-> t]
      BY DEF IfaceType
    <3>3. file' = Append(file, e) /\ result' = result
      BY <1>7, <2>1, <2>7, <3>1, <3>2 DEF InterfaceDescription
    <3>4. /\ file' \in Seq(IfaceType) /\ file' # <<>> /\ file'[Len(file')] = e
          /\ DOMAIN file' = DOMAIN file \cup {Len(file')}
          /\ \A i \in DOMAIN file : file'[i] = file[i]
          /\ SameTick' => SameTick
          /\ in_micros' => in_micros
      BY <1>2, <3>3, Declared
    <3>5. LinkInForce'
      <4>1. \A i \in DOMAIN file : file[i].link = {l}
        <5>1. /\ \A i \in DOMAIN file : file[i].link = state.link_type
              /\ file # <<>> => state.link_type # {}
          BY <1>1 DEF ReadInv, LinkInForce
        <5>2. file = <<>> => DOMAIN file = {}
          OBVIOUS
        <5> QED BY <2>2, <5>1, <5>2
      <4>2. e.link = {l} /\ e.tick = t
        BY <3>2
      <4>3. \A i \in DOMAIN file' : file'[i].link = state'.link_type
        BY <2>5, <3>4, <4>1, <4>2
      <4> QED BY <2>5, <3>4, <4>2, <4>3 DEF LinkInForce
    <3> QED BY <1>1, <1>3, <2>5, <3>3, <3>4, <3>5, NoPacketRead
  <2> QED BY <2>6, <2>7
<1> QED BY <1>5, <1>6, <1>7
LEMMA SatSub ==
    ASSUME NEW a \in Nat, NEW b \in Nat
    PROVE  saturating_sub(a, b) \in Nat
BY DEF saturating_sub

(***************************************************************************)
(* process_packet.  The frame is of the link type in force, and its time   *)
(* in the file's terms is abs_ns where the interfaces agree.               *)
(***************************************************************************)
LEMMA PacketRead ==
    ASSUME ReadInv, result = "reading",
           NEW abs_ns \in Nat, NEW at \in Nat, NEW iface, NEW frame,
           NEW pkt \in Packets, NEW n \in Snaplens,
           \A l \in LinkType : state.link_type = {l} => frame = captured(l, pkt, n),
           file # <<>> /\ SameTick => abs_ns = at,
           file # <<>> /\ in_micros /\ at < U64Max => WholeMicros(at),
           process_packet(abs_ns, at, iface, frame),
           UNCHANGED <<file, unread>>, blocks' = blocks + 1
    PROVE  ReadInv'
<1> DEFINE baseline == IF state.baseline = {} THEN abs_ns ELSE CHOOSE x \in state.baseline : TRUE
           based    == [state EXCEPT !.baseline = {baseline}]
<1>1. /\ state \in StateType /\ file \in Seq(IfaceType) /\ blocks \in Nat
      /\ IsSeq(seen) /\ IsSeq(items) /\ IsSeq(names)
  BY DEF ReadInv, ReadTypes
<1>2. /\ file = <<>> => state.link_type = {}
      /\ file # <<>> => /\ \E l \in LinkType : state.link_type = {l}
                        /\ state.nanos_per_tick = file[Len(file)].tick
      /\ \A i \in DOMAIN file : file[i].link = state.link_type
  BY DEF ReadInv, LinkInForce
<1>3. PICK b \in Nat : /\ b = baseline
                       /\ seen = <<>> => b = abs_ns
                       /\ seen # <<>> => state.baseline = {b} /\ (SameTick => b = seen[1].at)
  <2>1. CASE seen = <<>>
    <3>1. state.baseline = {}
      BY <2>1 DEF ReadInv, BaselineFirst
    <3> QED BY <2>1, <3>1
  <2>2. CASE seen # <<>>
    <3>1. PICK x \in Nat : state.baseline = {x} /\ (SameTick => x = seen[1].at)
      BY <2>2 DEF ReadInv, BaselineFirst
    <3>2. baseline = x
      BY <3>1
    <3> QED BY <2>2, <3>1, <3>2
  <2> QED BY <2>1, <2>2
<1>4. PICK ts \in Nat : ts = saturating_sub(abs_ns, b)
  BY SatSub
<1>5. /\ based \in StateType /\ based.link_type = state.link_type /\ based.baseline = {b}
      /\ based.nanos_per_tick = state.nanos_per_tick /\ based.skipped = state.skipped
  BY <1>1, <1>3 DEF StateType
<1>6. blocks' \in Nat /\ blocks' # 0
  BY <1>1
<1>7. (SameTick' <=> SameTick) /\ (in_micros' <=> in_micros)
  <2>1. SameTick' <=> SameTick
    BY DEF SameTick
  <2>2. in_micros' <=> in_micros
    BY DEF in_micros
  <2> QED BY <2>1, <2>2
<1>8. CASE state.link_type = {}
  <2>1. state' = based /\ result' = "Container" /\ UNCHANGED <<items, names, seen>>
    BY <1>8, Zenon DEF process_packet, baseline, based
  <2>2. LinkInForce'
    BY <2>1 DEF LinkInForce
  <2> HIDE DEF based
  <2> QED BY <1>1, <1>5, <1>6, <1>7, <2>1, <2>2, NoPacketRead
<1>9. CASE state.link_type # {}
  <2>1. PICK l \in LinkType : state.link_type = {l}
    BY <1>2, <1>9
  <2>2. PICK o : o = decode_frame(l, ts, frame)
    OBVIOUS
  <2>3. PICK e : e = [iface |-> iface, at |-> at, frame |-> frame, link |-> l, ts |-> ts,
                      outcome |-> o]
    OBVIOUS
  <2>4. /\ seen' = Append(seen, e)
        /\ items' = IF o.kind = "segment" THEN Append(items, o) ELSE items
        /\ names' = IF o.kind = "names" THEN names \o o.obs ELSE names
        /\ state' = IF o.kind = "skipped" THEN [based EXCEPT !.skipped = record(@, o.reason)]
                    ELSE based
        /\ result' = result
    <3>1. (CHOOSE x \in state.link_type : TRUE) = l
      BY <2>1
    <3>2. saturating_sub(abs_ns, baseline) = ts
      BY <1>3, <1>4
    <3> HIDE DEF baseline, based
    <3> QED BY <1>9, <2>2, <2>3, <3>1, <3>2 DEF process_packet, baseline, based
  <2> HIDE DEF based, baseline
  <2>5. frame = captured(l, pkt, n) /\ n \in Nat
    BY <2>1, ReplayFileAssumption
  <2>6. IsOutcome(o)
    BY <2>2, <2>5, DecodeFrame
  <2>7. PICK m \in Nat : m = Len(seen) /\ DOMAIN seen = 1 .. m /\ (seen = <<>> <=> m = 0)
    BY <1>1, LenNat
  <2>8. /\ IsSeq(seen') /\ Len(seen') = m + 1 /\ seen' # <<>>
        /\ \A k \in 1 .. m : seen'[k] = seen[k]
        /\ seen'[m + 1] = e
    BY <1>1, <2>4, <2>7, SeqPush
  <2>9. DOMAIN seen' = (1 .. m) \cup {m + 1} /\ m + 1 \notin 1 .. m
    <3>1. DOMAIN seen' = 1 .. m + 1
      BY <2>8, LenNat
    <3> QED BY <3>1
  <2>10. /\ e.at = at /\ e.ts = ts /\ e.link = l /\ e.frame = frame /\ e.outcome = o
    BY <2>3
  <2>11. state.skipped \in Counts
    BY <1>1 DEF StateType
  <2>12. /\ state' \in StateType /\ state'.link_type = {l} /\ state'.baseline = {b}
         /\ state'.nanos_per_tick = state.nanos_per_tick
         /\ state'.skipped = IF o.kind = "skipped" THEN record(state.skipped, o.reason)
                             ELSE state.skipped
         /\ o.kind = "skipped" => o.reason \in SkipReason
    <3>1. CASE o.kind = "skipped"
      <4>1. o.reason \in SkipReason
        BY <2>6, <3>1 DEF IsOutcome, Skipped
      <4>2. record(state.skipped, o.reason) \in Counts
        BY <2>11, <4>1, RecordTotal
      <4>3. state' = [based EXCEPT !.skipped = record(state.skipped, o.reason)]
        BY <1>5, <2>4, <3>1
      <4> QED BY <1>5, <2>1, <3>1, <4>1, <4>2, <4>3 DEF StateType
    <3>2. CASE o.kind # "skipped"
      BY <1>5, <2>1, <2>4, <3>2
    <3> QED BY <3>1, <3>2
  <2>13. ReadTypes'
    <3>1. IsSeq(items')
      BY <1>1, <2>4, SeqPush
    <3>2. IsSeq(names')
      <4>1. CASE o.kind = "names"
        <5>1. PICK T : names \in Seq(T)
          BY <1>1 DEF IsSeq
        <5>2. PICK U : o.obs \in Seq(U)
          BY <2>6, <4>1 DEF IsOutcome, Skipped, Observations, IsSeq
        <5>3. names \in Seq(T \cup U) /\ o.obs \in Seq(T \cup U)
          BY <5>1, <5>2
        <5>4. names \o o.obs \in Seq(T \cup U)
          BY <5>3, ConcatProperties
        <5> QED BY <2>4, <4>1, <5>4 DEF IsSeq
      <4>2. CASE o.kind # "names"
        BY <1>1, <2>4, <4>2
      <4> QED BY <4>1, <4>2
    <3> QED BY <1>1, <1>6, <2>8, <2>12, <3>1, <3>2 DEF ReadTypes
  <2>14. LinkInForce'
    <3>1. file' = file /\ result' = "reading" /\ file # <<>>
      BY <1>2, <2>1, <2>4
    <3> QED BY <1>2, <2>1, <2>12, <3>1 DEF LinkInForce
  <2>15. SameTick => IF seen = <<>> THEN b = at ELSE b = seen[1].at
    BY <1>2, <1>3, <1>9
  <2>16. SameTick => seen'[1].at = b
    <3>1. CASE m = 0
      <4>1. seen' [1] = e
        BY <2>8, <3>1
      <4> QED BY <2>7, <2>10, <2>15, <3>1, <4>1
    <3>2. CASE m # 0
      <4>1. 1 \in 1 .. m
        BY <3>2
      <4>2. seen'[1] = seen[1]
        BY <2>8, <4>1
      <4> QED BY <2>7, <2>15, <3>2, <4>2
    <3> QED BY <3>1, <3>2
  <2>17. BaselineFirst'
    BY <1>7, <2>8, <2>12, <2>16 DEF BaselineFirst
  <2>18. Decoded'
    <3>1. ASSUME NEW k \in 1 .. m PROVE DecodedAs(seen'[k])
      BY <2>7, <2>8 DEF ReadInv, Decoded
    <3>2. DecodedAs(e)
      BY <2>2, <2>5, <2>10 DEF DecodedAs
    <3>3. \A k \in DOMAIN seen' : DecodedAs(seen'[k])
      BY <2>8, <2>9, <3>1, <3>2
    <3> QED BY <3>3 DEF Decoded, DecodedAs
  <2>19. Timed'
    <3> SUFFICES ASSUME SameTick, NEW k \in DOMAIN seen'
                 PROVE  seen'[k].ts = saturating_sub(seen'[k].at, seen'[1].at)
      BY <1>7 DEF Timed, Faithful
    <3>1. CASE k \in 1 .. m
      <4>1. m # 0 /\ 1 \in 1 .. m
        BY <3>1
      <4>2. seen[k].ts = saturating_sub(seen[k].at, seen[1].at)
        BY <2>7, <3>1 DEF ReadInv, Timed, Faithful
      <4> QED BY <2>8, <3>1, <4>1, <4>2
    <3>2. CASE k = m + 1
      <4>1. abs_ns = at
        BY <1>2, <1>9
      <4> QED BY <1>4, <2>8, <2>10, <2>16, <3>2, <4>1
    <3> QED BY <2>9, <3>1, <3>2
  <2>20. MicrosKept'
    <3> SUFFICES ASSUME in_micros, NEW k \in DOMAIN seen', seen'[k].at < U64Max
                 PROVE  WholeMicros(seen'[k].at)
      BY <1>7 DEF MicrosKept, WholeMicros
    <3>1. CASE k \in 1 .. m
      BY <2>7, <2>8, <3>1 DEF ReadInv, MicrosKept
    <3>2. CASE k = m + 1
      BY <1>2, <1>9, <2>8, <2>10, <3>2
    <3> QED BY <2>9, <3>1, <3>2
  <2>21. Accounted'
    <3>1. PICK a \in Nat, t \in Nat, c \in Nat :
              /\ a = Len(items) /\ t = total(state.skipped) /\ c = Cardinality(NamePackets)
              /\ IsFiniteSet(NamePackets)
      <4>1. Len(items) \in Nat
        BY <1>1, LenNat
      <4>2. total(state.skipped) \in Nat
        <5>1. "NonTcp" \in SkipReason
          BY DEF SkipReason
        <5> QED BY <2>11, <5>1, RecordTotal
      <4>3. IsFiniteSet(NamePackets)
        <5>1. IsFiniteSet(1 .. m) /\ NamePackets \in SUBSET (1 .. m)
          BY <2>7, IndicesFinite DEF NamePackets
        <5> QED BY <5>1, FS_Subset
      <4> QED BY <4>1, <4>2, <4>3, FS_CardinalityType
    <3>2. a + t + c = m
      BY <2>7, <3>1 DEF ReadInv, Accounted
    <3>3. Len(items') = IF o.kind = "segment" THEN a + 1 ELSE a
      BY <1>1, <2>4, <3>1, SeqPush
    <3>4. total(state'.skipped) = IF o.kind = "skipped" THEN t + 1 ELSE t
      BY <2>11, <2>12, <3>1, RecordTotal
    <3>5. Cardinality(NamePackets') = IF o.kind = "names" THEN c + 1 ELSE c
      <4>1. NamePackets' = {k \in DOMAIN seen' : seen'[k].outcome.kind = "names"}
        BY DEF NamePackets
      <4>2. NamePackets' = NamePackets \cup (IF o.kind = "names" THEN {m + 1} ELSE {})
        <5>1. ASSUME NEW k \in 1 .. m PROVE seen'[k].outcome.kind = "names" <=> k \in NamePackets
          BY <2>7, <2>8 DEF NamePackets
        <5>2. seen'[m + 1].outcome.kind = "names" <=> o.kind = "names"
          BY <2>8, <2>10
        <5>3. NamePackets \in SUBSET (1 .. m)
          BY <2>7 DEF NamePackets
        <5> QED BY <2>9, <4>1, <5>1, <5>2, <5>3
      <4>3. m + 1 \notin NamePackets
        BY <2>7, <2>9 DEF NamePackets
      <4>4. PICK N, x : N = NamePackets /\ x = m + 1
        OBVIOUS
      <4>5. IsFiniteSet(N) /\ x \notin N /\ Cardinality(N) = c
        BY <3>1, <4>3, <4>4
      <4>6. Cardinality(N \cup {x}) = c + 1
        BY <4>5, FS_AddElement
      <4> QED BY <4>2, <4>4, <4>5, <4>6
    <3>6. o.kind \in {"skipped", "segment", "names"}
      BY <2>6 DEF IsOutcome, Skipped
    <3> QED BY <2>8, <3>2, <3>3, <3>4, <3>5, <3>6 DEF Accounted
  <2> QED BY <2>13, <2>14, <2>17, <2>18, <2>19, <2>20, <2>21 DEF ReadInv
<1> QED BY <1>8, <1>9
-----------------------------------------------------------------------------
(***************************************************************************)
(* Times.  Saturation commutes with the sum, and whole microseconds with   *)
(* sums and products.                                                      *)
(***************************************************************************)
LEMMA Saturates ==
    ASSUME NEW a \in Nat, NEW b \in Nat
    PROVE  /\ saturated(a) \in Nat
           /\ saturated(a) < U64Max => saturated(a) = a
           /\ saturated(saturated(a) + saturated(b)) = saturated(a + b)
BY ReplayFileAssumption DEF saturated

LEMMA MicrosOfMultiple ==
    ASSUME NEW M \in Nat, M # 0, NEW q \in Nat
    PROVE  ((q * M) \div M) * M = q * M
<1>1. (q * M) \div M = q
  BY SMT
<1> QED BY <1>1

LEMMA MultipleOf ==
    ASSUME NEW M \in Nat, M # 0, NEW x \in Nat, x % M = 0
    PROVE  \E q \in Nat : x = q * M
<1>1. (x \div M) * M = x /\ x \div M \in Nat
  BY SMT
<1>2. PICK q \in Nat : q = x \div M
  BY <1>1
<1> QED BY <1>1, <1>2

\* a * x + t * y is of whole microseconds if x and y are.
LEMMA WholeSum ==
    ASSUME NEW a \in Nat, NEW x \in Nat, NEW t \in Nat, NEW y \in Nat,
           x % MICRO_TICK_NS = 0, y % MICRO_TICK_NS = 0
    PROVE  WholeMicros(a * x + t * y) /\ WholeMicros(t * y)
<1>1. PICK M \in Nat : M # 0 /\ M = MICRO_TICK_NS
  BY ReplayFileAssumption
<1>2. PICK p \in Nat, q \in Nat : x = p * M /\ y = q * M
  BY <1>1, MultipleOf
<1>3. a * (p * M) = (a * p) * M /\ t * (q * M) = (t * q) * M
  BY ONLY a \in Nat, p \in Nat, t \in Nat, q \in Nat, M \in Nat, SMT
<1>4. PICK u \in Nat, v \in Nat : u = a * p /\ v = t * q
  OBVIOUS
<1>5. a * x + t * y = (u + v) * M /\ t * y = v * M
  <2>1. u * M + v * M = (u + v) * M
    BY ONLY u \in Nat, v \in Nat, M \in Nat, SMT
  <2> QED BY <1>2, <1>3, <1>4, <2>1
<1>6. PICK w \in Nat : w = u + v
  OBVIOUS
<1>7. ((w * M) \div M) * M = w * M /\ ((v * M) \div M) * M = v * M
  BY <1>1, MicrosOfMultiple
<1>8. a * x + t * y = w * M
  BY <1>5, <1>6
<1> QED BY <1>1, <1>5, <1>7, <1>8 DEF WholeMicros

LEMMA FrameOf ==
    ASSUME ReadInv, result = "reading", NEW i \in DOMAIN file, NEW pkt, NEW n, NEW l \in LinkType,
           state.link_type = {l}
    PROVE  Frame(i, pkt, n) = captured(l, pkt, n)
<1>1. file[i].link = {l}
  BY DEF ReadInv, LinkInForce
<1>2. (CHOOSE x \in file[i].link : TRUE) = l
  BY <1>1
<1> QED BY <1>2 DEF Frame

LEMMA TickInForce ==
    ASSUME ReadInv, result = "reading", NEW i \in DOMAIN file
    PROVE  /\ file # <<>> /\ file[i].tick \in Nat /\ state.nanos_per_tick \in Nat
           /\ SameTick => state.nanos_per_tick = file[i].tick
<1>1. file \in Seq(IfaceType) /\ state \in StateType
  BY DEF ReadInv, ReadTypes
<1>2. PICK m \in Nat : m = Len(file) /\ DOMAIN file = 1 .. m
  BY <1>1, LenProperties
<1>3. m \in 1 .. m
  BY <1>2
<1>4. file # <<>> /\ file[i] \in IfaceType
  BY <1>1, <1>2, <1>3, ElementOfSeq, EmptySeq
<1>5. state.nanos_per_tick = file[m].tick
  BY <1>2, <1>4 DEF ReadInv, LinkInForce
<1>6. SameTick => file[m].tick = file[i].tick
  BY <1>2, <1>3 DEF SameTick
<1> QED BY <1>1, <1>4, <1>5, <1>6 DEF IfaceType, StateType

LEMMA EnhancedRead ==
    ASSUME ReadInv, NEW i \in DOMAIN file, NEW ticks \in Ticks, NEW pkt \in Packets,
           NEW n \in Snaplens, EnhancedPacket(i, ticks, pkt, n)
    PROVE  ReadInv'
<1>1. /\ result = "reading" /\ blocks' = blocks + 1 /\ UNCHANGED <<file, unread>>
  BY DEF EnhancedPacket, Block
<1>2. /\ file # <<>> /\ file[i].tick \in Nat /\ state.nanos_per_tick \in Nat
      /\ SameTick => state.nanos_per_tick = file[i].tick
  BY <1>1, TickInForce
<1>3. PICK t \in Nat, x \in Nat, y \in Nat :
          t = ticks /\ x = state.nanos_per_tick /\ y = file[i].tick
  BY <1>2, ReplayFileAssumption
<1>4. t * x \in Nat /\ t * y \in Nat
  OBVIOUS
<1>5. PICK abs_ns \in Nat, at \in Nat : abs_ns = saturated(t * x) /\ at = saturated(t * y)
  BY <1>4, Saturates
<1>6. PICK frame : frame = Frame(i, pkt, n)
  OBVIOUS
<1>7. process_packet(abs_ns, at, i, frame)
  BY <1>3, <1>5, <1>6 DEF EnhancedPacket
<1>8. SameTick => abs_ns = at
  BY <1>2, <1>3, <1>5
<1>9. in_micros /\ at < U64Max => WholeMicros(at)
  <2> SUFFICES ASSUME in_micros, at < U64Max PROVE WholeMicros(at)
    OBVIOUS
  <2>1. at = t * y
    BY <1>4, <1>5, Saturates
  <2>2. y % MICRO_TICK_NS = 0
    BY <1>3 DEF in_micros
  <2> QED BY <2>1, <2>2, WholeSum
<1>10. \A l \in LinkType : state.link_type = {l} => frame = captured(l, pkt, n)
  BY <1>1, <1>6, FrameOf
<1> QED BY <1>1, <1>7, <1>8, <1>9, <1>10, PacketRead

LEMMA LegacyRead ==
    ASSUME ReadInv, NEW sec \in {0, 1}, NEW sub \in Ticks, NEW pkt \in Packets,
           NEW n \in Snaplens, Legacy(sec, sub, pkt, n)
    PROVE  ReadInv'
<1>1. /\ result = "reading" /\ blocks' = blocks + 1 /\ UNCHANGED <<file, unread>> /\ ~is_ng
  BY DEF Legacy, Block
<1>2. 1 \in DOMAIN file
  <2>1. PICK m \in Nat : DOMAIN file = 1 .. m
    BY LenProperties DEF ReadInv, ReadTypes
  <2>2. DOMAIN file # {}
    BY <1>1 DEF is_ng
  <2> QED BY <2>1, <2>2
<1>3. /\ file # <<>> /\ file[1].tick \in Nat /\ state.nanos_per_tick \in Nat
      /\ SameTick => state.nanos_per_tick = file[1].tick
  BY <1>1, <1>2, TickInForce
<1>4. PICK s \in Nat, t \in Nat, x \in Nat, y \in Nat, NS \in Nat :
          /\ s = sec /\ t = sub /\ x = state.nanos_per_tick /\ y = file[1].tick /\ NS = NS_PER_SEC
  <2>1. sec \in Nat
    OBVIOUS
  <2>2. sub \in Nat /\ NS_PER_SEC \in Nat
    BY ReplayFileAssumption
  <2> QED BY <1>3, <2>1, <2>2
<1>5. s * NS \in Nat /\ t * x \in Nat /\ t * y \in Nat /\ s * NS + t * y \in Nat
      /\ s * NS + t * x \in Nat
  OBVIOUS
<1>6. PICK abs_ns \in Nat, at \in Nat : abs_ns = saturated(s * NS + t * x)
                                        /\ at = saturated(s * NS + t * y)
  BY <1>5, Saturates
<1>7. saturated(saturated(s * NS) + saturated(t * x)) = saturated(s * NS + t * x)
  BY <1>5, Saturates
<1>8. PICK frame : frame = Frame(1, pkt, n)
  OBVIOUS
<1>9. process_packet(abs_ns, at, 1, frame)
  <2>1. process_packet(saturated(saturated(s * NS) + saturated(t * x)),
                       saturated(s * NS + t * y), 1, frame)
    BY <1>4, <1>8 DEF Legacy
  <2> QED BY <1>6, <1>7, <2>1
<1>10. SameTick => abs_ns = at
  BY <1>3, <1>4, <1>6
<1>11. in_micros /\ at < U64Max => WholeMicros(at)
  <2> SUFFICES ASSUME in_micros, at < U64Max PROVE WholeMicros(at)
    OBVIOUS
  <2>1. at = s * NS + t * y
    BY <1>5, <1>6, Saturates
  <2>2. y % MICRO_TICK_NS = 0 /\ NS % MICRO_TICK_NS = 0
    BY <1>2, <1>4, ReplayFileAssumption DEF in_micros
  <2> QED BY <2>1, <2>2, WholeSum
<1>12. \A l \in LinkType : state.link_type = {l} => frame = captured(l, pkt, n)
  BY <1>1, <1>2, <1>8, FrameOf
<1> QED BY <1>1, <1>9, <1>10, <1>11, <1>12, PacketRead

LEMMA OrphanRead ==
    ASSUME ReadInv, NEW ticks \in Ticks, NEW pkt \in Packets,
           NEW n \in Snaplens, OrphanPacket(ticks, pkt, n)
    PROVE  ReadInv'
<1>1. /\ result = "reading" /\ blocks' = blocks + 1 /\ UNCHANGED <<file, unread>> /\ file = <<>>
  BY DEF OrphanPacket, Block
<1>2. state.nanos_per_tick \in Nat /\ state.link_type = {}
  BY <1>1 DEF ReadInv, ReadTypes, StateType, LinkInForce
<1>3. PICK t \in Nat, x \in Nat : t = ticks /\ x = state.nanos_per_tick
  BY <1>2, ReplayFileAssumption
<1>4. t * x \in Nat
  OBVIOUS
<1>5. PICK abs_ns \in Nat : abs_ns = saturated(t * x)
  BY <1>4, Saturates
<1>6. PICK frame : frame = captured("RawIp", pkt, n)
  OBVIOUS
<1>7. process_packet(abs_ns, t, 0, frame)
  BY <1>3, <1>5, <1>6 DEF OrphanPacket
<1>8. \A l \in LinkType : state.link_type = {l} => frame = captured(l, pkt, n)
  BY <1>2
<1> QED BY <1>1, <1>7, <1>8, PacketRead

\* The steps that only end the parse, or read a block without a packet.
LEMMA OtherRead ==
    ASSUME ReadInv,
           (\E packets \in {0, 1} : OtherBlock(packets)) \/ OpenError \/ EndOfFile \/ ReadError
    PROVE  ReadInv'
<1>1. /\ result = "reading" /\ UNCHANGED <<state, items, names, file, seen>>
      /\ blocks' = blocks \/ blocks' = blocks + 1
  BY DEF OtherBlock, OpenError, EndOfFile, ReadError, Block
<1>2. /\ blocks' \in Nat /\ (blocks' = 0 => file' = <<>>)
      /\ state' \in StateType /\ file' \in Seq(IfaceType)
  BY <1>1 DEF ReadInv, ReadTypes
<1>3. SameTick' => SameTick
  BY <1>1 DEF SameTick
<1>4. in_micros' => in_micros
  BY <1>1 DEF in_micros
<1>5. LinkInForce'
  BY <1>1 DEF ReadInv, LinkInForce
<1> QED BY <1>1, <1>2, <1>3, <1>4, <1>5, NoPacketRead

LEMMA ReadStep ==
    ASSUME ReadInv, [Next]_vars
    PROVE  ReadInv'
<1>1. CASE UNCHANGED vars
  <2>1. /\ state' = state /\ result' = result /\ items' = items /\ names' = names
        /\ file' = file /\ seen' = seen /\ blocks' = blocks
    BY <1>1 DEF vars
  <2>2. /\ blocks' \in Nat /\ (blocks' = 0 => file' = <<>>)
        /\ state' \in StateType /\ file' \in Seq(IfaceType)
    BY <2>1 DEF ReadInv, ReadTypes
  <2>3. SameTick' => SameTick
    BY <2>1 DEF SameTick
  <2>4. in_micros' => in_micros
    BY <2>1 DEF in_micros
  <2>5. LinkInForce'
    BY <2>1 DEF ReadInv, LinkInForce
  <2> QED BY <2>1, <2>2, <2>3, <2>4, <2>5, NoPacketRead
<1>2. ASSUME NEW dlt \in Dlt, NEW nano \in BOOLEAN, LegacyHeader(dlt, nano) PROVE ReadInv'
  BY <1>2, LegacyHeaderRead
<1>3. ASSUME NEW dlt \in Dlt, NEW tps \in TicksPerSec, InterfaceDescription(dlt, tps) PROVE ReadInv'
  BY <1>3, InterfaceRead
<1>4. ASSUME NEW pkt \in Packets, NEW n \in Snaplens, NEW t \in Ticks,
             \/ \E sec \in {0, 1} : Legacy(sec, t, pkt, n)
             \/ \E i \in DOMAIN file : EnhancedPacket(i, t, pkt, n)
             \/ OrphanPacket(t, pkt, n)
      PROVE  ReadInv'
  BY <1>4, LegacyRead, EnhancedRead, OrphanRead
<1>5. CASE (\E packets \in {0, 1} : OtherBlock(packets)) \/ OpenError \/ EndOfFile \/ ReadError
  BY <1>5, OtherRead
<1> QED BY <1>1, <1>2, <1>3, <1>4, <1>5 DEF Next
-----------------------------------------------------------------------------
LEMMA CmdStepReads == [CmdNext]_cmdvars => [Next]_vars
BY DEF CmdNext, cmdvars

\* Whatever the file: while the parse goes on, link type, tick and baseline are those of the blocks
\* read, and every packet was decoded on its link at its time (replay.rs handle_block).
THEOREM ReadInvariant == CmdSpec => []ReadInv
<1>1. CmdInit => ReadInv
  BY ReadInit DEF CmdInit
<1>2. ReadInv /\ [CmdNext]_cmdvars => ReadInv'
  BY ReadStep, CmdStepReads
<1> QED BY <1>1, <1>2, PTL DEF CmdSpec

LEMMA OneTick ==
    ASSUME ReadInv, Cardinality({file[i].tick : i \in DOMAIN file}) <= 1
    PROVE  SameTick
<1> DEFINE T == {file[i].tick : i \in DOMAIN file}
<1>1. PICK m \in Nat : DOMAIN file = 1 .. m
  BY LenProperties DEF ReadInv, ReadTypes
<1>2. IsFiniteSet(T)
  <2>1. IsFiniteSet(DOMAIN file)
    BY <1>1, IndicesFinite
  <2> DEFINE f == [i \in DOMAIN file |-> file[i].tick]
  <2>2. f \in Surjection(DOMAIN file, T)
    BY DEF Surjection
  <2> HIDE DEF f, T
  <2> QED BY <2>1, <2>2, FS_Surjection
<1> SUFFICES ASSUME NEW i \in DOMAIN file, NEW j \in DOMAIN file, file[i].tick # file[j].tick
             PROVE  FALSE
  BY DEF SameTick
<1>3. PICK x, y : x = file[i].tick /\ y = file[j].tick
  OBVIOUS
<1>4. x \in T /\ y \in T /\ x # y
  BY <1>3
<1> HIDE DEF T
<1>5. Cardinality({x} \cup {y}) = 2
  <2>1. IsFiniteSet({x}) /\ Cardinality({x}) = 1 /\ y \notin {x}
    BY <1>4, FS_Singleton
  <2>2. Cardinality({x} \cup {y}) = Cardinality({x}) + 1
    BY <2>1, FS_AddElement
  <2> QED BY <2>1, <2>2
<1>6. Cardinality({x} \cup {y}) <= Cardinality(T) /\ Cardinality(T) \in Nat
  <2>1. {x} \cup {y} \in SUBSET T
    BY <1>4
  <2> QED BY <1>2, <2>1, FS_Subset, FS_CardinalityType
<1>7. PICK c \in Nat : c = Cardinality(T) /\ c <= 1
  BY <1>6 DEF T
<1>8. 2 <= c
  BY <1>5, <1>6, <1>7
<1> QED BY <1>7, <1>8

\* Timestamps are the true ones from the first packet on, for every resolution the interfaces of
\* the file agree on, also when they saturate (replay.rs process_packet).
THEOREM TimesAreFaithful == CmdSpec => []TimesFaithful
<1>1. ReadInv => TimesFaithful
  BY OneTick DEF TimesFaithful, ReadInv, Timed
<1> QED BY <1>1, ReadInvariant, PTL

\* Captured headers are enough for a segment of the right length, at any snap length, on every
\* link type and with any number of VLAN tags where the link passes over them: on all but the
\* cooked captures (decode.rs decode_frame, link.rs strip_link).
THEOREM HeadersAreEnough == CmdSpec => []HeadersSuffice
<1>1. ReadInv => HeadersSuffice
  <2> SUFFICES ASSUME ReadInv, NEW k \in DOMAIN seen
               PROVE  Suffices(seen[k].frame, seen[k].link, seen[k].outcome)
    BY DEF HeadersSuffice, Suffices
  <2>1. DecodedAs(seen[k])
    BY DEF ReadInv, Decoded
  <2>2. PICK s : s = seen[k]
    OBVIOUS
  <2>3. PICK pkt \in Packets, n \in Snaplens : s.frame = captured(s.link, pkt, n)
    BY <2>1, <2>2 DEF DecodedAs
  <2>4. PICK link \in LinkType, ts \in Nat : link = s.link /\ ts = s.ts
    BY <2>1, <2>2 DEF DecodedAs
  <2>5. PICK m \in Nat : m = n
    BY ReplayFileAssumption
  <2>6. Suffices(captured(link, pkt, m), link, decode_frame(link, ts, captured(link, pkt, m)))
    BY DecodeFrame
  <2>7. s.outcome = decode_frame(link, ts, captured(link, pkt, m)) /\ s.frame = captured(link, pkt, m)
    BY <2>1, <2>2, <2>3, <2>4, <2>5 DEF DecodedAs
  <2> QED BY <2>2, <2>4, <2>6, <2>7
<1> QED BY <1>1, ReadInvariant, PTL
-----------------------------------------------------------------------------
(***************************************************************************)
(* What a step adds to the sequences that the commands follow.             *)
(***************************************************************************)
LEMMA AddedConcat ==
    ASSUME NEW s, IsSeq(s), NEW t, IsSeq(t)
    PROVE  added(s, s \o t) = t
<1>1. PICK T : s \in Seq(T) /\ t \in Seq(T)
  <2>1. PICK A, B : s \in Seq(A) /\ t \in Seq(B)
    BY DEF IsSeq
  <2>2. s \in Seq(A \cup B) /\ t \in Seq(A \cup B)
    BY <2>1, SeqMonotonic
  <2> QED BY <2>2
<1>2. PICK m \in Nat, n \in Nat : m = Len(s) /\ n = Len(t)
  BY <1>1, LenProperties
<1>3. /\ s \o t \in Seq(T) /\ Len(s \o t) = Len(s) + Len(t)
      /\ \A i \in 1 .. Len(s) + Len(t) : (s \o t)[i] = IF i <= Len(s) THEN s[i] ELSE t[i - Len(s)]
  BY <1>1, ConcatProperties
<1>4. PICK u : u = s \o t
  OBVIOUS
<1>5. /\ Len(u) = m + n
      /\ \A i \in 1 .. m + n : u[i] = IF i <= m THEN s[i] ELSE t[i - m]
  BY <1>2, <1>3, <1>4
<1>6. PICK v : v = SubSeq(u, m + 1, m + n)
  OBVIOUS
<1>7. /\ v \in Seq(T) /\ Len(v) = IF m + 1 <= m + n THEN (m + n) - (m + 1) + 1 ELSE 0
      /\ \A i \in 1 .. (m + n) - (m + 1) + 1 : v[i] = u[(m + 1) + i - 1]
  <2>1. \A i \in m + 1 .. m + n : u[i] \in T
    <3>1. \A i \in m + 1 .. m + n : i \in 1 .. Len(u)
      BY <1>5
    <3> QED BY <1>3, <1>4, <3>1, ElementOfSeq
  <2>2. m + 1 \in Int /\ m + n \in Int
    OBVIOUS
  <2> QED BY <1>6, <2>1, <2>2, SubSeqProperties
<1>8. Len(v) = n
  BY <1>7
<1>9. ASSUME NEW i \in 1 .. n PROVE v[i] = t[i]
  <2>1. /\ i \in 1 .. (m + n) - (m + 1) + 1 /\ (m + 1) + i - 1 = m + i
        /\ m + i \in 1 .. m + n /\ ~(m + i <= m) /\ (m + i) - m = i
    OBVIOUS
  <2> QED BY <1>5, <1>7, <2>1
<1>10. v = t
  BY <1>1, <1>2, <1>7, <1>8, <1>9, SeqEqual
<1> QED BY <1>2, <1>4, <1>5, <1>6, <1>10 DEF added

LEMMA Added ==
    ASSUME NEW s, IsSeq(s)
    PROVE  added(s, s) = <<>> /\ \A x : added(s, Append(s, x)) = <<x>>
<1>1. added(s, s) = <<>>
  <2>1. Len(s) \in Nat
    BY LenNat
  <2>2. Len(s) + 1 \in Int /\ Len(s) \in Int /\ Len(s) < Len(s) + 1
    BY <2>1
  <2> QED BY <2>2, SubSeqEmpty DEF added
<1>2. ASSUME NEW x PROVE added(s, Append(s, x)) = <<x>>
  <2>1. PICK T : s \in Seq(T)
    BY DEF IsSeq
  <2>2. s \in Seq(T \cup {x}) /\ x \in T \cup {x}
    BY <2>1
  <2>3. Append(s, x) = s \o <<x>>
    BY <2>2, AppendIsConcat
  <2>4. IsSeq(<<x>>)
    <3>1. <<x>> \in Seq({x})
      OBVIOUS
    <3> QED BY <3>1 DEF IsSeq
  <2> QED BY <2>3, <2>4, AddedConcat
<1> QED BY <1>1, <1>2

\* process_packet, as the sinks see it.
Sinks ==
    /\ items' = items \/ (result' = "reading" /\ \E o : items' = Append(items, o))
    /\ names' = names \/ \E obs : Observations(obs) /\ names' = names \o obs
    /\ seen' = seen \/ \E e : seen' = Append(seen, e)

LEMMA PacketSinks ==
    ASSUME ReadInv, ReadInv', result = "reading",
           NEW abs_ns, NEW at, NEW iface, NEW frame, process_packet(abs_ns, at, iface, frame)
    PROVE  Sinks
<1>1. CASE state.link_type = {}
  BY <1>1 DEF process_packet, Sinks
<1>2. CASE state.link_type # {}
  <2>1. PICK l : l = CHOOSE x \in state.link_type : TRUE
    OBVIOUS
  <2>2. PICK ts : ts = saturating_sub(abs_ns, IF state.baseline = {} THEN abs_ns
                                               ELSE CHOOSE b \in state.baseline : TRUE)
    OBVIOUS
  <2>3. PICK o, e : /\ o = decode_frame(l, ts, frame)
                    /\ e = [iface |-> iface, at |-> at, frame |-> frame, link |-> l, ts |-> ts,
                            outcome |-> o]
    OBVIOUS
  <2>4. /\ seen' = Append(seen, e)
        /\ items' = IF o.kind = "segment" THEN Append(items, o) ELSE items
        /\ names' = IF o.kind = "names" THEN names \o o.obs ELSE names
        /\ result' = result
    BY <1>2, <2>1, <2>2, <2>3 DEF process_packet
  <2>5. o.kind = "names" => Observations(o.obs)
    <3>1. PICK m \in Nat : /\ m = Len(seen) /\ Len(seen') = m + 1 /\ seen'[m + 1] = e
                           /\ IsSeq(seen')
      BY <2>4, SeqPush DEF ReadInv, ReadTypes
    <3>2. m + 1 \in DOMAIN seen'
      BY <3>1, LenNat
    <3>3. DecodedAs(seen'[m + 1])
      BY <3>2 DEF ReadInv, Decoded, DecodedAs
    <3>4. DecodedAs(e) /\ e.outcome = o
      BY <2>3, <3>1, <3>3
    <3>5. PICK link \in LinkType, t \in Nat : link = e.link /\ t = e.ts
      BY <3>4 DEF DecodedAs
    <3>6. PICK pkt \in Packets, n \in Snaplens : e.frame = captured(link, pkt, n)
      BY <3>4, <3>5 DEF DecodedAs
    <3>7. PICK k \in Nat : k = n
      BY ReplayFileAssumption
    <3>8. IsOutcome(decode_frame(link, t, captured(link, pkt, k)))
      BY DecodeFrame
    <3>9. o = decode_frame(link, t, captured(link, pkt, k))
      BY <3>4, <3>5, <3>6, <3>7 DEF DecodedAs
    <3> QED BY <3>8, <3>9 DEF IsOutcome, Skipped
  <2> QED BY <2>4, <2>5 DEF Sinks
<1> QED BY <1>1, <1>2

LEMMA StepSinks ==
    ASSUME ReadInv, ReadInv', Next
    PROVE  Sinks /\ result = "reading"
<1>1. ASSUME NEW dlt \in Dlt, NEW nano \in BOOLEAN, LegacyHeader(dlt, nano)
      PROVE Sinks /\ result = "reading"
  BY <1>1 DEF LegacyHeader, Block, Sinks
<1>2. ASSUME NEW dlt \in Dlt, NEW tps \in TicksPerSec, InterfaceDescription(dlt, tps)
      PROVE Sinks /\ result = "reading"
  BY <1>2 DEF InterfaceDescription, Block, Sinks
<1>3. ASSUME NEW pkt \in Packets, NEW n \in Snaplens, NEW t \in Ticks, NEW sec, Legacy(sec, t, pkt, n)
      PROVE  Sinks /\ result = "reading"
  BY <1>3, PacketSinks DEF Legacy, Block
<1>4. ASSUME NEW pkt \in Packets, NEW n \in Snaplens, NEW t \in Ticks, NEW i,
             EnhancedPacket(i, t, pkt, n)
      PROVE  Sinks /\ result = "reading"
  BY <1>4, PacketSinks DEF EnhancedPacket, Block
<1>5. ASSUME NEW pkt \in Packets, NEW n \in Snaplens, NEW t \in Ticks, OrphanPacket(t, pkt, n)
      PROVE  Sinks /\ result = "reading"
  BY <1>5, PacketSinks DEF OrphanPacket, Block
<1>6. CASE (\E packets \in {0, 1} : OtherBlock(packets)) \/ OpenError \/ EndOfFile \/ ReadError
  BY <1>6 DEF OtherBlock, OpenError, EndOfFile, ReadError, Block, Sinks
<1> QED BY <1>1, <1>2, <1>3, <1>4, <1>5, <1>6 DEF Next

LEMMA PrintInTurn ==
    ASSUME NEW base, NEW x
    PROVE  /\ FoldLeft(print_line, base, <<>>) = base
           /\ FoldLeft(print_line, base, <<x>>) = print_line(base, x)
<1> DEFINE Rec(g, pts) == g = [s \in SUBSET DOMAIN pts |->
                                 IF s = {} THEN base
                                 ELSE print_line(g[s \ {Max(s)}], pts[Max(s)])]
           it(pts) == CHOOSE g : Rec(g, pts)
<1>1. \A pts : FoldLeft(print_line, base, pts) = it(pts)[DOMAIN pts]
  BY Zenon DEF FoldLeft, MapThenFoldSet
<1>2. FoldLeft(print_line, base, <<>>) = base
  <2>1. DOMAIN <<>> = {}
    OBVIOUS
  <2> DEFINE g == [s \in SUBSET {} |-> base]
  <2>2. Rec(g, <<>>)
    BY <2>1
  <2> HIDE DEF Rec
  <2>3. Rec(it(<<>>), <<>>)
    BY <2>2, Zenon
  <2>4. it(<<>>)[{}] = base
    BY <2>1, <2>3 DEF Rec
  <2> QED BY <1>1, <2>1, <2>4
<1>3. FoldLeft(print_line, base, <<x>>) = print_line(base, x)
  <2>1. DOMAIN <<x>> = {1} /\ <<x>>[1] = x
    OBVIOUS
  <2>2. Max({1}) = 1
    <3>1. 1 .. 1 = {1} /\ {1} \in SUBSET (1 .. 1)
      OBVIOUS
    <3> QED BY <3>1, LastIndex
  <2> DEFINE g == [s \in SUBSET {1} |-> IF s = {} THEN base ELSE print_line(base, x)]
  <2>3. Rec(g, <<x>>)
    <3>1. \A s \in SUBSET {1} : s = {} \/ s = {1}
      OBVIOUS
    <3>2. {1} \ {1} = {} /\ {} \in SUBSET {1}
      OBVIOUS
    <3>3. g[{}] = base /\ g[{1}] = print_line(base, x)
      OBVIOUS
    <3>4. ASSUME NEW s \in SUBSET {1}
          PROVE  g[s] = IF s = {} THEN base ELSE print_line(g[s \ {Max(s)}], <<x>>[Max(s)])
      <4> HIDE DEF g
      <4>1. CASE s = {}
        BY <3>3, <4>1
      <4>2. CASE s = {1}
        BY <2>1, <2>2, <3>2, <3>3, <4>2
      <4> QED BY <3>1, <4>1, <4>2
    <3>5. g = [s \in SUBSET {1} |-> g[s]]
      OBVIOUS
    <3> HIDE DEF g
    <3> QED BY <2>1, <3>4, <3>5
  <2> HIDE DEF Rec, g
  <2>4. Rec(it(<<x>>), <<x>>)
    BY <2>3, Zenon
  <2>5. PICK f : f = it(<<x>>)
    OBVIOUS
  <2>6. f[{1}] = print_line(f[{1} \ {Max({1})}], <<x>>[Max({1})]) /\ f[{}] = base
    BY <2>1, <2>4, <2>5 DEF Rec
  <2>7. f[{1}] = print_line(base, x)
    <3>1. {1} \ {1} = {}
      OBVIOUS
    <3> QED BY <2>1, <2>2, <2>6, <3>1
  <2> QED BY <1>1, <2>1, <2>5, <2>7
<1> QED BY <1>2, <1>3
-----------------------------------------------------------------------------
(***************************************************************************)
(* run_parse: until a write fails one line per item was written.           *)
(***************************************************************************)
ExitWith(res, w, l, r) ==
    CASE res # "parsed" -> "ingest error"
      [] w \/ l >= r    -> "write error"
      [] OTHER          -> "ok"

ParseInv ==
    /\ room \in Nat
    /\ out \in [count : Nat, lines : Nat, write_err : BOOLEAN]
    /\ out.lines <= room
    /\ ~out.write_err => out.count = Len(items) /\ out.lines = Len(items)
    /\ out.write_err => out.lines = room /\ Len(items) > room
    /\ exit = IF result = "reading" THEN "running"
              ELSE ExitWith(result, out.write_err, out.lines, room)

LEMMA ParseStep ==
    ASSUME ReadInv, ReadInv', ParseInv, [CmdNext]_cmdvars
    PROVE  ParseInv'
<1>1. CASE UNCHANGED cmdvars
  <2>1. /\ room' = room /\ out' = out /\ items' = items /\ exit' = exit /\ result' = result
    BY <1>1 DEF cmdvars, vars
  <2>2. /\ room' \in Nat /\ out' \in [count : Nat, lines : Nat, write_err : BOOLEAN]
        /\ out'.lines <= room'
        /\ (~out'.write_err => out'.count = Len(items') /\ out'.lines = Len(items'))
        /\ (out'.write_err => out'.lines = room' /\ Len(items') > room')
    BY <2>1 DEF ParseInv
  <2>3. exit' = IF result' = "reading" THEN "running"
                ELSE ExitWith(result', out'.write_err, out'.lines, room')
    BY <2>1 DEF ParseInv
  <2> QED BY <2>2, <2>3 DEF ParseInv
<1>2. CASE CmdNext
  <2>1. Sinks /\ result = "reading" /\ room' = room
    BY <1>2, StepSinks DEF CmdNext, Parse
  <2>2. /\ out' = FoldLeft(print_line, out, added(items, items'))
        /\ exit' = IF result' = "reading" THEN exit ELSE exit_of(result', out)
    BY <1>2 DEF CmdNext, Parse
  <2>3. IsSeq(items) /\ exit = "running"
    BY <2>1 DEF ReadInv, ReadTypes, ParseInv
  <2>4. PICK n \in Nat : n = Len(items)
    BY <2>3, LenNat
  <2>5. PICK r \in Nat : r = room
    BY DEF ParseInv
  <2>6. CASE items' = items
    <3>1. out' = out
      <4>1. added(items, items') = <<>>
        BY <2>3, <2>6, Added
      <4> QED BY <2>2, <4>1, PrintInTurn
    <3>2. exit' = IF result' = "reading" THEN "running"
                  ELSE ExitWith(result', out'.write_err, out'.lines, room')
      <4>1. exit_of(result', out) = ExitWith(result', out.write_err, out.lines, room)
        BY DEF exit_of, ExitWith
      <4> QED BY <2>1, <2>2, <2>3, <3>1, <4>1
    <3>3. /\ room' \in Nat /\ out' \in [count : Nat, lines : Nat, write_err : BOOLEAN]
          /\ out'.lines <= room'
          /\ (~out'.write_err => out'.count = Len(items') /\ out'.lines = Len(items'))
          /\ (out'.write_err => out'.lines = room' /\ Len(items') > room')
      BY <2>1, <2>6, <3>1 DEF ParseInv
    <3> QED BY <3>2, <3>3 DEF ParseInv
  <2>7. CASE result' = "reading" /\ \E o : items' = Append(items, o)
    <3>1. PICK o : items' = Append(items, o)
      BY <2>7
    <3>2. Len(items') = n + 1
      BY <2>3, <2>4, <3>1, SeqPush
    <3>3. out' = print_line(out, o)
      <4>1. added(items, items') = <<o>>
        BY <2>3, <3>1, Added
      <4> QED BY <2>2, <4>1, PrintInTurn
    <3>4. exit' = "running"
      BY <2>2, <2>3, <2>7
    <3>5. PICK c \in Nat, l \in Nat, w \in BOOLEAN :
              /\ c = out.count /\ l = out.lines /\ w = out.write_err
              /\ l <= r /\ (~w => c = n /\ l = n) /\ (w => l = r /\ n > r)
      BY <2>4, <2>5 DEF ParseInv
    <3>6. CASE w
      <4>1. out' = out
        BY <3>3, <3>5, <3>6 DEF print_line
      <4>2. /\ out' \in [count : Nat, lines : Nat, write_err : BOOLEAN]
            /\ out'.lines = r /\ out'.write_err
        BY <3>5, <3>6, <4>1 DEF ParseInv
      <4>3. r <= r /\ n + 1 > r
        BY <3>5, <3>6
      <4> QED BY <2>1, <2>5, <2>7, <3>2, <3>4, <4>2, <4>3 DEF ParseInv
    <3>7. CASE ~w
      <4>1. out' = [count |-> c + 1, lines |-> IF l < r THEN l + 1 ELSE l, write_err |-> l >= r]
        BY <2>5, <3>3, <3>5, <3>7 DEF print_line
      <4>2. /\ out' \in [count : Nat, lines : Nat, write_err : BOOLEAN]
            /\ out'.count = c + 1 /\ out'.lines = (IF l < r THEN l + 1 ELSE l)
            /\ out'.write_err = (l >= r)
        BY <4>1
      <4> QED BY <2>1, <2>5, <2>7, <3>2, <3>4, <3>5, <3>7, <4>2 DEF ParseInv
    <3> QED BY <3>6, <3>7
  <2> QED BY <2>1, <2>6, <2>7 DEF Sinks
<1> QED BY <1>1, <1>2

LEMMA ParseInit == CmdInit => ParseInv
<1> SUFFICES ASSUME CmdInit PROVE ParseInv
  OBVIOUS
<1>1. /\ room \in Nat /\ out = [count |-> 0, lines |-> 0, write_err |-> FALSE]
      /\ exit = "running" /\ result = "reading" /\ items = <<>>
  BY FileCommandsAssumption DEF CmdInit, Init
<1>2. Len(items) = 0
  BY <1>1
<1> QED BY <1>1, <1>2 DEF ParseInv

\* parse exits with success exactly when the file was read to its end and stdout took every line,
\* the summary too; the counts it then prints add up to the packets read (main.rs run_parse).
THEOREM ParseIsHonest == CmdSpec => []ParseHonest
<1>1. ReadInv /\ ParseInv => ParseHonest
  <2> SUFFICES ASSUME ReadInv, ParseInv PROVE ParseHonest
    OBVIOUS
  <2>1. PICK n \in Nat, r \in Nat, l \in Nat, w \in BOOLEAN :
            /\ n = Len(items) /\ r = room /\ l = out.lines /\ w = out.write_err
            /\ l <= r /\ (~w => out.count = n /\ l = n) /\ (w => l = r /\ n > r)
    <3>1. Len(items) \in Nat
      BY LenNat DEF ReadInv, ReadTypes
    <3> QED BY <3>1 DEF ParseInv
  <2>2. exit = "ok" <=> result = "parsed" /\ ~w /\ ~(l >= r)
    <3>1. exit = IF result = "reading" THEN "running" ELSE ExitWith(result, w, l, r)
      BY <2>1 DEF ParseInv
    <3>2. ExitWith(result, w, l, r) = CASE result # "parsed" -> "ingest error"
                                        [] w \/ l >= r        -> "write error"
                                        [] OTHER              -> "ok"
      BY DEF ExitWith
    <3> QED BY <3>1, <3>2
  <2>3. ASSUME exit = "ok"
        PROVE  /\ result = "parsed" /\ out.lines = Len(items)
               /\ summary.segments + total(state.skipped)
                     + Cardinality({k \in DOMAIN seen : seen[k].outcome.kind = "names"})
                  = Len(seen)
    <3>1. summary.segments = Len(items) /\ out.lines = Len(items)
      BY <2>1, <2>2, <2>3 DEF summary
    <3>2. Len(items) + total(state.skipped)
             + Cardinality({k \in DOMAIN seen : seen[k].outcome.kind = "names"}) = Len(seen)
      BY DEF ReadInv, Accounted, NamePackets
    <3> QED BY <2>2, <2>3, <3>1, <3>2
  <2>4. ASSUME result = "parsed", room > Len(items) PROVE exit = "ok"
    BY <2>1, <2>2, <2>4
  <2> QED BY <2>3, <2>4 DEF ParseHonest
<1>2. ReadInv /\ ReadInv' /\ ParseInv /\ [CmdNext]_cmdvars => ParseInv'
  BY ParseStep
<1> QED BY <1>1, <1>2, ParseInit, ReadInvariant, PTL DEF CmdSpec
-----------------------------------------------------------------------------
(***************************************************************************)
(* The two faucets.  While every interface has the same resolution of      *)
(* whole microseconds, the libpcap path has the baseline of the replay     *)
(* path, and the outcome of every packet.                                  *)
(***************************************************************************)
LEMMA LibInTurn ==
    ASSUME NEW base, NEW x
    PROVE  /\ FoldLeft(lib_packet, base, <<>>) = base
           /\ FoldLeft(lib_packet, base, <<x>>) = lib_packet(base, x)
<1> DEFINE Rec(g, pts) == g = [s \in SUBSET DOMAIN pts |->
                                 IF s = {} THEN base
                                 ELSE lib_packet(g[s \ {Max(s)}], pts[Max(s)])]
           it(pts) == CHOOSE g : Rec(g, pts)
<1>1. \A pts : FoldLeft(lib_packet, base, pts) = it(pts)[DOMAIN pts]
  BY Zenon DEF FoldLeft, MapThenFoldSet
<1>2. FoldLeft(lib_packet, base, <<>>) = base
  <2>1. DOMAIN <<>> = {}
    OBVIOUS
  <2> DEFINE g == [s \in SUBSET {} |-> base]
  <2>2. Rec(g, <<>>)
    BY <2>1
  <2> HIDE DEF Rec
  <2>3. Rec(it(<<>>), <<>>)
    BY <2>2, Zenon
  <2>4. it(<<>>)[{}] = base
    BY <2>1, <2>3 DEF Rec
  <2> QED BY <1>1, <2>1, <2>4
<1>3. FoldLeft(lib_packet, base, <<x>>) = lib_packet(base, x)
  <2>1. DOMAIN <<x>> = {1} /\ <<x>>[1] = x
    OBVIOUS
  <2>2. Max({1}) = 1
    <3>1. 1 .. 1 = {1} /\ {1} \in SUBSET (1 .. 1)
      OBVIOUS
    <3> QED BY <3>1, LastIndex
  <2> DEFINE g == [s \in SUBSET {1} |-> IF s = {} THEN base ELSE lib_packet(base, x)]
  <2>3. Rec(g, <<x>>)
    <3>1. \A s \in SUBSET {1} : s = {} \/ s = {1}
      OBVIOUS
    <3>2. {1} \ {1} = {} /\ {} \in SUBSET {1}
      OBVIOUS
    <3>3. g[{}] = base /\ g[{1}] = lib_packet(base, x)
      OBVIOUS
    <3>4. ASSUME NEW s \in SUBSET {1}
          PROVE  g[s] = IF s = {} THEN base ELSE lib_packet(g[s \ {Max(s)}], <<x>>[Max(s)])
      <4> HIDE DEF g
      <4>1. CASE s = {}
        BY <3>3, <4>1
      <4>2. CASE s = {1}
        BY <2>1, <2>2, <3>2, <3>3, <4>2
      <4> QED BY <3>1, <4>1, <4>2
    <3>5. g = [s \in SUBSET {1} |-> g[s]]
      OBVIOUS
    <3> HIDE DEF g
    <3> QED BY <2>1, <3>4, <3>5
  <2> HIDE DEF Rec, g
  <2>4. Rec(it(<<x>>), <<x>>)
    BY <2>3, Zenon
  <2>5. PICK f : f = it(<<x>>)
    OBVIOUS
  <2>6. f[{1}] = lib_packet(f[{1} \ {Max({1})}], <<x>>[Max({1})]) /\ f[{}] = base
    BY <2>1, <2>4, <2>5 DEF Rec
  <2>7. f[{1}] = lib_packet(base, x)
    <3>1. {1} \ {1} = {}
      OBVIOUS
    <3> QED BY <2>1, <2>2, <2>6, <3>1
  <2> QED BY <1>1, <2>1, <2>5, <2>7
<1> QED BY <1>2, <1>3

AllTimed == \A k \in DOMAIN seen : seen[k].at < U64Max

Alike == /\ seen # <<>> => lib.baseline = {seen[1].at}
         /\ \A k \in DOMAIN seen : lib.outcomes[k] = seen[k].outcome

LibInv ==
    /\ seen = <<>> => lib.baseline = {}
    /\ IsSeq(lib.outcomes) /\ Len(lib.outcomes) = Len(seen)
    /\ in_micros /\ AllTimed => Alike

\* The resolutions of a file agree no more than those of its beginning.
LEMMA FileGrows ==
    ASSUME ReadInv, [Next]_vars
    PROVE  in_micros' => in_micros
<1>1. CASE file' = file
  BY <1>1 DEF in_micros
<1>2. ASSUME NEW e, file' = Append(file, e) PROVE in_micros' => in_micros
  <2>1. IsSeq(file)
    BY DEF ReadInv, ReadTypes, IsSeq
  <2>2. PICK n \in Nat : n = Len(file) /\ DOMAIN file = 1 .. n
    BY LenProperties DEF ReadInv, ReadTypes
  <2>3. IsSeq(file') /\ Len(file') = n + 1 /\ \A i \in 1 .. n : file'[i] = file[i]
    BY <1>2, <2>1, <2>2, SeqPush
  <2>4. DOMAIN file' = 1 .. n + 1
    BY <2>3, LenProperties DEF IsSeq
  <2> SUFFICES ASSUME in_micros', NEW i \in 1 .. n
               PROVE  file[i].tick = file[1].tick /\ file[i].tick % MICRO_TICK_NS = 0
    BY <2>2 DEF in_micros
  <2>5. 1 \in 1 .. n /\ i \in 1 .. n + 1
    OBVIOUS
  <2>6. file'[i].tick = file'[1].tick /\ file'[i].tick % MICRO_TICK_NS = 0
    BY <2>4, <2>5 DEF in_micros
  <2> QED BY <2>3, <2>5, <2>6
<1>3. file' = file \/ \E e : file' = Append(file, e)
  <2>1. CASE UNCHANGED vars
    BY <2>1 DEF vars
  <2>2. ASSUME NEW dlt \in Dlt, NEW nano \in BOOLEAN, LegacyHeader(dlt, nano)
        PROVE  file' = file \/ \E e : file' = Append(file, e)
    BY <2>2 DEF LegacyHeader
  <2>3. ASSUME NEW dlt \in Dlt, NEW tps \in TicksPerSec, InterfaceDescription(dlt, tps)
        PROVE  file' = file \/ \E e : file' = Append(file, e)
    BY <2>3 DEF InterfaceDescription
  <2>4. ASSUME NEW pkt \in Packets, NEW n \in Snaplens, NEW t \in Ticks,
               \/ \E sec \in {0, 1} : Legacy(sec, t, pkt, n)
               \/ \E i \in DOMAIN file : EnhancedPacket(i, t, pkt, n)
               \/ OrphanPacket(t, pkt, n)
        PROVE  file' = file
    BY <2>4 DEF Legacy, EnhancedPacket, OrphanPacket
  <2>5. CASE (\E packets \in {0, 1} : OtherBlock(packets)) \/ OpenError \/ EndOfFile \/ ReadError
    BY <2>5 DEF OtherBlock, OpenError, EndOfFile, ReadError
  <2> QED BY <2>1, <2>2, <2>3, <2>4, <2>5 DEF Next
<1> QED BY <1>1, <1>2, <1>3

\* A packet that the two paths stamp alike is decoded alike.
LEMMA LibPacket ==
    ASSUME NEW s, DecodedAs(s), WholeMicros(s.at), NEW b \in Nat,
           s.ts = saturating_sub(s.at, b), NEW l, l.baseline = {} => b = s.at,
           l.baseline = {} \/ l.baseline = {b}
    PROVE  lib_packet(l, s) = [baseline |-> {b}, outcomes |-> Append(l.outcomes, s.outcome)]
<1>1. PICK t \in Nat : t = s.at
  BY DEF DecodedAs
<1>2. (t \div MICRO_TICK_NS) * MICRO_TICK_NS = t
  BY <1>1 DEF WholeMicros
<1>3. lib_baseline(l, t, s) = {b}
  BY <1>1 DEF lib_baseline
<1>4. saturating_sub(t, Min({b} \cup {t})) = saturating_sub(t, b)
  <2>1. {b} \cup {t} \subseteq Nat /\ {b} \cup {t} # {}
    OBVIOUS
  <2>2. Min({b} \cup {t}) \in {b} \cup {t} /\ \A y \in {b} \cup {t} : Min({b} \cup {t}) <= y
    BY <2>1, MinIsLeast
  <2>3. PICK m \in Nat : m = Min({b} \cup {t}) /\ (m = b \/ m = t) /\ m <= b /\ m <= t
    BY <2>2
  <2> QED BY <2>3 DEF saturating_sub
<1>5. decode_frame(s.link, saturating_sub(t, b), s.frame) = s.outcome
  BY <1>1 DEF DecodedAs
<1> QED BY <1>1, <1>2, <1>3, <1>4, <1>5 DEF lib_packet

LEMMA LibStep ==
    ASSUME ReadInv, ReadInv', LibInv, [CmdNext]_cmdvars
    PROVE  LibInv'
<1>1. in_micros' => in_micros
  BY FileGrows, CmdStepReads
<1>2. CASE seen' = seen /\ lib' = lib
  <2>1. (seen' = <<>> => lib'.baseline = {}) /\ IsSeq(lib'.outcomes) /\ Len(lib'.outcomes) = Len(seen')
    BY <1>2 DEF LibInv
  <2>2. ASSUME in_micros', AllTimed' PROVE Alike'
    <3>1. AllTimed
      BY <1>2, <2>2 DEF AllTimed
    <3>2. Alike
      BY <1>1, <2>2, <3>1 DEF LibInv
    <3> QED BY <1>2, <3>2 DEF Alike
  <2> QED BY <2>1, <2>2 DEF LibInv
<1>3. ASSUME NEW e, seen' = Append(seen, e), lib' = lib_packet(lib, e) PROVE LibInv'
  <2>1. IsSeq(seen) /\ IsSeq(lib.outcomes) /\ Len(lib.outcomes) = Len(seen)
    BY DEF ReadInv, ReadTypes, LibInv
  <2>2. PICK n \in Nat : n = Len(seen) /\ DOMAIN seen = 1 .. n
    BY <2>1, LenProperties DEF IsSeq
  <2>3. /\ IsSeq(seen') /\ Len(seen') = n + 1 /\ seen' # <<>> /\ seen'[n + 1] = e
        /\ \A i \in 1 .. n : seen'[i] = seen[i]
    BY <1>3, <2>1, <2>2, SeqPush
  <2>4. DOMAIN seen' = 1 .. n + 1 /\ 1 .. n + 1 = (1 .. n) \cup {n + 1} /\ 1 \in 1 .. n + 1
    BY <2>3, LenProperties DEF IsSeq
  <2>5. IsSeq(lib'.outcomes) /\ Len(lib'.outcomes) = n + 1
    <3>1. PICK o : lib'.outcomes = Append(lib.outcomes, o)
      BY <1>3 DEF lib_packet
    <3> QED BY <2>1, <2>2, <3>1, SeqPush
  <2>6. ASSUME in_micros', AllTimed' PROVE Alike'
    <3>1. in_micros /\ AllTimed
      BY <1>1, <2>2, <2>3, <2>4, <2>6 DEF AllTimed
    <3>2. Alike
      BY <3>1 DEF LibInv
    <3>3. DecodedAs(e) /\ e.at < U64Max
      <4>1. DecodedAs(seen'[n + 1])
        BY <2>4 DEF ReadInv, Decoded, DecodedAs
      <4> QED BY <2>3, <2>4, <2>6, <4>1 DEF AllTimed
    <3>4. WholeMicros(e.at)
      BY <2>3, <2>4, <2>6, <3>3 DEF ReadInv, MicrosKept, WholeMicros
    <3>5. SameTick'
      BY <2>6 DEF in_micros, SameTick
    <3>6. e.ts = saturating_sub(e.at, seen'[1].at)
      <4>1. seen'[n + 1].ts = saturating_sub(seen'[n + 1].at, seen'[1].at)
        BY <2>4, <3>5 DEF ReadInv, Timed, Faithful, saturating_sub
      <4> QED BY <2>3, <4>1
    <3>7. PICK b \in Nat : b = seen'[1].at
      BY <2>4 DEF ReadInv, Decoded, DecodedAs
    <3>8. /\ lib.baseline = {} => b = e.at
          /\ lib.baseline = {} \/ lib.baseline = {b}
      <4>1. CASE seen = <<>>
        <5>1. n = 0
          BY <2>2, <4>1
        <5> QED BY <2>3, <3>7, <4>1, <5>1 DEF LibInv
      <4>2. CASE seen # <<>>
        <5>1. n # 0
          BY <2>1, <2>2, <4>2, EmptySeq DEF IsSeq
        <5>2. 1 \in 1 .. n
          BY <5>1
        <5> QED BY <2>3, <3>2, <3>7, <4>2, <5>2 DEF Alike
      <4> QED BY <4>1, <4>2
    <3>9. lib' = [baseline |-> {b}, outcomes |-> Append(lib.outcomes, e.outcome)]
      BY <1>3, <3>3, <3>4, <3>6, <3>7, <3>8, LibPacket
    <3>10. /\ lib'.baseline = {b} /\ lib'.outcomes = Append(lib.outcomes, e.outcome)
      BY <3>9
    <3>11. /\ lib'.outcomes[n + 1] = e.outcome
           /\ \A i \in 1 .. n : lib'.outcomes[i] = lib.outcomes[i]
      BY <2>1, <2>2, <3>10, SeqPush
    <3>12. \A k \in 1 .. n : lib'.outcomes[k] = seen'[k].outcome
      BY <2>2, <2>3, <3>2, <3>11 DEF Alike
    <3>13. \A k \in 1 .. n + 1 : lib'.outcomes[k] = seen'[k].outcome
      BY <2>3, <2>4, <3>11, <3>12
    <3> QED BY <2>4, <3>7, <3>10, <3>13 DEF Alike
  <2> QED BY <2>3, <2>5, <2>6 DEF LibInv
<1>4. CASE UNCHANGED cmdvars
  BY <1>2, <1>4 DEF cmdvars, vars
<1>5. CASE CmdNext
  <2>1. Sinks /\ lib' = FoldLeft(lib_packet, lib, added(seen, seen')) /\ IsSeq(seen)
    BY <1>5, StepSinks DEF CmdNext, Libpcap, ReadInv, ReadTypes
  <2>2. CASE seen' = seen
    <3>1. added(seen, seen') = <<>>
      BY <2>1, <2>2, Added
    <3> QED BY <1>2, <2>1, <2>2, <3>1, LibInTurn
  <2>3. ASSUME NEW e, seen' = Append(seen, e) PROVE LibInv'
    <3>1. added(seen, seen') = <<e>>
      BY <2>1, <2>3, Added
    <3>2. lib' = lib_packet(lib, e)
      BY <2>1, <3>1, LibInTurn
    <3> QED BY <1>3, <2>3, <3>2
  <2> QED BY <2>1, <2>2, <2>3 DEF Sinks
<1> QED BY <1>4, <1>5

\* The libpcap path yields the outcomes of the replay path, packet by packet, for every file of one
\* resolution of whole microseconds (libpcap.rs parse_file_libpcap, tests/parity.rs).
THEOREM FaucetsAgree == CmdSpec => []FaucetParity
<1>1. CmdInit => LibInv
  <2> SUFFICES ASSUME CmdInit PROVE LibInv
    OBVIOUS
  <2>1. seen = <<>> /\ lib.baseline = {} /\ lib.outcomes = <<>>
    BY DEF CmdInit, Init
  <2>2. IsSeq(lib.outcomes) /\ DOMAIN seen = {}
    BY <2>1, EmptySeq DEF IsSeq
  <2> QED BY <2>1, <2>2 DEF LibInv, Alike
<1>2. ReadInv /\ LibInv => FaucetParity
  <2> SUFFICES ASSUME ReadInv, LibInv, in_micros, AllTimed
               PROVE  lib.outcomes = [k \in DOMAIN seen |-> seen[k].outcome]
    BY DEF FaucetParity, AllTimed
  <2>1. Alike
    BY DEF LibInv
  <2>2. IsSeq(lib.outcomes) /\ IsSeq(seen) /\ Len(lib.outcomes) = Len(seen)
    BY DEF LibInv, ReadInv, ReadTypes
  <2>3. PICK T, U : lib.outcomes \in Seq(T) /\ seen \in Seq(U)
    BY <2>2 DEF IsSeq
  <2>4. PICK o : o = lib.outcomes
    OBVIOUS
  <2>5. /\ o = [k \in 1 .. Len(o) |-> o[k]] /\ DOMAIN o = 1 .. Len(o) /\ DOMAIN seen = 1 .. Len(seen)
    BY <2>3, <2>4, LenProperties
  <2>6. DOMAIN o = DOMAIN seen
    BY <2>2, <2>4, <2>5
  <2>7. \A k \in DOMAIN seen : o[k] = seen[k].outcome
    BY <2>1, <2>4 DEF Alike
  <2> QED BY <2>4, <2>5, <2>6, <2>7
<1>3. ReadInv /\ ReadInv' /\ LibInv /\ [CmdNext]_cmdvars => LibInv'
  BY LibStep
<1> QED BY <1>1, <1>2, <1>3, ReadInvariant, PTL DEF CmdSpec
-----------------------------------------------------------------------------
(***************************************************************************)
(* The name table after the first m observations of ns.                    *)
(***************************************************************************)
observe_all(base, pts) == FoldLeft(names_observe, base, pts)

Observed(acc, base, pts) ==
    /\ acc[0] = base
    /\ acc[Len(pts)] = observe_all(base, pts)
    /\ \A k \in 0 .. Len(pts) - 1 : acc[k + 1] = names_observe(acc[k], pts[k + 1])

LEMMA NamesInTurn ==
    ASSUME NEW base, NEW pts, IsSeq(pts)
    PROVE  \E acc : Observed(acc, base, pts)
<1> DEFINE Body(g, s) == IF s = {} THEN base ELSE names_observe(g[s \ {Max(s)}], pts[Max(s)])
           Folds(g, k) == g = [s \in SUBSET (1 .. k) |-> Body(g, s)]
           S == {k \in Nat : \E g : Folds(g, k)}
<1>0. PICK n \in Nat : n = Len(pts) /\ DOMAIN pts = 1 .. n
  BY LenProperties DEF IsSeq
<1>1. 0 \in S
  <2> DEFINE g == [s \in SUBSET (1 .. 0) |-> base]
  <2>1. \A s \in SUBSET (1 .. 0) : s = {}
    OBVIOUS
  <2>2. Folds(g, 0)
    BY <2>1
  <2> QED BY <2>2
<1>2. ASSUME NEW k \in Nat, k \in S PROVE k + 1 \in S
  <2>1. PICK g : Folds(g, k)
    BY <1>2
  <2> DEFINE h == [s \in SUBSET (1 .. k + 1) |->
                      IF k + 1 \in s THEN names_observe(g[s \ {k + 1}], pts[k + 1]) ELSE g[s]]
  <2>2. ASSUME NEW s \in SUBSET (1 .. k + 1) PROVE h[s] = Body(h, s)
    <3>1. CASE k + 1 \in s
      <4>1. Max(s) = k + 1
        BY <3>1, LastIndex
      <4>2. s \ {k + 1} \in SUBSET (1 .. k + 1) /\ k + 1 \notin s \ {k + 1}
        OBVIOUS
      <4>3. h[s \ {k + 1}] = g[s \ {k + 1}]
        BY <4>2
      <4>4. h[s] = names_observe(g[s \ {k + 1}], pts[k + 1])
        BY <3>1
      <4> HIDE DEF h
      <4> QED BY <3>1, <4>1, <4>3, <4>4
    <3>2. CASE k + 1 \notin s
      <4>1. s \in SUBSET (1 .. k)
        BY <3>2
      <4>2. h[s] = g[s] /\ g[s] = Body(g, s)
        BY <2>1, <3>2, <4>1
      <4>3. CASE s = {}
        BY <4>2, <4>3
      <4>4. CASE s # {}
        <5>1. s \ {Max(s)} \in SUBSET (1 .. k + 1) /\ k + 1 \notin s \ {Max(s)}
          BY <3>2
        <5>2. h[s \ {Max(s)}] = g[s \ {Max(s)}]
          BY <5>1
        <5> HIDE DEF h
        <5> QED BY <4>2, <4>4, <5>2
      <4> QED BY <4>3, <4>4
    <3> QED BY <3>1, <3>2
  <2>3. Folds(h, k + 1)
    <3>1. DOMAIN h = SUBSET (1 .. k + 1) /\ h = [s \in DOMAIN h |-> h[s]]
      OBVIOUS
    <3> HIDE DEF h, Body
    <3> QED BY <2>2, <3>1
  <2> HIDE DEF h, Folds
  <2> QED BY <2>3
<1>3. PICK fold : Folds(fold, n) /\ fold[1 .. n] = observe_all(base, pts)
  <2>1. n \in S
    <3> HIDE DEF S
    <3> QED BY <1>1, <1>2, SetInduction
  <2> DEFINE fold == CHOOSE g : Folds(g, n)
  <2>2. observe_all(base, pts) = fold[1 .. n]
    BY <1>0, Zenon DEF observe_all, FoldLeft, MapThenFoldSet
  <2> HIDE DEF Folds
  <2>3. Folds(fold, n)
    BY <2>1
  <2> QED BY <2>2, <2>3
<1> DEFINE acc == [k \in 0 .. n |-> fold[1 .. k]]
<1>4. acc[0] = base
  <2>1. 1 .. 0 = {} /\ {} \in SUBSET (1 .. n) /\ 0 \in 0 .. n
    OBVIOUS
  <2> QED BY <1>3, <2>1
<1>5. ASSUME NEW k \in 0 .. n - 1 PROVE acc[k + 1] = names_observe(acc[k], pts[k + 1])
  <2>1. /\ 1 .. k + 1 \in SUBSET (1 .. n) /\ 1 .. k + 1 # {} /\ k + 1 \in Nat
        /\ (1 .. k + 1) \ {k + 1} = 1 .. k /\ k \in 0 .. n /\ k + 1 \in 0 .. n
        /\ k + 1 \in 1 .. k + 1
    BY <1>0, NextPrefix
  <2>2. Max(1 .. k + 1) = k + 1
    BY <2>1, LastIndex
  <2>3. fold[1 .. k + 1] = Body(fold, 1 .. k + 1)
    BY <1>3, <2>1
  <2>4. fold[1 .. k + 1] = names_observe(fold[1 .. k], pts[k + 1])
    BY <2>1, <2>2, <2>3
  <2> QED BY <2>1, <2>4
<1>6. acc[n] = observe_all(base, pts)
  <2>1. n \in 0 .. n
    OBVIOUS
  <2> QED BY <1>3, <2>1
<1> QED BY <1>0, <1>4, <1>5, <1>6 DEF Observed


Heard(ns, k) == {ns[j].ip : j \in 1 .. k}

Latest(ns, m, k) ==
    \A j \in 1 .. m : ns[j].ip = ns[k].ip =>
        ns[j].ts < ns[k].ts \/ (ns[j].ts = ns[k].ts /\ j <= k)

Unheld(H, ns, m) == {k \in 1 .. m : ns[k].ip \notin H}

Slot(ns, k) == [ts |-> ns[k].ts, name |-> ns[k].name]

\* Of the IPs held, in the set H: there is room for another only if all that were heard are held,
\* and they are those heard while there were no more than the cap.
HeldFirst(H, ns, m) ==
    /\ IsFiniteSet(H) /\ Cardinality(H) <= NameCap
    /\ Unheld(H, ns, m) # {} => Cardinality(H) >= NameCap
    /\ \A j \in 1 .. m : Cardinality(Heard(ns, j)) <= NameCap => ns[j].ip \in H
    /\ \A ip \in H : \E j \in 1 .. m : ns[j].ip = ip /\ Cardinality(Heard(ns, j)) <= NameCap

Newest(f, ns, m) ==
    \A ip \in DOMAIN f : \E k \in 1 .. m : ns[k].ip = ip /\ Latest(ns, m, k) /\ f[ip] = Slot(ns, k)

Holds(f, d, ns, m) ==
    /\ f = [ip \in DOMAIN f |-> f[ip]]
    /\ HeldFirst(DOMAIN f, ns, m)
    /\ Newest(f, ns, m)
    /\ d = Cardinality(Unheld(DOMAIN f, ns, m)) /\ d \in Nat

Tabled(nt, ns, m) == \E f, d : nt = [by_ip |-> f, dropped |-> d] /\ Holds(f, d, ns, m)

LEMMA HeardFinite ==
    ASSUME NEW ns, NEW k \in Nat
    PROVE  IsFiniteSet(Heard(ns, k)) /\ Cardinality(Heard(ns, k)) \in Nat
<1> DEFINE f == [i \in 1 .. k |-> ns[i].ip]
<1>1. IsFiniteSet(1 .. k)
  BY IndicesFinite
<1>2. f \in Surjection(1 .. k, Heard(ns, k))
  BY DEF Surjection, Heard
<1> HIDE DEF f
<1> QED BY <1>1, <1>2, FS_Surjection, FS_CardinalityType

LEMMA UnheldFinite ==
    ASSUME NEW H, NEW ns, NEW m \in Nat
    PROVE  IsFiniteSet(Unheld(H, ns, m))
<1>1. IsFiniteSet(1 .. m) /\ Unheld(H, ns, m) \in SUBSET (1 .. m)
  BY IndicesFinite DEF Unheld
<1> QED BY <1>1, FS_Subset

\* What the next observation changes of the sets above.
LEMMA NextHeard ==
    ASSUME NEW ns, NEW m \in Nat, NEW H
    PROVE  /\ 1 .. m + 1 = (1 .. m) \cup {m + 1} /\ m + 1 \notin 1 .. m
           /\ Heard(ns, m + 1) = Heard(ns, m) \cup {ns[m + 1].ip}
           /\ ns[m + 1].ip \in H => Unheld(H, ns, m + 1) = Unheld(H, ns, m)
           /\ ns[m + 1].ip \notin H => Unheld(H, ns, m + 1) = Unheld(H, ns, m) \cup {m + 1}
           /\ m + 1 \notin Unheld(H, ns, m)
<1>1. 1 .. m + 1 = (1 .. m) \cup {m + 1} /\ m + 1 \notin 1 .. m
  OBVIOUS
<1> QED BY <1>1 DEF Heard, Unheld

\* An IP not held, with the table full: it is counted, and never to be held.
LEMMA ObserveRefused ==
    ASSUME NEW ns, NEW m \in Nat, NEW f, NEW d, Holds(f, d, ns, m),
           ns[m + 1].ip \notin DOMAIN f, Cardinality(DOMAIN f) >= NameCap
    PROVE  Holds(f, d + 1, ns, m + 1)
<1>1. PICK H, x : H = DOMAIN f /\ x = ns[m + 1].ip /\ x \notin H
  OBVIOUS
<1>2. /\ f = [ip \in DOMAIN f |-> f[ip]] /\ HeldFirst(H, ns, m) /\ Newest(f, ns, m)
      /\ d = Cardinality(Unheld(H, ns, m)) /\ d \in Nat
  BY <1>1 DEF Holds
<1>3. PICK c \in Nat : c = Cardinality(H) /\ c = NameCap /\ IsFiniteSet(H)
  <2>1. IsFiniteSet(H) /\ Cardinality(H) <= NameCap
    BY <1>2 DEF HeldFirst
  <2>2. Cardinality(H) \in Nat
    BY <2>1, FS_CardinalityType
  <2> QED BY <1>1, <2>1, <2>2, NameTableAssumption
<1>4. /\ 1 .. m + 1 = (1 .. m) \cup {m + 1} /\ m + 1 \notin 1 .. m
      /\ Heard(ns, m + 1) = Heard(ns, m) \cup {x}
      /\ Unheld(H, ns, m + 1) = Unheld(H, ns, m) \cup {m + 1} /\ m + 1 \notin Unheld(H, ns, m)
  BY <1>1, NextHeard
<1>5. ~(Cardinality(Heard(ns, m + 1)) <= NameCap)
  <2>1. H \cup {x} \in SUBSET Heard(ns, m + 1)
    <3>1. \A ip \in H : ip \in Heard(ns, m)
      BY <1>2 DEF HeldFirst, Heard
    <3> QED BY <1>4, <3>1
  <2>2. Cardinality(H \cup {x}) = c + 1
    <3>1. Cardinality(H \cup {x}) = Cardinality(H) + 1
      BY <1>1, <1>3, FS_AddElement
    <3> QED BY <1>3, <3>1
  <2>3. PICK h \in Nat : h = Cardinality(Heard(ns, m + 1)) /\ IsFiniteSet(Heard(ns, m + 1))
    BY HeardFinite
  <2>4. c + 1 <= h
    BY <2>1, <2>2, <2>3, FS_Subset
  <2> QED BY <1>3, <2>3, <2>4
<1>6. HeldFirst(H, ns, m + 1)
  <2>1. \A j \in 1 .. m + 1 : Cardinality(Heard(ns, j)) <= NameCap => ns[j].ip \in H
    BY <1>2, <1>4, <1>5 DEF HeldFirst
  <2>2. \A ip \in H : \E j \in 1 .. m + 1 : ns[j].ip = ip /\ Cardinality(Heard(ns, j)) <= NameCap
    BY <1>2, <1>4 DEF HeldFirst
  <2> QED BY <1>1, <1>2, <2>1, <2>2 DEF HeldFirst
<1>7. Newest(f, ns, m + 1)
  <2> SUFFICES ASSUME NEW ip \in DOMAIN f
               PROVE  \E k \in 1 .. m + 1 : /\ ns[k].ip = ip /\ Latest(ns, m + 1, k)
                                            /\ f[ip] = Slot(ns, k)
    BY DEF Newest
  <2>1. PICK k \in 1 .. m : ns[k].ip = ip /\ Latest(ns, m, k) /\ f[ip] = Slot(ns, k)
    BY <1>2 DEF Newest
  <2>2. Latest(ns, m + 1, k)
    BY <1>1, <1>4, <2>1 DEF Latest
  <2> QED BY <1>4, <2>1, <2>2
<1>8. d + 1 = Cardinality(Unheld(H, ns, m + 1)) /\ d + 1 \in Nat
  <2>1. IsFiniteSet(Unheld(H, ns, m))
    BY UnheldFinite
  <2>2. Cardinality(Unheld(H, ns, m) \cup {m + 1}) = Cardinality(Unheld(H, ns, m)) + 1
    BY <1>4, <2>1, FS_AddElement
  <2> QED BY <1>2, <1>4, <2>2
<1> QED BY <1>1, <1>2, <1>6, <1>7, <1>8 DEF Holds

\* An IP not held, with room: everything heard is held, so it is new and takes its place.
LEMMA ObserveNew ==
    ASSUME NEW ns, NEW m \in Nat, NEW f, NEW d, Holds(f, d, ns, m),
           ns[m + 1].ip \notin DOMAIN f, ~(Cardinality(DOMAIN f) >= NameCap), NEW g,
           DOMAIN g = DOMAIN f \cup {ns[m + 1].ip}, g = [ip \in DOMAIN g |-> g[ip]],
           \A ip \in DOMAIN f : g[ip] = f[ip], g[ns[m + 1].ip] = Slot(ns, m + 1)
    PROVE  Holds(g, d, ns, m + 1)
<1>1. PICK H, G, x : H = DOMAIN f /\ x = ns[m + 1].ip /\ x \notin H /\ G = H \cup {x} /\ G = DOMAIN g
  OBVIOUS
<1>2. /\ HeldFirst(H, ns, m) /\ Newest(f, ns, m)
      /\ d = Cardinality(Unheld(H, ns, m)) /\ d \in Nat
  BY <1>1 DEF Holds
<1>3. PICK c \in Nat : c = Cardinality(H) /\ c < NameCap /\ IsFiniteSet(H)
  <2>1. IsFiniteSet(H) /\ Cardinality(H) <= NameCap
    BY <1>2 DEF HeldFirst
  <2>2. Cardinality(H) \in Nat
    BY <2>1, FS_CardinalityType
  <2> QED BY <1>1, <2>1, <2>2, NameTableAssumption
<1>4. /\ 1 .. m + 1 = (1 .. m) \cup {m + 1} /\ m + 1 \notin 1 .. m
      /\ Heard(ns, m + 1) = Heard(ns, m) \cup {x}
      /\ Unheld(G, ns, m + 1) = Unheld(G, ns, m)
  BY <1>1, NextHeard
<1>5. Unheld(H, ns, m) = {} /\ Unheld(G, ns, m) = {}
  BY <1>1, <1>2, <1>3, NameTableAssumption DEF HeldFirst, Unheld
<1>6. \A j \in 1 .. m : ns[j].ip \in H
  BY <1>5 DEF Unheld
<1>7. Heard(ns, m) = H
  BY <1>2, <1>6, ZenonT(40) DEF HeldFirst, Heard
<1>8. IsFiniteSet(G) /\ Cardinality(G) = c + 1
  <2>1. IsFiniteSet(H \cup {x}) /\ Cardinality(H \cup {x}) = Cardinality(H) + 1
    BY <1>1, <1>3, FS_AddElement
  <2> QED BY <1>1, <1>3, <2>1
<1>9. HeldFirst(G, ns, m + 1)
  <2>1. Cardinality(G) <= NameCap /\ Cardinality(Heard(ns, m + 1)) <= NameCap
    BY <1>1, <1>3, <1>4, <1>7, <1>8, NameTableAssumption
  <2>2. \A j \in 1 .. m + 1 : Cardinality(Heard(ns, j)) <= NameCap => ns[j].ip \in G
    BY <1>1, <1>4, <1>6
  <2>3. \A ip \in G : \E j \in 1 .. m + 1 : ns[j].ip = ip /\ Cardinality(Heard(ns, j)) <= NameCap
    <3>1. \A ip \in H : \E j \in 1 .. m : ns[j].ip = ip /\ Cardinality(Heard(ns, j)) <= NameCap
      BY <1>2 DEF HeldFirst
    <3> QED BY <1>1, <1>4, <2>1, <3>1
  <2> QED BY <1>4, <1>5, <1>8, <2>1, <2>2, <2>3 DEF HeldFirst
<1>10. Newest(g, ns, m + 1)
  <2> SUFFICES ASSUME NEW ip \in G
               PROVE  \E k \in 1 .. m + 1 : /\ ns[k].ip = ip /\ Latest(ns, m + 1, k)
                                            /\ g[ip] = Slot(ns, k)
    BY <1>1 DEF Newest
  <2>1. CASE ip \in H
    <3>1. PICK k \in 1 .. m : ns[k].ip = ip /\ Latest(ns, m, k) /\ f[ip] = Slot(ns, k)
      BY <1>1, <1>2, <2>1 DEF Newest
    <3>2. Latest(ns, m + 1, k)
      BY <1>1, <1>4, <2>1, <3>1 DEF Latest
    <3> QED BY <1>1, <1>4, <2>1, <3>1, <3>2
  <2>2. CASE ip = x
    <3>1. \A j \in 1 .. m : ns[j].ip # x
      BY <1>1, <1>6
    <3>2. m + 1 <= m + 1
      OBVIOUS
    <3>3. Latest(ns, m + 1, m + 1)
      BY <1>1, <1>4, <3>1, <3>2 DEF Latest
    <3> QED BY <1>1, <1>4, <2>2, <3>3
  <2> QED BY <1>1, <2>1, <2>2
<1>11. d = Cardinality(Unheld(G, ns, m + 1))
  BY <1>2, <1>4, <1>5
<1> QED BY <1>1, <1>2, <1>9, <1>10, <1>11 DEF Holds

\* An IP that is held: the later of the two names, the new one of equals.
LEMMA ObserveHeld ==
    ASSUME NEW ns, NEW m \in Nat, \A i \in 1 .. m + 1 : ns[i].ts \in Nat,
           NEW f, NEW d, Holds(f, d, ns, m),
           ns[m + 1].ip \in DOMAIN f, NEW g, DOMAIN g = DOMAIN f, g = [ip \in DOMAIN g |-> g[ip]],
           \A ip \in DOMAIN f : ip # ns[m + 1].ip => g[ip] = f[ip],
           \A t \in Nat : t = f[ns[m + 1].ip].ts =>
               g[ns[m + 1].ip] = IF ns[m + 1].ts >= t THEN Slot(ns, m + 1) ELSE f[ns[m + 1].ip]
    PROVE  Holds(g, d, ns, m + 1)
<1>1. PICK H, x : H = DOMAIN f /\ x = ns[m + 1].ip /\ x \in H /\ H = DOMAIN g
  OBVIOUS
<1>2. /\ HeldFirst(H, ns, m) /\ Newest(f, ns, m)
      /\ d = Cardinality(Unheld(H, ns, m)) /\ d \in Nat
  BY <1>1 DEF Holds
<1>4. /\ 1 .. m + 1 = (1 .. m) \cup {m + 1} /\ m + 1 \notin 1 .. m
      /\ Unheld(H, ns, m + 1) = Unheld(H, ns, m)
  BY <1>1, NextHeard
<1>5. HeldFirst(H, ns, m + 1)
  <2>1. \A j \in 1 .. m + 1 : Cardinality(Heard(ns, j)) <= NameCap => ns[j].ip \in H
    BY <1>1, <1>2, <1>4 DEF HeldFirst
  <2>2. \A ip \in H : \E j \in 1 .. m + 1 : ns[j].ip = ip /\ Cardinality(Heard(ns, j)) <= NameCap
    BY <1>2, <1>4 DEF HeldFirst
  <2> QED BY <1>2, <1>4, <2>1, <2>2 DEF HeldFirst
<1>6. Newest(g, ns, m + 1)
  <2> SUFFICES ASSUME NEW ip \in H
               PROVE  \E k \in 1 .. m + 1 : /\ ns[k].ip = ip /\ Latest(ns, m + 1, k)
                                            /\ g[ip] = Slot(ns, k)
    BY <1>1 DEF Newest
  <2>1. PICK k \in 1 .. m : ns[k].ip = ip /\ Latest(ns, m, k) /\ f[ip] = Slot(ns, k)
    BY <1>1, <1>2 DEF Newest
  <2>2. CASE ip # x
    <3>1. Latest(ns, m + 1, k)
      BY <1>1, <1>4, <2>1, <2>2 DEF Latest
    <3> QED BY <1>1, <1>4, <2>1, <2>2, <3>1
  <2>3. CASE ip = x
    <3>1. PICK t \in Nat, u \in Nat : t = ns[k].ts /\ u = ns[m + 1].ts
      BY <1>4
    <3>2. t = f[x].ts
      BY <2>1, <2>3, <3>1 DEF Slot
    <3>3. g[x] = IF u >= t THEN Slot(ns, m + 1) ELSE f[x]
      BY <1>1, <3>1, <3>2
    <3>4. CASE u >= t
      <4>1. ASSUME NEW j \in 1 .. m, ns[j].ip = x
            PROVE  ns[j].ts < u \/ (ns[j].ts = u /\ j <= m + 1)
        <5>1. PICK v \in Nat : v = ns[j].ts
          BY <1>4
        <5>2. v < t \/ v = t
          BY <2>1, <2>3, <3>1, <4>1, <5>1 DEF Latest
        <5> QED BY <3>4, <5>1, <5>2
      <4>2. m + 1 <= m + 1
        OBVIOUS
      <4>3. Latest(ns, m + 1, m + 1)
        BY <1>1, <1>4, <3>1, <4>1, <4>2 DEF Latest
      <4> QED BY <1>1, <1>4, <2>3, <3>3, <3>4, <4>3
    <3>5. CASE ~(u >= t)
      <4>1. u < t
        BY <3>5
      <4>2. Latest(ns, m + 1, k)
        BY <1>1, <1>4, <2>1, <2>3, <3>1, <4>1 DEF Latest
      <4> QED BY <1>4, <2>1, <2>3, <3>3, <3>5, <4>2
    <3> QED BY <3>4, <3>5
  <2> QED BY <2>2, <2>3
<1> QED BY <1>1, <1>2, <1>4, <1>5, <1>6 DEF Holds
LEMMA ObserveTabled ==
    ASSUME NEW ns, NEW m \in Nat, \A i \in 1 .. m + 1 : ns[i].ts \in Nat, NEW nt, Tabled(nt, ns, m)
    PROVE  Tabled(names_observe(nt, ns[m + 1]), ns, m + 1)
<1>1. PICK f, d : nt = [by_ip |-> f, dropped |-> d] /\ Holds(f, d, ns, m)
  BY DEF Tabled
<1>2. PICK o, x : o = ns[m + 1] /\ x = o.ip
  OBVIOUS
<1>3. PICK s : s = [ts |-> o.ts, name |-> o.name] /\ s = Slot(ns, m + 1)
  BY <1>2 DEF Slot
<1>4. nt.by_ip = f /\ nt.dropped = d /\ held(nt) = DOMAIN f
  BY <1>1 DEF held
<1>5. f = [ip \in DOMAIN f |-> f[ip]] /\ Newest(f, ns, m)
  BY <1>1 DEF Holds
<1>6. CASE x \notin DOMAIN f /\ Cardinality(DOMAIN f) >= NameCap
  <2>1. names_observe(nt, o) = [nt EXCEPT !.dropped = @ + 1]
    BY <1>2, <1>4, <1>6 DEF names_observe, refused
  <2>2. names_observe(nt, o) = [by_ip |-> f, dropped |-> d + 1]
    BY <1>1, <2>1
  <2>3. Holds(f, d + 1, ns, m + 1)
    BY <1>1, <1>2, <1>6, ObserveRefused
  <2> QED BY <1>2, <2>2, <2>3 DEF Tabled
<1>7. CASE x \notin DOMAIN f /\ ~(Cardinality(DOMAIN f) >= NameCap)
  <2>1. PICK g : g = [i \in DOMAIN f \cup {x} |-> IF i = x THEN s ELSE f[i]]
    OBVIOUS
  <2>2. names_observe(nt, o) = [nt EXCEPT !.by_ip = g]
    BY <1>2, <1>3, <1>4, <1>7, <2>1 DEF names_observe, refused
  <2>3. names_observe(nt, o) = [by_ip |-> g, dropped |-> d]
    BY <1>1, <2>2
  <2>4. /\ DOMAIN g = DOMAIN f \cup {x} /\ g = [ip \in DOMAIN g |-> g[ip]]
        /\ \A ip \in DOMAIN f : g[ip] = f[ip]
        /\ g[x] = s
    BY <1>7, <2>1
  <2>5. Holds(g, d, ns, m + 1)
    BY <1>1, <1>2, <1>3, <1>7, <2>4, ObserveNew
  <2> QED BY <1>2, <2>3, <2>5 DEF Tabled
<1>8. CASE x \in DOMAIN f
  <2>1. PICK t : t = f[x].ts
    OBVIOUS
  <2>2. PICK g : g = IF o.ts >= t THEN [f EXCEPT ![x] = s] ELSE f
    OBVIOUS
  <2>3. names_observe(nt, o) = [by_ip |-> g, dropped |-> d]
    <3>1. supersedes(o, nt.by_ip[o.ip]) <=> o.ts >= t
      BY <1>2, <1>4, <2>1 DEF supersedes
    <3>2. CASE o.ts >= t
      <4>1. names_observe(nt, o) = [nt EXCEPT !.by_ip[x] = s]
        BY <1>2, <1>3, <1>4, <1>8, <3>1, <3>2 DEF names_observe, refused
      <4> QED BY <1>1, <2>2, <3>2, <4>1
    <3>3. CASE ~(o.ts >= t)
      <4>1. names_observe(nt, o) = nt
        BY <1>2, <1>4, <1>8, <3>1, <3>3 DEF names_observe, refused
      <4> QED BY <1>1, <2>2, <3>3, <4>1
    <3> QED BY <3>2, <3>3
  <2>4. /\ DOMAIN g = DOMAIN f /\ g = [ip \in DOMAIN g |-> g[ip]]
        /\ \A ip \in DOMAIN f : ip # x => g[ip] = f[ip]
        /\ g[x] = IF o.ts >= t THEN s ELSE f[x]
    BY <1>5, <1>8, <2>2
  <2>5. Holds(g, d, ns, m + 1)
    <3>1. \A y \in Nat : y = f[x].ts => g[x] = IF o.ts >= y THEN s ELSE f[x]
      BY <2>1, <2>4
    <3> QED BY <1>1, <1>2, <1>3, <1>8, <2>4, <3>1, ObserveHeld
  <2> QED BY <1>2, <2>3, <2>5 DEF Tabled
<1> QED BY <1>6, <1>7, <1>8

\* The table depends on the observations so far only.
LEMMA TabledPrefix ==
    ASSUME NEW ns, NEW ms, NEW m \in Nat, NEW nt, Tabled(nt, ns, m),
           \A i \in 1 .. m : ms[i] = ns[i]
    PROVE  Tabled(nt, ms, m)
<1>1. PICK f, d : nt = [by_ip |-> f, dropped |-> d] /\ Holds(f, d, ns, m)
  BY DEF Tabled
<1>2. \A k \in 1 .. m : Heard(ms, k) = Heard(ns, k)
  <2> SUFFICES ASSUME NEW k \in 1 .. m PROVE Heard(ms, k) = Heard(ns, k)
    OBVIOUS
  <2>1. \A j \in 1 .. k : ms[j] = ns[j]
    OBVIOUS
  <2> QED BY <2>1 DEF Heard
<1>3. Unheld(DOMAIN f, ms, m) = Unheld(DOMAIN f, ns, m)
  BY DEF Unheld
<1>4. \A k \in 1 .. m : (Latest(ms, m, k) <=> Latest(ns, m, k)) /\ Slot(ms, k) = Slot(ns, k)
  BY DEF Latest, Slot
<1>5. HeldFirst(DOMAIN f, ms, m)
  <2>1. HeldFirst(DOMAIN f, ns, m)
    BY <1>1 DEF Holds
  <2>2. \A j \in 1 .. m : Cardinality(Heard(ms, j)) <= NameCap => ms[j].ip \in DOMAIN f
    BY <1>2, <2>1 DEF HeldFirst
  <2>3. \A ip \in DOMAIN f : \E j \in 1 .. m : ms[j].ip = ip /\ Cardinality(Heard(ms, j)) <= NameCap
    BY <1>2, <2>1 DEF HeldFirst
  <2> QED BY <1>3, <2>1, <2>2, <2>3 DEF HeldFirst
<1>6. Newest(f, ms, m)
  BY <1>1, <1>4 DEF Holds, Newest
<1>7. Holds(f, d, ms, m)
  BY <1>1, <1>3, <1>5, <1>6 DEF Holds
<1> QED BY <1>1, <1>7 DEF Tabled

LEMMA ObserveAll ==
    ASSUME NEW ns, NEW m \in Nat, NEW obs, IsSeq(obs), NEW n \in Nat, n = Len(obs),
           \A i \in 1 .. m + n : ns[i].ts \in Nat,
           \A i \in 1 .. n : ns[m + i] = obs[i], NEW nt, Tabled(nt, ns, m)
    PROVE  Tabled(observe_all(nt, obs), ns, m + n)
<1>1. PICK acc : /\ acc[0] = nt
                 /\ acc[n] = observe_all(nt, obs)
                 /\ \A k \in 0 .. n - 1 : acc[k + 1] = names_observe(acc[k], obs[k + 1])
  <2>1. PICK acc : Observed(acc, nt, obs)
    BY NamesInTurn
  <2> QED BY <2>1 DEF Observed
<1> DEFINE S == {k \in Nat : k <= n => Tabled(acc[k], ns, m + k)}
<1>2. 0 \in S
  BY <1>1
<1>3. ASSUME NEW k \in Nat, k \in S PROVE k + 1 \in S
  <2> SUFFICES ASSUME k + 1 <= n PROVE Tabled(acc[k + 1], ns, m + (k + 1))
    OBVIOUS
  <2>1. /\ k <= n /\ k \in 0 .. n - 1 /\ k + 1 \in 1 .. n /\ m + (k + 1) = (m + k) + 1
        /\ m + k \in Nat
        /\ \A i \in 1 .. (m + k) + 1 : i \in 1 .. m + n
    OBVIOUS
  <2>2. PICK p \in Nat : p = m + k /\ m + (k + 1) = p + 1
    BY <2>1
  <2>3. acc[k + 1] = names_observe(acc[k], ns[p + 1])
    BY <1>1, <2>1, <2>2
  <2>4. Tabled(acc[k], ns, p) /\ \A i \in 1 .. p + 1 : ns[i].ts \in Nat
    BY <1>3, <2>1, <2>2
  <2>5. Tabled(names_observe(acc[k], ns[p + 1]), ns, p + 1)
    BY <2>4, ObserveTabled
  <2> QED BY <2>2, <2>3, <2>5
<1>4. n \in S
  <2> HIDE DEF S
  <2> QED BY <1>2, <1>3, SetInduction
<1> QED BY <1>1, <1>4
-----------------------------------------------------------------------------
NamesInv == Observations(names) /\ Tabled(table, names, Len(names))

LEMMA NamesStep ==
    ASSUME ReadInv, ReadInv', NamesInv, [CmdNext]_cmdvars
    PROVE  NamesInv'
<1>1. CASE names' = names /\ table' = table
  BY <1>1 DEF NamesInv
<1>2. ASSUME NEW obs, Observations(obs), names' = names \o obs,
             table' = observe_all(table, obs)
      PROVE  NamesInv'
  <2>1. PICK m \in Nat, n \in Nat : m = Len(names) /\ n = Len(obs)
    BY <1>2, LenNat DEF NamesInv, Observations
  <2>2. PICK ns : ns = names \o obs
    OBVIOUS
  <2>3. /\ IsSeq(ns) /\ Len(ns) = m + n
        /\ \A i \in 1 .. m + n : ns[i] = IF i <= m THEN names[i] ELSE obs[i - m]
    <3>1. PICK T : names \in Seq(T) /\ obs \in Seq(T)
      <4>1. PICK A, B : names \in Seq(A) /\ obs \in Seq(B)
        BY <1>2 DEF NamesInv, Observations, IsSeq
      <4>2. names \in Seq(A \cup B) /\ obs \in Seq(A \cup B)
        BY <4>1, SeqMonotonic
      <4> QED BY <4>2
    <3>2. /\ names \o obs \in Seq(T) /\ Len(names \o obs) = Len(names) + Len(obs)
          /\ \A i \in 1 .. Len(names) + Len(obs) :
                (names \o obs)[i] = IF i <= Len(names) THEN names[i] ELSE obs[i - Len(names)]
      BY <3>1, ConcatProperties
    <3> QED BY <2>1, <2>2, <3>2 DEF IsSeq
  <2>4. /\ \A i \in 1 .. m : ns[i] = names[i]
        /\ \A i \in 1 .. n : ns[m + i] = obs[i]
    <3>1. ASSUME NEW i \in 1 .. m PROVE ns[i] = names[i]
      <4>1. i \in 1 .. m + n /\ i <= m
        OBVIOUS
      <4> QED BY <2>3, <4>1
    <3>2. ASSUME NEW i \in 1 .. n PROVE ns[m + i] = obs[i]
      <4>1. m + i \in 1 .. m + n /\ ~(m + i <= m) /\ (m + i) - m = i
        OBVIOUS
      <4> QED BY <2>3, <4>1
    <3> QED BY <3>1, <3>2
  <2>5. \A i \in 1 .. m + n : ns[i].ts \in Nat
    <3> SUFFICES ASSUME NEW i \in 1 .. m + n PROVE ns[i].ts \in Nat
      OBVIOUS
    <3>1. CASE i <= m
      <4>1. i \in 1 .. m
        BY <3>1
      <4> QED BY <2>1, <2>4, <4>1 DEF NamesInv, Observations
    <3>2. CASE ~(i <= m)
      <4>1. PICK j \in 1 .. n : i = m + j
        <5>1. i - m \in 1 .. n /\ i = m + (i - m)
          BY <3>2
        <5> QED BY <5>1
      <4> QED BY <1>2, <2>1, <2>4, <4>1 DEF Observations
    <3> QED BY <3>1, <3>2
  <2>6. Tabled(table, ns, m)
    BY <2>1, <2>4, TabledPrefix DEF NamesInv
  <2>7. Tabled(observe_all(table, obs), ns, m + n)
    BY <1>2, <2>1, <2>4, <2>5, <2>6, ObserveAll DEF Observations
  <2>8. Observations(ns)
    BY <2>3, <2>5 DEF Observations
  <2> QED BY <1>2, <2>2, <2>3, <2>7, <2>8 DEF NamesInv
<1>3. CASE UNCHANGED cmdvars
  BY <1>1, <1>3 DEF cmdvars, vars
<1>4. CASE CmdNext
  <2>1. Sinks /\ table' = observe_all(table, added(names, names')) /\ IsSeq(names)
    BY <1>4, StepSinks DEF CmdNext, Names, observe_all, ReadInv, ReadTypes
  <2>2. CASE names' = names
    <3>1. added(names, names') = <<>> /\ IsSeq(<<>>) /\ Len(<<>>) = 0
      BY <2>1, <2>2, Added, EmptySeq DEF IsSeq
    <3>2. PICK acc : Observed(acc, table, <<>>)
      BY <3>1, NamesInTurn
    <3> QED BY <1>1, <2>1, <2>2, <3>1, <3>2 DEF Observed
  <2>3. ASSUME NEW obs, Observations(obs), names' = names \o obs PROVE NamesInv'
    <3>1. added(names, names') = obs
      BY <2>1, <2>3, AddedConcat DEF Observations
    <3>2. table' = observe_all(table, obs)
      BY <2>1, <3>1
    <3> QED BY <1>2, <2>3, <3>2
  <2> QED BY <2>1, <2>2, <2>3 DEF Sinks
<1> QED BY <1>3, <1>4

\* The name table is that of the observations so far, for any cap and in any order of timestamps
\* (name.rs NameTable::observe).
THEOREM NamesInvariant == CmdSpec => []NamesInv
<1>1. CmdInit => NamesInv
  <2> SUFFICES ASSUME CmdInit PROVE NamesInv
    OBVIOUS
  <2>1. names = <<>> /\ table = [by_ip |-> <<>>, dropped |-> 0]
    BY DEF CmdInit, Init, NameTableNew
  <2>2. IsSeq(names) /\ Len(names) = 0 /\ 1 .. 0 = {} /\ DOMAIN <<>> = {}
    BY <2>1, EmptySeq DEF IsSeq
  <2>3. PICK f : f = <<>>
    OBVIOUS
  <2>4. DOMAIN f = {} /\ f = [ip \in DOMAIN f |-> f[ip]]
    BY <2>3
  <2>5. Unheld({}, names, 0) = {} /\ Cardinality({}) = 0 /\ IsFiniteSet({})
    BY <2>2, FS_EmptySet DEF Unheld
  <2>6. HeldFirst({}, names, 0) /\ Newest(f, names, 0)
    BY <2>2, <2>4, <2>5, NameTableAssumption DEF HeldFirst, Newest
  <2>7. Holds(f, 0, names, 0)
    BY <2>4, <2>5, <2>6 DEF Holds
  <2> QED BY <2>1, <2>2, <2>3, <2>7 DEF NamesInv, Observations, Tabled
<1>2. ReadInv /\ ReadInv' /\ NamesInv /\ [CmdNext]_cmdvars => NamesInv'
  BY NamesStep
<1> QED BY <1>1, <1>2, ReadInvariant, PTL DEF CmdSpec

LEMMA TableHolds ==
    ASSUME NamesInv
    PROVE  \E f, d : \E m \in Nat :
               /\ table.by_ip = f /\ table.dropped = d /\ held(table) = DOMAIN f
               /\ DOMAIN names = 1 .. m /\ Holds(f, d, names, m)
<1>1. PICK m \in Nat : m = Len(names) /\ DOMAIN names = 1 .. m
  BY LenProperties DEF NamesInv, Observations, IsSeq
<1>2. PICK f, d : table = [by_ip |-> f, dropped |-> d] /\ Holds(f, d, names, m)
  BY <1>1 DEF NamesInv, Tabled
<1>3. table.by_ip = f /\ table.dropped = d /\ held(table) = DOMAIN f
  BY <1>2 DEF held
<1> QED BY <1>1, <1>2, <1>3

\* The name held for an IP is the latest of all its observations, the last of equals, also across a
\* full table and with timestamps out of order (name.rs NameTable::observe, resolve).
THEOREM LatestNamesAreHeld == CmdSpec => []LatestNameWins
<1>1. NamesInv => LatestNameWins
  <2> SUFFICES ASSUME NamesInv, NEW ip \in held(table)
               PROVE  \E k \in about(ip) : wins(k) /\ resolve(table, ip) = {names[k].name}
    BY DEF LatestNameWins
  <2>1. PICK f, d, m : /\ m \in Nat /\ table.by_ip = f /\ held(table) = DOMAIN f
                       /\ DOMAIN names = 1 .. m /\ Newest(f, names, m)
    BY TableHolds DEF Holds
  <2>2. PICK k \in 1 .. m : names[k].ip = ip /\ Latest(names, m, k) /\ f[ip] = Slot(names, k)
    BY <2>1 DEF Newest
  <2>3. k \in about(ip) /\ wins(k)
    BY <2>1, <2>2 DEF about, wins, Latest
  <2>4. f[ip].name = names[k].name
    BY <2>2 DEF Slot
  <2>5. resolve(table, ip) = {names[k].name}
    BY <2>1, <2>4 DEF resolve
  <2> QED BY <2>3, <2>5
<1> QED BY <1>1, NamesInvariant, PTL

\* The table holds exactly the IPs heard while no more than NAME_TABLE_CAP were known, and dropped
\* counts every observation of the others (name.rs NameTable::observe).
THEOREM FirstIpsAreHeld == CmdSpec => []FirstIpsHeld
<1>1. NamesInv => FirstIpsHeld
  <2> SUFFICES ASSUME NamesInv PROVE FirstIpsHeld
    OBVIOUS
  <2>1. PICK f, d, m : /\ m \in Nat /\ table.dropped = d /\ held(table) = DOMAIN f
                       /\ DOMAIN names = 1 .. m /\ Holds(f, d, names, m)
    BY TableHolds
  <2>2. PICK H : H = DOMAIN f
    OBVIOUS
  <2>3. HeldFirst(H, names, m) /\ d = Cardinality(Unheld(H, names, m))
    BY <2>1, <2>2 DEF Holds
  <2>4. \A j : distinct(j) = Heard(names, j)
    BY DEF distinct, Heard
  <2>5. ASSUME NEW k \in 1 .. m
        PROVE  names[k].ip \in H
                 <=> \E j \in about(names[k].ip) : Cardinality(distinct(j)) <= NameCap
    <3>1. ASSUME names[k].ip \in H
          PROVE  \E j \in about(names[k].ip) : Cardinality(distinct(j)) <= NameCap
      <4>1. PICK j \in 1 .. m : /\ names[j].ip = names[k].ip
                                /\ Cardinality(Heard(names, j)) <= NameCap
        BY <2>3, <3>1 DEF HeldFirst
      <4> QED BY <2>1, <2>4, <4>1 DEF about
    <3>2. ASSUME NEW j \in about(names[k].ip), Cardinality(distinct(j)) <= NameCap
          PROVE  names[k].ip \in H
      <4>1. j \in 1 .. m /\ names[j].ip = names[k].ip
        BY <2>1 DEF about
      <4> QED BY <2>3, <2>4, <3>2, <4>1 DEF HeldFirst
    <3> QED BY <3>1, <3>2
  <2>6. Unheld(H, names, m) = {k \in DOMAIN names : names[k].ip \notin held(table)}
    BY <2>1, <2>2 DEF Unheld
  <2> QED BY <2>1, <2>2, <2>3, <2>5, <2>6 DEF FirstIpsHeld
<1> QED BY <1>1, NamesInvariant, PTL

=============================================================================
