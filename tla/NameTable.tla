----------------------------- MODULE NameTable ------------------------------
(***************************************************************************)
(* The bounded IP-to-name map (tcpvisr-core/src/name.rs): NameTable as a   *)
(* record of the entries held - a function on the IPs it has - and the     *)
(* count of refused observations.                                          *)
(***************************************************************************)
EXTENDS Naturals, FiniteSets

CONSTANTS
    Ip,       \* IP addresses
    NameCap   \* NAME_TABLE_CAP

ASSUME NameTableAssumption == NameCap \in Nat

NameTableNew == [by_ip |-> <<>>, dropped |-> 0]

held(nt) == DOMAIN nt.by_ip

\* An observation is [ts, ip, name].
\* variant: an observation with the ts already held is ignored
supersedes_strictly(obs, slot) == obs.ts > slot.ts

\* Later timestamps win, ties go to the last seen.
supersedes(obs, slot) == obs.ts >= slot.ts

\* variant: at the cap every observation is refused
refused_when_full(nt, ip) == Cardinality(held(nt)) >= NameCap

\* Only an IP not yet held is refused, once the table is full.
refused(nt, ip) == ip \notin held(nt) /\ Cardinality(held(nt)) >= NameCap

names_observe(nt, obs) ==
    LET slot == [ts |-> obs.ts, name |-> obs.name]
    IN  IF refused(nt, obs.ip) THEN [nt EXCEPT !.dropped = @ + 1]
        ELSE IF obs.ip \notin held(nt)
             THEN [nt EXCEPT !.by_ip = [i \in held(nt) \cup {obs.ip} |->
                                           IF i = obs.ip THEN slot ELSE nt.by_ip[i]]]
        ELSE IF supersedes(obs, nt.by_ip[obs.ip]) THEN [nt EXCEPT !.by_ip[obs.ip] = slot]
        ELSE nt

\* The resolved names of an IP: at most one.
resolve(nt, ip) == {nt.by_ip[i].name : i \in held(nt) \cap {ip}}
=============================================================================
