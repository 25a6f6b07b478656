------------------------------- MODULE Serial -------------------------------
(***************************************************************************)
(* TCP serial-number arithmetic (tcpvisr-core/src/seq.rs).  A sequence     *)
(* number is a u32 that wraps; here it wraps at 2 * Half, so that a small  *)
(* Half makes wrap-around a common case.  The code has Half = 2^31.        *)
(*                                                                         *)
(* The wrapping operations are written without % so that every fact about  *)
(* them is linear in Half.                                                 *)
(***************************************************************************)
EXTENDS Integers

CONSTANT Half   \* HALF, half of the sequence space

ASSUME HalfAssumption == Half \in Nat \ {0}

Modulus == 2 * Half

TcpSeq == 0 .. Modulus - 1

(***************************************************************************)
(* Rust's Option::None for an Option<TcpSeq> or an Option<Nanos>: a value  *)
(* outside both ranges.                                                    *)
(***************************************************************************)
None == -1

\* u32::wrapping_add for a step b of at most one full turn.
wrapping_add(a, b) == IF a + b < Modulus THEN a + b ELSE a + b - Modulus

\* u32::wrapping_sub
wrapping_sub(a, b) == IF b <= a THEN a - b ELSE a + Modulus - b

(***************************************************************************)
(* RFC 1982 order: a precedes b when the forward distance from a to b is   *)
(* neither zero nor half a turn or more.  At exactly half a turn neither   *)
(* number precedes the other.                                              *)
(***************************************************************************)
serial_lt(a, b) == LET forward == wrapping_sub(b, a)
                   IN  forward # 0 /\ forward < Half

serial_gt(a, b) == serial_lt(b, a)

\* The forward distance from `earlier' to a.
serial_diff(a, earlier) == wrapping_sub(a, earlier)

(***************************************************************************)
(* u64::saturating_sub and u64::max on timestamps.                         *)
(***************************************************************************)
saturating_sub(a, b) == IF a >= b THEN a - b ELSE 0

later(a, b) == IF a >= b THEN a ELSE b
=============================================================================
