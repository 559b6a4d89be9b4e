------------------------------ MODULE SeqArith ------------------------------
(***************************************************************************)
(* RTP sequence numbers: 16-bit serial-number arithmetic, as the receive   *)
(* paths of the library use it (src/src/transport/packet.c).               *)
(*                                                                         *)
(* The modulus is the code's own, not a parameter: a state space only      *)
(* depends on the numbers that are really sent, so the small instances     *)
(* start their streams just below the wrap instead of shrinking it.        *)
(***************************************************************************)
EXTENDS Integers

SEQ_MOD == 65536
HALF_SEQ == 32768

Seq16 == 0 .. SEQ_MOD - 1

\* (uint16_t)(to - from): the steps from one number forward to the other.
Distance(from, to) ==
  IF from <= to THEN to - from ELSE to - from + SEQ_MOD

\* mezon_seq_before: (int16_t)(lhs - rhs) < 0.  Two numbers exactly half the
\* circle apart are each "before" the other.
SeqBefore(lhs, rhs) == Distance(rhs, lhs) >= HALF_SEQ

\* s++ on a uint16_t
NextSeq(s) == IF s + 1 = SEQ_MOD THEN 0 ELSE s + 1
=============================================================================
