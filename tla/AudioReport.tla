----------------------------- MODULE AudioReport ----------------------------
(***************************************************************************)
(* The receiver's loss reports (src/src/audio/audio.c): the interval that  *)
(* track_receiver_packet keeps for every audio packet that arrives, and    *)
(* mezon_audio_take_receiver_report, which closes it.  Both run under the  *)
(* jitter lock.  Adaptation is enabled.                                    *)
(*                                                                         *)
(* The 64-bit mask of packets seen is the set of its bit positions.  Time  *)
(* is in ticks.                                                            *)
(***************************************************************************)
EXTENDS SeqArith, FiniteSets

CONSTANTS
  Arrivals,     \* what may arrive: records with seq and ssrc
  INTERVAL,     \* report_interval_ms in ticks
  MAX_TIME      \* bound on the clock

MASK_BITS == 64

ASSUME ReportAssumption ==
  /\ \A p \in Arrivals : p.seq \in Seq16
  /\ INTERVAL \in Nat \ {0} /\ MAX_TIME \in Nat

VARIABLES
  report_initialized, report_ssrc, report_base_seq, report_highest_seq,
  report_seen_mask, report_started_ns, next_report_seq,
  taken,        \* the report the last successful take returned
  now

intervalVars == <<report_initialized, report_ssrc, report_base_seq,
                  report_highest_seq, report_seen_mask, report_started_ns>>
reportVars == <<intervalVars, next_report_seq, taken, now>>

NoReport == [expected |-> 0, received |-> 0]

ReportInit ==
  /\ report_initialized = FALSE
  /\ report_ssrc = 0
  /\ report_base_seq = 0
  /\ report_highest_seq = 0
  /\ report_seen_mask = {}
  /\ report_started_ns = 0
  /\ next_report_seq = 0
  /\ taken = NoReport
  /\ now = 1

-----------------------------------------------------------------------------
(* track_receiver_packet                                                   *)

Offset(p) == Distance(report_base_seq, p.seq)

BeginsInterval(p) == ~ report_initialized \/ p.ssrc # report_ssrc

Open_KeepsMask(p, arrival) ==
  /\ report_ssrc' = p.ssrc
  /\ report_base_seq' = p.seq
  /\ report_highest_seq' = p.seq
  /\ report_seen_mask' = report_seen_mask \cup {0}
  /\ report_started_ns' = arrival
  /\ report_initialized' = TRUE
Open(p, arrival) ==
  /\ report_ssrc' = p.ssrc
  /\ report_base_seq' = p.seq
  /\ report_highest_seq' = p.seq
  /\ report_seen_mask' = {0}
  /\ report_started_ns' = arrival
  /\ report_initialized' = TRUE

HighestWith(p) ==
  IF SeqBefore(report_highest_seq, p.seq) THEN p.seq ELSE report_highest_seq

Mark(p) ==
  /\ report_seen_mask' = report_seen_mask \cup {Offset(p)}
  /\ report_highest_seq' = HighestWith(p)
  /\ UNCHANGED <<report_initialized, report_ssrc, report_base_seq,
                 report_started_ns>>

\* A packet outside the 64 that begin with the base is not counted at all.
Representable_Always(p) == TRUE
Representable(p) == Offset(p) < MASK_BITS

Track(p, arrival) ==
  \/ BeginsInterval(p) /\ Open(p, arrival)
  \/ ~ BeginsInterval(p) /\ Representable(p) /\ Mark(p)
  \/ ~ BeginsInterval(p) /\ ~ Representable(p) /\ UNCHANGED intervalVars

-----------------------------------------------------------------------------
(* mezon_audio_take_receiver_report                                        *)

Due(now_ns) ==
  /\ report_initialized
  /\ now_ns >= report_started_ns
  /\ now_ns - report_started_ns >= INTERVAL

Span == Distance(report_base_seq, report_highest_seq)

Report == [report_seq |-> next_report_seq,
           media_ssrc |-> report_ssrc,
           expected   |-> Span + 1,
           received   |-> Cardinality(report_seen_mask)]

Take(now_ns) ==
  /\ Due(now_ns)
  /\ taken' = Report
  /\ next_report_seq' = NextSeq(next_report_seq)
  /\ report_initialized' = FALSE
  /\ report_seen_mask' = {}
  /\ UNCHANGED <<report_ssrc, report_base_seq, report_highest_seq,
                 report_started_ns>>

-----------------------------------------------------------------------------
Arrive == /\ \E p \in Arrivals : Track(p, now)
          /\ UNCHANGED <<next_report_seq, taken, now>>

TakeReport == Take(now) /\ UNCHANGED now

Elapse == /\ now < MAX_TIME
          /\ now' = now + 1
          /\ UNCHANGED <<intervalVars, next_report_seq, taken>>

ReportNext == Arrive \/ TakeReport \/ Elapse

ReportSpec == ReportInit /\ [][ReportNext]_reportVars

-----------------------------------------------------------------------------
(* Properties                                                              *)

(* Every variable keeps the type of its field; the mask fits 64 bits.      *)
ReportTypeOK ==
  /\ report_initialized \in BOOLEAN
  /\ report_base_seq \in Seq16
  /\ report_highest_seq \in Seq16
  /\ report_seen_mask \subseteq 0 .. MASK_BITS - 1
  /\ report_started_ns \in Nat
  /\ next_report_seq \in Seq16
  /\ now \in Nat

(* In an open interval the packets seen lie between the base and the       *)
(* highest number, both of which were seen, across the wrap and whatever   *)
(* the order of arrival.                                                   *)
SeenWithinSpan ==
  report_initialized =>
    /\ Span < MASK_BITS
    /\ report_seen_mask \subseteq 0 .. Span
    /\ {0, Span} \subseteq report_seen_mask

(* No report claims more packets received than expected, or none, or more  *)
(* than a report can cover; neither the serializer nor the remote sender   *)
(* ever refuses one for its counts.                                        *)
ReportSane ==
  taken # NoReport =>
    /\ 1 <= taken.received
    /\ taken.received <= taken.expected
    /\ taken.expected <= MASK_BITS

(* The three together are inductive.                                       *)
ReportInv == ReportTypeOK /\ SeenWithinSpan /\ ReportSane
=============================================================================
