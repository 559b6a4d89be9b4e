---------------------------- MODULE MCAudioReport ---------------------------
(***************************************************************************)
(* Reports over a stream that crosses the wrap, arriving in any order,     *)
(* with duplicates and losses; one packet lies just beyond the 64 that a   *)
(* report can cover, one on its last place, and a second sender (another   *)
(* ssrc) interferes.  Two threads take the reports and send them through a *)
(* network that loses, repeats and reorders.                               *)
(***************************************************************************)
EXTENDS ReportSending

VARIABLES
  arrived,    \* history: numbers that arrived since the interval began
  delivered   \* history: reports about it that reached the remote sender

mcVars == <<reportVars, sendingVars, arrived, delivered>>

MCArrivals ==
  {[seq |-> s, ssrc |-> 1] : s \in {65533, 65535, 0, 60, 61}}
  \cup {[seq |-> 7, ssrc |-> 2]}

MCInit == SendingInit /\ arrived = {} /\ delivered = {}

MCNext ==
  \/ /\ \E p \in Arrivals :
          /\ Track(p, now)
          /\ arrived' = IF BeginsInterval(p) THEN {p.seq}
                        ELSE arrived \cup {p.seq}
     /\ UNCHANGED <<next_report_seq, taken, now, sendingVars, delivered>>
  \/ Elapse /\ UNCHANGED <<sendingVars, arrived, delivered>>
  \/ \E t \in Takers :
       \/ TakeDue(t) /\ arrived' = {} /\ UNCHANGED delivered
       \/ SendReport(t) /\ UNCHANGED <<arrived, delivered>>
  \/ \E p \in network :
       /\ Deliver(p)
       /\ delivered' = delivered \cup
            {r \in {p.report} : r.media_ssrc = REMOTE_SSRC}
       /\ UNCHANGED arrived

MCSpec == MCInit /\ [][MCNext]_mcVars

(* A report counts as lost exactly the numbers between the first and the   *)
(* highest counted that did not arrive during the interval.                *)
LossIsReal ==
  [][taken' # taken =>
       LET numbers == {(report_base_seq + d) % SEQ_MOD : d \in 0 .. Span}
       IN  taken'.expected - taken'.received
             = Cardinality(numbers \ arrived)]_mcVars

(* Whatever the two threads and the network do to their order, the remote  *)
(* sender always acts on the report of the latest interval that reached    *)
(* it; no two intervals share a number, and an older one that was overtaken *)
(* never replaces a newer.                                                 *)
LatestCounts ==
  \A r \in delivered :
    r = accepted \/ SeqBefore(r.report_seq, accepted.report_seq)
=============================================================================
