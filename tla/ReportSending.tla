---------------------------- MODULE ReportSending ---------------------------
(***************************************************************************)
(* Reports on their way to the remote sender (maybe_send_audio_feedback in *)
(* src/src/media/media.c).  Both the capture and the rendering thread take *)
(* the report that is due; the interval is closed and numbered under the   *)
(* jitter lock, the packet is numbered and sent outside it, so that one    *)
(* thread may overtake the other.  The network loses, repeats and reorders.*)
(***************************************************************************)
EXTENDS AudioReport

CONSTANTS
  Takers,       \* threads that call maybe_send_audio_feedback
  REMOTE_SSRC   \* ssrc of the remote sender the reports are about

VARIABLES
  held,         \* the report each thread has taken and not yet sent
  control_seq,  \* ctx->control_seq
  network,      \* packets under way: [seq, report]
  accepted      \* the last report the remote sender accepted

sendingVars == <<held, control_seq, network, accepted>>

SendingInit ==
  /\ ReportInit
  /\ held = [t \in Takers |-> NoReport]
  /\ control_seq = 0
  /\ network = {}
  /\ accepted = NoReport

-----------------------------------------------------------------------------
TakeDue(t) ==
  /\ held[t] = NoReport
  /\ TakeReport
  /\ held' = [held EXCEPT ![t] = Report]
  /\ UNCHANGED <<control_seq, network, accepted>>

\* atomic_fetch_add, then mezon_peer_send, which may fail; a packet that the
\* network loses is one that never arrives
SendReport(t) ==
  /\ held[t] # NoReport
  /\ held' = [held EXCEPT ![t] = NoReport]
  /\ control_seq' = NextSeq(control_seq)
  /\ \/ network' = network \cup {[seq |-> control_seq, report |-> held[t]]}
     \/ UNCHANGED network
  /\ UNCHANGED <<reportVars, accepted>>

\* mezon_audio_submit_receiver_report at the other end
Wellformed(r) ==
  /\ r.expected > 0 /\ r.received <= r.expected
  /\ r.media_ssrc = REMOTE_SSRC

Newer_Always(r) == TRUE
Newer(r) == accepted # NoReport => SeqBefore(accepted.report_seq, r.report_seq)

Deliver(p) ==
  /\ accepted' = IF Wellformed(p.report) /\ Newer(p.report)
                 THEN p.report ELSE accepted
  /\ \/ network' = network \ {p}
     \/ UNCHANGED network      \* it will arrive again
  /\ UNCHANGED <<reportVars, held, control_seq>>

SendingNext ==
  \/ (Arrive \/ Elapse) /\ UNCHANGED sendingVars
  \/ \E t \in Takers : TakeDue(t) \/ SendReport(t)
  \/ \E p \in network : Deliver(p)

SendingSpec == SendingInit /\ [][SendingNext]_<<reportVars, sendingVars>>
=============================================================================
