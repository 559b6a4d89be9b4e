---------------------------- MODULE AudioFeedback ---------------------------
(***************************************************************************)
(* The sending side of the adaptation (src/src/audio/audio.c and opus.c):  *)
(* the UDP receive worker hands over receiver reports                      *)
(* (mezon_audio_submit_receiver_report), the capture thread consumes them  *)
(* at its next frame (apply_pending_feedback), or backs off when they have *)
(* ceased, and configures the Opus encoder.                                *)
(*                                                                         *)
(* The section under feedback_lock is one step.  The tests of              *)
(* audio.c:78-80 that follow it hold no lock and race with the worker:     *)
(* each is a step, from left to right, and the first that fails is the     *)
(* last that is made.                                                      *)
(*                                                                         *)
(* An encoder control of FailingCtls may be refused by libopus.            *)
(***************************************************************************)
EXTENDS SeqArith, BitrateController

CONSTANTS
  LOCAL_SSRC,    \* config.ssrc
  TIMEOUT,       \* feedback_timeout_ms in ticks
  FailingCtls,   \* encoder controls that may fail: of {"bitrate", "loss"}
  Nothing,       \* no report
  MAX_TIME       \* bound on the clock

ASSUME FeedbackAssumption ==
  /\ \A r \in Reports : r.report_seq \in Seq16
  /\ TIMEOUT \in Nat \ {0} /\ MAX_TIME \in Nat
  /\ FailingCtls \subseteq {"bitrate", "loss"}
  /\ Nothing \notin Reports

VARIABLES
  arriving,                 \* worker: the report parsed, with its arrival time
  pending_feedback, feedback_pending, last_feedback_time_ns,
  last_feedback_seq, have_feedback_seq,          \* under feedback_lock
  pc,                       \* capture thread: where it is, see CapturePc
  feedback, now_ns,         \* locals of apply_pending_feedback
  taken,                    \* history: the last report it consumed
  stale_backoff_applied,    \* capture thread only
  codec, stats, encoder,    \* [bitrate, loss]: codec struct, stats, libopus
  now

lockedVars == <<pending_feedback, feedback_pending, last_feedback_time_ns,
                last_feedback_seq, have_feedback_seq>>
localVars == <<pc, feedback, now_ns, taken, stale_backoff_applied>>
codecVars == <<codec, stats, encoder>>
feedbackVars == <<bitrateVars, arriving, lockedVars, localVars, codecVars, now>>

\* "have", "guard" and "age" are the tests of have_feedback_seq and, twice,
\* of last_feedback_time_ns
CapturePc == {"idle", "clock", "have", "guard", "age", "update"}
StaleCounts == [expected |-> 100, received |-> 90]

FeedbackInit ==
  LET initial == [bitrate |-> INITIAL_BITRATE,
                  loss |-> OPUS_EXPECTED_LOSS_PERCENT]
  IN  /\ ControllerInit
      /\ arriving = Nothing
      /\ pending_feedback = Nothing
      /\ feedback_pending = FALSE
      /\ last_feedback_time_ns = 0
      /\ last_feedback_seq = 0
      /\ have_feedback_seq = FALSE
      /\ pc = "idle"
      /\ feedback = [expected |-> 0, received |-> 0]
      /\ now_ns = 0
      /\ taken = Nothing
      /\ stale_backoff_applied = FALSE
      /\ codec = initial /\ stats = initial /\ encoder = initial
      /\ now = 1

-----------------------------------------------------------------------------
(* The receive worker                                                      *)

\* receive_loop stamps the datagram before it is handed over.
Arrive ==
  /\ arriving = Nothing
  /\ \E r \in Reports : arriving' = [report |-> r, time |-> now]
  /\ UNCHANGED <<bitrateVars, lockedVars, localVars, codecVars, now>>

Wellformed(r) == Valid(r.expected, r.received) /\ r.media_ssrc = LOCAL_SSRC

Newer_NotOlder(r) ==
  ~ have_feedback_seq \/ ~ SeqBefore(r.report_seq, last_feedback_seq)
Newer(r) == ~ have_feedback_seq \/ SeqBefore(last_feedback_seq, r.report_seq)

\* A report not yet consumed is overwritten.
Accepted(r, arrival) ==
  /\ pending_feedback' = r
  /\ last_feedback_time_ns' = arrival
  /\ last_feedback_seq' = r.report_seq
  /\ have_feedback_seq' = TRUE
  /\ feedback_pending' = TRUE

Submit ==
  /\ arriving # Nothing
  /\ LET r == arriving.report
     IN  \/ /\ Wellformed(r) /\ Newer(r)
            /\ Accepted(r, arriving.time)
         \/ /\ ~ (Wellformed(r) /\ Newer(r))
            /\ UNCHANGED lockedVars
  /\ arriving' = Nothing
  /\ UNCHANGED <<bitrateVars, localVars, codecVars, now>>

-----------------------------------------------------------------------------
(* The capture thread: apply_pending_feedback                              *)

Counts(r) == [expected |-> r.expected, received |-> r.received]

Consume_KeepsPending ==
  /\ feedback_pending
  /\ feedback' = Counts(pending_feedback) /\ taken' = pending_feedback
  /\ UNCHANGED feedback_pending
  /\ stale_backoff_applied' = FALSE
  /\ pc' = "update"
Consume_KeepsStale ==
  /\ feedback_pending
  /\ feedback' = Counts(pending_feedback) /\ taken' = pending_feedback
  /\ feedback_pending' = FALSE
  /\ UNCHANGED stale_backoff_applied
  /\ pc' = "update"
Consume ==
  /\ feedback_pending
  /\ feedback' = Counts(pending_feedback) /\ taken' = pending_feedback
  /\ feedback_pending' = FALSE
  /\ stale_backoff_applied' = FALSE
  /\ pc' = "update"

\* the locked section, and the branch it decides
TakePending ==
  /\ pc = "idle"
  /\ \/ Consume
     \/ /\ ~ feedback_pending
        /\ pc' = "clock"
        /\ UNCHANGED <<feedback, feedback_pending, taken,
                       stale_backoff_applied>>
  /\ UNCHANGED <<bitrateVars, arriving, pending_feedback,
                 last_feedback_time_ns, last_feedback_seq, have_feedback_seq,
                 now_ns, codecVars, now>>

ReadClock ==
  /\ pc = "clock"
  /\ now_ns' = now
  /\ pc' = "have"
  /\ UNCHANGED <<bitrateVars, arriving, lockedVars, feedback, taken,
                 stale_backoff_applied, codecVars, now>>

\* The local now_ns ends with the call; it is cleared to merge states.
Return ==
  /\ pc' = "idle" /\ now_ns' = 0
  /\ UNCHANGED <<feedback, stale_backoff_applied>>

GoOn(test) ==
  /\ pc' = test
  /\ UNCHANGED <<feedback, now_ns, stale_backoff_applied>>

Armed_Repeats == have_feedback_seq
Armed == have_feedback_seq /\ ~ stale_backoff_applied

TestHave ==
  /\ pc = "have"
  /\ \/ Armed /\ GoOn("guard")
     \/ ~ Armed /\ Return

TestGuard ==
  /\ pc = "guard"
  /\ \/ now_ns >= last_feedback_time_ns /\ GoOn("age")
     \/ now_ns < last_feedback_time_ns /\ Return

\* The subtraction is of uint64_t: below zero it is beyond every timeout.
Expired_AtTimeout(since) == now_ns < since \/ now_ns - since >= TIMEOUT
Expired(since) == now_ns < since \/ now_ns - since > TIMEOUT

BackOff ==
  /\ pc = "age" /\ Expired(last_feedback_time_ns)
  /\ feedback' = StaleCounts
  /\ stale_backoff_applied' = TRUE
  /\ pc' = "update" /\ now_ns' = 0

TestAge ==
  \/ BackOff
  \/ pc = "age" /\ ~ Expired(last_feedback_time_ns) /\ Return

CheckStale ==
  /\ TestHave \/ TestGuard \/ TestAge
  /\ UNCHANGED <<bitrateVars, arriving, lockedVars, taken, codecVars, now>>

-----------------------------------------------------------------------------
(* mezon_opus_set_network_state                                            *)

Configured(d) == [bitrate |-> d.bitrate, loss |-> d.loss_percent]

SetOk(d) ==
  /\ encoder' = Configured(d) /\ codec' = Configured(d)
  /\ stats' = Configured(d)

SetBitrateRefused ==
  /\ "bitrate" \in FailingCtls
  /\ UNCHANGED codecVars

\* The bitrate is put back, unless that is refused too.
SetLossRefused_NoRollback(d) ==
  /\ "loss" \in FailingCtls
  /\ encoder' = [encoder EXCEPT !.bitrate = d.bitrate]
  /\ UNCHANGED <<codec, stats>>
SetLossRefused(d) ==
  /\ "loss" \in FailingCtls
  /\ \/ encoder' = [encoder EXCEPT !.bitrate = codec.bitrate]
     \/ /\ "bitrate" \in FailingCtls
        /\ encoder' = [encoder EXCEPT !.bitrate = d.bitrate]
  /\ UNCHANGED <<codec, stats>>

\* controller and codec belong to the capture thread
Apply ==
  /\ pc = "update"
  /\ Update(feedback.expected, feedback.received)
  /\ SetOk(decision') \/ SetBitrateRefused \/ SetLossRefused(decision')
  /\ pc' = "idle"
  /\ UNCHANGED <<arriving, lockedVars, feedback, now_ns, taken,
                 stale_backoff_applied, now>>

-----------------------------------------------------------------------------
Elapse == /\ now < MAX_TIME
          /\ now' = now + 1
          /\ UNCHANGED <<bitrateVars, arriving, lockedVars, localVars, codecVars>>

Capture == TakePending \/ ReadClock \/ CheckStale \/ Apply

FeedbackNext == Arrive \/ Submit \/ Capture \/ Elapse

FeedbackSpec == FeedbackInit /\ [][FeedbackNext]_feedbackVars

\* The application calls mezia_send_audio for every captured frame.
FairFeedbackSpec == FeedbackSpec /\ WF_feedbackVars(Capture)

-----------------------------------------------------------------------------
(* Properties                                                              *)

Settings == [bitrate : MIN_BITRATE .. MAX_BITRATE, loss : 2 .. 19]

(* Every variable keeps the type of its field.  The encoder runs within    *)
(* the configured range whatever is reported and whichever of its controls *)
(* fails.                                                                  *)
FeedbackTypeOK ==
  /\ ControllerTypeOK
  /\ arriving \in {Nothing} \cup [report : Reports, time : Nat]
  /\ pending_feedback \in Reports \cup {Nothing}
  /\ feedback_pending \in BOOLEAN /\ have_feedback_seq \in BOOLEAN
  /\ last_feedback_time_ns \in Nat /\ last_feedback_seq \in Seq16
  /\ pc \in CapturePc
  /\ feedback.expected \in Nat /\ feedback.received \in Nat
  /\ now_ns \in Nat /\ now \in Nat
  /\ taken \in Reports \cup {Nothing}
  /\ stale_backoff_applied \in BOOLEAN
  /\ codec \in Settings /\ stats \in Settings /\ encoder \in Settings

(* What the codec remembers, what mezon_audio_get_stats tells and what     *)
(* libopus runs with are one and the same, also after one of the controls  *)
(* has failed: the other is rolled back.                                   *)
EncoderAsReported ==
  FailingCtls # {"bitrate", "loss"} => encoder = codec /\ stats = codec

(* The capture thread has just consumed a report that was waiting.         *)
Consumes == pc = "idle" /\ pc' = "update"

(* Every report the controller is given is newer than the one it was given *)
(* before, so that none is used twice, however the network reorders or     *)
(* repeats them and whenever the worker overwrites one that was waiting.   *)
ReportsInOrder ==
  [][Consumes /\ taken # Nothing
       => SeqBefore(taken.report_seq, taken'.report_seq)]_feedbackVars

(* The sender backs off for lack of feedback only after more than the      *)
(* timeout without it, unless a report is accepted during this very call;  *)
(* that report then waits for the next frame.                              *)
BackoffAfterSilence ==
  [][BackOff => \/ feedback_pending
                \/ now_ns - last_feedback_time_ns > TIMEOUT]_feedbackVars

(* One silence, one backoff: a report has been applied since the last.     *)
OneBackoffPerSilence == [][BackOff => feedback # StaleCounts]_feedbackVars

Silent == have_feedback_seq /\ now - last_feedback_time_ns > TIMEOUT

(* When feedback ceases, the sender backs off, also when it has backed off *)
(* before and feedback had come back in between.                           *)
SilenceBacksOff == Silent ~> (feedback = StaleCounts \/ ~ Silent)

(* README, "Audio profile": the feedback timeout is 3000 ms.  The code     *)
(* does not keep this: the two reads of last_feedback_time_ns are          *)
(* unlocked, so a report accepted between them, newer than now_ns, makes   *)
(* the age wrap below zero, and the sender backs off in the face of fresh  *)
(* feedback.                                                               *)
BackoffOnlyAfterTimeout ==
  [][BackOff => now_ns - last_feedback_time_ns > TIMEOUT]_feedbackVars
=============================================================================
