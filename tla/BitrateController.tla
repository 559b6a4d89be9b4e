-------------------------- MODULE BitrateController -------------------------
(***************************************************************************)
(* The loss-driven bitrate controller of the sender                        *)
(* (src/src/audio/bitrate_controller.c).  One step is one call of          *)
(* mezon_bitrate_controller_update with the counts of a receiver report.   *)
(***************************************************************************)
EXTENDS Integers

CONSTANTS
  MIN_BITRATE, INITIAL_BITRATE, MAX_BITRATE,
  Reports         \* records [expected, received]

\* the most packets whose loss is computed below 2^32:
\* (expected - received) * 100 + expected - 1 wraps above it
MAX_EXPECTED == 42524428

\* the range mezon_audio_create accepts for adaptation
ASSUME BitrateAssumption ==
  /\ MIN_BITRATE \in Nat /\ INITIAL_BITRATE \in Nat /\ MAX_BITRATE \in Nat
  /\ 16000 <= MIN_BITRATE /\ MIN_BITRATE <= INITIAL_BITRATE
  /\ INITIAL_BITRATE <= MAX_BITRATE /\ MAX_BITRATE <= 48000
  /\ \A r \in Reports : r.expected \in 0 .. MAX_EXPECTED /\ r.received \in Nat

OPUS_EXPECTED_LOSS_PERCENT == 10

VARIABLES
  current_bitrate, loss_percent, clean_reports,  \* mezon_bitrate_controller_t
  decision                                       \* what the last call returned

controllerVars == <<current_bitrate, loss_percent, clean_reports>>
bitrateVars == <<controllerVars, decision>>

ControllerInit ==
  /\ current_bitrate = INITIAL_BITRATE
  /\ loss_percent = OPUS_EXPECTED_LOSS_PERCENT
  /\ clean_reports = 0
  /\ decision = [bitrate |-> INITIAL_BITRATE,
                 loss_percent |-> OPUS_EXPECTED_LOSS_PERCENT,
                 increased |-> FALSE, decreased |-> FALSE]

-----------------------------------------------------------------------------
\* (value + 500) / 1000 * 1000 first, then the limits: a limit that is not
\* a multiple of 1000 is itself a possible result.
Rounded(value) == ((value + 500) \div 1000) * 1000

Clamped(value) ==
  IF value < MIN_BITRATE THEN MIN_BITRATE
  ELSE IF value > MAX_BITRATE THEN MAX_BITRATE ELSE value

ClampRound(value) == Clamped(Rounded(value))

Valid(expected, received) == expected # 0 /\ received <= expected

\* the percentage of the packets lost, rounded up, capped at 20
Loss_Uncapped(expected, received) ==
  ((expected - received) * 100 + expected - 1) \div expected
Loss(expected, received) ==
  LET percent == ((expected - received) * 100 + expected - 1) \div expected
  IN  IF percent > 20 THEN 20 ELSE percent

Lossy(expected, received) == Loss(expected, received) >= 2

\* Only a report of at least 20 packets counts as clean.
Clean(expected, received) == ~ Lossy(expected, received) /\ expected >= 20

Smoothed_RoundedUp(percent, loss) == (percent * 3 + loss + 3) \div 4
Smoothed(percent, loss) == (percent * 3 + loss + 2) \div 4

Factor_Inverted(loss) == IF loss >= 10 THEN 75 ELSE IF loss >= 5 THEN 85 ELSE 105
Factor(loss) == IF loss >= 10 THEN 75 ELSE IF loss >= 5 THEN 85 ELSE 95

ThirdClean(expected, received) ==
  Clean(expected, received) /\ clean_reports + 1 >= 3

Target(expected, received) ==
  IF Lossy(expected, received)
  THEN (current_bitrate * Factor(Loss(expected, received))) \div 100
  ELSE IF ThirdClean(expected, received) THEN current_bitrate + 2000
  ELSE current_bitrate

CleanAfter_NotCleared(expected, received) ==
  IF ThirdClean(expected, received) THEN 0
  ELSE IF Clean(expected, received) THEN clean_reports + 1
  ELSE clean_reports
CleanAfter(expected, received) ==
  IF Lossy(expected, received) \/ ThirdClean(expected, received) THEN 0
  ELSE IF Clean(expected, received) THEN clean_reports + 1
  ELSE clean_reports

\* A report that counts nothing, or more than was expected, is refused.
Refuse(expected, received) ==
  /\ ~ Valid(expected, received)
  /\ decision' = [bitrate |-> current_bitrate, loss_percent |-> loss_percent,
                  increased |-> FALSE, decreased |-> FALSE]
  /\ UNCHANGED controllerVars

Accept(expected, received) ==
  LET target == ClampRound(Target(expected, received))
      percent == Smoothed(loss_percent, Loss(expected, received))
  IN  /\ Valid(expected, received)
      /\ current_bitrate' = target
      /\ loss_percent' = percent
      /\ clean_reports' = CleanAfter(expected, received)
      /\ decision' = [bitrate |-> target, loss_percent |-> percent,
                      increased |-> target > current_bitrate,
                      decreased |-> target < current_bitrate]

Update(expected, received) == Refuse(expected, received)
                              \/ Accept(expected, received)

ControllerNext == \E r \in Reports : Update(r.expected, r.received)

ControllerSpec == ControllerInit /\ [][ControllerNext]_bitrateVars

-----------------------------------------------------------------------------
(* Properties                                                              *)

(* The controller stays within the configured range, the loss percentage   *)
(* given to Opus between 2 and 19 (the ends of the smoothing, which it     *)
(* never leaves whatever is reported), and never three clean reports are   *)
(* waiting.                                                                *)
ControllerTypeOK ==
  /\ current_bitrate \in MIN_BITRATE .. MAX_BITRATE
  /\ loss_percent \in 2 .. 19
  /\ clean_reports \in 0 .. 2

(* A report of loss never raises the bitrate, in spite of the rounding to  *)
(* the nearest 1000 that follows the reduction.                            *)
LossNeverRaises ==
  [][\A r \in Reports :
       Accept(r.expected, r.received) /\ Lossy(r.expected, r.received)
         => current_bitrate' <= current_bitrate]_bitrateVars

CleanStep == \E r \in Reports : /\ Accept(r.expected, r.received)
                                /\ Clean(r.expected, r.received)
HeavyStep == \E r \in Reports : /\ Accept(r.expected, r.received)
                                /\ Loss(r.expected, r.received) = 20

(* A report that a fifth or more is lost always moves the sender towards   *)
(* its lowest bitrate and its highest loss protection, until it is there:  *)
(* neither the rounding nor the smoothing stops the descent on the way.    *)
HeavyLossDescends ==
  [][HeavyStep =>
       /\ current_bitrate' < current_bitrate \/ current_bitrate' = MIN_BITRATE
       /\ loss_percent' > loss_percent \/ loss_percent' = 19]_bitrateVars

AlwaysClean == []<><<CleanStep>>_bitrateVars /\ <>[][CleanStep]_bitrateVars

(* If from some time on every report is clean, the bitrate climbs to the   *)
(* maximum and stays, and the expected loss falls to 2 percent.            *)
CleanConverges ==
  AlwaysClean => <>[](current_bitrate = MAX_BITRATE /\ loss_percent = 2)
=============================================================================
