------------------------ MODULE AudioFeedbackProofs -------------------------
(***************************************************************************)
(* Proofs about the bitrate controller, for every range that               *)
(* mezon_audio_create accepts and every sequence of reports; and about the *)
(* sending side of the adaptation, for every set of reports, every timeout *)
(* and every control of the encoder that may fail.                         *)
(***************************************************************************)
EXTENDS AudioFeedback, MCBitrateController, SeqArithProofs, TLAPS

(* The loss computed from a valid report is a percentage of at most 20.    *)
LEMMA LossRange ==
  ASSUME NEW e \in Nat, NEW r \in Nat, Valid(e, r)
  PROVE  Loss(e, r) \in 0 .. 20
<1> DEFINE n == (e - r) * 100 + e - 1
           percent == n \div e
<1>1. n \in Nat /\ e > 0
  BY DEF Valid
<1> HIDE DEF n
<1>2. percent \in Nat
  <2>1. \A a \in Nat, b \in Nat : b > 0 => a \div b \in Nat
    OBVIOUS
  <2> QED  BY <1>1, <2>1
<1>3. Loss(e, r) = IF percent > 20 THEN 20 ELSE percent
  BY DEF Loss, n
<1> HIDE DEF percent
<1> QED  BY <1>2, <1>3

(* The limits contain every rounded value.                                 *)
LEMMA ClampRange ==
  ASSUME NEW v \in Int
  PROVE  Clamped(v) \in MIN_BITRATE .. MAX_BITRATE
BY BitrateAssumption DEF Clamped

LEMMA RoundedBound ==
  ASSUME NEW v \in Int
  PROVE  Rounded(v) \in Int /\ Rounded(v) <= v + 500
BY DEF Rounded

(* The smoothing keeps 2..19 and moves up on the highest loss.             *)
LEMMA SmoothedRange ==
  ASSUME NEW p \in 2 .. 19, NEW l \in 0 .. 20
  PROVE  /\ Smoothed(p, l) \in 2 .. 19
         /\ l = 20 => Smoothed(p, l) > p \/ Smoothed(p, l) = 19
BY DEF Smoothed

(* Every factor of a lossy report leaves less than the bitrate even after  *)
(* rounding up, because no bitrate is below 16000.                         *)
LEMMA LossyTarget ==
  ASSUME NEW b \in MIN_BITRATE .. MAX_BITRATE, NEW l \in 2 .. 20
  PROVE  /\ (b * Factor(l)) \div 100 \in Int
         /\ ClampRound((b * Factor(l)) \div 100) <= b
         /\ \/ ClampRound((b * Factor(l)) \div 100) < b
            \/ ClampRound((b * Factor(l)) \div 100) = MIN_BITRATE
<1> DEFINE t == (b * Factor(l)) \div 100
<1>1. b \in Int /\ 16000 <= b /\ MIN_BITRATE <= b /\ b <= MAX_BITRATE
  BY BitrateAssumption
<1>2. t \in Int /\ t + 500 < b
  <2>1. CASE Factor(l) = 75
    BY <1>1, <2>1
  <2>2. CASE Factor(l) = 85
    BY <1>1, <2>2
  <2>3. CASE Factor(l) = 95
    BY <1>1, <2>3
  <2> QED  BY <2>1, <2>2, <2>3 DEF Factor
<1> HIDE DEF t
<1>3. Rounded(t) \in Int /\ Rounded(t) < b
  BY <1>1, <1>2, RoundedBound
<1>4. Clamped(Rounded(t)) < b \/ Clamped(Rounded(t)) = MIN_BITRATE
  BY <1>1, <1>3, BitrateAssumption DEF Clamped
<1>5. Clamped(Rounded(t)) \in Int /\ Clamped(Rounded(t)) <= b
  BY <1>1, <1>3, BitrateAssumption DEF Clamped
<1> QED  BY <1>2, <1>4, <1>5 DEF ClampRound, t

(* A valid report takes the controller to a state of the right types.      *)
LEMMA AcceptType ==
  ASSUME ControllerTypeOK, NEW e \in Nat, NEW r \in Nat, Accept(e, r)
  PROVE  ControllerTypeOK'
<1>1. Loss(e, r) \in 0 .. 20
  BY LossRange DEF Accept
<1>2. current_bitrate \in MIN_BITRATE .. MAX_BITRATE /\ current_bitrate \in Int
  BY BitrateAssumption DEF ControllerTypeOK
<1>3. Target(e, r) \in Int
  <2>1. CASE Lossy(e, r)
    <3>1. Loss(e, r) \in 2 .. 20
      BY <1>1, <2>1 DEF Lossy
    <3> QED  BY <1>2, <2>1, <3>1, LossyTarget DEF Target
  <2>2. CASE ~ Lossy(e, r)
    BY <1>2, <2>2 DEF Target
  <2> QED  BY <2>1, <2>2
<1>4. current_bitrate' \in MIN_BITRATE .. MAX_BITRATE
  <2>1. Rounded(Target(e, r)) \in Int
    BY <1>3, RoundedBound
  <2> QED  BY <2>1, ClampRange DEF Accept, ClampRound
<1>5. loss_percent' \in 2 .. 19
  BY <1>1, SmoothedRange DEF Accept, ControllerTypeOK
<1>6. clean_reports' \in 0 .. 2
  <2>1. clean_reports \in 0 .. 2 /\ clean_reports' = CleanAfter(e, r)
    BY DEF Accept, ControllerTypeOK
  <2> QED  BY <2>1 DEF CleanAfter, ThirdClean
<1> QED  BY <1>4, <1>5, <1>6 DEF ControllerTypeOK

LEMMA ControllerTypeNext ==
  ControllerTypeOK /\ [ControllerNext]_bitrateVars => ControllerTypeOK'
<1> SUFFICES ASSUME ControllerTypeOK, [ControllerNext]_bitrateVars
             PROVE  ControllerTypeOK'
  OBVIOUS
<1>1. ASSUME NEW x \in Reports, Accept(x.expected, x.received)
      PROVE  ControllerTypeOK'
  BY <1>1, AcceptType, BitrateAssumption
<1>2. ASSUME NEW x \in Reports, Refuse(x.expected, x.received)
      PROVE  ControllerTypeOK'
  BY <1>2 DEF Refuse, controllerVars, ControllerTypeOK
<1>3. CASE UNCHANGED bitrateVars
  BY <1>3 DEF bitrateVars, controllerVars, ControllerTypeOK
<1> QED  BY <1>1, <1>2, <1>3 DEF ControllerNext, Update

(* The bitrate stays in the configured range, whatever is reported.        *)
THEOREM ControllerInRange == ControllerSpec => []ControllerTypeOK
<1>1. ControllerInit => ControllerTypeOK
  BY BitrateAssumption
     DEF ControllerInit, ControllerTypeOK, OPUS_EXPECTED_LOSS_PERCENT
<1> QED  BY <1>1, ControllerTypeNext, PTL DEF ControllerSpec

(* A lossy report never raises the bitrate.                                *)
THEOREM ControllerLossNeverRaises == ControllerSpec => LossNeverRaises
<1> DEFINE A == \A r \in Reports :
                  Accept(r.expected, r.received)
                  /\ Lossy(r.expected, r.received)
                    => current_bitrate' <= current_bitrate
<1>1. ControllerTypeOK => A
  <2> SUFFICES ASSUME ControllerTypeOK, NEW x \in Reports,
                      Accept(x.expected, x.received),
                      Lossy(x.expected, x.received)
               PROVE  current_bitrate' <= current_bitrate
    OBVIOUS
  <2>1. x.expected \in Nat /\ x.received \in Nat
    BY BitrateAssumption
  <2>2. Loss(x.expected, x.received) \in 2 .. 20
    BY <2>1, LossRange DEF Accept, Lossy
  <2> QED  BY <2>2, LossyTarget DEF Accept, Target, ControllerTypeOK
<1>2. ControllerTypeOK /\ [ControllerNext]_bitrateVars => [A]_bitrateVars
  BY <1>1
<1> HIDE DEF A
<1>3. ControllerSpec => [][A]_bitrateVars
  BY <1>2, ControllerInRange, PTL DEF ControllerSpec
<1> QED  BY <1>3 DEF A, LossNeverRaises

(* Persistent heavy loss leads all the way down.                           *)
THEOREM ControllerHeavyLossDescends == ControllerSpec => HeavyLossDescends
<1> DEFINE A == HeavyStep =>
       /\ current_bitrate' < current_bitrate \/ current_bitrate' = MIN_BITRATE
       /\ loss_percent' > loss_percent \/ loss_percent' = 19
<1>1. ControllerTypeOK => A
  <2> SUFFICES ASSUME ControllerTypeOK, NEW x \in Reports,
                      Accept(x.expected, x.received),
                      Loss(x.expected, x.received) = 20
               PROVE  /\ \/ current_bitrate' < current_bitrate
                         \/ current_bitrate' = MIN_BITRATE
                      /\ loss_percent' > loss_percent \/ loss_percent' = 19
    BY DEF HeavyStep
  <2>1. Lossy(x.expected, x.received)
    BY DEF Lossy
  <2>2. \/ current_bitrate' < current_bitrate
        \/ current_bitrate' = MIN_BITRATE
    BY <2>1, LossyTarget DEF Accept, Target, ControllerTypeOK
  <2>3. loss_percent' > loss_percent \/ loss_percent' = 19
    BY SmoothedRange DEF Accept, ControllerTypeOK
  <2> QED  BY <2>2, <2>3
<1>2. ControllerTypeOK /\ [ControllerNext]_bitrateVars => [A]_bitrateVars
  BY <1>1
<1> HIDE DEF A
<1>3. ControllerSpec => [][A]_bitrateVars
  BY <1>2, ControllerInRange, PTL DEF ControllerSpec
<1> QED  BY <1>3 DEF A, HeavyLossDescends

(* A report of fewer than 100 packets is clean only if none is lost: the   *)
(* loss is rounded up, and one packet is more than 1 percent.              *)
LEMMA CleanLosesNone ==
  ASSUME NEW e \in Nat, NEW r \in Nat, Valid(e, r), Clean(e, r), e < 100
  PROVE  Loss(e, r) = 0
<1> DEFINE n == (e - r) * 100 + e - 1
           percent == n \div e
<1>1. e \in 20 .. 99 /\ r \in 0 .. e /\ Loss(e, r) < 2
  BY LossRange DEF Valid, Clean, Lossy
<1>2. r = e
  <2>1. SUFFICES ASSUME r < e PROVE FALSE
    BY <1>1
  <2>2. n \in Int /\ n >= 2 * e
    BY <1>1, <2>1
  <2> HIDE DEF n
  <2>3. percent \in Int /\ percent >= 2
    <3>1. \A a \in Int, b \in Int : b > 0 /\ a >= 2 * b
                                       => a \div b \in Int /\ a \div b >= 2
      OBVIOUS
    <3> QED  BY <1>1, <2>2, <3>1
  <2>4. Loss(e, r) = IF percent > 20 THEN 20 ELSE percent
    BY DEF Loss, n
  <2> HIDE DEF percent
  <2> QED  BY <1>1, <2>3, <2>4
<1>3. (e - e) * 100 + e - 1 = e - 1 /\ (e - 1) \div e = 0
  BY <1>1
<1> QED  BY <1>2, <1>3 DEF Loss

\* k increases away from the lowest bitrate and the highest expected loss
Climbed(k) ==
  /\ current_bitrate >= 16000 + 2000 * k \/ current_bitrate = MAX_BITRATE
  /\ loss_percent + k <= 19 \/ loss_percent = 2

\* The premises of convergence.  A limit 1 to 499 bit/s above a multiple of
\* 1000 is left again by the rounding; a clean report of 100 packets or more
\* can still hold a loss of 1 percent, and the smoothing then stops at 3.
MaxIsReached == Rounded(MAX_BITRATE) >= MAX_BITRATE
ShortReports == \A r \in Reports : r.expected < 100

(* No clean report undoes an increase, and the third one makes one more.   *)
LEMMA ClimbAccepted ==
  ASSUME MaxIsReached, ControllerTypeOK, NEW k \in Nat, Climbed(k),
         NEW e \in Nat, NEW r \in Nat, Accept(e, r), Clean(e, r), e < 100
  PROVE  /\ Climbed(k)'
         /\ clean_reports = 2 => Climbed(k + 1)'
         /\ clean_reports'
              = IF clean_reports = 2 THEN 0 ELSE clean_reports + 1
<1> DEFINE b == current_bitrate
           t == IF clean_reports = 2 THEN b + 2000 ELSE b
<1>1. /\ b \in Int /\ 16000 <= b /\ MIN_BITRATE <= b /\ b <= MAX_BITRATE
      /\ MIN_BITRATE \in Int /\ MAX_BITRATE \in Int
      /\ loss_percent \in 2 .. 19 /\ clean_reports \in 0 .. 2
  BY BitrateAssumption DEF ControllerTypeOK
<1>2. ~ Lossy(e, r) /\ (ThirdClean(e, r) <=> clean_reports = 2)
  BY <1>1 DEF Clean, ThirdClean
<1>3. Target(e, r) = t
  BY <1>2 DEF Target
<1>4. current_bitrate' = Clamped(Rounded(t))
  BY <1>3 DEF Accept, ClampRound
<1>5. /\ t = MAX_BITRATE \/ t > MAX_BITRATE
           => current_bitrate' = MAX_BITRATE
      /\ \A i \in Nat : t >= 16000 + 2000 * i
           => \/ current_bitrate' >= 16000 + 2000 * i
              \/ current_bitrate' = MAX_BITRATE
  <2>1. t \in Int /\ 16000 <= t
    BY <1>1
  <2> HIDE DEF t
  <2>2. /\ Rounded(t) \in Int
        /\ t >= MAX_BITRATE => Rounded(t) >= Rounded(MAX_BITRATE)
        /\ \A i \in Nat : t >= 16000 + 2000 * i
                            => Rounded(t) >= 16000 + 2000 * i
    BY <1>1, <2>1 DEF Rounded
  <2>3. t >= MAX_BITRATE => Rounded(t) >= MAX_BITRATE
    <3>1. Rounded(MAX_BITRATE) \in Int
      BY <1>1, RoundedBound
    <3> QED  BY <1>1, <2>1, <2>2, <3>1 DEF MaxIsReached
  <2> QED  BY <1>1, <1>4, <2>1, <2>2, <2>3, BitrateAssumption DEF Clamped
<1>6. loss_percent' = Smoothed(loss_percent, 0)
  BY CleanLosesNone DEF Accept
<1>7. /\ loss_percent' \in Int
      /\ loss_percent = 2 => loss_percent' = 2
      /\ loss_percent > 2 => loss_percent' <= loss_percent - 1
  BY <1>1, <1>6 DEF Smoothed
<1>8. clean_reports' = IF clean_reports = 2 THEN 0 ELSE clean_reports + 1
  BY <1>2 DEF Accept, CleanAfter, Clean
<1>9. \/ loss_percent' + k <= 19 /\ loss_percent' + (k + 1) <= 19
      \/ loss_percent' = 2
  <2>1. \A p, q \in Int : q <= p - 1 /\ p + k <= 19
                           => q + k <= 19 /\ q + (k + 1) <= 19
    OBVIOUS
  <2>2. loss_percent \in Int /\ (loss_percent = 2 \/ loss_percent > 2)
    BY <1>1
  <2>3. loss_percent + k <= 19 \/ loss_percent = 2
    BY DEF Climbed
  <2> QED  BY <1>7, <2>1, <2>2, <2>3
<1>10. Climbed(k)'
  <2>1. \/ current_bitrate' >= 16000 + 2000 * k
        \/ current_bitrate' = MAX_BITRATE
    <3>1. CASE b >= 16000 + 2000 * k
      <4>1. t >= 16000 + 2000 * k
        BY <1>1, <3>1
      <4> QED  BY <1>5, <4>1
    <3>2. CASE b = MAX_BITRATE
      <4>1. t = MAX_BITRATE \/ t > MAX_BITRATE
        BY <1>1, <3>2
      <4> QED  BY <1>5, <4>1
    <3> QED  BY <3>1, <3>2 DEF Climbed
  <2>2. loss_percent' + k <= 19 \/ loss_percent' = 2
    BY <1>9
  <2> QED  BY <2>1, <2>2 DEF Climbed
<1>11. ASSUME clean_reports = 2 PROVE Climbed(k + 1)'
  <2>1. \/ current_bitrate' >= 16000 + 2000 * (k + 1)
        \/ current_bitrate' = MAX_BITRATE
    <3>1. CASE b >= 16000 + 2000 * k
      <4>1. PICK m \in Nat : m = k + 1
        OBVIOUS
      <4>2. t >= 16000 + 2000 * m
        BY <1>1, <1>11, <3>1, <4>1
      <4>3. \/ current_bitrate' >= 16000 + 2000 * m
            \/ current_bitrate' = MAX_BITRATE
        BY <1>5, <4>2
      <4> QED  BY <4>1, <4>3
    <3>2. CASE b = MAX_BITRATE
      <4>1. t > MAX_BITRATE
        BY <1>1, <1>11, <3>2
      <4> QED  BY <1>5, <4>1
    <3> QED  BY <3>1, <3>2 DEF Climbed
  <2>2. loss_percent' + (k + 1) <= 19 \/ loss_percent' = 2
    BY <1>9
  <2> QED  BY <2>1, <2>2 DEF Climbed
<1> QED  BY <1>8, <1>10, <1>11


\* What a step of a run of clean reports does to the rank k: it is kept, and
\* m replaces it with the third report.
Climbs(k, m) ==
  ControllerTypeOK /\ Climbed(k) =>
    /\ [CleanStep]_bitrateVars => Climbed(k)'
    /\ clean_reports = 2 /\ <<CleanStep>>_bitrateVars => Climbed(m)'

LEMMA ClimbStep ==
  ASSUME MaxIsReached, ShortReports, NEW k \in Nat
  PROVE  Climbs(k, k + 1)
<1> SUFFICES ASSUME ControllerTypeOK, Climbed(k), [CleanStep]_bitrateVars
             PROVE  /\ Climbed(k)'
                    /\ clean_reports = 2 /\ <<CleanStep>>_bitrateVars
                         => Climbed(k + 1)'
  BY DEF Climbs
<1>1. ASSUME NEW x \in Reports, Accept(x.expected, x.received),
             Clean(x.expected, x.received)
      PROVE  Climbed(k)' /\ (clean_reports = 2 => Climbed(k + 1)')
  <2>1. /\ x.expected \in Nat /\ x.received \in Nat
        /\ x.expected < 100
    BY BitrateAssumption DEF ShortReports
  <2> QED  BY <1>1, <2>1, ClimbAccepted
<1>2. ASSUME UNCHANGED bitrateVars
      PROVE  Climbed(k)'
  BY <1>2 DEF bitrateVars, controllerVars, Climbed
<1> QED  BY <1>1, <1>2 DEF CleanStep

\* Every clean report moves the count on, and the third starts it again.
CountsClean ==
  ControllerTypeOK /\ [CleanStep]_bitrateVars =>
    /\ clean_reports = 0 => (clean_reports = 0)' \/ (clean_reports = 1)'
    /\ clean_reports = 1 => (clean_reports = 1)' \/ (clean_reports = 2)'
    /\ <<CleanStep>>_bitrateVars =>
         /\ clean_reports = 0 => (clean_reports = 1)'
         /\ clean_reports = 1 => (clean_reports = 2)'
    /\ clean_reports = 2
         => (clean_reports = 2)' \/ <<CleanStep>>_bitrateVars

(* Every clean report moves the count on, and the third starts it again.   *)
LEMMA CleanCounts ==
  ASSUME MaxIsReached, ShortReports
  PROVE  CountsClean
<1> SUFFICES ASSUME ControllerTypeOK, [CleanStep]_bitrateVars
             PROVE  \/ UNCHANGED bitrateVars
                    \/ clean_reports'
                         = IF clean_reports = 2 THEN 0 ELSE clean_reports + 1
  <2>1. ControllerTypeOK => clean_reports \in 0 .. 2
    BY DEF ControllerTypeOK
  <2>2. UNCHANGED bitrateVars => UNCHANGED clean_reports
    BY DEF bitrateVars, controllerVars
  <2> QED  BY <2>1, <2>2 DEF CountsClean
<1>1. ASSUME NEW x \in Reports, Accept(x.expected, x.received),
             Clean(x.expected, x.received)
      PROVE  clean_reports'
               = IF clean_reports = 2 THEN 0 ELSE clean_reports + 1
  <2>1. /\ x.expected \in Nat /\ x.received \in Nat
        /\ x.expected < 100
    BY BitrateAssumption DEF ShortReports
  <2>2. ~ Lossy(x.expected, x.received)
        /\ (ThirdClean(x.expected, x.received) <=> clean_reports = 2)
    BY <1>1 DEF Clean, ThirdClean, ControllerTypeOK
  <2> QED  BY <1>1, <2>2 DEF Accept, CleanAfter
<1> QED  BY <1>1 DEF CleanStep

(* For every accepted range whose limit is reached and reports of fewer    *)
(* than 100 packets: once all reports are clean the controller comes to    *)
(* rest at the highest bitrate and the lowest expected loss.               *)
THEOREM ControllerConverges ==
  ASSUME MaxIsReached, ShortReports
  PROVE  ControllerSpec => CleanConverges
<1> DEFINE Z == clean_reports = 0
           O == clean_reports = 1
           T == clean_reports = 2
           End == current_bitrate = MAX_BITRATE /\ loss_percent = 2
<1>1. ControllerTypeOK => Climbed(0) /\ (Z \/ O \/ T)
  BY BitrateAssumption DEF ControllerTypeOK, Climbed
<1>2. ControllerTypeOK /\ Climbed(17) => End
  BY BitrateAssumption DEF ControllerTypeOK, Climbed
<1>3. CountsClean
  BY CleanCounts
<1>4. /\ Climbs(0, 1) /\ Climbs(1, 2) /\ Climbs(2, 3)
      /\ Climbs(3, 4) /\ Climbs(4, 5) /\ Climbs(5, 6)
      /\ Climbs(6, 7) /\ Climbs(7, 8) /\ Climbs(8, 9)
      /\ Climbs(9, 10) /\ Climbs(10, 11) /\ Climbs(11, 12)
      /\ Climbs(12, 13) /\ Climbs(13, 14) /\ Climbs(14, 15)
      /\ Climbs(15, 16) /\ Climbs(16, 17) /\ Climbs(17, 18)
  BY ClimbStep
<1> HIDE DEF Z, O, T, End
<1>5. ControllerSpec
        => (AlwaysClean => <>[]End)
  BY <1>1, <1>2, <1>3, <1>4, ControllerInRange, PTL
     DEF AlwaysClean, CountsClean, Climbs, Z, O, T
<1> QED  BY <1>5 DEF CleanConverges, End

(* Apart from rounding, only the third clean report raises the bitrate.    *)
LEMMA RaisedByThird ==
  ASSUME ControllerTypeOK, NEW e \in Nat, NEW r \in Nat, Accept(e, r), Raised
  PROVE  /\ ~ Lossy(e, r) /\ ThirdClean(e, r)
         /\ current_bitrate' <= Rounded(current_bitrate + 2000)
<1>1. /\ current_bitrate \in MIN_BITRATE .. MAX_BITRATE
      /\ current_bitrate \in Int /\ MIN_BITRATE \in Int /\ MAX_BITRATE \in Int
      /\ MIN_BITRATE <= current_bitrate
  BY BitrateAssumption DEF ControllerTypeOK
<1>2. /\ current_bitrate' = ClampRound(Target(e, r))
      /\ ~ (current_bitrate' <= current_bitrate)
      /\ ~ (current_bitrate' <= Rounded(current_bitrate))
      /\ Valid(e, r)
  <2>1. current_bitrate' = ClampRound(Target(e, r)) /\ Valid(e, r)
    BY DEF Accept
  <2>2. current_bitrate' \in Int
    <3>1. ControllerTypeOK'
      BY AcceptType
    <3> QED  BY <1>1, <3>1, BitrateAssumption DEF ControllerTypeOK
  <2>3. Rounded(current_bitrate) \in Int
    BY <1>1, RoundedBound
  <2> QED  BY <1>1, <2>1, <2>2, <2>3 DEF Raised
<1>3. ~ Lossy(e, r)
  <2>1. SUFFICES ASSUME Lossy(e, r)  PROVE FALSE
    OBVIOUS
  <2>2. Loss(e, r) \in 2 .. 20
    BY <1>2, <2>1, LossRange DEF Lossy
  <2> QED  BY <1>1, <1>2, <2>1, <2>2, LossyTarget DEF Target
<1>4. ASSUME NEW v \in Int
      PROVE  Clamped(v) <= v \/ Clamped(v) <= current_bitrate
  BY <1>1 DEF Clamped
<1>5. ThirdClean(e, r)
  <2>1. SUFFICES ASSUME ~ ThirdClean(e, r)  PROVE FALSE
    OBVIOUS
  <2>2. current_bitrate' = Clamped(Rounded(current_bitrate))
    BY <1>2, <1>3, <2>1 DEF Target, ClampRound
  <2>3. Rounded(current_bitrate) \in Int
    BY <1>1, RoundedBound
  <2> QED  BY <1>2, <1>4, <2>2, <2>3
<1>6. current_bitrate' <= Rounded(current_bitrate + 2000)
  <2>1. current_bitrate' = Clamped(Rounded(current_bitrate + 2000))
    BY <1>2, <1>3, <1>5 DEF Target, ClampRound
  <2>2. Rounded(current_bitrate + 2000) \in Int
    BY <1>1, RoundedBound
  <2> QED  BY <1>2, <1>4, <2>1, <2>2
<1> QED  BY <1>3, <1>5, <1>6

RunInv == /\ ControllerTypeOK
          /\ clean_run \in 0 .. 3 /\ clean_reports <= clean_run

(* The reports the controller counts towards an increase are clean ones    *)
(* since the last lossy one, and none counts towards two increases.        *)
LEMMA RunKept ==
  ASSUME RunInv, [MCNext]_mcVars
  PROVE  RunInv'
<1>1. /\ ControllerTypeOK /\ clean_run \in 0 .. 3
      /\ clean_reports \in 0 .. 2 /\ clean_reports <= clean_run
  BY DEF RunInv, ControllerTypeOK
<1>2. ASSUME NEW x \in Reports, Accept(x.expected, x.received),
             clean_run' = IF Raised THEN 0
                          ELSE RunAfter(x.expected, x.received)
      PROVE  RunInv'
  <2> DEFINE e == x.expected
             r == x.received
  <2>1. e \in Nat /\ r \in Nat /\ Valid(e, r)
    BY <1>2, BitrateAssumption DEF Accept
  <2>2. ControllerTypeOK' /\ clean_reports' = CleanAfter(e, r)
    BY <1>1, <1>2, <2>1, AcceptType DEF Accept
  <2>3. Raised => ~ Lossy(e, r) /\ ThirdClean(e, r)
    BY <1>1, <1>2, <2>1, RaisedByThird
  <2>4. clean_run' \in 0 .. 3 /\ clean_reports' <= clean_run'
    BY <1>1, <1>2, <2>1, <2>2, <2>3 DEF CleanAfter, ThirdClean, RunAfter
  <2> QED  BY <2>2, <2>4 DEF RunInv
<1>3. ASSUME NEW x \in Reports, Refuse(x.expected, x.received),
             clean_run' = IF Raised THEN 0
                          ELSE RunAfter(x.expected, x.received)
      PROVE  RunInv'
  <2>1. UNCHANGED controllerVars /\ ~ Valid(x.expected, x.received)
    BY <1>3 DEF Refuse
  <2>2. ~ Raised
    BY <1>1, <2>1, BitrateAssumption
    DEF Raised, controllerVars, ControllerTypeOK
  <2> QED
    BY <1>1, <1>3, <2>1, <2>2
    DEF RunAfter, controllerVars, ControllerTypeOK, RunInv
<1>4. CASE UNCHANGED mcVars
  BY <1>4 DEF mcVars, bitrateVars, controllerVars, RunInv, ControllerTypeOK
<1> QED  BY <1>2, <1>3, <1>4 DEF MCNext, Update

(* For every accepted range and all reports, the bitrate is raised only by *)
(* the third clean report since the last lossy one and the last increase.  *)
THEOREM ControllerIncrease == MCSpec => IncreaseAfterThreeClean
<1>1. MCInit => RunInv
  BY BitrateAssumption
  DEF MCInit, ControllerInit, RunInv, ControllerTypeOK,
      OPUS_EXPECTED_LOSS_PERCENT
<1>2. RunInv /\ [MCNext]_mcVars => RunInv'
  BY RunKept
<1>3. ASSUME RunInv
      PROVE  \A r \in Reports :
               Accept(r.expected, r.received) /\ Raised =>
                 /\ RunAfter(r.expected, r.received) = 3
                 /\ current_bitrate' <= Rounded(current_bitrate + 2000)
  <2>1. SUFFICES ASSUME NEW x \in Reports,
                        Accept(x.expected, x.received), Raised
                 PROVE  /\ RunAfter(x.expected, x.received) = 3
                        /\ current_bitrate' <= Rounded(current_bitrate + 2000)
    OBVIOUS
  <2>2. /\ x.expected \in Nat /\ x.received \in Nat
        /\ Valid(x.expected, x.received)
    BY <2>1, BitrateAssumption DEF Accept
  <2>3. /\ ~ Lossy(x.expected, x.received)
        /\ ThirdClean(x.expected, x.received)
        /\ current_bitrate' <= Rounded(current_bitrate + 2000)
    BY <1>3, <2>1, <2>2, RaisedByThird DEF RunInv
  <2> QED
    BY <1>3, <2>2, <2>3 DEF RunAfter, ThirdClean, RunInv, ControllerTypeOK
<1>4. RunInv => [\A r \in Reports :
                   Accept(r.expected, r.received) /\ Raised =>
                     /\ RunAfter(r.expected, r.received) = 3
                     /\ current_bitrate'
                          <= Rounded(current_bitrate + 2000)]_mcVars
  BY <1>3
<1> QED
  BY <1>1, <1>2, <1>4, PTL DEF MCSpec, IncreaseAfterThreeClean

-----------------------------------------------------------------------------
PendingIsReport == feedback_pending => pending_feedback \in Reports

(* As long as no report waits, none was accepted since the capture thread  *)
(* looked, and the test it has made of its arrival time still holds.       *)
GuardHolds ==
  pc = "age" /\ ~ feedback_pending => last_feedback_time_ns <= now_ns

FeedbackInv ==
  FeedbackTypeOK /\ PendingIsReport /\ GuardHolds /\ EncoderAsReported

LEMMA FeedbackInitial == FeedbackInit => FeedbackInv
<1> SUFFICES ASSUME FeedbackInit PROVE FeedbackInv
  OBVIOUS
<1> DEFINE initial == [bitrate |-> INITIAL_BITRATE,
                       loss |-> OPUS_EXPECTED_LOSS_PERCENT]
<1>1. initial \in Settings
  BY BitrateAssumption DEF Settings, OPUS_EXPECTED_LOSS_PERCENT
<1>2. codec = initial /\ stats = initial /\ encoder = initial
  BY DEF FeedbackInit
<1>3. ControllerTypeOK
  BY BitrateAssumption DEF FeedbackInit, ControllerInit, ControllerTypeOK,
                           OPUS_EXPECTED_LOSS_PERCENT
<1>4. pc \in CapturePc
  BY DEF FeedbackInit, CapturePc
<1>5. feedback.expected \in Nat /\ feedback.received \in Nat
  BY DEF FeedbackInit
<1>6. /\ last_feedback_time_ns \in Nat /\ last_feedback_seq \in Seq16
      /\ now_ns \in Nat /\ now \in Nat
  BY DEF FeedbackInit, Seq16, SEQ_MOD
<1>7. FeedbackTypeOK
  BY <1>1, <1>2, <1>3, <1>4, <1>5, <1>6, Zenon
     DEF FeedbackInit, FeedbackTypeOK
<1> QED
  BY <1>2, <1>7 DEF FeedbackInit, FeedbackInv, PendingIsReport,
                    GuardHolds, EncoderAsReported

-----------------------------------------------------------------------------
(* The worker: a report accepted waits, so that GuardHolds says nothing.   *)
LEMMA WorkerKeeps ==
  ASSUME FeedbackInv, Arrive \/ Submit
  PROVE  FeedbackInv'
<1> USE DEF FeedbackInv
<1>1. CASE Arrive
  <2>1. FeedbackTypeOK'
    BY <1>1 DEF Arrive, FeedbackTypeOK, ControllerTypeOK, bitrateVars,
         controllerVars, lockedVars, localVars, codecVars
  <2> QED
    BY <1>1, <2>1 DEF Arrive, lockedVars, localVars, codecVars,
         PendingIsReport, GuardHolds, EncoderAsReported
<1>2. CASE Submit
  <2>1. arriving \in [report : Reports, time : Nat]
    BY <1>2 DEF Submit, FeedbackTypeOK
  <2>2. FeedbackTypeOK'
    BY <1>2, <2>1, FeedbackAssumption
       DEF Submit, Accepted, FeedbackTypeOK, ControllerTypeOK, bitrateVars,
           controllerVars, lockedVars, localVars, codecVars
  <2>3. PendingIsReport' /\ GuardHolds'
    BY <1>2, <2>1 DEF Submit, Accepted, lockedVars, localVars,
         PendingIsReport, GuardHolds
  <2> QED
    BY <1>2, <2>2, <2>3 DEF Submit, codecVars, EncoderAsReported
<1> QED
  BY <1>1, <1>2

-----------------------------------------------------------------------------
(* The capture thread                                                      *)

LEMMA TakeKeeps ==
  ASSUME FeedbackInv, TakePending \/ ReadClock
  PROVE  FeedbackInv'
<1> USE DEF FeedbackInv
<1>1. CASE TakePending
  <2>1. /\ feedback'.expected \in Nat /\ feedback'.received \in Nat
        /\ taken' \in Reports \cup {Nothing}
        /\ stale_backoff_applied' \in BOOLEAN
        /\ feedback_pending' \in BOOLEAN
        /\ pc' \in {"update", "clock"}
    <3>1. CASE Consume
      <4>1. pending_feedback \in Reports
        BY <3>1 DEF Consume, PendingIsReport
      <4>2. feedback' = Counts(pending_feedback)
        BY <3>1 DEF Consume
      <4>3. feedback'.expected \in Nat /\ feedback'.received \in Nat
        BY <4>1, <4>2, BitrateAssumption DEF Counts
      <4> QED
        BY <3>1, <4>1, <4>3, Zenon DEF Consume
    <3>2. CASE ~ Consume
      BY <1>1, <3>2 DEF TakePending, FeedbackTypeOK
    <3> QED
      BY <3>1, <3>2
  <2>2. FeedbackTypeOK'
    BY <1>1, <2>1
       DEF TakePending, FeedbackTypeOK, ControllerTypeOK, bitrateVars,
           controllerVars, codecVars, CapturePc
  <2> QED
    BY <1>1, <2>2 DEF TakePending, Consume, codecVars, PendingIsReport,
                      GuardHolds, EncoderAsReported
<1>2. CASE ReadClock
  BY <1>2 DEF ReadClock, FeedbackTypeOK, CapturePc, ControllerTypeOK,
       bitrateVars, controllerVars, lockedVars, codecVars,
       PendingIsReport, GuardHolds, EncoderAsReported
<1> QED
  BY <1>1, <1>2

LEMMA CheckKeeps ==
  ASSUME FeedbackInv, CheckStale
  PROVE  FeedbackInv'
<1> USE DEF FeedbackInv
<1>1. /\ pc' \in CapturePc /\ now_ns' \in Nat
      /\ feedback'.expected \in Nat /\ feedback'.received \in Nat
      /\ stale_backoff_applied' \in BOOLEAN
      /\ pc' = "age" => now_ns' = now_ns /\ now_ns >= last_feedback_time_ns
  <2>1. /\ now_ns \in Nat
        /\ feedback.expected \in Nat /\ feedback.received \in Nat
        /\ stale_backoff_applied \in BOOLEAN
    BY DEF FeedbackTypeOK
  <2>2. CASE TestHave
    BY <2>1, <2>2 DEF TestHave, GoOn, Return, CapturePc
  <2>3. CASE TestGuard
    BY <2>1, <2>3 DEF TestGuard, GoOn, Return, CapturePc
  <2>4. CASE TestAge
    <3>1. StaleCounts.expected \in Nat /\ StaleCounts.received \in Nat
      BY DEF StaleCounts
    <3>2. CASE BackOff
      <4>1. /\ feedback' = StaleCounts /\ stale_backoff_applied' = TRUE
            /\ pc' = "update" /\ now_ns' = 0
        BY <3>2 DEF BackOff
      <4>2. feedback'.expected \in Nat /\ feedback'.received \in Nat
        BY <3>1, <4>1, Zenon
      <4> QED  BY <4>1, <4>2 DEF CapturePc
    <3>3. CASE Return
      BY <2>1, <3>3 DEF Return, CapturePc
    <3> QED  BY <2>4, <3>2, <3>3 DEF TestAge
  <2> QED  BY <2>2, <2>3, <2>4 DEF CheckStale
<1>2. UNCHANGED <<bitrateVars, arriving, lockedVars, taken, codecVars, now>>
  BY DEF CheckStale
<1>3. FeedbackTypeOK'
  BY <1>1, <1>2 DEF FeedbackTypeOK, ControllerTypeOK, bitrateVars,
                    controllerVars, lockedVars, codecVars
<1>4. GuardHolds'
  BY <1>1, <1>2 DEF GuardHolds, lockedVars, FeedbackTypeOK
<1> QED
  BY <1>2, <1>3, <1>4 DEF lockedVars, codecVars, PendingIsReport,
                          EncoderAsReported

(* What the controller decides is within the range of the encoder.         *)
LEMMA DecisionInRange ==
  ASSUME ControllerTypeOK, NEW e \in Nat, NEW r \in Nat, Update(e, r)
  PROVE  ControllerTypeOK' /\ Configured(decision') \in Settings
<1>1. ControllerTypeOK'
  <2>1. CASE Refuse(e, r)
    BY <2>1 DEF Refuse, ControllerTypeOK, controllerVars
  <2>2. CASE Accept(e, r)
    BY <2>2, AcceptType
  <2> QED
    BY <2>1, <2>2 DEF Update
<1>2. /\ decision'.bitrate = current_bitrate'
      /\ decision'.loss_percent = loss_percent'
  BY DEF Update, Refuse, Accept, controllerVars
<1> QED
  BY <1>1, <1>2 DEF Configured, Settings, ControllerTypeOK

LEMMA ApplyKeeps ==
  ASSUME FeedbackInv, Apply
  PROVE  FeedbackInv'
<1> USE DEF FeedbackInv
<1> DEFINE d == Configured(decision')
<1>1. ControllerTypeOK' /\ d \in Settings
  BY DecisionInRange DEF Apply, FeedbackTypeOK
<1>2. codec \in Settings /\ stats \in Settings /\ encoder \in Settings
  BY DEF FeedbackTypeOK
<1>3. /\ {codec, stats, encoder}' \subseteq Settings
      /\ EncoderAsReported'
  <2>1. CASE SetOk(decision')
    BY <1>1, <2>1 DEF SetOk, EncoderAsReported
  <2>2. CASE SetBitrateRefused
    BY <1>2, <2>2 DEF SetBitrateRefused, codecVars, EncoderAsReported
  <2>3. CASE SetLossRefused(decision')
    <3>1. d.bitrate = decision'.bitrate
      BY DEF Configured
    <3>2. [encoder EXCEPT !.bitrate = codec.bitrate] \in Settings
      BY <1>2 DEF Settings
    <3>3. [encoder EXCEPT !.bitrate = decision'.bitrate] \in Settings
      BY <1>1, <1>2, <3>1 DEF Settings
    <3>4. encoder = codec => [encoder EXCEPT !.bitrate = codec.bitrate] = codec
      BY <1>2 DEF Settings
    <3> QED
      BY <1>2, <2>3, <3>2, <3>3, <3>4, FeedbackAssumption
         DEF SetLossRefused, EncoderAsReported
  <2> QED
    BY <2>1, <2>2, <2>3 DEF Apply
<1>4. FeedbackTypeOK'
  BY <1>1, <1>3 DEF Apply, FeedbackTypeOK, lockedVars, CapturePc
<1> QED
  BY <1>3, <1>4 DEF Apply, lockedVars, PendingIsReport, GuardHolds

LEMMA FeedbackInductive ==
  FeedbackInv /\ [FeedbackNext]_feedbackVars => FeedbackInv'
<1> SUFFICES ASSUME FeedbackInv, [FeedbackNext]_feedbackVars
             PROVE  FeedbackInv'
  OBVIOUS
<1>1. CASE Arrive \/ Submit
  BY <1>1, WorkerKeeps
<1>2. CASE Capture
  BY <1>2, TakeKeeps, CheckKeeps, ApplyKeeps DEF Capture
<1>3. CASE Elapse
  BY <1>3 DEF Elapse, FeedbackInv, FeedbackTypeOK, ControllerTypeOK,
       bitrateVars, controllerVars, lockedVars, localVars, codecVars,
       PendingIsReport, GuardHolds, EncoderAsReported
<1>4. CASE UNCHANGED feedbackVars
  BY <1>4 DEF feedbackVars, FeedbackInv, FeedbackTypeOK, ControllerTypeOK,
       bitrateVars, controllerVars, lockedVars, localVars, codecVars,
       PendingIsReport, GuardHolds, EncoderAsReported
<1> QED
  BY <1>1, <1>2, <1>3, <1>4 DEF FeedbackNext

-----------------------------------------------------------------------------
(* The invariant holds in every reachable state.                           *)
THEOREM FeedbackInvariant == FeedbackSpec => []FeedbackInv
BY FeedbackInitial, FeedbackInductive, PTL DEF FeedbackSpec

(* Every variable keeps its type; the encoder is never set outside the     *)
(* configured range.                                                       *)
THEOREM FeedbackTypes == FeedbackSpec => []FeedbackTypeOK
<1>1. FeedbackInv => FeedbackTypeOK
  BY DEF FeedbackInv
<1> QED
  BY <1>1, FeedbackInvariant, PTL

(* Codec, statistics and encoder agree, whichever one control fails.       *)
THEOREM FeedbackEncoder == FeedbackSpec => []EncoderAsReported
<1>1. FeedbackInv => EncoderAsReported
  BY DEF FeedbackInv
<1> QED
  BY <1>1, FeedbackInvariant, PTL

(* The sender backs off only after more than the timeout without feedback, *)
(* unless a report was accepted during the call: then, and only then, can  *)
(* its unlocked reads disagree.                                            *)
THEOREM FeedbackBackoff == FeedbackSpec => BackoffAfterSilence
<1> DEFINE A == BackOff => \/ feedback_pending
                           \/ now_ns - last_feedback_time_ns > TIMEOUT
<1>1. FeedbackInv => A
  <2> SUFFICES ASSUME FeedbackInv, BackOff, ~ feedback_pending
               PROVE  now_ns - last_feedback_time_ns > TIMEOUT
    OBVIOUS
  <2>1. last_feedback_time_ns <= now_ns
    BY DEF FeedbackInv, GuardHolds, BackOff
  <2>2. now_ns \in Nat /\ last_feedback_time_ns \in Nat /\ TIMEOUT \in Nat
    BY FeedbackAssumption DEF FeedbackInv, FeedbackTypeOK
  <2> QED
    BY <2>1, <2>2 DEF BackOff, Expired
<1> QED
  BY <1>1, FeedbackInvariant, PTL DEF BackoffAfterSilence

-----------------------------------------------------------------------------
(* The flag and the counts last applied belong together, and the flag is   *)
(* clear from its test to the back-off.  A report that counts as the       *)
(* back-off does cannot be told from one, so that none may.                *)
StaleIsApplied ==
  /\ stale_backoff_applied <=> feedback = StaleCounts
  /\ pc \in {"guard", "age"} => ~ stale_backoff_applied

(* One silence, one backoff.                                               *)
THEOREM FeedbackOneBackoff ==
  ASSUME \A r \in Reports : Counts(r) # StaleCounts
  PROVE  FeedbackSpec => OneBackoffPerSilence
<1>1. FeedbackInit => StaleIsApplied
  BY DEF FeedbackInit, StaleIsApplied, StaleCounts
<1>2. FeedbackInv /\ StaleIsApplied /\ [FeedbackNext]_feedbackVars
        => StaleIsApplied'
  BY DEF FeedbackInv, PendingIsReport, StaleIsApplied, FeedbackNext, Arrive,
       Submit, Capture, TakePending, Consume, ReadClock, CheckStale,
       TestHave, TestGuard, TestAge, Armed, GoOn, BackOff, Return, Apply,
       Elapse, feedbackVars, localVars
<1>3. StaleIsApplied => (BackOff => feedback # StaleCounts)
  BY DEF StaleIsApplied, BackOff
<1> QED
  BY <1>1, <1>2, <1>3, FeedbackInvariant, PTL
     DEF FeedbackSpec, OneBackoffPerSilence

-----------------------------------------------------------------------------
(* The order of numbers is circular.  Half a circle of them, from any      *)
(* first one on and over the wrap, has an order.                           *)
WithinHalf(first) ==
  \A r \in Reports : Distance(first, r.report_seq) < HALF_SEQ

(* The place of a report in that order.                                    *)
Place(first, r) == Distance(first, r.report_seq)

(* What the controller consumed last is no newer than what the worker      *)
(* accepted last, and older than what is still to be consumed.             *)
OrderInv(first) ==
  /\ have_feedback_seq =>
       \E r \in Reports : last_feedback_seq = r.report_seq
  /\ feedback_pending =>
       have_feedback_seq /\ pending_feedback.report_seq = last_feedback_seq
  /\ taken # Nothing =>
       /\ have_feedback_seq
       /\ Place(first, taken) <= Distance(first, last_feedback_seq)
       /\ feedback_pending =>
            Place(first, taken) < Distance(first, last_feedback_seq)

LEMMA PlaceType ==
  ASSUME NEW first \in Seq16, NEW r \in Reports
  PROVE  r.report_seq \in Seq16 /\ Place(first, r) \in Nat
BY FeedbackAssumption, DistanceType DEF Place

LEMMA NewerIsAhead ==
  ASSUME NEW first \in Seq16, WithinHalf(first),
         NEW r \in Reports, NEW s \in Reports
  PROVE  SeqBefore(r.report_seq, s.report_seq)
           <=> Place(first, r) < Place(first, s)
BY PlaceType, OrderFrom DEF WithinHalf, Place

LEMMA SubmitOrder ==
  ASSUME FeedbackInv, NEW first \in Seq16, WithinHalf(first),
         OrderInv(first), Submit
  PROVE  OrderInv(first)'
<1>1. taken' = taken /\ taken \in Reports \cup {Nothing}
  BY DEF Submit, localVars, FeedbackInv, FeedbackTypeOK
<1>2. CASE UNCHANGED lockedVars
  BY <1>1, <1>2 DEF lockedVars, OrderInv, Place
<1>3. ASSUME NEW r \in Reports, NEW time, Newer(r), Accepted(r, time)
      PROVE  OrderInv(first)'
  <2>1. /\ pending_feedback' = r /\ last_feedback_seq' = r.report_seq
        /\ have_feedback_seq' /\ feedback_pending'
    BY <1>3 DEF Accepted
  <2>2. CASE taken = Nothing
    BY <1>1, <2>1, <2>2 DEF OrderInv
  <2>3. CASE taken # Nothing
    <3>1. taken \in Reports /\ have_feedback_seq
          /\ Place(first, taken) <= Distance(first, last_feedback_seq)
      BY <1>1, <2>3 DEF OrderInv
    <3>2. PICK s \in Reports : last_feedback_seq = s.report_seq
      BY <3>1 DEF OrderInv
    <3>3. SeqBefore(s.report_seq, r.report_seq)
      BY <1>3, <3>1, <3>2 DEF Newer
    <3>4. Place(first, s) < Place(first, r)
      BY <3>3, NewerIsAhead
    <3>5. Place(first, taken) <= Place(first, s)
      BY <3>1, <3>2 DEF Place
    <3>6. /\ Place(first, taken) \in Nat /\ Place(first, s) \in Nat
          /\ Place(first, r) \in Nat
      BY <3>1, PlaceType
    <3>7. Place(first, taken) < Place(first, r)
      BY <3>4, <3>5, <3>6
    <3>8. Place(first, taken)' = Place(first, taken)
          /\ Distance(first, last_feedback_seq)' = Place(first, r)
      BY <1>1, <2>1 DEF Place
    <3> QED  BY <2>1, <3>6, <3>7, <3>8 DEF OrderInv
  <2> QED  BY <2>2, <2>3
<1>4. arriving # Nothing => arriving.report \in Reports
  BY DEF FeedbackInv, FeedbackTypeOK
<1> QED  BY <1>2, <1>3, <1>4 DEF Submit

LEMMA ConsumeOrder ==
  ASSUME FeedbackInv, NEW first \in Seq16, WithinHalf(first),
         OrderInv(first), Consume, UNCHANGED have_feedback_seq,
         UNCHANGED last_feedback_seq
  PROVE  /\ OrderInv(first)'
         /\ taken # Nothing => SeqBefore(taken.report_seq, taken'.report_seq)
<1>1. /\ feedback_pending /\ taken' = pending_feedback
      /\ ~ feedback_pending'
  BY DEF Consume
<1>2. /\ pending_feedback \in Reports /\ have_feedback_seq
      /\ pending_feedback.report_seq = last_feedback_seq
  BY <1>1 DEF FeedbackInv, PendingIsReport, OrderInv
<1>3. OrderInv(first)'
  <2>1. Place(first, pending_feedback) \in Nat
    BY <1>2, PlaceType
  <2>2. Place(first, taken)' = Place(first, pending_feedback)
        /\ Distance(first, last_feedback_seq)'
             = Place(first, pending_feedback)
    BY <1>1, <1>2 DEF Place
  <2>3. \E r \in Reports : last_feedback_seq' = r.report_seq
    BY <1>2
  <2> QED  BY <1>1, <1>2, <2>1, <2>2, <2>3 DEF OrderInv
<1>4. ASSUME taken # Nothing
      PROVE  SeqBefore(taken.report_seq, taken'.report_seq)
  <2>1. taken \in Reports
    BY <1>4 DEF FeedbackInv, FeedbackTypeOK
  <2>2. Place(first, taken) < Place(first, pending_feedback)
    BY <1>1, <1>2, <1>4 DEF OrderInv, Place
  <2> QED  BY <1>1, <1>2, <2>1, <2>2, NewerIsAhead
<1> QED  BY <1>3, <1>4

LEMMA OrderNext ==
  ASSUME NEW first \in Seq16, WithinHalf(first)
  PROVE  FeedbackInv /\ OrderInv(first) /\ [FeedbackNext]_feedbackVars =>
           /\ OrderInv(first)'
           /\ Consumes /\ taken # Nothing =>
                SeqBefore(taken.report_seq, taken'.report_seq)
<1> SUFFICES ASSUME FeedbackInv, OrderInv(first), [FeedbackNext]_feedbackVars
             PROVE  /\ OrderInv(first)'
                    /\ Consumes /\ taken # Nothing =>
                         SeqBefore(taken.report_seq, taken'.report_seq)
  OBVIOUS
<1>1. CASE Submit
  <2>1. pc' = pc
    BY <1>1 DEF Submit, localVars
  <2> QED  BY <1>1, <2>1, SubmitOrder DEF Consumes
<1>2. CASE TakePending /\ Consume
  BY <1>2, ConsumeOrder DEF TakePending
<1>3. ASSUME UNCHANGED <<have_feedback_seq, last_feedback_seq, taken,
                         feedback_pending, pending_feedback>>,
             ~ Consumes
      PROVE  /\ OrderInv(first)'
             /\ Consumes /\ taken # Nothing =>
                  SeqBefore(taken.report_seq, taken'.report_seq)
  BY <1>3 DEF OrderInv, Place
<1>4. CASE TakePending /\ ~ Consume
  BY <1>3, <1>4 DEF TakePending, Consumes
<1>5. CASE Arrive \/ ReadClock \/ CheckStale \/ Apply \/ Elapse
  <2>1. UNCHANGED <<have_feedback_seq, last_feedback_seq, taken,
                    feedback_pending, pending_feedback>>
    BY <1>5 DEF Arrive, ReadClock, CheckStale, Apply, Elapse, lockedVars,
                localVars
  <2>2. ~ Consumes
    BY <1>5 DEF Arrive, ReadClock, CheckStale, TestHave, TestGuard, TestAge,
                BackOff, Return, GoOn, Apply, Elapse, localVars, Consumes
  <2> QED  BY <1>3, <2>1, <2>2
<1>6. CASE UNCHANGED feedbackVars
  BY <1>3, <1>6 DEF feedbackVars, lockedVars, localVars, Consumes
<1> QED  BY <1>1, <1>2, <1>4, <1>5, <1>6 DEF FeedbackNext, Capture

(* Every report consumed is newer than the one consumed before, so that    *)
(* none is used twice, if the numbers of the session are within half a     *)
(* circle.                                                                 *)
THEOREM FeedbackInOrder ==
  ASSUME NEW first \in Seq16, WithinHalf(first)
  PROVE  FeedbackSpec => ReportsInOrder
<1>1. FeedbackInit => OrderInv(first)
  BY DEF FeedbackInit, OrderInv
<1>2. FeedbackInv /\ OrderInv(first) /\ [FeedbackNext]_feedbackVars
        => OrderInv(first)'
  BY OrderNext
<1>3. FeedbackInv /\ OrderInv(first) /\ [FeedbackNext]_feedbackVars
        => (Consumes /\ taken # Nothing
              => SeqBefore(taken.report_seq, taken'.report_seq))
  BY OrderNext
<1> QED
  BY <1>1, <1>2, <1>3, FeedbackInvariant, PTL
     DEF FeedbackSpec, ReportsInOrder
=============================================================================
