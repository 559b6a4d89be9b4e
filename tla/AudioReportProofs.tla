-------------------------- MODULE AudioReportProofs -------------------------
(***************************************************************************)
(* Proofs about the receiver reports, for every order of arrival of every  *)
(* set of packets and every report interval.                               *)
(*                                                                         *)
(* The mask and the highest number are updated separately; SeenWithinSpan  *)
(* ties them together.  It is inductive because, among numbers less than   *)
(* 64 ahead of the base, serial comparison agrees with the distance from   *)
(* the base (OrderFrom).                                                   *)
(*                                                                         *)
(* That the loss is real needs the history besides: the mask is the set of *)
(* what arrived (MaskIsArrived).  Reports keep the order of their          *)
(* intervals since every one that is known was numbered then (KnownInv).   *)
(***************************************************************************)
EXTENDS MCAudioReport, SeqArithProofs, FiniteSetTheorems, TLAPS

(* A mask that lies in a span has at most as many bits as the span.        *)
LEMMA MaskCount ==
  ASSUME NEW n \in Nat, NEW S \in SUBSET (0 .. n), 0 \in S
  PROVE  /\ Cardinality(S) \in Nat
         /\ 1 <= Cardinality(S) /\ Cardinality(S) <= n + 1
<1>1. n \in Int /\ 0 \in Int /\ ~ (0 > n)
  OBVIOUS
<1>2. IsFiniteSet(0 .. n)
      /\ Cardinality(0 .. n) = IF 0 > n THEN 0 ELSE n - 0 + 1
  BY <1>1, FS_Interval
<1>3. IsFiniteSet(S) /\ Cardinality(S) <= Cardinality(0 .. n)
  BY <1>2, FS_Subset
<1>4. Cardinality(S) \in Nat
  BY <1>3, FS_CardinalityType
<1>5. Cardinality(S) # 0
  BY <1>3, FS_EmptySet
<1> QED  BY <1>1, <1>2, <1>3, <1>4, <1>5

LEMMA OpenInv ==
  ASSUME ReportInv, NEW p \in Arrivals, NEW arrival \in Nat, Open(p, arrival),
         UNCHANGED <<next_report_seq, taken>>, now' \in Nat
  PROVE  ReportInv'
<1>1. p.seq \in Seq16
  BY ReportAssumption
<1>2. report_base_seq' = p.seq /\ report_highest_seq' = p.seq
      /\ report_seen_mask' = {0}
  BY DEF Open
<1>3. Span' = 0
  BY <1>1, <1>2, DistanceType DEF Span
<1>4. ReportTypeOK'
  <2>1. report_initialized' \in BOOLEAN
    BY DEF Open
  <2>2. report_seen_mask' \subseteq 0 .. MASK_BITS - 1
    BY <1>2 DEF MASK_BITS
  <2>3. report_started_ns' \in Nat /\ next_report_seq' \in Seq16
    BY DEF Open, ReportInv, ReportTypeOK
  <2> QED  BY <1>1, <1>2, <2>1, <2>2, <2>3 DEF ReportTypeOK
<1>5. SeenWithinSpan'
  BY <1>2, <1>3 DEF SeenWithinSpan, MASK_BITS
<1>6. ReportSane'
  BY DEF ReportInv, ReportSane
<1> QED  BY <1>4, <1>5, <1>6 DEF ReportInv

LEMMA MarkInv ==
  ASSUME ReportInv, NEW p \in Arrivals, report_initialized, Representable(p),
         Mark(p), UNCHANGED <<next_report_seq, taken>>, now' \in Nat
  PROVE  ReportInv'
<1> DEFINE base == report_base_seq
           high == report_highest_seq
           mask == report_seen_mask
<1>1. p.seq \in Seq16 /\ base \in Seq16 /\ high \in Seq16
  BY ReportAssumption DEF ReportInv, ReportTypeOK
<1>2. /\ Span < 64 /\ mask \subseteq 0 .. Span /\ 0 \in mask /\ Span \in mask
      /\ Offset(p) < 64
  BY DEF ReportInv, SeenWithinSpan, Representable, MASK_BITS
<1>3. Span \in Nat /\ Offset(p) \in Nat
  BY <1>1, DistanceType DEF Span, Offset
<1>4. base' = base /\ mask' = mask \cup {Offset(p)} /\ high' = HighestWith(p)
  BY DEF Mark
<1>5. Span' = IF Span < Offset(p) THEN Offset(p) ELSE Span
  <2>1. SeqBefore(high, p.seq) <=> Span < Offset(p)
    <3>1. Distance(base, high) < HALF_SEQ /\ Distance(base, p.seq) < HALF_SEQ
      BY <1>2, <1>3, SeqModFacts DEF Span, Offset
    <3> QED  BY <1>1, <3>1, OrderFrom DEF Span, Offset
  <2>2. Span' = Distance(base, HighestWith(p))
    BY <1>4 DEF Span
  <2>3. CASE SeqBefore(high, p.seq)
    BY <2>1, <2>2, <2>3 DEF HighestWith, Offset
  <2>4. CASE ~ SeqBefore(high, p.seq)
    BY <2>1, <2>2, <2>4 DEF HighestWith, Span
  <2> QED  BY <2>3, <2>4
<1>6. ReportTypeOK'
  <2>1. high' \in Seq16
    BY <1>1, <1>4 DEF HighestWith
  <2>2. mask' \subseteq 0 .. MASK_BITS - 1
    <3>1. mask \subseteq 0 .. MASK_BITS - 1
      BY DEF ReportInv, ReportTypeOK
    <3>2. Offset(p) \in 0 .. MASK_BITS - 1
      BY <1>2, <1>3 DEF MASK_BITS
    <3> QED  BY <1>4, <3>1, <3>2
  <2>3. report_initialized' \in BOOLEAN
    BY DEF Mark, ReportInv, ReportTypeOK
  <2>4. report_started_ns' \in Nat /\ next_report_seq' \in Seq16
    BY DEF Mark, ReportInv, ReportTypeOK
  <2> QED  BY <1>1, <1>4, <2>1, <2>2, <2>3, <2>4 DEF ReportTypeOK
<1>7. SeenWithinSpan'
  <2>1. Span' < 64 /\ Span' \in Nat /\ Span <= Span' /\ Offset(p) <= Span'
    BY <1>2, <1>3, <1>5
  <2>2. mask' \subseteq 0 .. Span'
    <3>1. 0 .. Span \subseteq 0 .. Span'
      BY <1>3, <2>1
    <3>2. Offset(p) \in 0 .. Span'
      BY <1>3, <2>1
    <3> QED  BY <1>2, <1>4, <3>1, <3>2
  <2>3. 0 \in mask' /\ Span' \in mask'
    BY <1>2, <1>3, <1>4, <1>5
  <2> QED  BY <2>1, <2>2, <2>3 DEF SeenWithinSpan, MASK_BITS
<1>8. ReportSane'
  BY DEF ReportInv, ReportSane
<1> QED  BY <1>6, <1>7, <1>8 DEF ReportInv

LEMMA TakeInv ==
  ASSUME ReportInv, NEW now_ns \in Nat, Take(now_ns), now' \in Nat
  PROVE  ReportInv'
<1>1. /\ report_initialized
      /\ report_base_seq \in Seq16 /\ report_highest_seq \in Seq16
  BY DEF Take, Due, ReportInv, ReportTypeOK
<1>2. /\ Span < 64 /\ report_seen_mask \in SUBSET (0 .. Span)
      /\ 0 \in report_seen_mask /\ Span \in Nat
  BY <1>1, DistanceType DEF ReportInv, SeenWithinSpan, MASK_BITS, Span
<1>3. /\ Cardinality(report_seen_mask) \in Nat
      /\ 1 <= Cardinality(report_seen_mask)
      /\ Cardinality(report_seen_mask) <= Span + 1
  BY <1>2, MaskCount
<1>4. taken'.expected = Span + 1
      /\ taken'.received = Cardinality(report_seen_mask)
  BY DEF Take, Report
<1>5. ReportSane'
  BY <1>2, <1>3, <1>4 DEF ReportSane, MASK_BITS
<1>6. ReportTypeOK'
  <2>1. report_initialized' \in BOOLEAN /\ report_initialized' = FALSE
    BY DEF Take
  <2>2. /\ report_base_seq' \in Seq16 /\ report_highest_seq' \in Seq16
        /\ report_seen_mask' = {} /\ report_started_ns' \in Nat
    BY DEF Take, ReportInv, ReportTypeOK
  <2>3. next_report_seq' \in Seq16
    BY NextSeqType DEF Take, ReportInv, ReportTypeOK
  <2> QED  BY <2>1, <2>2, <2>3 DEF ReportTypeOK
<1>7. SeenWithinSpan'
  BY DEF SeenWithinSpan, Take
<1> QED  BY <1>5, <1>6, <1>7 DEF ReportInv

LEMMA ReportInvNext == ReportInv /\ [ReportNext]_reportVars => ReportInv'
<1> SUFFICES ASSUME ReportInv, [ReportNext]_reportVars PROVE ReportInv'
  OBVIOUS
<1>0. now \in Nat
  BY DEF ReportInv, ReportTypeOK
<1>1. CASE Arrive
  <2>1. PICK p \in Arrivals : Track(p, now)
    BY <1>1 DEF Arrive
  <2>2. UNCHANGED <<next_report_seq, taken>> /\ now' \in Nat
    BY <1>0, <1>1 DEF Arrive
  <2>3. CASE BeginsInterval(p) /\ Open(p, now)
    BY <1>0, <2>2, <2>3, OpenInv
  <2>4. CASE ~ BeginsInterval(p) /\ Representable(p) /\ Mark(p)
    BY <2>2, <2>4, MarkInv DEF BeginsInterval
  <2>5. CASE UNCHANGED intervalVars
    BY <2>2, <2>5 DEF intervalVars, ReportInv, ReportTypeOK, SeenWithinSpan,
       ReportSane, Span
  <2> QED  BY <2>1, <2>3, <2>4, <2>5 DEF Track
<1>2. CASE TakeReport
  BY <1>0, <1>2, TakeInv DEF TakeReport
<1>3. CASE Elapse \/ UNCHANGED reportVars
  <2>1. UNCHANGED <<intervalVars, next_report_seq, taken>> /\ now' \in Nat
    BY <1>0, <1>3 DEF Elapse, reportVars
  <2> QED
    BY <2>1 DEF intervalVars, ReportInv, ReportTypeOK, SeenWithinSpan,
       ReportSane, Span
<1> QED  BY <1>1, <1>2, <1>3 DEF ReportNext

LEMMA ReportInvInit == ReportInit => ReportInv
<1>1. 0 \in Seq16
  BY SeqModFacts DEF Seq16
<1>2. ReportInit => ReportTypeOK
  <2> SUFFICES ASSUME ReportInit PROVE ReportTypeOK
    OBVIOUS
  <2>1. report_initialized \in BOOLEAN
    BY DEF ReportInit
  <2>2. report_seen_mask \subseteq 0 .. MASK_BITS - 1
    BY DEF ReportInit
  <2>3. /\ report_base_seq \in Seq16 /\ report_highest_seq \in Seq16
        /\ next_report_seq \in Seq16
    BY <1>1 DEF ReportInit
  <2>4. report_started_ns \in Nat /\ now \in Nat
    BY DEF ReportInit
  <2> QED  BY <2>1, <2>2, <2>3, <2>4 DEF ReportTypeOK
<1> QED  BY <1>2 DEF ReportInit, ReportInv, SeenWithinSpan, ReportSane

(* The types, the span and the counts hold together in every state.        *)
THEOREM ReportInvariant == ReportSpec => []ReportInv
BY ReportInvInit, ReportInvNext, PTL DEF ReportSpec

(* The mask never leaves the span between the first and the highest        *)
(* number, in any order of arrival.                                        *)
THEOREM ReportSpan == ReportSpec => []SeenWithinSpan
<1>1. ReportInv => SeenWithinSpan
  BY DEF ReportInv
<1> QED  BY <1>1, ReportInvariant, PTL

(* Every report taken counts between one and sixty-four packets expected,  *)
(* and no more received than expected.                                     *)
THEOREM ReportCounts == ReportSpec => []ReportSane
<1>1. ReportInv => ReportSane
  BY DEF ReportInv
<1> QED  BY <1>1, ReportInvariant, PTL

-----------------------------------------------------------------------------
(* What the mask records.  Bit d stands for the number d after the base,   *)
(* and it is set exactly if that number arrived.                           *)
MaskIsArrived ==
  report_initialized =>
    \A d \in 0 .. 63 :
      d \in report_seen_mask <=> Numbered(report_base_seq, d) \in arrived

LEMMA TrackMask ==
  ASSUME ReportInv, MaskIsArrived, NEW p \in Arrivals, NEW arrival \in Nat,
         Track(p, arrival),
         arrived' = IF BeginsInterval(p) THEN {p.seq}
                    ELSE arrived \cup {p.seq}
  PROVE  MaskIsArrived'
<1>1. p.seq \in Seq16 /\ report_base_seq \in Seq16
  BY ReportAssumption DEF ReportInv, ReportTypeOK
<1>2. CASE BeginsInterval(p) /\ Open(p, arrival)
  <2>1. /\ report_base_seq' = p.seq /\ report_seen_mask' = {0}
        /\ arrived' = {p.seq}
    BY <1>2 DEF Open
  <2>2. Distance(p.seq, p.seq) = 0
    BY <1>1 DEF Distance, Seq16
  <2>3. \A d \in 0 .. 63 : Numbered(p.seq, d) = p.seq <=> d = 0
    BY <1>1, <2>2, NumberedAtDistance
  <2> QED  BY <2>1, <2>3 DEF MaskIsArrived
<1>3. ASSUME ~ BeginsInterval(p) PROVE
        /\ report_initialized
        /\ arrived' = arrived \cup {p.seq}
        /\ \A d \in 0 .. 63 :
             Numbered(report_base_seq, d) \in arrived' <=>
               d \in report_seen_mask \/ d = Offset(p)
  <2>1. report_initialized /\ arrived' = arrived \cup {p.seq}
    BY <1>3 DEF BeginsInterval
  <2>2. \A d \in 0 .. 63 :
          Numbered(report_base_seq, d) = p.seq <=> d = Offset(p)
    BY <1>1, NumberedAtDistance DEF Offset
  <2>3. \A d \in 0 .. 63 :
          d \in report_seen_mask <=> Numbered(report_base_seq, d) \in arrived
    BY <2>1 DEF MaskIsArrived
  <2> QED  BY <2>1, <2>2, <2>3
<1>4. CASE ~ BeginsInterval(p) /\ Representable(p) /\ Mark(p)
  <2>1. /\ report_base_seq' = report_base_seq
        /\ report_seen_mask' = report_seen_mask \cup {Offset(p)}
    BY <1>4 DEF Mark
  <2> QED  BY <1>3, <1>4, <2>1 DEF MaskIsArrived
<1>5. CASE ~ BeginsInterval(p) /\ ~ Representable(p) /\ UNCHANGED intervalVars
  <2>1. /\ report_base_seq' = report_base_seq
        /\ report_seen_mask' = report_seen_mask
    BY <1>5 DEF intervalVars
  <2>2. Offset(p) \in Nat /\ ~ (Offset(p) < 64)
    BY <1>1, <1>5, DistanceType DEF Offset, Representable, MASK_BITS
  <2> QED  BY <1>3, <1>5, <2>1, <2>2 DEF MaskIsArrived
<1> QED  BY <1>2, <1>4, <1>5 DEF Track

(* A step of the composition is a step of the interval's own module.       *)
LEMMA StepsOfTheInterval == [MCNext]_mcVars => [ReportNext]_reportVars
<1> SUFFICES ASSUME [MCNext]_mcVars PROVE [ReportNext]_reportVars
  OBVIOUS
<1>1. ASSUME NEW p \in Arrivals, Track(p, now),
             UNCHANGED <<next_report_seq, taken, now>>
      PROVE  [ReportNext]_reportVars
  BY <1>1 DEF ReportNext, Arrive
<1>2. ASSUME NEW t \in Takers, TakeDue(t) PROVE [ReportNext]_reportVars
  BY <1>2 DEF ReportNext, TakeDue
<1>3. ASSUME NEW t \in Takers, SendReport(t) PROVE [ReportNext]_reportVars
  BY <1>3 DEF SendReport
<1>4. ASSUME NEW p \in network, Deliver(p) PROVE [ReportNext]_reportVars
  BY <1>4 DEF Deliver
<1>5. ASSUME UNCHANGED mcVars PROVE [ReportNext]_reportVars
  BY <1>5 DEF mcVars
<1>6. ASSUME Elapse PROVE [ReportNext]_reportVars
  BY <1>6 DEF ReportNext
<1> QED  BY <1>1, <1>2, <1>3, <1>4, <1>5, <1>6 DEF MCNext

LEMMA MaskNext ==
  ReportInv /\ MaskIsArrived /\ [MCNext]_mcVars => MaskIsArrived'
<1> SUFFICES ASSUME ReportInv, MaskIsArrived, [MCNext]_mcVars
             PROVE  MaskIsArrived'
  OBVIOUS
<1>0. now \in Nat
  BY DEF ReportInv, ReportTypeOK
<1>1. ASSUME NEW p \in Arrivals, Track(p, now),
             arrived' = IF BeginsInterval(p) THEN {p.seq}
                        ELSE arrived \cup {p.seq}
      PROVE  MaskIsArrived'
  BY <1>0, <1>1, TrackMask
<1>2. ASSUME NEW t \in Takers, TakeDue(t) PROVE MaskIsArrived'
  BY <1>2 DEF TakeDue, TakeReport, Take, MaskIsArrived
<1>3. ASSUME UNCHANGED <<intervalVars, arrived>> PROVE MaskIsArrived'
  BY <1>3 DEF intervalVars, MaskIsArrived
<1>4. ASSUME NEW t \in Takers, SendReport(t), UNCHANGED arrived
      PROVE  MaskIsArrived'
  BY <1>3, <1>4 DEF SendReport, reportVars
<1>5. ASSUME NEW p \in network, Deliver(p), UNCHANGED arrived
      PROVE  MaskIsArrived'
  BY <1>3, <1>5 DEF Deliver, reportVars
<1>6. ASSUME Elapse, UNCHANGED arrived PROVE MaskIsArrived'
  BY <1>3, <1>6 DEF Elapse
<1>7. ASSUME UNCHANGED mcVars PROVE MaskIsArrived'
  BY <1>3, <1>7 DEF mcVars, reportVars
<1> QED  BY <1>1, <1>2, <1>4, <1>5, <1>6, <1>7 DEF MCNext

(* The numbers a report expects that did not arrive are as many as the     *)
(* bits of the span that are not set.                                      *)
LEMMA LostCount ==
  ASSUME ReportInv, MaskIsArrived, report_initialized
  PROVE  Cardinality({(report_base_seq + d) % SEQ_MOD : d \in 0 .. Span}
                       \ arrived)
           = Span + 1 - Cardinality(report_seen_mask)
<1> DEFINE base == report_base_seq
           mask == report_seen_mask
           missing == (0 .. Span) \ mask
           lost == {(base + d) % SEQ_MOD : d \in 0 .. Span} \ arrived
           number == [d \in missing |-> Numbered(base, d)]
<1>1. base \in Seq16 /\ report_highest_seq \in Seq16
  BY DEF ReportInv, ReportTypeOK
<1>2. Span \in Nat /\ Span < 64 /\ mask \subseteq 0 .. Span
  BY <1>1, DistanceType DEF ReportInv, SeenWithinSpan, MASK_BITS, Span
<1>3. \A d \in 0 .. Span : d \in mask <=> Numbered(base, d) \in arrived
  BY <1>2 DEF MaskIsArrived
<1>4. lost = {Numbered(base, d) : d \in missing}
  <2>1. lost = {Numbered(base, d) : d \in 0 .. Span} \ arrived
    BY DEF Numbered
  <2> QED  BY <1>3, <2>1
<1>5. number \in Bijection(missing, lost)
  <2>1. number \in [missing -> lost]
    BY <1>4
  <2>2. ASSUME NEW c \in missing, NEW d \in missing, number[c] = number[d]
        PROVE  c = d
    <3>1. c \in 0 .. 63 /\ d \in 0 .. 63
      BY <1>2
    <3>2. Numbered(base, c) = Numbered(base, d)
      BY <2>2
    <3>3. Numbered(base, c) \in Seq16
      BY <1>1, <3>1, NumberedNext
    <3> QED  BY <1>1, <3>1, <3>2, <3>3, NumberedAtDistance
  <2>3. \A n \in lost : \E d \in missing : number[d] = n
    BY <1>4
  <2> QED
    BY <2>1, <2>2, <2>3 DEF Bijection, Injection, Surjection, IsInjective
<1>6. IsFiniteSet(missing)
      /\ Cardinality(missing) = Span + 1 - Cardinality(mask)
  <2>1. 0 \in Int /\ Span \in Int /\ ~ (0 > Span)
    BY <1>2
  <2>2. IsFiniteSet(0 .. Span) /\ Cardinality(0 .. Span) = Span + 1
    <3>1. IsFiniteSet(0 .. Span)
          /\ Cardinality(0 .. Span) = IF 0 > Span THEN 0 ELSE Span - 0 + 1
      BY <2>1, FS_Interval
    <3> QED  BY <2>1, <3>1
  <2>3. (0 .. Span) \cap mask = mask
    BY <1>2
  <2>4. ASSUME NEW S, IsFiniteSet(S)
        PROVE  /\ IsFiniteSet(S \ mask)
               /\ Cardinality(S \ mask)
                    = Cardinality(S) - Cardinality(S \cap mask)
    BY <2>4, FS_Difference
  <2>5. /\ IsFiniteSet(missing)
        /\ Cardinality(missing)
             = Cardinality(0 .. Span) - Cardinality((0 .. Span) \cap mask)
    BY <2>2, <2>4
  <2>6. Cardinality(mask) \in Nat
    <3>1. mask \in SUBSET (0 .. Span) /\ 0 \in mask
      BY <1>2 DEF ReportInv, SeenWithinSpan
    <3> QED  BY <1>2, <3>1, MaskCount
  <2>7. Cardinality(missing) = Cardinality(0 .. Span) - Cardinality(mask)
    BY <2>3, <2>5
  <2>8. ASSUME NEW a \in Nat, NEW c \in Nat
        PROVE  (a + 1) - c = a + 1 - c
    OBVIOUS
  <2> QED  BY <1>2, <2>2, <2>5, <2>6, <2>7, <2>8
<1>7. Cardinality(lost) = Cardinality(missing)
  <2>1. ExistsBijection(missing, lost)
    BY <1>5 DEF ExistsBijection
  <2> QED  BY <1>6, <2>1, FS_Bijection
<1> QED  BY <1>6, <1>7

LEMMA LostOnStep ==
  ReportInv /\ MaskIsArrived /\ [MCNext]_mcVars =>
    (taken' # taken =>
       LET numbers == {(report_base_seq + d) % SEQ_MOD : d \in 0 .. Span}
       IN  taken'.expected - taken'.received
             = Cardinality(numbers \ arrived))
<1> SUFFICES ASSUME ReportInv, MaskIsArrived, [MCNext]_mcVars, taken' # taken
             PROVE  taken'.expected - taken'.received =
                      Cardinality({(report_base_seq + d) % SEQ_MOD :
                                     d \in 0 .. Span} \ arrived)
  OBVIOUS
<1>1. PICK t \in Takers : TakeDue(t)
  BY DEF MCNext, mcVars, reportVars, Elapse, SendReport, Deliver
<1>2. report_initialized /\ taken' = Report
  BY <1>1 DEF TakeDue, TakeReport, Take, Due
<1>3. taken'.expected = Span + 1
      /\ taken'.received = Cardinality(report_seen_mask)
  BY <1>2 DEF Report
<1>4. Span \in Nat /\ Cardinality(report_seen_mask) \in Nat
  <2>1. report_base_seq \in Seq16 /\ report_highest_seq \in Seq16
    BY DEF ReportInv, ReportTypeOK
  <2>2. Span \in Nat
    BY <2>1, DistanceType DEF Span
  <2>3. report_seen_mask \in SUBSET (0 .. Span) /\ 0 \in report_seen_mask
    BY <1>2 DEF ReportInv, SeenWithinSpan
  <2> QED  BY <2>2, <2>3, MaskCount
<1> QED  BY <1>2, <1>3, <1>4, LostCount

(* The composition keeps the interval's invariant.                         *)
LEMMA SendingReportInv == MCSpec => []ReportInv
<1>1. MCInit => ReportInv
  BY ReportInvInit DEF MCInit, SendingInit
<1>2. ReportInv /\ [MCNext]_mcVars => ReportInv'
  BY ReportInvNext, StepsOfTheInterval
<1> QED  BY <1>1, <1>2, PTL DEF MCSpec

(* A report counts as lost exactly the numbers up to the highest counted   *)
(* that did not arrive, whatever arrived and in whatever order.            *)
THEOREM ReportLossIsReal == MCSpec => LossIsReal
<1>1. MCInit => MaskIsArrived
  BY DEF MCInit, SendingInit, ReportInit, MaskIsArrived
<1>2. MCSpec => []MaskIsArrived
  BY <1>1, MaskNext, SendingReportInv, PTL DEF MCSpec
<1> QED  BY <1>2, LostOnStep, SendingReportInv, PTL DEF MCSpec, LossIsReal

-----------------------------------------------------------------------------
(* Reports between the interval that was closed and the remote sender.     *)
(* Known are all that a thread holds, that are under way, or that arrived. *)
Known ==
  {held[t] : t \in {u \in Takers : held[u] # NoReport}}
  \cup {p.report : p \in network}
  \cup delivered
  \cup ({accepted} \ {NoReport})

Issued(r) ==
  /\ r.report_seq \in Nat /\ r.report_seq < next_report_seq
  /\ r.expected > 0 /\ r.received <= r.expected

(* Every known report has a number already given out, and no two have the  *)
(* same.                                                                   *)
KnownInv ==
  /\ DOMAIN held = Takers
  /\ \A r \in Known : Issued(r)
  /\ \A r \in Known, s \in Known : r.report_seq = s.report_seq => r = s

(* What the remote sender accepted is the newest that arrived.             *)
AcceptedInv ==
  \A r \in delivered :
    /\ accepted # NoReport
    /\ r.report_seq <= accepted.report_seq

(* The numbers given out so far span at most half the circle.              *)
HalfGiven == next_report_seq <= HALF_SEQ

LEMMA KnownShrinks ==
  ASSUME KnownInv, Known' \subseteq Known, DOMAIN held' = Takers,
         next_report_seq' = next_report_seq
  PROVE  KnownInv'
BY DEF KnownInv, Issued

LEMMA BeforeBelowHalf ==
  ASSUME NEW a \in Nat, NEW b \in Nat, a < HALF_SEQ, b < HALF_SEQ
  PROVE  SeqBefore(a, b) <=> a < b
BY SeqModFacts DEF SeqBefore, Distance

LEMMA TakeDueKnown ==
  ASSUME ReportInv, KnownInv, HalfGiven, NEW t \in Takers, TakeDue(t),
         UNCHANGED delivered
  PROVE  KnownInv'
<1> DEFINE n == next_report_seq
           new == Report
<1>1. n \in Nat /\ n <= HALF_SEQ
  BY SeqModFacts DEF ReportInv, ReportTypeOK, Seq16, HalfGiven
<1>2. next_report_seq' = n + 1
  BY <1>1, SeqModFacts DEF TakeDue, TakeReport, Take, NextSeq
<1>3. new.report_seq = n /\ new.expected > 0 /\ new.received <= new.expected
  <2>1. report_initialized /\ report_base_seq \in Seq16
        /\ report_highest_seq \in Seq16
    BY DEF TakeDue, TakeReport, Take, Due, ReportInv, ReportTypeOK
  <2>2. Span \in Nat /\ report_seen_mask \in SUBSET (0 .. Span)
        /\ 0 \in report_seen_mask
    BY <2>1, DistanceType DEF ReportInv, SeenWithinSpan, Span
  <2>3. new.report_seq = n /\ new.expected = Span + 1
        /\ new.received = Cardinality(report_seen_mask)
    BY DEF Report
  <2> HIDE DEF new
  <2> QED  BY <2>2, <2>3, MaskCount
<1>4. /\ held' = [held EXCEPT ![t] = new] /\ network' = network
      /\ accepted' = accepted
  BY DEF TakeDue
<1>5. DOMAIN held' = Takers /\ DOMAIN held = Takers
  BY <1>4 DEF KnownInv
<1> HIDE DEF new, n
<1>6. Known' \subseteq Known \cup {new}
  <2>1. \A u \in Takers : held'[u] = IF u = t THEN new ELSE held[u]
    BY <1>4, <1>5
  <2> QED  BY <1>4, <2>1 DEF Known
<1>7. \A r \in Known : r.report_seq \in Nat /\ r.report_seq < n
        /\ r.expected > 0 /\ r.received <= r.expected
  BY DEF KnownInv, Issued, n
<1>8. \A r \in Known' : Issued(r)'
  BY <1>1, <1>2, <1>3, <1>6, <1>7 DEF Issued
<1>9. \A r \in Known', s \in Known' : r.report_seq = s.report_seq => r = s
  <2>1. \A r \in Known, s \in Known : r.report_seq = s.report_seq => r = s
    BY DEF KnownInv
  <2> QED  BY <1>1, <1>3, <1>6, <1>7, <2>1
<1> QED  BY <1>5, <1>8, <1>9 DEF KnownInv

LEMMA SendKnown ==
  ASSUME KnownInv, NEW t \in Takers, SendReport(t), UNCHANGED delivered
  PROVE  KnownInv'
<1>1. /\ held[t] # NoReport /\ held' = [held EXCEPT ![t] = NoReport]
      /\ accepted' = accepted /\ next_report_seq' = next_report_seq
      /\ \/ network' = network \cup {[seq |-> control_seq,
                                      report |-> held[t]]}
         \/ network' = network
  BY DEF SendReport, reportVars
<1>2. DOMAIN held' = Takers /\ DOMAIN held = Takers
  BY <1>1 DEF KnownInv
<1>3. \A u \in Takers : held'[u] = IF u = t THEN NoReport ELSE held[u]
  BY <1>1, <1>2
<1>4. {p.report : p \in network'} \subseteq
        {p.report : p \in network} \cup {held[t]}
  BY <1>1
<1>5. Known' \subseteq Known
  <2>1. held[t] \in Known
    BY <1>1 DEF Known
  <2> QED  BY <1>1, <1>3, <1>4, <2>1 DEF Known
<1> QED  BY <1>1, <1>2, <1>5, KnownShrinks

Arrives(p) ==
  /\ Deliver(p)
  /\ delivered' = delivered \cup
       {r \in {p.report} : r.media_ssrc = REMOTE_SSRC}

LEMMA DeliverKnown ==
  ASSUME KnownInv, NEW p \in network, Arrives(p)
  PROVE  KnownInv'
<1>1. /\ held' = held /\ next_report_seq' = next_report_seq
      /\ network' \subseteq network
      /\ accepted' \in {accepted, p.report}
      /\ delivered' \subseteq delivered \cup {p.report}
  BY DEF Arrives, Deliver, reportVars
<1>2. p.report \in Known
  BY DEF Known
<1>3. Known' \subseteq Known
  BY <1>1, <1>2 DEF Known
<1> QED  BY <1>1, <1>3, KnownShrinks DEF KnownInv

LEMMA DeliverAccepted ==
  ASSUME KnownInv, AcceptedInv, HalfGiven, next_report_seq \in Nat,
         NEW p \in network, Arrives(p)
  PROVE  AcceptedInv'
<1> DEFINE new == p.report
<1>1. new \in Known /\ Issued(new)
  BY DEF Known, KnownInv
<1>2. new.report_seq \in Nat /\ new.report_seq < HALF_SEQ
      /\ new.expected > 0 /\ new.received <= new.expected
  BY <1>1, SeqModFacts DEF Issued, HalfGiven
<1>3. new # NoReport
  BY <1>2 DEF NoReport
<1>4. accepted # NoReport => accepted.report_seq \in Nat
                             /\ accepted.report_seq < HALF_SEQ
  BY SeqModFacts DEF Known, KnownInv, Issued, HalfGiven
<1>5. /\ delivered' = delivered \cup
                        {r \in {new} : r.media_ssrc = REMOTE_SSRC}
      /\ accepted' = IF Wellformed(new) /\ Newer(new) THEN new ELSE accepted
  BY DEF Arrives, Deliver
<1>6. \A r \in delivered : r.report_seq \in Nat
  BY DEF Known, KnownInv, Issued
<1> HIDE DEF new
<1>7. CASE new.media_ssrc # REMOTE_SSRC
  <2>1. delivered' = delivered /\ accepted' = accepted
    BY <1>5, <1>7 DEF Wellformed
  <2> QED  BY <2>1 DEF AcceptedInv
<1>8. CASE new.media_ssrc = REMOTE_SSRC /\ accepted = NoReport
  <2>1. delivered = {}
    BY <1>8 DEF AcceptedInv
  <2>2. accepted' = new
    BY <1>2, <1>5, <1>8 DEF Wellformed, Newer
  <2> QED  BY <1>2, <1>3, <1>5, <2>1, <2>2 DEF AcceptedInv
<1>9. CASE new.media_ssrc = REMOTE_SSRC /\ accepted # NoReport
  <2>1. Newer(new) <=> accepted.report_seq < new.report_seq
    BY <1>2, <1>4, <1>9, BeforeBelowHalf DEF Newer
  <2>2. accepted' = IF accepted.report_seq < new.report_seq THEN new
                    ELSE accepted
    BY <1>2, <1>5, <1>9, <2>1 DEF Wellformed
  <2>3. /\ accepted' # NoReport
        /\ new.report_seq <= accepted'.report_seq
        /\ accepted.report_seq <= accepted'.report_seq
        /\ accepted'.report_seq \in Nat
    BY <1>2, <1>3, <1>4, <1>9, <2>2
  <2>4. \A r \in delivered : r.report_seq <= accepted.report_seq
    BY DEF AcceptedInv
  <2>5. \A r \in delivered' : r = new \/ r \in delivered
    BY <1>5
  <2> QED  BY <1>2, <1>4, <1>6, <1>9, <2>3, <2>4, <2>5 DEF AcceptedInv
<1> QED  BY <1>7, <1>8, <1>9

LEMMA SendingNextInv ==
  ReportInv /\ KnownInv /\ AcceptedInv /\ HalfGiven /\ [MCNext]_mcVars
    => KnownInv' /\ AcceptedInv'
<1> SUFFICES ASSUME ReportInv, KnownInv, AcceptedInv, HalfGiven,
                    [MCNext]_mcVars
             PROVE  KnownInv' /\ AcceptedInv'
  OBVIOUS
<1>0. next_report_seq \in Nat
  BY SeqModFacts DEF ReportInv, ReportTypeOK, Seq16
<1>1. ASSUME UNCHANGED <<sendingVars, next_report_seq, delivered>>
      PROVE  KnownInv' /\ AcceptedInv'
  <2>1. /\ held' = held /\ network' = network /\ accepted' = accepted
        /\ next_report_seq' = next_report_seq /\ delivered' = delivered
    BY <1>1 DEF sendingVars
  <2>2. Known' = Known
    BY <2>1 DEF Known
  <2> QED  BY <2>1, <2>2, KnownShrinks DEF KnownInv, AcceptedInv
<1>2. ASSUME NEW t \in Takers, TakeDue(t), UNCHANGED delivered
      PROVE  KnownInv' /\ AcceptedInv'
  <2>1. accepted' = accepted
    BY <1>2 DEF TakeDue
  <2> QED  BY <1>2, <2>1, TakeDueKnown DEF AcceptedInv
<1>3. ASSUME NEW t \in Takers, SendReport(t), UNCHANGED delivered
      PROVE  KnownInv' /\ AcceptedInv'
  <2>1. accepted' = accepted
    BY <1>3 DEF SendReport
  <2> QED  BY <1>3, <2>1, SendKnown DEF AcceptedInv
<1>4. ASSUME NEW p \in network, Arrives(p)
      PROVE  KnownInv' /\ AcceptedInv'
  BY <1>0, <1>4, DeliverKnown, DeliverAccepted
<1>5. ASSUME Elapse, UNCHANGED <<sendingVars, delivered>>
      PROVE  KnownInv' /\ AcceptedInv'
  BY <1>1, <1>5 DEF Elapse
<1>6. ASSUME UNCHANGED mcVars PROVE KnownInv' /\ AcceptedInv'
  BY <1>1, <1>6 DEF mcVars, reportVars
<1>7. ASSUME NEW p \in Arrivals,
             UNCHANGED <<next_report_seq, taken, now, sendingVars, delivered>>
      PROVE  KnownInv' /\ AcceptedInv'
  BY <1>1, <1>7
<1> QED  BY <1>2, <1>3, <1>4, <1>5, <1>6, <1>7 DEF MCNext, Arrives

LEMMA LatestHere ==
  ReportInv /\ KnownInv /\ AcceptedInv /\ HalfGiven => LatestCounts
<1> SUFFICES ASSUME ReportInv, KnownInv, AcceptedInv, HalfGiven,
                    NEW r \in delivered
             PROVE  r = accepted
                    \/ SeqBefore(r.report_seq, accepted.report_seq)
  BY DEF LatestCounts
<1>1. r \in Known /\ accepted \in Known
      /\ r.report_seq <= accepted.report_seq
  BY DEF Known, AcceptedInv
<1>2. /\ r.report_seq \in Nat /\ accepted.report_seq \in Nat
      /\ r.report_seq < next_report_seq
      /\ accepted.report_seq < next_report_seq
      /\ r.report_seq = accepted.report_seq => r = accepted
  BY <1>1 DEF KnownInv, Issued
<1>3. next_report_seq \in Nat /\ next_report_seq <= HALF_SEQ
  BY SeqModFacts DEF ReportInv, ReportTypeOK, Seq16, HalfGiven
<1>4. r.report_seq < HALF_SEQ /\ accepted.report_seq < HALF_SEQ
  BY <1>2, <1>3, SeqModFacts
<1> QED  BY <1>1, <1>2, <1>4, BeforeBelowHalf

(* Whatever the threads and the network do to their order, the remote      *)
(* sender acts on the report of the latest interval that reached it, as    *)
(* long as half a circle of intervals has not passed.                      *)
THEOREM ReportLatestCounts ==
  MCSpec /\ []HalfGiven => []LatestCounts
<1>1. MCInit => KnownInv /\ AcceptedInv
  <2> SUFFICES ASSUME MCInit PROVE KnownInv /\ AcceptedInv
    OBVIOUS
  <2>1. /\ held = [t \in Takers |-> NoReport] /\ network = {}
        /\ accepted = NoReport /\ delivered = {}
    BY DEF MCInit, SendingInit
  <2>2. Known = {}
    BY <2>1 DEF Known
  <2> QED  BY <2>1, <2>2 DEF KnownInv, AcceptedInv
<1>2. MCSpec /\ []HalfGiven => [](KnownInv /\ AcceptedInv)
  BY <1>1, SendingNextInv, SendingReportInv, PTL DEF MCSpec
<1> QED  BY <1>2, LatestHere, SendingReportInv, PTL
=============================================================================
