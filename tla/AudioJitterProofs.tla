-------------------------- MODULE AudioJitterProofs -------------------------
(***************************************************************************)
(* Proofs about the path of received audio, for every buffer target, every *)
(* maximum and every set of packets: the jitter buffer, and one direction  *)
(* of a call around it.                                                    *)
(*                                                                         *)
(* The inductive invariant of the buffer is JitterInv: the types, the slot *)
(* invariant, the meaning of the counter and the emptiness of an idle      *)
(* buffer need one another.  The slot invariant is preserved by playing    *)
(* because the frame due is removed before the cursor moves, which is      *)
(* known only from the slot being the one of its residue class; and by     *)
(* storing because of SeqArithProofs!NoCollision.                          *)
(*                                                                         *)
(* Of a call it is that the sender, every packet and the cursor keep to    *)
(* one line: a count of frames that never wraps, of which the number is    *)
(* the low 16 bits and the timestamp a multiple (LineInv).                 *)
(***************************************************************************)
EXTENDS MCAudioLink, SeqArithProofs, FiniteSetTheorems

-----------------------------------------------------------------------------
(* Helpers                                                                 *)

LEMMA PacketType ==
  ASSUME NEW p \in Packets
  PROVE  p.seq \in Seq16 /\ p.timestamp \in Int /\ p # Empty
BY JitterAssumption

(* Every sequence number has a slot.                                       *)
LEMMA SlotType ==
  ASSUME NEW s \in Seq16
  PROVE  SlotOf(s) \in SlotIndex
<1>1. s \in Int
  BY SeqModFacts DEF Seq16
<1> QED  BY <1>1 DEF SlotOf, SLOTS, SlotIndex

(* A set of slots is finite and has at most eight elements.                *)
LEMMA SlotSetFinite ==
  ASSUME NEW S \in SUBSET SlotIndex
  PROVE  IsFiniteSet(S) /\ Cardinality(S) \in 0 .. SLOTS
<1>1. IsFiniteSet(SlotIndex) /\ Cardinality(SlotIndex) = 8
  <2> DEFINE n == 7
  <2>1. n \in Int /\ 0 \in Int
    OBVIOUS
  <2> HIDE DEF n
  <2>2. /\ IsFiniteSet(0 .. n)
        /\ Cardinality(0 .. n) = IF 0 > n THEN 0 ELSE n - 0 + 1
    BY <2>1, FS_Interval
  <2> QED  BY <2>2 DEF SlotIndex, SLOTS, n
<1>2. IsFiniteSet(S) /\ Cardinality(S) <= 8
  BY <1>1, FS_Subset
<1> QED  BY <1>2, FS_CardinalityType DEF SLOTS

(* Filling an empty slot adds one to the occupancy.                        *)
LEMMA OccupiedAfterFill ==
  ASSUME slots \in [SlotIndex -> Packets \cup {Empty}],
         NEW i \in SlotIndex, NEW p \in Packets, slots[i] = Empty,
         slots' = [slots EXCEPT ![i] = p]
  PROVE  Cardinality(Occupied') = Cardinality(Occupied) + 1
<1>1. Occupied' = Occupied \cup {i} /\ i \notin Occupied
  BY PacketType DEF Occupied
<1> QED  BY <1>1, SlotSetFinite, FS_AddElement DEF Occupied

(* Emptying an occupied slot takes one from it.                            *)
LEMMA OccupiedAfterTake ==
  ASSUME slots \in [SlotIndex -> Packets \cup {Empty}],
         NEW i \in SlotIndex, slots[i] # Empty,
         slots' = [slots EXCEPT ![i] = Empty]
  PROVE  Cardinality(Occupied') = Cardinality(Occupied) - 1
<1>1. Occupied' = Occupied \ {i} /\ i \in Occupied
  BY DEF Occupied
<1> QED  BY <1>1, SlotSetFinite, FS_RemoveElement DEF Occupied

-----------------------------------------------------------------------------
(* The inductive invariant                                                 *)

LEMMA InitInv == Init => JitterInv
<1> SUFFICES ASSUME Init PROVE JitterInv
  OBVIOUS
<1>1. Occupied = {}
  BY DEF Init, Occupied
<1>2. Cardinality(Occupied) = 0
  BY <1>1, FS_EmptySet
<1>3. 0 \in Seq16
  BY SeqModFacts DEF Seq16
<1>4. TypeOK
  <2>1. slots \in [SlotIndex -> Packets \cup {Empty}]
    BY DEF Init
  <2>2. started \in BOOLEAN /\ initialized \in BOOLEAN
    BY DEF Init
  <2>3. /\ expected_seq \in Seq16 /\ expected_timestamp \in Int
        /\ count \in 0 .. SLOTS /\ first_arrival_ns \in Nat /\ now \in Nat
    BY <1>3 DEF Init, SLOTS
  <2> QED  BY <2>1, <2>2, <2>3 DEF TypeOK
<1>5. SlotsInWindow
  BY DEF Init, SlotsInWindow
<1>6. CountIsOccupancy
  BY <1>2 DEF Init, CountIsOccupancy
<1>7. IdleIsEmpty
  BY <1>1 DEF Init, IdleIsEmpty
<1> QED  BY <1>4, <1>5, <1>6, <1>7 DEF JitterInv

(* The packet that starts a buffer anew is alone in it, at its cursor.     *)
LEMMA ResetInv ==
  ASSUME JitterInv, NEW p \in Packets, NEW arrival \in Nat,
         ResetTo(p, arrival), now' \in Nat
  PROVE  JitterInv'
<1> DEFINE i == SlotOf(p.seq)
<1>1. p.seq \in Seq16 /\ p.timestamp \in Int /\ p # Empty /\ i \in SlotIndex
  BY PacketType, SlotType
<1>2. slots' = [j \in SlotIndex |-> IF j = i THEN p ELSE Empty]
  BY DEF ResetTo
<1>3. Occupied' = {i}
  BY <1>1, <1>2 DEF Occupied
<1>4. TypeOK'
  <2>1. slots' \in [SlotIndex -> Packets \cup {Empty}]
    BY <1>1, <1>2
  <2>2. started' \in BOOLEAN /\ initialized' \in BOOLEAN
    BY DEF ResetTo
  <2>3. /\ expected_seq' \in Seq16 /\ expected_timestamp' \in Int
        /\ count' \in 0 .. SLOTS /\ first_arrival_ns' \in Nat
    BY <1>1 DEF ResetTo, SLOTS
  <2> QED  BY <2>1, <2>2, <2>3 DEF TypeOK
<1>5. SlotsInWindow'
  <2> SUFFICES ASSUME NEW j \in SlotIndex, slots'[j] # Empty
               PROVE  /\ SlotOf(slots'[j].seq) = j
                      /\ Ahead(slots[j])' < MAX_FRAMES
                      /\ Aligned(slots[j])'
    BY DEF SlotsInWindow, Ahead, Aligned
  <2>1. j = i /\ slots'[j] = p
    BY <1>2
  <2>2. Ahead(slots[j])' = 0
    BY <1>1, <2>1, DistanceType DEF ResetTo, Ahead
  <2>3. 0 < MAX_FRAMES /\ p.timestamp = p.timestamp + 0 * FRAME_SAMPLES
    BY <1>1, JitterAssumption DEF FRAME_SAMPLES
  <2>4. Aligned(slots[j])'
    BY <2>1, <2>2, <2>3 DEF ResetTo, Aligned, Ahead
  <2> QED  BY <2>1, <2>2, <2>3, <2>4
<1>6. CountIsOccupancy'
  BY <1>3, FS_Singleton DEF CountIsOccupancy, ResetTo
<1>7. IdleIsEmpty'
  BY DEF IdleIsEmpty, ResetTo
<1> QED  BY <1>4, <1>5, <1>6, <1>7 DEF JitterInv

(* A packet stored in the window finds its slot empty.                     *)
LEMMA StoreSlotEmpty ==
  ASSUME JitterInv, NEW p \in Packets,
         ~ OutOfWindow(p), ~ Duplicate(p)
  PROVE  slots[SlotOf(p.seq)] = Empty
<1> DEFINE q == slots[SlotOf(p.seq)]
<1> SUFFICES ASSUME q # Empty PROVE FALSE
  OBVIOUS
<1>1. p.seq \in Seq16 /\ SlotOf(p.seq) \in SlotIndex
  BY PacketType, SlotType
<1>2. q \in Packets
  BY <1>1 DEF JitterInv, TypeOK
<1>3. SlotOf(q.seq) = SlotOf(p.seq) /\ Ahead(q) < MAX_FRAMES
  BY <1>1 DEF JitterInv, SlotsInWindow
<1>4. q.seq \in Seq16 /\ expected_seq \in Seq16
  BY <1>2, PacketType DEF JitterInv, TypeOK
<1>5. Distance(expected_seq, q.seq) \in Int /\ Distance(expected_seq, p.seq) \in Int
  BY <1>1, <1>4, DistanceType
<1>6. Distance(expected_seq, q.seq) < 8 /\ Distance(expected_seq, p.seq) < 8
  BY <1>3, <1>5, JitterAssumption DEF Ahead, OutOfWindow, SLOTS
<1>7. q.seq = p.seq
  BY <1>1, <1>3, <1>4, <1>6, NoCollision DEF SlotOf, SLOTS
<1> QED  BY <1>7 DEF Duplicate

LEMMA StoreInv ==
  ASSUME JitterInv, NEW p \in Packets, NEW arrival \in Nat, initialized,
         ~ OutOfWindow(p), Aligned(p), ~ Duplicate(p),
         Store(p, arrival), now' \in Nat
  PROVE  JitterInv'
<1> DEFINE i == SlotOf(p.seq)
<1>1. p.seq \in Seq16 /\ p # Empty /\ i \in SlotIndex
  BY PacketType, SlotType
<1>2. slots[i] = Empty
  BY StoreSlotEmpty
<1>3. slots' = [slots EXCEPT ![i] = p] /\ count' = count + 1
  BY <1>2 DEF Store
<1>4. slots \in [SlotIndex -> Packets \cup {Empty}]
  BY DEF JitterInv, TypeOK
<1>5. CountIsOccupancy'
  BY <1>1, <1>2, <1>3, <1>4, OccupiedAfterFill
     DEF JitterInv, CountIsOccupancy
<1>6. TypeOK'
  <2>1. slots' \in [SlotIndex -> Packets \cup {Empty}]
    BY <1>1, <1>3, <1>4
  <2>2. Cardinality(Occupied') \in 0 .. SLOTS
    BY SlotSetFinite DEF Occupied
  <2> QED  BY <2>1, <2>2, <1>5 DEF JitterInv, TypeOK, Store, CountIsOccupancy
<1>7. SlotsInWindow'
  <2> SUFFICES ASSUME NEW j \in SlotIndex, slots'[j] # Empty
               PROVE  /\ SlotOf(slots'[j].seq) = j
                      /\ Ahead(slots[j])' < MAX_FRAMES
                      /\ Aligned(slots[j])'
    BY DEF SlotsInWindow, Ahead, Aligned
  <2>1. CASE j = i
    <3>1. slots'[j] = p
      BY <1>3, <1>4, <2>1
    <3>2. Ahead(p) < MAX_FRAMES
      <4>1. Distance(expected_seq, p.seq) \in Int
        BY <1>1, DistanceType DEF JitterInv, TypeOK
      <4> QED  BY <4>1, JitterAssumption DEF OutOfWindow, Ahead
    <3> QED  BY <2>1, <3>1, <3>2 DEF Store, Ahead, Aligned
  <2>2. CASE j # i
    <3>1. slots'[j] = slots[j]
      BY <1>3, <1>4, <2>2
    <3> QED  BY <3>1 DEF JitterInv, SlotsInWindow, Store, Ahead, Aligned
  <2> QED  BY <2>1, <2>2
<1>8. IdleIsEmpty'
  BY DEF IdleIsEmpty, Store
<1> QED  BY <1>5, <1>6, <1>7, <1>8 DEF JitterInv

(* The packet found for a number is one of the packets, in its slot.       *)
LEMMA HoldsPacket ==
  ASSUME JitterInv, NEW s \in Seq16, Holds(s)
  PROVE  /\ SlotOf(s) \in SlotIndex
         /\ slots[SlotOf(s)] \in Packets
         /\ slots[SlotOf(s)].seq = s
BY SlotType DEF JitterInv, TypeOK, Holds

(* If the frame due is not found, no slot holds it: every packet held lies *)
(* strictly ahead of the cursor.                                           *)
LEMMA NothingDue ==
  ASSUME JitterInv, NEW j \in SlotIndex, slots[j] # Empty,
         ~ Holds(expected_seq)
  PROVE  slots[j].seq # expected_seq
BY DEF JitterInv, SlotsInWindow, Holds

(* Moving the cursor past a number that is not held keeps every packet in  *)
(* its place on the time line, one frame nearer.                           *)
LEMMA AdvanceKeepsPlace ==
  ASSUME JitterInv, NEW p \in Packets, p.seq # expected_seq,
         Ahead(p) < MAX_FRAMES, Aligned(p), Advance
  PROVE  Ahead(p)' < MAX_FRAMES /\ Aligned(p)'
<1>1. p.seq \in Seq16 /\ expected_seq \in Seq16 /\ p.timestamp \in Int
      /\ expected_timestamp \in Int
  BY PacketType DEF JitterInv, TypeOK
<1>2. Ahead(p)' = Ahead(p) - 1
  BY <1>1, DistanceAfterAdvance DEF Ahead, Advance
<1>3. Ahead(p) \in Nat
  BY <1>1, DistanceType DEF Ahead
<1>4. Ahead(p)' < MAX_FRAMES
  BY <1>2, <1>3, JitterAssumption
<1>5. expected_timestamp' + (Ahead(p) - 1) * FRAME_SAMPLES
        = expected_timestamp + Ahead(p) * FRAME_SAMPLES
  BY <1>1, <1>3 DEF Advance, FRAME_SAMPLES
<1> QED  BY <1>2, <1>4, <1>5 DEF Aligned, Ahead

LEMMA AdvanceType ==
  ASSUME JitterInv, Advance
  PROVE  expected_seq' \in Seq16 /\ expected_timestamp' \in Int
BY NextSeqType DEF Advance, JitterInv, TypeOK, FRAME_SAMPLES

LEMMA FetchInv ==
  ASSUME JitterInv, NEW now_ns \in Nat, Fetch(now_ns), now' \in Nat
  PROVE  JitterInv'
<1> DEFINE i == SlotOf(expected_seq)
<1>1. /\ initialized /\ started' = TRUE /\ initialized' = initialized
      /\ first_arrival_ns' = first_arrival_ns /\ Advance
  BY DEF Fetch, Ready
<1>2. /\ slots \in [SlotIndex -> Packets \cup {Empty}]
      /\ expected_seq \in Seq16 /\ i \in SlotIndex
  BY SlotType DEF JitterInv, TypeOK
<1>3. slots' \in [SlotIndex -> Packets \cup {Empty}] /\ CountIsOccupancy'
  <2>1. CASE TakeNormal
    <3>1. slots[i] # Empty /\ slots' = [slots EXCEPT ![i] = Empty]
      BY <2>1 DEF TakeNormal, Holds
    <3>2. Cardinality(Occupied') = Cardinality(Occupied) - 1
      BY <1>2, <3>1, OccupiedAfterTake
    <3> QED
      BY <1>2, <2>1, <3>1, <3>2
         DEF TakeNormal, JitterInv, CountIsOccupancy
  <2>2. CASE TakeFec \/ TakeNothing
    BY <1>2, <2>2
       DEF TakeFec, TakeNothing, JitterInv, CountIsOccupancy, Occupied
  <2> QED  BY <2>1, <2>2 DEF Fetch
<1>4. TypeOK'
  <2>1. count' \in 0 .. SLOTS
    BY <1>3, SlotSetFinite DEF CountIsOccupancy, Occupied
  <2>2. initialized' \in BOOLEAN /\ started' \in BOOLEAN
    BY <1>1 DEF JitterInv, TypeOK
  <2>3. first_arrival_ns' \in Nat
    BY <1>1 DEF JitterInv, TypeOK
  <2> QED  BY <1>1, <1>3, <2>1, <2>2, <2>3, AdvanceType DEF TypeOK
<1>5. SlotsInWindow'
  <2> SUFFICES ASSUME NEW j \in SlotIndex, slots'[j] # Empty
               PROVE  /\ SlotOf(slots'[j].seq) = j
                      /\ Ahead(slots[j])' < MAX_FRAMES
                      /\ Aligned(slots[j])'
    BY DEF SlotsInWindow, Ahead, Aligned
  <2>1. slots'[j] = slots[j] /\ slots[j].seq # expected_seq
    <3>1. CASE TakeNormal
      <4>1. slots' = [slots EXCEPT ![i] = Empty] /\ slots[i].seq = expected_seq
        BY <3>1 DEF TakeNormal, Holds
      <4>2. j # i
        BY <1>2, <4>1
      <4>3. slots'[j] = slots[j]
        BY <1>2, <4>1, <4>2
      <4>4. SlotOf(slots[j].seq) = j
        BY <4>3 DEF JitterInv, SlotsInWindow
      <4> QED  BY <4>2, <4>3, <4>4
    <3>2. CASE TakeFec \/ TakeNothing
      BY <3>2, NothingDue DEF TakeFec, TakeNothing
    <3> QED  BY <3>1, <3>2 DEF Fetch
  <2> DEFINE q == slots[j]
  <2>2. /\ q \in Packets /\ SlotOf(q.seq) = j
        /\ Ahead(q) < MAX_FRAMES /\ Aligned(q)
    BY <2>1 DEF JitterInv, TypeOK, SlotsInWindow
  <2> HIDE DEF q
  <2>3. Distance(expected_seq', q.seq) < MAX_FRAMES
    BY <1>1, <2>1, <2>2, AdvanceKeepsPlace DEF q, Ahead
  <2>4. q.timestamp = expected_timestamp'
                      + Distance(expected_seq', q.seq) * FRAME_SAMPLES
    BY <1>1, <2>1, <2>2, AdvanceKeepsPlace DEF q, Ahead, Aligned
  <2> QED  BY <2>1, <2>2, <2>3, <2>4 DEF q, Ahead, Aligned
<1>6. IdleIsEmpty'
  BY <1>1 DEF IdleIsEmpty
<1> QED  BY <1>3, <1>4, <1>5, <1>6 DEF JitterInv

LEMMA InsertInv ==
  ASSUME JitterInv, NEW p \in Packets, NEW arrival \in Nat,
         Insert(p, arrival), now' \in Nat
  PROVE  JitterInv'
<1>1. CASE UNCHANGED bufferVars
  BY <1>1 DEF bufferVars, JitterInv, TypeOK, SlotsInWindow, Ahead, Aligned,
     CountIsOccupancy, Occupied, IdleIsEmpty
<1>2. CASE ResetTo(p, arrival)
  BY <1>2, ResetInv
<1>3. CASE initialized /\ ~ OutOfWindow(p) /\ Aligned(p) /\ ~ Duplicate(p)
           /\ Store(p, arrival)
  BY <1>3, StoreInv
<1> QED  BY <1>1, <1>2, <1>3 DEF Insert

(* The invariant is inductive.                                             *)
LEMMA NextInv == JitterInv /\ [Next]_vars => JitterInv'
<1> SUFFICES ASSUME JitterInv, [Next]_vars PROVE JitterInv'
  OBVIOUS
<1>0. now \in Nat
  BY DEF JitterInv, TypeOK
<1>1. CASE Receive
  <2>1. PICK p \in Packets : Insert(p, now)
    BY <1>1 DEF Receive
  <2>2. now' \in Nat
    BY <1>0, <1>1 DEF Receive
  <2> QED  BY <1>0, <2>1, <2>2, InsertInv
<1>2. CASE Tick
  <2>1. now' \in Nat
    BY <1>0, <1>2 DEF Tick
  <2>2. CASE Fetch(now)
    BY <1>0, <2>1, <2>2, FetchInv
  <2>3. CASE NotReady(now)
    BY <2>1, <2>3 DEF NotReady, bufferVars, JitterInv, TypeOK, SlotsInWindow,
       Ahead, Aligned, CountIsOccupancy, Occupied, IdleIsEmpty
  <2> QED  BY <1>2, <2>2, <2>3 DEF Tick
<1>3. CASE UNCHANGED vars
  BY <1>3 DEF vars, bufferVars, JitterInv, TypeOK, SlotsInWindow, Ahead,
     Aligned, CountIsOccupancy, Occupied, IdleIsEmpty
<1> QED  BY <1>1, <1>2, <1>3 DEF Next

(* Every reachable state of the jitter buffer satisfies the inductive      *)
(* invariant: types, slots, counter and idleness.                          *)
THEOREM JitterInvariant == Spec => []JitterInv
BY InitInv, NextInv, PTL DEF Spec

(* Type correctness.                                                       *)
THEOREM JitterTypeOK == Spec => []TypeOK
<1>1. JitterInv => TypeOK
  BY DEF JitterInv
<1> QED  BY <1>1, JitterInvariant, PTL

(* No two packets compete for a slot, and nothing held is behind the       *)
(* cursor or off its place on the time line.                               *)
THEOREM JitterSlots == Spec => []SlotsInWindow
<1>1. JitterInv => SlotsInWindow
  BY DEF JitterInv
<1> QED  BY <1>1, JitterInvariant, PTL

(* The counter is the occupancy.                                           *)
THEOREM JitterCount == Spec => []CountIsOccupancy
<1>1. JitterInv => CountIsOccupancy
  BY DEF JitterInv
<1> QED  BY <1>1, JitterInvariant, PTL

-----------------------------------------------------------------------------
(* Bounded latency                                                         *)

(* Each packet held is at a distance of its own below MAX_FRAMES, so there *)
(* are at most MAX_FRAMES of them.                                         *)
LEMMA InvLatency == JitterInv => LatencyBounded
<1> SUFFICES ASSUME JitterInv PROVE LatencyBounded
  OBVIOUS
<1> DEFINE n == MAX_FRAMES - 1
           T == 0 .. n
           f == [i \in Occupied |-> Ahead(slots[i])]
<1>1. n \in Int /\ 0 \in Int /\ MAX_FRAMES \in Nat /\ ~ (0 > n)
  BY JitterAssumption
<1>2. \A i \in Occupied : /\ Ahead(slots[i]) \in T
                          /\ slots[i].seq \in Seq16
                          /\ SlotOf(slots[i].seq) = i
  <2> TAKE i \in Occupied
  <2>1. i \in SlotIndex /\ slots[i] \in Packets
    BY DEF Occupied, JitterInv, TypeOK
  <2>2. slots[i].seq \in Seq16 /\ expected_seq \in Seq16
    BY <2>1, PacketType DEF JitterInv, TypeOK
  <2>3. Ahead(slots[i]) < MAX_FRAMES /\ SlotOf(slots[i].seq) = i
    BY <2>1 DEF Occupied, JitterInv, SlotsInWindow
  <2>4. Ahead(slots[i]) \in Nat
    BY <2>2, DistanceType DEF Ahead
  <2> QED  BY <1>1, <2>2, <2>3, <2>4
<1>3. ASSUME NEW i \in Occupied, NEW j \in Occupied,
             Ahead(slots[i]) = Ahead(slots[j])
      PROVE  i = j
  <2>1. slots[i].seq = slots[j].seq
    BY <1>2, <1>3, DistanceInjective DEF Ahead, JitterInv, TypeOK
  <2> QED  BY <1>2, <2>1
<1>4. f \in Injection(Occupied, T)
  <2>1. f \in [Occupied -> T]
    BY <1>2
  <2>2. \A i, j \in DOMAIN f : f[i] = f[j] => i = j
    BY <1>3
  <2> QED  BY <2>1, <2>2 DEF Injection, IsInjective
<1> HIDE DEF f, n
<1>5. IsFiniteSet(T) /\ Cardinality(T) = IF 0 > n THEN 0 ELSE n - 0 + 1
  BY <1>1, FS_Interval
<1>6. Cardinality(Occupied) <= Cardinality(T)
  BY <1>4, <1>5, FS_Injection
<1>7. Cardinality(T) = MAX_FRAMES
  BY <1>1, <1>5 DEF n
<1> QED  BY <1>6, <1>7 DEF LatencyBounded

(* The buffer never holds more than jitter_max_ms of audio.                *)
THEOREM JitterLatency == Spec => []LatencyBounded
BY InvLatency, JitterInvariant, PTL

-----------------------------------------------------------------------------
(* How long playout waits                                                  *)

BufferingInv == RebufferingBounded /\ now # 0

LEMMA BufferingNext ==
  JitterInv /\ BufferingInv /\ [Next]_vars => BufferingInv'
<1> SUFFICES ASSUME JitterInv, RebufferingBounded, now # 0, [Next]_vars
             PROVE  RebufferingBounded' /\ now' # 0
  BY DEF BufferingInv
<1>1. /\ now \in Nat /\ first_arrival_ns \in Nat
      /\ TARGET_FRAMES \in Nat
  BY JitterAssumption DEF JitterInv, TypeOK
<1>2. CASE Receive
  <2>1. PICK p \in Packets : Insert(p, now)
    BY <1>2 DEF Receive
  <2>2. now' = now
    BY <1>2 DEF Receive
  <2>3. CASE UNCHANGED bufferVars
    BY <2>2, <2>3 DEF bufferVars, RebufferingBounded
  <2>4. CASE ResetTo(p, now)
    BY <1>1, <2>2, <2>4 DEF ResetTo, RebufferingBounded
  <2>5. CASE initialized /\ Store(p, now)
    <3>1. /\ initialized' = initialized /\ started' = started
          /\ first_arrival_ns # 0 => first_arrival_ns' = first_arrival_ns
      BY <2>5 DEF Store
    <3> QED  BY <2>2, <2>5, <3>1 DEF RebufferingBounded
  <2> QED  BY <2>1, <2>3, <2>4, <2>5 DEF Insert
<1>3. CASE Tick
  <2>1. now' = now + 1
    BY <1>3 DEF Tick
  <2>2. CASE Fetch(now)
    BY <1>1, <2>1, <2>2 DEF Fetch, RebufferingBounded
  <2>3. CASE NotReady(now)
    BY <1>1, <2>1, <2>3 DEF NotReady, Ready, bufferVars, RebufferingBounded
  <2> QED  BY <1>3, <2>2, <2>3 DEF Tick
<1>4. CASE UNCHANGED vars
  BY <1>4 DEF vars, bufferVars, RebufferingBounded
<1> QED  BY <1>2, <1>3, <1>4 DEF Next

(* The buffering, at the start and after every reset in mid-stream, ends   *)
(* after jitter_target_ms, whatever comes or does not come.                *)
THEOREM JitterRebuffering == Spec => []RebufferingBounded
<1>1. Init => BufferingInv
  BY DEF Init, BufferingInv, RebufferingBounded
<1>2. BufferingInv => RebufferingBounded
  BY DEF BufferingInv
<1> QED  BY <1>1, <1>2, BufferingNext, JitterInvariant, PTL DEF Spec

-----------------------------------------------------------------------------
(* What a step may not do                                                  *)

Kept(i) ==
  slots[i] # Empty /\ slots'[i] # slots[i] =>
    \/ /\ fetched'.kind = "normal" /\ slots[i].seq = expected_seq
       /\ fetched'.payload = slots[i].payload
    \/ ~ started' /\ count' = 1

LEMMA StepKeeps ==
  JitterInv /\ [Next]_vars => \A i \in SlotIndex : Kept(i)
<1> SUFFICES ASSUME JitterInv, [Next]_vars, NEW i \in SlotIndex,
                    slots[i] # Empty, slots'[i] # slots[i]
             PROVE  \/ /\ fetched'.kind = "normal"
                       /\ slots[i].seq = expected_seq
                       /\ fetched'.payload = slots[i].payload
                    \/ ~ started' /\ count' = 1
  BY DEF Kept
<1>1. slots \in [SlotIndex -> Packets \cup {Empty}]
  BY DEF JitterInv, TypeOK
<1>2. CASE Receive
  <2>1. PICK p \in Packets : Insert(p, now)
    BY <1>2 DEF Receive
  <2>2. ASSUME ~ OutOfWindow(p), ~ Duplicate(p), Store(p, now)
        PROVE  slots'[i] = slots[i]
    <3>1. slots[SlotOf(p.seq)] = Empty
      BY <2>2, StoreSlotEmpty
    <3> QED  BY <1>1, <2>2, <3>1 DEF Store
  <2>3. CASE ResetTo(p, now)
    BY <2>3 DEF ResetTo
  <2> QED  BY <2>1, <2>2, <2>3 DEF Insert, bufferVars
<1>3. CASE Tick
  <2>1. TakeNormal
    BY <1>3 DEF Tick, Fetch, NotReady, bufferVars, TakeFec, TakeNothing
  <2>2. i = SlotOf(expected_seq)
    BY <1>1, <2>1 DEF TakeNormal
  <2> QED  BY <2>1, <2>2 DEF TakeNormal, Holds
<1>4. CASE UNCHANGED vars
  BY <1>4 DEF vars, bufferVars
<1> QED  BY <1>2, <1>3, <1>4 DEF Next

(* An admitted packet stays until it is played or a reset empties the      *)
(* buffer: the overwriting branch of mezon_audio_jitter_insert is dead.    *)
THEOREM JitterKeepsPackets == Spec => KeptUntilPlayed
<1>1. JitterInv /\ [Next]_vars => [\A i \in SlotIndex : Kept(i)]_vars
  BY StepKeeps
<1>2. Spec => [][\A i \in SlotIndex : Kept(i)]_vars
  BY <1>1, JitterInvariant, PTL DEF Spec
<1> QED  BY <1>2 DEF KeptUntilPlayed, Kept

-----------------------------------------------------------------------------
(* What is played                                                          *)

SlotsUsable == \A i \in SlotIndex : slots[i] # Empty => Usable(slots[i])

PlayInv == JitterInv /\ SlotsUsable /\ PlaysRightFrame

LEMMA FetchPlaysRightFrame ==
  ASSUME JitterInv, SlotsUsable, NEW now_ns, Fetch(now_ns)
  PROVE  PlaysRightFrame'
<1>1. /\ expected_seq \in Seq16 /\ expected_timestamp \in Int
      /\ NextSeq(expected_seq) \in Seq16
      /\ Distance(expected_seq, expected_seq) = 0
      /\ Distance(expected_seq, NextSeq(expected_seq)) = 1
  BY NextSeqType, DistanceType DEF JitterInv, TypeOK
<1>2. ASSUME NEW s \in Seq16, Holds(s)
      PROVE  \E p \in Packets :
               /\ Usable(p) /\ p = slots[SlotOf(s)]
               /\ p.timestamp = expected_timestamp
                                + Distance(expected_seq, s) * FRAME_SAMPLES
  BY <1>2, HoldsPacket
     DEF Holds, SlotsUsable, JitterInv, SlotsInWindow, Aligned, Ahead
<1>3. CASE TakeNormal
  <2>1. /\ fetched'.kind = "normal"
        /\ fetched'.payload = slots[SlotOf(expected_seq)].payload
        /\ fetched'.timestamp = slots[SlotOf(expected_seq)].timestamp
    BY <1>3 DEF TakeNormal
  <2>2. PICK p \in Packets : Usable(p) /\ p = slots[SlotOf(expected_seq)]
    BY <1>1, <1>2, <1>3 DEF TakeNormal
  <2> QED  BY <2>1, <2>2 DEF PlaysRightFrame
<1>4. CASE TakeFec
  <2> DEFINE n == NextSeq(expected_seq)
  <2>1. /\ fetched'.kind = "fec"
        /\ fetched'.payload = slots[SlotOf(n)].payload
        /\ fetched'.timestamp = expected_timestamp
    BY <1>4 DEF TakeFec
  <2>2. PICK p \in Packets :
          /\ Usable(p) /\ p = slots[SlotOf(n)]
          /\ p.timestamp = expected_timestamp + 1 * FRAME_SAMPLES
    BY <1>1, <1>2, <1>4 DEF TakeFec
  <2>3. 1 * FRAME_SAMPLES = FRAME_SAMPLES
    BY DEF FRAME_SAMPLES
  <2> QED  BY <2>1, <2>2, <2>3 DEF PlaysRightFrame
<1>5. CASE TakeNothing
  BY <1>5 DEF TakeNothing, PlaysRightFrame
<1> QED  BY <1>3, <1>4, <1>5 DEF Fetch

LEMMA PlayNext == PlayInv /\ [Next]_vars => PlayInv'
<1> SUFFICES ASSUME PlayInv, [Next]_vars PROVE PlayInv'
  OBVIOUS
<1>1. JitterInv /\ SlotsUsable /\ PlaysRightFrame /\ JitterInv'
  BY NextInv DEF PlayInv
<1>2. slots \in [SlotIndex -> Packets \cup {Empty}]
  BY <1>1 DEF JitterInv, TypeOK
<1>3. CASE Receive
  <2>1. fetched' = fetched
    BY <1>3 DEF Receive
  <2>2. PlaysRightFrame'
    BY <1>1, <2>1 DEF PlaysRightFrame
  <2>3. SlotsUsable'
    BY <1>1, <1>2, <1>3
       DEF Receive, Insert, ResetTo, Store, bufferVars, SlotsUsable
  <2> QED  BY <1>1, <2>2, <2>3 DEF PlayInv
<1>4. CASE Tick
  <2>1. CASE Fetch(now)
    <3>1. SlotsUsable'
      BY <1>1, <1>2, <2>1
         DEF Fetch, TakeNormal, TakeFec, TakeNothing, SlotsUsable
    <3> QED  BY <1>1, <2>1, <3>1, FetchPlaysRightFrame DEF PlayInv
  <2>2. CASE NotReady(now)
    BY <1>1, <2>2
       DEF NotReady, bufferVars, SlotsUsable, PlaysRightFrame, PlayInv
  <2> QED  BY <1>4, <2>1, <2>2 DEF Tick
<1>5. CASE UNCHANGED vars
  BY <1>1, <1>5 DEF vars, bufferVars, SlotsUsable, PlaysRightFrame, PlayInv
<1> QED  BY <1>3, <1>4, <1>5 DEF Next

(* The decoder is given the frame of the instant it plays, or for FEC the  *)
(* frame after it.                                                         *)
THEOREM JitterPlaysRightFrame == Spec => []PlaysRightFrame
<1>1. Init => PlayInv
  BY InitInv DEF Init, PlayInv, SlotsUsable, PlaysRightFrame
<1>2. PlayInv => PlaysRightFrame
  BY DEF PlayInv
<1> QED  BY <1>1, <1>2, PlayNext, PTL DEF Spec

-----------------------------------------------------------------------------
(* The slot array implements the set of frames                             *)

(* Held packets are found by their media time exactly as by their number.  *)
LEMMA HeldAt ==
  ASSUME JitterInv, NEW i \in Occupied, NEW s \in Seq16
  PROVE  /\ i \in SlotIndex /\ slots[i] \in Packets
         /\ slots[i].seq = s
              <=> slots[i].timestamp = expected_timestamp
                    + Distance(expected_seq, s) * FRAME_SAMPLES
         /\ slots[i].seq = s => i = SlotOf(s)
<1>1. i \in SlotIndex /\ slots[i] \in Packets /\ slots[i] # Empty
  BY DEF Occupied, JitterInv, TypeOK
<1>2. /\ slots[i].seq \in Seq16 /\ expected_seq \in Seq16
      /\ expected_timestamp \in Int
  BY <1>1, PacketType DEF JitterInv, TypeOK
<1>3. /\ SlotOf(slots[i].seq) = i
      /\ slots[i].timestamp = expected_timestamp
           + Distance(expected_seq, slots[i].seq) * FRAME_SAMPLES
  BY <1>1 DEF JitterInv, SlotsInWindow, Aligned, Ahead
<1>4. /\ Distance(expected_seq, slots[i].seq) \in Nat
      /\ Distance(expected_seq, s) \in Nat
  BY <1>2, DistanceType
<1>5. slots[i].timestamp = expected_timestamp
        + Distance(expected_seq, s) * FRAME_SAMPLES
      => Distance(expected_seq, slots[i].seq) = Distance(expected_seq, s)
  BY <1>2, <1>3, <1>4 DEF FRAME_SAMPLES
<1> QED  BY <1>1, <1>2, <1>3, <1>5, DistanceInjective

LEMMA ResetRestarts ==
  ASSUME JitterInv, NEW p \in Packets, ResetTo(p, now), fetched' = fetched
  PROVE  Buffer!Restart(FrameOf(p))
<1>1. p # Empty /\ SlotOf(p.seq) \in SlotIndex
  BY PacketType, SlotType
<1>2. slots' = [i \in SlotIndex |-> IF i = SlotOf(p.seq) THEN p ELSE Empty]
  BY DEF ResetTo
<1>3. Occupied' = {SlotOf(p.seq)} /\ slots'[SlotOf(p.seq)] = p
  BY <1>1, <1>2 DEF Occupied
<1>4. HeldFrames' = {FrameOf(p)}
  BY <1>3 DEF HeldFrames
<1>5. Phase' = "buffering" /\ expected_timestamp' = FrameOf(p).timestamp
  BY DEF ResetTo, FrameOf, Phase
<1> QED  BY <1>4, <1>5 DEF Buffer!Restart

LEMMA StoreAdmits ==
  ASSUME JitterInv, NEW p \in Packets, initialized, ~ OutOfWindow(p),
         Aligned(p), ~ Duplicate(p), Store(p, now), fetched' = fetched
  PROVE  Buffer!Admit(FrameOf(p))
<1> DEFINE i == SlotOf(p.seq)
           f == FrameOf(p)
<1>1. p.seq \in Seq16 /\ p # Empty /\ i \in SlotIndex /\ slots[i] = Empty
  BY PacketType, SlotType, StoreSlotEmpty
<1>2. /\ slots \in [SlotIndex -> Packets \cup {Empty}]
      /\ slots' = [slots EXCEPT ![i] = p]
  BY DEF Store, JitterInv, TypeOK
<1>3. f.timestamp = expected_timestamp + Ahead(p) * FRAME_SAMPLES
  BY DEF FrameOf, Aligned
<1>4. Ahead(p) \in 0 .. MAX_FRAMES - 1
  <2>1. Distance(expected_seq, p.seq) \in Nat
    BY <1>1, DistanceType DEF JitterInv, TypeOK
  <2> QED  BY <2>1, JitterAssumption DEF OutOfWindow, Ahead
<1>5. \A j \in Occupied : slots[j].timestamp # f.timestamp
  <2> SUFFICES ASSUME NEW j \in Occupied, slots[j].timestamp = f.timestamp
               PROVE  FALSE
    OBVIOUS
  <2>1. j = i
    BY <1>1, <1>3, HeldAt DEF Ahead
  <2> QED  BY <1>1, <2>1 DEF Occupied
<1>6. Buffer!FrameAt(f.timestamp) = {}
  BY <1>5 DEF Buffer!FrameAt, FrameOf, HeldFrames
<1>7. Occupied' = Occupied \cup {i}
  BY <1>1, <1>2 DEF Occupied
<1>8. HeldFrames' = HeldFrames \cup {f}
  <2>1. \A j \in Occupied : slots'[j] = slots[j]
    BY <1>1, <1>2 DEF Occupied
  <2>2. slots'[i] = p
    BY <1>1, <1>2
  <2> QED  BY <1>7, <2>1, <2>2 DEF HeldFrames
<1>9. /\ Phase # "idle" /\ Phase' = Phase
      /\ expected_timestamp' = expected_timestamp
  BY DEF Store, Phase
<1>10. \E k \in 0 .. MAX_FRAMES - 1 :
         f.timestamp = expected_timestamp + k * FRAME_SAMPLES
  BY <1>3, <1>4
<1> HIDE DEF f
<1>11. Buffer!Admit(f)
  BY <1>6, <1>8, <1>9, <1>10 DEF Buffer!Admit
<1> QED  BY <1>11 DEF f

LEMMA NotReadyHolds ==
  ASSUME NotReady(now)
  PROVE  Buffer!Hold
<1>1. Phase # "playing"
  BY DEF NotReady, Ready, Phase
<1>2. /\ Phase' = Phase /\ HeldFrames' = HeldFrames
      /\ expected_timestamp' = expected_timestamp
  BY DEF NotReady, bufferVars, Phase, HeldFrames, Occupied
<1> QED  BY <1>1, <1>2 DEF Buffer!Hold, NotReady

LEMMA FetchPlays ==
  ASSUME JitterInv, Fetch(now)
  PROVE  Buffer!Play
<1> DEFINE e == expected_seq
           n == NextSeq(expected_seq)
           t == expected_timestamp
<1>1. /\ e \in Seq16 /\ n \in Seq16 /\ t \in Int
      /\ t + Distance(e, e) * FRAME_SAMPLES = t
      /\ t + Distance(e, n) * FRAME_SAMPLES = t + FRAME_SAMPLES
  BY NextSeqType, DistanceType DEF JitterInv, TypeOK, FRAME_SAMPLES
<1>2. Phase # "idle" /\ Phase' = "playing" /\ t' = t + FRAME_SAMPLES
  BY DEF Fetch, Ready, Phase, Advance
<1>3. ASSUME ~ Holds(e)
      PROVE  Buffer!FrameAt(t) = {}
  <2> SUFFICES ASSUME NEW j \in Occupied, slots[j].timestamp = t
               PROVE  FALSE
    BY DEF Buffer!FrameAt, HeldFrames, FrameOf
  <2>1. slots[j].seq = e /\ j = SlotOf(e)
    BY <1>1, HeldAt
  <2> QED  BY <1>3, <2>1 DEF Holds, Occupied
<1>4. CASE TakeNormal
  <2> DEFINE i == SlotOf(e)
             f == FrameOf(slots[i])
  <2>1. i \in Occupied /\ slots[i].seq = e /\ i \in SlotIndex
    BY <1>1, <1>4, SlotType DEF TakeNormal, Holds, Occupied
  <2>2. slots[i].timestamp = t
    BY <1>1, <2>1, HeldAt
  <2>3. f \in Buffer!FrameAt(t)
    BY <2>1, <2>2 DEF Buffer!FrameAt, HeldFrames, FrameOf
  <2>4. fetched' = [kind |-> "normal", timestamp |-> t,
                    payload |-> f.payload]
    BY <1>4, <2>2 DEF TakeNormal, FrameOf
  <2>5. /\ Occupied' = Occupied \ {i}
        /\ \A j \in Occupied' : slots'[j] = slots[j]
    BY <1>4, <2>1 DEF TakeNormal, JitterInv, TypeOK, Occupied
  <2>6. \A j \in Occupied' : FrameOf(slots[j]) # f
    <3> SUFFICES ASSUME NEW j \in Occupied', FrameOf(slots[j]) = f
                 PROVE  FALSE
      OBVIOUS
    <3>1. slots[j].timestamp = t
      BY <2>2 DEF FrameOf
    <3>2. j \in Occupied /\ j # i
      BY <2>5
    <3>3. slots[j].seq = e
      BY <1>1, <3>1, <3>2, HeldAt
    <3>4. j = SlotOf(e)
      BY <1>1, <3>2, <3>3, HeldAt
    <3> QED  BY <3>2, <3>4
  <2>7. HeldFrames' = HeldFrames \ {f}
    BY <2>1, <2>5, <2>6 DEF HeldFrames
  <2> QED  BY <1>2, <2>3, <2>4, <2>7 DEF Buffer!Play
<1>5. CASE TakeFec
  <2> DEFINE i == SlotOf(n)
             f == FrameOf(slots[i])
  <2>1. i \in Occupied /\ slots[i].seq = n
    BY <1>1, <1>5, SlotType DEF TakeFec, Holds, Occupied
  <2>2. slots[i].timestamp = t + FRAME_SAMPLES
    BY <1>1, <2>1, HeldAt
  <2>3. f \in Buffer!FrameAt(t + FRAME_SAMPLES)
    BY <2>1, <2>2 DEF Buffer!FrameAt, HeldFrames, FrameOf
  <2>4. fetched' = [kind |-> "fec", timestamp |-> t, payload |-> f.payload]
    BY <1>5 DEF TakeFec, FrameOf
  <2>5. HeldFrames' = HeldFrames
    BY <1>5 DEF TakeFec, HeldFrames, Occupied
  <2>6. Buffer!FrameAt(t) = {}
    BY <1>3, <1>5 DEF TakeFec
  <2> QED  BY <1>2, <2>3, <2>4, <2>5, <2>6 DEF Buffer!Play
<1>6. CASE TakeNothing
  <2>1. Buffer!FrameAt(t + FRAME_SAMPLES) = {}
    <3> SUFFICES ASSUME NEW j \in Occupied,
                        slots[j].timestamp = t + FRAME_SAMPLES
                 PROVE  FALSE
      BY DEF Buffer!FrameAt, HeldFrames, FrameOf
    <3>1. slots[j].seq = n /\ j = SlotOf(n)
      BY <1>1, HeldAt
    <3> QED  BY <1>6, <3>1 DEF TakeNothing, Holds, Occupied
  <2>2. Buffer!FrameAt(t) = {}
    BY <1>3, <1>6 DEF TakeNothing
  <2>3. HeldFrames' = HeldFrames
    BY <1>6 DEF TakeNothing, HeldFrames, Occupied
  <2> QED  BY <1>2, <1>6, <2>1, <2>2, <2>3 DEF Buffer!Play, TakeNothing
<1> QED  BY <1>4, <1>5, <1>6 DEF Fetch

LEMMA StepRefines ==
  JitterInv /\ [Next]_vars => [Buffer!BufferNext]_(Buffer!bufVars)
<1> SUFFICES ASSUME JitterInv, [Next]_vars
             PROVE  Buffer!BufferNext \/ UNCHANGED Buffer!bufVars
  OBVIOUS
<1>1. CASE Receive
  <2>1. PICK p \in Packets : Insert(p, now)
    BY <1>1 DEF Receive
  <2>2. FrameOf(p) \in {FrameOf(q) : q \in Packets} /\ fetched' = fetched
    BY <1>1 DEF Receive
  <2>3. CASE ResetTo(p, now)
    BY <2>2, <2>3, ResetRestarts DEF Buffer!BufferNext
  <2>4. CASE /\ initialized /\ ~ OutOfWindow(p) /\ Aligned(p)
             /\ ~ Duplicate(p) /\ Store(p, now)
    BY <2>2, <2>4, StoreAdmits DEF Buffer!BufferNext
  <2>5. CASE UNCHANGED bufferVars
    BY <2>2, <2>5
       DEF bufferVars, Buffer!bufVars, Phase, HeldFrames, Occupied
  <2> QED  BY <2>1, <2>3, <2>4, <2>5 DEF Insert
<1>2. CASE Tick
  BY <1>2, NotReadyHolds, FetchPlays DEF Tick, Buffer!BufferNext
<1>3. CASE UNCHANGED vars
  BY <1>3 DEF vars, bufferVars, Buffer!bufVars, Phase, HeldFrames, Occupied
<1> QED  BY <1>1, <1>2, <1>3 DEF Next

(* The jitter buffer implements PlayoutBuffer.                             *)
THEOREM JitterRefinement == Spec => BufferRefinement
<1>1. Init => Buffer!BufferInit
  BY DEF Init, Buffer!BufferInit, Phase, HeldFrames, Occupied
<1> QED
  BY <1>1, StepRefines, JitterInvariant, PTL
     DEF Spec, BufferRefinement, Buffer!BufferSpec

-----------------------------------------------------------------------------
(* The media time line of one direction of a call                          *)

(* A number and a timestamp of the sender's stream.                        *)
OnLine(s, t) ==
  \E n \in Nat : s = Numbered(FIRST_SEQ, n) /\ t = n * FRAME_SAMPLES

LEMMA LineType ==
  ASSUME NEW s, NEW t, OnLine(s, t)
  PROVE  s \in Seq16 /\ t \in Nat
<1>1. PICK n \in Nat : s = Numbered(FIRST_SEQ, n) /\ t = n * FRAME_SAMPLES
  BY DEF OnLine
<1>2. t \in Nat
  BY <1>1 DEF FRAME_SAMPLES
<1> QED  BY <1>1, <1>2, NumberedNext, LinkAssumption

LEMMA LineNext ==
  ASSUME NEW s, NEW t, OnLine(s, t)
  PROVE  OnLine(NextSeq(s), t + FRAME_SAMPLES)
<1>1. PICK n \in Nat : s = Numbered(FIRST_SEQ, n) /\ t = n * FRAME_SAMPLES
  BY DEF OnLine
<1>2. /\ n + 1 \in Nat
      /\ t + FRAME_SAMPLES = (n + 1) * FRAME_SAMPLES
  BY <1>1 DEF FRAME_SAMPLES
<1>3. NextSeq(s) = Numbered(FIRST_SEQ, n + 1)
  BY <1>1, NumberedNext, LinkAssumption
<1> QED  BY <1>2, <1>3 DEF OnLine

(* Instants of the stream are whole frames apart.                          *)
LEMMA LineStep ==
  ASSUME NEW s, NEW t, OnLine(s, t), NEW r, NEW u, OnLine(r, u), t < u
  PROVE  t + FRAME_SAMPLES <= u
<1>1. PICK n \in Nat : t = n * FRAME_SAMPLES
  BY DEF OnLine
<1>2. PICK m \in Nat : u = m * FRAME_SAMPLES
  BY DEF OnLine
<1> QED  BY <1>1, <1>2 DEF FRAME_SAMPLES

(* Within half the circle, numbers compare as the instants do.             *)
LEMMA LineBefore ==
  ASSUME NEW s, NEW t, OnLine(s, t), NEW r, NEW u, OnLine(r, u),
         t < u, u - t <= HALF_SEQ * FRAME_SAMPLES
  PROVE  SeqBefore(s, r)
<1>1. PICK n \in Nat : s = Numbered(FIRST_SEQ, n) /\ t = n * FRAME_SAMPLES
  BY DEF OnLine
<1>2. PICK m \in Nat : r = Numbered(FIRST_SEQ, m) /\ u = m * FRAME_SAMPLES
  BY DEF OnLine
<1>3. n < m /\ m - n <= HALF_SEQ
  BY <1>1, <1>2 DEF FRAME_SAMPLES, HALF_SEQ
<1> QED  BY <1>1, <1>2, <1>3, NumberedBefore, LinkAssumption

(* Within the circle, the number tells the instant.                        *)
LEMMA LineDistance ==
  ASSUME NEW s, NEW t, OnLine(s, t), NEW r, NEW u, OnLine(r, u),
         t <= u, u - t <= HALF_SEQ * FRAME_SAMPLES
  PROVE  /\ u = t + Distance(s, r) * FRAME_SAMPLES
         /\ Distance(s, r) \in 0 .. HALF_SEQ
         /\ u - t < HALF_SEQ * FRAME_SAMPLES => Distance(s, r) < HALF_SEQ
         /\ s = r => t = u
<1>1. PICK n \in Nat : s = Numbered(FIRST_SEQ, n) /\ t = n * FRAME_SAMPLES
  BY DEF OnLine
<1>2. PICK m \in Nat : r = Numbered(FIRST_SEQ, m) /\ u = m * FRAME_SAMPLES
  BY DEF OnLine
<1>3. /\ n <= m /\ m - n <= HALF_SEQ /\ m - n \in Nat
      /\ u - t < HALF_SEQ * FRAME_SAMPLES => m - n < HALF_SEQ
  BY <1>1, <1>2 DEF FRAME_SAMPLES, HALF_SEQ
<1>4. m - n < SEQ_MOD
  BY <1>3, SeqModFacts
<1>5. Distance(s, r) = m - n
  BY <1>1, <1>2, <1>3, <1>4, NumberedDistance, LinkAssumption
<1>6. u = t + (m - n) * FRAME_SAMPLES
  BY <1>1, <1>2 DEF FRAME_SAMPLES
<1>7. m - n \in 0 .. HALF_SEQ
  BY <1>3, SeqModFacts
<1>8. s = r => t = u
  <2>1. s = r => m - n = 0
    BY <1>5, LineType, DistanceType
  <2> QED  BY <1>1, <1>2, <2>1
<1> QED  BY <1>3, <1>5, <1>6, <1>7, <1>8

-----------------------------------------------------------------------------
(* Sender, network and cursor keep to one line.                            *)
LineInv ==
  /\ OnLine(next_seq, next_timestamp)
  /\ \A p \in network : /\ OnLine(p.seq, p.timestamp)
                        /\ p.timestamp < next_timestamp
  /\ initialized => OnLine(expected_seq, expected_timestamp)

(* How the steps of a call move the buffer and its cursor.                 *)
LEMMA DeliverCases ==
  ASSUME Deliver
  PROVE  /\ UNCHANGED <<fetched, now, senderVars, renderVars>>
         /\ \/ /\ UNCHANGED bufferVars
               /\ \E p \in network \cup Strays : Refused(p)
            \/ \E p \in network : /\ ~ initialized \/ ~ Late(p)
                                  /\ Insert(p, now) /\ ResetTo(p, now)
            \/ \E p \in network : /\ initialized /\ ~ Late(p)
                                  /\ Insert(p, now) /\ Store(p, now)
BY Zenon DEF Deliver, Insert, Strays

LEMMA LockCases ==
  ASSUME Lock
  PROVE  /\ ~ decoding /\ now' = now + 1
         /\ UNCHANGED <<senderVars, consecutive_plc, played>>
         /\ \/ /\ Fetch(now) /\ initialized /\ UNCHANGED initialized
               /\ decoding' = TRUE
               /\ fetched'.kind \in {"normal", "fec", "gap"}
            \/ /\ NotReady(now) /\ decoding' = FALSE
<1>1. CASE Fetch(now)
  <2>1. fetched'.kind \in {"normal", "fec", "gap"}
    BY <1>1 DEF Fetch, TakeNormal, TakeFec, TakeNothing
  <2>2. fetched'.kind # "not_ready"
    BY <2>1
  <2> QED  BY <1>1, <2>1, <2>2 DEF Lock, Tick, Fetch, Ready
<1>2. CASE NotReady(now)
  BY <1>2 DEF Lock, Tick, NotReady
<1> QED  BY <1>1, <1>2 DEF Lock, Tick

LEMMA LineInitial == LinkInit => LineInv
<1>1. OnLine(FIRST_SEQ, 0)
  <2>1. 0 \in Nat /\ 0 = 0 * FRAME_SAMPLES
    BY DEF FRAME_SAMPLES
  <2>2. FIRST_SEQ = Numbered(FIRST_SEQ, 0)
    BY NumberedNext, LinkAssumption
  <2> QED  BY <2>1, <2>2 DEF OnLine
<1> QED  BY <1>1 DEF LinkInit, Init, LineInv

LEMMA LineInductive ==
  ASSUME LineInv, [LinkNext]_linkVars
  PROVE  LineInv'
<1>1. CASE Capture
  <2>1. /\ UNCHANGED <<expected_seq, expected_timestamp, initialized>>
        /\ Encoded \/ NotEncoded
    BY <1>1 DEF Capture, vars, bufferVars
  <2>2. CASE NotEncoded
    BY <2>1, <2>2 DEF NotEncoded, LineInv, OnLine
  <2>3. CASE Encoded
    <3>1. /\ next_seq' = NextSeq(next_seq)
          /\ next_timestamp' = next_timestamp + FRAME_SAMPLES
          /\ \A p \in network' : \/ p \in network
                                 \/ /\ p.seq = next_seq
                                    /\ p.timestamp = next_timestamp
      BY <2>3 DEF Encoded, Frame
    <3>2. OnLine(next_seq, next_timestamp)
      BY DEF LineInv
    <3>3. OnLine(next_seq', next_timestamp')
      BY <3>1, <3>2, LineNext
    <3>4. next_timestamp \in Nat /\ next_timestamp' > next_timestamp
      BY <3>1, <3>2, LineType DEF FRAME_SAMPLES
    <3>5. ASSUME NEW p \in network'
          PROVE  OnLine(p.seq, p.timestamp) /\ p.timestamp < next_timestamp'
      <4>1. CASE p \in network
        <5>1. OnLine(p.seq, p.timestamp) /\ p.timestamp < next_timestamp
          BY <4>1 DEF LineInv
        <5>2. p.timestamp \in Nat
          BY <5>1, LineType
        <5> QED  BY <3>1, <3>4, <5>1, <5>2
      <4>2. CASE p.seq = next_seq /\ p.timestamp = next_timestamp
        BY <3>2, <3>4, <4>2
      <4> QED  BY <3>1, <4>1, <4>2
    <3>6. initialized' => OnLine(expected_seq', expected_timestamp')
      BY <2>1 DEF LineInv
    <3> QED  BY <3>3, <3>5, <3>6 DEF LineInv, OnLine
  <2> QED  BY <2>1, <2>2, <2>3
<1>2. ASSUME UNCHANGED senderVars,
             initialized' => OnLine(expected_seq', expected_timestamp')
      PROVE  LineInv'
  BY <1>2 DEF senderVars, LineInv, OnLine
<1>3. CASE Deliver
  <2>1. CASE UNCHANGED bufferVars
    BY <1>2, <1>3, <2>1, DeliverCases DEF bufferVars, LineInv
  <2>2. ASSUME NEW p \in network, ResetTo(p, now)  PROVE LineInv'
    <3>1. expected_seq' = p.seq /\ expected_timestamp' = p.timestamp
      BY <2>2 DEF ResetTo
    <3> QED  BY <1>2, <1>3, <3>1, DeliverCases DEF LineInv
  <2>3. ASSUME NEW p \in network, initialized, Store(p, now)  PROVE LineInv'
    BY <1>2, <1>3, <2>3, DeliverCases DEF Store, LineInv
  <2> QED  BY <1>3, <2>1, <2>2, <2>3, DeliverCases
<1>4. CASE Lock
  <2>1. CASE Fetch(now) /\ initialized
    <3>1. /\ expected_seq' = NextSeq(expected_seq)
          /\ expected_timestamp' = expected_timestamp + FRAME_SAMPLES
      BY <2>1 DEF Fetch, Advance
    <3>2. OnLine(expected_seq', expected_timestamp')
      BY <2>1, <3>1, LineNext DEF LineInv
    <3> QED  BY <1>2, <1>4, <3>2, LockCases
  <2>2. CASE NotReady(now)
    BY <1>2, <1>4, <2>2, LockCases DEF NotReady, bufferVars, LineInv
  <2> QED  BY <1>4, <2>1, <2>2, LockCases
<1>5. CASE Decode \/ UNCHANGED linkVars
  BY <1>2, <1>5 DEF Decode, linkVars, vars, bufferVars, LineInv
<1> QED  BY <1>1, <1>3, <1>4, <1>5 DEF LinkNext

LEMMA LineInvariant == LinkSpec => []LineInv
BY LineInitial, LineInductive, PTL DEF LinkSpec

(* A packet in sight is behind the cursor exactly if its number says so.   *)
LEMMA NotBehind ==
  ASSUME LineInv, initialized, NEW p \in network, InSight(p)
  PROVE  /\ p.timestamp < expected_timestamp => Late(p)
         /\ ~ Late(p) => Aligned(p)
<1>1. /\ OnLine(p.seq, p.timestamp)
      /\ OnLine(expected_seq, expected_timestamp)
  BY DEF LineInv
<1>2. /\ p.timestamp \in Nat /\ expected_timestamp \in Nat
      /\ p.seq \in Seq16 /\ expected_seq \in Seq16
  BY <1>1, LineType
<1>3. /\ expected_timestamp - p.timestamp <= HALF_SEQ * FRAME_SAMPLES
      /\ p.timestamp - expected_timestamp < HALF_SEQ * FRAME_SAMPLES
  BY DEF InSight
<1>4. p.timestamp < expected_timestamp => Late(p)
  BY <1>1, <1>3, LineBefore DEF Late
<1>5. ASSUME ~ Late(p)  PROVE Aligned(p)
  <2>1. /\ expected_timestamp <= p.timestamp
        /\ p.timestamp - expected_timestamp <= HALF_SEQ * FRAME_SAMPLES
    BY <1>2, <1>3, <1>4, <1>5 DEF HALF_SEQ, FRAME_SAMPLES
  <2> QED  BY <1>1, <2>1, LineDistance DEF Aligned, Ahead
<1> QED  BY <1>4, <1>5

(* Sender and receiver agree on the media time line: whatever was lost,    *)
(* reordered or not encoded, and wherever a reset put the cursor, no       *)
(* packet in sight and inside the window is refused as malformed.          *)
THEOREM LinkNeverMalformed == LinkSpec => []NeverMalformed
<1>1. LineInv => NeverMalformed
  BY NotBehind DEF NeverMalformed
<1> QED  BY <1>1, LineInvariant, PTL

-----------------------------------------------------------------------------
(* Neither end runs faster than the ticks they count.                      *)
PaceInv ==
  /\ now \in Nat /\ last_capture \in Nat /\ captured \in Nat
  /\ 1 <= now /\ captured <= last_capture /\ last_capture <= now
  /\ next_timestamp <= captured * FRAME_SAMPLES
  /\ initialized => expected_timestamp <= now * FRAME_SAMPLES

LEMMA PaceInductive ==
  ASSUME LineInv, PaceInv, [LinkNext]_linkVars
  PROVE  PaceInv'
<1>1. next_timestamp \in Nat /\ (initialized => expected_timestamp \in Nat)
  BY LineType DEF LineInv
<1>2. CASE Capture
  <2>1. /\ last_capture < now /\ captured' = captured + 1
        /\ last_capture' = now /\ now' = now
        /\ UNCHANGED <<initialized, expected_timestamp>>
        /\ \/ next_timestamp' = next_timestamp
           \/ next_timestamp' = next_timestamp + FRAME_SAMPLES
    BY <1>2 DEF Capture, Encoded, NotEncoded, vars, bufferVars
  <2> QED  BY <1>1, <2>1 DEF PaceInv, FRAME_SAMPLES
<1>3. ASSUME UNCHANGED senderVars, now' = now \/ now' = now + 1,
             initialized' => expected_timestamp' <= now' * FRAME_SAMPLES
      PROVE  PaceInv'
  BY <1>3 DEF senderVars, PaceInv
<1>4. CASE Deliver
  <2>1. UNCHANGED senderVars /\ now' = now
    BY <1>4, DeliverCases
  <2>2. CASE UNCHANGED <<initialized, expected_timestamp>>
    BY <1>3, <2>1, <2>2 DEF PaceInv
  <2>3. ASSUME NEW p \in network, ResetTo(p, now)  PROVE PaceInv'
    <3>1. p.timestamp < next_timestamp /\ p.timestamp \in Nat
      BY LineType DEF LineInv
    <3>2. expected_timestamp' <= now' * FRAME_SAMPLES
      BY <1>1, <2>1, <2>3, <3>1 DEF ResetTo, PaceInv, FRAME_SAMPLES
    <3> QED  BY <1>3, <2>1, <3>2
  <2> QED  BY <1>4, <2>2, <2>3, DeliverCases DEF Store, bufferVars
<1>5. CASE Lock
  <2>1. UNCHANGED senderVars /\ now' = now + 1
    BY <1>5, LockCases
  <2>2. initialized' => initialized
    BY <1>5, LockCases DEF Fetch, NotReady, bufferVars
  <2>3. \/ expected_timestamp' = expected_timestamp
        \/ expected_timestamp' = expected_timestamp + FRAME_SAMPLES
    BY <1>5, LockCases DEF Fetch, Advance, NotReady, bufferVars
  <2>4. initialized' => expected_timestamp' <= now' * FRAME_SAMPLES
    BY <1>1, <2>1, <2>2, <2>3 DEF PaceInv, FRAME_SAMPLES
  <2> QED  BY <1>3, <2>1, <2>4
<1>6. CASE Decode \/ UNCHANGED linkVars
  BY <1>3, <1>6 DEF Decode, linkVars, vars, bufferVars, PaceInv
<1> QED  BY <1>2, <1>4, <1>5, <1>6 DEF LinkNext

(* For the first 32768 ticks everything is in sight, whatever is lost,     *)
(* repeated or kept back by the network.                                   *)
THEOREM LinkInSight ==
  LinkSpec => [](now <= HALF_SEQ => \A p \in network : InSight(p))
<1>1. LinkInit => PaceInv
  BY DEF LinkInit, Init, PaceInv, FRAME_SAMPLES
<1>2. LineInv /\ PaceInv => (now <= HALF_SEQ => \A p \in network : InSight(p))
  <2> SUFFICES ASSUME LineInv, PaceInv, now <= HALF_SEQ, initialized,
                      NEW p \in network
               PROVE  /\ p.timestamp - expected_timestamp
                           < HALF_SEQ * FRAME_SAMPLES
                      /\ expected_timestamp - p.timestamp
                           <= HALF_SEQ * FRAME_SAMPLES
    BY DEF InSight
  <2>1. p.timestamp \in Nat /\ expected_timestamp \in Nat
        /\ next_timestamp \in Nat /\ p.timestamp < next_timestamp
    BY LineType DEF LineInv
  <2> QED  BY <2>1 DEF PaceInv, FRAME_SAMPLES, HALF_SEQ
<1>3. LineInv /\ PaceInv /\ [LinkNext]_linkVars => PaceInv'
  BY PaceInductive
<1> QED  BY <1>1, <1>2, <1>3, LineInvariant, PTL DEF LinkSpec

-----------------------------------------------------------------------------
(* What is known of the buffer and of the packets it may hold.             *)
CallInv ==
  /\ LineInv
  /\ slots \in [SlotIndex -> network \cup {Empty}]
  /\ \A p \in network : p.payload \in 1 .. captured
  /\ \A p, q \in network : p.timestamp < q.timestamp => p.payload < q.payload
  /\ captured \in Nat
  /\ decoding => initialized

LEMMA CallInductive ==
  ASSUME CallInv, [LinkNext]_linkVars
  PROVE  CallInv'
<1>1. LineInv'
  BY LineInductive DEF CallInv
<1>2. CASE Capture
  <2>1. /\ captured' = captured + 1
        /\ UNCHANGED <<slots, initialized, decoding>>
        /\ Encoded \/ NotEncoded
    BY <1>2 DEF Capture, vars, bufferVars, renderVars
  <2>2. CASE NotEncoded
    BY <1>1, <2>1, <2>2 DEF NotEncoded, CallInv
  <2>3. CASE Encoded
    <3>1. /\ network \subseteq network'
          /\ \A p \in network' :
               \/ p \in network
               \/ /\ p.timestamp = next_timestamp /\ p.payload = captured + 1
      BY <2>1, <2>3 DEF Encoded, Frame
    <3>2. slots' \in [SlotIndex -> network' \cup {Empty}]
      BY <2>1, <3>1 DEF CallInv
    <3>3. \A p \in network : /\ p.payload \in Nat /\ p.payload <= captured
                             /\ p.payload >= 1
                             /\ p.timestamp \in Nat
                             /\ p.timestamp < next_timestamp
      BY LineType DEF CallInv, LineInv
    <3>4. next_timestamp \in Nat /\ captured \in Nat
      BY LineType DEF CallInv, LineInv
    <3>5. \A p \in network' : p.payload \in 1 .. captured'
      BY <2>1, <3>1, <3>3, <3>4
    <3>6. ASSUME NEW p \in network', NEW q \in network',
                 p.timestamp < q.timestamp
          PROVE  p.payload < q.payload
      BY <3>1, <3>3, <3>4, <3>6 DEF CallInv
    <3> QED  BY <1>1, <2>1, <3>2, <3>4, <3>5, <3>6 DEF CallInv
  <2> QED  BY <2>1, <2>2, <2>3
<1>3. ASSUME UNCHANGED senderVars, decoding' => initialized',
             slots' \in [SlotIndex -> network \cup {Empty}]
      PROVE  CallInv'
  BY <1>1, <1>3 DEF senderVars, CallInv
<1>4. CASE Deliver
  <2>1. UNCHANGED senderVars /\ decoding' = decoding
    BY <1>4, DeliverCases DEF renderVars
  <2>2. CASE UNCHANGED bufferVars
    BY <1>3, <2>1, <2>2 DEF bufferVars, CallInv
  <2>3. ASSUME NEW p \in network,
               ResetTo(p, now) \/ (initialized /\ Store(p, now))
        PROVE  CallInv'
    <3>1. slots' \in [SlotIndex -> network \cup {Empty}]
      BY <2>3 DEF ResetTo, Store, CallInv
    <3> QED  BY <1>3, <2>1, <2>3, <3>1 DEF ResetTo, Store, CallInv
  <2> QED  BY <1>4, <2>2, <2>3, DeliverCases
<1>5. CASE Lock
  <2>1. UNCHANGED senderVars
    BY <1>5, LockCases
  <2>2. CASE Fetch(now) /\ initialized /\ UNCHANGED initialized
    <3>1. slots' \in [SlotIndex -> network \cup {Empty}]
      BY <2>2 DEF Fetch, TakeNormal, TakeFec, TakeNothing, CallInv
    <3> QED  BY <1>3, <2>1, <2>2, <3>1
  <2>3. CASE NotReady(now) /\ decoding' = FALSE
    BY <1>3, <2>1, <2>3 DEF NotReady, bufferVars, CallInv
  <2> QED  BY <1>5, <2>2, <2>3, LockCases
<1>6. CASE Decode
  BY <1>3, <1>6 DEF Decode, vars, bufferVars, CallInv
<1>7. CASE UNCHANGED linkVars
  BY <1>3, <1>7 DEF linkVars, vars, bufferVars, renderVars, CallInv
<1> QED  BY <1>2, <1>4, <1>5, <1>6, <1>7 DEF LinkNext

LEMMA CallInvariant == LinkSpec => []CallInv
<1>1. LinkInit => CallInv
  BY LineInitial DEF LinkInit, Init, CallInv
<1>2. CallInv /\ [LinkNext]_linkVars => CallInv'
  BY CallInductive
<1> QED  BY <1>1, <1>2, PTL DEF LinkSpec

-----------------------------------------------------------------------------
(* The buffer of a call is the buffer of AudioJitter                       *)

LEMMA KnownInductive ==
  ASSUME LineInv, PaceInv, network \subseteq Packets, [LinkNext]_linkVars
  PROVE  (network \subseteq Packets)'
<1>1. CASE Capture /\ Encoded
  <2>1. /\ network' = network \cup {Frame}
        /\ captured < MAX_CAPTURES /\ captured' = captured + 1
    BY <1>1 DEF Capture, Encoded
  <2>2. PICK k \in Nat : /\ next_seq = Numbered(FIRST_SEQ, k)
                         /\ next_timestamp = k * FRAME_SAMPLES
    BY DEF LineInv, OnLine
  <2>3. k \in 0 .. MAX_CAPTURES - 1 /\ captured' \in 1 .. MAX_CAPTURES
    BY <2>1, <2>2, LinkAssumption DEF PaceInv, FRAME_SAMPLES
  <2>4. Frame = [seq |-> (FIRST_SEQ + k) % SEQ_MOD,
                 timestamp |-> k * FRAME_SAMPLES, payload |-> captured']
    BY <2>2 DEF Frame, Numbered
  <2>5. Frame \in Packets
    BY <2>3, <2>4, LinkAssumption
  <2> QED  BY <2>1, <2>5
<1>2. CASE UNCHANGED network
  BY <1>2
<1> QED  BY <1>1, <1>2 DEF LinkNext, Capture, NotEncoded, Deliver, Lock,
                           Decode, linkVars, senderVars

(* A call is a use of the jitter buffer: what is proved of the buffer for  *)
(* any packets holds for those of a sender and a network.                  *)
THEOREM LinkIsJitter == LinkSpec => Spec
<1> DEFINE KnownInv == LineInv /\ PaceInv /\ network \subseteq Packets
<1>1. LinkInit => KnownInv
  BY LineInitial DEF LinkInit, Init, PaceInv, FRAME_SAMPLES
<1>2. KnownInv /\ [LinkNext]_linkVars => KnownInv'
  BY LineInductive, PaceInductive, KnownInductive
<1>3. KnownInv /\ [LinkNext]_linkVars => [Next]_vars
  <2> SUFFICES ASSUME KnownInv, [LinkNext]_linkVars  PROVE [Next]_vars
    OBVIOUS
  <2>1. CASE Deliver
    <3>1. PICK p \in network \cup Strays : Insert(p, now)
      BY <2>1 DEF Deliver
    <3>2. p \in Packets
      BY DEF Strays
    <3> QED  BY <2>1, <3>1, <3>2 DEF Deliver, Receive, Next
  <2>2. CASE Lock
    BY <2>2 DEF Lock, Next
  <2>3. CASE Capture \/ Decode \/ UNCHANGED linkVars
    BY <2>3 DEF Capture, Decode, linkVars
  <2> QED  BY <2>1, <2>2, <2>3 DEF LinkNext
<1>4. LinkInit => Init
  BY DEF LinkInit
<1> HIDE DEF KnownInv
<1> QED  BY <1>1, <1>2, <1>3, <1>4, PTL DEF LinkSpec, Spec

-----------------------------------------------------------------------------
(* What is accepted is not behind the cursor if the network keeps to what  *)
(* it must.                                                                *)
EntersInSight == \A p \in network : Enters(p) => InSight(p)

LEMMA TakenIsAhead ==
  ASSUME LineInv, initialized, EntersInSight, NEW p \in network,
         Insert(p, now), ~ Late(p), bufferVars' # bufferVars
  PROVE  ~ (p.timestamp < expected_timestamp)
<1>1. InSight(p)
  BY DEF EntersInSight, Enters
<1> QED  BY <1>1, NotBehind

(* The frame due is the one of the cursor's instant.                       *)
LEMMA DueIsOnTime ==
  ASSUME JitterInv, Holds(expected_seq)
  PROVE  /\ slots[SlotOf(expected_seq)].timestamp = expected_timestamp
         /\ SlotOf(expected_seq) \in SlotIndex
<1> DEFINE i == SlotOf(expected_seq)
<1>1. expected_seq \in Seq16 /\ i \in SlotIndex
  BY SlotType DEF JitterInv, TypeOK
<1>2. slots[i] # Empty /\ slots[i].seq = expected_seq
  BY DEF Holds
<1>3. slots[i].timestamp
        = expected_timestamp
            + Distance(expected_seq, expected_seq) * FRAME_SAMPLES
  BY <1>1, <1>2 DEF JitterInv, SlotsInWindow, Aligned, Ahead
<1>4. Distance(expected_seq, expected_seq) = 0
  BY <1>1, DistanceType
<1> QED  BY <1>1, <1>3, <1>4 DEF JitterInv, TypeOK, FRAME_SAMPLES

(* What a call of playout that ends leaves.                                *)
LEMMA DecodeCases ==
  ASSUME Decode
  PROVE  /\ decoding /\ decoding' = FALSE /\ UNCHANGED <<vars, senderVars>>
         /\ \/ /\ fetched.kind \in {"normal", "fec"}
               /\ consecutive_plc' = 0
               /\ \/ played'.kind = "error"
                  \/ played' = [kind |-> fetched.kind, fetched |-> fetched]
            \/ /\ fetched.kind = "gap" /\ consecutive_plc < MAX_PLC
               /\ consecutive_plc' = consecutive_plc + 1
               /\ played'.kind \in {"error", "plc"}
            \/ /\ fetched.kind = "gap"
               /\ consecutive_plc' = consecutive_plc
               /\ played'.kind = "silence"
<1>1. CASE DecodeFrame
  BY <1>1 DEF Decode, DecodeFrame, Called
<1>2. CASE Conceal
  BY <1>2 DEF Decode, Conceal, Called
<1>3. CASE Silence
  BY <1>3 DEF Decode, Silence
<1> QED  BY <1>1, <1>2, <1>3 DEF Decode

(* Concealment is counted from the last decoded packet, so that the        *)
(* counter of the code bounds it, also when the decoder fails in between.  *)
PlcInv == /\ plc_run \in Nat /\ consecutive_plc \in Nat
          /\ plc_run <= consecutive_plc /\ consecutive_plc <= MAX_PLC

LEMMA PlcInductive ==
  ASSUME PlcInv, [MCNext]_mcVars
  PROVE  PlcInv'
<1>1. CASE Decode /\ MCNext
  <2>1. Ends
    BY <1>1, DecodeCases DEF Ends
  <2>2. plc_run' = IF played'.kind = "plc" THEN plc_run + 1
                   ELSE IF fetched.kind # "gap" THEN 0
                   ELSE plc_run
    BY <1>1, <2>1 DEF MCNext
  <2> QED  BY <1>1, <2>2, DecodeCases DEF PlcInv, MAX_PLC
<1>2. CASE MCNext /\ ~ Decode
  <2>1. ~ Ends /\ UNCHANGED consecutive_plc
    <3>1. Capture \/ Deliver \/ Lock
      BY <1>2, Zenon DEF MCNext, LinkNext
    <3>2. CASE Capture \/ Deliver
      <4>1. decoding' = decoding /\ consecutive_plc' = consecutive_plc
        BY <3>2, Zenon DEF Capture, Deliver, renderVars
      <4> QED  BY <4>1, Zenon DEF Ends
    <3>3. CASE Lock
      BY <3>3, LockCases, Zenon DEF Ends
    <3> QED  BY <3>1, <3>2, <3>3
  <2>2. plc_run' = plc_run
    BY <1>2, <2>1 DEF MCNext
  <2> QED  BY <2>1, <2>2 DEF PlcInv
<1>3. CASE UNCHANGED mcVars
  BY <1>3 DEF mcVars, linkVars, renderVars, PlcInv
<1> QED  BY <1>1, <1>2, <1>3

(* After at most six concealments in a row the application is given        *)
(* silence, whatever is lost and whichever calls of the decoder fail.      *)
THEOREM LinkConcealment == MCSpec => []ConcealmentBounded
<1>1. MCInit => PlcInv
  BY DEF MCInit, LinkInit, PlcInv, MAX_PLC
<1>2. PlcInv /\ [MCNext]_mcVars => PlcInv'
  BY PlcInductive
<1>3. PlcInv => ConcealmentBounded
  BY DEF PlcInv, ConcealmentBounded, MAX_PLC
<1> QED  BY <1>1, <1>2, <1>3, PTL DEF MCSpec

LEMMA MCIsLink == MCSpec => LinkSpec
<1>1. MCInit => LinkInit
  BY DEF MCInit
<1>2. [MCNext]_mcVars => [LinkNext]_linkVars
  BY DEF MCNext, mcVars
<1> QED  BY <1>1, <1>2, PTL DEF MCSpec, LinkSpec

-----------------------------------------------------------------------------
(* The order of what is heard                                              *)

(* What was heard last is of an instant before t.                          *)
HeardBefore(t) ==
  heard # 0 => \E p \in network : p.payload = heard /\ p.timestamp < t

(* The cursor is beyond what was heard, and what waits to be decoded is    *)
(* between the two.                                                        *)
HeardInv ==
  /\ ~ initialized => heard = 0
  /\ initialized => HeardBefore(expected_timestamp)
  /\ decoding /\ fetched.kind = "normal" =>
       \E p \in network : /\ p.payload = fetched.payload
                          /\ p.timestamp < expected_timestamp
                          /\ HeardBefore(p.timestamp)

(* A step that moves the cursor forward, if at all, keeps the order.       *)
LEMMA ForwardKeepsHeard ==
  ASSUME CallInv, HeardInv, CallInv', network \subseteq network',
         heard' = heard, initialized => initialized',
         UNCHANGED <<decoding, fetched>>,
         initialized => expected_timestamp <= expected_timestamp'
  PROVE  HeardInv'
<1>1. initialized => expected_timestamp \in Nat
  BY LineType DEF CallInv, LineInv
<1>2. initialized' => expected_timestamp' \in Nat
  BY LineType DEF CallInv, LineInv
<1>3. \A p \in network : p.timestamp \in Nat
  BY LineType DEF CallInv, LineInv
<1>4. ~ initialized' => heard' = 0
  BY DEF HeardInv
<1>5. ASSUME initialized'  PROVE HeardBefore(expected_timestamp)'
  <2>1. CASE heard = 0
    BY <2>1 DEF HeardBefore
  <2>2. CASE heard # 0
    <3>1. initialized
      BY <2>2 DEF HeardInv
    <3>2. PICK p \in network : /\ p.payload = heard
                               /\ p.timestamp < expected_timestamp
      BY <2>2, <3>1 DEF HeardInv, HeardBefore
    <3>3. p.timestamp < expected_timestamp'
      BY <1>1, <1>2, <1>3, <1>5, <3>1, <3>2
    <3> QED  BY <3>2, <3>3 DEF HeardBefore
  <2> QED  BY <2>1, <2>2
<1>6. ASSUME decoding', fetched'.kind = "normal"
      PROVE  \E p \in network' : /\ p.payload = fetched'.payload
                                 /\ p.timestamp < expected_timestamp'
                                 /\ HeardBefore(p.timestamp)'
  <2>1. decoding /\ fetched.kind = "normal" /\ initialized
    BY <1>6 DEF CallInv
  <2>2. PICK p \in network : /\ p.payload = fetched.payload
                             /\ p.timestamp < expected_timestamp
                             /\ HeardBefore(p.timestamp)
    BY <2>1 DEF HeardInv
  <2>3. p.timestamp < expected_timestamp'
    BY <1>1, <1>2, <1>3, <2>1, <2>2
  <2>4. heard' # 0 => \E q \in network' : /\ q.payload = heard'
                                          /\ q.timestamp < p.timestamp
    BY <2>2 DEF HeardBefore
  <2> QED  BY <2>2, <2>3, <2>4 DEF HeardBefore
<1> QED  BY <1>4, <1>5, <1>6 DEF HeardInv

LEMMA HeardInductive ==
  ASSUME CallInv, JitterInv, HeardInv, [EntersInSight]_linkVars,
         [MCNext]_mcVars
  PROVE  HeardInv'
<1>1. [LinkNext]_linkVars
  BY DEF MCNext, mcVars
<1>2. CallInv'
  BY <1>1, CallInductive
<1>3. /\ initialized => expected_timestamp \in Nat
      /\ \A p \in network : p.timestamp \in Nat
  BY LineType DEF CallInv, LineInv
<1>4. ASSUME ~ Ends, MCNext \/ UNCHANGED mcVars  PROVE heard' = heard
  BY <1>4 DEF MCNext, mcVars
<1>5. CASE Capture /\ MCNext
  <2>1. /\ network \subseteq network'
        /\ UNCHANGED <<decoding, fetched, initialized, expected_timestamp>>
    BY <1>5 DEF Capture, Encoded, NotEncoded, vars, bufferVars, renderVars
  <2>2. ~ Ends
    BY <2>1, Zenon DEF Ends
  <2> QED  BY <1>2, <1>3, <1>4, <1>5, <2>1, <2>2, ForwardKeepsHeard
<1>6. CASE Deliver /\ MCNext
  <2>1. /\ network' = network /\ UNCHANGED <<decoding, fetched>>
    BY <1>6, DeliverCases DEF senderVars, renderVars
  <2>2. ~ Ends
    BY <2>1, Zenon DEF Ends
  <2>3. /\ initialized => initialized'
        /\ initialized => expected_timestamp <= expected_timestamp'
    <3>1. CASE UNCHANGED bufferVars
      BY <1>3, <3>1 DEF bufferVars
    <3>2. ASSUME bufferVars' # bufferVars, NEW p \in network,
                 ~ initialized \/ ~ Late(p), Insert(p, now),
                 ResetTo(p, now)
          PROVE  /\ initialized => initialized'
                 /\ initialized => expected_timestamp <= expected_timestamp'
      <4>1. initialized' = TRUE /\ expected_timestamp' = p.timestamp
        BY <3>2 DEF ResetTo
      <4>2. EntersInSight
        BY <3>2 DEF linkVars, vars
      <4>3. initialized => ~ (p.timestamp < expected_timestamp)
        BY <3>2, <4>2, TakenIsAhead DEF CallInv
      <4> QED  BY <1>3, <4>1, <4>3
    <3>3. ASSUME NEW p \in network, Store(p, now)
          PROVE  /\ initialized => initialized'
                 /\ initialized => expected_timestamp <= expected_timestamp'
      BY <1>3, <3>3 DEF Store
    <3> QED  BY <1>6, <3>1, <3>2, <3>3, DeliverCases
  <2> QED  BY <1>2, <1>4, <1>6, <2>1, <2>2, <2>3, ForwardKeepsHeard
<1>7. CASE Lock /\ MCNext
  <2>1. ~ decoding /\ network' = network
    BY <1>7, LockCases DEF senderVars
  <2>2. heard' = heard
    <3>1. ~ Ends
      BY <2>1, Zenon DEF Ends
    <3> QED  BY <1>4, <1>7, <3>1
  <2>3. CASE Fetch(now) /\ initialized /\ UNCHANGED initialized
    <3>1. expected_timestamp' = expected_timestamp + FRAME_SAMPLES
      BY <2>3 DEF Fetch, Advance
    <3>2. expected_timestamp < expected_timestamp'
      BY <1>3, <2>3, <3>1 DEF FRAME_SAMPLES
    <3>3. HeardBefore(expected_timestamp)
      BY <2>3 DEF HeardInv
    <3>4. HeardBefore(expected_timestamp)'
      BY <1>3, <2>1, <2>2, <2>3, <3>1, <3>3 DEF HeardBefore, FRAME_SAMPLES
    <3>5. ASSUME fetched'.kind = "normal"
          PROVE  \E p \in network' : /\ p.payload = fetched'.payload
                                     /\ p.timestamp < expected_timestamp'
                                     /\ HeardBefore(p.timestamp)'
      <4>1. TakeNormal
        BY <2>3, <3>5 DEF Fetch, TakeFec, TakeNothing
      <4>2. /\ SlotOf(expected_seq) \in SlotIndex
            /\ slots[SlotOf(expected_seq)].timestamp = expected_timestamp
        BY <4>1, DueIsOnTime DEF TakeNormal
      <4>3. PICK p \in network : p = slots[SlotOf(expected_seq)]
        BY <4>1, <4>2 DEF TakeNormal, Holds, CallInv
      <4>4. p.timestamp = expected_timestamp /\ fetched'.payload = p.payload
        BY <4>1, <4>2, <4>3 DEF TakeNormal
      <4>5. HeardBefore(p.timestamp)'
        BY <2>1, <2>2, <3>3, <4>4 DEF HeardBefore
      <4> QED  BY <2>1, <3>2, <4>3, <4>4, <4>5
    <3> QED  BY <2>3, <3>4, <3>5 DEF HeardInv
  <2>4. CASE NotReady(now) /\ decoding' = FALSE
    BY <2>1, <2>2, <2>4 DEF NotReady, bufferVars, HeardInv, HeardBefore
  <2> QED  BY <1>7, <2>3, <2>4, LockCases
<1>8. CASE Decode /\ MCNext
  <2>1. /\ decoding /\ decoding' = FALSE /\ network' = network
        /\ UNCHANGED <<initialized, expected_timestamp>>
        /\ played'.kind = "normal" =>
             fetched.kind = "normal" /\ played'.fetched = fetched
    BY <1>8, DecodeCases DEF vars, bufferVars, senderVars
  <2>2. CASE played'.kind = "normal"
    <3>1. heard' = fetched.payload /\ fetched.kind = "normal"
      BY <1>8, <2>1, <2>2 DEF MCNext, Ends
    <3>2. PICK p \in network : /\ p.payload = fetched.payload
                               /\ p.timestamp < expected_timestamp
      BY <2>1, <3>1 DEF HeardInv
    <3>3. initialized
      BY <2>1 DEF CallInv
    <3> QED  BY <2>1, <3>1, <3>2, <3>3 DEF HeardInv, HeardBefore
  <2>3. CASE played'.kind # "normal"
    <3>1. heard' = heard
      BY <1>8, <2>3 DEF MCNext
    <3> QED  BY <2>1, <3>1 DEF HeardInv, HeardBefore
  <2> QED  BY <2>2, <2>3
<1>9. CASE UNCHANGED mcVars
  BY <1>9 DEF mcVars, linkVars, vars, bufferVars, senderVars, renderVars,
              HeardInv, HeardBefore
<1> QED  BY <1>5, <1>6, <1>7, <1>8, <1>9 DEF MCNext, LinkNext

(* If no packet enters the buffer out of sight, the frames of a call of    *)
(* any length are heard in the order of their capture, each at most once,  *)
(* across losses, repetitions, reordering and resets.                      *)
THEOREM LinkPlaysInOrder == MCSpec /\ ArrivesInSight => PlayedInOrder
<1>1. MCInit => HeardInv
  BY DEF MCInit, LinkInit, Init, HeardInv
<1>2. CallInv /\ JitterInv /\ HeardInv /\ [EntersInSight]_linkVars
        /\ [MCNext]_mcVars => HeardInv'
  BY HeardInductive
<1>3. CallInv /\ HeardInv /\ [MCNext]_mcVars =>
        [Ends /\ played'.kind = "normal"
           => played'.fetched.payload > heard]_mcVars
  <2> SUFFICES ASSUME CallInv, HeardInv, MCNext, Ends,
                      played'.kind = "normal"
               PROVE  played'.fetched.payload > heard
    BY DEF MCNext
  <2>1. Decode
    <3>1. ~ Lock
      BY LockCases, Zenon DEF Ends
    <3>2. ASSUME Capture \/ Deliver  PROVE FALSE
      <4>1. decoding' = decoding
        BY <3>2, Zenon DEF Capture, Deliver, renderVars
      <4> QED  BY <4>1, Zenon DEF Ends
    <3> QED  BY <3>1, <3>2 DEF MCNext, LinkNext
  <2>2. fetched.kind = "normal" /\ played'.fetched = fetched /\ decoding
    BY <2>1, DecodeCases
  <2>3. PICK p \in network : /\ p.payload = fetched.payload
                             /\ HeardBefore(p.timestamp)
    BY <2>2 DEF HeardInv
  <2>4. \A q \in network : q.payload \in Nat /\ q.payload >= 1
    BY DEF CallInv
  <2>5. CASE heard = 0
    BY <2>2, <2>3, <2>4, <2>5
  <2>6. CASE heard # 0
    <3>1. PICK q \in network : q.payload = heard /\ q.timestamp < p.timestamp
      BY <2>3, <2>6 DEF HeardBefore
    <3>2. q.payload < p.payload
      BY <3>1 DEF CallInv
    <3> QED  BY <2>2, <2>3, <2>4, <3>1, <3>2
  <2> QED  BY <2>5, <2>6
<1> QED
  BY <1>1, <1>2, <1>3, MCIsLink, CallInvariant, LinkIsJitter,
     JitterInvariant, PTL
     DEF MCSpec, PlayedInOrder, ArrivesInSight, EntersInSight

-----------------------------------------------------------------------------
(* A sender that was overtaken                                             *)

(* A buffer that waits to play has a cursor before the sender's.           *)
WaitsBehind ==
  initialized /\ ~ started => expected_timestamp < next_timestamp

LEMMA WaitsInductive ==
  ASSUME LineInv, WaitsBehind, [LinkNext]_linkVars
  PROVE  WaitsBehind'
<1>1. next_timestamp \in Nat /\ (initialized => expected_timestamp \in Nat)
  BY LineType DEF LineInv
<1>2. CASE Capture
  <2>1. /\ UNCHANGED <<initialized, started, expected_timestamp>>
        /\ \/ next_timestamp' = next_timestamp
           \/ next_timestamp' = next_timestamp + FRAME_SAMPLES
    BY <1>2 DEF Capture, Encoded, NotEncoded, vars, bufferVars
  <2> QED  BY <1>1, <2>1 DEF WaitsBehind, FRAME_SAMPLES
<1>3. CASE Deliver
  <2>1. UNCHANGED next_timestamp
    BY <1>3, DeliverCases DEF senderVars
  <2>2. CASE UNCHANGED <<initialized, started, expected_timestamp>>
    BY <2>1, <2>2 DEF WaitsBehind
  <2>3. ASSUME NEW p \in network, ResetTo(p, now)  PROVE WaitsBehind'
    <3>1. expected_timestamp' = p.timestamp /\ p.timestamp < next_timestamp
      BY <2>3 DEF ResetTo, LineInv
    <3> QED  BY <2>1, <3>1 DEF WaitsBehind
  <2> QED  BY <1>3, <2>2, <2>3, DeliverCases DEF Store, bufferVars
<1>4. CASE Lock
  <2>1. UNCHANGED next_timestamp
    BY <1>4, LockCases DEF senderVars
  <2>2. CASE started' = TRUE
    BY <2>2 DEF WaitsBehind
  <2>3. CASE UNCHANGED bufferVars
    BY <2>1, <2>3, Zenon DEF WaitsBehind, bufferVars
  <2> QED  BY <1>4, <2>2, <2>3, LockCases DEF Fetch, NotReady
<1>5. CASE Decode \/ UNCHANGED linkVars
  BY <1>5 DEF Decode, linkVars, vars, bufferVars, senderVars, WaitsBehind
<1> QED  BY <1>2, <1>3, <1>4, <1>5 DEF LinkNext

LEMMA OvertakenStep ==
  ASSUME CallInv, JitterInv, WaitsBehind, PaceInv, Overtaken,
         [EntersInSight]_linkVars, [LinkNext]_linkVars
  PROVE  Overtaken' /\ slots' = slots
<1>1. LineInv /\ initialized
  BY DEF CallInv, Overtaken
<1>2. /\ next_timestamp <= expected_timestamp
      /\ last_capture < now => next_timestamp < expected_timestamp
  BY DEF Overtaken
<1>3. /\ next_timestamp \in Nat /\ expected_timestamp \in Nat
      /\ OnLine(next_seq, next_timestamp)
      /\ OnLine(expected_seq, expected_timestamp)
  BY <1>1, LineType DEF LineInv
<1>4. started
  BY <1>1, <1>2, <1>3 DEF WaitsBehind
<1>5. \A p \in network : /\ p.timestamp \in Nat
                         /\ p.timestamp < expected_timestamp
  BY <1>1, <1>2, <1>3, LineType DEF LineInv
<1>6. CASE Capture
  <2>1. /\ last_capture < now /\ last_capture' = now /\ now' = now
        /\ UNCHANGED <<slots, initialized, expected_timestamp>>
        /\ \/ next_timestamp' = next_timestamp
           \/ next_timestamp' = next_timestamp + FRAME_SAMPLES
    BY <1>6 DEF Capture, Encoded, NotEncoded, vars, bufferVars
  <2>2. next_timestamp + FRAME_SAMPLES <= expected_timestamp
    BY <1>2, <1>3, <2>1, LineStep
  <2>3. /\ next_timestamp' <= expected_timestamp'
        /\ ~ (last_capture' < now')
    BY <1>2, <1>3, <2>1, <2>2 DEF PaceInv
  <2> QED  BY <1>1, <2>1, <2>3 DEF Overtaken
<1>7. CASE Deliver
  <2>1. UNCHANGED <<next_timestamp, last_capture, now>>
    BY <1>7, DeliverCases DEF senderVars
  <2>2. UNCHANGED bufferVars
    <3>1. SUFFICES ASSUME bufferVars' # bufferVars  PROVE FALSE
      OBVIOUS
    <3>2. PICK p \in network : ~ Late(p) /\ Insert(p, now)
      BY <1>1, <1>7, <3>1, DeliverCases
    <3>3. EntersInSight
      BY <3>1 DEF linkVars, vars
    <3> QED  BY <1>1, <1>5, <3>1, <3>2, <3>3, TakenIsAhead
  <2> QED  BY <1>1, <1>2, <2>1, <2>2 DEF bufferVars, Overtaken
<1>8. CASE Lock
  <2>1. UNCHANGED <<next_timestamp, last_capture>> /\ now' = now + 1
    BY <1>8, LockCases DEF senderVars
  <2>2. Ready(now)
    BY <1>1, <1>4 DEF Ready
  <2>3. Fetch(now) /\ UNCHANGED initialized
    BY <1>8, <2>2, LockCases DEF NotReady
  <2>4. slots' = slots
    <3>1. ~ TakeNormal
      <4>1. SUFFICES ASSUME Holds(expected_seq)  PROVE FALSE
        BY DEF TakeNormal
      <4>2. PICK p \in network : p.timestamp = expected_timestamp
        BY <4>1, DueIsOnTime DEF Holds, CallInv
      <4> QED  BY <1>3, <1>5, <4>2
    <3> QED  BY <2>3, <3>1 DEF Fetch, TakeFec, TakeNothing
  <2>5. expected_timestamp' = expected_timestamp + FRAME_SAMPLES
    BY <2>3 DEF Fetch, Advance
  <2>6. /\ next_timestamp' < expected_timestamp'
        /\ next_timestamp' <= expected_timestamp'
    BY <1>2, <1>3, <2>1, <2>5 DEF FRAME_SAMPLES
  <2> QED  BY <1>1, <2>3, <2>4, <2>6 DEF Overtaken
<1>9. CASE Decode \/ UNCHANGED linkVars
  <2>1. UNCHANGED <<bufferVars, next_timestamp, last_capture, now>>
    BY <1>9 DEF Decode, linkVars, vars, senderVars
  <2> QED  BY <1>1, <1>2, <2>1 DEF bufferVars, Overtaken
<1> QED  BY <1>6, <1>7, <1>8, <1>9 DEF LinkNext

(* If no packet enters the buffer out of sight, a sender that was          *)
(* overtaken, at whatever time of the call, is not heard again.            *)
THEOREM LinkOvertaken == LinkSpec /\ ArrivesInSight => OvertakenForever
<1>1. LinkInit => WaitsBehind /\ PaceInv
  BY DEF LinkInit, Init, WaitsBehind, PaceInv, FRAME_SAMPLES
<1>2. CallInv /\ WaitsBehind /\ PaceInv /\ [LinkNext]_linkVars
        => WaitsBehind' /\ PaceInv'
  BY WaitsInductive, PaceInductive DEF CallInv
<1>3. CallInv /\ JitterInv /\ WaitsBehind /\ PaceInv
        /\ [EntersInSight]_linkVars /\ [LinkNext]_linkVars
        => [Overtaken => Overtaken' /\ slots' = slots]_linkVars
  BY OvertakenStep
<1> QED
  BY <1>1, <1>2, <1>3, CallInvariant, LinkIsJitter, JitterInvariant, PTL
     DEF LinkSpec, OvertakenForever, ArrivesInSight, EntersInSight
=============================================================================
