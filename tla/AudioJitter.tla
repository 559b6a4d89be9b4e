----------------------------- MODULE AudioJitter ----------------------------
(***************************************************************************)
(* The audio jitter buffer (src/src/audio/jitter.c) and the part of        *)
(* mezon_audio_playout that runs under the jitter lock.                    *)
(*                                                                         *)
(* Each step is one call made with the lock held, so it is atomic.  Time   *)
(* is counted in playout ticks of 20 ms and starts at 1: the code reads an *)
(* arrival time of 0 as "not set".  RTP timestamps are in samples and are  *)
(* not wrapped at 2^32: the code adds the same offset to both sides of the *)
(* only comparison it makes of them, so the origin is irrelevant.          *)
(*                                                                         *)
(* An operator X_Mistake just before an operator X is X with a plausible   *)
(* mistake of that name.  The specification does not use it; the           *)
(* sensitivity checks of PROJECT.json ("mutants") put it in X's place.     *)
(***************************************************************************)
EXTENDS SeqArith, FiniteSets

CONSTANTS
  TARGET_FRAMES,  \* jitter_target_ms / 20
  MAX_FRAMES,     \* jitter_max_ms / 20
  Packets,        \* packets that may be received: [seq, timestamp, payload]
  NoPayload,      \* the payload of a packet without data
  Empty,          \* content of a slot that is not occupied
  MAX_TIME        \* bound on the playout ticks

SLOTS == 8
FRAME_SAMPLES == 960
SlotIndex == 0 .. SLOTS - 1

\* mezon_audio_create accepts 40..120 ms in steps of 20 ms, target <= maximum
ASSUME JitterAssumption ==
  /\ TARGET_FRAMES \in 2 .. 6 /\ MAX_FRAMES \in 2 .. 6
  /\ TARGET_FRAMES <= MAX_FRAMES
  /\ \A p \in Packets : p.seq \in Seq16 /\ p.timestamp \in Int
  /\ Empty \notin Packets
  /\ MAX_TIME \in Nat

VARIABLES
  slots,               \* jitter->slots: a packet, or Empty
  expected_seq,
  expected_timestamp,
  count,
  first_arrival_ns,
  started,
  initialized,
  fetched,             \* locals normal, fec, timestamp, decode_payload
  now                  \* ticks elapsed

bufferVars == <<slots, expected_seq, expected_timestamp, count,
                first_arrival_ns, started, initialized>>
vars == <<bufferVars, fetched, now>>

Init ==
  /\ slots = [i \in SlotIndex |-> Empty]
  /\ expected_seq = 0
  /\ expected_timestamp = 0
  /\ count = 0
  /\ first_arrival_ns = 0
  /\ started = FALSE
  /\ initialized = FALSE
  /\ fetched = [kind |-> "none"]
  /\ now = 1

-----------------------------------------------------------------------------
(* mezon_audio_jitter_insert                                               *)

SlotOf(seq) == seq % SLOTS
Ahead(p) == Distance(expected_seq, p.seq)

Usable(p) == p.payload # NoPayload
Late_Unchecked(p) == FALSE
Late(p) == SeqBefore(p.seq, expected_seq)
OutOfWindow_OffByOne(p) == Ahead(p) > SLOTS \/ Ahead(p) > MAX_FRAMES
OutOfWindow(p) == Ahead(p) >= SLOTS \/ Ahead(p) >= MAX_FRAMES
Aligned(p) == p.timestamp = expected_timestamp + Ahead(p) * FRAME_SAMPLES
Duplicate(p) ==
  /\ slots[SlotOf(p.seq)] # Empty
  /\ slots[SlotOf(p.seq)].seq = p.seq

ResetTo_KeepsSlots(p, arrival) ==
  /\ slots' = [slots EXCEPT ![SlotOf(p.seq)] = p]
  /\ expected_seq' = p.seq
  /\ expected_timestamp' = p.timestamp
  /\ count' = 1
  /\ first_arrival_ns' = arrival
  /\ started' = FALSE
  /\ initialized' = TRUE

\* reset_jitter followed by the store of the packet it was called for
ResetTo(p, arrival) ==
  /\ slots' = [i \in SlotIndex |-> IF i = SlotOf(p.seq) THEN p ELSE Empty]
  /\ expected_seq' = p.seq
  /\ expected_timestamp' = p.timestamp
  /\ count' = 1
  /\ first_arrival_ns' = arrival
  /\ started' = FALSE
  /\ initialized' = TRUE

\* The slot is written whether or not another packet occupies it.
Store(p, arrival) ==
  /\ slots' = [slots EXCEPT ![SlotOf(p.seq)] = p]
  /\ count' = IF slots[SlotOf(p.seq)] = Empty THEN count + 1 ELSE count
  /\ first_arrival_ns' = IF first_arrival_ns = 0 THEN arrival
                                                 ELSE first_arrival_ns
  /\ UNCHANGED <<expected_seq, expected_timestamp, started, initialized>>

\* A packet without data, a late one, a misaligned one and a duplicate only
\* move statistics.
Refused(p) ==
  \/ ~ Usable(p)
  \/ /\ initialized
     /\ \/ Late(p)
        \/ ~ OutOfWindow(p) /\ (~ Aligned(p) \/ Duplicate(p))

Insert(p, arrival) ==
  \/ /\ Refused(p)
     /\ UNCHANGED bufferVars
  \/ /\ Usable(p)
     /\ ~ initialized \/ (~ Late(p) /\ OutOfWindow(p))
     /\ ResetTo(p, arrival)
  \/ /\ Usable(p) /\ initialized
     /\ ~ Late(p) /\ ~ OutOfWindow(p) /\ Aligned(p) /\ ~ Duplicate(p)
     /\ Store(p, arrival)

-----------------------------------------------------------------------------
(* mezon_audio_playout, the section under the lock                         *)

Ready_CountOnly(now_ns) == initialized /\ (started \/ count >= TARGET_FRAMES)
\* mezon_audio_jitter_ready
Ready(now_ns) ==
  /\ initialized
  /\ \/ started
     \/ count >= TARGET_FRAMES
     \/ /\ first_arrival_ns # 0
        /\ now_ns >= first_arrival_ns
        /\ now_ns - first_arrival_ns >= TARGET_FRAMES

\* mezon_audio_jitter_copy finds the packet
Holds(seq) == slots[SlotOf(seq)] # Empty /\ slots[SlotOf(seq)].seq = seq

Advance ==
  /\ expected_seq' = NextSeq(expected_seq)
  /\ expected_timestamp' = expected_timestamp + FRAME_SAMPLES

TakeNormal_KeepsCount ==
  /\ Holds(expected_seq)
  /\ slots' = [slots EXCEPT ![SlotOf(expected_seq)] = Empty]
  /\ fetched' = [kind |-> "normal",
                 payload |-> slots[SlotOf(expected_seq)].payload,
                 timestamp |-> slots[SlotOf(expected_seq)].timestamp]
  /\ UNCHANGED count

\* copy(expected_seq, remove = 1) finds the frame due
TakeNormal ==
  /\ Holds(expected_seq)
  /\ slots' = [slots EXCEPT ![SlotOf(expected_seq)] = Empty]
  /\ count' = count - 1
  /\ fetched' = [kind |-> "normal",
                 payload |-> slots[SlotOf(expected_seq)].payload,
                 timestamp |-> slots[SlotOf(expected_seq)].timestamp]

\* copy(expected_seq + 1, remove = 0) finds the frame after it; the
\* timestamp it returns is replaced by the expected one
TakeFec ==
  /\ ~ Holds(expected_seq)
  /\ Holds(NextSeq(expected_seq))
  /\ fetched' = [kind |-> "fec",
                 payload |-> slots[SlotOf(NextSeq(expected_seq))].payload,
                 timestamp |-> expected_timestamp]
  /\ UNCHANGED <<slots, count>>

TakeNothing ==
  /\ ~ Holds(expected_seq)
  /\ ~ Holds(NextSeq(expected_seq))
  /\ fetched' = [kind |-> "gap", timestamp |-> expected_timestamp]
  /\ UNCHANGED <<slots, count>>

Fetch(now_ns) ==
  /\ Ready(now_ns)
  /\ started' = TRUE
  /\ TakeNormal \/ TakeFec \/ TakeNothing
  /\ Advance
  /\ UNCHANGED <<first_arrival_ns, initialized>>

NotReady(now_ns) ==
  /\ ~ Ready(now_ns)
  /\ fetched' = [kind |-> "not_ready"]
  /\ UNCHANGED bufferVars

-----------------------------------------------------------------------------
Receive ==
  /\ \E p \in Packets : Insert(p, now)
  /\ UNCHANGED <<fetched, now>>

\* "Call once every 20 ms": the rendering thread's call is the clock.
Tick ==
  /\ now < MAX_TIME
  /\ Fetch(now) \/ NotReady(now)
  /\ now' = now + 1

Next == Receive \/ Tick

Spec == Init /\ [][Next]_vars

-----------------------------------------------------------------------------
(* Properties                                                              *)

(* Every variable keeps the type the struct gives it.                      *)
TypeOK ==
  /\ slots \in [SlotIndex -> Packets \cup {Empty}]
  /\ expected_seq \in Seq16
  /\ expected_timestamp \in Int
  /\ count \in 0 .. SLOTS
  /\ first_arrival_ns \in Nat
  /\ started \in BOOLEAN
  /\ initialized \in BOOLEAN
  /\ now \in Nat

(* An occupied slot holds a packet of its own residue class, fewer than    *)
(* MAX_FRAMES ahead of the playout cursor, at its place on the media time  *)
(* line.  Two packets therefore never compete for a slot, playing a frame  *)
(* leaves no stale one behind, and seq % 8 finds every packet held.        *)
SlotsInWindow ==
  \A i \in SlotIndex :
    slots[i] # Empty => /\ SlotOf(slots[i].seq) = i
                        /\ Ahead(slots[i]) < MAX_FRAMES
                        /\ Aligned(slots[i])

Occupied == {i \in SlotIndex : slots[i] # Empty}

(* The counter that decides when buffering is complete is the number of    *)
(* packets held, through overwrites, removals and resets.                  *)
CountIsOccupancy == count = Cardinality(Occupied)

(* Nothing is held, and playout has not begun, before the first packet.    *)
IdleIsEmpty ==
  ~ initialized => Occupied = {} /\ ~ started

(* Slots, cursor and counter agree, in every state and about every packet; *)
(* its four parts need one another, so this is the inductive invariant.    *)
JitterInv == TypeOK /\ SlotsInWindow /\ CountIsOccupancy /\ IdleIsEmpty

(* The buffered latency never exceeds jitter_max_ms.                       *)
LatencyBounded == Cardinality(Occupied) <= MAX_FRAMES

(* What the decoder is given belongs to the instant it is played at: the   *)
(* frame of that instant, or the one after it for FEC, as some received    *)
(* packet carried it.                                                      *)
PlaysRightFrame ==
  /\ fetched.kind = "normal" =>
       \E p \in Packets : /\ Usable(p) /\ p.payload = fetched.payload
                          /\ p.timestamp = fetched.timestamp
  /\ fetched.kind = "fec" =>
       \E p \in Packets : /\ Usable(p) /\ p.payload = fetched.payload
                          /\ p.timestamp = fetched.timestamp + FRAME_SAMPLES

(* The buffering, at the start and after a reset in mid-stream, comes to   *)
(* an end: at most jitter_target_ms after the packet that began it frames  *)
(* are played, though the packets it waits for never come.                 *)
RebufferingBounded ==
  initialized /\ ~ started =>
    first_arrival_ns # 0 /\ now <= first_arrival_ns + TARGET_FRAMES

(* A packet that was admitted leaves its slot only when its instant is     *)
(* fetched for playout or in a reset; no arrival displaces it.             *)
KeptUntilPlayed ==
  [][\A i \in SlotIndex :
       slots[i] # Empty /\ slots'[i] # slots[i] =>
         \/ /\ fetched'.kind = "normal" /\ slots[i].seq = expected_seq
            /\ fetched'.payload = slots[i].payload
         \/ ~ started' /\ count' = 1]_vars

(* README, "Audio contract": before startup buffering completes playout    *)
(* returns MEZON_ERR_NOT_READY, afterwards it produces one callback per    *)
(* tick.  The code does not keep this: a packet beyond the window resets   *)
(* the buffer in mid-stream and the buffering begins again.                *)
OneCallbackPerTick ==
  [][fetched.kind \in {"normal", "fec", "gap"}
       => fetched'.kind # "not_ready"]_vars

(* The slot array, the sequence numbers and the counters together behave   *)
(* as the set of frames of PlayoutBuffer.                                  *)
FrameOf(p) == [timestamp |-> p.timestamp, payload |-> p.payload]

Phase == IF ~ initialized THEN "idle"
         ELSE IF started THEN "playing" ELSE "buffering"

HeldFrames == {FrameOf(slots[i]) : i \in Occupied}

Buffer == INSTANCE PlayoutBuffer WITH
  Capacity  <- MAX_FRAMES,
  FrameStep <- FRAME_SAMPLES,
  Frames    <- {FrameOf(p) : p \in Packets},
  phase     <- Phase,
  waiting   <- HeldFrames,
  cursor    <- expected_timestamp,
  output    <- fetched

BufferRefinement == Buffer!BufferSpec
=============================================================================
