------------------------------ MODULE AudioLink -----------------------------
(***************************************************************************)
(* One direction of an audio call, end to end (src/src/audio/audio.c):     *)
(* the capture thread of one peer encodes frames into packets              *)
(* (mezon_audio_packetize), the network loses, repeats and reorders them,  *)
(* the receive worker of the other peer puts them into the jitter buffer,  *)
(* and its rendering thread takes one frame per tick under the lock and    *)
(* decodes it after releasing the lock (mezon_audio_playout).              *)
(*                                                                         *)
(* Both ends count the same 20 ms ticks: at most one frame is captured and *)
(* exactly one playout is called per tick.  A capture may fail to yield a  *)
(* packet, or not happen at all.  Packets never leave the network: one is  *)
(* lost by never being received and repeated by being received again.      *)
(***************************************************************************)
EXTENDS AudioJitter

CONSTANTS
  FIRST_SEQ,    \* number of the first packet sent after the receiver started
  MAX_CAPTURES  \* bound on the frames captured

ASSUME LinkAssumption ==
  /\ FIRST_SEQ \in Seq16 /\ MAX_CAPTURES \in Nat
  /\ \A k \in 0 .. MAX_CAPTURES - 1, c \in 1 .. MAX_CAPTURES :
       [seq |-> (FIRST_SEQ + k) % SEQ_MOD, timestamp |-> k * FRAME_SAMPLES,
        payload |-> c] \in Packets

VARIABLES
  next_seq, next_timestamp,   \* the sender's context
  captured,                   \* frames captured; the content of the last one
  last_capture,               \* the tick of the last capture
  network,                    \* packets sent
  decoding,                   \* rendering thread: a frame fetched, not decoded
  consecutive_plc,
  played                      \* the last call of on_audio, or of none

senderVars == <<next_seq, next_timestamp, captured, last_capture, network>>
renderVars == <<decoding, consecutive_plc, played>>
linkVars == <<vars, senderVars, renderVars>>

MAX_PLC == 6

LinkInit ==
  /\ Init
  /\ next_seq = FIRST_SEQ
  /\ next_timestamp = 0
  /\ captured = 0
  /\ last_capture = 0
  /\ network = {}
  /\ decoding = FALSE
  /\ consecutive_plc = 0
  /\ played = [kind |-> "none"]

-----------------------------------------------------------------------------
(* The sender: mezon_audio_packetize and mezon_peer_send                   *)

Frame == [seq |-> next_seq, timestamp |-> next_timestamp,
          payload |-> captured']

Encoded ==
  /\ next_seq' = NextSeq(next_seq)
  /\ next_timestamp' = next_timestamp + FRAME_SAMPLES
  /\ network' = network \cup {Frame}

NotEncoded_TimestampMoves ==
  /\ next_timestamp' = next_timestamp + FRAME_SAMPLES
  /\ UNCHANGED <<next_seq, network>>
\* mezon_audio_packetize returns before it numbers the packet
NotEncoded == UNCHANGED <<next_seq, next_timestamp, network>>

Capture ==
  /\ captured < MAX_CAPTURES /\ last_capture < now
  /\ captured' = captured + 1
  /\ last_capture' = now
  /\ Encoded \/ NotEncoded
  /\ UNCHANGED <<vars, renderVars>>

-----------------------------------------------------------------------------
(* The receiver                                                            *)

\* An RTP packet without payload may come at any time.
Strays == {p \in Packets : ~ Usable(p)}

Deliver ==
  /\ \E p \in network \cup Strays : Insert(p, now)
  /\ UNCHANGED <<fetched, now, senderVars, renderVars>>

\* the section of mezon_audio_playout under the lock
Lock ==
  /\ ~ decoding
  /\ Tick
  /\ decoding' = (fetched'.kind # "not_ready")
  /\ UNCHANGED <<senderVars, consecutive_plc, played>>

\* mezon_opus_decode may fail; then on_audio is not called.
Called(kind) ==
  \/ played' = [kind |-> "error"]
  \/ played' = [kind |-> kind, fetched |-> fetched]

DecodeFrame ==
  /\ fetched.kind \in {"normal", "fec"}
  /\ consecutive_plc' = 0
  /\ Called(fetched.kind)

Conceal_Unbounded ==
  /\ fetched.kind = "gap"
  /\ consecutive_plc' = (consecutive_plc + 1) % MAX_PLC
  /\ Called("plc")
Conceal ==
  /\ fetched.kind = "gap" /\ consecutive_plc < MAX_PLC
  /\ consecutive_plc' = consecutive_plc + 1
  /\ Called("plc")

Silence ==
  /\ fetched.kind = "gap" /\ consecutive_plc >= MAX_PLC
  /\ played' = [kind |-> "silence", fetched |-> fetched]
  /\ UNCHANGED consecutive_plc

Decode ==
  /\ decoding
  /\ decoding' = FALSE
  /\ DecodeFrame \/ Conceal \/ Silence
  /\ UNCHANGED <<vars, senderVars>>

LinkNext == Capture \/ Deliver \/ Lock \/ Decode

LinkSpec == LinkInit /\ [][LinkNext]_linkVars

-----------------------------------------------------------------------------
(* Properties                                                              *)

(* Serial numbers tell a packet ahead of the cursor from one behind it if  *)
(* the two are less than half the circle apart: at one frame per tick,     *)
(* nearly eleven minutes.                                                  *)
InSight(p) ==
  initialized =>
    /\ p.timestamp - expected_timestamp < HALF_SEQ * FRAME_SAMPLES
    /\ expected_timestamp - p.timestamp <= HALF_SEQ * FRAME_SAMPLES

\* p is taken into the buffer in this step
Enters(p) == Insert(p, now) /\ bufferVars' # bufferVars

(* What the network must keep to in a call of any length: no packet that   *)
(* the buffer takes is so early or so old.  Packets refused may be.        *)
ArrivesInSight ==
  [][\A p \in network : Enters(p) => InSight(p)]_linkVars

(* Sender and receiver agree on the media time line: whatever was lost,    *)
(* reordered or not encoded, and wherever a reset put the cursor, no       *)
(* packet of the stream that is inside the window is ever refused as       *)
(* malformed for its timestamp.                                            *)
NeverMalformed ==
  \A p \in network :
    initialized /\ InSight(p) /\ ~ Late(p) /\ ~ OutOfWindow(p) => Aligned(p)

(* The cursor has passed every packet the sender has sent or will send     *)
(* before the next tick.                                                   *)
Overtaken ==
  /\ initialized
  /\ next_timestamp <= expected_timestamp
  /\ last_capture < now => next_timestamp < expected_timestamp

(* Playout does not wait for the sender: once the cursor has overtaken a   *)
(* sender that captures no faster than frames are played, it stays ahead,  *)
(* and no later packet of the stream gets into the buffer.  A sender that  *)
(* paused for longer than the frames buffered is not heard again (until it *)
(* is half the circle behind: then its packets look ahead of the cursor).  *)
OvertakenForever ==
  [][Overtaken => Overtaken' /\ slots' = slots]_linkVars
=============================================================================
