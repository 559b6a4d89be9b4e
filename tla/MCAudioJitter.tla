---------------------------- MODULE MCAudioJitter ---------------------------
(***************************************************************************)
(* A small instance of AudioJitter: a stream that crosses the wrap of its  *)
(* sequence numbers, of which any packet may arrive at any time, any       *)
(* number of times, or never; a packet without data, one whose timestamp   *)
(* does not fit its number, and one of a sender that jumped ahead.         *)
(***************************************************************************)
EXTENDS AudioJitter

CONSTANTS FIRST_SEQ, STREAM

StreamPacket(k) == [seq |-> (FIRST_SEQ + k) % SEQ_MOD,
                    timestamp |-> k * FRAME_SAMPLES,
                    payload |-> k]

MCPackets ==
  {StreamPacket(k) : k \in 0 .. STREAM - 1} \cup
  { [StreamPacket(1) EXCEPT !.payload = NoPayload],
    [StreamPacket(2) EXCEPT !.timestamp = 7, !.payload = 100],
    [seq |-> (FIRST_SEQ + 20000) % SEQ_MOD, timestamp |-> 5, payload |-> 101],
    [seq |-> (FIRST_SEQ + 40000) % SEQ_MOD, timestamp |-> 9, payload |-> 102] }
=============================================================================
