----------------------------- MODULE MCAudioLink ----------------------------
(***************************************************************************)
(* A short stream across the wrap of its numbers, with pauses of the       *)
(* sender, loss, repetition and reordering, and more playout ticks than    *)
(* frames, so that the receiver runs dry.                                  *)
(***************************************************************************)
EXTENDS AudioLink

VARIABLES
  heard,    \* history: content of the last frame played from its own packet
  plc_run   \* history: concealments since a packet was last decoded

mcVars == <<linkVars, heard, plc_run>>

MCPackets ==
  {[seq |-> (FIRST_SEQ + k) % SEQ_MOD, timestamp |-> k * FRAME_SAMPLES,
    payload |-> c] : k \in 0 .. MAX_CAPTURES - 1, c \in 1 .. MAX_CAPTURES}
  \cup {[seq |-> FIRST_SEQ, timestamp |-> 0, payload |-> NoPayload]}

MCInit == LinkInit /\ heard = 0 /\ plc_run = 0

\* what the application was given by the call that ends in this step
Ends == decoding /\ ~ decoding'

MCNext ==
  /\ LinkNext
  /\ heard' = IF Ends /\ played'.kind = "normal" THEN played'.fetched.payload
              ELSE heard
  /\ plc_run' = IF ~ Ends THEN plc_run
                ELSE IF played'.kind = "plc" THEN plc_run + 1
                ELSE IF fetched.kind # "gap" THEN 0
                ELSE plc_run

MCSpec == MCInit /\ [][MCNext]_mcVars

(* Frames reach the application in the order of their capture, each from   *)
(* its own packet at most once, across losses, repetitions and resets.     *)
PlayedInOrder ==
  [][Ends /\ played'.kind = "normal" => played'.fetched.payload > heard]_mcVars

(* README, "Audio contract": prolonged absence transitions to silence      *)
(* rather than allowing unbounded PLC.                                     *)
ConcealmentBounded == plc_run <= 6
=============================================================================
