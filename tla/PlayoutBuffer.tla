--------------------------- MODULE PlayoutBuffer ----------------------------
(***************************************************************************)
(* What the playout path of the audio component promises, on the media     *)
(* time line alone: no sequence numbers, no slots, no counters.            *)
(*                                                                         *)
(* Frames wait in a bounded set until their instant comes.  Every playout  *)
(* tick moves the cursor by one frame and takes the frame of that instant  *)
(* if it is waiting; failing that it conceals with the next frame, which   *)
(* stays; failing that it reports a gap.  A frame too far ahead empties    *)
(* the set and moves the cursor to it.                                     *)
(***************************************************************************)
EXTENDS Integers, FiniteSets

CONSTANTS
  Capacity,   \* frames that may wait: jitter_max_ms / 20
  FrameStep,  \* samples per frame
  Frames      \* what may arrive: records [timestamp, payload]

VARIABLES
  phase,      \* "idle" before the first packet, "buffering", "playing"
  waiting,    \* the frames held
  cursor,     \* timestamp of the next frame to be played
  output      \* what the last tick produced

bufVars == <<phase, waiting, cursor, output>>

FrameAt(t) == {f \in waiting : f.timestamp = t}

BufferInit ==
  /\ phase = "idle"
  /\ waiting = {}
  /\ cursor = 0
  /\ output = [kind |-> "none"]

(* A frame inside the window of the cursor joins the set, once.            *)
Admit(f) ==
  /\ phase # "idle"
  /\ \E k \in 0 .. Capacity - 1 : f.timestamp = cursor + k * FrameStep
  /\ FrameAt(f.timestamp) = {}
  /\ waiting' = waiting \cup {f}
  /\ UNCHANGED <<phase, cursor, output>>

(* The first frame, or one beyond the window, begins the buffer anew.      *)
Restart(f) ==
  /\ phase' = "buffering"
  /\ waiting' = {f}
  /\ cursor' = f.timestamp
  /\ UNCHANGED output

(* A tick before buffering has completed produces nothing.                 *)
Hold ==
  /\ phase # "playing"
  /\ output' = [kind |-> "not_ready"]
  /\ UNCHANGED <<phase, waiting, cursor>>

(* A tick that plays: the frame due, its concealment, or a gap.            *)
Play ==
  /\ phase # "idle"
  /\ phase' = "playing"
  /\ cursor' = cursor + FrameStep
  /\ \/ \E f \in FrameAt(cursor) :
          /\ output' = [kind |-> "normal", timestamp |-> cursor,
                        payload |-> f.payload]
          /\ waiting' = waiting \ {f}
     \/ /\ FrameAt(cursor) = {}
        /\ \E f \in FrameAt(cursor + FrameStep) :
             output' = [kind |-> "fec", timestamp |-> cursor,
                        payload |-> f.payload]
        /\ UNCHANGED waiting
     \/ /\ FrameAt(cursor) = {} /\ FrameAt(cursor + FrameStep) = {}
        /\ output' = [kind |-> "gap", timestamp |-> cursor]
        /\ UNCHANGED waiting

BufferNext ==
  \/ \E f \in Frames : Admit(f) \/ Restart(f)
  \/ Hold
  \/ Play

BufferSpec == BufferInit /\ [][BufferNext]_bufVars
=============================================================================
