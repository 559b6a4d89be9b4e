----------------------------- MODULE SampleQueue ----------------------------
(***************************************************************************)
(* What the ring between the playout thread and the loudspeaker promises:  *)
(* a bounded queue of samples.  What does not fit is lost from the end of  *)
(* what is put; what is asked for and not there is silence.                *)
(***************************************************************************)
EXTENDS Integers, Sequences, SequencesExt

CONSTANTS
  Capacity,
  Blocks,     \* what may be put: sequences of samples
  Requests,   \* how many samples may be asked for
  Silence

VARIABLES queue, heard

queueVars == <<queue, heard>>

QueueInit == queue = <<>> /\ heard = <<>>

Put(block) ==
  /\ \E n \in 0 .. Len(block) :
       /\ n = Len(block) \/ Len(queue) + n = Capacity
       /\ Len(queue) + n <= Capacity
       /\ queue' = queue \o SubSeq(block, 1, n)
  /\ UNCHANGED heard

Get(n) ==
  LET there == IF n <= Len(queue) THEN n ELSE Len(queue) IN
  /\ heard' = SubSeq(queue, 1, there) \o [k \in 1 .. n - there |-> Silence]
  /\ queue' = SubSeq(queue, there + 1, Len(queue))

QueueNext == \/ \E block \in Blocks : Put(block)
             \/ \E n \in Requests : Get(n)

QueueSpec == QueueInit /\ [][QueueNext]_queueVars
=============================================================================
