----------------------------- MODULE DeviceAudio ----------------------------
(***************************************************************************)
(* The sample rings between the engine and the audio devices               *)
(* (platform/common/audio_ring.h), with the callbacks that use them        *)
(* (platform/android/audio.cpp and on_decoded_audio).  Devices move blocks *)
(* of their own size, the engine frames; every access is made under        *)
(* audio_lock, and the callbacks of one stream come one at a time.         *)
(*                                                                         *)
(* The rings are set up when the bridge is created and not when it starts, *)
(* so what is left in them at a stop is there after the next start.        *)
(***************************************************************************)
EXTENDS Integers, Sequences, SequencesExt

CONSTANTS
  RING_SAMPLES,   \* MEZIA_AUDIO_RING_SAMPLES: 9600, ten frames
  FRAME_SAMPLES,  \* MEZON_OPUS_FRAME_SAMPLES: 960
  MAX_BLOCK,      \* samples of a device's block
  Voice,          \* the values of decoded samples
  MAX_STARTS,     \* bound of the model: starts of the bridge
  PERIOD          \* captured samples are numbered modulo PERIOD

\* The device's blocks leave room for the rest of a frame: a longer block
\* would lose its end, as a frame does that finds the playback ring full.
ASSUME DeviceAssumption ==
  /\ {RING_SAMPLES, FRAME_SAMPLES, MAX_BLOCK, PERIOD} \subseteq Nat \ {0}
  /\ MAX_STARTS \in Nat
  /\ MAX_BLOCK + FRAME_SAMPLES - 1 <= RING_SAMPLES
  /\ RING_SAMPLES + MAX_BLOCK < PERIOD

SILENCE == 0

-----------------------------------------------------------------------------
(* audio_ring.h                                                            *)

EmptyRing == [samples |-> [i \in 0 .. RING_SAMPLES - 1 |-> SILENCE],
              read |-> 0, write |-> 0, count |-> 0]

AtMost(n, limit) == IF n <= limit THEN n ELSE limit

\* what is written beyond the space is dropped
RingWrite_Overruns(ring, pcm) ==
  [ring EXCEPT
    !.samples = [i \in DOMAIN ring.samples |->
                   LET k == (i - ring.write) % RING_SAMPLES IN
                   IF k < Len(pcm) THEN pcm[k + 1] ELSE ring.samples[i]],
    !.write = (ring.write + Len(pcm)) % RING_SAMPLES,
    !.count = AtMost(ring.count + Len(pcm), RING_SAMPLES)]
RingWrite(ring, pcm) ==
  LET n == AtMost(Len(pcm), RING_SAMPLES - ring.count) IN
  [ring EXCEPT
    !.samples = [i \in DOMAIN ring.samples |->
                   LET k == (i - ring.write) % RING_SAMPLES IN
                   IF k < n THEN pcm[k + 1] ELSE ring.samples[i]],
    !.write = (ring.write + n) % RING_SAMPLES,
    !.count = ring.count + n]

\* the samples a read of n returns, and the ring after it
RingFront(ring, n) ==
  [k \in 1 .. AtMost(n, ring.count) |->
     ring.samples[(ring.read + k - 1) % RING_SAMPLES]]

AfterRead(ring, n) ==
  LET got == AtMost(n, ring.count) IN
  [ring EXCEPT !.read = (ring.read + got) % RING_SAMPLES,
               !.count = ring.count - got]

-----------------------------------------------------------------------------
VARIABLES
  capture_ring, playback_ring,
  draining,   \* capture_cb is in drain_capture
  starts,     \* starts of the bridge so far
  position,   \* of the microphone: the number of the sample that is next
  sent,       \* the frame last given to mezia_send_audio
  calls,      \* history: calls of mezia_send_audio, modulo 2
  heard       \* the block last given to the loudspeaker

deviceVars == <<capture_ring, playback_ring, draining, starts, position,
                sent, calls, heard>>

DeviceInit ==
  /\ capture_ring = EmptyRing /\ playback_ring = EmptyRing
  /\ draining = FALSE
  /\ starts = 1 /\ position = 0
  /\ sent = <<>> /\ calls = 0 /\ heard = <<>>

\* Samples are numbered as they are captured, on over stops and starts.
Sample(pos) == pos % PERIOD

\* capture_cb: the microphone's block
CaptureCallback(n) ==
  /\ ~ draining
  /\ draining' = TRUE
  /\ capture_ring' =
       RingWrite(capture_ring, [k \in 1 .. n |-> Sample(position + k - 1)])
  /\ position' = (position + n) % PERIOD
  /\ UNCHANGED <<playback_ring, starts, sent, calls, heard>>

\* mezia_send_audio is called with the frame read from the ring
SendFrame_NotTaken ==
  /\ sent' = RingFront(capture_ring, FRAME_SAMPLES)
  /\ calls' = 1 - calls
  /\ UNCHANGED capture_ring
SendFrame ==
  /\ sent' = RingFront(capture_ring, FRAME_SAMPLES)
  /\ calls' = 1 - calls
  /\ capture_ring' = AfterRead(capture_ring, FRAME_SAMPLES)

\* one turn of the loop of drain_capture, which lets go of the lock to send
DrainCapture ==
  /\ draining
  /\ IF capture_ring.count < FRAME_SAMPLES
     THEN draining' = FALSE /\ UNCHANGED <<capture_ring, sent, calls>>
     ELSE SendFrame /\ UNCHANGED draining
  /\ UNCHANGED <<playback_ring, starts, position, heard>>

\* playout gives a decoded frame
OnDecodedAudio(pcm) ==
  /\ playback_ring' = RingWrite(playback_ring, pcm)
  /\ UNCHANGED <<capture_ring, draining, starts, position, sent, calls,
                 heard>>

PlaybackCallback(n) ==
  LET got == RingFront(playback_ring, n) IN
  /\ heard' = got \o [k \in 1 .. n - Len(got) |-> SILENCE]
  /\ playback_ring' = AfterRead(playback_ring, n)
  /\ UNCHANGED <<capture_ring, draining, starts, position, sent, calls>>

\* stop, which waits for the callbacks, and start: neither touches the rings
Restart_EmptiesRing ==
  /\ ~ draining /\ starts < MAX_STARTS
  /\ starts' = starts + 1
  /\ capture_ring' = EmptyRing
  /\ UNCHANGED <<playback_ring, draining, position, sent, calls, heard>>
Restart ==
  /\ ~ draining /\ starts < MAX_STARTS
  /\ starts' = starts + 1
  /\ UNCHANGED <<capture_ring, playback_ring, draining, position, sent, calls,
                 heard>>

Frames == [1 .. FRAME_SAMPLES -> Voice]

DeviceNext ==
  \/ \E n \in 1 .. MAX_BLOCK : CaptureCallback(n) \/ PlaybackCallback(n)
  \/ DrainCapture
  \/ \E pcm \in Frames : OnDecodedAudio(pcm)
  \/ Restart

DeviceSpec == DeviceInit /\ [][DeviceNext]_deviceVars

-----------------------------------------------------------------------------
(* Properties                                                              *)

LastSent == IF sent = <<>> THEN PERIOD - 1 ELSE Last(sent)

(* Every captured sample is sent, once and in order, whatever the sizes of *)
(* the device's blocks: the first frame begins with the first sample, and  *)
(* each frame is consecutive and goes on where the one before it ended,    *)
(* over stops and starts too: the rest of a frame of the former session    *)
(* begins the first new one.                                               *)
CaptureContinuous ==
  [][calls' # calls =>
       LET stream == <<LastSent>> \o sent'
       IN \A k \in 1 .. Len(stream) - 1 :
            stream[k + 1] = (stream[k] + 1) % PERIOD
    ]_deviceVars

Loudspeaker == INSTANCE SampleQueue
  WITH Capacity <- RING_SAMPLES, Blocks <- Frames,
       Requests <- 1 .. MAX_BLOCK, Silence <- SILENCE,
       queue <- RingFront(playback_ring, playback_ring.count)

(* The ring is a bounded queue, for every meeting of its three indices: a  *)
(* frame that does not fit loses its end and never overwrites what waits.  *)
RingIsQueue == Loudspeaker!QueueSpec
=============================================================================
