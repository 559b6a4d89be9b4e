------------------------- MODULE AndroidBridgeProofs ------------------------
(***************************************************************************)
(* Proofs about the Android bridge, for every set of decoders and without  *)
(* a bound on starts, stops and changes of the camera.                     *)
(*                                                                         *)
(* What a thread of the system may use is released by the application's    *)
(* thread step by step, so the inductive invariant says, for each place of *)
(* that thread, what is surely there and what is surely gone; the failures *)
(* of a start are the reason it needs both, as they enter the tail of stop *)
(* at different places.                                                    *)
(*                                                                         *)
(* And about its sample rings, for every size of ring, frame and block: a  *)
(* ring is a queue in all meetings of its indices (a write joins the end   *)
(* as far as there is room, a read takes the front), and the samples of    *)
(* the microphone form one chain: the last one sent, those that wait in    *)
(* the ring, and the one to come.                                          *)
(***************************************************************************)
EXTENDS AndroidBridge, DeviceAudio, TLAPS, SequenceTheorems

\* between the start of the engine and the end of mezia_platform_start
Starting ==
  \/ ctl \in {"open", "request", "create", "encoder", "run"}
  \/ ctl = "camera_start" /\ purpose = "start"

\* at rest: nothing was started, or everything was released
Resting == \/ ctl \in {"media_start", "return", "gone"}
           \/ ctl = "idle" /\ ~ running

\* the tail of stop, from the place where each thing has been released
EncoderGone ==
  \/ Resting
  \/ ctl \in {"open", "request", "create", "encoder", "decoder_stop",
              "decoder_delete", "decoder_clear", "audio_stop",
              "join_playout", "close", "media_stop", "join_worker"}
PlayoutGone ==
  \/ Resting
  \/ ctl \in {"open", "request", "create", "close", "media_stop",
              "join_worker"}
StreamsGone == Resting \/ ctl \in {"open", "media_stop", "join_worker"}
MediaGone == Resting \/ ctl = "join_worker"
CameraStopped ==
  ctl \in {"encoder_stop", "decoder_stop", "decoder_delete", "decoder_clear",
           "audio_stop", "join_playout", "close", "media_stop",
           "join_worker", "return", "gone"}

BooleansOK == {running, media, playout_running, encoder, half_open,
               enable_audio, enable_video} \subseteq BOOLEAN

\* which call the application's thread is in
CallInv ==
  /\ ctl \in {"media_start", "open", "request", "create", "encoder", "run"}
       => purpose = "start"
  /\ running => \/ ctl = "idle"
                \/ /\ purpose = "camera"
                   /\ ctl \in {"camera_stop", "camera_start"}
  /\ purpose = "camera" => \/ ctl = "idle"
                           \/ /\ running
                              /\ ctl \in {"camera_stop", "camera_start"}
  /\ ctl = "camera_start" => purpose \in {"start", "camera"}
  /\ ctl = "gone" => purpose = "destroy"

\* what is there when all has been started, or was so far
VideoStarted == \/ ctl = "run" \/ running
                \/ ctl = "camera_start" /\ purpose = "start"
AudioStarted == ctl = "encoder" \/ VideoStarted

PresentInv ==
  /\ Starting \/ running => media
  /\ (ctl = "create" \/ AudioStarted) /\ enable_audio => streams = "started"
  /\ AudioStarted /\ enable_audio => playout # "none"
  /\ VideoStarted /\ enable_video => encoder
  /\ ctl \in {"open", "request", "create"} => enable_audio
  /\ ctl = "camera_start" /\ purpose = "start" => enable_video

\* what is gone at which place
GoneInv ==
  /\ EncoderGone => ~ encoder
  /\ PlayoutGone => playout = "none"
  /\ StreamsGone => streams = "none"
  /\ MediaGone => ~ media
  /\ Resting => worker = "none"

\* whatever may use the engine is there only with it
UserInv ==
  /\ encoder \/ playout # "none" \/ streams # "none" => media
  /\ worker # "none" => media \/ ctl = "join_worker"
  /\ capture = "sending" => streams = "started"
  /\ playout_running <=> playout # "none" /\ ctl # "join_playout"

CameraInv ==
  /\ image = "pushing" => encoder /\ "capture_session" \in camera
  /\ "capture_session" \in camera => running \/ ctl \in {"run", "camera_stop"}
  /\ camera # {} => half_open \/ running \/ ctl \in {"run", "camera_stop"}
  /\ ctl = "camera_start" /\ purpose = "camera" => camera = {}
  /\ purpose = "destroy" /\ CameraStopped => camera = {}

BridgeInv == /\ BooleansOK /\ CallInv /\ PresentInv /\ GoneInv /\ UserInv
             /\ CameraInv

-----------------------------------------------------------------------------
USE DEF BridgeInv, BooleansOK, CallInv, PresentInv, GoneInv, UserInv,
        CameraInv, Starting, VideoStarted, AudioStarted, Resting,
        EncoderGone, PlayoutGone, StreamsGone, MediaGone, CameraStopped,
        config, appVars, audioVars, cameraVars, decoderVars, Goes

LEMMA BridgeInitial == BridgeInit => BridgeInv
BY DEF BridgeInit

(* The steps of mezia_platform_start.                                      *)
LEMMA StartSteps ==
  ASSUME BridgeInv,
         \/ Start \/ StartMedia \/ OpenStreams \/ RequestStart
         \/ CreatePlayout \/ StartEncoder \/ StartCamera \/ Run
  PROVE  BridgeInv'
<1>1. CASE Start
  BY <1>1 DEF Start
<1>2. CASE StartMedia
  <2>1. BooleansOK' /\ CallInv'
    BY <1>2 DEF StartMedia
  <2>2. PresentInv'
    BY <1>2 DEF StartMedia
  <2>3. GoneInv'
    BY <1>2 DEF StartMedia
  <2>4. UserInv'
    BY <1>2 DEF StartMedia
  <2>5. CameraInv'
    BY <1>2 DEF StartMedia
  <2> QED  BY <2>1, <2>2, <2>3, <2>4, <2>5
<1>3. CASE OpenStreams
  BY <1>3 DEF OpenStreams
<1>4. CASE RequestStart
  BY <1>4 DEF RequestStart
<1>5. CASE CreatePlayout
  <2>1. BooleansOK' /\ CallInv'
    BY <1>5 DEF CreatePlayout
  <2>2. PresentInv'
    BY <1>5 DEF CreatePlayout
  <2>3. GoneInv'
    BY <1>5 DEF CreatePlayout
  <2>4. UserInv'
    BY <1>5 DEF CreatePlayout
  <2>5. CameraInv'
    BY <1>5 DEF CreatePlayout
  <2> QED  BY <2>1, <2>2, <2>3, <2>4, <2>5
<1>6. CASE StartEncoder
  <2>1. BooleansOK' /\ CallInv'
    BY <1>6 DEF StartEncoder
  <2>2. PresentInv'
    BY <1>6 DEF StartEncoder
  <2>3. GoneInv'
    BY <1>6 DEF StartEncoder
  <2>4. UserInv'
    BY <1>6 DEF StartEncoder
  <2>5. CameraInv'
    BY <1>6 DEF StartEncoder
  <2> QED  BY <2>1, <2>2, <2>3, <2>4, <2>5
<1>7. CASE StartCamera
  BY <1>7 DEF StartCamera, Devices, OpenedSoFar
<1>8. CASE Run
  BY <1>8 DEF Run
<1> QED  BY <1>1, <1>2, <1>3, <1>4, <1>5, <1>6, <1>7, <1>8

(* The steps of stop and destroy, and of a change of camera.               *)
LEMMA StopSteps ==
  ASSUME BridgeInv,
         \/ Stop("stop") \/ Stop("destroy") \/ ChangeCamera
         \/ StopCamera \/ StopEncoder \/ StopDecoder \/ DeleteDecoder
         \/ ClearDecoder \/ StopPlayout \/ JoinPlayout
         \/ CloseStreams \/ StopMedia \/ JoinWorker \/ Return
  PROVE  BridgeInv'
<1>1. CASE Stop("stop")
  BY <1>1 DEF Stop
<1>2. CASE Stop("destroy")
  BY <1>2 DEF Stop
<1>3. CASE ChangeCamera
  BY <1>3 DEF ChangeCamera
<1>4. CASE StopCamera
  BY <1>4 DEF StopCamera
<1>5. CASE StopEncoder
  BY <1>5 DEF StopEncoder
<1>6. CASE StopDecoder
  BY <1>6 DEF StopDecoder
<1>7. CASE DeleteDecoder
  BY <1>7 DEF DeleteDecoder
<1>8. CASE ClearDecoder
  BY <1>8 DEF ClearDecoder
<1>9. CASE StopPlayout
  BY <1>9 DEF StopPlayout
<1>10. CASE JoinPlayout
  BY <1>10 DEF JoinPlayout
<1>11. CASE CloseStreams
  BY <1>11 DEF CloseStreams
<1>12. CASE StopMedia
  BY <1>12 DEF StopMedia
<1>13. CASE JoinWorker
  BY <1>13 DEF JoinWorker
<1>14. CASE Return
  BY <1>14 DEF Return
<1> QED  BY <1>1, <1>2, <1>3, <1>4, <1>5, <1>6, <1>7, <1>8, <1>9, <1>10, <1>11,
             <1>12, <1>13, <1>14

(* The callbacks, the playout thread and the receive worker.               *)
LEMMA ThreadSteps ==
  ASSUME BridgeInv,
         \/ Capture \/ Playout \/ Image \/ Worker
  PROVE  BridgeInv'
<1>1. CASE Capture
  BY <1>1 DEF Capture
<1>2. CASE Playout
  BY <1>2 DEF Playout
<1>3. CASE Image
  BY <1>3 DEF Image
<1>4. CASE Worker
  BY <1>4 DEF Worker, WorkerGoes, ReceiveParams, ReceiveSlice,
                Configure, SetUp, ReadDecoder
<1> QED  BY <1>1, <1>2, <1>3, <1>4

LEMMA BridgeStep == BridgeInv /\ [BridgeNext]_bridgeVars => BridgeInv'
<1> SUFFICES ASSUME BridgeInv, [BridgeNext]_bridgeVars
             PROVE  BridgeInv'
  OBVIOUS
<1>1. CASE UNCHANGED bridgeVars
  BY <1>1 DEF bridgeVars
<1>2. CASE BridgeNext
  BY <1>2, StartSteps, StopSteps, ThreadSteps DEF BridgeNext, Application
<1> QED  BY <1>1, <1>2

HIDE DEF BridgeInv

(* What is there and what is gone, at every place of the application's     *)
(* thread, in every reachable state.                                       *)
THEOREM BridgeInvariant == BridgeSpec => []BridgeInv
BY BridgeInitial, BridgeStep, PTL DEF BridgeSpec

-----------------------------------------------------------------------------
(* No thread of the bridge is in a call of the engine when mezia_stop is.  *)
THEOREM BridgeQuietBeforeStop == BridgeSpec => []QuietBeforeStop
<1>1. BridgeInv => QuietBeforeStop
  BY DEF BridgeInv, QuietBeforeStop
<1> QED  BY <1>1, BridgeInvariant, PTL

(* The camera's callback never uses an encoder that was deleted.           *)
THEOREM BridgeEncoderInUse == BridgeSpec => []EncoderInUse
<1>1. BridgeInv => EncoderInUse
  BY DEF BridgeInv, EncoderInUse
<1> QED  BY <1>1, BridgeInvariant, PTL

(* Between calls a bridge that runs has its engine, its streams with a     *)
(* playout thread, and its encoder; one that does not has none of these,   *)
(* no receive worker, and devices of the camera only after a start that    *)
(* failed halfway, whichever step of a start failed.                       *)
THEOREM BridgeStartedOrReleased == BridgeSpec => []StartedOrReleased
<1>1. BridgeInv => StartedOrReleased
  BY DEF BridgeInv, StartedOrReleased
<1> QED  BY <1>1, BridgeInvariant, PTL

(* Devices are lost only by a start after one that failed halfway.         *)
THEOREM BridgeLostOnlyByRetry == BridgeSpec => LostOnlyByRetry
<1>1. BridgeInv /\ [BridgeNext]_bridgeVars
        => [lost' # lost => half_open]_bridgeVars
  <2> SUFFICES ASSUME BridgeInv, BridgeNext, lost' # lost PROVE half_open
    BY DEF bridgeVars
  <2>1. StartCamera
    BY DEF BridgeNext, Application, Start, StartMedia, OpenStreams,
           RequestStart, CreatePlayout, StartEncoder, Run, Stop,
           ChangeCamera, StopCamera, StopEncoder, StopDecoder,
           DeleteDecoder, ClearDecoder, StopPlayout, JoinPlayout,
           CloseStreams, StopMedia, JoinWorker, Return, Worker,
           ReceiveParams, ReceiveSlice, Configure, SetUp, ReadDecoder,
           Capture, Playout, Image
  <2>2. ctl = "camera_start" /\ camera # {}
    BY <2>1 DEF StartCamera
  <2> QED  BY <2>2 DEF BridgeInv
<1> QED  BY <1>1, BridgeInvariant, PTL DEF BridgeSpec, LostOnlyByRetry

-----------------------------------------------------------------------------
(* The video decoder: only between its deletion and the clearing of its    *)
(* field does the field name a deleted one, and the worker, if it uses one *)
(* that was deleted, is gone before the bridge can start again.            *)
DecoderInv ==
  /\ ctl # "decoder_clear" => decoder \in live \cup {Null}
  /\ DecoderSound

LEMMA DecoderStep ==
  BridgeInv /\ DecoderInv /\ [BridgeNext]_bridgeVars => DecoderInv'
<1> USE DEF BridgeInv, DecoderInv, DecoderSound, DecoderInDoubt
<1> SUFFICES ASSUME BridgeInv, DecoderInv, [BridgeNext]_bridgeVars
             PROVE  DecoderInv'
  OBVIOUS
<1>1. CASE Application
  <2>1. CASE DeleteDecoder
    BY <2>1 DEF DeleteDecoder
  <2>2. CASE ClearDecoder
    BY <2>2 DEF ClearDecoder
  <2>3. CASE StartMedia
    BY <2>3 DEF StartMedia
  <2>4. CASE JoinWorker
    BY <2>4 DEF JoinWorker
  <2>5. CASE StopMedia
    BY <2>5 DEF StopMedia
  <2>6. CASE StartCamera
    BY <2>6 DEF StartCamera
  <2>7. CASE \/ Start \/ OpenStreams \/ RequestStart \/ CreatePlayout
             \/ StartEncoder \/ Run
    BY <2>7 DEF Start, OpenStreams, RequestStart, CreatePlayout,
                StartEncoder, Run
  <2>8. CASE \/ Stop("stop") \/ Stop("destroy") \/ ChangeCamera
             \/ StopCamera \/ StopEncoder \/ StopDecoder \/ StopPlayout
             \/ JoinPlayout \/ CloseStreams \/ Return
    BY <2>8 DEF Stop, ChangeCamera, StopCamera, StopEncoder, StopDecoder,
                StopPlayout, JoinPlayout, CloseStreams, Return
  <2> QED  BY <1>1, <2>1, <2>2, <2>3, <2>4, <2>5, <2>6, <2>7, <2>8
           DEF Application
<1>2. CASE Worker
  <2>1. CASE ReceiveParams \/ ReceiveSlice
    BY <2>1 DEF ReceiveParams, ReceiveSlice, WorkerGoes
  <2>2. CASE Configure
    BY <2>2, BridgeAssumption DEF Configure, WorkerGoes
  <2>3. CASE SetUp
    BY <2>3 DEF SetUp, WorkerGoes
  <2>4. CASE ReadDecoder
    BY <2>4 DEF ReadDecoder, WorkerGoes
  <2> QED  BY <1>2, <2>1, <2>2, <2>3, <2>4 DEF Worker
<1>3. CASE Capture \/ Playout \/ Image
  BY <1>3 DEF Capture, Playout, Image
<1>4. CASE UNCHANGED bridgeVars
  BY <1>4 DEF bridgeVars
<1> QED  BY <1>1, <1>2, <1>3, <1>4 DEF BridgeNext

(* Outside the calls that tear it down, the decoder the worker uses is     *)
(* alive and is the field's.                                               *)
THEOREM BridgeDecoderSound == BridgeSpec => []DecoderSound
<1>1. BridgeInit => DecoderInv
  BY DEF BridgeInit, DecoderInv, DecoderSound
<1>2. DecoderInv => DecoderSound
  BY DEF DecoderInv
<1> QED  BY <1>1, <1>2, BridgeInvariant, DecoderStep, PTL DEF BridgeSpec

HIDE DEF BridgeInv, BooleansOK, CallInv, PresentInv, GoneInv, UserInv,
         CameraInv, Starting, VideoStarted, AudioStarted, Resting,
         EncoderGone, PlayoutGone, StreamsGone, MediaGone, CameraStopped,
         config, appVars, audioVars, cameraVars, decoderVars, Goes

-----------------------------------------------------------------------------
(* Remainders of what is within one turn of the modulus.                   *)
LEMMA WrapOnce ==
  ASSUME NEW n \in Nat \ {0}, NEW i \in Int
  PROVE  /\ 0 <= i /\ i < n => i % n = i
         /\ n <= i /\ i < 2 * n => i % n = i - n
         /\ i < 0 /\ 0 - n <= i => i % n = i + n
OBVIOUS

LEMMA RingNumbers ==
  /\ RING_SAMPLES \in Nat \ {0} /\ FRAME_SAMPLES \in Nat \ {0}
  /\ MAX_BLOCK \in Nat \ {0} /\ PERIOD \in Nat \ {0}
BY DeviceAssumption

LEMMA Wrap ==
  ASSUME NEW n \in Nat \ {0}, NEW a \in 0 .. n, NEW b \in 0 .. n,
         a + b < 2 * n
  PROVE  /\ (a + b) % n = IF a + b < n THEN a + b ELSE a + b - n
         /\ (a + b) % n \in 0 .. n - 1
OBVIOUS

LEMMA SameTurn ==
  ASSUME NEW n \in Nat \ {0}, NEW a \in Nat, NEW b \in Nat, b < 2 * n,
         b = a \/ b = a + n
  PROVE  a % n = b % n
OBVIOUS

(* A place is a residue.                                                   *)
LEMMA Residue ==
  ASSUME NEW x \in Int, NEW n \in Nat \ {0}
  PROVE  x % n \in 0 .. n - 1
OBVIOUS

(* The place of the j-th sample after read, seen from the c-th.            *)
LEMMA PlaceFrom ==
  ASSUME NEW n \in Nat \ {0}, NEW read \in 0 .. n - 1,
         NEW j \in 0 .. n - 1, NEW c \in 0 .. n
  PROVE  /\ (read + j) % n \in 0 .. n - 1
         /\ (read + c) % n \in 0 .. n - 1
         /\ (((read + j) % n) - ((read + c) % n)) % n
              = IF j < c THEN j - c + n ELSE j - c
<1> DEFINE p == (read + j) % n
           w == (read + c) % n
<1>1. /\ p = IF read + j < n THEN read + j ELSE read + j - n
      /\ w = IF read + c < n THEN read + c ELSE read + c - n
  <2>1. /\ read \in 0 .. n /\ j \in 0 .. n
        /\ read + j < 2 * n /\ read + c < 2 * n
    OBVIOUS
  <2> QED  BY <2>1, Wrap
<1>2. p \in 0 .. n - 1 /\ w \in 0 .. n - 1
  BY <1>1
<1> HIDE DEF p, w
<1>3. (p - w) % n = IF p - w >= 0 THEN p - w ELSE p - w + n
  BY <1>2
<1>4. (p - w) % n = IF j < c THEN j - c + n ELSE j - c
  BY <1>1, <1>2, <1>3
<1> QED  BY <1>2, <1>4 DEF p, w

LEMMA PlaceAfter ==
  ASSUME NEW n \in Nat \ {0}, NEW read \in 0 .. n - 1,
         NEW c \in 0 .. n, NEW k \in Nat, c + k <= n
  PROVE  (((read + c) % n) + k) % n = (read + (c + k)) % n
<1> DEFINE w == (read + c) % n
<1>1. /\ w = IF read + c < n THEN read + c ELSE read + c - n
      /\ w \in 0 .. n - 1
  <2>1. read \in 0 .. n /\ c \in 0 .. n /\ read + c < 2 * n
    OBVIOUS
  <2> QED  BY <2>1, Wrap
<1> HIDE DEF w
<1>2. /\ w + k \in Nat /\ read + (c + k) \in Nat
      /\ read + (c + k) < 2 * n
      /\ read + (c + k) = w + k \/ read + (c + k) = (w + k) + n
  BY <1>1
<1>3. (w + k) % n = (read + (c + k)) % n
  BY <1>2, SameTurn
<1> QED  BY <1>3 DEF w

-----------------------------------------------------------------------------
(* The ring is a queue                                                     *)

RingOK(ring, S) ==
  /\ ring \in [samples : [0 .. RING_SAMPLES - 1 -> S],
               read : 0 .. RING_SAMPLES - 1, write : 0 .. RING_SAMPLES - 1,
               count : 0 .. RING_SAMPLES]
  /\ ring.write = (ring.read + ring.count) % RING_SAMPLES

Held(ring) == RingFront(ring, ring.count)

LEMMA RingType ==
  ASSUME NEW S, NEW ring, RingOK(ring, S)
  PROVE  /\ ring.samples \in [0 .. RING_SAMPLES - 1 -> S]
         /\ ring.read \in 0 .. RING_SAMPLES - 1
         /\ ring.count \in 0 .. RING_SAMPLES /\ ring.count \in Nat
         /\ ring.write = (ring.read + ring.count) % RING_SAMPLES
         /\ ring.write \in 0 .. RING_SAMPLES - 1
         /\ RING_SAMPLES \in Nat \ {0}
BY RingNumbers DEF RingOK

LEMMA RingIsEmpty ==
  ASSUME NEW S, SILENCE \in S
  PROVE  RingOK(EmptyRing, S) /\ Held(EmptyRing) = <<>>
<1>1. /\ (0 + 0) % RING_SAMPLES = 0 /\ 0 \in 0 .. RING_SAMPLES - 1
      /\ 0 \in 0 .. RING_SAMPLES
  BY RingNumbers
<1>2. RingOK(EmptyRing, S)
  BY <1>1 DEF RingOK, EmptyRing
<1>3. EmptyRing.count = 0 /\ AtMost(0, 0) = 0
  BY DEF EmptyRing, AtMost
<1>4. Held(EmptyRing) = <<>>
  BY <1>3 DEF Held, RingFront
<1> QED  BY <1>2, <1>4

(* What is read is the front of what is held.                              *)
LEMMA FrontOfHeld ==
  ASSUME NEW S, NEW ring, RingOK(ring, S), NEW n \in Nat
  PROVE  /\ RingFront(ring, n) \in Seq(S)
         /\ Len(RingFront(ring, n)) = AtMost(n, ring.count)
         /\ AtMost(n, ring.count) \in 0 .. ring.count
         /\ \A k \in 1 .. AtMost(n, ring.count) :
              RingFront(ring, n)[k]
                = ring.samples[(ring.read + k - 1) % RING_SAMPLES]
<1> DEFINE m == AtMost(n, ring.count)
<1>1. /\ ring.count \in 0 .. RING_SAMPLES
      /\ ring.read \in 0 .. RING_SAMPLES - 1
      /\ ring.samples \in [0 .. RING_SAMPLES - 1 -> S]
  BY RingType
<1>2. m \in 0 .. ring.count /\ m \in Nat
  BY <1>1 DEF AtMost
<1> HIDE DEF m
<1>3. RingFront(ring, n) =
        [k \in 1 .. m |->
           ring.samples[(ring.read + k - 1) % RING_SAMPLES]]
  BY DEF RingFront, m
<1>4. ASSUME NEW k \in 1 .. m
      PROVE  ring.samples[(ring.read + k - 1) % RING_SAMPLES] \in S
  <2>1. k - 1 \in 0 .. RING_SAMPLES - 1 /\ 0 \in 0 .. RING_SAMPLES
    BY <1>1, <1>2, RingNumbers
  <2>2. ring.read + k - 1 = ring.read + (k - 1)
    BY <1>1, <2>1
  <2>3. (ring.read + (k - 1)) % RING_SAMPLES \in 0 .. RING_SAMPLES - 1
    BY <1>1, <2>1, RingNumbers, PlaceFrom
  <2> QED  BY <1>1, <2>2, <2>3
<1>5. RingFront(ring, n) \in Seq(S) /\ Len(RingFront(ring, n)) = m
  BY <1>2, <1>3, <1>4
<1> QED  BY <1>2, <1>3, <1>5 DEF m

LEMMA HeldIs ==
  ASSUME NEW S, NEW ring, RingOK(ring, S)
  PROVE  /\ Held(ring) \in Seq(S) /\ Len(Held(ring)) = ring.count
         /\ \A k \in 1 .. ring.count :
              Held(ring)[k]
                = ring.samples[(ring.read + k - 1) % RING_SAMPLES]
<1>1. ring.count \in Nat /\ AtMost(ring.count, ring.count) = ring.count
  BY DEF RingOK, AtMost
<1> QED  BY <1>1, FrontOfHeld DEF Held

LEMMA FrontIsPrefix ==
  ASSUME NEW S, NEW ring, RingOK(ring, S), NEW n \in Nat
  PROVE  RingFront(ring, n) = SubSeq(Held(ring), 1, AtMost(n, ring.count))
<1> DEFINE m == AtMost(n, ring.count)
<1>1. m \in 0 .. ring.count /\ m \in Nat /\ ring.count \in Nat
  <2>1. m \in 0 .. ring.count /\ ring.count \in Nat
    BY FrontOfHeld, RingType
  <2> HIDE DEF m
  <2> QED  BY <2>1
<1>2. Held(ring) \in Seq(S) /\ Len(Held(ring)) = ring.count
  BY HeldIs
<1>0. \A k \in 1 .. m : k \in 1 .. ring.count /\ Held(ring)[k] \in S
  <2> HIDE DEF m
  <2>1. \A k \in 1 .. m : k \in 1 .. ring.count
    BY <1>1
  <2> QED  BY <1>2, <2>1, ElementOfSeq
<1>3. /\ SubSeq(Held(ring), 1, m) \in Seq(S)
      /\ Len(SubSeq(Held(ring), 1, m)) = m
      /\ \A k \in 1 .. m : SubSeq(Held(ring), 1, m)[k] = Held(ring)[k]
  <2> HIDE DEF m
  <2>1. m - 1 + 1 = m /\ 1 \in Int /\ m \in Int
    BY <1>1
  <2>2. \A k \in 1 .. m : 1 + k - 1 = k
    BY <1>1
  <2>3. (IF 1 <= m THEN m - 1 + 1 ELSE 0) = m
    BY <1>1
  <2> QED  BY <1>0, <2>1, <2>2, <2>3, SubSeqProperties
<1>4. /\ RingFront(ring, n) \in Seq(S) /\ Len(RingFront(ring, n)) = m
      /\ \A k \in 1 .. m :
           RingFront(ring, n)[k]
             = ring.samples[(ring.read + k - 1) % RING_SAMPLES]
  BY FrontOfHeld
<1> HIDE DEF m
<1>5. \A k \in 1 .. m : RingFront(ring, n)[k] = Held(ring)[k]
  BY <1>0, <1>4, HeldIs
<1> QED  BY <1>3, <1>4, <1>5, SeqEqual DEF m

(* What is read leaves the front.                                          *)
LEMMA ReadTakesFront ==
  ASSUME NEW S, NEW ring, RingOK(ring, S), NEW n \in Nat
  PROVE  /\ RingOK(AfterRead(ring, n), S)
         /\ AfterRead(ring, n).count = ring.count - AtMost(n, ring.count)
         /\ Held(AfterRead(ring, n)) =
              SubSeq(Held(ring), AtMost(n, ring.count) + 1, ring.count)
<1> DEFINE m == AtMost(n, ring.count)
           after == AfterRead(ring, n)
<1>1. /\ ring.count \in 0 .. RING_SAMPLES
      /\ ring.read \in 0 .. RING_SAMPLES - 1
      /\ ring.write = (ring.read + ring.count) % RING_SAMPLES
      /\ m \in 0 .. ring.count /\ RING_SAMPLES \in Nat \ {0}
  BY FrontOfHeld, RingType
<1>2. /\ after.samples = ring.samples /\ after.write = ring.write
      /\ after.read = (ring.read + m) % RING_SAMPLES
      /\ after.count = ring.count - m
      /\ after = [ring EXCEPT !.read = (ring.read + m) % RING_SAMPLES,
                              !.count = ring.count - m]
  BY DEF AfterRead, RingOK
<1> HIDE DEF m, after
<1>3. /\ after.read \in 0 .. RING_SAMPLES - 1
      /\ after.read = IF ring.read + m < RING_SAMPLES THEN ring.read + m
                      ELSE ring.read + m - RING_SAMPLES
  <2>1. /\ ring.read \in 0 .. RING_SAMPLES /\ m \in 0 .. RING_SAMPLES
        /\ ring.read + m < 2 * RING_SAMPLES
    BY <1>1
  <2> QED  BY <1>1, <1>2, <2>1, Wrap
<1>4. ASSUME NEW j \in 0 .. ring.count - m
      PROVE  (after.read + j) % RING_SAMPLES
               = (ring.read + (m + j)) % RING_SAMPLES
  <2>1. /\ after.read + j \in Int /\ ring.read + (m + j) \in Int
        /\ 0 <= after.read + j /\ after.read + j < 2 * RING_SAMPLES
        /\ 0 <= ring.read + (m + j)
        /\ ring.read + (m + j) < 2 * RING_SAMPLES
    BY <1>1, <1>3
  <2> QED  BY <1>1, <1>3, <2>1
<1>5. RingOK(after, S)
  <2>1. after.write = (after.read + after.count) % RING_SAMPLES
    <3>1. /\ ring.count - m \in 0 .. ring.count - m
          /\ m + (ring.count - m) = ring.count
      BY <1>1
    <3> QED  BY <1>1, <1>2, <1>4, <3>1
  <2>2. after.count \in 0 .. RING_SAMPLES
    BY <1>1, <1>2
  <2> QED  BY <1>2, <1>3, <2>1, <2>2 DEF RingOK
<1>6. Held(after) = SubSeq(Held(ring), m + 1, ring.count)
  <2> DEFINE rest == SubSeq(Held(ring), m + 1, ring.count)
  <2>1. m + 1 \in Int /\ ring.count \in Int
        /\ ring.count - (m + 1) + 1 = ring.count - m
        /\ (IF m + 1 <= ring.count THEN ring.count - (m + 1) + 1 ELSE 0)
             = ring.count - m
    BY <1>1
  <2>2. \A i \in m + 1 .. ring.count : Held(ring)[i] \in S
    BY <1>1, HeldIs, ElementOfSeq
  <2>3. /\ rest \in Seq(S) /\ Len(rest) = ring.count - m
        /\ \A k \in 1 .. ring.count - m : rest[k] = Held(ring)[m + 1 + k - 1]
    BY <2>1, <2>2, SubSeqProperties
  <2> HIDE DEF rest
  <2>4. ASSUME NEW k \in 1 .. ring.count - m  PROVE Held(after)[k] = rest[k]
    <3>1. /\ k - 1 \in 0 .. ring.count - m
          /\ after.read + k - 1 = after.read + (k - 1)
          /\ ring.read + (m + (k - 1)) = ring.read + (m + 1 + k - 1) - 1
          /\ m + 1 + k - 1 \in 1 .. ring.count
      BY <1>1, <1>3
    <3>2. Held(after)[k] = ring.samples[(ring.read + (m + (k - 1)))
                                          % RING_SAMPLES]
      <4>1. Held(after)[k] = after.samples[(after.read + k - 1)
                                             % RING_SAMPLES]
        <5>1. k \in 1 .. after.count
          BY <1>2
        <5> QED  BY <1>5, <5>1, HeldIs
      <4>2. (after.read + (k - 1)) % RING_SAMPLES
              = (ring.read + (m + (k - 1))) % RING_SAMPLES
        BY <1>4, <3>1
      <4> QED  BY <1>2, <3>1, <4>1, <4>2
    <3>3. rest[k] = ring.samples[(ring.read + (m + 1 + k - 1) - 1)
                                   % RING_SAMPLES]
      BY <2>3, <3>1, HeldIs
    <3> QED  BY <3>1, <3>2, <3>3
  <2>5. Held(after) \in Seq(S) /\ Len(Held(after)) = ring.count - m
    BY <1>2, <1>5, HeldIs
  <2> QED  BY <2>3, <2>4, <2>5, SeqEqual DEF rest
<1> QED  BY <1>2, <1>5, <1>6 DEF m, after

(* What is written joins the end, as far as there is room.                 *)
LEMMA WriteJoinsEnd ==
  ASSUME NEW S, NEW ring, RingOK(ring, S), NEW pcm \in Seq(S)
  PROVE  LET n == AtMost(Len(pcm), RING_SAMPLES - ring.count) IN
         /\ n \in 0 .. Len(pcm) /\ n \in Nat
         /\ RingOK(RingWrite(ring, pcm), S)
         /\ RingWrite(ring, pcm).count = ring.count + n
         /\ Held(RingWrite(ring, pcm)) = Held(ring) \o SubSeq(pcm, 1, n)
<1> DEFINE n == AtMost(Len(pcm), RING_SAMPLES - ring.count)
           after == RingWrite(ring, pcm)
           written(i) == (i - ring.write) % RING_SAMPLES
<1>1. /\ ring.count \in 0 .. RING_SAMPLES
      /\ ring.read \in 0 .. RING_SAMPLES - 1
      /\ ring.write = (ring.read + ring.count) % RING_SAMPLES
      /\ ring.write \in 0 .. RING_SAMPLES - 1
      /\ ring.samples \in [0 .. RING_SAMPLES - 1 -> S]
      /\ DOMAIN ring.samples = 0 .. RING_SAMPLES - 1
      /\ RING_SAMPLES \in Nat \ {0}
  BY RingType
<1>2. /\ Len(pcm) \in Nat /\ n \in Nat /\ n <= Len(pcm)
      /\ ring.count + n \in 0 .. RING_SAMPLES
      /\ \A k \in 1 .. n : pcm[k] \in S
  <2>1. Len(pcm) \in Nat /\ \A k \in 1 .. Len(pcm) : pcm[k] \in S
    BY LenProperties, ElementOfSeq
  <2>2. n \in Nat /\ n <= Len(pcm) /\ ring.count + n \in 0 .. RING_SAMPLES
    BY <1>1, <2>1 DEF AtMost
  <2> HIDE DEF n
  <2> QED  BY <2>1, <2>2
<1>3. /\ after.samples =
           [i \in 0 .. RING_SAMPLES - 1 |->
              IF written(i) < n THEN pcm[written(i) + 1]
              ELSE ring.samples[i]]
      /\ after.read = ring.read
      /\ after.write = (ring.write + n) % RING_SAMPLES
      /\ after.count = ring.count + n
      /\ after = [ring EXCEPT !.samples = after.samples,
                              !.write = (ring.write + n) % RING_SAMPLES,
                              !.count = ring.count + n]
  BY <1>1 DEF RingWrite, RingOK
<1>4. ASSUME NEW i \in 0 .. RING_SAMPLES - 1
      PROVE  written(i) \in 0 .. RING_SAMPLES - 1
  <2>1. i - ring.write \in Int
    BY <1>1
  <2> QED  BY <1>1, <2>1, Residue
<1> HIDE DEF n, after, written
<1>5. RingOK(after, S)
  <2>1. after.samples \in [0 .. RING_SAMPLES - 1 -> S]
    <3>1. ASSUME NEW i \in 0 .. RING_SAMPLES - 1
          PROVE  (IF written(i) < n THEN pcm[written(i) + 1]
                  ELSE ring.samples[i]) \in S
      <4>1. written(i) < n => written(i) + 1 \in 1 .. n
        BY <1>2, <1>4
      <4> QED  BY <1>1, <1>2, <4>1
    <3> QED  BY <1>3, <3>1
  <2>2. after.write = (after.read + after.count) % RING_SAMPLES
    <3>1. (ring.write + n) % RING_SAMPLES
            = (ring.read + (ring.count + n)) % RING_SAMPLES
      <4>1. /\ ring.read \in 0 .. RING_SAMPLES - 1
            /\ ring.count \in 0 .. RING_SAMPLES
            /\ n \in Nat /\ ring.count + n <= RING_SAMPLES
            /\ RING_SAMPLES \in Nat \ {0}
        BY <1>1, <1>2
      <4>2. (((ring.read + ring.count) % RING_SAMPLES) + n) % RING_SAMPLES
              = (ring.read + (ring.count + n)) % RING_SAMPLES
        BY <4>1, PlaceAfter
      <4>3. ring.write = (ring.read + ring.count) % RING_SAMPLES
        BY <1>1
      <4> QED  BY <4>2, <4>3
    <3> QED  BY <1>3, <3>1
  <2>3. after.write \in 0 .. RING_SAMPLES - 1
    <3>1. ring.write + n \in Int
      BY <1>1, <1>2
    <3>2. (ring.write + n) % RING_SAMPLES \in 0 .. RING_SAMPLES - 1
      BY <1>1, <3>1, Residue
    <3> QED  BY <1>3, <3>2
  <2> QED  BY <1>1, <1>2, <1>3, <2>1, <2>2, <2>3 DEF RingOK
<1>6. Held(after) = Held(ring) \o SubSeq(pcm, 1, n)
  <2> DEFINE front == SubSeq(pcm, 1, n)
             old == Held(ring)
  <2>1. front \in Seq(S) /\ Len(front) = n
        /\ \A k \in 1 .. n : front[k] = pcm[k]
    <3>1. n - 1 + 1 = n /\ 1 \in Int /\ n \in Int
          /\ (IF 1 <= n THEN n - 1 + 1 ELSE 0) = n
          /\ \A k \in 1 .. n : 1 + k - 1 = k
      BY <1>2
    <3> QED  BY <1>2, <3>1, SubSeqProperties
  <2>2. old \in Seq(S) /\ Len(old) = ring.count
        /\ \A k \in 1 .. ring.count :
             old[k] = ring.samples[(ring.read + k - 1) % RING_SAMPLES]
    BY HeldIs
  <2> HIDE DEF front, old
  <2>3. /\ old \o front \in Seq(S) /\ Len(old \o front) = ring.count + n
        /\ \A k \in 1 .. ring.count + n :
             (old \o front)[k] = IF k <= ring.count THEN old[k]
                                 ELSE front[k - ring.count]
    <3>1. /\ old \o front \in Seq(S)
          /\ Len(old \o front) = Len(old) + Len(front)
          /\ \A k \in 1 .. Len(old) + Len(front) :
               (old \o front)[k] = IF k <= Len(old) THEN old[k]
                                   ELSE front[k - Len(old)]
      <4>1. old \in Seq(S) /\ front \in Seq(S)
        BY <2>1, <2>2
      <4> QED  BY <4>1, ConcatProperties
    <3> QED  BY <2>1, <2>2, <3>1
  <2>4. ASSUME NEW k \in 1 .. ring.count + n
        PROVE  Held(after)[k] = (old \o front)[k]
    <3> DEFINE i == (ring.read + (k - 1)) % RING_SAMPLES
    <3>1. k - 1 \in 0 .. RING_SAMPLES - 1 /\ ring.read + k - 1
            = ring.read + (k - 1)
      BY <1>1, <1>2
    <3>2. /\ i \in 0 .. RING_SAMPLES - 1
          /\ written(i) = IF k - 1 < ring.count
                          THEN (k - 1) - ring.count + RING_SAMPLES
                          ELSE (k - 1) - ring.count
      <4>1. /\ i \in 0 .. RING_SAMPLES - 1
            /\ (i - ((ring.read + ring.count) % RING_SAMPLES)) % RING_SAMPLES
                 = IF k - 1 < ring.count
                   THEN (k - 1) - ring.count + RING_SAMPLES
                   ELSE (k - 1) - ring.count
        <5> DEFINE j == k - 1
                   read == ring.read
                   c == ring.count
        <5>1. /\ RING_SAMPLES \in Nat \ {0}
              /\ read \in 0 .. RING_SAMPLES - 1
              /\ j \in 0 .. RING_SAMPLES - 1
              /\ c \in 0 .. RING_SAMPLES
          BY <1>1, <3>1
        <5> HIDE DEF j, read, c
        <5>2. /\ (read + j) % RING_SAMPLES \in 0 .. RING_SAMPLES - 1
              /\ (((read + j) % RING_SAMPLES) - ((read + c) % RING_SAMPLES))
                   % RING_SAMPLES
                   = IF j < c THEN j - c + RING_SAMPLES ELSE j - c
          BY <5>1, PlaceFrom, SMTT(20)
        <5> QED  BY <5>2 DEF j, read, c
      <4>2. written(i) = (i - ((ring.read + ring.count) % RING_SAMPLES))
                           % RING_SAMPLES
        <5> DEFINE place == (ring.read + ring.count) % RING_SAMPLES
        <5>1. ring.write = place
          BY <1>1
        <5> HIDE DEF i, place
        <5>2. written(i) = (i - place) % RING_SAMPLES
          BY <5>1 DEF written
        <5> QED  BY <5>2 DEF place
      <4> QED  BY <4>1, <4>2
    <3>3. Held(after)[k] = after.samples[i]
      <4>1. k \in 1 .. after.count
        BY <1>3
      <4>2. Held(after)[k] = after.samples[(after.read + k - 1)
                                             % RING_SAMPLES]
        BY <1>5, <4>1, HeldIs
      <4> QED  BY <1>3, <3>1, <4>2
    <3> HIDE DEF i
    <3>4. CASE k <= ring.count
      <4>1. ~ (written(i) < n)
        BY <1>1, <1>2, <3>2, <3>4
      <4>2. Held(after)[k] = ring.samples[i]
        BY <1>3, <3>2, <3>3, <4>1
      <4>3. old[k] = ring.samples[i]
        <5>1. k \in 1 .. ring.count
          BY <1>1, <3>4
        <5>2. old[k] = ring.samples[(ring.read + k - 1) % RING_SAMPLES]
          BY <2>2, <5>1
        <5> QED  BY <3>1, <5>2 DEF i
      <4>4. (old \o front)[k] = old[k]
        BY <2>3, <3>4
      <4> QED  BY <4>2, <4>3, <4>4
    <3>5. CASE ~ (k <= ring.count)
      <4>1. /\ written(i) < n /\ written(i) + 1 = k - ring.count
            /\ k - ring.count \in 1 .. n
        <5>1. k \in Int /\ ring.count \in Int /\ n \in Int
              /\ k > ring.count /\ k <= ring.count + n
          BY <1>1, <1>2, <3>5
        <5>2. written(i) = (k - 1) - ring.count
          BY <3>2, <5>1
        <5> QED  BY <5>1, <5>2
      <4>2. Held(after)[k] = pcm[k - ring.count]
        BY <1>3, <3>2, <3>3, <4>1
      <4> QED  BY <2>1, <2>3, <3>5, <4>1, <4>2
    <3> QED  BY <3>4, <3>5
  <2>5. Held(after) \in Seq(S) /\ Len(Held(after)) = ring.count + n
    BY <1>3, <1>5, HeldIs
  <2> QED  BY <2>3, <2>4, <2>5, SeqEqual DEF front, old
<1>7. n \in 0 .. Len(pcm) /\ after.count = ring.count + n
  BY <1>2, <1>3
<1> QED  BY <1>2, <1>5, <1>6, <1>7 DEF n, after

-----------------------------------------------------------------------------
(* The loudspeaker's ring                                                  *)

Playable == Voice \cup {SILENCE}
PlaybackOK == RingOK(playback_ring, Playable)

LEMMA PutFrame ==
  ASSUME PlaybackOK, NEW pcm \in Frames, OnDecodedAudio(pcm)
  PROVE  PlaybackOK' /\ Loudspeaker!Put(pcm)
<1> DEFINE n == AtMost(Len(pcm), RING_SAMPLES - playback_ring.count)
<1>1. pcm \in Seq(Playable) /\ Len(pcm) \in Nat
  BY RingNumbers DEF Frames, Playable
<1>2. /\ n \in 0 .. Len(pcm) /\ n \in Nat
      /\ RingOK(playback_ring', Playable)
      /\ playback_ring'.count = playback_ring.count + n
      /\ Held(playback_ring') = Held(playback_ring) \o SubSeq(pcm, 1, n)
  BY <1>1, WriteJoinsEnd DEF PlaybackOK, OnDecodedAudio
<1>3. Len(Held(playback_ring)) = playback_ring.count
      /\ playback_ring.count \in 0 .. RING_SAMPLES
  BY HeldIs, RingType DEF PlaybackOK
<1>4. /\ n = Len(pcm) \/ playback_ring.count + n = RING_SAMPLES
      /\ playback_ring.count + n <= RING_SAMPLES
  BY <1>1, <1>3, RingNumbers DEF AtMost
<1> HIDE DEF n
<1>5. heard' = heard
  BY DEF OnDecodedAudio
<1>6. Loudspeaker!Put(pcm)
  BY <1>2, <1>3, <1>4, <1>5 DEF Loudspeaker!Put, Held
<1> QED  BY <1>2, <1>6 DEF PlaybackOK

LEMMA GetBlock ==
  ASSUME PlaybackOK, NEW n \in 1 .. MAX_BLOCK, PlaybackCallback(n)
  PROVE  PlaybackOK' /\ Loudspeaker!Get(n)
<1> DEFINE there == AtMost(n, playback_ring.count)
           got == RingFront(playback_ring, n)
<1>1. n \in Nat
  BY RingNumbers
<1>2. /\ RingOK(playback_ring', Playable)
      /\ Held(playback_ring') = SubSeq(Held(playback_ring), there + 1,
                                       playback_ring.count)
  BY <1>1, ReadTakesFront DEF PlaybackOK, PlaybackCallback
<1>3. got = SubSeq(Held(playback_ring), 1, there) /\ Len(got) = there
  BY <1>1, FrontIsPrefix, FrontOfHeld DEF PlaybackOK
<1>4. Len(Held(playback_ring)) = playback_ring.count
  BY HeldIs DEF PlaybackOK
<1>5. there = IF n <= Len(Held(playback_ring)) THEN n
              ELSE Len(Held(playback_ring))
  BY <1>4 DEF AtMost
<1>6. heard' = got \o [k \in 1 .. n - Len(got) |-> SILENCE]
  BY DEF PlaybackCallback
<1> HIDE DEF there, got
<1>7. heard' = SubSeq(Held(playback_ring), 1, there)
                 \o [k \in 1 .. n - there |-> SILENCE]
  BY <1>3, <1>6
<1>8. Loudspeaker!Get(n)
  BY <1>2, <1>4, <1>5, <1>7 DEF Loudspeaker!Get, Held
<1> QED  BY <1>2, <1>8 DEF PlaybackOK

(* The ring between the playout thread and the loudspeaker is a bounded    *)
(* queue, for rings, frames and device blocks of every size.               *)
THEOREM LoudspeakerIsQueue == DeviceSpec => RingIsQueue
<1>1. DeviceInit => PlaybackOK /\ Loudspeaker!QueueInit
  <2>1. SILENCE \in Playable
    BY DEF Playable
  <2> QED  BY <2>1, RingIsEmpty
           DEF DeviceInit, PlaybackOK, Loudspeaker!QueueInit, Held
<1>2. PlaybackOK /\ [DeviceNext]_deviceVars
        => PlaybackOK' /\ [Loudspeaker!QueueNext]_(Loudspeaker!queueVars)
  <2> SUFFICES ASSUME PlaybackOK, [DeviceNext]_deviceVars
               PROVE  PlaybackOK'
                      /\ [Loudspeaker!QueueNext]_(Loudspeaker!queueVars)
    OBVIOUS
  <2>1. ASSUME NEW pcm \in Frames, OnDecodedAudio(pcm)
        PROVE  PlaybackOK' /\ Loudspeaker!QueueNext
    BY <2>1, PutFrame DEF Loudspeaker!QueueNext
  <2>2. ASSUME NEW n \in 1 .. MAX_BLOCK, PlaybackCallback(n)
        PROVE  PlaybackOK' /\ Loudspeaker!QueueNext
    BY <2>2, GetBlock DEF Loudspeaker!QueueNext
  <2>3. ASSUME UNCHANGED <<playback_ring, heard>>
        PROVE  PlaybackOK' /\ UNCHANGED Loudspeaker!queueVars
    BY <2>3 DEF PlaybackOK, Loudspeaker!queueVars
  <2>4. ASSUME NEW n \in 1 .. MAX_BLOCK, CaptureCallback(n)
        PROVE  UNCHANGED <<playback_ring, heard>>
    BY <2>4 DEF CaptureCallback
  <2>5. DrainCapture \/ Restart \/ UNCHANGED deviceVars
          => UNCHANGED <<playback_ring, heard>>
    BY DEF DrainCapture, Restart, deviceVars
  <2> QED  BY <2>1, <2>2, <2>3, <2>4, <2>5 DEF DeviceNext
<1>3. DeviceSpec => []PlaybackOK
  <2>1. PlaybackOK /\ [DeviceNext]_deviceVars => PlaybackOK'
    BY <1>2
  <2> QED  BY <1>1, <2>1, PTL DEF DeviceSpec
<1> QED  BY <1>1, <1>2, <1>3, PTL
         DEF DeviceSpec, RingIsQueue, Loudspeaker!QueueSpec

-----------------------------------------------------------------------------
(* The microphone's ring                                                   *)

Succeeds(s, t) == t = (s + 1) % PERIOD
Chain(seq) == \A k \in 1 .. Len(seq) - 1 : Succeeds(seq[k], seq[k + 1])

LEMMA ChainOfConcat ==
  ASSUME NEW S, NEW s \in Seq(S), NEW t \in Seq(S)
  PROVE  Chain(s \o t) <=>
           /\ Chain(s) /\ Chain(t)
           /\ s # <<>> /\ t # <<>> => Succeeds(s[Len(s)], t[1])
<1> DEFINE a == Len(s)
           b == Len(t)
           u == s \o t
<1>1. /\ a \in Nat /\ b \in Nat
      /\ s # <<>> <=> a > 0
      /\ t # <<>> <=> b > 0
  BY LenProperties, EmptySeq
<1>2. /\ Len(u) = a + b
      /\ \A k \in 1 .. a + b : u[k] = IF k <= a THEN s[k] ELSE t[k - a]
  BY ConcatProperties
<1> HIDE DEF a, b, u
<1>3. ASSUME Chain(u)
      PROVE  /\ \A k \in 1 .. a - 1 : Succeeds(s[k], s[k + 1])
             /\ \A k \in 1 .. b - 1 : Succeeds(t[k], t[k + 1])
             /\ a > 0 /\ b > 0 => Succeeds(s[a], t[1])
  <2>1. \A k \in 1 .. a + b - 1 : Succeeds(u[k], u[k + 1])
    BY <1>1, <1>2, <1>3 DEF Chain
  <2>2. ASSUME NEW k \in 1 .. a - 1  PROVE Succeeds(s[k], s[k + 1])
    <3>1. k \in 1 .. a + b - 1 /\ k \in 1 .. a + b /\ k + 1 \in 1 .. a + b
          /\ k <= a /\ k + 1 <= a
      BY <1>1
    <3> QED  BY <1>2, <2>1, <3>1
  <2>3. ASSUME NEW k \in 1 .. b - 1  PROVE Succeeds(t[k], t[k + 1])
    <3>1. /\ a + k \in 1 .. a + b - 1 /\ a + k \in 1 .. a + b
          /\ (a + k) + 1 \in 1 .. a + b
          /\ ~ (a + k <= a) /\ ~ ((a + k) + 1 <= a)
          /\ (a + k) - a = k /\ ((a + k) + 1) - a = k + 1
      BY <1>1
    <3>2. u[a + k] = t[k] /\ u[(a + k) + 1] = t[k + 1]
      BY <1>2, <3>1
    <3> QED  BY <2>1, <3>1, <3>2
  <2>4. ASSUME a > 0, b > 0  PROVE Succeeds(s[a], t[1])
    <3>1. /\ a \in 1 .. a + b - 1 /\ a \in 1 .. a + b /\ a <= a
          /\ a + 1 \in 1 .. a + b /\ ~ (a + 1 <= a) /\ (a + 1) - a = 1
      BY <1>1, <2>4
    <3>2. u[a] = s[a] /\ u[a + 1] = t[1]
      BY <1>2, <3>1
    <3> QED  BY <2>1, <3>1, <3>2
  <2> QED  BY <2>2, <2>3, <2>4
<1>4. ASSUME \A k \in 1 .. a - 1 : Succeeds(s[k], s[k + 1]),
             \A k \in 1 .. b - 1 : Succeeds(t[k], t[k + 1]),
             a > 0 /\ b > 0 => Succeeds(s[a], t[1])
      PROVE  Chain(u)
  <2> SUFFICES ASSUME NEW k \in 1 .. a + b - 1
               PROVE  Succeeds(u[k], u[k + 1])
    BY <1>1, <1>2 DEF Chain
  <2>1. k \in 1 .. a + b /\ k + 1 \in 1 .. a + b
    BY <1>1
  <2>2. CASE k + 1 <= a
    <3>1. k \in 1 .. a - 1 /\ k <= a
      BY <1>1, <2>2
    <3> QED  BY <1>2, <1>4, <2>1, <2>2, <3>1
  <2>3. CASE k = a
    <3>1. /\ a > 0 /\ b > 0 /\ k <= a /\ ~ (k + 1 <= a) /\ (k + 1) - a = 1
      BY <1>1, <2>3
    <3>2. u[k] = s[a] /\ u[k + 1] = t[1]
      BY <1>2, <2>1, <2>3, <3>1
    <3> QED  BY <1>4, <3>1, <3>2
  <2>4. CASE k > a
    <3>1. /\ k - a \in 1 .. b - 1 /\ ~ (k <= a) /\ ~ (k + 1 <= a)
          /\ (k + 1) - a = (k - a) + 1
      BY <1>1, <2>4
    <3>2. u[k] = t[k - a] /\ u[k + 1] = t[(k - a) + 1]
      BY <1>2, <2>1, <3>1
    <3> QED  BY <1>4, <3>1, <3>2
  <2> QED  BY <1>1, <2>2, <2>3, <2>4
<1> QED  BY <1>1, <1>3, <1>4 DEF Chain, a, b, u

Taken == 0 .. PERIOD - 1

\* the sample that was sent last, what waits, and the next one to come
Newest == <<LastSent>>
Line == (Newest \o Held(capture_ring)) \o <<Sample(position)>>

CaptureInv ==
  /\ position \in Taken /\ sent \in Seq(Taken)
  /\ RingOK(capture_ring, Nat)
  /\ Held(capture_ring) \in Seq(Taken)
  /\ ~ draining => capture_ring.count < FRAME_SAMPLES
  /\ Chain(Line)

LEMMA SampleTaken ==
  ASSUME NEW p \in Nat
  PROVE  Sample(p) \in Taken /\ Sample(p) \in Nat
BY RingNumbers DEF Sample, Taken

LEMMA LastIsTaken ==
  ASSUME NEW s \in Seq(Taken)
  PROVE  /\ s # <<>> => Last(s) = s[Len(s)] /\ Last(s) \in Taken
         /\ PERIOD - 1 \in Taken
<1>1. PERIOD - 1 \in Taken
  BY RingNumbers DEF Taken
<1>2. ASSUME s # <<>>  PROVE Last(s) = s[Len(s)] /\ Last(s) \in Taken
  <2>1. Len(s) \in 1 .. Len(s)
    BY <1>2, EmptySeq
  <2> QED  BY <2>1, ElementOfSeq DEF Last
<1> QED  BY <1>1, <1>2

LEMMA Alone ==
  ASSUME NEW S, NEW e \in S
  PROVE  /\ <<e>> \in Seq(S) /\ Len(<<e>>) = 1 /\ <<e>>[1] = e
         /\ <<e>> # <<>> /\ Chain(<<e>>)
<1>1. /\ <<e>> \in Seq(S) /\ Len(<<e>>) = 1 /\ <<e>>[1] = e
      /\ <<e>> # <<>>
  OBVIOUS
<1> QED  BY <1>1 DEF Chain

LEMMA NextNumber ==
  ASSUME NEW n \in Nat \ {0}, NEW x \in Nat, x + 1 < 2 * n
  PROVE  ((x % n) + 1) % n = (x + 1) % n /\ (x % n) % n = x % n
OBVIOUS

LEMMA SampleSucceeds ==
  ASSUME NEW x \in Nat, x + 1 < 2 * PERIOD
  PROVE  Succeeds(Sample(x), Sample(x + 1))
BY RingNumbers, NextNumber DEF Succeeds, Sample

\* a block of the microphone, with the sample that will follow it
LEMMA BlockIsChain ==
  ASSUME NEW p \in Taken, NEW n \in 1 .. MAX_BLOCK
  PROVE  LET pcm == [k \in 1 .. n |-> Sample(p + k - 1)]
             next == Sample((p + n) % PERIOD)
         IN /\ pcm \in Seq(Taken) /\ pcm \in Seq(Nat)
            /\ Len(pcm) = n /\ pcm[1] = Sample(p)
            /\ next \in Taken
            /\ Chain(pcm \o <<next>>)
<1> DEFINE pcm == [k \in 1 .. n |-> Sample(p + k - 1)]
           next == Sample((p + n) % PERIOD)
           u == pcm \o <<next>>
<1>1. /\ n \in Nat /\ n >= 1 /\ p \in Nat /\ PERIOD \in Nat \ {0}
      /\ (p + n) + 1 < 2 * PERIOD
  BY RingNumbers, DeviceAssumption DEF Taken
<1>2. ASSUME NEW k \in 1 .. n
      PROVE  /\ Sample(p + k - 1) \in Taken
             /\ Sample(p + k - 1) \in Nat
  <2>1. p + k - 1 \in Nat
    BY <1>1
  <2> QED  BY <2>1, SampleTaken
<1>3. pcm \in Seq(Taken) /\ pcm \in Seq(Nat) /\ Len(pcm) = n
  <2>1. \A k \in 1 .. n : Sample(p + k - 1) \in Taken
    BY <1>2
  <2>2. \A k \in 1 .. n : Sample(p + k - 1) \in Nat
    BY <1>2
  <2>3. pcm \in Seq(Taken) /\ Len(pcm) = n
    BY <1>1, <2>1
  <2>4. pcm \in Seq(Nat)
    BY <1>1, <2>2
  <2> QED  BY <2>3, <2>4
<1>4. pcm[1] = Sample(p)
  <2>1. 1 \in 1 .. n /\ p + 1 - 1 = p
    BY <1>1
  <2> QED  BY <2>1
<1>5. next = Sample(p + n) /\ next \in Taken
  <2>0. p + n \in Nat
    BY <1>1
  <2>1. ((p + n) % PERIOD) % PERIOD = (p + n) % PERIOD
    BY <1>1, <2>0, NextNumber
  <2>2. next = Sample(p + n)
    BY <2>1 DEF Sample
  <2> HIDE DEF next
  <2> QED  BY <2>0, <2>2, SampleTaken
<1>6. ASSUME NEW k \in 1 .. n  PROVE pcm[k] = Sample(p + k - 1)
  OBVIOUS
<1> HIDE DEF pcm, next
<1>7. /\ Len(u) = n + 1
      /\ \A k \in 1 .. n + 1 : u[k] = IF k <= n THEN pcm[k] ELSE next
  <2>1. /\ <<next>> \in Seq(Taken) /\ Len(<<next>>) = 1
        /\ <<next>>[1] = next
    BY <1>5
  <2>2. /\ Len(u) = n + 1
        /\ \A k \in 1 .. n + 1 :
             u[k] = IF k <= n THEN pcm[k] ELSE <<next>>[k - n]
    BY <1>3, <2>1, ConcatProperties
  <2>3. ASSUME NEW k \in 1 .. n + 1, ~ (k <= n)  PROVE k - n = 1
    BY <1>1, <2>3
  <2> QED  BY <2>1, <2>2, <2>3
<1> HIDE DEF u
<1>8. ASSUME NEW k \in 1 .. n + 1  PROVE u[k] = Sample(p + k - 1)
  <2>1. CASE k <= n
    <3>1. k \in 1 .. n
      BY <1>1, <2>1
    <3> QED  BY <1>6, <1>7, <2>1, <3>1
  <2>2. CASE ~ (k <= n)
    <3>1. p + k - 1 = p + n
      BY <1>1, <2>2
    <3> QED  BY <1>5, <1>7, <2>2, <3>1
  <2> QED  BY <2>1, <2>2
<1>9. Chain(u)
  <2>1. ASSUME NEW k \in 1 .. n  PROVE Succeeds(u[k], u[k + 1])
    <3>1. /\ k \in 1 .. n + 1 /\ k + 1 \in 1 .. n + 1
          /\ p + (k + 1) - 1 = (p + k - 1) + 1
          /\ p + k - 1 \in Nat /\ (p + k - 1) + 1 < 2 * PERIOD
      BY <1>1
    <3>2. Succeeds(Sample(p + k - 1), Sample((p + k - 1) + 1))
      BY <3>1, SampleSucceeds
    <3>3. /\ u[k] = Sample(p + k - 1)
          /\ u[k + 1] = Sample((p + k - 1) + 1)
      BY <1>8, <3>1
    <3> QED  BY <3>2, <3>3
  <2>2. Len(u) - 1 = n
    BY <1>1, <1>7
  <2> QED  BY <2>1, <2>2 DEF Chain
<1> QED  BY <1>3, <1>4, <1>5, <1>9 DEF pcm, next, u

LEMMA LineType ==
  ASSUME CaptureInv
  PROVE  /\ Newest \in Seq(Taken)
         /\ Held(capture_ring) \in Seq(Taken)
         /\ Newest \o Held(capture_ring) \in Seq(Taken)
         /\ Sample(position) \in Taken
         /\ <<Sample(position)>> \in Seq(Taken)
         /\ Len(<<Sample(position)>>) = 1
         /\ <<Sample(position)>>[1] = Sample(position)
         /\ <<Sample(position)>> # <<>>
<1>1. LastSent \in Taken
  BY LastIsTaken DEF LastSent, CaptureInv
<1>2. Newest \in Seq(Taken) /\ Held(capture_ring) \in Seq(Taken)
  BY <1>1, Alone DEF Newest, CaptureInv
<1>3. Newest \o Held(capture_ring) \in Seq(Taken)
  BY <1>2, ConcatProperties
<1>4. Sample(position) \in Taken
  <2>1. position \in Nat
    BY RingNumbers DEF CaptureInv, Taken
  <2> QED  BY <2>1, SampleTaken
<1> QED  BY <1>2, <1>3, <1>4, Alone

LEMMA CaptureJoins ==
  ASSUME CaptureInv, NEW n \in 1 .. MAX_BLOCK, CaptureCallback(n)
  PROVE  CaptureInv'
<1> DEFINE pcm == [k \in 1 .. n |-> Sample(position + k - 1)]
           next == Sample((position + n) % PERIOD)
           known == Newest \o Held(capture_ring)
<1>1. /\ position \in Taken
      /\ RingOK(capture_ring, Nat)
      /\ capture_ring.count < FRAME_SAMPLES
      /\ position' = (position + n) % PERIOD
      /\ capture_ring' = RingWrite(capture_ring, pcm)
      /\ draining' = TRUE /\ sent' = sent
  BY DEF CaptureInv, CaptureCallback
<1>2. /\ pcm \in Seq(Taken) /\ pcm \in Seq(Nat)
      /\ Len(pcm) = n /\ pcm[1] = Sample(position)
      /\ next \in Taken
      /\ Chain(pcm \o <<next>>)
  BY <1>1, BlockIsChain
<1> HIDE DEF pcm, next
<1>3. AtMost(Len(pcm), RING_SAMPLES - capture_ring.count) = n
  <2>1. n <= RING_SAMPLES - capture_ring.count
    <3>1. capture_ring.count \in Nat
      BY <1>1, RingType
    <3> QED  BY <1>1, <3>1, RingNumbers, DeviceAssumption
  <2> QED  BY <1>2, <2>1 DEF AtMost
<1>4. /\ RingOK(capture_ring', Nat)
      /\ Held(capture_ring') = Held(capture_ring) \o pcm
  <2>1. /\ RingOK(capture_ring', Nat)
        /\ Held(capture_ring') = Held(capture_ring) \o SubSeq(pcm, 1, n)
    BY <1>1, <1>2, <1>3, WriteJoinsEnd
  <2>2. SubSeq(pcm, 1, n) = pcm
    BY <1>2, SubSeqFull
  <2> QED  BY <2>1, <2>2
<1>5. Held(capture_ring') \in Seq(Taken)
  BY <1>2, <1>4, LineType, ConcatProperties
<1>6. /\ Newest' = Newest
      /\ Line' = (Newest \o Held(capture_ring')) \o <<next>>
  BY <1>1 DEF Newest, LastSent, Line, next
<1>7. Line' = known \o (pcm \o <<next>>)
  <2>1. /\ Newest \in Seq(Taken)
        /\ Held(capture_ring) \in Seq(Taken)
        /\ known \in Seq(Taken) /\ <<next>> \in Seq(Taken)
    BY <1>2, LineType
  <2> DEFINE held == Held(capture_ring)
  <2> HIDE DEF known, pcm, next, held
  <2>2. Newest \o (held \o pcm) = known \o pcm
    <3>1. Newest \in Seq(Taken) /\ held \in Seq(Taken) /\ pcm \in Seq(Taken)
      BY <1>2, <2>1 DEF held
    <3>2. (Newest \o held) \o pcm = Newest \o (held \o pcm)
      BY <3>1, ConcatAssociative
    <3> QED  BY <3>2 DEF known, held
  <2>3. (known \o pcm) \o <<next>> = known \o (pcm \o <<next>>)
    <3>1. pcm \in Seq(Taken)
      BY <1>2
    <3> QED  BY <2>1, <3>1, ConcatAssociative
  <2> QED  BY <1>4, <1>6, <2>2, <2>3 DEF held
<1>8. /\ Chain(known)
      /\ known # <<>> =>
           Succeeds(known[Len(known)], Sample(position))
  <2>1. Chain(known \o <<Sample(position)>>)
    BY DEF CaptureInv, Line
  <2> HIDE DEF known
  <2>2. known \in Seq(Taken)
    BY LineType DEF known
  <2> QED  BY <2>1, <2>2, LineType, ChainOfConcat
<1>9. Chain(Line')
  <2>1. /\ known \in Seq(Taken)
        /\ pcm \o <<next>> \in Seq(Taken)
        /\ (pcm \o <<next>>)[1] = Sample(position)
    <3>1. <<next>> \in Seq(Taken) /\ Len(<<next>>) = 1
      BY <1>2
    <3>2. 1 \in 1 .. n + 1 /\ 1 <= n
      BY RingNumbers
    <3> QED  BY <1>2, <3>1, <3>2, LineType, ConcatProperties
  <2> HIDE DEF known
  <2>2. Chain(known \o (pcm \o <<next>>))
    BY <1>2, <1>8, <2>1, ChainOfConcat
  <2> QED  BY <1>7, <2>2
<1>10. position' \in Taken
  <2>1. position + n \in Nat
    BY <1>1, RingNumbers DEF Taken
  <2> QED  BY <1>1, <2>1, RingNumbers DEF Taken
<1> QED  BY <1>1, <1>4, <1>5, <1>9, <1>10 DEF CaptureInv

LEMMA DrainSends ==
  ASSUME CaptureInv, draining, ~ (capture_ring.count < FRAME_SAMPLES),
         sent' = RingFront(capture_ring, FRAME_SAMPLES),
         capture_ring' = AfterRead(capture_ring, FRAME_SAMPLES),
         UNCHANGED <<draining, position>>
  PROVE  CaptureInv' /\ Chain(Newest \o sent')
<1> DEFINE held == Held(capture_ring)
           rest == Held(capture_ring')
           cur == <<Sample(position)>>
           S == Taken
<1>1. /\ FRAME_SAMPLES \in Nat \ {0} /\ capture_ring.count \in Nat
      /\ FRAME_SAMPLES <= capture_ring.count
      /\ AtMost(FRAME_SAMPLES, capture_ring.count) = FRAME_SAMPLES
  <2>1. FRAME_SAMPLES \in Nat \ {0} /\ capture_ring.count \in Nat
    BY RingNumbers, RingType DEF CaptureInv
  <2> QED  BY <2>1 DEF AtMost
<1>2. /\ RingOK(capture_ring', Nat)
      /\ rest = SubSeq(held, FRAME_SAMPLES + 1, capture_ring.count)
  BY <1>1, ReadTakesFront DEF CaptureInv
<1>3. sent' = SubSeq(held, 1, FRAME_SAMPLES)
  BY <1>1, FrontIsPrefix DEF CaptureInv
<1>4. /\ held \in Seq(S) /\ Len(held) = capture_ring.count
      /\ Newest \in Seq(S) /\ cur \in Seq(S)
  BY LineType, HeldIs DEF CaptureInv
<1>5. Chain((Newest \o held) \o cur)
  BY DEF CaptureInv, Line
<1>6. position' = position /\ draining' /\ position \in Taken
  BY DEF CaptureInv
<1>7. /\ Newest' = <<IF sent' = <<>> THEN PERIOD - 1 ELSE Last(sent')>>
      /\ Line' = (Newest' \o rest) \o cur
  BY <1>6 DEF Newest, LastSent, Line
<1> HIDE DEF held, rest, cur, S
<1>8. /\ sent' \in Seq(S) /\ Len(sent') = FRAME_SAMPLES
      /\ sent' # <<>> /\ rest \in Seq(S) /\ held = sent' \o rest
  <2>1. \A i \in 1 .. capture_ring.count : held[i] \in S
    BY <1>4, ElementOfSeq
  <2>2. sent' \in Seq(S) /\ Len(sent') = FRAME_SAMPLES
    <3>1. /\ \A i \in 1 .. FRAME_SAMPLES : held[i] \in S
          /\ 1 \in Int /\ FRAME_SAMPLES \in Int
          /\ (IF 1 <= FRAME_SAMPLES THEN FRAME_SAMPLES - 1 + 1 ELSE 0)
               = FRAME_SAMPLES
      BY <1>1, <2>1
    <3> QED  BY <1>3, <3>1, SubSeqProperties
  <2>3. rest \in Seq(S)
    <3>1. /\ \A i \in FRAME_SAMPLES + 1 .. capture_ring.count : held[i] \in S
          /\ FRAME_SAMPLES + 1 \in Int /\ capture_ring.count \in Int
      BY <1>1, <2>1
    <3> QED  BY <1>2, <3>1, SubSeqProperties
  <2>4. held = sent' \o rest
    <3>1. /\ 1 \in 1 .. Len(held) + 1 /\ FRAME_SAMPLES \in 1 - 1 .. Len(held)
          /\ capture_ring.count \in FRAME_SAMPLES .. Len(held)
      BY <1>1, <1>4
    <3>2. SubSeq(held, 1, FRAME_SAMPLES)
            \o SubSeq(held, FRAME_SAMPLES + 1, capture_ring.count)
            = SubSeq(held, 1, capture_ring.count)
      BY <1>4, <3>1, ConcatAdjacentSubSeq
    <3>3. SubSeq(held, 1, capture_ring.count) = held
      BY <1>4, SubSeqFull
    <3> QED  BY <1>2, <1>3, <3>2, <3>3
  <2>5. sent' # <<>>
    BY <1>1, <2>2
  <2> QED  BY <2>2, <2>3, <2>4, <2>5
<1>9. (Newest \o held) \o cur = (Newest \o sent') \o (rest \o cur)
  <2>0. Newest \in Seq(S) /\ sent' \in Seq(S) /\ rest \in Seq(S)
        /\ cur \in Seq(S)
    BY <1>4, <1>8
  <2>1. (Newest \o sent') \o rest = Newest \o (sent' \o rest)
    BY <2>0, ConcatAssociative
  <2>2. Newest \o sent' \in Seq(S)
    BY <2>0, ConcatProperties
  <2>3. Newest \o held = (Newest \o sent') \o rest
    BY <1>8, <2>1
  <2> DEFINE front == Newest \o sent'
  <2> HIDE DEF held, rest, cur, front
  <2>4. (front \o rest) \o cur = front \o (rest \o cur)
    <3>1. front \in Seq(S) /\ rest \in Seq(S) /\ cur \in Seq(S)
      BY <2>0, <2>2 DEF front
    <3> QED  BY <3>1, ConcatAssociative
  <2> QED  BY <2>3, <2>4 DEF front
<1>10. /\ Newest \o sent' \in Seq(S) /\ Newest \o sent' # <<>>
       /\ (Newest \o sent')[Len(Newest \o sent')] = Last(sent')
  <2>1. Len(Newest) \in Nat /\ Last(sent') = sent'[FRAME_SAMPLES]
    BY <1>4, <1>8, LenProperties DEF Last
  <2>2. /\ Newest \o sent' \in Seq(S)
        /\ Len(Newest \o sent') = Len(Newest) + Len(sent')
        /\ \A i \in 1 .. Len(Newest) + Len(sent') :
             (Newest \o sent')[i] = IF i <= Len(Newest) THEN Newest[i]
                                    ELSE sent'[i - Len(Newest)]
    BY <1>4, <1>8, ConcatProperties
  <2>3. /\ Len(Newest) + FRAME_SAMPLES \in 1 .. Len(Newest) + FRAME_SAMPLES
        /\ ~ (Len(Newest) + FRAME_SAMPLES <= Len(Newest))
        /\ (Len(Newest) + FRAME_SAMPLES) - Len(Newest) = FRAME_SAMPLES
    BY <1>1, <2>1
  <2>4. Newest \o sent' # <<>>
    BY <1>4, <1>8, ConcatEqualIffEmpty
  <2> QED  BY <1>8, <2>1, <2>2, <2>3, <2>4
<1>11. /\ Chain(Newest \o sent') /\ Chain(rest \o cur)
       /\ rest \o cur # <<>> => Succeeds(Last(sent'), (rest \o cur)[1])
  <2>1. rest \o cur \in Seq(S)
    BY <1>4, <1>8, ConcatProperties
  <2>2. Chain((Newest \o sent') \o (rest \o cur))
    BY <1>5, <1>9
  <2> QED  BY <1>10, <2>1, <2>2, ChainOfConcat
<1>12. Chain(Line')
  <2>1. rest \o cur \in Seq(S)
    BY <1>4, <1>8, ConcatProperties
  <2>2. /\ <<Last(sent')>> \in Seq(S) /\ Len(<<Last(sent')>>) = 1
        /\ <<Last(sent')>>[1] = Last(sent') /\ Chain(<<Last(sent')>>)
    BY <1>8, LastIsTaken, Alone DEF S
  <2>3. Chain(<<Last(sent')>> \o (rest \o cur))
    BY <1>11, <2>1, <2>2, ChainOfConcat
  <2>4. (<<Last(sent')>> \o rest) \o cur = <<Last(sent')>> \o (rest \o cur)
    BY <1>4, <1>8, <2>2, ConcatAssociative
  <2> QED  BY <1>7, <1>8, <2>3, <2>4
<1>13. CaptureInv'
  BY <1>2, <1>6, <1>8, <1>12 DEF CaptureInv, rest, S
<1> QED  BY <1>11, <1>13

LEMMA CaptureStep ==
  ASSUME CaptureInv, [DeviceNext]_deviceVars
  PROVE  /\ CaptureInv'
         /\ calls' # calls => Chain(Newest \o sent')
<1>1. ASSUME NEW n \in 1 .. MAX_BLOCK, CaptureCallback(n)
      PROVE  CaptureInv' /\ calls' = calls
  BY <1>1, CaptureJoins DEF CaptureCallback
<1>2. ASSUME DrainCapture
      PROVE  CaptureInv' /\ (calls' # calls => Chain(Newest \o sent'))
  <2>1. CASE capture_ring.count < FRAME_SAMPLES
    <3>1. /\ draining' = FALSE
          /\ UNCHANGED <<capture_ring, sent, calls, position>>
      BY <1>2, <2>1 DEF DrainCapture
    <3>2. Line' = Line /\ Held(capture_ring)' = Held(capture_ring)
      BY <3>1 DEF Line, Newest, LastSent
    <3> QED  BY <2>1, <3>1, <3>2 DEF CaptureInv
  <2>2. CASE ~ (capture_ring.count < FRAME_SAMPLES)
    <3>1. /\ draining
          /\ sent' = RingFront(capture_ring, FRAME_SAMPLES)
          /\ capture_ring' = AfterRead(capture_ring, FRAME_SAMPLES)
          /\ UNCHANGED <<draining, position>>
      BY <1>2, <2>2 DEF DrainCapture, SendFrame
    <3> QED  BY <2>2, <3>1, DrainSends
  <2> QED  BY <2>1, <2>2
<1>3. ASSUME UNCHANGED <<capture_ring, draining, position, sent, calls>>
      PROVE  CaptureInv' /\ calls' = calls
  <2>1. Line' = Line /\ Held(capture_ring)' = Held(capture_ring)
    BY <1>3 DEF Line, Newest, LastSent
  <2> QED  BY <1>3, <2>1 DEF CaptureInv
<1>4. ASSUME NEW n \in 1 .. MAX_BLOCK, PlaybackCallback(n)
      PROVE  UNCHANGED <<capture_ring, draining, position, sent, calls>>
  BY <1>4 DEF PlaybackCallback
<1>5. ASSUME NEW pcm \in Frames, OnDecodedAudio(pcm)
      PROVE  UNCHANGED <<capture_ring, draining, position, sent, calls>>
  BY <1>5 DEF OnDecodedAudio
<1>6. CASE Restart
  BY <1>3, <1>6 DEF Restart
<1>7. CASE UNCHANGED deviceVars
  BY <1>3, <1>7 DEF deviceVars
<1> QED  BY <1>1, <1>2, <1>3, <1>4, <1>5, <1>6, <1>7 DEF DeviceNext

LEMMA CaptureStarts == DeviceInit => CaptureInv
<1> SUFFICES ASSUME DeviceInit  PROVE CaptureInv
  OBVIOUS
<1>1. RingOK(capture_ring, Nat) /\ Held(capture_ring) = <<>>
  BY RingIsEmpty DEF DeviceInit, SILENCE
<1>2. capture_ring.count < FRAME_SAMPLES
  BY RingNumbers DEF DeviceInit, EmptyRing
<1>3. position \in Taken /\ sent = <<>> /\ position = 0
  BY RingNumbers DEF DeviceInit, Taken
<1>4. PERIOD - 1 \in Taken /\ Sample(0) \in Taken /\ Sample(position) = Sample(0)
  BY RingNumbers, SampleTaken, <1>3 DEF Taken
<1>5. Len(Line) = 2 /\ Line[1] = PERIOD - 1 /\ Line[2] = Sample(0)
  <2> DEFINE a == <<PERIOD - 1>>
             b == <<Sample(0)>>
  <2>1. /\ a \in Seq(Taken) /\ Len(a) = 1 /\ a[1] = PERIOD - 1
        /\ b \in Seq(Taken) /\ Len(b) = 1 /\ b[1] = Sample(0)
    BY <1>4, Alone
  <2>2. Line = (a \o <<>>) \o b
    BY <1>1, <1>3, <1>4 DEF Line, Newest, LastSent
  <2> HIDE DEF a, b
  <2>3. a \o <<>> = a
    BY <2>1, ConcatEmptySeq
  <2>4. /\ Len(a \o b) = Len(a) + Len(b)
        /\ \A i \in 1 .. Len(a) + Len(b) :
             (a \o b)[i] = IF i <= Len(a) THEN a[i] ELSE b[i - Len(a)]
    <3>1. a \in Seq(Taken) /\ b \in Seq(Taken)
      BY <2>1
    <3> QED  BY <3>1, ConcatProperties
  <2>5. /\ Len(a \o b) = 2
        /\ (a \o b)[1] = a[1] /\ (a \o b)[2] = b[1]
    BY <2>1, <2>4
  <2> QED  BY <2>1, <2>2, <2>3, <2>5
<1>6. Chain(Line)
  <2>1. Sample(0) = ((PERIOD - 1) + 1) % PERIOD
    BY RingNumbers DEF Sample
  <2> QED  BY <1>5, <2>1 DEF Chain, Succeeds
<1> QED  BY <1>1, <1>2, <1>3, <1>6 DEF CaptureInv

(* Every captured sample is sent once and in order, from the first on, for *)
(* rings, frames and blocks of every size that leave room for the rest of  *)
(* a frame, and over any number of stops and starts.                       *)
THEOREM MicrophoneIsContinuous == DeviceSpec => CaptureContinuous
<1>1. CaptureInv /\ [DeviceNext]_deviceVars => CaptureInv'
  BY CaptureStep
<1>2. CaptureInv /\ [DeviceNext]_deviceVars =>
        [calls' # calls =>
           LET stream == <<LastSent>> \o sent'
           IN \A k \in 1 .. Len(stream) - 1 :
                stream[k + 1] = (stream[k] + 1) % PERIOD]_deviceVars
  BY CaptureStep DEF Chain, Succeeds, Newest
<1> QED  BY <1>1, <1>2, CaptureStarts, PTL DEF DeviceSpec, CaptureContinuous
=============================================================================
