---------------------------- MODULE AndroidBridge ---------------------------
(***************************************************************************)
(* The Android bridge (src/platform/android): start, stop, destroy and     *)
(* change of camera, with every step of them failing that can, against the *)
(* threads that run meanwhile: the microphone's callback, the playout      *)
(* thread, the camera's callback and the engine's receive worker, which    *)
(* creates the video decoder and feeds it while the application's thread   *)
(* may be deleting it.                                                     *)
(*                                                                         *)
(* Every access to a field that two threads share is a step.  The engine   *)
(* is what MediaEngine shows it to be: mezia_start starts the worker or    *)
(* fails, mezia_stop returns when the worker is gone.  Of the system it is *)
(* assumed that closing a stream or an image reader waits for its callback *)
(* to return, and that an object is not given the address of a deleted one.*)
(***************************************************************************)
EXTENDS Naturals, FiniteSets

CONSTANTS
  Codecs,   \* video decoders the system may hand out, each once
  Null

ASSUME BridgeAssumption == Null \notin Codecs

Devices == {"camera_manager", "camera_device", "image_reader",
            "capture_session"}

VARIABLES
  enable_audio, enable_video,
  running,          \* platform->running
  ctl,              \* where the application's thread is; "idle", "gone"
  purpose,          \* of its call: "start", "stop", "destroy", "camera"
  media,            \* the engine runs
  streams,          \* both audio streams: "none", "open", "started"
  capture,          \* the microphone's callback: "idle", "sending"
  playout_running,
  playout,          \* the playout thread: "none", "check", "playing",
                    \* "exited"
  camera,           \* the fields of Devices that are not null
  lost,             \* history: devices no field points to any more
  half_open,        \* history: a start failed with the camera half open
  image,            \* the camera's callback: "idle", "pushing"
  encoder,          \* platform->encoder is an encoder
  params,           \* an SPS and a PPS have been received
  decoder,          \* platform->decoder
  live,             \* decoders created and not deleted
  given,            \* decoders ever created
  worker,           \* the receive worker: "none", or where it is in feed_nal
  codec             \* its local variable of that name

config == <<enable_audio, enable_video>>
appVars == <<running, ctl, purpose, media>>
audioVars == <<streams, capture, playout_running, playout>>
cameraVars == <<camera, lost, half_open, image>>
decoderVars == <<params, decoder, live, given, worker, codec>>
bridgeVars == <<config, appVars, audioVars, cameraVars, encoder, decoderVars>>

BridgeInit ==
  /\ enable_audio \in BOOLEAN /\ enable_video \in BOOLEAN
  /\ enable_audio \/ enable_video
  /\ running = FALSE /\ ctl = "idle" /\ purpose = "stop" /\ media = FALSE
  /\ streams = "none" /\ capture = "idle"
  /\ playout_running = FALSE /\ playout = "none"
  /\ camera = {} /\ lost = {} /\ half_open = FALSE /\ image = "idle"
  /\ encoder = FALSE
  /\ params = FALSE /\ decoder = Null /\ live = {} /\ given = {}
  /\ worker = "none" /\ codec = Null

Goes(from, to) == ctl = from /\ ctl' = to

-----------------------------------------------------------------------------
(* mezia_platform_start: the engine, audio, the encoder, the camera.  What *)
(* a failure undoes is the tail of what stop does.                         *)

\* a bridge that runs returns at once
Start ==
  /\ Goes("idle", "media_start") /\ ~ running
  /\ purpose' = "start"
  /\ UNCHANGED <<config, running, media, audioVars, cameraVars, encoder,
                 decoderVars>>

StartMedia ==
  /\ \/ /\ Goes("media_start", IF enable_audio THEN "open" ELSE "encoder")
        /\ media' = TRUE
        /\ worker' = "idle"
     \/ Goes("media_start", "idle") /\ UNCHANGED <<media, worker>>
  /\ UNCHANGED <<config, running, purpose, audioVars, cameraVars, encoder,
                 params, decoder, live, given, codec>>

\* if one stream does not open the other is closed
OpenStreams ==
  /\ \/ Goes("open", "request") /\ streams' = "open"
     \/ Goes("open", "media_stop") /\ UNCHANGED streams
  /\ UNCHANGED <<config, running, purpose, media, capture, playout_running,
                 playout, cameraVars, encoder, decoderVars>>

\* the first stream's callback may run before the second is started
RequestStart_LeavesStreams ==
  /\ \/ Goes("request", "create") \/ Goes("request", "media_stop")
  /\ streams' = "started"
  /\ UNCHANGED <<config, running, purpose, media, capture, playout_running,
                 playout, cameraVars, encoder, decoderVars>>
RequestStart ==
  /\ \/ Goes("request", "create") \/ Goes("request", "audio_stop")
  /\ streams' = "started"
  /\ UNCHANGED <<config, running, purpose, media, capture, playout_running,
                 playout, cameraVars, encoder, decoderVars>>

CreatePlayout ==
  /\ \/ /\ Goes("create", "encoder")
        /\ playout_running' = TRUE
        /\ playout' = "check"
     \/ Goes("create", "audio_stop") /\ UNCHANGED <<playout_running, playout>>
  /\ UNCHANGED <<config, running, purpose, media, streams, capture,
                 cameraVars, encoder, decoderVars>>

\* mezia_android_decoder_start does nothing: the worker creates the decoder
StartEncoder ==
  /\ \/ /\ enable_video
        /\ \/ Goes("encoder", "camera_start") /\ encoder' = TRUE
           \/ Goes("encoder", "decoder_stop") /\ UNCHANGED encoder
     \/ ~ enable_video /\ Goes("encoder", "run") /\ UNCHANGED encoder
  /\ UNCHANGED <<config, running, purpose, media, audioVars, cameraVars,
                 decoderVars>>

\* mezia_android_camera_start gets the devices one after the other and, when
\* one fails, returns with those it has; what a field held before is lost.
OpenedSoFar ==
  {{}, {"camera_manager"}, {"camera_manager", "camera_device"},
   Devices \ {"capture_session"}}

StartCamera ==
  /\ ctl = "camera_start"
  /\ \/ /\ camera' = Devices
        /\ lost' = lost \cup camera
        /\ ctl' = IF purpose = "start" THEN "run" ELSE "idle"
        /\ UNCHANGED half_open
     \/ \E got \in OpenedSoFar :
          /\ camera' = camera \cup got
          /\ lost' = lost \cup (camera \cap got)
          /\ ctl' = IF purpose = "start" THEN "encoder_stop" ELSE "idle"
          /\ half_open' = (half_open \/ purpose = "start")
  /\ UNCHANGED <<config, running, purpose, media, audioVars, image, encoder,
                 decoderVars>>

Run ==
  /\ Goes("run", "idle")
  /\ running' = TRUE
  /\ UNCHANGED <<config, purpose, media, audioVars, cameraVars, encoder,
                 decoderVars>>

-----------------------------------------------------------------------------
(* mezia_platform_stop, which a bridge that does not run performs too, and *)
(* mezia_platform_destroy; mezia_platform_set_camera of a bridge that runs *)

Stop_LeavesCamera(why) ==
  /\ Goes("idle", "encoder_stop")
  /\ purpose' = why
  /\ running' = FALSE
  /\ UNCHANGED <<config, media, audioVars, cameraVars, encoder, decoderVars>>
Stop(why) ==
  /\ Goes("idle", "camera_stop")
  /\ purpose' = why
  /\ running' = FALSE
  /\ UNCHANGED <<config, media, audioVars, cameraVars, encoder, decoderVars>>

ChangeCamera_KeepsOld ==
  /\ Goes("idle", "camera_start") /\ running
  /\ purpose' = "camera"
  /\ UNCHANGED <<config, running, media, audioVars, cameraVars, encoder,
                 decoderVars>>
ChangeCamera ==
  /\ Goes("idle", "camera_stop") /\ running
  /\ purpose' = "camera"
  /\ UNCHANGED <<config, running, media, audioVars, cameraVars, encoder,
                 decoderVars>>

StopCamera_ForgetsReader ==
  /\ Goes("camera_stop",
          IF purpose = "camera" THEN "camera_start" ELSE "encoder_stop")
  /\ image = "idle"
  /\ camera' = camera \cap {"image_reader"}
  /\ half_open' = FALSE
  /\ UNCHANGED <<config, running, purpose, media, audioVars, lost, image,
                 encoder, decoderVars>>
StopCamera ==
  /\ Goes("camera_stop",
          IF purpose = "camera" THEN "camera_start" ELSE "encoder_stop")
  /\ image = "idle"
  /\ camera' = {}
  /\ half_open' = FALSE
  /\ UNCHANGED <<config, running, purpose, media, audioVars, lost, image,
                 encoder, decoderVars>>

StopEncoder ==
  /\ Goes("encoder_stop", "decoder_stop")
  /\ encoder' = FALSE
  /\ UNCHANGED <<config, running, purpose, media, audioVars, cameraVars,
                 decoderVars>>

StopDecoder ==
  /\ Goes("decoder_stop", IF decoder = Null THEN "audio_stop"
                                            ELSE "decoder_delete")
  /\ UNCHANGED <<config, running, purpose, media, audioVars, cameraVars,
                 encoder, decoderVars>>

DeleteDecoder ==
  /\ Goes("decoder_delete", "decoder_clear")
  /\ live' = live \ {decoder}
  /\ UNCHANGED <<config, running, purpose, media, audioVars, cameraVars,
                 encoder, params, decoder, given, worker, codec>>

ClearDecoder_Dangles ==
  /\ Goes("decoder_clear", "audio_stop")
  /\ UNCHANGED <<config, running, purpose, media, audioVars, cameraVars,
                 encoder, decoderVars>>
ClearDecoder ==
  /\ Goes("decoder_clear", "audio_stop")
  /\ decoder' = Null
  /\ UNCHANGED <<config, running, purpose, media, audioVars, cameraVars,
                 encoder, params, live, given, worker, codec>>

StopPlayout ==
  /\ Goes("audio_stop", IF playout_running THEN "join_playout" ELSE "close")
  /\ playout_running' = FALSE
  /\ UNCHANGED <<config, running, purpose, media, streams, capture, playout,
                 cameraVars, encoder, decoderVars>>

JoinPlayout ==
  /\ Goes("join_playout", "close") /\ playout = "exited"
  /\ playout' = "none"
  /\ UNCHANGED <<config, running, purpose, media, streams, capture,
                 playout_running, cameraVars, encoder, decoderVars>>

CloseStreams ==
  /\ Goes("close", "media_stop") /\ capture = "idle"
  /\ streams' = "none"
  /\ UNCHANGED <<config, running, purpose, media, capture, playout_running,
                 playout, cameraVars, encoder, decoderVars>>

StopMedia ==
  /\ Goes("media_stop", IF media THEN "join_worker" ELSE "return")
  /\ media' = FALSE
  /\ UNCHANGED <<config, running, purpose, audioVars, cameraVars, encoder,
                 decoderVars>>

JoinWorker ==
  /\ Goes("join_worker", "return") /\ worker = "idle"
  /\ worker' = "none"
  /\ UNCHANGED <<config, running, purpose, media, audioVars, cameraVars,
                 encoder, params, decoder, live, given, codec>>

Return ==
  /\ Goes("return", IF purpose = "destroy" THEN "gone" ELSE "idle")
  /\ UNCHANGED <<config, running, purpose, media, audioVars, cameraVars,
                 encoder, decoderVars>>

-----------------------------------------------------------------------------
(* capture_cb with drain_capture, playout_loop, on_image                   *)

Capture ==
  /\ \/ streams = "started" /\ capture = "idle" /\ capture' = "sending"
     \/ capture = "sending" /\ capture' = "idle"
  /\ UNCHANGED <<config, appVars, streams, playout_running, playout,
                 cameraVars, encoder, decoderVars>>

Playout ==
  /\ \/ /\ playout = "check" /\ playout_running
        /\ running /\ playout' = "playing"
     \/ playout = "check" /\ ~ playout_running /\ playout' = "exited"
     \/ playout = "playing" /\ playout' = "check"
  /\ UNCHANGED <<config, appVars, streams, capture, playout_running,
                 cameraVars, encoder, decoderVars>>

\* push_image goes on only if it finds an encoder
Image ==
  /\ \/ /\ "capture_session" \in camera /\ image = "idle" /\ encoder
        /\ image' = "pushing"
     \/ image = "pushing" /\ image' = "idle"
  /\ UNCHANGED <<config, appVars, audioVars, camera, lost, half_open,
                 encoder, decoderVars>>

-----------------------------------------------------------------------------
(* mezia_android_decoder_on_nal, called by the receive worker              *)

WorkerGoes(from, to) == worker = from /\ worker' = to

ReceiveParams ==
  /\ WorkerGoes("idle", "idle")
  /\ params' = TRUE
  /\ UNCHANGED <<config, appVars, audioVars, cameraVars, encoder, decoder,
                 live, given, codec>>

ReceiveSlice ==
  /\ WorkerGoes("idle", "configure") /\ enable_video
  /\ UNCHANGED <<config, appVars, audioVars, cameraVars, encoder, params,
                 decoder, live, given, codec>>

\* without parameters, or when the system has no decoder, the NAL is dropped
Configure ==
  /\ \/ /\ WorkerGoes("configure", IF decoder = Null THEN "idle" ELSE "read")
        /\ UNCHANGED <<decoder, live, given>>
     \/ /\ decoder = Null /\ params /\ WorkerGoes("configure", "setup")
        /\ \E c \in Codecs \ given :
             /\ decoder' = c
             /\ live' = live \cup {c}
             /\ given' = given \cup {c}
  /\ UNCHANGED <<config, appVars, audioVars, cameraVars, encoder, params,
                 codec>>

\* AMediaCodec_configure and _start
SetUp ==
  /\ \/ WorkerGoes("setup", "read") /\ UNCHANGED <<decoder, live>>
     \/ /\ WorkerGoes("setup", "idle")
        /\ live' = live \ {decoder}
        /\ decoder' = Null
  /\ UNCHANGED <<config, appVars, audioVars, cameraVars, encoder, params,
                 given, codec>>

\* feed_nal and drain_decoder each read the field once and use what they read
ReadDecoder ==
  /\ \/ WorkerGoes("read", "use") /\ codec' = decoder
     \/ WorkerGoes("use", "drain") /\ codec' = Null
     \/ WorkerGoes("use", "idle") /\ codec' = Null
     \/ /\ WorkerGoes("drain", IF decoder = Null THEN "idle" ELSE "output")
        /\ codec' = decoder
     \/ WorkerGoes("output", "idle") /\ codec' = Null
  /\ UNCHANGED <<config, appVars, audioVars, cameraVars, encoder, params,
                 decoder, live, given>>

-----------------------------------------------------------------------------
Application ==
  \/ Start \/ StartMedia \/ OpenStreams \/ RequestStart \/ CreatePlayout
  \/ StartEncoder \/ StartCamera \/ Run
  \/ Stop("stop") \/ Stop("destroy") \/ ChangeCamera
  \/ StopCamera \/ StopEncoder
  \/ StopDecoder \/ DeleteDecoder \/ ClearDecoder
  \/ StopPlayout \/ JoinPlayout \/ CloseStreams
  \/ StopMedia \/ JoinWorker \/ Return

Worker == \/ ReceiveParams \/ ReceiveSlice \/ Configure \/ SetUp
          \/ ReadDecoder

BridgeNext == Application \/ Worker \/ Capture \/ Playout \/ Image

BridgeSpec == BridgeInit /\ [][BridgeNext]_bridgeVars

-----------------------------------------------------------------------------
(* Properties                                                              *)

(* No thread of the bridge is inside a call that sends or plays unless the *)
(* engine runs: all of them are quiet before mezia_stop is called, also by *)
(* a start that fails, which is what UdpPeer's Quiesced asks of them.      *)
QuietBeforeStop ==
  capture = "sending" \/ playout = "playing" \/ image = "pushing" => media

(* The camera's callback never uses an encoder that was deleted, whichever *)
(* call or failure deletes it.                                             *)
EncoderInUse == image = "pushing" => encoder

(* A bridge that runs has its engine, its streams with a live playout      *)
(* thread, and its encoder.  One that does not, between calls, has none of *)
(* these, and no device of the camera unless its start failed halfway:     *)
(* then the devices got so far stay open until stop.                       *)
StartedOrReleased ==
  ctl \in {"idle", "gone"} =>
    IF running
    THEN /\ media
         /\ enable_audio => streams = "started" /\ playout # "none"
         /\ enable_video => encoder
    ELSE /\ ~ media /\ worker = "none"
         /\ streams = "none" /\ playout = "none" /\ ~ encoder
         /\ camera # {} => half_open /\ ctl = "idle"

(* A device of the camera that is still open is lost only by starting      *)
(* again after a start that failed halfway, without a stop between.        *)
LostOnlyByRetry == [][lost' # lost => half_open]_bridgeVars

\* from the decoder's deletion to the end of the receive worker
DecoderInDoubt ==
  ctl \in {"decoder_delete", "decoder_clear", "audio_stop", "join_playout",
           "close", "media_stop", "join_worker"}

(* Outside the calls that tear it down the field names no deleted decoder, *)
(* and the one the worker uses is alive and is the field's, for any number *)
(* of restarts and however the worker and a stop met before.  (During such *)
(* a call the worker may use the decoder that is being deleted.)           *)
DecoderSound ==
  ~ DecoderInDoubt =>
    /\ decoder \in live \cup {Null}
    /\ worker \in {"setup", "read"} => decoder # Null
    /\ worker \in {"use", "output"} => codec = decoder /\ codec \in live
=============================================================================
