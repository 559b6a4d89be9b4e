----------------------------- MODULE MediaEngine ----------------------------
(***************************************************************************)
(* The life cycle of mezia_ctx_t (src/src/media/media.c) over the peer it  *)
(* owns.  The engine keeps a running flag of its own, a plain int beside   *)
(* the peer's atomic one.  mezia_stop clears it before it asks the peer,   *)
(* and the peer refuses a caller that is its receive worker: from then on  *)
(* the two flags disagree.                                                 *)
(*                                                                         *)
(* Every step of the peer is a step of UdpPeer.  One application thread    *)
(* starts, stops and destroys; a callback of the worker may stop.          *)
(***************************************************************************)
EXTENDS UdpPeer

VARIABLES
  media_running,  \* ctx->running
  call,           \* the call of the application thread: "none", "start",
                  \* "starting", "stop", "stopping", "destroy", "destroying"
  checked,        \* senders that have read ctx->running and not yet asked
                  \* the peer
  refused         \* history: a callback's stop was refused since the start

engineVars == <<peerVars, media_running, call, checked, refused>>

EngineInit ==
  /\ PeerInit
  /\ media_running = FALSE
  /\ call = "none"
  /\ checked = {}
  /\ refused = FALSE

-----------------------------------------------------------------------------
(* mezia_start                                                             *)

\* An engine that runs, by its own flag, returns at once.
MediaStart ==
  /\ allocated /\ call = "none" /\ ~ media_running
  /\ call' = "start"
  /\ UNCHANGED <<peerVars, media_running, checked, refused>>

\* mezon_peer_start opens what is closed; a peer that runs returns at once
AskPeerToStart ==
  /\ call = "start"
  /\ \/ StartCall
     \/ running /\ UNCHANGED peerVars
  /\ call' = "starting"
  /\ UNCHANGED <<media_running, checked, refused>>

MediaStarted_Always ==
  /\ call = "starting" /\ ctl = "idle"
  /\ media_running' = TRUE
  /\ refused' = FALSE
  /\ call' = "none"
  /\ UNCHANGED <<peerVars, checked>>
MediaStarted ==
  /\ call = "starting" /\ ctl = "idle"
  /\ media_running' = running        \* the peer returned MEZON_OK
  /\ refused' = (refused /\ ~ running)
  /\ call' = "none"
  /\ UNCHANGED <<peerVars, checked>>

-----------------------------------------------------------------------------
(* mezia_stop and mezia_destroy, called by the application                 *)

EngineQuiet == Quiet /\ checked \cap Quiesced = {}

MediaStop ==
  /\ allocated /\ call = "none" /\ media_running
  /\ EngineQuiet
  /\ media_running' = FALSE
  /\ call' = "stop"
  /\ UNCHANGED <<peerVars, checked, refused>>

MediaDestroy ==
  /\ allocated /\ call = "none"
  /\ EngineQuiet
  /\ media_running' = FALSE
  /\ call' = "destroy"
  /\ UNCHANGED <<peerVars, checked, refused>>

AskPeerToStop ==
  /\ call = "stop"
  /\ StopCall(FALSE) \/ (~ running /\ UNCHANGED peerVars)
  /\ call' = "stopping"
  /\ UNCHANGED <<media_running, checked, refused>>

\* mezon_peer_destroy stops the peer by the peer's own flag: an engine whose
\* callback was refused is not left behind.
DestroyPeer_ByEngineFlag ==
  /\ call = "destroy"
  /\ \/ ~ refused /\ (StopCall(TRUE) \/ Destroy)
     \/ /\ refused /\ allocated' = FALSE
        /\ UNCHANGED <<running, socket_fd, owner, ctlVars, worker, senderVars>>
  /\ call' = "destroying"
  /\ UNCHANGED <<media_running, checked, refused>>
DestroyPeer ==
  /\ call = "destroy"
  /\ StopCall(TRUE) \/ Destroy
  /\ call' = "destroying"
  /\ UNCHANGED <<media_running, checked, refused>>

Return ==
  /\ call \in {"stopping", "destroying"} /\ ctl = "idle"
  /\ call' = "none"
  /\ refused' = FALSE
  /\ UNCHANGED <<peerVars, media_running, checked>>

-----------------------------------------------------------------------------
(* mezia_stop, called from a callback of the worker                        *)

StopFromCallback ==
  /\ media_running
  /\ SelfStop
  /\ media_running' = FALSE
  /\ refused' = TRUE
  /\ UNCHANGED <<call, checked>>

-----------------------------------------------------------------------------
(* mezia_send_audio, mezia_send_h264                                       *)

CheckEngine(s) ==
  /\ allocated /\ media_running
  /\ sender[s] = "idle" /\ s \notin checked
  /\ s \in Quiesced => call = "none"
  /\ checked' = checked \cup {s}
  /\ UNCHANGED <<peerVars, media_running, call, refused>>

\* mezon_peer_send checks the peer's flag
CheckPeer(s) ==
  /\ s \in checked /\ allocated
  /\ SendCall(s) \/ (~ running /\ UNCHANGED peerVars)
  /\ checked' = checked \ {s}
  /\ UNCHANGED <<media_running, call, refused>>

-----------------------------------------------------------------------------
PeerStep ==
  /\ \/ OpenSocket \/ Bind \/ CreateThread
     \/ Stopping \/ Worker \/ Elsewhere
     \/ \E s \in Senders : ReadSocket(s) \/ Sendto(s)
  /\ UNCHANGED <<media_running, call, checked, refused>>

Calls == \/ AskPeerToStart \/ MediaStarted
         \/ AskPeerToStop \/ DestroyPeer \/ Return

EngineNext ==
  \/ MediaStart \/ MediaStop \/ MediaDestroy \/ Calls
  \/ StopFromCallback
  \/ \E s \in Senders : CheckEngine(s) \/ CheckPeer(s)
  \/ PeerStep

EngineSpec == EngineInit /\ [][EngineNext]_engineVars

\* Threads that can run do, and a callback returns.
FairEngineSpec ==
  /\ EngineSpec
  /\ WF_engineVars(Calls)
  /\ WF_engineVars(PeerStep /\ (OpenSocket \/ Bind \/ CreateThread \/ Stopping))
  /\ WF_engineVars(PeerStep /\ Worker)

-----------------------------------------------------------------------------
(* Properties                                                              *)

(* Between calls the engine's flag and the peer's agree, unless a callback *)
(* of the worker has stopped the engine since: an engine that says it runs *)
(* always does, one that says it does not may still be receiving only      *)
(* then, and a failed start or a completed stop never leaves it so.        *)
FlagsAgree ==
  call = "none" =>
    IF refused THEN running /\ ~ media_running
               ELSE media_running = running

(* Every call of the application returns, and mezia_destroy leaves no      *)
(* worker and no socket behind, also when the engine's own flag was        *)
(* cleared by a callback and says there is nothing to stop.                *)
CallsReturn ==
  /\ call \in {"start", "stop"} ~> call = "none"
  /\ call = "destroy" ~> ~ allocated /\ worker = "none" /\ Owned = {}
=============================================================================
