------------------------------- MODULE UdpPeer ------------------------------
(***************************************************************************)
(* The UDP peer (src/src/p2p/p2p.c): the socket, the receive worker and    *)
(* the threads that start, stop, use and destroy the peer.                 *)
(*                                                                         *)
(* One application thread owns the life of the peer ("ctl"); any number of *)
(* threads send; the worker may call mezon_peer_stop from its callback.    *)
(* Every access to shared state and every system call is a step.  The      *)
(* descriptors of the process are shared with the rest of the program: a   *)
(* number that was closed is given out again.                              *)
(*                                                                         *)
(* pthread_create is taken to store peer->thread before the worker runs,   *)
(* as the C libraries of the supported POSIX systems do.                   *)
(***************************************************************************)
EXTENDS Naturals, FiniteSets

CONSTANTS
  Senders,   \* threads that call mezon_peer_send
  Fds,       \* descriptor numbers
  Invalid,   \* MEZON_INVALID_SOCKET
  Quiesced   \* those the application stops before the peer, as the bridges
             \* under platform/ do with theirs

ASSUME PeerAssumption == Invalid \notin Fds /\ Quiesced \subseteq Senders

VARIABLES
  allocated,  \* the peer exists
  running, socket_fd,       \* mezon_peer
  owner,      \* kernel: who opened each descriptor: "free", "peer", "other"
  ctl,        \* where the application thread is in start, stop or destroy
  freeing,    \* that call is mezon_peer_destroy
  worker,     \* where the receive worker is; "none" before it is created
              \* and after it is joined
  sender,     \* where each sending thread is
  send_fd     \* the descriptor each passed to sendto

ctlVars == <<ctl, freeing>>
senderVars == <<sender, send_fd>>
peerVars == <<allocated, running, socket_fd, owner, ctlVars, worker,
              senderVars>>

PeerInit ==
  /\ allocated = TRUE
  /\ running = FALSE
  /\ socket_fd = Invalid
  /\ owner = [f \in Fds |-> "free"]
  /\ ctl = "idle"
  /\ freeing = FALSE
  /\ worker = "none"
  /\ sender = [s \in Senders |-> "idle"]
  /\ send_fd = [s \in Senders |-> Invalid]

-----------------------------------------------------------------------------
(* mezon_peer_start                                                        *)

\* Addresses that do not resolve and a second start return at once.
StartCall ==
  /\ allocated /\ ctl = "idle" /\ ~ running
  /\ ctl' = "open"
  /\ UNCHANGED <<allocated, running, socket_fd, owner, freeing, worker,
                 senderVars>>

OpenSocket ==
  /\ ctl = "open"
  /\ \/ \E f \in Fds : /\ owner[f] = "free"
                       /\ owner' = [owner EXCEPT ![f] = "peer"]
                       /\ socket_fd' = f
                       /\ ctl' = "bind"
     \/ /\ socket_fd' = Invalid
        /\ ctl' = "idle"
        /\ UNCHANGED owner
  /\ UNCHANGED <<allocated, running, freeing, worker, senderVars>>

Bind ==
  /\ ctl = "bind"
  /\ \/ ctl' = "close"
     \/ ctl' = "create"
  /\ running' = (ctl' = "create")
  /\ UNCHANGED <<allocated, socket_fd, owner, freeing, worker, senderVars>>

CreateThread_StaysRunning ==
  /\ ctl = "create"
  /\ \/ worker' = "check" /\ ctl' = "idle"
     \/ ctl' = "close" /\ UNCHANGED worker
  /\ UNCHANGED <<allocated, running, socket_fd, owner, freeing, senderVars>>
CreateThread ==
  /\ ctl = "create"
  /\ \/ worker' = "check" /\ ctl' = "idle" /\ UNCHANGED running
     \/ running' = FALSE /\ ctl' = "close" /\ UNCHANGED worker
  /\ UNCHANGED <<allocated, socket_fd, owner, freeing, senderVars>>

-----------------------------------------------------------------------------
(* mezon_peer_stop and mezon_peer_destroy, called by the application       *)

Quiet == \A s \in Quiesced : sender[s] = "idle"

StopCall(destroy) ==
  /\ allocated /\ ctl = "idle" /\ running
  /\ Quiet
  /\ running' = FALSE
  /\ ctl' = "shutdown"
  /\ freeing' = destroy
  /\ UNCHANGED <<allocated, socket_fd, owner, worker, senderVars>>

\* wakes the worker, whose recvfrom would also time out
Shutdown ==
  /\ ctl = "shutdown"
  /\ ctl' = "join"
  /\ UNCHANGED <<allocated, running, socket_fd, owner, freeing, worker,
                 senderVars>>

Join_NotWaiting ==
  /\ ctl = "join"
  /\ ctl' = "close"
  /\ UNCHANGED <<allocated, running, socket_fd, owner, freeing, worker,
                 senderVars>>
Join ==
  /\ ctl = "join" /\ worker = "exited"
  /\ worker' = "none"
  /\ ctl' = "close"
  /\ UNCHANGED <<allocated, running, socket_fd, owner, freeing, senderVars>>

Close_Leaks ==
  /\ ctl = "close"
  /\ ctl' = "clear"
  /\ UNCHANGED <<allocated, running, socket_fd, freeing, worker,
                 senderVars, owner>>
\* close() has returned, the field still has the number
Close ==
  /\ ctl = "close"
  /\ owner' = [owner EXCEPT ![socket_fd] = "free"]
  /\ ctl' = "clear"
  /\ UNCHANGED <<allocated, running, socket_fd, freeing, worker,
                 senderVars>>

ClearSocket ==
  /\ ctl = "clear"
  /\ socket_fd' = Invalid
  /\ ctl' = "idle"
  /\ allocated' = ~ freeing
  /\ UNCHANGED <<running, owner, freeing, worker, senderVars>>

\* destroy of a peer that is not running
Destroy ==
  /\ allocated /\ ctl = "idle" /\ ~ running
  /\ Quiet
  /\ allocated' = FALSE
  /\ UNCHANGED <<running, socket_fd, owner, ctlVars, worker, senderVars>>

-----------------------------------------------------------------------------
(* receive_loop                                                            *)

WorkerGoes(to) ==
  /\ worker' = to
  /\ UNCHANGED <<allocated, running, socket_fd, owner, ctlVars, senderVars>>

Check == worker = "check" /\ WorkerGoes(IF running THEN "recvfrom" ELSE "exited")

\* A datagram of another endpoint or one that does not parse is skipped.
Datagram ==
  /\ worker = "recvfrom"
  /\ WorkerGoes("check") \/ WorkerGoes("callback")

\* recvfrom fails: the timeout of 100 ms, the shutdown or another error
ReceiveFails == worker = "recvfrom" /\ WorkerGoes("failed")

\* A timeout goes round; an error is counted and reported first.
Recheck ==
  /\ worker = "failed"
  /\ \/ ~ running /\ WorkerGoes("exited")
     \/ running /\ (WorkerGoes("check") \/ WorkerGoes("callback"))

CallbackReturns == worker = "callback" /\ WorkerGoes("check")

SelfStop == worker = "callback" /\ WorkerGoes("callback")

Worker == Check \/ Datagram \/ ReceiveFails \/ Recheck \/ CallbackReturns

-----------------------------------------------------------------------------
(* mezon_peer_send                                                         *)

SenderGoes(s, from, to) ==
  /\ sender[s] = from
  /\ sender' = [sender EXCEPT ![s] = to]
  /\ UNCHANGED <<allocated, running, socket_fd, owner, ctlVars, worker>>

\* A packet that does not serialize returns without touching the socket.
SendCall(s) ==
  /\ allocated /\ running
  /\ s \in Quiesced => ctl = "idle"   \* it begins when start has returned
  /\ SenderGoes(s, "idle", "serialize")
  /\ UNCHANGED send_fd

ReadSocket(s) ==
  /\ SenderGoes(s, "serialize", "sendto")
  /\ send_fd' = [send_fd EXCEPT ![s] = socket_fd]

\* sendto fails on a descriptor that is not a socket; the statistics follow
Sendto(s) ==
  /\ SenderGoes(s, "sendto", "idle")
  /\ send_fd' = [send_fd EXCEPT ![s] = Invalid]

Sender(s) == SendCall(s) \/ ReadSocket(s) \/ Sendto(s)

-----------------------------------------------------------------------------
\* the rest of the program opens and closes descriptors of its own
Elsewhere ==
  /\ \E f \in Fds : \/ /\ owner[f] = "free"
                       /\ owner' = [owner EXCEPT ![f] = "other"]
                    \/ /\ owner[f] = "other"
                       /\ owner' = [owner EXCEPT ![f] = "free"]
  /\ UNCHANGED <<allocated, running, socket_fd, ctlVars, worker,
                 senderVars>>

Stopping == Shutdown \/ Join \/ Close \/ ClearSocket

Control == \/ StartCall \/ OpenSocket \/ Bind \/ CreateThread
           \/ \E destroy \in BOOLEAN : StopCall(destroy)
           \/ Stopping \/ Destroy

PeerNext ==
  \/ Control
  \/ Worker \/ SelfStop
  \/ \E s \in Senders : Sender(s)
  \/ Elsewhere

PeerSpec == PeerInit /\ [][PeerNext]_peerVars

-----------------------------------------------------------------------------
(* Properties                                                              *)

PeerTypeOK ==
  /\ allocated \in BOOLEAN /\ running \in BOOLEAN
  /\ socket_fd \in Fds \cup {Invalid}
  /\ owner \in [Fds -> {"free", "peer", "other"}]
  /\ ctl \in {"idle", "open", "bind", "create", "shutdown", "join", "close",
              "clear"}
  /\ freeing \in BOOLEAN
  /\ worker \in {"none", "check", "recvfrom", "failed", "callback", "exited"}
  /\ sender \in [Senders -> {"idle", "serialize", "sendto"}]
  /\ send_fd \in [Senders -> Fds \cup {Invalid}]

Owned == {f \in Fds : owner[f] = "peer"}

(* Whenever the worker exists the peer does too and its socket is open:    *)
(* neither recvfrom nor a callback ever uses a socket that was closed, or  *)
(* given to someone else, or a peer that was freed.                        *)
WorkerHasSocket ==
  worker # "none" => allocated /\ socket_fd \in Owned

(* A peer that runs can receive: its worker is alive and its socket is the *)
(* only one it holds.  One that does not run, when no call is in progress, *)
(* has no worker and holds no descriptor, whichever step of start failed.  *)
AllOrNothing ==
  ctl = "idle" =>
    IF running
    THEN worker \notin {"none", "exited"} /\ Owned = {socket_fd}
    ELSE worker = "none" /\ Owned = {} /\ socket_fd = Invalid

(* A datagram never leaves through a descriptor that belongs to another    *)
(* part of the program, nor by way of a freed peer, from a sender that the *)
(* application stops first.  (For one it does not, the check of running    *)
(* protects nothing: the socket may be closed between it and sendto.)      *)
SendsOnOwnSocket ==
  \A s \in Quiesced :
    /\ sender[s] # "idle" => allocated
    /\ sender[s] = "sendto" => send_fd[s] \in Owned
=============================================================================
