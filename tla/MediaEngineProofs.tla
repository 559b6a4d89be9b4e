------------------------- MODULE MediaEngineProofs --------------------------
(***************************************************************************)
(* The safety properties of the peer, for every set of senders, of         *)
(* descriptors, and of senders that are stopped first.  Then the engine:   *)
(* it drives its peer only as UdpPeer allows, so what is proved of the     *)
(* peer holds of it inside the engine; and the two running flags disagree  *)
(* only as FlagsAgree says.                                                *)
(***************************************************************************)
EXTENDS MediaEngine, TLAPS


(* What a call of start or stop has done when it stands before each of its *)
(* steps.  AllOrNothing is the case of no call in progress.                *)
Progress ==
  /\ ctl = "open" => ~ running /\ worker = "none" /\ Owned = {}
  /\ ctl = "bind" => ~ running /\ worker = "none" /\ Owned = {socket_fd}
  /\ ctl = "create" => running /\ worker = "none" /\ Owned = {socket_fd}
  /\ ctl \in {"shutdown", "join"} =>
       ~ running /\ worker # "none" /\ Owned = {socket_fd}
  /\ ctl = "close" => ~ running /\ worker = "none" /\ Owned = {socket_fd}
  /\ ctl = "clear" => ~ running /\ worker = "none" /\ Owned = {}

\* the peer is freed only when nothing of it is left
Existence == ctl # "idle" \/ running => allocated

\* a sender that is stopped first sends between the end of start and stop
Discipline ==
  \A s \in Quiesced :
    /\ sender[s] # "idle" => ctl = "idle" /\ running
    /\ sender[s] = "sendto" => send_fd[s] = socket_fd

PeerInv ==
  PeerTypeOK /\ AllOrNothing /\ Progress /\ Existence /\ Discipline

LEMMA PeerInitial == PeerInit => PeerInv
BY PeerAssumption
   DEF PeerInit, PeerInv, PeerTypeOK, AllOrNothing, Progress, Existence,
       Discipline, Owned

-----------------------------------------------------------------------------
(* Start: a descriptor that is opened was free, so that it is the only one. *)
LEMMA StartKeeps ==
  PeerInv /\ (StartCall \/ OpenSocket \/ Bind \/ CreateThread) => PeerInv'
<1> USE PeerAssumption DEF PeerInv
<1>1. ASSUME PeerInv, StartCall PROVE PeerInv'
  BY <1>1 DEF StartCall, senderVars, PeerTypeOK, AllOrNothing, Progress,
              Existence, Discipline, Owned
<1>2. ASSUME PeerInv, OpenSocket PROVE PeerInv'
  <2>1. CASE socket_fd' = Invalid /\ ctl' = "idle" /\ UNCHANGED owner
    BY <1>2, <2>1 DEF OpenSocket, senderVars, PeerTypeOK, AllOrNothing,
                      Progress, Existence, Discipline, Owned
  <2>2. ASSUME NEW f \in Fds, owner[f] = "free", socket_fd' = f,
               owner' = [owner EXCEPT ![f] = "peer"], ctl' = "bind"
        PROVE  PeerInv'
    <3>1. Owned = {}
      BY <1>2 DEF OpenSocket, Progress
    <3>2. Owned' = {socket_fd'}
      BY <1>2, <2>2, <3>1 DEF Owned, PeerTypeOK
    <3> QED
      BY <1>2, <2>2, <3>2 DEF OpenSocket, senderVars, PeerTypeOK,
                              AllOrNothing, Progress, Existence, Discipline
  <2> QED
    BY <1>2, <2>1, <2>2 DEF OpenSocket
<1>3. ASSUME PeerInv, Bind PROVE PeerInv'
  BY <1>3 DEF Bind, senderVars, PeerTypeOK, AllOrNothing, Progress,
              Existence, Discipline, Owned
<1>4. ASSUME PeerInv, CreateThread PROVE PeerInv'
  BY <1>4 DEF CreateThread, senderVars, PeerTypeOK, AllOrNothing, Progress,
              Existence, Discipline, Owned
<1> QED
  BY <1>1, <1>2, <1>3, <1>4

(* Stop and destroy: the descriptor is closed after the worker is joined.  *)
LEMMA StopKeeps ==
  ASSUME PeerInv,
         \/ \E destroy \in BOOLEAN : StopCall(destroy)
         \/ Stopping \/ Destroy
  PROVE  PeerInv'
<1> USE PeerAssumption DEF PeerInv
<1>1. ASSUME NEW destroy \in BOOLEAN, StopCall(destroy) PROVE PeerInv'
  BY <1>1 DEF StopCall, Quiet, senderVars, PeerTypeOK, AllOrNothing,
              Progress, Existence, Discipline, Owned
<1>2. CASE Shutdown \/ Join
  BY <1>2 DEF Shutdown, Join, senderVars, PeerTypeOK, AllOrNothing, Progress,
              Existence, Discipline, Owned
<1>3. CASE Close
  <2>1. Owned = {socket_fd} /\ socket_fd \in Fds
    BY <1>3 DEF Close, Progress, Owned
  <2>2. Owned' = {}
    BY <1>3, <2>1 DEF Close, Owned, PeerTypeOK
  <2> QED
    BY <1>3, <2>2 DEF Close, senderVars, PeerTypeOK, AllOrNothing, Progress,
                      Existence, Discipline
<1>4. CASE ClearSocket
  BY <1>4 DEF ClearSocket, senderVars, PeerTypeOK, AllOrNothing, Progress,
              Existence, Discipline, Owned
<1>5. CASE Destroy
  BY <1>5 DEF Destroy, ctlVars, senderVars, PeerTypeOK, AllOrNothing,
              Progress, Existence, Discipline, Owned
<1> QED
  BY <1>1, <1>2, <1>3, <1>4, <1>5 DEF Stopping

-----------------------------------------------------------------------------
(* The worker: it exits only when it finds running cleared.                *)
LEMMA WorkerKeeps ==
  ASSUME PeerInv, Worker \/ SelfStop
  PROVE  PeerInv'
BY DEF PeerInv, Worker, Check, Datagram, ReceiveFails, Recheck,
       CallbackReturns, SelfStop, WorkerGoes, ctlVars, senderVars,
       PeerTypeOK, AllOrNothing, Progress, Existence, Discipline, Owned

(* The senders                                                             *)
LEMMA SenderKeeps ==
  ASSUME PeerInv, NEW s \in Senders, Sender(s)
  PROVE  PeerInv'
<1>1. PeerTypeOK'
  BY PeerAssumption DEF PeerInv, Sender, SendCall, ReadSocket, Sendto,
     SenderGoes, ctlVars, PeerTypeOK
<1>2. Discipline'
  BY PeerAssumption DEF PeerInv, Sender, SendCall, ReadSocket, Sendto,
     SenderGoes, ctlVars, PeerTypeOK, Discipline
<1> QED
  BY <1>1, <1>2 DEF PeerInv, Sender, SendCall, ReadSocket, Sendto,
     SenderGoes, ctlVars, AllOrNothing, Progress, Existence, Owned

(* The rest of the program touches no descriptor of the peer.              *)
LEMMA ElsewhereKeeps ==
  ASSUME PeerInv, Elsewhere
  PROVE  PeerInv'
<1>1. Owned' = Owned
  BY DEF PeerInv, Elsewhere, Owned, PeerTypeOK
<1> QED
  BY <1>1 DEF PeerInv, Elsewhere, ctlVars, senderVars, PeerTypeOK,
              AllOrNothing, Progress, Existence, Discipline

LEMMA PeerInductive == PeerInv /\ [PeerNext]_peerVars => PeerInv'
<1> SUFFICES ASSUME PeerInv, [PeerNext]_peerVars PROVE PeerInv'
  OBVIOUS
<1>1. CASE Control
  BY <1>1, StartKeeps, StopKeeps DEF Control
<1>2. CASE Worker \/ SelfStop
  BY <1>2, WorkerKeeps
<1>3. CASE \E s \in Senders : Sender(s)
  BY <1>3, SenderKeeps
<1>4. CASE Elsewhere
  BY <1>4, ElsewhereKeeps
<1>5. CASE UNCHANGED peerVars
  BY <1>5 DEF peerVars, ctlVars, senderVars, PeerInv, PeerTypeOK,
              AllOrNothing, Progress, Existence, Discipline, Owned
<1> QED
  BY <1>1, <1>2, <1>3, <1>4, <1>5 DEF PeerNext

-----------------------------------------------------------------------------
(* The invariant holds in every reachable state.                           *)
THEOREM PeerInvariant == PeerSpec => []PeerInv
BY PeerInitial, PeerInductive, PTL DEF PeerSpec

(* Every variable of the peer always has its type.                         *)
THEOREM PeerTypes == PeerSpec => []PeerTypeOK
<1>1. PeerInv => PeerTypeOK
  BY DEF PeerInv
<1> QED
  BY <1>1, PeerInvariant, PTL

(* The worker never reads from a socket that was closed or given to        *)
(* someone else, nor uses a peer that was freed.                           *)
THEOREM PeerWorkerHasSocket == PeerSpec => []WorkerHasSocket
<1>1. PeerInv => WorkerHasSocket
  BY DEF PeerInv, PeerTypeOK, AllOrNothing, Progress, Existence,
         WorkerHasSocket
<1> QED
  BY <1>1, PeerInvariant, PTL

(* Between calls a peer runs with its worker and one socket, or has        *)
(* neither, whichever step of start failed.                                *)
THEOREM PeerAllOrNothing == PeerSpec => []AllOrNothing
<1>1. PeerInv => AllOrNothing
  BY DEF PeerInv
<1> QED
  BY <1>1, PeerInvariant, PTL

(* A sender that the application stops before the peer never sends through *)
(* a descriptor of another part of the program.                            *)
THEOREM PeerSendsOnOwnSocket == PeerSpec => []SendsOnOwnSocket
<1>1. PeerInv => SendsOnOwnSocket
  BY DEF PeerInv, AllOrNothing, Existence, Discipline, SendsOnOwnSocket
<1> QED
  BY <1>1, PeerInvariant, PTL

-----------------------------------------------------------------------------
(* What a call of the application knows before each of its steps.          *)
CallProgress ==
  /\ call \in {"none", "start", "stop", "destroy"} => ctl = "idle"
  /\ call # "none" => ~ media_running
  /\ call = "start" => refused = running
  /\ call = "starting" =>
       /\ ctl \in {"idle", "open", "bind", "create", "close", "clear"}
       /\ refused => running /\ ctl = "idle"
  /\ call \in {"stopping", "destroying"} =>
       /\ ~ running
       /\ ctl \in {"idle", "shutdown", "join", "close", "clear"}

EngineTypeOK ==
  /\ media_running \in BOOLEAN /\ refused \in BOOLEAN
  /\ call \in {"none", "start", "starting", "stop", "stopping", "destroy",
               "destroying"}

EngineInv == EngineTypeOK /\ CallProgress /\ FlagsAgree

-----------------------------------------------------------------------------
(* Every step of the engine is a step of the peer or leaves it alone.      *)
LEMMA StepOfPeer == [EngineNext]_engineVars => [PeerNext]_peerVars
<1> SUFFICES ASSUME [EngineNext]_engineVars PROVE [PeerNext]_peerVars
  OBVIOUS
<1>1. CASE MediaStart \/ MediaStop \/ MediaDestroy \/ UNCHANGED engineVars
  BY <1>1 DEF MediaStart, MediaStop, MediaDestroy, engineVars
<1>2. CASE Calls
  <2>1. StartCall \/ StopCall(FALSE) \/ StopCall(TRUE) \/ Destroy
          => PeerNext
    BY DEF PeerNext, Control
  <2> QED
    BY <1>2, <2>1 DEF Calls, AskPeerToStart, MediaStarted, AskPeerToStop,
                      DestroyPeer, Return
<1>3. CASE StopFromCallback
  BY <1>3 DEF StopFromCallback, PeerNext
<1>4. ASSUME NEW s \in Senders, CheckEngine(s) \/ CheckPeer(s)
      PROVE  [PeerNext]_peerVars
  BY <1>4 DEF CheckEngine, CheckPeer, PeerNext, Sender
<1>5. CASE PeerStep
  BY <1>5 DEF PeerStep, PeerNext, Control, Sender
<1> QED
  BY <1>1, <1>2, <1>3, <1>4, <1>5 DEF EngineNext

(* The engine implements the peer's specification: it calls start, stop,   *)
(* destroy and send only where UdpPeer lets the application do so, and     *)
(* what a callback does is what UdpPeer's worker may do.                   *)
THEOREM EngineUsesPeer == EngineSpec => PeerSpec
<1>1. EngineInit => PeerInit
  BY DEF EngineInit
<1> QED
  BY <1>1, StepOfPeer, PTL DEF EngineSpec, PeerSpec

-----------------------------------------------------------------------------
LEMMA EngineInitial == EngineInit => EngineInv
BY DEF EngineInit, PeerInit, EngineInv, EngineTypeOK, CallProgress, FlagsAgree

LEMMA EngineCallsKeep ==
  ASSUME EngineInv, PeerInv,
         MediaStart \/ MediaStop \/ MediaDestroy \/ Calls
  PROVE  EngineInv'
<1> USE DEF EngineInv, EngineTypeOK, CallProgress, FlagsAgree
<1> running \in BOOLEAN
  BY DEF PeerInv, PeerTypeOK
<1>1. CASE MediaStart \/ MediaStop \/ MediaDestroy
  <2>1. CASE MediaStart
    <3>1. refused = running
      BY <2>1 DEF MediaStart
    <3> QED
      BY <2>1, <3>1 DEF MediaStart, peerVars, ctlVars
  <2>2. CASE MediaStop
    BY <2>2 DEF MediaStop, peerVars, ctlVars
  <2>3. CASE MediaDestroy
    BY <2>3 DEF MediaDestroy, peerVars, ctlVars
  <2> QED
    BY <1>1, <2>1, <2>2, <2>3
<1>2. CASE AskPeerToStart
  BY <1>2 DEF AskPeerToStart, StartCall, peerVars, ctlVars
<1>3. CASE MediaStarted
  BY <1>3 DEF MediaStarted, peerVars, ctlVars
<1>4. CASE AskPeerToStop
  BY <1>4 DEF AskPeerToStop, StopCall, peerVars, ctlVars
<1>5. CASE DestroyPeer
  BY <1>5 DEF DestroyPeer, StopCall, Destroy, peerVars, ctlVars
<1>6. CASE Return
  BY <1>6 DEF Return, peerVars, ctlVars
<1> QED
  BY <1>1, <1>2, <1>3, <1>4, <1>5, <1>6 DEF Calls

LEMMA EngineRestKeeps ==
  ASSUME EngineInv, PeerInv,
         \/ StopFromCallback \/ PeerStep
         \/ \E s \in Senders : CheckEngine(s) \/ CheckPeer(s)
  PROVE  EngineInv'
<1> USE DEF EngineInv, EngineTypeOK, CallProgress, FlagsAgree
<1>1. CASE StopFromCallback
  BY <1>1 DEF StopFromCallback, SelfStop, WorkerGoes, ctlVars, PeerInv,
              PeerTypeOK
<1>2. CASE \E s \in Senders : CheckEngine(s) \/ CheckPeer(s)
  BY <1>2 DEF CheckEngine, CheckPeer, SendCall, SenderGoes, peerVars, ctlVars
<1>3. CASE PeerStep
  <2>1. CASE OpenSocket \/ Bind \/ CreateThread
    BY <1>3, <2>1 DEF PeerStep, OpenSocket, Bind, CreateThread, PeerInv,
                      Progress, PeerTypeOK
  <2>2. CASE Stopping
    BY <1>3, <2>2 DEF PeerStep, Stopping, Shutdown, Join, Close, ClearSocket,
                      PeerInv, Progress
  <2>3. CASE Worker
    BY <1>3, <2>3 DEF PeerStep, Worker, Check, Datagram, ReceiveFails,
                      Recheck, CallbackReturns, WorkerGoes, ctlVars
  <2>4. CASE Elsewhere \/ \E s \in Senders : ReadSocket(s) \/ Sendto(s)
    BY <1>3, <2>4 DEF PeerStep, Elsewhere, ReadSocket, Sendto, SenderGoes,
                      ctlVars
  <2> QED
    BY <1>3, <2>1, <2>2, <2>3, <2>4 DEF PeerStep
<1> QED
  BY <1>1, <1>2, <1>3

LEMMA EngineInductive ==
  EngineInv /\ PeerInv /\ [EngineNext]_engineVars => EngineInv'
<1> SUFFICES ASSUME EngineInv, PeerInv, [EngineNext]_engineVars
             PROVE  EngineInv'
  OBVIOUS
<1>1. CASE EngineNext
  BY <1>1, EngineCallsKeep, EngineRestKeeps DEF EngineNext
<1>2. CASE UNCHANGED engineVars
  BY <1>2 DEF engineVars, peerVars, ctlVars, EngineInv, EngineTypeOK,
              CallProgress, FlagsAgree
<1> QED
  BY <1>1, <1>2

(* Between calls the engine and its peer agree whether they run, unless a  *)
(* callback's stop was refused since the start.                            *)
THEOREM EngineFlagsAgree == EngineSpec => []FlagsAgree
<1>1. EngineSpec => []PeerInv
  BY EngineUsesPeer, PeerInvariant, PTL
<1>2. EngineSpec => []EngineInv
  BY <1>1, EngineInitial, EngineInductive, PTL DEF EngineSpec
<1>3. EngineInv => FlagsAgree
  BY DEF EngineInv
<1> QED
  BY <1>2, <1>3, PTL

(* Inside the engine, as outside, the worker always has its socket, start  *)
(* leaves all or nothing, and a sender stopped first sends through no      *)
(* descriptor of someone else.                                             *)
THEOREM EngineKeepsPeerSafe ==
  EngineSpec => [](WorkerHasSocket /\ AllOrNothing /\ SendsOnOwnSocket)
<1> QED
  BY EngineUsesPeer, PeerWorkerHasSocket, PeerAllOrNothing,
     PeerSendsOnOwnSocket, PTL
=============================================================================
