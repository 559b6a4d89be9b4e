------------------------------ MODULE MCVideoRtp ----------------------------
(***************************************************************************)
(* Eight entries across the wrap: whole NALs, fragmented ones of the same  *)
(* access unit, one too large for the receiver, one a single byte beyond   *)
(* the payload, and packets that are no NAL.                               *)
(***************************************************************************)
EXTENDS VideoRtp

VARIABLE accepted  \* history: packets the receiver did not pass over

mcVars == <<videoVars, accepted>>

Entry(kind, size, timestamp) ==
  [kind |-> kind, size |-> size, timestamp |-> timestamp]

MCStream ==
  << Entry("nal", 7, 1), Entry("nal", 8, 1), Entry("nal", 3, 1),
     Entry("stap", 2, 2), Entry("nal", 11, 2), Entry("bad", 1, 3),
     Entry("nal", 5, 3), Entry("nal", 8, 3) >>

MCInit == VideoInit /\ accepted = {}

MCNext ==
  \/ SendNal /\ UNCHANGED accepted
  \/ /\ \E p \in InTransit :
          \/ Process(p) /\ accepted' = accepted \cup {p}
          \/ Passed(p) /\ UNCHANGED <<receiveVars, accepted>>
     /\ UNCHANGED sendVars

MCSpec == MCInit /\ [][MCNext]_mcVars

PacketsOf(k) == {p \in network : p.nal = k}
PacketBefore(p) == {q \in network : q.index + 1 = p.index}

(* The network never loses 65536 packets in a row, which the numbers do    *)
(* not show.                                                               *)
LossesFit ==
  accepted # {} =>
    \A p \in InTransit : \E q \in accepted : p.index - q.index <= SEQ_MOD

(* A NAL that fits is delivered with its last packet if, and only if, the  *)
(* receiver took every one of its packets: nothing is lost that arrived.   *)
DeliveredIfComplete ==
  [][\A p \in accepted' \ accepted :
       p.end /\ Stream[p.nal].kind = "nal" =>
         (delivered'.nal = p.nal <=>
            /\ PacketsOf(p.nal) \subseteq accepted'
            /\ PacketsOf(p.nal) \cap {q \in network : q.kind = "fu"} # {}
                 => Stream[p.nal].size <= MAX_NAL_SIZE)]_mcVars

(* A NAL whose first packet does not directly follow the last one taken is *)
(* flagged as a discontinuity, and no other is.  (A loss inside a NAL that *)
(* is dropped is therefore not told to the application.)                   *)
GapBeforeIsFlagged ==
  delivered.nal # 0 =>
    LET first == CHOOSE p \in PacketsOf(delivered.nal) : p.start
        first_taken == \A q \in accepted : q.nal >= delivered.nal
    IN  delivered.discontinuity
          <=> ~ first_taken /\ ~ (PacketBefore(first) \subseteq accepted)
=============================================================================
