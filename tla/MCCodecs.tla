------------------------------ MODULE MCCodecs ------------------------------
(***************************************************************************)
(* The parts that hold data and have no thread of their own: the rings of  *)
(* the audio devices, and the RTCP codec, which is given the contents, the *)
(* capacities and the datagrams listed here.  The two have nothing to do   *)
(* with each other, so an exchange of RTCP comes and goes while the rings  *)
(* are as they were set up.                                                *)
(***************************************************************************)
EXTENDS DeviceAudio, MCRtcp

CONSTANTS FIRST_SEQ  \* of the requests for lost packets: below the wrap

At(k) == (FIRST_SEQ + k) % SEQ_MOD

\* Up to four numbers around the wrap, the first anywhere among them: next
\* to each other, at the reach of the mask, just beyond it, and behind.
MCNacks ==
  {[sender_ssrc |-> 1, media_ssrc |-> 2, seqs |-> s] :
     s \in UNION {[1 .. n -> {At(k) : k \in {0, 1, 2, 15, 16, 17}}] :
                    n \in 0 .. 4}}

MCSrs == {[sender_ssrc |-> 1, ntp_msw |-> 2, ntp_lsw |-> 3,
           rtp_timestamp |-> 4, packet_count |-> 5, octet_count |-> 6]}
MCRrs == {[sender_ssrc |-> 1, media_ssrc |-> 2, fraction_lost |-> f,
           cumulative_lost |-> c, extended_seq |-> 5, jitter |-> 6,
           last_sr |-> 7, delay_since_last_sr |-> 8] :
            f \in {0, 255}, c \in {0, 300, 2^24 + 7}}
MCPlis == {[sender_ssrc |-> 1, media_ssrc |-> 2]}

\* up to five words: the first number alone, some, and all seventeen
MCForeign ==
  UNION {[1 .. n -> {[pid |-> At(0), blp |-> {}],
                     [pid |-> At(2), blp |-> {0, 13, 15}],
                     [pid |-> At(40), blp |-> 0 .. 15]}] : n \in 1 .. 5}

MCCapacities == {12, 16, 28, 31, 32, 64}
MCLengths == {7, 8, 12, 15, 16, 28, 31, 32, 64}

-----------------------------------------------------------------------------
mcVars == <<deviceVars, exchange>>

MCInit == DeviceInit /\ RtcpInit

\* no sample has come or gone
Untouched == /\ starts = 1 /\ sent = <<>> /\ heard = <<>>
             /\ capture_ring.count = 0 /\ playback_ring.count = 0

MCNext ==
  \/ DeviceNext /\ exchange = <<>> /\ UNCHANGED exchange
  \/ Untouched /\ Say /\ UNCHANGED deviceVars
  \/ Done /\ UNCHANGED deviceVars

MCSpec == MCInit /\ [][MCNext]_mcVars
=============================================================================
