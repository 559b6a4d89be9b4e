------------------------------- MODULE VideoRtp -----------------------------
(***************************************************************************)
(* H.264 over RTP (src/src/video/video.c): a sender that splits NALs into  *)
(* FU-A fragments, a network that loses, repeats and reorders packets, and *)
(* the receiver that puts NALs together again.  The receive worker alone   *)
(* runs the receiver; mezia_send_h264 alone the sender.                    *)
(*                                                                         *)
(* A NAL is its number in the stream; its bytes are 1 .. size, byte 1      *)
(* being the header that the fragments carry in their own.  A packet has   *)
(* the bytes from .. to of one NAL.  Packets stay in the network until     *)
(* half the circle of numbers has been sent after them: one is lost, or    *)
(* was not sent because an earlier one failed, by never being received.    *)
(***************************************************************************)
EXTENDS SeqArith, Sequences

CONSTANTS
  Stream,        \* what is sent: a sequence of [kind, size, timestamp], where
                 \* kind is "nal", or "stap" or "bad" for a packet that is no
                 \* NAL and no sound fragment, from a peer of another make
  PAYLOAD,       \* mtu less the RTP header
  MAX_NAL_SIZE,
  FIRST_SEQ

Entries == [kind : {"nal", "stap", "bad"}, size : Nat \ {0}, timestamp : Nat]

ASSUME VideoAssumption ==
  /\ PAYLOAD \in Nat /\ PAYLOAD > 2
  /\ MAX_NAL_SIZE \in Nat \ {0}
  /\ FIRST_SEQ \in Seq16
  /\ Stream \in Seq(Entries)

VARIABLES
  next_seq, sent,                      \* the sender; entries of Stream sent
  made,                                \* packets numbered so far
  network,
  expected_seq, have_expected_seq,     \* the receiver
  reassembly, reassembly_len, reassembly_timestamp, reassembling,
  discontinuity,
  delivered                            \* the last call of on_nal

sendVars == <<next_seq, sent, made, network>>
bufferVars == <<reassembly, reassembly_len, reassembling>>
receiveVars == <<expected_seq, have_expected_seq, bufferVars,
                 reassembly_timestamp, discontinuity, delivered>>
videoVars == <<sendVars, receiveVars>>

VideoInit ==
  /\ next_seq = FIRST_SEQ /\ sent = 0 /\ made = 0 /\ network = {}
  /\ expected_seq = 0 /\ have_expected_seq = FALSE
  /\ reassembly = <<>> /\ reassembly_len = 0 /\ reassembly_timestamp = 0
  /\ reassembling = FALSE
  /\ discontinuity = FALSE
  /\ delivered = [nal |-> 0, pieces |-> <<>>, discontinuity |-> FALSE]

-----------------------------------------------------------------------------
(* mezon_video_packetize_nal and mezia_send_h264                           *)

Fragment == PAYLOAD - 2

CeilDiv(a, b) == a \div b + (IF a % b = 0 THEN 0 ELSE 1)

\* mezon_video_max_packets_for_nal
MaxPackets(size) ==
  IF size <= PAYLOAD THEN 1 ELSE CeilDiv(size - 1, Fragment)

Lesser(a, b) == IF a < b THEN a ELSE b

\* the i-th packet of entry k, numbered from 0
PacketOf(k, i) ==
  LET e == Stream[k]
      n == MaxPackets(e.size)
      whole == e.kind # "nal" \/ n = 1
      from == 2 + i * Fragment
  IN  [index     |-> made + i,
       seq       |-> (next_seq + i) % SEQ_MOD,
       timestamp |-> e.timestamp,
       kind      |-> IF e.kind # "nal" THEN e.kind
                     ELSE IF whole THEN "single" ELSE "fu",
       nal       |-> k,
       from      |-> IF whole THEN 1 ELSE from,
       to        |-> IF whole THEN e.size
                     ELSE Lesser(e.size, from + Fragment - 1),
       start     |-> i = 0,
       end       |-> i = n - 1]

PacketCount(k) == IF Stream[k].kind = "nal" THEN MaxPackets(Stream[k].size) ELSE 1

\* All numbers are used, also when sending stops at a packet that fails.
SendNal ==
  /\ sent < Len(Stream)
  /\ sent' = sent + 1
  /\ LET n == PacketCount(sent + 1)
     IN  /\ network' = network \cup {PacketOf(sent + 1, i) : i \in 0 .. n - 1}
         /\ next_seq' = (next_seq + n) % SEQ_MOD
         /\ made' = made + n
  /\ UNCHANGED receiveVars

-----------------------------------------------------------------------------
(* mezon_video_receive                                                     *)

Bytes(p) == p.to - p.from + 1
Piece(p) == [nal |-> p.nal, from |-> p.from, to |-> p.to]
Header(p) == [nal |-> p.nal, from |-> 1, to |-> 1]

\* the last packet again, or an earlier one
Passed_DuplicateOnly(p) ==
  have_expected_seq /\ NextSeq(p.seq) = expected_seq
Passed(p) == have_expected_seq /\ SeqBefore(p.seq, expected_seq)

Gap_PlainCompare(p) == have_expected_seq /\ p.seq > expected_seq
Gap(p) == have_expected_seq /\ p.seq # expected_seq

\* reset_reassembly
Reset == /\ reassembly' = <<>> /\ reassembly_len' = 0
         /\ reassembling' = FALSE

ResetIfGap(p) == IF Gap(p) THEN Reset ELSE UNCHANGED bufferVars

OnNal(p, pieces, flag) ==
  delivered' = [nal |-> p.nal, pieces |-> pieces, discontinuity |-> flag]

Expect(p) == expected_seq' = NextSeq(p.seq) /\ have_expected_seq' = TRUE

Single(p) ==
  /\ p.kind = "single"
  /\ Reset
  /\ OnNal(p, <<Piece(p)>>, Gap(p))
  /\ UNCHANGED <<reassembly_timestamp, discontinuity>>

Malformed(p) ==
  /\ p.kind = "bad"
  /\ Reset
  /\ UNCHANGED <<reassembly_timestamp, discontinuity, delivered>>

Unsupported(p) ==
  /\ p.kind = "stap"
  /\ ResetIfGap(p)
  /\ UNCHANGED <<reassembly_timestamp, discontinuity, delivered>>

\* The bytes of p are added to those collected, if they fit.
AppendPiece(p, pieces, len, flag) ==
  \/ /\ len + Bytes(p) > MAX_NAL_SIZE
     /\ Reset
     /\ UNCHANGED delivered
  \/ /\ len + Bytes(p) <= MAX_NAL_SIZE /\ p.end
     /\ Reset
     /\ OnNal(p, Append(pieces, Piece(p)), flag)
  \/ /\ len + Bytes(p) <= MAX_NAL_SIZE /\ ~ p.end
     /\ reassembly' = Append(pieces, Piece(p))
     /\ reassembly_len' = len + Bytes(p)
     /\ reassembling' = TRUE
     /\ UNCHANGED delivered

Begin(p) ==
  /\ p.kind = "fu" /\ p.start
  /\ reassembly_timestamp' = p.timestamp
  /\ discontinuity' = Gap(p)
  /\ AppendPiece(p, <<Header(p)>>, 1, Gap(p))

Continues_AfterGap(p) == reassembling /\ reassembly_timestamp = p.timestamp
Continues(p) ==
  reassembling /\ ~ Gap(p) /\ reassembly_timestamp = p.timestamp

Continue(p) ==
  /\ p.kind = "fu" /\ ~ p.start
  /\ Continues(p)
  /\ AppendPiece(p, reassembly, reassembly_len, discontinuity)
  /\ UNCHANGED <<reassembly_timestamp, discontinuity>>

\* a fragment of a NAL whose beginning is missing
Orphan(p) ==
  /\ p.kind = "fu" /\ ~ p.start
  /\ ~ Continues(p)
  /\ ResetIfGap(p)
  /\ UNCHANGED <<reassembly_timestamp, discontinuity, delivered>>

Process(p) ==
  /\ ~ Passed(p)
  /\ Expect(p)
  /\ \/ Single(p) \/ Malformed(p) \/ Unsupported(p)
     \/ Begin(p) \/ Continue(p) \/ Orphan(p)

\* Serial numbers presume that no packet comes after so many newer ones.
InTransit == {p \in network : made - p.index <= HALF_SEQ}

Receive ==
  /\ \E p \in InTransit : \/ Process(p)
                          \/ Passed(p) /\ UNCHANGED receiveVars
  /\ UNCHANGED sendVars

VideoNext == SendNal \/ Receive

VideoSpec == VideoInit /\ [][VideoNext]_videoVars

-----------------------------------------------------------------------------
(* Properties                                                              *)

(* The buffer holds what its length says, never more than was allocated.   *)
VideoTypeOK ==
  /\ next_seq \in Seq16 /\ expected_seq \in Seq16
  /\ reassembly_len \in 0 .. MAX_NAL_SIZE
  /\ reassembling <=> reassembly # <<>>
  /\ reassembling => reassembly_len = reassembly[Len(reassembly)].to

(* Bytes 1 to size of one NAL, all of them, in order.                      *)
WholeNal(pieces, k) ==
  /\ pieces[1].from = 1 /\ pieces[Len(pieces)].to = Stream[k].size
  /\ \A i \in DOMAIN pieces : pieces[i].nal = k
  /\ \A i \in 1 .. Len(pieces) - 1 : pieces[i + 1].from = pieces[i].to + 1

(* What is delivered is exactly a NAL that was sent: no fragment missing,  *)
(* repeated or out of place, none of another NAL, though NALs of one       *)
(* access unit have the same timestamp.                                    *)
DeliveredWhole ==
  delivered.nal # 0 => WholeNal(delivered.pieces, delivered.nal)

(* What the sender makes is never a fragment that is start and end at      *)
(* once, which the receiver refuses, and never larger than the payload.    *)
SoundFragments ==
  \A p \in network :
    /\ p.kind = "fu" => ~ (p.start /\ p.end) /\ Bytes(p) \in 1 .. Fragment
    /\ p.kind = "single" => Bytes(p) <= PAYLOAD

(* The access units of the application have fewer packets than there are   *)
(* sequence numbers.  mezia_send_h264 sets no limit.                       *)
UnitsFit ==
  \A p, q \in network :
    p.timestamp = q.timestamp => p.index - q.index < SEQ_MOD

(* Both ends of a NAL are sound: no packet is too large or both ends at    *)
(* once, the reassembly buffer never holds more than was allocated, and    *)
(* nothing but whole NALs comes out of it.                                 *)
VideoInv == VideoTypeOK /\ SoundFragments /\ DeliveredWhole

(* Sender, network and receiver are a channel that may lose NALs but never *)
(* reorders or repeats one.                                                *)
Channel == INSTANCE NalChannel WITH
  Count    <- Len(Stream),
  produced <- sent,
  latest   <- delivered.nal

ChannelRefinement == Channel!ChannelSpec
=============================================================================
