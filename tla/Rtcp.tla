-------------------------------- MODULE Rtcp --------------------------------
(***************************************************************************)
(* RTCP packets (src/src/rtcp/rtcp.c): writing sender and receiver         *)
(* reports, requests to send packets again (NACK) and for a whole picture  *)
(* (PLI), and reading a datagram that may be one of these, cut short, or   *)
(* of another make.                                                        *)
(*                                                                         *)
(* A packet is its header and a body of 32-bit words.  A word is a number; *)
(* one that packs several fields is a record of them, and a bit mask is    *)
(* the set of its bits.  A datagram is a packet with its length in bytes   *)
(* and the words that it really holds.                                     *)
(***************************************************************************)
EXTENDS SeqArith, Sequences

SR == 200
RR == 201
RTPFB == 205
PSFB == 206
FMT_NACK == 1
FMT_PLI == 1
MAX_NACK_SEQS == 64

Refused(status) == [status |-> status]

Packet(fmt, pt, body) ==
  [version |-> 2, fmt |-> fmt, pt |-> pt, words |-> Len(body), body |-> body]

\* need, and the packet if there is room for it
Written(capacity, packet) ==
  IF capacity < 4 * (packet.words + 1) THEN Refused("too_small")
  ELSE [status |-> "ok", packet |-> packet]

WriteSr(sr, capacity) ==
  Written(capacity,
    Packet(0, SR, << sr.sender_ssrc, sr.ntp_msw, sr.ntp_lsw,
                     sr.rtp_timestamp, sr.packet_count, sr.octet_count >>))

\* the loss so far has 24 bits
WriteRr(rr, capacity) ==
  Written(capacity,
    Packet(1, RR, << rr.sender_ssrc, rr.media_ssrc,
                     [fraction |-> rr.fraction_lost,
                      cumulative |-> rr.cumulative_lost % 2^24],
                     rr.extended_seq, rr.jitter, rr.last_sr,
                     rr.delay_since_last_sr >>))

WritePli(pli, capacity) ==
  Written(capacity, Packet(FMT_PLI, PSFB, <<pli.sender_ssrc, pli.media_ssrc>>))

\* Bit k of the mask stands for the number k + 1 after the first.
Mask_SignedDistance(seqs) ==
  {seqs[i] - seqs[1] - 1 : i \in 2 .. Len(seqs)}
Mask(seqs) ==
  {Distance(seqs[1], seqs[i]) - 1 : i \in 2 .. Len(seqs)}

WriteNack(nack, capacity) ==
  IF Len(nack.seqs) \notin 1 .. MAX_NACK_SEQS THEN Refused("invalid_arg")
  ELSE IF capacity >= 16 /\ ~ Mask(nack.seqs) \subseteq 0 .. 15
       THEN Refused("unsupported")
  ELSE Written(capacity,
         Packet(FMT_NACK, RTPFB,
                << nack.sender_ssrc, nack.media_ssrc,
                   [pid |-> nack.seqs[1], blp |-> Mask(nack.seqs)] >>))

-----------------------------------------------------------------------------
\* A word asks for up to 17 numbers: its first, and the one that lies bit + 1
\* after it for every bit of its mask.
OFFSETS == 17

Asks(fci, offset) == offset = 0 \/ offset - 1 \in fci.blp

Number(fci, offset) == (fci.pid + offset) % SEQ_MOD

HasRoom_OneMore(seqs) == Len(seqs) <= MAX_NACK_SEQS
HasRoom(seqs) == Len(seqs) < MAX_NACK_SEQS

Visit(seqs, fci, offset) ==
  IF HasRoom(seqs) /\ Asks(fci, offset) THEN Append(seqs, Number(fci, offset))
  ELSE seqs

\* parse_nack_fci: word after word, and in each from the lowest bit
ParseNackFci(words) ==
  LET after[n \in 0 .. OFFSETS * Len(words)] ==
        IF n = 0 THEN <<>>
        ELSE Visit(after[n - 1], words[((n - 1) \div OFFSETS) + 1],
                   (n - 1) % OFFSETS)
  IN  after[OFFSETS * Len(words)]

\* The bytes of the packet, from its header: no more than the datagram has.
PacketLen(d) == (d.words + 1) * 4

HeaderSound(d) == PacketLen(d) <= d.len /\ PacketLen(d) >= 8

ReadSr(b) == [sender_ssrc |-> b[1], ntp_msw |-> b[2], ntp_lsw |-> b[3],
              rtp_timestamp |-> b[4], packet_count |-> b[5],
              octet_count |-> b[6]]

ReadRr(b) == [sender_ssrc |-> b[1], media_ssrc |-> b[2],
              fraction_lost |-> b[3].fraction,
              cumulative_lost |-> b[3].cumulative,
              extended_seq |-> b[4], jitter |-> b[5], last_sr |-> b[6],
              delay_since_last_sr |-> b[7]]

Parsed(kind, content) == [status |-> "ok", kind |-> kind, content |-> content]

\* mezia_rtcp_parse
ParseRtcp(d) ==
  IF d.len < 8 THEN Refused("malformed")
  ELSE IF d.version # 2 THEN Refused("unsupported")
  ELSE IF ~ HeaderSound(d) THEN Refused("malformed")
  ELSE IF d.pt = SR /\ PacketLen(d) >= 28
       THEN Parsed("sr", ReadSr(d.body))
  ELSE IF d.pt = RR /\ PacketLen(d) >= 32
       THEN Parsed("rr", ReadRr(d.body))
  ELSE IF d.pt = RTPFB /\ d.fmt = FMT_NACK /\ PacketLen(d) >= 16
       THEN Parsed("nack",
              [sender_ssrc |-> d.body[1], media_ssrc |-> d.body[2],
               seqs |-> ParseNackFci(SubSeq(d.body, 3, d.words))])
  ELSE IF d.pt = PSFB /\ d.fmt = FMT_PLI /\ PacketLen(d) >= 12
       THEN Parsed("pli", [sender_ssrc |-> d.body[1],
                           media_ssrc |-> d.body[2]])
  ELSE Refused("unsupported")
=============================================================================
