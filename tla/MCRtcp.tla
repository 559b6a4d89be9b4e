------------------------------- MODULE MCRtcp -------------------------------
(***************************************************************************)
(* The RTCP codec in use: one end writes a request or a report into a      *)
(* buffer of some capacity, and the other reads it from a datagram that    *)
(* may be cut short or hold other packets behind.  A request may also come *)
(* from another implementation, with any number of words.                  *)
(***************************************************************************)
EXTENDS Rtcp, FiniteSets, SequencesExt

CONSTANTS
  Nacks, Srs, Rrs, Plis,  \* what is to be said
  Foreign,                \* the words of requests of another make
  Capacities, Lengths     \* of the writer's buffer, and of the datagram

Words == [pid : Seq16, blp : SUBSET (0 .. 15)]

ASSUME RtcpAssumption ==
  /\ Nacks \subseteq [sender_ssrc : Nat, media_ssrc : Nat, seqs : Seq(Seq16)]
  /\ Srs \subseteq [sender_ssrc : Nat, ntp_msw : Nat, ntp_lsw : Nat,
                    rtp_timestamp : Nat, packet_count : Nat,
                    octet_count : Nat]
  /\ Rrs \subseteq [sender_ssrc : Nat, media_ssrc : Nat, fraction_lost : Nat,
                    cumulative_lost : Nat, extended_seq : Nat, jitter : Nat,
                    last_sr : Nat, delay_since_last_sr : Nat]
  /\ Plis \subseteq [sender_ssrc : Nat, media_ssrc : Nat]
  /\ Foreign \subseteq Seq(Words) \ {<<>>}
  /\ Capacities \subseteq Nat /\ Lengths \subseteq Nat

\* A packet as a datagram of len bytes: cut short, or followed by others.
Datagram(p, len) ==
  LET held == IF len < 4 THEN 0 ELSE (len - 4) \div 4 IN
  [version |-> p.version, fmt |-> p.fmt, pt |-> p.pt, words |-> p.words,
   len |-> len,
   body |-> [k \in 1 .. held |-> IF k <= Len(p.body) THEN p.body[k] ELSE 9]]

-----------------------------------------------------------------------------
VARIABLE exchange  \* what was to be said, what was written of it; or <<>>

Exchange(kind, content, capacity, result) ==
  [kind |-> kind, content |-> content, capacity |-> capacity,
   result |-> result]

SayNack ==
  \E nack \in Nacks, capacity \in Capacities :
    exchange' = Exchange("nack", nack, capacity, WriteNack(nack, capacity))

SaySr ==
  \E sr \in Srs, capacity \in Capacities :
    exchange' = Exchange("sr", sr, capacity, WriteSr(sr, capacity))

SayRr ==
  \E rr \in Rrs, capacity \in Capacities :
    exchange' = Exchange("rr", rr, capacity, WriteRr(rr, capacity))

SayPli ==
  \E pli \in Plis, capacity \in Capacities :
    exchange' = Exchange("pli", pli, capacity, WritePli(pli, capacity))

SayForeign ==
  \E words \in Foreign :
    exchange' = Exchange("foreign", words, 0,
      [status |-> "ok",
       packet |-> Packet(FMT_NACK, RTPFB, <<1, 2>> \o words)])

Say == /\ exchange = <<>>
       /\ SayNack \/ SaySr \/ SayRr \/ SayPli \/ SayForeign

Done == exchange # <<>> /\ exchange' = <<>>

RtcpInit == exchange = <<>>

RtcpSpec == RtcpInit /\ [][Say \/ Done]_exchange

-----------------------------------------------------------------------------
Said(kinds) == exchange # <<>> /\ exchange.kind \in kinds
WasWritten(kinds) == Said(kinds) /\ exchange.result.status = "ok"
Received(len) == ParseRtcp(Datagram(exchange.result.packet, len))
WholeLength == PacketLen(exchange.result.packet)

\* numbers a request can carry: the first, and up to sixteen after it
InReach(seqs) ==
  \A i \in 2 .. Len(seqs) : Distance(seqs[1], seqs[i]) \in 1 .. 16

(* A request for lost packets is written if and only if one packet can     *)
(* carry it and there is room, and then asks the peer for exactly those    *)
(* packets, the first one first, across the wrap too.                      *)
RequestSurvives ==
  /\ Said({"nack"}) =>
       (WasWritten({"nack"}) <=>
          /\ Len(exchange.content.seqs) \in 1 .. MAX_NACK_SEQS
          /\ InReach(exchange.content.seqs)
          /\ exchange.capacity >= 16)
  /\ WasWritten({"nack"}) =>
       LET got == Received(WholeLength)
           asked == exchange.content.seqs
       IN /\ got.status = "ok" /\ got.kind = "nack"
          /\ Head(got.content.seqs) = Head(asked)
          /\ ToSet(got.content.seqs) = ToSet(asked)
          /\ Len(got.content.seqs) = Cardinality(ToSet(asked))

\* what the peer makes of a report: the loss as far as its 24 bits go
AsRead(content) ==
  IF exchange.kind = "rr"
  THEN [content EXCEPT !.cumulative_lost = @ % 2^24] ELSE content

\* the numbers that words ask for: by word and offset, and in their order
Places(words) ==
  {p \in (1 .. Len(words)) \X (0 .. OFFSETS - 1) : Asks(words[p[1]], p[2])}

PlaceBefore(p, q) == p[1] < q[1] \/ (p[1] = q[1] /\ p[2] < q[2])

Rank(words, p) == Cardinality({q \in Places(words) : PlaceBefore(q, p)})

\* seqs are the first numbers the words ask for, all of them or 64
IsFrontOf(seqs, words) ==
  LET all == Cardinality(Places(words)) IN
  /\ Len(seqs) = IF all < MAX_NACK_SEQS THEN all ELSE MAX_NACK_SEQS
  /\ \A p \in Places(words) :
       Rank(words, p) < MAX_NACK_SEQS =>
         seqs[Rank(words, p) + 1] = Number(words[p[1]], p[2])

(* A datagram is read as what its packet says if it holds all of it,       *)
(* whatever follows, and refused if it does not: no word is read that is   *)
(* not there.  A request of another make, of any number of words, fills no *)
(* more than the 64 places there are.                                      *)
ReadsWhatItHolds ==
  /\ WasWritten({"sr", "rr", "pli"}) =>
       \A len \in Lengths :
         Received(len) = IF len >= WholeLength
                         THEN Parsed(exchange.kind, AsRead(exchange.content))
                         ELSE Refused("malformed")
  /\ WasWritten({"foreign"}) =>
       IsFrontOf(Received(WholeLength).content.seqs, exchange.content)
=============================================================================
